# edge-voice in TLA+

Specifications of the edge-voice pipeline (two voice channels in over MQTT,
live transcripts out to a kiosk page), their TLC runs and their TLAPS proofs.
Source paths below are relative to `src/src/edge_voice/`; `PROJECT.json` maps
every definition to the lines it stands for.

Check a module with `tlc -workers 2 -config <run>.cfg <module>`, a proof with
`tlapm <module>.tla`. Every module parses on its own; the `MC*` modules only
give constants their values.

## 1. The system

systemd starts one Python process (`cli.py`). It runs a chain of threads
connected by bounded `queue.Queue`s, and one child process per channel for STT:

    softphone --MQTT--> MQTTIngestClient --ingest--> ChannelRouter --routed--> VADWorker --> SegmentAudioDump
                                                         |                        |
                                                    AudioDumpWorker     segments[c] (per channel)
                                                                                  |
      console.js <--SSE-- webui/app.py <-- TranscriptHub <-- receiver[c] <-- STT child[c]

    Supervisor: scans the workers every tick, replaces a dead or stalled one on a restart thread
    Orchestrator: owns the workers and queues; build(), start(), stop(), restart callbacks, get_status()
    systemd: restarts the process when it dies, is not ready in time, or its WATCHDOG=1 pings stop

| Component (source) | State it keeps | Operations | What is hard | What makes it correct |
|---|---|---|---|---|
| MQTT ingest (`audio_ingest/mqtt_client.py`) | connected flag | on_connect, on_disconnect, on_message, stop | packets lost or late; queue full; a refused session | a full queue drops, never blocks for good; the flag says what is so |
| Channel router (`channel/router.py`) | per channel a carry of samples and the clock of its first one | run, process, reset_channel (no caller) | gaps, 20 ms in and 32 ms out, replacement in the middle | audio leaves once and in order; timestamp error is bounded |
| Fan-out and queues (`pipeline/fanout.py`, `queues.py`) | bounded queues | fanout_put, up to 0.2 s per queue, one after the other | full queues; a reader that died | bounded, a drop is counted; a copy costs the pipeline nothing |
| VAD worker (`vad/vad_worker.py`) | per channel: preroll, open segment, ids, detector's triggered flag | one packet, idle flush, hard cut, soft cut, partial, shutdown flush | worker and detector state must agree after every cut and flush; partial against final | no speech lost, repeated or overlapping; a segment closes once |
| STT worker (`stt/stt_worker.py`) | segment in hand, the decoder's stream, the collector, latency | run loop, final, partial, skip | one decoder for all segments, failures in the middle of one | an answer is its own segment's |
| STT process (`stt/stt_process.py`) | heartbeat, ready and stop events | bridge thread, load, kill | death between any two steps; a queue per child incarnation; load, work and hang told apart from outside | transcripts in order; every final answered or its loss explained; a busy child left alone |
| Supervisor (`pipeline/supervisor.py`) | per worker: restart times, restarting, degraded | scan, trigger, restart thread, await | races with stop(), stalls, budget | one active instance; degraded is final; a crash is handled |
| Orchestrator (`pipeline/orchestrator.py`) | worker handles, queues, `_running`, stop event, receivers | build, start, await readiness, stop, `_restart*`, receivers, get_status | three threads swap and stop the same handles; a deadline inside systemd's | nothing survives stop(); the wiring survives a restart |
| Transcript hub (`pipeline/transcript_hub.py`) | backlog of finals, set of subscriber queues | publish, subscribe, unsubscribe, clear | publish puts outside the lock | each event once per subscriber, in channel order |
| Web API and console (`webui/app.py`, `static/console.js`) | the page's bubbles, live bubbles | SSE stream, clear, start, stop, status | EventSource reconnects by itself; clear crosses publishes | feed in time order; no bubble left half-written |
| Audio dump (`audio_ingest/audio_dump.py`, `atomic_write.py`) | per channel buffer and file number | run, full file, final flush, atomic write | a crash or power cut between write and rename | recording complete, in order, never torn |
| Segment dump (`audio_ingest/segment_audio_dump.py`) | its list of files, a counter | run, stop, is_alive | dies of a full disk while the VAD goes on putting | does not hold the pipeline up while it lives |
| Metrics and health (`observability/metrics.py`, `health/reporting.py`) | last snapshot | tick, report | live state mixed with an older tick | no outage or dead worker hidden for good |
| Settings (`config/settings.py`, `configs/`) | — | load, merge, validate | four layers of nested sections | the stated precedence |
| systemd unit and watchdog (`deploy/edge-voice.service`, `pipeline/systemd_watchdog.py`) | unit state, start limit | READY=1, WATCHDOG=1, Restart=always | timeouts of unit and process against each other | a boot that cannot work ends in `failed`, one that can stays up |
| CLI, logging, generators, benchmarks | — | — | — | argument parsing and I/O, apart from the CLI's order of build, start, serve, stop |

`PROJECT.json` lists 40 hazards of this code at the line where each bites,
with the properties that guard against it.

## 2. Which module models what

| Module | Models | State and actions against the code |
|---|---|---|
| `UtteranceStream` | what one channel's segment queue promises its reader (abstract) | `opened`, `current`: utterances begun, and the one in progress; `out`, `lost`, `taken`: the queue with its history. `Begin`, `Revise` (a partial), `End`, `Cut` (an end that is the next beginning), `Take`. |
| `VadWorker` | `vad/vad_worker.py` with the fan-out to the segment queues | `segment_chunks`, `preroll`, `triggered`, `segment_id`, ... are the fields of `_ChannelState`; `vad_triggered` is the `triggered` of Silero's `VADIterator`, kept apart because the two may disagree. `HandlePacket` is `_handle_packet` (preroll, start, growth, end, hard and soft cut, partial), `FlushIdle` is `_flush_idle`, `Shutdown` the flush after the loop. `queued`/`taken` are a segment queue with its history, `dropped` what the bounded put gave up. `Stream(c)` is its refinement mapping to `UtteranceStream`. |
| `Supervision` (+ `MCSupervision`) | `pipeline/supervisor.py`, start/stop/`_restart` of `pipeline/orchestrator.py`, `cli.py`, the systemd unit | An instance `<<w, k>>` is the k-th object made for worker `w`; `cur` is the orchestrator's attribute. The supervisor's loop, each restart thread, the starter and the stopper have a program counter each (`sup`, `rt[w]`, `starter`, `stopper`), one action per step between which another thread can act. A second Ctrl-C may interrupt `stop()` in any of its joins: those of the workers are in its `try` (`InterruptDrain`), those of the metrics thread and the supervisor before it (`InterruptEarly`). |
| `TranscriptHub` | `pipeline/transcript_hub.py` and the SSE generator of `webui/app.py` | `Publish` is the part of `publish` under the lock, `Put`/`PutFull` one subscriber's turn after it. `got`/`read` are a subscriber's queue with its history. |
| `ConsoleFeed` (+ `MCConsoleFeed`) | `webui/static/console.js`, composed with the hub (EXTENDS) | `bubbles` is the DOM's feed; `Apply` is `applyMessage`; connections break, the page reloads, clear is a request in flight. `liveBubbles` is not a variable: its entries are exactly the bubbles shown as partial. |
| `ChannelRouter` (+ `MCChannelRouter`) | `channel/router.py`, `on_message`, the fan-out put, the router's replacement | `buffer`/`start_ts` are the `Repacketizer`'s; audio is numbered units, so a frame shows which audio it carries. |
| `SttPath` | one channel from segment queue to hub: `STTWorker.run` in `STTProcess`, the parent's receiver, replacement, `stop()` | `feeder` and `transcripts[k]` are the multiprocessing queue of the k-th child: what is in the feeder dies with a killed child, what is in the pipe does not. The segment queue outlives its readers, and a child that dies in its `get` keeps the queue's reader lock (`lock_lost`). |
| `Heartbeat` | the child's bridge thread and the supervisor's stall rule | times are ages in bridge intervals, capped just above the timeout; the actions are the parts of `SttWorker`'s that the bridge can tell. |
| `SttWorker` | `stt/stt_worker.py`: the decoder's stream, the collector, partials, latency, composed with `Heartbeat` (EXTENDS) | `stream` is what audio the one decoder holds, `lines`/`best_partial` the `_TranscriptCollector`'s; `Transcribe`, `LineChanged`, `LineCompleted`, `CloseSession`/`SessionRaised` are `_transcribe`, which may hang, die or raise in between. |
| `Fanout` | `fanout_put` in time, `segment_audio_dump.py`, the stage between them | `waited` is how long the put at hand has waited; `left` how long the files at hand still take. The writer tests its stop event, then gets for up to `GetWait` (`WriterTests`, `WriterGets`, `WriterEmpty`), and dies of a failed write. |
| `Settings` | `config/settings.py` as operators | a layer is a partial function from sections to dicts; the environment is a set of variables, each a prefix, a section and a field, and is a layer as far as its prefix is the one pydantic-settings reads (`Spelled`). `Load` is what the program does, `Promised` the stated precedence. |
| `Startup` (+ `MCStartup`) | the unit, `main()`, `build()`, `start()` with `_await_stt_ready`, the supervisor's messages and its targets, in time (EXTENDS `Settings`) | `unit`/`since` and `begun`/`starts` are systemd's state and start limit, `at` the line `main()` is at, `queues`/`worker` who reads and writes which queue. |
| `AudioDump` | `audio_dump.py`, `atomic_write.py` | `files` is the directory a process sees, `durable` what is on the medium; `ProcessDies` and `PowerLoss` may come between any two steps of a write, `Settle` is the kernel's writeback, in any order, a name before its data included. |
| `Health` | `mqtt_client.py`'s flag, `metrics.py`, `health/reporting.py`, `get_status`, the page's poll | the status request reads workers, supervisor records and the degraded flag in three steps. |
| `VadWorkerProofs` (also about `UtteranceStream` and `Fanout`), `SupervisionProofs`, `SttWorkerProofs`, `SttPathProofs`, `ChannelRouterProofs`, `ConsoleFeedProofs`, `AudioDumpProofs`, `StartupProofs` (also about `Settings`) | theorems, section 4 | |

How they meet. `UtteranceStream` is the seam between the VAD and STT:
`VadWorker` implements it, and `SttPath` (`Emits`) and `SttWorker` (`Queue`)
take their input by its rule. `Supervision` has the races of one worker's
replacement; `ChannelRouter`, `SttPath`, `SttWorker`, `Health` and `Startup`
take a replacement as one step of theirs and have what it does to their data.

Granularity. An action is a stretch of code during which no other thread can
see or change what it touches. The VAD worker's and the router's per-channel
state is private to their thread, so handling one packet is one action (the
router's puts, which others see, are one each). A bounded `put` either finds
room, possibly because the consumer took first, or times out and drops: the
wait itself is the consumer's action coming first; `Fanout` is where its length
counts. The hub's `publish` is two-phase because the code releases its lock in
between. `_restart`, `start` and `stop` are cut at every read or write of a
field another thread writes.

Data. Audio is named by its position in the stream and time is counted in
chunks (VAD), in a common divisor of the frame sizes (router), in bridge
intervals (heartbeat) or in ticks of which what is due is done first
(`Fanout`, `Startup`); a transcript is the id of its utterance, and a
decoder's line an utterance and a number. Silero's answer is nondeterministic
within the contract of `VADIterator` (`start` only when clear, `end` only when
set); a decode yields text or nothing. In `VadWorker` a packet has a position
in its channel's stream and a timestamp, which is up to `Jitter` later: the
router anchors its clock on arrivals (`router.py:99-103`), so stamps may step
back or overlap. Positions are on the clock of the stamps: audio missing
before a packet shows at the next anchor (`Gaps`), where both go on behind it.

External (modelled from how this code uses them): Silero's `VADIterator`,
Moonshine's `Transcriber`, `multiprocessing.Queue`, paho's callbacks, systemd,
the file system, the browser.

## 3. The runs

Each run's properties are the INVARIANTs and PROPERTYs of its `.cfg`.

| Run | States | Shows |
|---|---|---|
| `VadDeployed` | 745 k | The shipped settings scaled down (hard cap, partials, no soft cut), positions up to 7, gaps, stamps without jitter, a queue of 2. `ImplementsStream`: on the queue's side the worker does nothing but what `UtteranceStream` allows. `NothingAfterFinal`, `PartialIsPrefix`: a segment closes once, and its partials are prefixes of its final. `SegmentsWithinLimits`: the counters restart at cuts. `DetectorInSync`: an open segment means a triggered detector. |
| `VadSoftCut` | 621 k | The soft cut on, stamps up to a chunk late: the tail carried over is neither repeated (`AudioInOrder`) nor lost (`SpeechKept`: what the detector counted as speech is in a final that was queued, in one whose drop was reported, or in the segment in progress), and every utterance is eventually emitted although its channel may fall silent (`EveryUtteranceEmitted`). `TimelineOrdered`: wherever an end comes from (a packet's stamp, the start plus a chunk count, after a cut or a flush), the finals of a channel overlap by no more than the jitter, so errors do not add up over cuts, and not at all without it. |
| `VadIdleAfterCut` | violation | see section 5 |
| `Supervision` | 719 k | One worker, a budget of two restarts, four instances, replacements that may fail to build, crashes, wedges, API start and stop, a Ctrl-C at any step of a stop, a second boot by the watchdog or after the process died. `OneActiveInstance`: at most one instance not told to stop. `NothingSurvivesStop`: also when a restart outlives the stopper's patience, and when a Ctrl-C cuts the drain short (before the drain it does not hold: `InterruptSignalsAll` in section 6). `DegradedIsFinal`: a degraded worker is never swapped again. `CrashHandled`: a crash ends in a live replacement, degradation, a stop, or a restart that raised. |
| `Feed` | 1.7 M | Two publishing channels, a page with two connections, SSE breaks, reloads and clears. `DeliveredOnce`, `BacklogReachesAll`: a subscriber that joins during a publish gets the event once. `ChannelOrder`: also across replay. `ChronologicalFeed`, `SettledWhenCaughtUp`: the page. |
| `Router` | 2.4 M | 2 units in, 3 out, jitter, losses, bad packets, one replacement. `AudioAccounted`, `RoutedInOrder`: no sample invented, lost silently, mixed between channels or reordered. `DriftHeals`: a wrong timestamp after a gap lasts at most one cycle of the carry. |
| `Stt` | 259 k | Two utterances, one replaced child. `TranscriptsInOrder`; `FinalsAnswered`: every final queued while the pipeline runs is published, has no text, died with the child that held it, was left in a replaced child's queue, or waits behind a lost reader lock. |
| `SttChild` | 555 k | Two utterances, two lines each, two faults (hang or death). `OwnAnswerOnly`: an answer holds only words of its own audio and its own latency, whatever went wrong before it. `BusyChildKept`: a child that decodes is not restarted for a stall. `FinalsServed`: a child that dies or hangs is noticed and its successor goes on with the queue, unless the reader lock died with it. |
| `HealthReport` | 626 k | A worker past its budget, a broker and a channel that come and go, a supervisor that may die. `OutageShown`, `OutageClears`, `DeadRowShown`, `ChannelsFollowed`: what lasts comes to be shown, and what is over does not stay. |
| `Dump` | 1.6 M | Two channels, two boots: numbered files hold the audio in order without overwriting (`RecordingInOrder`), `stop()` flushes every tail (`StopFlushes`), and no step of a write and no death of the process makes a torn file (`OnlyPowerTears`); the kernel writes back in any order. |
| `Fanout` | 12.9 k | A stage, its next stage and a writer of copies that may die. `MainPathKept`: while the writer lives nothing is lost on its account; `EveryItemThrough`: when it is dead the stage goes on, slower. |
| `Startup` | 110 k | The boot with the shipped times: settings that load with a supervisor, without one or not at all, models that load, hang or never are ready, a port that is taken, one failing worker. `LoopBreaks`: a boot that fails each time ends in `failed`; `RestartsKeepPings`: a long restart does not stop the pings; `FailureHealed`: a replacement is wired to the queues of the one it replaces. `LayersMerged`: files and variables that name sections in part, or leave one empty in between, come to the stated precedence, for the variables that are read. |

Each property of a passing run has a mutant of the code's translation (a
dropped guard, an off-by-one, a missing reset) under which TLC finds it
violated with the run's own bounds, so the bounds are large enough for each to
bite.

Bounds. Named in the modules as BOUND constants. `VadWorker`: 7 chunks with a
cap of 5 allow a cut, the tail after it and a second segment; with the soft cut
6 chunks allow a search window, a cut behind the present and its tail; a jitter
of one chunk is enough for two stamps to be in the wrong order. `Supervision`:
four instances and a budget of two allow two restarts, a third after the window
slid, degradation, and a stop or a reboot at any step of each. Its safety
properties are proved for any set of workers; TLC checks them for two, one of
them a killable process, with `Order <- TwoWorkers`, `Killable <- SttOnly`,
`MaxRestarts = 1`, `MaxInstances = 2` (1.2 M states), but the liveness of that
instance takes more than three minutes and the run keeps to one worker. `Feed`:
one utterance overtaken across channels, one with its partial, three finals for
a backlog of three and a queue of two, so that `subscribe` meets a full queue;
the eviction of the oldest final (a `deque` with `maxlen`) would need a fourth
final and is not reached: that run takes longer than five minutes. `Router`:
six packets are the fewest that lose one, run behind and anchor again; the
other channel has one packet, whose carry must stay out of the way. `Stt`: two
utterances, two children (proved for any number). `SttChild`: one utterance
spoils what the next finds; one interval without CPU is the fewest that stalls
a busy child. `Dump`: one full file and a tail per channel and boot. `Fanout`:
a wait three items long and ten items, so that queues of two fill, overflow and
drain. `Startup`: ticks of 3 s make the program's own numbers small (90 s, 10
s, 5 starts in 300 s, 120 s for the children); one failure at a time, since
`Supervision` has the rest. A supervisor starts there only when the children
are ready within 90 s, as systemd does not wait for the 120 s. Of the settings
it has those the boot tells apart, and layers that come to them in different
ways. `LayersMerged` is proved for all settings, and TLC checks it for all
those of the module with `Configurations <- Sources`, `Spec`, no failures, a
limit of 2 starts in 3 ticks and every other time 1, on which it does not
depend (375 k states); one environment is spelled in one way. Integers do not
overflow in Python, so there is no width to model.

Fairness. `VadWorker`: weak fairness of the thread's loop and of a quiet
channel's time passing; the environment is not required to send anything.
`Supervision`: weak fairness of the supervisor, restart threads, starter and
stopper, all plain Python threads whose waits are bounded in the code
(`join(timeout)`, `wait(timeout)`), and of systemd's watchdog timer. No
fairness is given to crashing, to a wedged worker's waking, to API calls or to
a Ctrl-C. `SttPath`: of the child, its bridge and feeder threads, the
supervisor's restart and the receiver. `SttWorker`: a child that is not hung
runs, time passes, the supervisor scans. `Health`: the metrics tick (whose
thread nothing watches: `OutageShown` takes it that it lives) and a started
request go on; polls may be skipped or fail. `Fanout`: its threads and time, no
arrival and no stop. `Startup`: all but failures happens by itself.

Exemptions. `FinalsServed` leaves out a hang on the last segment with nothing
waiting behind it, which nobody ever notices, one during the load, and a queue
whose reader lock died with a child (`FinalsAnswered` too; `BacklogConsumed` in
section 6); `BusyChildKept` leaves out a child that had an interval without
CPU, and one that was idle when the segment came (both in section 6).
`CrashHandled` leaves out a restart that raised, which also leaves the page's
row at `restarting`.

## 4. What is proved

TLAPS proves these for every value of the constants, under the named
assumptions of the modules (`VadAssumption`, `SupervisionAssumption`,
`HeartbeatAssumption`, `SttWorkerAssumption`, `SttAssumption`,
`RouterAssumption`, `HubAssumption`, `SizesAssumption`, `BoundsAssumption`,
`StartupAssumption`, `ConfigurationAssumption`, `SettingsAssumption`: a dict is
not Python's `None`), which give the constants their types, make sizes
positive, and leave room in `MaxInstances` for the restarts of one budget. What
a theorem asks of times besides is in its statement: `Lag <= Period`,
`WriteTime <= Period`, `Wait <= Period`. No fairness is involved: they are
theorems of `Spec`.

| Theorem | Statement |
|---|---|
| `VadWorkerProofs!TypeCorrect` | `Spec => []TypeOK`: also the bounds of preroll and segment queues |
| `VadWorkerProofs!StaysInSync` | `Spec => []DetectorInSync` |
| `VadWorkerProofs!FinalCloses` | `Spec => []NothingAfterFinal` |
| `VadWorkerProofs!Refinement` | `Spec => ImplementsStream` |
| `VadWorkerProofs!UtterancesClosedOnce` | the abstract stream keeps `ClosedOnce`: exactly one final, or one reported drop, per utterance that is over, and ids in order |
| `VadWorkerProofs!ReaderSeesEachClosedOnce` | the two joined: `VadWorker` keeps `ClosedOnce` on any channel |
| `VadWorkerProofs!SpeechIsKept` | `Spec => []SpeechKept` |
| `VadWorkerProofs!AudioStaysInOrder` | `Spec => []AudioInOrder` |
| `VadWorkerProofs!TimelineStaysOrdered` | `Spec => []TimelineOrdered`: for any jitter of the stamps |
| `VadWorkerProofs!LimitsKept` | `Spec => []SegmentsWithinLimits` |
| `VadWorkerProofs!PartialsArePrefixes` | `Spec => [](SoftCutEnabled \/ PartialIsPrefix)` |
| `SupervisionProofs!TypeCorrect` | `Spec => []TypeOK` |
| `SupervisionProofs!OneActive` | `Spec => []OneActiveInstance` |
| `SupervisionProofs!StopLeavesNothing` | `Spec => []NothingSurvivesStop`: a `stop()` that reached its workers, interrupted there or not |
| `SupervisionProofs!DegradedStays` | `Spec => DegradedIsFinal` |
| `SttWorkerProofs!AnswersAreOwn` | `Spec => []OwnAnswerOnly` |
| `SttWorkerProofs!BusyIsKept` | `Spec => BusyChildKept` |
| `SttPathProofs!InOrderThroughout` | `Spec => []TranscriptsInOrder` |
| `ChannelRouterProofs!RouterInvariant` | `Spec => []RouterInv`: the invariant the next three follow from |
| `ChannelRouterProofs!AudioIsAccounted` | `Spec => []AudioAccounted` |
| `ChannelRouterProofs!RoutedStaysInOrder` | `Spec => []RoutedInOrder` |
| `ChannelRouterProofs!DriftAlwaysHeals` | `Spec => []DriftHeals` |
| `ConsoleFeedProofs!HubDelivers` | `HubSpec => [](DeliveredOnce /\ ChannelOrder /\ BacklogReachesAll)`: the hub alone, whoever listens |
| `ConsoleFeedProofs!EachAtMostOnce` | `Spec => []DeliveredOnce`: the hub with the page |
| `ConsoleFeedProofs!ChannelsStayInOrder` | `Spec => []ChannelOrder` |
| `ConsoleFeedProofs!BacklogReaches` | `Spec => []BacklogReachesAll` |
| `ConsoleFeedProofs!FeedIsChronological` | `Spec => []ChronologicalFeed` |
| `ConsoleFeedProofs!ReplaySettles` | `Spec => []SettledWhenCaughtUp` |
| `AudioDumpProofs!RecordingIsKept` | `Spec => []RecordingInOrder` |
| `AudioDumpProofs!StopWritesAll` | `Spec => []StopFlushes` |
| `AudioDumpProofs!NeverTorn` | `Spec => OnlyPowerTears`: the power is the only thing that tears (and it does: section 6) |
| `VadWorkerProofs!CopiesCostNothing` | `Wait # 0 /\ Lag <= Period /\ WriteTime <= Period => (FanoutSpec => []MainPathKept)` |
| `VadWorkerProofs!ShortWaitsCostNothing` | `Wait # 0 /\ Wait <= Period /\ Lag <= Period => (FanoutSpec => []CopyCostsNothing)` |
| `StartupProofs!PrecedenceKept` | `Spec => []LayersMerged` |
| `StartupProofs!WaitHasOneDeadline` | `Spec => []OneDeadline`: the wait for the children is over after `ProcessStart`, so systemd gives up on a boot that is to be supervised only if `StartTimeout <= ProcessStart`, as shipped (section 6) |
| `StartupProofs!PingsSurviveRestarts` | `Spec => RestartsKeepPings` |

**VAD.** The invariant is `VadInv == TypeOK /\ DetectorInSync /\ IdsMinted /\
NothingAfterFinal`. That no id comes back after its final is not inductive: a
step that opens a segment takes the next value of the channel's counter, and
nothing in `NothingAfterFinal` says that value was not used. `IdsMinted` does
(no id in a queue or in the open segment is above the counter). A cut both
closes one id and opens the next in one step; there `DetectorInSync` is needed
to know that only a channel with an open segment can be cut. One lemma per
action (`StartSegmentInv`, `EndSegmentInv`, `CutSegmentInv`,
`FlushChannelsInv`, ...), on lemmas about the puts (`PutFinalIds`,
`PutPartialIds`) and the new id (`MintIds`); `NextVadInv` joins them.

**The contents of segments.** `AudioInv` adds for each channel what its
segments are made of. `AudioLine`: finals, segment in progress and preroll are
ascending, each before the next, and nothing is later than the last packet.
`TimeLine`: a start plus the chunks counted since is ahead of the clock by no
more than the jitter, although ends are computed in three ways (the packet's
stamp, the start plus a cut, the start plus a length), and the preroll's stamps
are later than its audio by the jitter at most (`Stamped`); without it a final
closed by the detector could end long before it starts, and each cut could add
to the error of the one before. `Spoken`: where speech may be. Each action is
one of five operations on these (a packet is appended, the preroll forgets its
oldest, it becomes a segment, a segment is split in two, a final is put or
dropped), with a lemma for each: `PrerollGrows`, `PrerollForgets`,
`SegmentStarts`, `SegmentGrows`, `SegmentCloses`. A cut at any position, the
end of speech and a flush are all a `Split`, the latter two with an empty rest.
`PartialInv` adds the partials: those of the segment in progress are prefixes
of its audio with its start (`Prefixes`, without the soft cut), not longer than
`last_partial` says (`Paced`), and a segment is short enough that its next
packet cannot take it past the cap (`Within`).

**The refinement.** `Refinement` is the step simulation under `VadInv`: the
step of one channel is a step of its abstract stream and leaves every other
channel's alone. A packet is `Begin`, `Revise`, `End` or a stutter, a cut with
its final and the first partial of the next segment is one `Cut`. The flush at
shutdown ends the utterances of all channels in one step, which is an `End` of
each. `UtterancesClosedOnce` needs the steps of the abstract module alone:
`StreamInv` says that the utterance in progress is the last one opened and has
no final yet, and each before it has one. `ReaderSeesEachClosedOnce` joins it
to the refinement for an arbitrary channel, the constant `ch`, whose stream is
the instance `Reader`: tlapm's temporal prover cannot handle an instance
with a parameter, as `Stream(c)` is.

**Supervision.** The invariant is `SupervisionInv`: the types and

- `RoomForRestarts`: the budget never allows a restart that the bound
  `MaxInstances` has no instance for (type correctness of `cur` needs it);
- `ReplacesSignalled`: a restart thread replaces the instance it signalled, so
  the swap cannot create a second unsignalled one. This gives
  `OneActiveInstance`;
- `StartsCurrent`: `start()` does not start an instance that was swapped out
  behind its back unless it was told to stop;
- `StopReachesAll`: once `stop()` has its snapshot (a Ctrl-C before that is
  outside the theorem), whatever lives, is still to be started by `start()`, or
  is about to be started by a restart thread that passed its check, is
  signalled or will be (`Told`). At `stop()`'s end nothing is left to be told,
  nor where a Ctrl-C ends the drain, since the `finally` clause tells them all:
  `NothingSurvivesStop`.

`DegradedIsFinal` needs `NoRestartOfDegraded` besides: a degraded worker has
no restart thread under way, so nothing is left that could swap it.

**STT worker.** `SttInv` ties what the decoder and the collector hold to the
segment at hand: `StreamOfWork` (between sessions the stream is empty, in one
it has the audio of that final only), `CollectorOfWork` (lines and best
partial are words of that audio that do not loop), `InHand` (when there is a
segment at hand at all). `OwnAnswerOnly` follows where a session closes, and
only because every path out of `_transcribe` stops the stream. `BeatInv` has
the ages of the two stamps and what the bridge has seen of a busy child: the
published heartbeat is fresh after each interval with CPU.

**STT path.** What is on its way lies in stages, the oldest first: published,
the pipes of the children in their order, the feeder, the segment in hand, the
segment queue. `PathInv` says that each stage is in order, each precedes the
later ones (`InOrder`) and the VAD's last segment is the newest (`Upto`), with
one exception: a pipe the receiver has left is not compared with what it
published. Every step moves the head of a stage behind an earlier one with
nothing between (`MoveKeeps`), puts a segment last (`PutKeeps`), forgets a
stage (`ForgetKeeps`) or lets the receiver go on to a later pipe
(`RereadKeeps`).

**Router.** A frame is cut from a carry that packets of another size fill, so
every bound is a product or a remainder of two constants. `RouterInv` is the
types, `AudioAccounted` itself and

- `IngestInOrder`: packets that wait are younger than what their channel had
  accepted, and stamped up to the jitter after their capture;
- `FramesKept`, `CarryKept`, `HeldInOrder`: a frame and the carry hold units
  that accepted packets brought, ascending, and what was routed precedes what
  is about to be put, which precedes the carry;
- `ClockKept`: the carry's clock was set by some packet `a`, `g` packets were
  accepted since, and the carry is `g * IncomingUnits % OutgoingUnits` long.
  `Window` packets after an empty carry it is empty again (`WindowIs`), so `g`
  stays below `Window` and the error that packet `a` left cannot outlive a
  window: `DriftHeals`.

A packet is one concatenation (`JoinIs`) that is then cut (`CutCovers`: every
unit is in one frame or in the rest, at a place division and remainder give).
A proof about `FlattenSeq` of the routed frames would need its recursion;
`ConcatIncreasing` gets there with what `HeldInOrder` says of any two frames.

**Hub and page.** `publish` puts outside its lock, so what a queue holds says
nothing yet about what is on its way to it. `HubInv` adds that: of each
channel what was published is the last event or older (`BacklogPublished`,
`QueuesPublished`), and what is still to be put into a queue follows what the
queue has (`StillToCome`). Then `DeliveredOnce` is a consequence of
`ChannelOrder`. `SettlesLater` is the page's part: the final of a bubble shown
as partial, if the backlog has it, is unread by the page's connection, in its
queue or on its way there, so a page that has read all shows none. The seed
of a queue is a sort, given by the rank of each event and not by a CHOOSE among
permutations, so that `OriginOf` and `SortedIs` can say what it puts where.
`FeedHubStep` shows the page to drive the hub through its operations only,
which is why the hub's invariant holds in the composition.

**Recording.** `DumpInv` says for each channel where each part of its audio
is: block `i` of it is in file `i` (`FullFilesKept`), or among the files at
hand, which are the next ones in their order (`AtHand`), and what follows the
last full file is in one place of three: the buffer, the file at hand, or the
trailing file on disk (`TrailingKept`; the last two only once the loop has
ended, `Phases`). `OfThisBoot` keeps a file of an earlier boot from passing for
one of this boot, and `QueueFits` keeps file numbers in the model's range.
`NeverTorn` follows from what a replace puts in place: a whole file.
`RecordingInOrder` concatenates all files, a recursion; `PiecesJoin`
shows that adjacent pieces of a sequence, in their order, are one piece. The
library's induction theorems cannot be used here, as they take an operator as
a parameter; the induction is on the set of numbers that have the property
(`InductiveSet`, from the least element of its complement, `WFMin`).

**Debugging copies.** `Fanout`'s puts wait one after the other, so a stage
could be late for its next item, and the item for its source queue. `PaceInv`
bounds each wait by the time since the last item came (`gap`). Before the next
one is due the stage has handed its item on, and only the copy may still wait
(`StagePace`); the next stage has at most one item more than it is working on,
and that for an instant (`ReaderPace`). `WriterPace` is what a living writer
adds: when an item comes, the copy before it is off the queue and written or
just being finished, so no copy waits at all. Then nothing is lost, for queues
of any size. Without a living writer a copy may wait for all of `Wait`, which
is harmless only while that is not above `Period`: `ShortWaitsCostNothing`,
the bound within which `fanout.py:71` is right (section 6 has the code beyond
it). The hypotheses are needed: TLC finds an item lost when any of
`Lag <= Period`, `WriteTime <= Period` and `Wait # 0` is dropped, and
`CopyCostsNothing` violated when `Wait <= Period` is. The proofs stand
beside the VAD worker's, which is the stage whose segments are copied;
`Fanout`'s specification has names of its own (`FanoutInit`, `FanoutNext`) so
that one module can extend both.

**Boot and settings.** `LayersMerged` compares two computations that have
little in common: merging dicts from the lowest layer up, with defaults filled
in at the end, and looking for the last layer that names a field.
`MergeIsLayer` and `MergeNames` say what one merge leaves of a section and of a
field, `MergedStack` and `MergedField` what two of them do to three layers, and
`LoadIsPromised` is the equality, the validator's refusal included. It needs no
invariant but that layers are layers (`LayersInv`); that this holds after a
restart of the unit is `LoadedIsLayer`: what was loaded is a layer again. For
`OneDeadline` the time since systemd started the unit must be tied to the time
`main()` has spent: `BootInv` says nothing has passed before the wait, and
during the wait the two clocks agree, so that its one deadline for all channels
bounds both. It is about the order of the two deadlines, whatever they are: as
shipped, `StartTimeout` is the shorter, and `SupervisorTakesOver` (section 6)
does not hold. `PingInv` has who made the unit active, the supervisor's first
message, from which on each tick has its ping, whatever restart threads do.

TLC checked each strengthened invariant on the run of its module before it was
proved. Every safety invariant and every action property of a passing run is
a theorem. The liveness properties are not, and so are known for the runs'
instances only: no rule for fairness or ENABLED is at hand here. `Health` has
liveness properties only.

No module declares a RECURSIVE operator.

## 5. What the code does not keep

This run checks one statement of the repository and ends in a counterexample.

| Run | What the code does |
|---|---|
| `VadIdleAfterCut` (`QuietChannelRearmed`) | `_flush_channel` returns before `reset_states()` when the segment is empty. Right after a hard cap it is empty, so a channel that falls silent there keeps its `VADIterator` triggered and swallows the start of the next utterance -- what the comment at `vad/vad_worker.py:330` says the reset is for. |

## 6. Other divergences

Found with the same modules; each is a definition there (but for one, a
stronger `BusyChildKept`), preceded by the statement of the code it comes from,
that TLC refutes when it is made the property of the configuration named, with
`FairSpec` if it is a temporal one. They are kept out of the list of runs,
which has one run per question.

"Supervision, short" stands for `Supervision.cfg` with `BuildMayFail = FALSE`,
`MaxRestarts = 1`, `MaxInstances = 2` and the `MaxBoots` given.

| Property (module) | The statement | The code | To see it |
|---|---|---|---|
| `InterruptSignalsAll` (`Supervision`) | `orchestrator.py:269`: a second Ctrl-C may interrupt the drain, so all are signalled before it propagates | the `try` whose `finally` signals them begins after the joins of the metrics thread and the supervisor (253-262); a Ctrl-C there (`cli.py:102`) leaves `stop()` with all workers running, most of them non-daemon | `Supervision` |
| `BacklogConsumed` (`SttPath`) | `docs/RELIABILITY.md:258`: what piled up in the segment queue is consumed by the new child | a child waits in `Queue.get(timeout)` (`stt_worker.py:397`), under the queue's reader lock; killed there it never releases it, its successor reads the same queue (`orchestrator.py:940`) and gets `Empty` for ever, is found stalled, and ends degraded | `Stt` with `MaxSegments = 1` |
| `NoTornFile` (`AudioDump`) | `atomic_write.py:3-9`: after a loss of power the old file or the complete new one, never a torn one | nothing calls `fsync` before `os.replace` (48-49), so the name may reach the medium before the data | `Dump` |
| `DocumentedOverrides` (`Startup`) | `README.md:122`, `configs/default.yaml:3`, `settings.py:312`: the variables are `EDGE_VOICE__<SECTION>__<FIELD>` | with `env_prefix` `EDGE_VOICE_` and delimiter `__` (`settings.py:335`) only `EDGE_VOICE_<SECTION>__<FIELD>` is read (so `settings.py:8` has it), and the documented one is ignored without a word | `Startup` |
| `SupervisorTakesOver` (`Startup`) | `orchestrator.py:219`: a child that never is ready is left to the supervisor | the wait for it is 120 s (`settings.py:189`), systemd's default `TimeoutStartSec` 90 s, and READY=1 is the supervisor's: the unit is killed while it waits, each time | `Startup`; it holds with `ProcessStart = 20` |
| `PartialIsPrefix` (`VadWorker`) | `models.py:38`: a partial is a prefix of its segment | the soft cut ends the final behind the present, so a partial emitted in between holds audio its final does not | `VadSoftCut` |
| `FinalsNeverDropped` (`VadWorker`) | `models.py:41`: finals are never dropped | `fanout_put` drops one after its timeout | `VadDeployed` |
| `FailedRestartRetried` (`Supervision`) | `supervisor.py:246`: a restart that raised may be retried | `_restart` signals the old instance before it builds the new one. If building raises, the old one stays current and counts as stopping, so no later tick reports it | `Supervision` |
| `DegradedRecovered` (`Supervision`) | `settings.py:270`: the OS watchdog recovers a degraded worker | the pings do not depend on the workers' states | Supervision, short, 2 boots |
| `NoSwapDuringTeardown` (`Supervision`) | `orchestrator.py:256`: no worker is swapped out from under the teardown | both joins on the way are bounded | Supervision, short, 1 boot |
| `StopIsObeyed` (`Supervision`) | `docs/ARCHITECTURE.md:489`: POST /api/stop stops the pipeline | the pings stop with the supervisor, so systemd restarts the unit | Supervision, short, 2 boots |
| `StartTakesEffect` (`Supervision`) | `webui/app.py:65`: /api/start reports whether it took effect | threads cannot be started twice; `_running` is set before the first raises | Supervision, short, 1 boot |
| `LoadLoopBreaks` (`Startup`) | `deploy/edge-voice.service`: a hang that recurs on every restart trips the limit | with the shipped 120 s a hung load is killed every 90 s and some, too seldom for five in 300 s; with 60 s it comes up without the channel | `Startup`, and with `ProcessStart = 20` |
| `UnsupervisedServes` (`Startup`) | `orchestrator.py:94`: with `reliability.enabled` off the pipeline behaves as before | nobody sends READY=1 then, and the unit is `Type=notify` | `Startup` |
| `CopyCostsNothing` (`Fanout`) | `fanout.py:71`: a dropped debug copy costs the pipeline nothing | with the writer dead and its queue full every item waits 0.2 s more, and what arrives faster is lost upstream; the two waits follow one another. True where items are 0.2 s apart: `ShortWaitsCostNothing` | `Fanout` |
| `TrailingFlushed` (`Fanout`) | `segment_audio_dump.py:81`: trailing segments are flushed | the loop ends at the stop event with copies in its queue | `Fanout` |
| `AliveIsRunning` (`Fanout`) | `orchestrator.py:374`: a live thread reads as running | `is_alive()` of the segment dump means "not asked to stop" | `Fanout` |
| `SubscribeNeverFails` (`TranscriptHub`) | `transcript_hub.py:28`: subscribe seeds the backlog | a backlog setting above 200 makes `put_nowait` raise | `Feed` |
| `OneBubblePerUtterance` (`ConsoleFeed`) | `console.js:154`: nothing arrives for an id after its final | EventSource reconnects, the hub replays its backlog, and a final whose bubble is already final is not in `liveBubbles`: it is shown again | `Feed` |
| `TimestampsAdvance` (`ChannelRouter`) | `router.py:68`: timestamps advance a clock | arrival jitter moves the anchor back below the frame before, which is what `VadWorker` takes its stamps from; finals may overlap by as much (`TimelineOrdered`) | `Router` with `MaxPackets <- TxPackets`, `Channels = {tx}`, `Jitter = 4`, `MaxRestarts = 0`, both queues 2 |
| `PartialsClosed` (`SttPath`) | `models.py:59`: exactly one final closes an id | a final without text publishes nothing | `Stt` with one child, one segment |
| `StopDrains` (`SttPath`) | `orchestrator.py:239`: stages are drained | `STTWorker.run` tests its stop event before each get | `Stt` with one child |
| `NoLineTwice` (`SttWorker`) | the warning of `on_line_completed`: a line that loops falls back to the best partial | `best_partial` is not cleared between lines, so it may be the line before, which the answer then has twice | `SttChild` |
| `BusyChildKept` without its last disjunct (`SttWorker`) | `configs/default.yaml:151`: no progress this long | one interval without CPU sets the heartbeat back to the last dequeue | `SttChild` |
| `IdleHarmless` (`SttWorker`) | `stt_process.py:150`: an idle worker's stale heartbeat is harmless | a segment reaching a long idle child makes it look stalled at once | `SttChild` |
| `HungLoadReplaced` (`SttWorker`) | `orchestrator.py:219`: a child that never is ready is picked up | until it is ready `last_activity` returns the present | `SttChild` |
| `DegradedRowShown` (`Health`) | `docs/HEALTH.md:47`: amber `degraded` | the record is only read for a live thread | `HealthReport` |
| `ConnectedIsUp` (`Health`) | `mqtt_client.py:103`: the connection is up | `_on_connect` ignores `rc` | `HealthReport` |
| `NoStrayTmp` (`AudioDump`) | `atomic_write.py:38`: never a stray temp file | SIGKILL runs no except clause, the name has the pid | `Dump` |

Seen in reading, below what the modules tell apart:

- `partial_max_queue_depth` is documented as "at or above" (`settings.py:170`,
  `stt_worker.py:163`); the code skips a partial above it (`stt_worker.py:464`),
  which is what `ShouldSkip` and `SkipPartial` say.
- The comment at `stt_worker.py:140` says 30.0 and the value is 20.0.
- With STT in threads, the `on_transcript` of a worker that was replaced reads
  `last_latency_s` of its replacement (`orchestrator.py:948`).
- Queue sizes of 0 validate and mean unbounded to `queue.Queue`: a queue that
  is never full never sheds.
- The validator compares `soft_cut_s` and `max_segment_s` in seconds while the
  VAD compares their rounded chunk counts.
- A section left empty (`vad:`) in a file does not fall back to the layer
  below, it fails to validate (`LeftEmpty` in `Settings`).

## 7. Not modelled

- Of the locks inside `multiprocessing.Queue`, those of the writers, and a
  transcript half written when its child is killed: each child has a transcript
  queue of its own, and a transcript is short enough for a pipe to take it at
  once. The reader lock of the segment queue is modelled (`lock_lost`); it is
  held until a segment is read whole.
- A router or VAD thread that is wedged, replaced and then wakes: for the data
  modules the old one is gone. That it finds its stop event set is
  `OneActiveInstance` of `Supervision`; the item it is handling goes on beside
  its successor's.
- The arithmetic of the restart window (times older than it are dropped from the
  front of a list): in `Supervision` a counted restart leaves it some time.
- STT in threads instead of processes (`stt.use_processes: false`): the same
  worker under `Supervision`'s rules for threads.
- Queue depths, latencies and restart counts shown by status and metrics:
  numbers nothing decides on. Logging, model resolution, the repetition
  filter's text: data no property tells apart.
- `ChannelRouter.reset_channel` and `VADWorker.reset_channel` have no caller.
- The command line's argument parsing, its bounded run for tests and the
  microphone subprocess. Of the settings, the validated range of a single
  field is an assumption on a constant.
- The network side of paho and the browser's rendering, audio generators,
  benchmarks and the scripts under `scratch/`.

## 8. Plan

Done: every stage from the packet to the page, the supervision of its workers,
the boot under systemd, settings, recording and health, model-checked; and the
safety invariants of every stage that audio or text passes on its way to the
page, the recording, the copies, the settings and the boot proved.

Left:

1. Two channels in `VadWorker`'s runs (the proofs hold for any set of them;
   TLC's runs have one, since the thread's per-channel state is disjoint and
   the pairs exceed the time a run may take).
