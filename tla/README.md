# Seekira: a verification project

Seekira is a video player that runs face-processing pipelines over the frames it
plays.  It is built on StepKit, its own kit of threads, pipelines, readers and
neural wrappers; both live under `src/src`.  This directory holds TLA+ models of
the parts with a protocol or an algorithm of their own, the TLC configurations
that check them and TLAPS proofs.

## 1. Inventory

| component | where (`src/src/…`) | state | operations | interacts with |
|---|---|---|---|---|
| ThreadPoolWorker | `core/threading/thread_pool_worker.hpp` | queue of data, queue of exceptions, three atomics, a thread, two condition variables | `add_data`, `run_worker`, `stop_worker`, `pause`, `continue_reading`, `reset_exceptions`, the thread | fed by a ThreadPool, calls its observers' `on_finished` |
| ThreadPool | `core/threading/thread_pool.hpp` | map of workers, two atomics, a thread | `run`, `stop`, the iteration loop | owns the workers |
| AsyncPipeline | `proc/pipeline/async` | per branch a slot (status, data), an output entry, the observers | `add_process_data`, `thread_pool_iteration`, `on_finished`, `thread_pool_stop_impl` | is a ThreadPool; observer of its workers |
| Pipeline graph | `core/graph`, `proc/pipeline/pipeline.hpp` | nodes, edges, branches | `add_node`, `add_edge`, `init_branches` | gives AsyncPipeline and SyncPipeline their shape |
| SyncPipeline | `proc/pipeline/sync` | the nodes of a tree | `process` | used by the video processor tasks |
| EventHandlerList | `core/base/interfaces/event_handler_list.hpp` | subscribers, a cache, enabled flag | register, unregister, enable, disable, `perform_for_each_event_handler` | every event source; delivers in line or through ThreadPoolEventHandler |
| ThreadPoolEventHandler | `core/threading/thread_pool_event_handler.cpp` | boost::asio service and threads | `add_task`, `stop` | runs the observers of readers and pipelines |
| ThreadWorker | `core/threading/thread_worker.cpp` | a thread, two atomics | `run_worker`, `stop_worker` | base of ReaderFF |
| ReaderFF | `video/ffmpeg/reader` | event queue, reader state, reading flag, last frame, invalid counter, handling flags | play, pause, stop, steps, rewinds, `set_position`, the worker thread | commands from the GUI; frames and states to observers; reads a stream |
| Stream reader, demuxer queue, parser | `video/ffmpeg/decoding` (`stream_reader.cpp`, `demuxer_queue.cpp`, `parser.cpp`) | the time asked for, packet queues per stream, last time stamp per stream, end flag | seek with two loops of back-off, `fill_queue`, `read`, `position` | ReaderFF's stream above, FFmpeg below |
| Streams and decoder | `video/ffmpeg/decoding` (`stream.cpp`, `decoder_video.cpp`) | a buffered packet, result of the last seek, frames kept back | `read_frame`, `request_seek`, `get_seek_result`, `decode`, flush | between ReaderFF and the packets |
| Chapters of VOB and VRO files | `video/ffmpeg/decoding/parser.cpp` | per stream a list of chapters with a shift of time, the chapter of the last packet | `detect_vob_chapters`, `find_end_of_chapter`, `read_packet`, `seek` | FFmpeg below, demuxer queue above |
| Player controller, frame provider | `gui/ui`, `gui/interfaces` | the reader manager, position, state | open, play, step, rewind, `on_reader_state_changed` | GUI thread and observer threads |
| Camera | `video/camera/camera_fake` | frames left, streaming flag, thread | start, stop, the streaming thread | frame handlers |
| Connector | `core/base/interfaces/connector.cpp` | map id → source | register, connect, disconnect, called from destructors | face engine and its users |
| Person holder, face matcher | `proc/face_engine`, `proc/pipeline/nodes` | persons' embeddings | `load_from_dir`, `compare` | nodes of a pipeline |
| detectors, trackers, nets, effects, Qt code | `proc/*`, `gui/*` | none of concurrency interest | | nodes of a pipeline |

What is hard in this system is nearly always two threads at one flag: a stop
during a dispatch, a notification before a wait, a result handed on while the
slot it goes to is reset, observers called from a pool.  `PROJECT.json` lists
these places under `hazards`, with the property that watches each of them.

What makes each component correct:

* AsyncPipeline: a branch works on one frame at a time, frames reach a branch in
  the order of acceptance, only after the parent finished them; no exception or
  drop leaves a branch busy for ever, and a stop leaves at most one frame behind.
* ThreadPoolWorker: first in first out, no datum slept over, nothing left over
  from before a stop, `stop_worker` returns.
* ReaderFF: the observers get the film frame by frame; a seek ends, on the frame
  that covers its position, and re-enables the observers; a step back shows the
  frame before; the observers know the state between two commands.
* EventHandlerList: a handler hears every event published while it is registered,
  once, and none published after it was erased; its calls overtake each other only
  between threads of the pool; a list that was disabled comes back as it was.
* Camera: frames in the order of the files across stops and restarts; quiet after
  `stop()`, which returns.
* Decoding: frames of a stream come in order and none twice across seeks, and
  none from before a seek comes after it.
* Demuxing: a seek ends, on the latest key packet at or before its position if
  there is one, and says so; reading goes on from there without a gap.
* Chapters: behind a jump of the clock, time goes on; the streams stay together.
* Graph: the branches of a tree share its nodes out; each node runs once for a
  frame, after its parent.

## 2. Modules

| module | models | line of thought |
|---|---|---|
| `FrameFlow` | nothing in particular: the abstract promise | accepted, begun and finished frames per branch |
| `AsyncPipeline` | AsyncPipeline, ThreadPool and the outside of ThreadPoolWorker | one action per step between two lock operations |
| `MCAsyncPipeline` | | the tree used by TLC |
| `ThreadPoolWorker` | ThreadPoolWorker inside | one action per atomic access, wait or notification |
| `PipelineGraph` | BaseGraph, `init_branches`, SyncPipeline | one action per node, link, branch, step of a walk |
| `EventHandlers` | EventHandlerList, ThreadPoolEventHandler | actions of list and pool, for a module that publishes |
| `FrameSource` | FakeCamera, or ReaderFF as a publisher, over `EventHandlers` | one action per step of the source's thread and of its owner |
| `Decoding` | DemuxerQueue, DemuxedStream, DecoderVideoFF as one reader sees them | operators on the state of the chain: what a read and a seek do to it |
| `Demuxing` | the seek of StreamReader, DemuxerQueue and ParserFF | one action per turn of a loop or stream tried |
| `Chapters` | chapters of VOB and VRO files in ParserFF | one action per step of the search, per packet read, per seek |
| `Reader` | ReaderFF and its thread | one action per command, read, wait or lock |
| `MCReader`, `MCDemuxing`, `MCChapters` | | the files used by TLC |
| `ThreadPoolWorkerProofs`, `AsyncPipelineProofs`, `PipelineGraphProofs`, `FrameSourceProofs`, `DecodingProofs`, `DemuxingProofs`, `ChaptersProofs`, `ReaderProofs` | | theorems |

The modules meet as the components do.  `PipelineGraph` ends with a tree of
branches, which `AsyncPipeline` assumes (`BranchesAreATree`).  `AsyncPipeline`
composes pool, workers and branches and is mapped to `FrameFlow`.  `Reader`
composes the worker thread of the reader with the chain of `Decoding`, which takes
the outcome of a seek for granted; `Demuxing` is where it comes from
(`SeekMeetsContract`, over an instance of `Decoding`).  `FrameSource` is a
publisher over the list and the pool of `EventHandlers`.

### AsyncPipeline

Frames are the numbers of their acceptance, so order is `<`; `Null` is the empty
`PipelineDataPtr`, `Absent` a missing map entry.  `status`, `data` and `output`
are `m_branches_data` and `m_output_branches_data`; `posted` is the map last
given to the observers.

* *Submitters* (`Submit`, `RunRefused`, `Run`, `MarkPoolRunning`,
  `AddProcessData`) are `add_process_data`, with the unlocked test of
  `m_is_running` and the three steps of `ThreadPool::run` apart.
* *The dispatcher* is `thread_pool_iteration`.  It holds `m_branches_data_guard`
  from `StartIteration` to `EndIteration`, which is why the other critical
  sections of that guard are single steps with the guard `GuardFree`; the
  iteration itself is split, because `stop()` does not take the guard and the
  workers' queues and exceptions are under other mutexes.  `unordered_map` order
  is a free choice of branch.
* *Workers* take a frame (`TakeData`), process it, look at `need_stop` before
  they take the guard (`LookAtNeedStop`), and then run the whole of `on_finished`
  in one step (`OnFinished`, or `OnFinishedEmpty` for an empty pointer), whose
  exceptions, like those of the nodes, end in `KeepException`.
* *The stopper* is `ThreadPool::stop`, one step per flag, join and slot.

What would terminate the process is recorded in `aborted` and ends the
behaviour: a failed `STEP_ASSERT` or a runaway `reset_exceptions` in the
dispatcher, a node that dereferences an empty pointer, an assignment to a
joinable `std::thread`.

A node is a step that succeeds or throws (`Failing`).  It is taken to throw a
`std::exception`, as STEP_THROW does: anything else leaves the dispatcher's
`catch` and terminates.

### ThreadPoolWorker

The same worker seen from inside.  `m_read_cnd` and `m_data_cnd` are modelled as
predicate, block, sleep, wake; a notification only reaches a thread asleep, and
wakeups may be spurious.  `m_data_guard` is held from the predicate to the sleep,
so `Push` waits for `DataGuardFree`; `m_read_guard` is contended by nobody.  The
feeder is one thread, as the dispatcher is; the owner is one thread that stops,
pauses and continues.  `AsyncPipeline` relies on this module for "an idle worker
with data takes it", which `EveryDatumIsTaken` states and `NoSleepOverData`
explains.

### PipelineGraph

`AddNode`, `AddLink` and `BadLink` are what `BasePipeline` does with a
configuration: nodes and links in their order, an assertion for a link of unknown
nodes or one given twice.  `LinksRead` gathers the heads of branches (`Heads`),
`CreateBranch`, `Walk` and `BranchesMade` are `init_branches`, and `Process`,
`EnterBranch`, `RunNode`, `Throw` and `ProcessReturns` are `SyncPipeline::process`
with its queue of branches.  `BaseGraph::is_valid` would refuse loops and second
parents but has no caller, and the test `loop_pipeline` is commented out; so the
model builds every graph, and the properties say for which of them the cut is
right.

What the code does beyond trees, which no property states: `init_branches` runs
for ever on a loop that is reached by first children, `process` on any other; a
node with two parents is run twice; a branch that does not hang on the root never
gets data, so that parallel_wait never posts a map.  The synchronous branches all
hold the same data object.

### EventHandlers and FrameSource

`EnterCall` and `FinishCall` are the two halves of `register_event_handler` and
`unregister_event_handler`, which test `m_enabled` before they lock; `Disable` and
`Enable` swap the subscribers with a cache; `Publish` copies them under the lock
and `Post` hands out one task after the other.  A thread of the pool takes a task
under the lock of the io_service (`TakeTask`) and begins the observer's call
without it (`BeginTask`, a step of its own), so that two threads may begin their
calls in either order.  `StopPool` and `JoinPool` are `stop()`, which abandons the
tasks still queued (the comment at `thread_pool_event_handler.hpp:38` says it waits
for all of them) and waits for those a thread has taken.
`m_enabled` is a plain `bool`; it is taken for atomic.

In `FrameSource` one client thread registers, starts, stops and destroys
(`Start`, `Stop`, `Join`, `Close`), and the source's thread takes a frame, hands
it on and ends (`Stream`, `TakeFrame`, `HandleFrame`, `PostFrame`).  A `source`
of kind `reader` stands for ReaderFF, which disables its list while it looks for a
position and may die there (`Read`).  `open_file` of a frame is taken to succeed.

Facts no property states.  A camera that has shown all its files cannot be started
again: `start` assigns to a joinable thread, and the program ends; the test
`fake_camera_tests` expects an exception.  A reader that dies during a seek leaves
its lists disabled, so that nobody hears of the error.  The tasks a thread has
taken when the source's `stop()` returns, and those in the queue, still become
calls.  And the calls of an observer may begin in another order than the events:
every list of this code is built over `ThreadPoolExecutePolicy<0>`, a thread for
each core (`event_handler_list.hpp:104`), although the test `stream_frames_cyclic`
compares the captured frames with the files one by one
(`fake_camera_tests.cpp:320`).  `CallsAreTimely` says what is left: each event at
most once, none published after the observer was erased, and none ahead of an
event that no thread has taken yet.

### Decoding

A file is a sequence of packets with their time stamps, some key, some damaged.
The state of the chain is a record: the last packet given to the decoder, the
last one taken from the parser (in between lie the packets of the queue and the
one `get_seek_result` buffers), the flag of the end, the packet whose frame the
decoder keeps back, the position, the flag of the last key packet.  Two facts of
the code are what the module is for:

* `fill_queue` takes packets in batches of 16 and flags the end of the file when
  a batch meets it, which is up to a batch before the packets are read
  (`Filled`, `EndSeen`);
* `DecoderVideoFF::decode` keeps one frame back until the next tells how long it
  lasts, so a read returns frame `First` and gives packet `Second` to the
  decoder, the position is that of the next frame, and the flag `m_last_key_frame`
  is the next packet's.

A seek (`SeekResults`) ends on the latest key packet at or before the position and
flushes the decoder; the back-off loops of `StreamReader::seek` and
`DemuxerQueue::seek` are taken for their outcome (module `Demuxing`), and where
the parser landed, which decides how far the batches reach, is left open. A packet
decodes at once or, if damaged, never: a codec with a delay of its own is not
modelled, nor are several streams (the reader enables one, the queues of the
others are emptied).

### Demuxing

A file is a sequence of packets of several streams, in the order of their time
stamps; one stream, the best video stream, is read.  The module has the three
loops in each other:

| action | code |
|---|---|
| `RequestSeek` | `DemuxedStream::request_seek`, the head of `StreamReader::seek` |
| `Attempt` | a turn of `StreamReader::seek` and the head of `DemuxerQueue::seek` |
| `SkipStream`, `StreamRefuses`, `TryStream`, `TakeBest` | `seek_internal`, stream by stream |
| `BackOff` | a turn of `DemuxerQueue::seek` |
| `Probe` | `get_seek_result`, packet by packet |
| `Read` | `DemuxedStream::read` |

`Landings` is `ParserFF::seek` over FFmpeg: for each of six kinds of file the
places FFmpeg may be left at, none where the seek throws.  Flash files are left
out: every video packet of theirs is flagged as key (`parser.cpp:808`).  `Fill` is
`fill_queue` in batches, with the cut at key packets of `read_packets_from_parser`
(`Kept`), which wants the key packet not past the time of the seek and its duration
known (`IsCut`: lines 280 and 284, `duration > 0`); its batches are computed at
once, as nothing else happens between them.  The queue is a set of packets.

What the code does that no property states.  After a seek of a file that cannot be
sought, the time asked for stays in the `StreamInfo`, and a later seek goes to the
smaller of the two; `m_last_seek_result` keeps the answer of the seek before when
no packet comes.  A stream that has no entry in `m_last_seek_ts` is not sought at
all; `find_stream_info` clears the map for every stream, so that only the last
keeps its entry until packets are read.  Files that are sought by bytes may end on
a key packet that is not the latest.  Where the sound is the first stream, a place
found for it at time 0 may lie behind the first key packet of the video and is
taken for good, as only the first packet of the queue is compared
(`demuxer_queue.cpp:183`; the comment at line 131 says that two key packets in the
queue guarantee that the first lies before the mark).  Hence the hypotheses
`VideoFirst` and `StampsIncrease` of the properties: two key packets with the time
stamp 0 would be cut by the first reads of a file.

At a key packet without a duration the queue is not cut, although the comment at
`demuxer_queue.cpp:273` says that the packets before a key packet below the time of
the seek are not needed.  Two hypotheses exclude what follows from it.  A seek may
end on an earlier key packet than the latest; `SeekMeetsContract` therefore asks
for durations of the key packets up to the position (`KeysLast`).  And packets may
be lost: with key packets at 5, 8 (no duration) and 11, a seek to 11 fills the queue
with the first two, which is enough for `fill_queue`; when reading goes on, the
packet at 11 is still not past the time of the seek, the queue is cut at it, and
what lies before it and has not been read is gone.  `NoPacketIsLost` excludes files
where a key packet without a duration comes before one the queue is cut at
(`NoLateCut`).  The result of a seek and its end (`SeekResultIsRight`,
`EverySeekEnds`) do not depend on the durations.

### Chapters

A recording is a stretch of a film with a clock of its own.  `StartStream`,
`SearchEnd`, `CoarseTurn`, `FineSearch`, `StreamDone` and `StreamFails` are
`detect_vob_chapters` with `find_end_of_chapter`: a probe of packets tells a jump
from reordering, a coarse search by bytes compares distances in time with
distances in the file, a fine search goes packet by packet.  `Sync` matches the
lists of the streams.  `ReadPacket` shifts time stamps by the chapter of the
packet's position, or of the packet before where FFmpeg does not know it; `Seek`
forgets that chapter.  A packet has one byte.

What the code does that no property states.  `AV_SECOND`, 1000000, is compared
with stamps of 90 kHz, so that a jump of less than 11 s is no jump.  A stream that
ends more than 10 MB before the file fails the search; the streams after it are
not examined and nothing is matched (`Regular` excludes such films).  A recording
not longer than the probe is merged with the next, one that short at the end gets
no length, and a small forward jump can be missed by the coarse search, whose
threshold is 5 %.  Subtitles before the first video packet of a recording are
shifted as the recording before.  A packet whose position FFmpeg does not know is
taken to be where the packet before it ends, and where a search begins that packet
has no size (`parser.cpp:199`): if the clock jumps right there, the chapter ends
before its first byte, and in a file that begins at byte 0 `detect_vob_chapters`
starts from the beginning again and never returns.

### Reader

`wpc` is the place of the worker thread; the points `read`, `step`, `skim-read`
and `land` are the four calls of `read_frame`.  The mutex `m_event_guard` is held
while a command is executed (`Executing`): `AddEvent` waits for it.  The wait of
`m_read_cnd` is `Check`, `Block` and a sleep, because `add_reader_event` notifies
without `m_read_guard`, which the predicate is evaluated under.  `Take` is the
code's: the newest command is executed, the oldest removed.  `told` and `shown`
are what was last handed to the observers, in the order the reader hands it
over; the pool behind EventHandlerList is not part of the module.

| action | code |
|---|---|
| `AddEvent` | `play()` … `set_position()`, `add_reader_event` |
| `Play`, `Pause`, `Stop`, `StepForward`, `StepBackwardRefused` | the `*_impl` of these commands; `StepForward` goes on to read |
| `OverTheEnd`, `PositionUnknown`, `Seek`, `SeekFails` | `set_position_impl` up to its loop, called by four commands (`Reposition`) for a `Destination` |
| `SkimOn`, `SkimBroken`, `Land`, `Landed` | the loop of `set_position_impl` and what follows it |
| `ReadValid`, `ReadInvalid`, `ReadCrashes`, `ReadThrows` | `read_frame` |
| `NoEvent`, `Check`, `Block`, `GoOn`, `LeaveLoop`, `Finish` | `worker_thread` |

Where the process ends by a null pointer (`DemuxedStream::read_frame` at the end
of the stream; the log message of `read_frame` when the first read of a file
fails) the state is `crashed` and the behaviour stops.

## 3. Runs

| run | asks | bounds | properties |
|---|---|---|---|
| `pipeline_nowait` | parallel_no_wait, no stop | 3 branches, 2 submitters, 2 frames, `a` throws | `SingleFlight`, `NeverAborts`, `BranchesFreeUp` |
| `pipeline_stop` | the same with `stop()` | 1 submitter, 1 stop, both children throw | `TypeOK`, `SpawnsOnlyUnjoinable`, `StopsStrandOneEach`, `ImplementsFrameFlow` |
| `pipeline_wait` | parallel_wait | `a` throws, no stop | `WaitedMapIsWhole` |
| `worker` | order, wakeups, stops, pauses | 3 data, 2 stops, 2 pauses, may throw | `TypeOK`, `TakesInOrder`, `NoSleepOverData`, `StopDropsEarlierData`, `EveryDatumIsTaken` |
| `worker_stop` | does `stop_worker` return? | 1 datum, 1 stop | `StopReturns`, violated |
| `reader_film` | what observers of a film see, mode All | 7 frames of equal length, 3 groups, batch 3, 4 commands | `TypeOK`, `ObserversKnow`, `SeekEndsOnTarget`, `FramesInOrder`, `StepsBackOneFrame` |
| `reader_torn` | does every command end? mode KeyFrame | 6 packets, 3 damaged, uneven, late start, batch 2, 3 commands, reads may throw | `ShowsFramesBeforeKeys`, `CommandsEnd` |
| `reader_end` | the comment on the null packet | the film in one batch, 1 command | `EndOfStreamIsFine`, violated |
| `demuxer_seek` | where does a seek end, and what is read then? | 12 packets of 4 streams, one key packet without a duration, batch 2, 6 kinds of file, 4 positions, 2 seeks | `TypeOK`, `SeekMeetsContract`, `SeekResultIsRight`, `NoPacketIsLost`, `EverySeekEnds` |
| `frame_source` | what do observers hear, and does it stop? | camera, cyclic camera, reader; 2 observers, 2 pool threads, 2 calls, 3 events, 2 files, 2 starts | `TypeOK`, `ListIsWanted`, `FramesInFileOrder`, `StopIsQuiet`, `OnlyExhaustedAborts`, `CallsAreTimely`, `SubscribersHearAll`, `StopReturns` |
| `pipeline_graph` | which graphs are cut and walked right? | every graph of 5 nodes and 4 links; a node is run 3 times at most | `TypeOK`, `TreeIsCut`, `RunsFollowParents`, `LoopFreeEnds` |
| `vob_chapters` | does time go on? | 38 films of up to three recordings, 3 streams | `TypeOK`, `TimeGoesOn`, `StreamsInStep` |

### Bounds

Pipeline.  Two frames are enough for a second frame to arrive at every point of
the first one's way through two branches.  Two submitters race for `run()`.  One
stop is enough for every interleaving of it with a dispatch, and the restart after
it (submission runs the pool again) is included, as the submitter still has a
frame.  The root and two children give one child that fails beside one that does
not.  Deeper trees are left to the proofs, which hold for any tree.  Symmetry is
used only in `pipeline_stop`, where the two children are alike.

Reader.  The film has three groups of pictures and a batch that is no divisor of
its length, so that a seek leaves the queue anywhere between one packet and the
end of the file; its positions include one before the start, one past the end, one
inside a frame and one on a key frame.  Four commands allow play, two seeks and a
step.  The torn file has a seek to 0 that finds no key frame (`SeekFails`), frames
of different length, for which the loop of `set_position` may miss its frame, and
a damaged last group, at which reads return nothing until the counter of invalid
frames (threshold 1 for 10) ends the command.

Demuxing.  The steps are those of the code scaled to the length of the file: each
loop makes several turns, reaches its limit and the start.  The video starts
late, so that a position before its first key packet exists; there are two streams
of sound, which are sought in turn for time 0, and one of data, which is not.  The
third of the four key packets of the video has no duration: the hypotheses on
durations hold for seeks to three of the four positions and fail for the last.  It
comes long after the second, so that a seek to a position between them backs off
to its limit.  Two seeks let the second start from any place the first left behind.

Observers.  One event more than observers and one file fewer than events make the
frames go round and let an event overtake a call; two threads of the pool let a
call overtake another.  Two starts give one restart.

Graph.  Five nodes and four links give every tree of five nodes, a node with two
parents beside a third branch, loops of every length up to four and nodes that
hang on nothing.

Chapters.  Two lengths of recording, one shorter than the step of the coarse
search and one longer; clocks that start anew, or at 20 and so before or after the
end of the one before; a film without sound at all and one whose sound stops.

`CHECK_DEADLOCK FALSE` where a behaviour ends when the bound on frames, calls,
links or commands is used up, or after the process has ended.

### Fairness

`pipeline_nowait`: the dispatcher and every worker that can take a step take one
(they are threads), and a worker that asks for the guard while the dispatcher
takes and releases it over and over gets it at some time (`SF` on `OnFinished`;
`std::mutex` promises no order, but does not starve in the implementations this
program runs on).  Callers owe nothing.  `worker`: weak fairness of the three
threads inside their calls, strong fairness of `Push` for the same mutex reason,
nothing about spurious wakeups.  `reader_torn`: weak fairness of the reader's
thread (`Worker`), which waits for no lock another thread may keep; nothing about
callers.  `demuxer_seek`: the thread that is in a seek goes on, as it waits for
nothing but FFmpeg.  `frame_source`: the source's thread, each thread of the pool,
and the client while it joins; whether it calls anything is its own affair.
`pipeline_graph`: the thread that builds or walks the graph.

### What the two violated runs show

1. `StopReturns` of `ThreadPoolWorker` – `stop_worker` sets its flag and notifies
   without the mutex of the predicate, between the worker's evaluation and its
   sleep: nobody wakes it again and `join` waits for ever.  The test
   `multi_branch_pipeline_fast_destruction` destroys a pipeline right after its
   first frame and expects the destructor to return.
2. `EndOfStreamIsFine` – at the end of the stream the decoder releases its last
   frame for the null packet, and `stream.cpp:134` asks that packet whether it is
   a key frame.  The comment at `stream.cpp:130` says the null packet is fine.
   Mostly the reader pauses itself before it gets there, because the end of the
   file is flagged early; when the packets are a whole number of batches, after a
   step forward, or in the loop of a seek, it does not.

### Facts of the code that the models have and no property states

* With parallel_wait the map is sent whenever every branch has an entry
  (`async_pipeline.hpp:219`).  Entries are reset but not erased, so after the first
  frame the root alone makes it complete again, with its new result and the
  children's older ones; the comment at line 274 promises the map once all branches
  have worked.  `WaitedMapIsWhole` states what holds: a result of every branch, or
  an empty map, and none of a later frame than the root's.
* Cloning an entry that was reset throws inside `on_finished`; the exception is
  counted against the branch and handled by a later iteration, which marks the
  branch Finished although it has got the next frame.  The root may then start
  beside it (`async_pipeline.hpp:113`, against the comment at line 141).
* The dispatcher is joined last (`thread_pool.hpp:67`) and may push a frame to a
  branch, or start it again, after `stop()` has joined its worker and while it
  resets the slots, against the comment at `async_pipeline.hpp:79` ("All threads
  already joined and stopped").  The frame is left behind in the queue of a branch
  whose slot says Finished, or a branch without a thread keeps the status Running.
  `StopsStrandOneEach` states how far that goes: at most one frame for each call of
  `stop()`, however often the pipeline is fed again; with one stop two frames in one
  branch do occur.
* Two threads that submit the first frame may both start the dispatcher
  (`aborted = "two dispatchers"`): `NeverAborts` admits it.
* `reader.cpp:263` reads `back()` of a `std::queue` and then pops the front: with
  two commands queued one is executed twice and the other never.

## 4. Proofs

All theorems are about every instance of their module: any tree of branches, set
of failing branches, number of submitters, frames and stops, of data and pauses,
of observers, pool threads, events and files, any graph, any file, batch size and
step, from the assumptions of the modules alone.

`ThreadPoolWorkerProofs`.  The invariant is `TypeOK` with four parts: `Ordered`
(the queue increases, above what was taken and up to what was pushed), `Awake`
(blocked over data only while the feeder is about to notify), `Stopped` (the
control points of the owner against the worker's: who has joined finds no
thread), and `Fenced` (what was queued before a stop is gone once it returns).
`TakesInOrder` alone is not inductive: it needs that what is pushed next is newer
than everything queued.  A second invariant, `WholeInv`, says that until the first
`stop_worker` the queue holds just the data from the one taken last to the one
pushed last (`Whole`), and that the thread is there once data are (`Alive`).  From
it `NoDatumIsSkipped`: every datum taken is the one after the one before, pauses
and exceptions or not; and `WaitingWorkerHasTakenAll`: when no call of `add_data`
is under way and the worker waits, nothing is left to take.

`AsyncPipelineProofs`.

* `TypeCorrect`.
* `SpawnsSafely` from `SpawnInv`: `m_is_running` of a worker is true from its
  creation to its join, except between the two steps of `run_worker`, and the
  stopper unmarks it only after the join.
* `PipelineImplementsFrameFlow` from `FlowInv`: every frame held for a branch (in
  its slot, its queue or its hands) was finished by its parent, is newer than
  what the branch began, and slot, queue and hands are ordered among themselves.
  Each step of the pipeline is then a step of FrameFlow or leaves its variables
  alone (`FlowStep`).
* `ResultsComeFromParents` and `ResultsInOrder`, which the refinement pays for:
  they are proved of FrameFlow's own steps and carried over by
  `PipelineImplementsFrameFlow`.  A branch has finished nothing that its parent has
  not finished and nobody has handed in, and it finishes in order.
* `WaitedMapsAreWhole` from `WaitInv`, on top of `FlowInv` and `ResultInv` (an
  output entry neither absent nor reset is a frame its branch finished): what any
  branch has finished the root has finished (by induction along the parents, in the step
  that hands a frame to a child), and the root's entry is its latest.
* `OneFrameInFlight` and `RunsWithoutAbort` from `SteadyInv`: with no stop and no
  waiting, the guard protects every slot, so the frame in hand, the status and
  the dispatcher's position determine each other.
* `RunningBranchIsServed` from `ServedInv`, on top of that: there is always a thread
  that can bring a running branch on, its own or, after an exception, the
  dispatcher.
* `StopsLeaveOneEach` from `StrandInv`, without parallel_wait: an account for each
  branch (`Account`).  What it has in hand, empty pointers counted twice, is covered
  by its slot, which says Running or is about to be settled (one), and by the calls
  of `stop()` that have reset its slot (one each).

`PipelineGraphProofs`.  `TreesAreCut` from `CutInv`: links are entered on both
sides, and each branch is a way that begins with its head and follows first
children that are no heads, until a head or a leaf.  That a tree is then shared
out is an argument about the finished cut (`TreeCut`): "every set that contains
the input and is closed under children is all of the nodes" is applied to the
nodes that lie in some branch, and two branches that share a node share it at the
same place, because each node has one parent.  `ParentsCallTheRuns` from `FlowInv`,
for every graph, trees or not: what a node is due, one run for each run of a
parent, is what it has had and what is pending in the queue or at the head of what
is left of a branch.  The counting is that of the finite sets of pairs (parent,
run), which a run of a parent extends by one for each of its children.

`FrameSourceProofs`.  `FramesFollowFiles` from `FilesInv` (frames to come, the
frame in hand and those retired are the files in order, and whole rounds lie
behind them); `StoppedIsQuiet` and `AbortIsExhausted` from `LifeInv`, the control
points of owner and thread against each other; `ListHoldsWanted` from `ListInv`,
the places of a call that is half way against the list.  `CallsComeInTime` from two
invariants: `TimelyInv`, by which the tasks of an observer are in the queue in
order, behind those that threads have taken, none of them heard yet and none
published after it was erased, and `ToldInv`, by which each event published while the list had an
observer has been heard, is in the hands of a thread, is queued for it or is yet
to be posted to it.  So whatever a call overtakes, a thread has taken it.  With one
thread in the pool there is no other to hold a task, and the calls begin in order
and without a gap (`NoCallIsSkipped`); no list of this code has such a pool.
`NoCallIsLost` is `ToldInv` once nothing is posted, queued or held.
`StopComesNearer`: while `stop()` waits, the thread of the
camera is never given more to do, and each of its steps leaves less.

`DecodingProofs`.  Lemmas about the operators: `Min` of the community modules is
the least element of a non-empty set of naturals (from the well-foundedness of
`<` in the library), hence what `FirstAfter`, `KeyBefore` and `Filled` denote;
reads and seeks keep the chain's counters within the file and in order.

`DemuxingProofs`.  `FillGrows` says what any number of batches does to a queue:
it grows by what lies between the two places, less what a key packet that lasts
and is not past the time of the seek cuts off.  Three invariants rest on it.

* `TypeCorrect`, with the queue without gaps up to FFmpeg's place (`Good`).
* `NothingIsLost` from `LossInv`.  The time of a seek stays set when reading goes
  on, so a batch read much later could still cut the queue under the reader's
  feet.  It cannot, because a seek leaves a *settled* queue behind: at the end of
  the file, or with every key packet still to come past that time.  A queue with
  two key packets is settled where the hypothesis `NoLateCut` holds, as is one that
  begins past the time (`KeysSettle`, `LeftSettles`) – what `seek_internal` tests
  without saying so.
  And at time 0 no stream is refused that was found before (`TriedForStart`), so
  that no seek of these files ends in the exception that would leave an old
  packet in the buffer.
* `ResultIsRight` from `ResultInv`.  A seek that fails has backed off to the start;
  there it must be sure that no key packet was passed by, unless one at or before
  it, or not past the time of the seek, is still to come (`KeyAhead`).  The queue
  is cut and streams are tried in turn meanwhile, so the invariant follows them:
  the place found first, for the video, has its key packets ahead, and a stream
  tried later is taken only if its place is no later (`BetterAhead`,
  `TriedInOrder`).  This is where `VideoFirst` is needed.
* `ContractIsMet`: the seek implements what `Decoding` takes for granted, if the key
  packets up to the position have durations (`KeysLast`).  Module
  Decoding counts frames, Demuxing packets of all streams, and both count batches;
  lemmas carry the batches over by rank (the number of frames up to a packet).
  `ContractInv` follows the latest key packet at or before the position: while the
  seek backs off FFmpeg is sent to times whose landing, for the video, lies before
  that packet or right before a later key packet (`LatestLandings`); a place in
  front of a later one is not good enough for `seek_internal`, so what is taken in
  the end is `Ready`: the queue begins with that packet and holds just the batches
  up to the next.
* `SeekComesNearer`, for every file, landing and refusal: each step of a seek ends
  it or brings it nearer to its end.  The distance (`Distance`) is how far
  `StreamReader::seek` can still go back in the file; within one try, how far
  `DemuxerQueue::seek` can still lower its time; within that, the streams not yet
  tried or the packets of video not yet buffered, whichever loop is running, in
  lexicographic order.  By `NearerEnds` (from the well-foundedness of `<` and of
  such pairs in the library) no distance gets nearer for ever.  `BackInv` is what
  keeps the loops from turning in place: the step back of either is not zero once a
  try may fail, and the inner one starts no later than the position of the outer.

`ChaptersProofs`.  `TypeCorrect`: the chapters of each stream, found in whatever
way, follow each other without gap or overlap from the first byte to the last.
The invariant `Inv` says of the points found so far that they are pairs of first
and last byte with the next pair right behind (`OpenTo`, `ClosedWith`), that the
search stands no further than the packet FFmpeg has given out, and that the next
packet goes on from the stamp the search starts with if its position is not known
(`GoesOn`).  `SearchFinds` is the lemma about `find_end_of_chapter`: what it finds
lies behind the place it began at and not behind the packet itself, however many
positions are estimated.  The hypothesis `KnownAtJumps` on the file excludes the
jump at a packet without position described above, and no more than the argument
needs: a packet whose position is not known must go on from the packet right before
it, and, where it is the first behind the packets probed (after a jump, or at the
start of the stream), from the least of their stamps.  Clocks may jump wherever the
first packet behind the jump is known: all 38 files of the run satisfy the
hypothesis, among them the 28 with jumps, where the position of the second packet
behind a jump is not known.  Without it `TypeOK` is false, for a file of four packets already.  That the
least and greatest of a set of stamps exist is proved from the file being finite.
`DetectionComesNearer` with `NearerEnds` is the end of the detection: a stream less,
or a place further on in the file (`SearchFinds` again: the next chapter begins
behind the one before), or a turn of the coarse search less.  `ShiftedByItsChapter`
is about what comes after: however packets were read and sought before, one whose
position is known is shifted by the chapter its byte lies in.

`ReaderProofs`, for every file, batch size, threshold and number of commands:

* `ObserversAlwaysKnow` from `IInv`, which says at each place of the worker what
  the flags and the observers' knowledge are, and that a worker past the head of
  its loop has no reason to break off.  The decoding chain plays no part in it.
* `TypeCorrect` from `TInv`: types, order of the chain's counters, and that a
  worker that may read has not passed the threshold of invalid frames.
* `SeeksEndOnTarget` and `FramesComeInOrder` assume `EvenFilm`: no damaged packet
  and frames of equal length except the last.  That is what the code relies on
  when it keeps the duration of the key packet for all frames after it; without
  it the theorems are false.  `SeekInv` says that during a seek the stream stands
  at the start of the frame it returns next; `PlayInv`, that the observers have
  the reader's last frame and the decoder holds the one after it, and that no
  read of such a film is invalid, so that no seek breaks off.
* `ShownBeforeKeys`, for every file, damaged or not: in mode KeyFrame a frame is
  shown while playing only in front of a key packet.  It follows from the two
  invariants before: neither the flag of a step nor that of a seek outlives it.
* `StepsBackAreRight`, with `EvenFilm` in mode All, from `BackInv`: the duration
  the reader remembers is that of the last frame or, before the second frame, 0;
  while it looks for the frame to step back to, the target is the start of the
  frame before the one the observers have.
* `CommandsComeNearer` with `NearerEnds`, for every file, damaged or not: each step
  of a command ends it or leaves fewer packets of the file or, at its end, fewer
  invalid frames up to `MAX_INVALID_THRESHOLD`.  The loop of `set_position_impl` has no
  bound of its own.

Left to TLC.  Liveness under fairness, which the proof system does not reach:
`BranchesFreeUp`, `EveryDatumIsTaken`, `CommandsEnd`, `EverySeekEnds`,
`SubscribersHearAll`, `StopReturns`, `LoopFreeEnds`.  What these properties rest on
besides a fair scheduler is proved for most of them.

| property | proved of it | left to TLC |
|---|---|---|
| `EverySeekEnds` | `SeekComesNearer` and `NearerEnds`: every step is nearer to the end, and no distance gets nearer for ever | a seek can always take a step, and takes it |
| `CommandsEnd` | `CommandsComeNearer` and `NearerEnds`, likewise | likewise for the worker in a command |
| `StopReturns` of FrameSource | `StopComesNearer`: the thread waited for has less to do with each step, and nobody gives it more | its steps are taken; the join of the pool in the destructor |
| `EveryDatumIsTaken` | `NoDatumIsSkipped`, `WaitingWorkerHasTakenAll` | the worker goes on until it waits |
| `SubscribersHearAll` | `NoCallIsLost` | what is queued is taken and begun in the end |
| `BranchesFreeUp` | `RunningBranchIsServed` | the thread that can go on does |

For `LoopFreeEnds` nothing of the kind is proved, nor for the `StopReturns` of
ThreadPoolWorker, which the run `worker_stop` shows to fail.

Left to TLC as well: `TimeGoesOn` and `StreamsInStep`, which are no theorems about
every file.  The coarse search steps over a clock that is set back a little, the
stamps in the window of a probe are not compared, and a chapter of the video whose
middle comes before the first byte of sound is not matched.  They hold of the files
of the run, recordings as devices leave them.

## 5. Not modelled, and what could follow

`PROJECT.json` lists every component with its status.

* The life of the reader (open, restart, destruction) with ThreadWorker.
  `~ReaderFF` only queues a Stop, and members go before the base class joins.
* PlayerController, with the reader's observers on pool threads against the GUI
  thread: `std::scoped_lock(m_guard);` declares a variable and locks nothing, and on
  an error an observer on a thread of the reader's own pool destroys the reader,
  whose pool then joins that thread.
* Connector, PersonHolder, ExecutionBarrier, EventPublisher: registries and small
  primitives; VideoProcessingManager, which hands frames from one to the other.
* In the parser: the detection of frame rate, bit rate, duration and start time,
  the restored time stamps of ASF and DAV files; in the decoder the delay of a
  codec of its own; several streams read at once.

Out of reach: pixels, codecs, neural networks, detectors and trackers over them,
Qt and OpenCV.  The vendored code under `thirdparty` is more than a quarter of the
lines in the tree and no part of this program's own logic; much of the rest is
declarations, conversions and wrappers around libraries without state worth a
model, and about two hundred lines of `parser.cpp` are commented out.
