# WebRTCAudioProcessing: models, checks and proofs

WebRTCAudioProcessing is an Objective-C++ wrapper around the WebRTC audio
processing module (APM), with an example app that plays files through it. This
directory holds TLA+ modules of the wrapper and of the example's players, the
TLC configurations that check them, and proofs about them for TLAPS.

## The system

The library (`WebRTCAudioProcessing/Classes`):

| Component | State | Operations | Talks to |
|---|---|---|---|
| `AudioProcessingWrapper` | `_currentConfig`, the APM with its own copy, `_processedBuffer` | eight setters, reset, five process methods | the prebuilt APM; called from UI and audio threads, no lock |
| `AudioProcessingWrapperPool` | wrappers by id | get-or-create, dispose | wrapper; no lock |

The example (`Example/WebRTCAudioProcessing`):

| Component | State | Operations | Talks to |
|---|---|---|---|
| `YJAudioPlayer` (what the play button drives) | file, seek frame, position, playing/ready/needs-schedule flags, display link | set up, play/pause, skip, `updateDisplay`, completion handler | AVAudioEngine, AVAudioPlayerNode, CADisplayLink, view |
| `PlayerViewModel2` | the same, plus the mixer tap and `pcmCache` | the same, plus the tap's block | the same |
| `NoiseReducedPlayer` | file, pending buffers of a render block | four ways to play a file | engine render thread, wrapper |
| `AudioNoiseReductionPlayer` | current frame, playing flag | play, pause, stop, seek, chained segment completions | node |
| `NoiseReductionNode` | switch, bypass and fallback flags, buffer pool, statistics | enable, render notification, reset of the statistics | main queue, engine render thread, player |
| `AudioPlayer` | file, playing flag, tap flag | local and remote play, stop, seek, tap | node, URL session, main queue |
| `AudioPlayerFlauto` | file, loop on a serial queue | start, stop, pause, seek | node, main queue |
| `DenoiseAudioUnit` | wrapper | one forwarded setter | wrapper |
| value objects, app delegate, view controller | - | labels, times, buttons | players |

Vendored and generated code (Abseil and WebRTC headers, Pods, the Xcode
projects) is outside the scope; the APM and AVFoundation are modelled as far as
the code uses them.

What is hard here is always the same: AVFoundation calls back on threads of its
own, at times nobody chose (completion handlers, tap blocks, render callbacks,
the display link), against state that no lock protects. `PROJECT.json` lists
each such place under "hazards".

What makes each component correct:

- wrapper: no setter's effect is lost in the APM; frames processed after the
  setters are done use the settings;
- transports: what the view shows is what the node does; play always can start
  something; a late handler does not queue the file twice; no exception is
  raised in a player that reported ready; the end is reached and shown;
- tapped transport: the tap's loop never reads beyond the cache and returns;
- pool: one wrapper per id, none shared by two ids; what a look-up found goes only
  with its own id;
- processing methods: a call returns what the APM made of its own data, and a
  buffer goes through the APM block by block, each once;
- noise reduction node: the two flags of its switch agree in the end, the render
  thread does not go on allocating, the longest time shown is one that was
  measured;
- render pipelines: every frame of the file comes out once, in order, and
  10 ms at a time through the APM;
- segment player: the segments scheduled are the file, once, in order;
- local and remote player: each playback ends once, and while something is heard
  the player says so;
- processing loop: what was read before a stop does not outlive it, and the loop
  and the main thread never wait for each other.

## Modules

| Module | Models | Checked by |
|---|---|---|
| `ConfigRegister` | what the wrapper promises: the last call leaves with the APM as asked for, and the calls come to an end | as a property of `wrapper` |
| `FilePlayback` | what the segment player promises: the frames of a file, one after the other, to the end | as a property of `segment` |
| `AudioProcessingWrapper` | `AudioProcessingWrapper.mm`, configuration | `MCAudioProcessingWrapper` |
| `FrameProcessing` | `AudioProcessingWrapper.mm`, processing methods | through `WrapperPool` |
| `WrapperPool` | `AudioProcessingWrapperPool.mm`, with threads that process: extends `FrameProcessing` | `MCWrapperPool` |
| `AVPlayerNode` | the node class of AVFoundation (external) | through the players |
| `TransportPlayer` | `YJAudioPlayer.m` and the play button | `MCTransportPlayer` |
| `PlayerViewModel2` | `PlayerViewModel2.m`: extends `TransportPlayer` by the tap | `MCPlayerViewModel2` |
| `SegmentPlayer` | `AudioNoiseReductionPlayer.m` | `MCSegmentPlayer` |
| `NoiseReductionNode` | `NoiseReductionNode.m` as `AudioNoiseReductionPlayer` uses it | `MCNoiseReductionNode` |
| `AudioPlayer` | `AudioPlayer.m` | `MCAudioPlayer` |
| `RenderFile` | the four ways of `NoiseReducedPlayer.m` to play a file | `MCRenderFile` |
| `FlautoPlayer` | `AudioPlayerFlauto.m` | `MCFlautoPlayer` |
| `...Proofs` | lemmas and theorems about the module they are named after | tlapm |

The players (`TransportPlayer` and with it `PlayerViewModel2`, `SegmentPlayer`,
`AudioPlayer`, `FlautoPlayer`) extend `AVPlayerNode`, the part they share.

Operators whose comment begins "Mutant" are deliberately wrong variants of
a definition near them; no specification uses them. They record which
mistake in the code each property would reveal.

### AudioProcessingWrapper

A setter writes one field (`SetField`) and runs `applyCurrentConfiguration`:
`ApplyConfig` takes the APM, `CopyField` copies the struct one field a step,
`EndApply` gives the APM back, `Initialize` follows. `Reset` assigns the struct
field by field. `pc` says where each thread is, `todo` which fields its struct
copy has left. An enumeration value outside the switch writes nothing and is
applied all the same (`SetUnknown`). `ProcessStream` is an audio thread's frame.
Two facts about the outside are assumed: calls of the APM exclude each other
(its header promises thread safety), and a racing read of a word yields the
value before or after the write.

`ConfigRegister` leaves out the threads' places, the struct copy and the locks.
Callers write a wanted configuration and the APM follows a field at a time, but
only while a call is under way, and the last call may return (`Return`) only
when the APM has the whole of it. `ImplementsRegister` is this, and that there always
comes a time without calls, which is where the fairness comes in. The step that may
break it is `Initialize`, with which every call ends: that nothing is behind then
follows from no single step but from `NoLostUpdate`.

### FrameProcessing and WrapperPool

A sample is told apart by the call it belongs to, its index in that call's data
and the channel of the APM it went through; that is enough to tell a call's own
samples from another's, a swapped channel and a stale tail. The APM is given a
rate and pointers, so it takes 10 ms whatever the data holds: `Written` and
`Processed` change the first `NumSamples`, and data that is shorter is read past
its end, which may go unnoticed or end the program (`MayCrash`).
`processAudioFrame:` works in `_processedBuffer`, which all threads share:
taking its bytes (`processAudioFrame`), the APM's call (`ProcessStream`, or its
failure) and the copy that is returned (`CopyOut`) are steps of their own.
`processBuffer:` gives the APM a block a step; the methods that work in memory
of their own are one step. `overlapped` holds the threads whose call another one
cut into: what those return is left to the race, and the property speaks of the
others. `processAudioFrameFloat:` takes what it gets for interleaved data, while its
header and its caller `AudioPlayerFlauto` have one channel after the other; so
`ReturnsOwnFrame` asks for the right channel of `processAudioFrame:` only, and of
the other that each sample is back at its place.

In `WrapperPool` the look-up (`wrapperForId`), the retaining of what was found,
the creation and the insertion, which takes time, are steps; an access of
another thread during an insertion may end the program, and retaining an object
that is gone does. Objects are counted: `retains` is what the dictionary and the
callers add and take away. `split` holds the ids whose wrapper was disposed of
or replaced: two callers of such an id may hold different wrappers, and a caller
may find what it looked up gone (`GoneOnlyWhenSplit`: of no other id). A caller
that holds a wrapper may make any call of `FrameProcessing` with it, so that
several threads process through one wrapper.

### AVPlayerNode, TransportPlayer and PlayerViewModel2

Positions, lengths and clocks are counted in *display periods*: the time in
which the display link fires about once. The node is a record of a playing
flag, a clock and a queue of stretches of files. Its clock runs while it plays,
even with nothing queued; stop clears both; its time is nil, read as 0, while it
does not play.

User calls and `updateDisplay` run on the main thread, so each is one action.
`Render` and `completionHandler` run elsewhere and interleave. A handler falls due
when its stretch is consumed or dropped and is counted in `callbacks` until the
system delivers it. Within `seek:` a handler can arrive between the stop and the
line that clears `needsFileScheduled`; it is then lost in it, which is the `early`
of `seekIntoFile`. At any other place in a call the order of handler and call is
the order of two actions. `raised` means that AVFoundation raised an exception
and the program is gone.

The histories `late` (a call came while the end of the file was not yet shown)
and `crossed` (a handler arrived when its replacement was already queued) name
the two windows in which this code does misbehave. The properties say
that nothing goes wrong outside them, or state exactly what still holds within:

- after a skip to the end the node is stopped while `isPlaying` stays YES until
  the next tick. A play/pause in that window toggles the wrong way; a skip back
  or a setup leaves a stopped node shown as playing; in `PlayerViewModel2` a play
  installs a second tap, which raises;
- a stale handler after a seek sets `needsFileScheduled` with the segment still
  queued: pausing and playing then queues the whole file behind it and resets
  `seekFrame`, so the position shown is wrong.

In `PlayerViewModel2`, `tapBuffer`, `testCache` and `takeChunk` are the three points
of the tap's block between which the main thread can replace `pcmCache`. It
is assumed that removing a tap does not wait for its block. `replaced` records
that a restart did so under a running block, the only other way to an exception.
What the converter writes is left open up to its capacity of one chunk.

### SegmentPlayer

The player queues 100 ms at a time. The completion handler of a segment runs on a
thread of AVFoundation, adds the segment's frames to `_currentFrame` and queues
the next segment, while the calls of the user do the same on the main thread;
there is no lock. So every access to shared state is a step: `pc` holds both
threads' places, `scheduleAudioFile` is three steps (`TestEnd`, `MeasureSegment`,
`ScheduleSegment`) that either thread may be in, `play`'s test for the end, its
rewind and the start of the engine are three (`TestRewind`, `Rewind`, `StartEngine`),
and the handler's `+=` is a read (`HandlerReads`) and a write (`HandlerAdds`). Handlers run one at a time in
the order their segments ended. `disturbed` says that a call cut into a chain of
segments (or a seek went to frame 0, which `play` takes for a player that has
nothing queued): what the properties promise, they promise of undisturbed
chains. `overtaken` says that a chain ended while a call was under way, which is
one of two ways in which the player stays shown as playing for good. The other is a
file without frames: `TotalFrames` is 0 for an empty file and for one that
`setupAudioFile:` could not read, since the player is marked as prepared in any
case. `play` then has nothing to queue and sets the flag.

`FilePlayback` is what is left without node, segments, handlers and threads: the
next frame, whether the player says it plays, and whether a call cut in. `next`,
`isPlaying` and `disturbed` are these three (`Playback`), and `PlaysFile` says that
each step hears the next frame of the file, begins, ends at the end, moves to
another frame while nothing plays, or leaves the three alone. `NeverStuck` is
about disturbed chains as well: when the main thread is in no call and the player
says it plays, the node plays, the engine runs, and a segment is queued, played or in
its handler, unless the file has no frames or a chain was `overtaken`. Only a handler clears the flag, so without this a playback
could not end.

### NoiseReductionNode

Three parties meet without a lock: callers of the setter and of the reset, the main
queue and the engine's thread. `setEnabled` writes `_enabled`, `Dispatch` appends the
block that sets the other flag, `mainBlock` runs it when the main thread is free.
`phase` is the place of the engine's thread: the notification before a slice
(`PreRender`), the one after (`PostRender`), then the buffer from the pool, the
processing, the buffer's return, the time, the maximum (read in `TakeTime`, written
in `RecordMax`) and the test for the fallback. A time is any of `Times`,
counted in the duration of a frame. `_inputBuffer` gets its size from the first
slice; a longer one is copied past its end, which may end the program. The
history `crossed` says that the last calls of the setter overlapped, `lostReset` that
a reset fell between the read and the write of the maximum. `mainBlock` is one step
for the block's two writes, and the node is taken to outlive its blocks: one that
finds it gone dereferences nil (`NoiseReductionNode.m:256`).

### AudioPlayer

Calls and the blocks of the main queue are actions of the main thread; a handler
(`completionHandler`) and a download (`Downloaded`) only append a block to
`mainQueue`. `due` counts the handlers that AVFoundation has still to run, also
those of what was stopped. `crossed` says that the end of one file reached the
main queue when the next was queued; it then clears `isPlaying` under it.
`replayed` says that `play` was called when no end was to come (`EndsToCome`), because
nothing was played yet or the file had ended: the player then shows that it plays
until the next `pause`, `stop` or file, and `PlaybackEnds` holds in all other cases.

### RenderFile

A frame is its position in the file. `method` says whose block is run: one
state machine stands for the three render blocks, which have their steps in
common, and for `playFile:`'s loop. The engine asks for any number of frames
(`renderBlock`), a read returns any number up to what was asked for or fails, and
each turn of the inner loop is a step (`Block`). What was heard (`heard`), what went
through the APM (`denoised`) and what it failed on (`refused`) are sets of frames: on
any block `ProcessStream` may fail, which is logged, and the block is output as it
was read. `playFile0:` rounds the frames of 10 ms where the APM truncates, which
`Roundings` covers: `RawFrames` says which frames are heard that the APM never
got, and that they are the last of their blocks and nothing else. `failed` is about
the callback at hand, since the next one reads on.

### FlautoPlayer

The loop on the processing queue is a thread of five places; it hands each buffer
to the main thread with `dispatch_sync` (`PostBuffer`, place "wait") and then posts
the block with `dispatch_once` (`PostPlay`). The calls run on the main thread.
Only `startPlayerFromURL:` is two steps, since the loop can look at `audioFile`
between its stop and the opening of the new file. `stale` counts the buffers that
were read before the last stop, seek or start and reached the node after it. `seek:`
rejects positions beyond the file only; those before its start are left out of the
model, since what AVAudioFile makes of one is not known here.

## Runs

| Run | Bounds | Shows |
|---|---|---|
| `wrapper` | 2 threads, 2 fields, 3 calls | updates survive, calls return, frames follow the settings, implements `ConfigRegister` |
| `transport` | files of 2 and 4, skips of 2, 6 calls, clock to 5 | five invariants over all interleavings; playback ends and the view shows it |
| `viewmodel2` | a file of 3, chunk of 2, buffers of 1, 2, 5 frames, 4 calls | the tap's cache, the exceptions, the queue; the block returns |
| `viewmodel2_taps` | the same, 2 calls | refutes a comment, see Findings |
| `segment` | a file of 3, segments of 2, seeks to 0, 1 and 3, 3 calls | undisturbed chains play in order and to the end, as `FilePlayback` says; exceptions only in races; a player that says it plays goes on, and ends, unless `overtaken` |
| `segment_seek` | the same, seeks to 1 | refutes a comment |
| `audio` | files of 1 and 2, 4 calls, clock to 3 | each playback ends once, what is heard is shown, the time shown never runs ahead, playback ends unless `replayed` |
| `render` | a file of 7, reads of up to 5, blocks of 2 (or 3), requests of 1, 3, 4, 7 | order, loss, silence, what the APM never gets; callbacks return |
| `flauto` | files of 2 and 3 buffers, 4 calls | one stale buffer at most; the loop ends |
| `flauto_first` | 2 calls | refutes a comment |
| `pool` | 2 threads, 2 ids, 2 wrappers, 2 processing calls of 1, 4 or 5 samples or frames, 10 ms being 2 frames of 2 channels | what was found goes only with its id, one wrapper per id, each call its own samples, each block once; calls return |
| `node` | 2 callers, one the main thread, 2 calls, slices of 1, 3 and 6, a pool of 2, statistics reset every 2 slices, times 0 and 4 | the switch settles, allocation stops, the maximum is true; a node that is on processes |

Why these bounds are enough. Two threads and two fields make every pair of
writers and copies race. A file of four periods with skips of two reaches a
position inside, a clamp at either end, and a segment shorter than the file; six
calls are enough for play, skip, skip, pause, play, skip, the longest sequence
any counterexample to a mutant needs being four. In `segment` the file is a
whole segment and a short one, so that both ends of the chain occur, and three
calls suffice to start a chain and cut into it twice. The run's
file has frames; the theorems about `SegmentPlayer` hold of one that has none too. In `render` the read size,
the block and the requests are multiples of none of the others, which produces
every remainder. In `audio` and `flauto` a second file can start while the first
plays, ends, or is on its way. In `pool` the rate is 250, so that its division
leaves a remainder, and the sizes are less than 10 ms, exactly 10 ms (of
samples; of frames, two blocks) and more by a part; two threads are enough for
every race of a look-up, an insertion and a dispose, any number of which may
follow each other, and two processing calls for one to find the other's samples
in the buffer or to overlap it. In `node` three sizes of slice meet two places
in the pool, a time of 4 is too slow for two of the sizes, and two calls let the
setter cross itself or the reset. `MaxCalls` and `MaxActs` only bound how often
the caller calls, and `MaxTime` where a clock is cut off (longer than every file
where a property looks at it). Deadlock checking is off where the bound on
calls, or an exception, lets the system come to rest.

No run checks a type invariant: each is proved. (`TypeOK` can be put into the
cfg of any run as an INVARIANT.)

Fairness: a thread inside the wrapper runs on and the APM's lock is fair (strong
fairness of `Advance`); the display link fires while it is not paused, the
engine renders while it runs (also through the noise reduction node),
AVFoundation delivers every handler, the main queue is served, and a block, call
or loop that has begun runs on (weak fairness each). No fairness is assumed of
callers.

## Proofs

Each for every value of the constants that the named assumptions allow; these are
the only assumptions.

`AudioProcessingWrapperProofs`: the type invariant; `NoLostUpdate` from an
invariant that adds who holds the APM and which threads have copying left (as it
stands the property says nothing of a thread in the middle of a copy);
`InitializePending`; `FramesFollowSettings` as an action property from
`NoLostUpdate`, since in a quiet state no thread can still have to copy; and the
refinement of `ConfigRegister`, step by step and from `NoLostUpdate` where a call
returns, with the fairness of `ConfigRegister` (a time without calls always comes)
as its hypothesis, which TLC checks of `FairSpec`. `HolderCopies`: who holds the APM is
copying and waits for nobody; `QuietIsApplied`: with no call in flight the APM has the
whole configuration, initialised; `ConfigCallsRunDown`: each step of a call counts down
what it has left. What `EventuallyApplied` adds is fairness, and callers that stop calling.

`TransportPlayerProofs`: the type invariant and all five of `transport`, for all files,
lengths, skips and either value of `Tapped`. `ShownIsPlaying`, `RaisesOnlyUnready`,
`QueuedOnce` and `ShownIsHeard` are not inductive; each has a strengthening of its
own in the module (who may be queued in which state of the flags, where a late
handler can come from). The
lemmas on the node's operators (what scheduling, rendering and stopping do to
queue and clock) stand at the head of each player's proof module that needs them.

`SegmentPlayerProofs`: the type invariant, and three more invariants.

- `ChainInv` is about chains that no call cut into. There is one segment, in one
  of three places: in the node's queue, with its handler due, or with its
  handler at work (`OneSegment`). `_currentFrame` is the segment's start until the
  handler has added its size, and `next` lies within the segment until it was
  played and at its end from then on. What the main thread may rely on follows
  place by place (`InCall`, `InSchedule`): while a segment is played or handled it
  is in no call, or in the last two steps of `play` (`GoingPlaces`), which is why
  the two threads' reads and writes of `_currentFrame` do not meet. `PlaysInOrder`,
  `RaisesOnlyRaced` and the action property `NotCutShort` follow; none is
  inductive, and each needs all of it, since a wrong position at one segment
  shows only at the next.
- `WithinFile` holds of disturbed chains too: no stretch queued reaches beyond
  the file, although the test, the size and the start read different positions.
- The refinement of `FilePlayback`, step by step: from `ChainInv` until a call cuts
  in, from `WithinFile` afterwards.
- `AliveInv`, again of disturbed chains, until one ends during a call: where
  nothing is under way the position is 0 or at the end, so that `play` starts a
  chain; and during `play`, or while the player says it plays, the test against
  the end that a handler repeats in `scheduleAudioFile` has the outcome it had
  the first time. `NeverStuck` follows; for a file without frames, that the node
  plays and the engine runs is all there is.
  This is the part of `PlaybackEnds` that needs no fairness.

`AudioPlayerProofs`: the type invariant and all three invariants. `EachEndsOnce`
counts the ends along their way from the node to the observers; the module proves
what `Append` and `Tail` do to the number of times a value occurs in a queue (the
latter by a bijection). `NeverAheadOfSound` needs that the node's clock does
not run ahead of its queue (`ClockBehind`). `ShownRuns`: a player that shows it
plays has a running engine, a node that plays and an end to come, unless it was
`replayed`; the last is proved with the count of the ends (`EndAhead`).

`RenderFileProofs`: the type invariant, which needs which places a method visits
and that what is pending ends where the file stands (`ControlInv`); `InOrder`, from
"what was heard lies before what comes next" (`OrderInv`); `SilentAtEnd`; and
`LostInCallback`, from `LossInv`: the lost frames are among the last few before the
position, and there are none while the callback still works; and `RawFrames`, from
where the frames lie that were heard and never given to the APM (`RawInv`). `CallbackRunsDown` is an action theorem: every step of a callback, or of
the loop of `playFile:`, lowers a natural number (what is left of the file,
counted three times, of the front of the input, of the request, and the place).

`FlautoPlayerProofs`: the type invariant and `StaleAtMostOne`, both from what
the main queue can hold at each place of the loop (`InStep`): since the loop waits
for its buffer's block, there is one buffer under way at most. `WaitIsServed`: it
waits exactly while that block is in the main queue.

`TransportPlayerProofs` also holds what is proved about `PlayerViewModel2`: that each of
its steps is a step of the transport (`TransportSteps`), so that the transport's
invariant carries over; its type invariant; `LeftoverBelowChunk` and
`RaisesOnlyInWindows`, from what the cache holds at each place of the tap's block
(`CacheInv`); and `QueueIsThisFile`, from the queue being a sequence of stretches of
one kind (`Ending`), which scheduling, rendering and dropping keep.
`TapBlockRunsDown`: the tap's block counts down, whatever the main thread does to the
cache meanwhile.

`WrapperPoolProofs`: the type invariant; `GoneOnlyWhenSplit`, from the retain
counts, which are the sizes of two sets that change by one member at a time, and
from a thread's id still mapping to what the thread found in it; `WrapperPerId`, from which
wrapper may be in whose hand at each place (one that is in the dictionary under
its id, or was, and then the id is in `split`); `ReturnsOwnFrame`, from what the shared
buffer holds at each place of a call that nobody overlapped; and `EachBlockOnce`, from
how often the frames below and above `offset` were given to the APM. The last is
arithmetic about multiples of a block, in lemmas of its own. `EachCallRunsDown`: each
step of a call counts down what is left of it, and the other threads leave that
count alone; it needs that a thread is in one call at a time (`OneCallInv`) and that
the offset stays within the buffer.

`NoiseReductionNodeProofs`: the type invariant; `SwitchSettles`, from what the
last block in the queue or in a caller's hand will write; `AllocatesOnce`, from
the buffers of the pool and the one in use having different sizes and the pool
losing none while it has room; `MaxIsPeak`.

Model-checked only: the liveness properties (fairness and ENABLED are beyond the
prover). Every invariant and every action property of the runs is
proved. Of a liveness property, what can be proved is the safety it rests on:

| liveness | behind it |
|---|---|
| `EventuallyApplied` (`AudioProcessingWrapper`) | `QuietIsApplied`, `HolderCopies`, `ConfigCallsRunDown` |
| `PlaybackEnds`, `EndIsShown` (`TransportPlayer`) | `DisplayRuns`, `ShownIsTrue`: the display link runs while the node plays |
| `CallbackReturns` (`RenderFile`) | `CallbackRunsDown` |
| `BlockReturns` (`PlayerViewModel2`) | `TapBlockRunsDown` |
| `CallsReturn` (`WrapperPool`) | `EachCallRunsDown` |
| `LoopEnds` (`FlautoPlayer`) | `WaitIsServed`: it never waits for a block that will not come |
| `PlaybackEnds` (`SegmentPlayer`) | `PlaybackGoesOn`: what plays always has something under way |
| `PlaybackEnds` (`AudioPlayer`) | `ShownRuns`: an end is to come, unless `replayed` |
| `EnabledProcesses` (`NoiseReductionNode`) | `SwitchIsSettled` |

A count that falls with every step shows that a thread that runs on ends; that
it is never left without a step to take, and what the others must do for
it, TLC checks.

## Findings

Each is a run that TLC refutes.

- `viewmodel2_taps`, `PlayerViewModel2.m:279`: the converted buffer holds one 10 ms
  chunk, so what a tap buffer has beyond that is not accumulated, against the
  comment at `PlayerViewModel2.m:39`.
- `segment_seek`, `AudioNoiseReductionPlayer.m:214`: the stop within a seek sets off the
  handlers of what it drops, which schedule again, against the comment at :213.
- `flauto_first`, `AudioPlayerFlauto.m:238`: nothing starts the engine before the first
  block's play, and the token is static, against the comment at :236.

Met while modelling, and in the models, but with no run of their own:

- `AudioNoiseReductionPlayer.m:179`: pause takes the node's clock for the
  position in the file, against the comment at :174; after a seek or a stop the
  two differ.
- `NoiseReducedPlayer.m:422`: `playFile00:` reads the file to its end before its
  "Step 1" (:475) looks for data, so that it is silent.
- `AudioProcessingWrapper.h:51` heads `processAudioFrameFloat:` "non-interleaved",
  while the code takes its data for interleaved (`AudioProcessingWrapper.mm:250-255`,
  `:285-289`). Its one caller, `AudioPlayerFlauto.m:206-220`, hands it one channel
  after the other and takes back the same: with more than one channel the samples
  go through each other's, although each gets back to its place.
- `AudioNoiseReductionPlayer.m:34` marks the player as prepared although
  `setupAudioFile:` may have failed (`:57-63`). With a file that could not be read, or
  is empty, `play` queues nothing (`:107`) and sets `_isPlaying` (`:164`); no handler
  clears it.
- `AudioPlayer.m:269`: `play` after the end of the file, or before any, starts a
  node that has nothing queued: `isPlaying` stays YES until a call clears it.
- `AudioProcessingWrapper.mm:166`, `:201`: a block that the APM fails on is output as
  it was read; only a log line tells.
- `AudioProcessingWrapper.mm:136`: the rest of a frame longer than 10 ms comes
  back unprocessed, or, of the `float` method, as `malloc` left it; shorter data
  is read and written past its end.

Besides these, the histories `late`, `crossed`, `replaced`, `disturbed`, `overtaken`
and `replayed` mark windows in which the code does go wrong without contradicting a
comment; the properties that mention them say exactly how much still holds.

## Plan

In order of weight; done but for what the last names.

1. `AudioProcessingWrapper`, `ConfigRegister`, proofs.
2. `AVPlayerNode`, `TransportPlayer`, proofs; `PlayerViewModel2`, proofs.
3. `RenderFile`, proofs.
4. `SegmentPlayer`, `FilePlayback`, proofs.
5. `AudioPlayer`, proofs.
6. `FlautoPlayer`, proofs.
7. `FrameProcessing` and `WrapperPool`, proofs.
8. `NoiseReductionNode`, proofs.
9. The safety behind the liveness properties (the table under Proofs). Left: a
   count of what is left of a playback, for `PlaybackEnds` of each player.

## Not modelled

Signal processing inside the APM; sample values beyond what is said above; metering,
volume, rate and pitch effects; logging; Xcode's boilerplate; the template tests,
which call nothing of the library.

`DenoiseAudioUnit` forwards one setter to a wrapper that nothing in the
repository sets, and the rest of it is commented out. `seekToTime:` of
`AudioPlayer`, `startStreamingFromNetwork:` of `AudioPlayerFlauto`,
`connectVolumeTap11` and `connectVolumeTap2` of `PlayerViewModel2`,
`audioProcessBuffer` of `YJAudioPlayer` (whose loop is that of `playFile:`) and
the transport of `NoiseReducedPlayer` have no caller.

A few places where the code depends on what the models leave open are worth
knowing: the play button sets its file up again on every press, and leaves an
earlier one queued (`YJAudioPlayer.m:108`; the app sets up one file only, which
is modelled); every press that plays through `playFile0:` adds a source node,
and all feed one APM (`NoiseReducedPlayer.m:320`; one is modelled); each buffer
of `AudioPlayerFlauto` interrupts the one before (`:225`), and a failed one is
copied from a null pointer (`:219`); a file the view controller writes is left
half written, since its wrapper is never set (`YJViewController.m:257`).

The Objective-C of the repository, some 4000 lines, is what runs here, and the models
stand for most of the lines of it that change state. The bulk of the tree
are headers of Abseil and WebRTC that come with a prebuilt library: declarations of what
is not called, or of which only the effect on the caller matters. Of these,
`GetFrameSize` and `StreamConfig` are modelled, because they decide how much of a call
the APM takes; the others are not, since a model of an unused header would say
nothing about this program.
