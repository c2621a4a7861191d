# A verification project for HiLib

HiLib is a C++11 library for small Linux devices: audio playback through SDL
and FFmpeg, an FM radio through V4L2, and a few utility classes (ring buffer,
message queue thread, list, schedule, streams). This directory holds TLA+
models of it, TLC runs that check them on small instances, and TLAPS proofs of
what matters most. Paths below are relative to the repository.

Conventions. Names of operators and variables are the source's where there is
one (`FRunningSource`, `FThreadDone`, `Remove`). Modules `MC...` instantiate a
module for TLC; modules `...Proofs` prove theorems about a component. Definitions
that stand right before a definition and resemble it (`ReadUnclamped`, `PopAnyway`,
`StopWaitsNot`, ...) are deliberate mistakes: replaced by one of them, the
definition must make a property fail. `PROJECT.json` lists which.

## 1. Inventory

| Component | State | Operations | Talks to | Hard part |
|---|---|---|---|---|
| `TLoopBuffer` (`include/hc_loopbuffer.h`) | `FBuf`, `FReadIdx`, `FWrited` | Read, Write, Clear | written by decode threads or the recording callback, read by the SDL play callback, cleared by the application | no lock, no atomics |
| `TThread` (`include/hc_thread.h`) | `FId`, `FTerminating` | Start, SetTerminating, WaitForTerminated | base of the queue thread and the player | one flag for all threads ever started; nobody joins |
| `TMsgQueue`, `TMsgQueueThread` (`include/hc_msgqueue.h`) | `FQueue`, `FMutex`, `FMsgSem` | Post, Peek, Clear, Start, Stop, Execute | clients and its thread | queue and semaphore change at different moments; Stop |
| `FFAudioPlayer` (`src/ff_audio.cpp`) | `FState`, `FThreadDone`, `FLoop`, FFmpeg contexts, `FPausedByRace`, `RefCount` | InstRef, Release, Load, Play, Pause, Rewind, Stop, AddOrUpdateSink, RemoveSink, Execute | the mixer, both ways; its decode thread | application and decode thread share every field unlocked; both call Stop; nobody joins the thread before the delete |
| `TAudioMixer` (`src/audio_mixer.cpp`) | `FRunningSource`, `FPausedSources`, `RefCount` | InstRef, Release, Open, Add, Remove, Pause, OnFrame | sources, by calls that call back; derives from the play device | re-entrant calls, hand-over, the device it closes or reopens under others |
| SDL devices (`src/sdl_audio.cpp`) | `FState`, `FObtainedSpec`, `FBuffer` | Open, Close, Pause, Write, HandleCallback | SDL's callback threads | states assigned whatever SDL did |
| `TRadioPlayer` (`include/radio_player.h`) | - | Open, Close, Play, Pause | mixer and recording device | order of its calls |
| `TAudioSource` (`include/hc_audio.h`) | `FSinks`, `FLock` | AddOrUpdateSink, RemoveSink, Send | recording callback to sinks | OnFrame under the lock |
| `TList`, `TObservable` (`include/hc_list.h`, `hc_observer.h`) | links, `FCount`, `FExtry` | push, pop, extract, Notify | - | tail pointer, removal during iteration |
| `TSchedule`, `TScheduleList`, `TDateTime` | last execution | NeedExecute, Execute | the clock | local and universal days, clock set back |
| base streams, transceivers, TLV | - | ReadBuf, WriteBuf, ReadLn, WriteLn, SendTLV, ReceiveTLV | file, pipe, TCP | short and failing reads, lines at the end of the buffer |
| `TV4L2RadioCtrl` (`src/v4l2_radio.cpp`) | `Fac`, `FHandle` of its device file | StartUp, Tune, Seek, QueryStat | V4L2 driver | width and unit of frequencies, a StartUp that failed |
| `TALSADevice` (`src/alsa_device.cpp`) | `FPcmHandle`, `FLog`, `FCanPause`, `FPeriodSize` | Open, Close, Pause, Read, Write | ALSA | opens that fail half-way, recovery after an overrun |
| `TAVFormat`, `FFAudioDecoder` (`src/ff_decoder.cpp`) | codec state | Init, DecodeFrame | FFmpeg | unused, see section 6 |
| I2C, recorder, stubs | a handle | wrappers | kernel | none worth a model |

What makes each correct, in a sentence: the ring is a FIFO queue of bytes and
stays inside its buffer; the queue loses, repeats and forgets no message and
its thread stops; the player never decodes with what it has freed, never runs
without a thread, and its Stop returns; the mixer plays one source at a time,
resumes whom it paused, and keeps the device running for whoever plays; the
recording callback writes only while it may, and nobody waits for it for ever;
the list is the sequence of its items under every mixture of calls; Notify
tells each observer once; an event happens when it is due and not again; a
frame or a line arrives as it was sent, or someone is told; an opened device is
ready or closed again; a tuner is where it was told to be. The hazards, each
at its line and with the properties that watch it, are in `PROJECT.json`.

## 2. The modules

```
ByteFifo  <--implements--  LoopBuffer          the ring, call by call, with its bytes
                           SharedLoopBuffer    the ring, load by load, without its bytes
                             ^-- extended by  SharedLoopBufferHistory   have calls collided?
   both over RingState: the capacity and the two counters
                           MsgQueueThread      queue, semaphore, threads
                           FFAudioPlayer       one player inside its calls, with decode threads
                             ^-- extended by  FFAudioPlayerHistory   what has gone wrong?
SourceStack <-implements-  AudioMixer          mixer, device, players, radios, call by call
                           RecordFeed          one radio and one player lock by lock, with
                                               the recording and the play callback
   both over SourceList: std::list with its remove
ValueList <--implements--  LinkedList          the list, link by link, with one iterator
                             ^-- extended by  Observable   Notify and the calls Update makes
FrameChannel <-implements- TlvStream           frames over a stream of bytes
             <-implements- LineStream          lines over a stream of bytes
                           Schedule            events, the list of them, the clock
                           ALSADevice          one ALSA device and what ALSA gave it
                           RadioTuner          the tuner, its device file and its units
```

A few variables are no part of the code and only remember something for a
property: `happened` (`FFAudioPlayerHistory`), `disturbed`
(`SharedLoopBufferHistory`), `considerate` (`AudioMixer`),
`clockSet` and `lastRun` (`Schedule`), `sent`, `delivered` and `reported`
(`TlvStream`), `sent`, `delivered` and `broken` (`LineStream`), `told` and
`owed` (`Observable`), `asked` (`RadioTuner`). No guard of an action that
stands for code reads them.

**`LoopBuffer`** models one call of `Read`, `Write` or `Clear` as a step, with
the contents of `FBuf` and the two-part `memcpy`s; `result` is what the call
handed back. **`ByteFifo`** is what callers rely on: a bounded sequence.
`LoopBuffer!ImplementsFifo` maps the sequence to `FWrited` bytes from
`FReadIdx` on, modulo the capacity.

**`SharedLoopBuffer`** splits the same three methods into single loads and
stores of `FReadIdx` and `FWrited`. The Makefile passes no optimisation flag,
so each mention of a field is an access of its own, in the order the
unoptimised compiler emits (left operand first; the chained assignment of
`Clear` stores `FWrited`, loads it again and stores `FReadIdx`). Memory is
taken to be sequentially consistent, which an ARM with one core gives and one
with several does not promise; what fails in this model fails there too.
`Word` is the number of values of a `size_t`. Its specification is called
`SharedSpec` (and that of `LoopBuffer` `RingSpec`, that of `LinkedList`
`ListSpec`), so that one module can extend several. The actors are the play
callback, the producers, and the application's `Clear`, and nothing keeps them
apart, because the library does not:

* There are two producers when a file is played over a radio that sounds.
  `Play` starts the decode thread, which writes, and only 20 ms later `Add`
  takes the mixer out of the radio's sinks (`src/ff_audio.cpp:168-170`). Both
  can find room for the same bytes, and the count passes the capacity.
* `Clear` meets a `Read` under way when `Add` displaces the radio, whose
  `RemoveSink` does not pause the play device (`src/audio_mixer.cpp:66-70`).
  (When it displaces a running player, the player's `Pause` has stopped the
  callback first.) `Read` then subtracts its count from a counter that `Clear`
  has set to 0, which wraps.

**`SharedLoopBufferHistory`** remembers in `disturbed` that either has happened.
The counters can then have any value, and keep it after the calls have
returned; a `Clear` that runs alone leaves the ring as the constructor does and
ends it. `RingBounds` is what holds whenever the ring is not disturbed. Within
one `Read` the loads of `FReadIdx` are one step (`ReadCopy`) and the store
another (`ReadAdvance`); only `Clear` could tell the loads apart, and it
disturbs the ring when it meets them.

**`MsgQueueThread`** has one step per critical section of `FMutex`, semaphore
call and access of `FTerminating`. `client` says whether a client is between
its push and its `sem_post`, `worker` where a thread is in `Execute`. `Start`
does not look for an older thread, so there may be several. `inHand` is the
message a thread has popped and not deleted. A message is its address, which the
allocator may use again after the delete.

**`FFAudioPlayer`** models one player against the application and the decode
threads. `pc` says where each is; a step ends where a thread sleeps, waits or
reads a field it will act upon. `decoder` stands for everything `Load`
allocates and `Stop` frees, `FCodecCtx` apart because `Stop` does not set it
to `NULL`; `unsent` for `FBufSize > FBufReaded`. The mixer's two fields are
`top` and `below`, with the radio as the only other source; its calls are
atomic here. `Load` is two steps, one that says `LOADING` and one that returns.
The player is a singleton with a count of references (`RefCount`): `InstRef`
makes it, the last `Release` calls `Stop` and deletes it, whatever `Stop` did. A
step of a thread of a deleted player uses memory that is gone; the model ends
its claims there and does not follow what happens.

Nothing in the code waits for a thread to go before it starts another, and
nothing in the model does: `Play` after a `Pause`; `Rewind` of a player that
runs, which pauses it, seeks and plays again at once
(`src/ff_audio.cpp:146-149`); and the mixer, which resumes a player it paused as
soon as the radio leaves (`src/audio_mixer.cpp:86-91`,
`src/ff_audio.cpp:219-229`). Two threads then decode into one `FBuf` and share
one `FThreadDone`. Nor is a new thread sure to have begun when the 20 ms are
over that `Play` leaves it. The run `player` has all of this, and what it checks
holds with all of it.

**`FFAudioPlayerHistory`** remembers in `happened` what has gone wrong, and each
of its properties says which mishaps it does not survive:

* `loadFailed`, a file does not open or decode. `StopClosesLive` ends here:
  play a file, stop, load a file that fails early, stop. The second `Stop`
  closes a codec context inside a format context that the first one freed.
* `preempted`, someone else takes a step while a thread is between its test of
  `FState` and the assignment that depends on it. `StopClosesLive`,
  `StateTellsDecoder` and `ReleasedAlone` end here: a client's `Pause` that
  has seen `RUNNING` may assign `PAUSED` after the decode thread's own `Stop`
  has freed everything, and two calls of `Stop` may both free it.
* `missed`, an end that someone did not notice. A thread is held up between
  `FThreadDone = true` and its last look at `FState`; or the destructor's `Stop`
  finds the decode thread in its own `Stop` and returns at once; or a file ends
  within the 20 ms before `Play` adds the player to the mixer, which then keeps
  a player that has stopped. In each case the object is deleted and someone
  still has its address, which only `ReleasedAlone` speaks of.
* `crowded`, a thread has been started while another was there. `DecoderInUse`
  and `ReleasedAlone` promise nothing until all threads have gone: the first
  thread to leave sets `FThreadDone`, and `Stop` frees the decoder under the
  other.
* `late`, a new thread has not begun when `Play`'s 20 ms are over. `Stop` trusts
  `FThreadDone`, which the thread has not cleared yet: the same two properties
  promise nothing until it has gone.

`TypeOK`, `RunningIsServed` and `StopReturns` excuse nothing, `StateTellsDecoder`
and `StopClosesLive` no number of threads. `StopReturns` says that a `Stop` does
not wait for ever while the state it has set is still there; a `Pause` that was
overtaken between its test and its assignment can let `Rewind` play again
behind the back of a `Stop`, which then waits for a thread that has no reason
to leave.

**`AudioMixer`** takes whole public calls as steps, including the calls they
make back: `Add` calls `RemoveSink` of the displaced source, which for a
running player is `Pause`, which calls the mixer again. `Add` and `Remove`
take the players' states as the caller has set them before. There are any
number of players and radios. A step leaves out the moments inside a call,
which is `FFAudioPlayer`'s part, and the bytes. `FBuffer` says whether the
play device has its ring, `sinks` how often the mixer is in a source's list.
SDL opens the device whenever asked, in a format of its own choice.

The mixer leaves it to its clients that a source is heard. `considerate` stays
true as long as they keep to three rules (`MayOpen`, `MayLeave`), and `Heard`
is stated for as long. Without any one of the rules it fails:

* to open nothing in another format while the device is in use: a second
  `Load` reopens the device under the running source and leaves it stopped;
* not to take away the last source while another is prepared: two files are
  loaded, the first ends, `Remove` closes the device, the second plays into a
  device that has no ring;
* not to stop a source one has paused and that is still on top: the device
  stays paused when the radio takes over.

**`SourceStack`** is what the mixer promises: the source added last plays, the
others wait in order. `FPausedSources` can name a source twice, and the
running one as well; the refinement mapping `Order` keeps first occurrences
(`Once`). **`SourceList`** has the list operations both use. They are recursive
functions on intervals and not folds, so that they can be reasoned about.

**`RecordFeed`** looks inside the calls of `AudioMixer` for one radio and one
player. A call is the sequence `todo` of the operations it makes that block or
that the callbacks can see: opening and closing the two devices (which wait
for SDL's callback to return), `Clear` of the ring, and `AddOrUpdateSink` and
`RemoveSink` under `FLock`. A play device is `Ringless` when it has no `FBuffer`:
closed, or a `ghost`, a closed one to which `Pause` has given a state since, so
that `Open` takes it for open. The recording callback takes `FLock` for the whole
of `Send`, and `OnFrame` stays in it until the ring has taken the frame; the
play callback empties the ring when the device runs. So a paused device keeps
the recording callback, which keeps the lock, which keeps the application. A
frame is `FrameLen` units and the ring holds `FCapcity`. `Env` has the three
things inconsiderate clients do; `slowCalls`: the application is held up
inside a call for as long as the recording callback needs to fill the ring;
and `openFails`: SDL fails to open the play device and the code does not
notice, as SDL returns 0 and the code looks for less. The device is then
`mute`: it counts as open and has a ring of the wanted size (SDL fills in the
specification before it fails), but never calls back. The run has `openFails`
alone in `Env`. Tried one by one:

| property | reopen | idleClose | stopPaused | slowCalls | openFails |
|---|---|---|---|---|---|
| `NoLateFrame` | holds | holds | holds | holds | holds |
| `RingThere` | fails | fails | holds | holds | holds |
| `CallReturns` | fails | fails | fails | fails | holds, as it excepts a mute device |

`holders` are the objects that hold a reference to the mixer; `Delete` is a
destructor, which closes its source and then releases the mixer, and the last
`Release` deletes it and closes the device. To delete the radio while a file
is loaded and not yet playing is a case of `idleClose`: `~TRadioPlayer` takes
away the last source, and with it the device the file was loaded for.

With `slowCalls` it is `Play` of the radio while another source plays: the
sink is attached and the recording runs before the play device is started.

**`LinkedList`** keeps what every link holds (`next`), `FExtry` as the address
of the last link, and an iterator as the address of a link, as the code does;
memory that is released holds `Junk`. Items that `Pop` and `Extract` return
are in a client's hands until it releases them or pushes them back. Clients
do not pop the item their iterator stands behind, nor clear the list under
it. **`ValueList`** is the sequence of values: push at either end, remove one,
clear.

**`Observable`** is `Notify` over that list, whose links, items and iterator are
those of `FObservers`, with `Update` as a point at which
observers are added and deleted. `DeleteObserver` does not release the item it
extracts: it leaks, and that is what keeps the loop safe, because the link
`Notify` stands on may belong to it. `SelfDelete` lets an observer delete the
registration it is being updated for; with `TRUE` the loop can step past the
last item, so `NotifySafe` is claimed, and checked, for `FALSE`.

**`TlvStream`** has the bytes of frames, named by frame and position, in a pipe
of bounded size. Each write and each read moves some of them or fails. `Env`
lists `readFails` and `writeFails`, and `unlocked`: two threads send at the
same time, without which they take turns. With `unlocked` the headers and
payloads mix and `ImplementsChannel` fails. **`FrameChannel`** promises that
frames arrive whole, in order and once until `broken`, which is mapped to
`reported`: some call has returned a failure. Frames without payload are left
out by `Shortest = 1`: `ReceiveTLV` returns 0 for one as it does for a
failure.

**`LineStream`** is `WriteLn` at one end of a pipe and `ReadLn` at the other. A
write may be short, upon which `WriteLn` gives up half-way through its line; a
read may fail; a line may be too long for the reader's buffer, which has to
take a CR and a NUL as well. `broken` remembers any of them, and until then
the lines arrive as `FrameChannel` promises. On a line feed that follows
nothing, `ReadLn` looks at the byte before its buffer (`buf[readed - 1]`); the
model lets it be a CR, upon which `ReadLn` returns -1. A line of `WriteLn` has
a CR of its own, so it takes a broken one to get there. With `closes` the
writer closes the stream: `ReadLn` takes the end of the file for a byte, with
whatever `CH` holds, and returns lines nobody wrote.

**`ALSADevice`** keeps what ALSA has handed out (`held`) and the state of the
pcm, against the fields of `TALSADevice`. `Open` fails at any of its calls; if
only the log cannot be attached it goes on without, and where it would then
use `FLog` the program ends.
A transfer starts a prepared pcm and prepares one that was overrun. Clients
close a device before they open it anew, also when `Open` has failed; with
`reopen` in `DeviceEnv` they do not, and `OpenIsReady` fails: each further
`Open` loses the handle of the log, and one on an open device loses the pcm.
With `suspend`, nobody resumes or prepares a suspended pcm: its transfers fail
for ever.

**`RadioTuner`** has the factor `Fac`, the descriptor, and the tuner in its own
units. `Kilo` stands for 1000 and `Word` for the number of values of a
`uint32_t`, so that TLC can run into the end of a word with small numbers.
A tuner may report kHz in a field of its own (`private`), as one driver does.
Clients heed the result of `StartUp`; with `heedless` in `TunerEnv` they tune
with the factor of the constructor, or of an earlier `StartUp`, and
`FreqKept` fails.

**`Schedule`** has the clock, and for each event its kind, the time it has
noted, and how often it stands in the list: `Add` is a plain `PushBack`. Of an
event that is due the first entry is executed, and what that notes decides
about the others (`Times`). `Tick` and `SetClock` move the clock. `SecondDiff`
wraps as a `uint32_t` does. Days have `DayLen` seconds, so that TLC sees a week
of them. Local time is `UtcOffset` ahead of UTC: an event is due when its hour
has passed in local time, and notes that hour in UTC (`UtcHour`). An event with
interval 0 is never executed, as in the code.

## 3. Runs

| Run | Checks | Instance and why it is enough |
|---|---|---|
| `utilities` | `RingTypeOK`, `ImplementsFifo` | capacity 3, two byte values, requests 0..4: every wrap-around, exact fit, clamp and empty request; the theorem covers the rest |
| | `Accounted`, `IteratorInList`, `ImplementsList` | three items (first, middle, last), two values, `MaxCount = 4` |
| | `OnceOnly`, `Spaced`, `IntervalIsServed`, `OnceADay`, `DayIsServed` | one event of each of eleven kinds, up to twice in the list, days of four seconds with local time one of them ahead of UTC, more than a week of them, the clock set to any second; events do not touch one another |
| `ring_shared` | `RingBounds` | two producers, which are alike, capacity 2, five values in a word, requests of 1 and of 3 bytes: all interleavings of the four actors, also when they have collided (13 148 264 states); the theorem covers the rest |
| `ring_overrun` | `ReadWithinRequest`, violated | one producer, capacity 3: no collision is needed |
| `queue` | `TypeOK`, `SemCoversQueue`, `OneOwner`, `EveryMessageLeaves` | two clients, two threads, capacity 2, four messages (two queued, one in each thread's hands), `MaxSem = 4`: `Clear` can leave twice the capacity of counts behind |
| `queue_stop` | `StoppedThreadExits`, violated | one client, one thread |
| `player` | `TypeOK`, `RunningIsServed`, `StopReturns` | two threads (one that has not gone when the next starts), `MaxLoop = 2` (both outcomes of the loop counter), `MaxRefs = 2` (a Release that is not the last) |
| `player_history` | `DecoderInUse`, `StateTellsDecoder`, `StopClosesLive`, `ReleasedAlone` | the same; the threads are alike, as only safety is checked |
| `mixer` | `TypeOK`, `OnlyOneActive`, `Attachment`, `RacedWaits`, `Heard`, `ImplementsStack` | two players, one radio, two formats, at most three entries in the list (a source twice, another between) |
| `observers` | `NotifySafe`, `ToldOnce` | four items, three observers (one may register twice); symmetry in both, as only safety is checked |
| `tlv` | `ImplementsChannel`, `EveryFrameArrives` | two senders, three frames with payloads of 1 and 3 bytes, a header of 2, a pipe of 3: one frame fits exactly, the other must wait for the reader |
| `schedule_second` | `LeastOneSecond`, violated | one event of each kind, once in the list |
| `record_feed` | `MCTypeOK`, `RingThere`, `NoLateFrame`, `CallReturns` | a frame of two units in a ring of three: it fits, fits in part, or waits |
| | `OpenIsReady`, `StreamGoesOn` | three handles (a pcm, its log, and one that is lost or new), two period sizes (that of the pcm and that of an earlier one) |
| | `FreqKept` | 1000 becomes 100 and a word 32768 values; frequencies that the units divide and do not, with products below and above a word for the wrong factor |
| | `LinesArrive` | three lines of none, one and two bytes (one of them a CR) and of three, which is one too many for a buffer of four; a pipe of four bytes |

Two runs have several components that share nothing: `utilities` the ring, the
list and the schedule, `record_feed` four others. `MCUtilities` and
`MCRecordFeed` begin as one of them and stay it (`part`), while the variables of
the others rest, so that their states are the sum and not the product.
The ring, the player and the mixer check their type invariants, and
`record_feed` those of its four; the type invariants of the remaining modules
(`SharedLoopBuffer`, `LinkedList`, `Observable`, `TlvStream`, `Schedule`) are
stated in them and hold on the same instances, but are not part of the runs.

Bounds on state: `MaxSem` stops clients from posting, `MaxPaused` stops calls
that would lengthen the list, `MaxCount` calls that would take `FCount` out of
its range, `MaxFrames` and `MaxLines` senders, `MaxNow` the clock, `MaxEntries`
calls of `Add`, `MaxRefs` calls of `InstRef`; all are guards in the modules. `MaxLoop` bounds what
clients ask for. Deadlock is checked in every run but two: in `tlv` the
receiver waits in its read for ever when the last frame is sent, and in
`record_feed` so does the reader of lines, and the application hangs when it
plays into a device that SDL failed to open.

Fairness. `MsgQueueThread!FairSpec` assumes that a client which pushed goes on
to `sem_post`, and that a thread which can run does (`OnMsgReceived` returns,
the mutex is not held for ever). No client has to call anything.
`FFAudioPlayer!FairSpec` assumes that a call the application is in proceeds
and that threads run. In both cases the steps are straight-line code or a
loop of short sleeps, and weak fairness is what a scheduler that starves
nobody gives. Fairness of a decode thread asks only for the steps that move it
on (`MovesOn`): nothing promises that the mixer's ring ever has room, and a
thread leaves all the same, because its loop looks at `FState`.
`TlvStream!FairSpec` assumes that a sender goes on with its frame and that the
receiver keeps calling. `RecordFeed!FairSpec` assumes that the callbacks run
when they can and, strongly, that the application gets a lock that is free
again and again: frames come at intervals of many milliseconds, in which
nobody holds it. `ALSADevice!Fairness` assumes a client whose loop goes on to
transfer whatever a transfer returned, as that of `test/alsa-test.cpp:76-83`
does.

## 4. What disagrees with what the repository says

* `ring_overrun`. `Read(buf, count)` may copy more than `count` bytes
  (`include/hc_loopbuffer.h:44-45`): the count is tested and loaded again.
* `queue_stop`. `Stop` sets the flag; a thread in `sem_wait` never looks at it
  (`include/hc_thread.h:41-42` against `include/hc_msgqueue.h:117-127`).
* `schedule_second`. "schedule least 1 second" (`include/hc_schedule.h:94`), but
  `UpdateLastExecute` counts the second of the day in UTC
  (`include/hc_schedule.h:65-70`). At UTC+8 an event of 9:00 is due at 1:00 UTC
  and notes 9:00 UTC, eight hours ahead of the clock; the difference wraps, and
  every `Execute` executes the event again until 17:00. On the next day at 9:00
  less than 24 hours have passed since the time noted, and it is not executed
  before 17:00. `OnceADay` and `DayIsServed` say what is left of the promise.

Met on the way, and without a run of their own:

* `FFAudioPlayer::Execute` never looks at `FTerminating`
  (`include/hc_thread.h:41-42` says it should), and a `Play` soon after a
  `Pause` revives the thread that should leave. `Rewind` of a player that runs
  does so itself: see `crowded` above.
* "only one channel active" (`include/audio_mixer.h:14`), but `Play` starts to
  write 20 ms before the mixer hears of it (`src/ff_audio.cpp:168`).
* Tuners that count in Hz (`V4L2_TUNER_CAP_1HZ`) are provided for
  (`src/v4l2_radio.cpp:30-31`), but a frequency in Hz times 1000 leaves the 32
  bits for every station (`src/v4l2_radio.cpp:71`): with `1hz` in `Caps`
  `FreqKept` fails.
* `TALSADevice::FLog` and `TDevFile::FHandle` are not set by their
  constructors: a `Close` before any `Open` closes whatever the memory says,
  and an `Open` of a device file takes a stray value greater than 0 for a
  descriptor. `ALSADevice` lets nobody close before the first `Open`,
  `RadioTuner` has the stray descriptor, with which no `StartUp` succeeds.
* A client's `Pause` of a player that the mixer has paused for the radio is
  lost: when the radio leaves, the player resumes
  (`src/ff_audio.cpp:175-177, 223`).
* `TList::Size` counts `Pop(ref)` twice and `Extract` not at all
  (`include/hc_list.h:187`), so `FCount` may become negative.

## 5. Proofs

| Theorem | Says | Assumes |
|---|---|---|
| `RingProofs!TypeCorrect` | `RingSpec => []RingTypeOK` | capacity at least 1 |
| `RingProofs!RingImplementsFifo` | `RingSpec => ImplementsFifo` | the same |
| `RingProofs!BoundsKept` | `HistorySpec => [](SharedTypeOK /\ RingBounds)` | `Word > 2 * FCapcity` |
| `FFAudioPlayerProofs!PlayerTypes` | `Spec => []TypeOK` | nothing of clients or scheduler |
| `FFAudioPlayerProofs!RunningHasThread` | `Spec => []RunningIsServed` | the same |
| `FFAudioPlayerProofs!StateIsTrue` | `HistorySpec => []StateTellsDecoder` | the same |
| `FFAudioPlayerProofs!ClosesOwnCodec` | `HistorySpec => []StopClosesLive` | the same |
| `FFAudioPlayerProofs!DecoderOutlivesThread` | `HistorySpec => []DecoderInUse` | the same |
| `FFAudioPlayerProofs!ReleasedLeavesNobody` | `HistorySpec => []ReleasedAlone` | the same |
| `AudioMixerProofs!MixerTypes` | `Spec => []TypeOK` | nothing of the clients |
| `AudioMixerProofs!OneActiveSource` | `Spec => []OnlyOneActive` | the same |
| `AudioMixerProofs!AttachedIsActive` | `Spec => []Attachment` | the same |
| `AudioMixerProofs!NoneForgotten` | `Spec => []RacedWaits` | the same |
| `AudioMixerProofs!ConsiderateAreHeard` | `Spec => []Heard` | the same (`Heard` has its own) |
| `AudioMixerProofs!MixerIsStack` | `Spec => ImplementsStack` | the same |
| `ListProofs!NoItemForgotten` | `ListSpec => []Accounted` | finitely many nodes |
| `ListProofs!IteratorsStay` | `ListSpec => []IteratorInList` | the same |
| `ListProofs!ListIsSequence` | `ListSpec => ImplementsList` | the same |
| `ListProofs!NotifyIsSafe` | `ObservableSpec => []NotifySafe` | `~ SelfDelete` |
| `ListProofs!EachToldOnce` | `ObservableSpec => ToldOnce` | the same |
| `ScheduleProofs!OnceIsOnce` | `Spec => OnceOnly` | nothing of clock and time zone |
| `ScheduleProofs!IntervalsKept` | `Spec => Spaced` | the clock stays below `Word` |
| `ScheduleProofs!IntervalsServed` | `Spec => IntervalIsServed` | no interval is near 136 years (`NoLongInterval`) |
| `ScheduleProofs!DailyOnce` | `Spec => OnceADay` | nothing of the time zone |
| `ScheduleProofs!DaysServed` | `Spec => DayIsServed` | the same |
| `TlvProofs!FramesArrive` | `Spec => ImplementsChannel` | not `unlocked`; where writes fail, no frame without payload (`Orderly`) |
| `MsgQueueProofs!QueueTypes` | `Spec => []TypeOK` | finitely many clients and threads |
| `MsgQueueProofs!NoWakeupLost` | `Spec => []SemCoversQueue` | the same |
| `MsgQueueProofs!EachMessageOnce` | `Spec => []OneOwner` | the same |
| `RecordFeedProofs!RingOutlivesFrames` | `Spec => []RingThere` | neither `reopen` nor `idleClose` (`Mannered`) |
| `RecordFeedProofs!DisplacedIsSilent` | `Spec => NoLateFrame` | the same |
| `RecordFeedProofs!OpenLeavesReady` | `ALSA!Spec => []OpenIsReady` | no `reopen`; handles are no null pointers (`Orderly`) |
| `RecordFeedProofs!TunedAsAsked` | `Tuner!Spec => []FreqKept` | no `heedless`; frequencies in the tuner's units, times `Kilo`, stay below `Word` (`InRange`) |
| `RecordFeedProofs!LinesAsWritten` | `Lines!Spec => LinesArrive` | lines hold no line feed; no `closes` (`Plain`) |
| `RecordFeedProofs!PartsKeepTypes` | `MCSpec => []MCTypeOK` | all of the last three and `Mannered` |

*Ring.* `RingTypeOK` is inductive. The refinement rests on two lemmas per method:
what `Read` hands back is a prefix of the unread bytes (`ReadBytes`) and what
it leaves is the rest (`ReadLeaves`); what `Write` copies lies behind the
unread bytes (`WriteCopies`) and so extends them (`WriteAppends`). `ModStep`
and `WrapMod` are the facts on `%` they need.

*Shared ring.* `RingBounds` alone is not inductive: a store of `FWrited` may
use a value loaded before the other thread's store. The strengthening
(`Reliance` in the proof module) says for each control point what its stale
locals still guarantee, for instance that a reader about to subtract has seen
at least its count and that a writer's room, once computed, is not exceeded
by anything the reader can do, as the reader only lowers the count. Lost
updates are allowed; the bounds survive them. It is claimed while the ring is
not `disturbed`: a step from such a state has one writer at most, and no reader
beside a `Clear`, or the state after it is disturbed; and a state that is
disturbed no more is that of a new ring (`FreshRelies`).

*Player.* `DecoderInUse` needs: at most one decode thread; a thread that has
not run yet implies an application asleep in `Play`; a thread in its loop
implies `~ FThreadDone` (`Announced`); and whoever is about to free, or has
freed, is alone with the decoder (`FreedAlone`), which also keeps a failing
`Load` from replacing a decoder in use; and, for a new player that finds no
thread, that the application does nothing but a destructor's `Stop` while
there is no reference. One lemma treats the application's steps, one `Stop`,
one `Execute`, one the references (`InvLife`). All of it is claimed while
nothing is `crowded` or `late` (`Supported`): a start then finds no thread
(`StartsAlone`), and when the last thread has gone what is left of the invariant
speaks of no thread and holds whatever went before. `RunningIsServed` is
inductive with no more than the labels: only `PlayStarts` sets `RUNNING`, and it
brings a thread (`StartServes`); a thread ends only where the state is another
(`ServedThread`).

`StateTellsDecoder` and `StopClosesLive` rest on `Telling`: while nobody is
overtaken between a test of `FState` and the assignment that depends on it, one
actor at most is deciding and one at most is in the rest of `Stop`; what the
first has seen still holds, and the state says what is allocated (`Decided`);
and until a file fails the codec context is that of the file (`Coded`). Neither
asks how many threads there are. `ReleasedAlone` rests on all of these and on
`Departed`: a player that is `STOPPED` is not in the mixer, nor while a `Stop`
is about to say so; `Play` has not been overtaken by the end of its file; and
without a reference there is a destructor at work or a stopped player. That it
has no thread either (`Deserted`) is claimed while nothing is crowded or late.
`SmoothStep` is what a step may assume that no mishap follows. `HistoryWatches`
carries over what is proved of the player without its history.

*Mixer.* `OnlyOneActive`, `Attachment` and `RacedWaits` are inductive together
(`SourceInv`) with: a player is known to the mixer if and only if it runs or is
paused (`Entered`); with no source nobody waits; and the source on top does not
count as paused by the mixer. Lemmas say what `Add` and `Remove` do to the
sources, under what their callers have done before. For `Heard`: as long as
clients are considerate, a device that says it is open has a ring, and a source
that was opened keeps it open (`Ringed`). The refinement needs what `Without`
and `Once` do to a list that is extended at its front or loses an entry. Such
facts follow from two lemmas on recursive functions over an interval, which
take the least argument at which a claim fails.

*List.* The proofs name the links: `Strung(l, n)` says that `l[0]` is `FEntry`,
each link leads to the next, `l[n]` leads nowhere and is what `FExtry` points
to, and no link comes twice. There is one way only to walk such a string
(`WalkFinds`), so that the recursive walk of the model finds it. Each call
leads from a string to a string: with an item in front (`Fronted`), at the
back (`Backed`), or without one (`Cut`); and its sequence of values changes as
`ValueList` says. The steps a client takes with an item in its hands (release
it, push it again) touch no link of the string.

*Observers.* `Place(l, n, j)` says where `Notify` is: before `l[j]` or on it,
and none of the items after it have been told, while every observer owed an
update is told or among them. An addition puts its item at the end, a deletion
moves the string together on either side of `j`. An observer that deletes the
registration it is updated for takes `l[j]` itself, hence the assumption.

*Schedule.* The properties speak of when an event was executed, the code looks
at what it has noted. `Noted` says the two agree for all but daily events,
`HourNoted` that a daily event notes its hour in UTC on the day it has run in
UTC. `Past` says that until the clock is set no event has run later than it
shows; where an event notes when it ran, the subtraction then does not wrap
(`DiffExact`). Once the clock has been set back it does wrap; the result is then
more than any interval (`NoLongInterval`), so that the event is due rather than
forgotten: this is what `IntervalIsServed` needs. The hour of a daily event
lies within a day of its execution on either side (`HourWithinDay`). So its
difference is exact when the hour is not ahead of the clock, and more than a day
when it is (`HourDiff`), as the word is longer than clock and day: the event
waits for 24 hours after the hour it noted, and not at all before that hour.
This carries both daily theorems, in every time zone.

*Frames.* As with lines, the invariant speaks of a text nobody stores, the bytes
of all frames begun. `p[f]` is the number of bytes before frame `f` (`Laid`),
the bytes in the pipe lie between the place the reader has reached and the one
the writer is at (`Between`), and what the reader has in its buffer is the
beginning of the frame after those delivered (`Receiver`). A read of no more
than is missing stays in that frame, because a byte of any other lies before
its first or after its last (`Taken`); so the header it completes names the
length that was sent, and a frame that is complete was written to its end. All
this holds only until someone is told of a failure (`Inv`), which is when the
channel stops promising anything; a write that fails is told of because the
frame has a payload.

*Queue.* The invariant adds to the two properties that clients about to raise
the semaphore stay within its bound (`Bounded`). A `Post` adds a message and
one client that will signal it, a signal moves a count into the semaphore, a
wait moves it on to a thread that will look, and a look takes message and
count (`OneMoreSignals` to `SamePeek` count the sets).

*Recording feed.* What must hold half-way through a call is hard to say; what
will hold once the call has returned is not. `todo` lists the operations left,
and each kind of operation has a rank: a call does them in that order, none of
them twice (`Plan`). So whether the sink will be there, or the devices open, is
read off the set of operations left (`SinkAfter`, `RecAfter`, `PlayAfter`), and
`Settles` relates these to the mixer's sources: the sink will be there if and
only if the radio is on top, and the play device open while the player is
loaded or the radio is a source. Only starting a call changes it, and every
operation leaves it as it is. `Meanwhile` has the facts about the way there,
among them that a sink has an open play device behind it, that the callback
sends only while there is one, as it holds `FLock`, and that a closed device is
neither started nor paused.

*ALSA device.* A device that is not open holds no handle but the log of a
failed `Open`, and a client closes before it opens, so that `Open` starts with
nothing and ends with what it keeps (`OpenKeeps`).

*Tuner.* While `ready`, `Fac` is the factor of the tuner. The tuner's units
stay where their product with `Kilo` is below `Word`; there neither conversion
wraps (`ReportedExactly`, `TunedExactly`). `Kilo = 1000`, `Word = 2^32` and FM
frequencies in kHz satisfy the assumption for both units but Hz, and that is
the instance the scaled numbers of the run stand for.

*Lines.* The invariant speaks of a text nobody stores: all bytes that ever went
into the pipe. In it every line sent begins where the one before has ended
(`Laid`), what is in the pipe is its end, and what the reader has in its
buffer is the beginning of the line it gets next (`Taken`). A line feed is
hence the end of that line (`NextByte`), it comes after a carriage return, and
the buffer has had room for everything before it. `ReaderStays` lets the
writer lengthen the text, `ByteRead` and `LineRead` move the reader on. The
steps of the writer and those of the reader map to the `Send` and the `Deliver`
of `FrameChannel` or to stutters (`LineSent`, `Delivers`).

The last theorem puts the four side by side in the specification of the run:
each keeps its invariant whichever of them moves.

Only model-checked: all liveness (`EveryMessageLeaves`, `StopReturns`,
`EveryFrameArrives`, `CallReturns`, `StreamGoesOn`), which is beyond the prover
along with `ENABLED`. The library's induction theorems are beyond it too; where a
proof would use one, it takes the least number at which a claim fails, from a
theorem on well-founded relations (`Least`).

## 6. Not modelled, and the plan

Left out for good: FFmpeg, SDL, ALSA and V4L2 themselves; wrappers of single
system calls (`hc_stream.cpp`, `hc_i2c.h`, reading and writing of
`hc_device.h`, the ioctls for video of `v4l2_device.h`); volume and formats as
numbers; parsing and formatting of dates; the stubs.

`TAVFormat` and `FFAudioDecoder` (`ff_decoder.cpp`) have no user, not even in
`test/`, and can have none: `FFAudioDecoder` declares `inherited` as a name for
itself (`include/ff_decoder.h:89`), so that its `Init` calls itself until the
stack ends (`src/ff_decoder.cpp:120`). `FFAudioPlayer`, which does decode, has
contexts of its own.

The destructor of `TMsgQueueThread` sets the flag and destroys the semaphore
(`include/hc_msgqueue.h:95-99`). As `TThread` is a protected base, no client
can wait for the thread before, and a thread that waits for a message is not
even woken: a model could only say that every destruction with a thread alive
goes wrong.

What would come next: several radios in `RecordFeed`; the bytes of a ring that
two producers have filled at once; frames without payload in `TlvStream`, once
`ReceiveTLV` can tell them from a failure.
