# Verification of the C-SKY Linux SDK examples

TLA+ models of the programs of this repository that have something to get
wrong: threads that share queues and codec buffers, a parser that is called
again and again on pieces of a stream, tools that change a chip or a disk and
may be killed half-way, and small tools that wait for a clock, a watchdog or a
person. TLC checks them on small instances; for all of the detailed models TLAPS
proves the invariants for every value of the constants.

## 1. The system

The repository is a set of independent programs for a board. What they share is
copied (`mfc.c`, `fb.c`, `parser.c`, `args.c`, `fileops.c` appear in
`v4l2_decode/`, `v4l2_encode/` and `ffmpeg_media_player/video/`) or is a header
of log macros.

| component | state | operations | interacts with | what is hard |
|---|---|---|---|---|
| packet queue (`ffmpeg_media_player/packet_queue.c`) | linked list, `nbPkts`, mutex, condition | `put`, `get` (blocking or not) | demultiplexer puts, audio and video threads get; `nbPkts` is also read without the mutex | interleaving, lost wake-ups, the list's end pointer |
| media player (`csky_ffmpeg_media_player.c`, `audio.c`, `video.c`) | two queues, `quit`, `videoStream` | demultiplex, decode audio, feed the video pipeline, join, free | queue, video pipeline, sound card | ending: one flag, read at other moments than the queues; streams that cannot be decoded |
| decoding pipeline (`v4l2_decode/csky_v4l2_decode_example.c`, `video/video_main.c`) | `out_buf_flag`, `s_last_dequeue`, `error`, `finish`, counters; the codec's queues; the panel's address | parser thread, mfc thread, daemon, timeout | codec (V4L2), frame buffer | who owns which buffer; ending by a look at a counter every two seconds; cancellation inside of `fwrite` (`-r`) and `printf` |
| stream parser (`parser.c`) | `mfc_parser_context`, kept from call to call | `parse_mpeg4_stream`, `parse_h264_stream`, `parse_mpeg2_stream` | called by the parser thread | start codes cut by the end of a piece, negative offsets, full buffers |
| encoding pipeline (`v4l2_encode/`) | as the decoder, and the output file | encode thread, mfc thread, daemon, timeout | codec, file | as the decoder; asynchronous cancellation inside of `fwrite` |
| device set-up (`main`s, `mfc.c`, `fb.c`, `fileops.c`) | descriptors, maps, buffer counts | open, set up, map, queue, start, create threads, clean up | drivers | every call may fail after others went well; the driver decides the number of buffers, the arrays for them have a fixed size |
| SPI flash tool (`spi_flash/`) | the chip, three totals, `is_erase_done`, a thread that prints dots | read, write, erase (all, or step by step) | MTD driver | 32-bit sums, last steps, failure and power loss half-way |
| storage test (`storage/`) | files | write, read and compare, two speed tests | file system | short writes, files left over from other runs |
| RTC tool (`rtc/`) | the clock and its alarm | read, write, alarm | RTC driver | only times of day are compared, and the clock goes on between the calls |
| watchdog (`watchdog/`) | the time-out, when it was fed | set, get, feed, close | watchdog driver | the driver may grant another time-out; feeding in time |
| timer (`timer/`) | the timers that run | create and start, sleep, delete | POSIX timers | halves of an odd time-out |
| network settings (`network/csky_netsetting_example.c`) | address, netmask, gateway | show, set one to three of them | kernel | a setting undoes another one |
| serial port (`uart/`) | rate, character size, what is on the line | ask, change, wait for a Y | the person at the terminal | both ends must have the same rate whenever something is sent |
| audio demultiplexer, audio decoder, audio player (`ffmpeg_demuxing/`, `ffmpeg_decode_audio/`, `ffmpeg_audio_player/`) | format contexts, one input buffer, the decoder | read, route, parse, refill, decode, flush, write | FFmpeg, ALSA | streams of other kinds and numbers, a refilled buffer, frames the decoder keeps back, writes and trailers whose results are ignored |
| network transfer, sound, PWM, frame buffer, V4L2 printing | nearly none | one call after another | drivers, sockets | little |

What makes each of them correct:

- queue: a well-formed list for whoever has the mutex, first in first out, no
  pointer to a freed node, no getter asleep on a packet;
- player: bounded queues, no thread stuck in the blocking `get`, nothing left in
  a queue at the end, nothing freed under a running thread, an end;
- pipelines: nobody writes into a buffer that somebody else has, no buffer is
  lost, all of a stream is decoded or encoded and in order, an end;
- parser: the pieces are the stream, one picture each, and the bytes kept fit;
- set-up: threads meet a codec that is ready and know where its buffers are,
  cleanup closes what is open, once;
- FFmpeg tools: the parser sees the file once and in order, and of what came in it
  can be said where it went: out, or into a failure the code does not look at;
- flash and storage: only what was asked for is touched, success means done, the
  verdict of a read is true;
- board tools: what is waited for has come when it is reported, the watchdog is
  fed in time, what was set stays set, both ends of a line have the same rate.

## 2. Modules

| module | models | abstraction |
|---|---|---|
| `PacketFifo` | what the queue promises: an unbounded FIFO, `Put`, `Get`, and a packet that is lost for want of memory | abstract specification |
| `PacketQueue` | `packet_queue.c`: `firstPkt`, `lastPkt`, `nbPkts`, `next`, the allocator, mutex and condition; one action per step between two points where another thread can be seen | a packet is a model value; `size` (a statistic) is left out |
| `MediaPlayer` | main, demultiplexer, audio thread and the part of the parser thread that takes packets; every unlocked read of `nbPkts` and `quit` is a step | a queue is its `nbPkts`: `PacketQueue` shows that puts and gets are atomic; FFmpeg and ALSA are external |
| `DecodePipeline` | parser, mfc, daemon and timeout threads, main's joins and its last calls; recording to a file (`-r`); `lost`, the stdio stream whose lock the mfc thread has kept when it was cancelled | a frame is a number; the codec and the panel are external: the codec decodes a queued stream buffer when it has a picture buffer, the panel shows an address from the next vsync on |
| `VideoPlayer` | the player of a file with a video stream only: demultiplexer, video queue, and the whole pipeline of `DecodePipeline` whose parser thread takes its frames from the queue (`get_one_avpacket`) | a queue is its `nbPkts`; the pipeline's own actions are taken over unchanged, the demultiplexer's log lines need the lock of stdout |
| `StreamParser` | the three parsers and the caller's loop, byte by byte | the caller's buffer is a list of positions of the stream |
| `EncodePipeline` | the encoder's threads, the output file and its lock | a frame is a number |
| `DeviceSetup` | the three `main`s up to the threads, and cleanup; the arrays of `struct mfc_instance`, and what writing past their end spoils | a descriptor is a number and what it is open on; a buffer is its index |
| `FfmpegTools` | demultiplexer, audio decoder, audio player, with writes, `fclose` and trailers that fail unnoticed | packets and frames are counted (a frame that is not wholly written is missed), bytes are their places in the file; FFmpeg's parser cuts where it likes, its decoder keeps up to `Delay` frames back |
| `SpiFlash` | the whole tool, run after run on one chip | a cell is blank, byte k of the file, or junk; the chip is external |
| `Storage` | the whole test, run after run on one disk | a byte is its place in the buffer of `data_prep` |
| `BoardTool` | what the small tools have in common: which one runs, where it is, that calls may fail | |
| `ClockTools` | `rtc` (write and alarm), `watchdog`, `timer` | time in seconds; a tool either takes no time unless it sleeps (`prompt`), or any time at any step |
| `LineTools` | `csky_netsetting_example.c`, `uart` with the person who answers | an address is a model value; a message is the rate it asks for, or nothing |

`MediaPlayer` rests on `PacketQueue`, through `PacketFifo`, which `PacketQueue`
implements under the mapping at its end. `VideoPlayer` extends `DecodePipeline`: it
replaces what the parser thread does at its input, has the demultiplexer as a fourth
thread, and every behaviour of it is, as far as the pipeline goes, one of the
pipeline of `v4l2_decode` (`ImplementsDecode`). The two models of the player
divide it: `MediaPlayer` has the audio side and lets the video side end at any
time, `VideoPlayer` has the video side in full and no audio. `DecodePipeline` rests on `StreamParser` for "a piece is one picture", and on
`DeviceSetup` for its initial state (all capture buffers queued, stream on), as
does `EncodePipeline`. `MCBoardTools` puts `ClockTools` and `LineTools` side by side,
one tool running at a time.

Actions carry the names of the code's steps; `PROJECT.json` gives for each
definition the lines it stands for. In all modules a step is as large as the
code between two points where another thread, the device, or a crash can make a
difference. Operators under "Faulty variants" at the top of a module are
plausible mistakes in that code; each property is checked to be violated when
one of them takes the place of the definition it varies.

## 3. Runs

| run | constants | shows |
|---|---|---|
| `packet_queue` | 1 putter, 1 getter, 2 nodes, 3 packets | list shape, no dangling pointers, FIFO refinement, getters served |
| `media_player` | queues of 2, files of up to 5 packets of each kind, with and without audio and video, with an I/O error at the end | bounded queues, no blocking get, nothing left behind, an end in all but three named ways |
| `player_finish` (violation) | queues of 2, one packet | "Play finished!" is logged and the audio thread spins for ever |
| `decode_pipeline` | 2 stream buffers, 2 picture buffers, 4 frames | ownership of all buffers, no tearing, nothing lost, the whole stream, an end unless it is wedged or locked out |
| `video_player` | 2 stream buffers, 2 picture buffers, 3 packets, a queue of 2 | the player's pipeline does nothing that the decoder's may not, plays the whole file, and ends, or hangs in one of three places after a mishap, or at a lock the cancelled mfc thread has kept |
| `stream_parser` | streams of up to 4 tokens (start codes, pictures, zeros, a one, payload), three codecs, two buffer sizes, both callers | pieces join up, one picture each, six bytes suffice |
| `encode_pipeline` | 2 and 2 buffers, up to 3 frames, whole and with a part at the end | frames in order, once, all; the encoder ends unless it is wedged |
| `device_setup` | 1 to 3 buffers granted on each queue, arrays of 2, 8 descriptors | readiness of the threads' devices, which addresses are lost when the arrays are too short, cleanup |
| `ffmpeg_tools` | a buffer of 4 refilled below 2, 7 bytes, 4 packets of up to 2 frames, 3 streams, a delay of 1 | the parser is shown the file, where each frame and packet has gone, no packet that failed is covered up by a later one |
| `spi_flash` | unsigned ints of 3 bits, a chip of 4 cells, blocks of 1, 2, 4, steps of 2, 2 runs | range, success, confirmation, the dots thread, an end |
| `storage` | buffer of 2, sizes 1, 2, 4, 5, two files and a plain one, 3 runs | the verdict of read, what write has done |
| `board_tools` | a day of 5 s and 13 s of it, time-outs of 1 to 5 s, pauses of up to 3 s, 3 feedings or timers; 3 addresses, 3 rates, 2 letters on the line | alarm and timers are reported when due, the watchdog is fed in time, settings stay in force, the line has the terminal's rate |

Why the bounds are enough. The queue's list has its special cases at lengths
0, 1 and 2, and nodes are freed and used again with two of them. The
player's gate compares with a maximum that 2 reaches, 5 packets fill both
queues and leave one over. `STREAM_BUFFER_CNT` is 2 in the code;
`RESULT_EXTRA_BUFFER_CNT` is 2, so that 2 picture buffers leave the codec none
while one is shown, the tightest case; for more of them the ownership
invariants are proved. Four frames make every buffer go round twice. A start
code is two zeros, a one and the byte that says of what, so four tokens place every
cut; the tokens of single bytes make start codes that no token has, and ones that
nearly are. In `FfmpegTools` the buffer is moved and filled up several
times. In `device_setup` the arrays hold fewer buffers than are asked for, as many
and more than are granted. In `SpiFlash` the word wraps, the chip's size, its blocks and
the step divide each other or do not, and the second run meets what the first
one left. In `video_player` a queue of 2 shuts the gate with a packet still in the
file, and the end of the file finds the queue empty, half full and full; a codec
slower than two seconds is not combined there with calls that fail
(`decode_pipeline` has both together). In `board_tools` the alarm is asked for at
every second of a day, before and after the moment it is set, and the horizon
lies beyond the ring of tomorrow; time-outs are odd and even, shorter and longer than
the pauses; three rates show a change away from the first, between two others
and back. In `Storage` the sizes are below, at, at a multiple of and above a
buffer.

Fairness. A thread that can run is scheduled; sleeps end; vsyncs come; a codec
that can decode does (weak fairness of each thread and of the codec). Nobody
assumes that a call is made, that `-t` was given, that a wait ends without a
signal, or that a codec delivers an empty picture. Strong fairness is not used.
`GetterServed` needs no fairness of the mutex beyond that a thread in a call
moves. In `DecodePipeline`, `EncodePipeline` the settings `timely` (two seconds
suffice for a picture) and `fragile` (calls may fail; `mayFail` in the board tools) are chosen at the start,
so that a property can say what it needs; both values are checked in each run.
Of the parser and mfc threads fairness is asked only where they can go on
(`ParserMoves`, `MfcMoves`): a `DQBUF` that has nothing to return may fail, but
nobody assumes that it does. A thread that waits for a lock somebody has kept is
not enabled, so fairness does not help it.
`VideoPlayer` adds the demultiplexer to the threads that are scheduled. The daemon's
two seconds and the demultiplexer's `sleep(4)` are not clocks: a sleep ends at some
time, and where the code relies on its length (`outlast`: four seconds are longer
than one look at the queue) the model says so. The board tools have a clock and no
liveness properties.

Deadlock is checked for the queue. The other models have runs that end, and
states where the program waits for ever; those are what the liveness properties
are about.

## 4. What the runs found

- `audio.c:313`: once `quit` is set, `audio_decode_frame` returns before it
  takes a packet, and `play_audio` ends only on an empty queue. If the queue
  still holds packets four seconds after the end of the file, the thread spins
  and main waits for it (`player_finish`).

Met on the way, and stated in comments or in the conditions of properties:

- `csky_v4l2_decode_example.c:189`: the OUTPUT queue starts streaming only after
  more than 512 bytes were queued before. A stream of one frame is never
  decoded, and `finish` is set all the same, "when decoding has been completed and all
  threads finish" (`common.h:170`). The encoder has the same with a file of one frame
  (line 153), as `media/yuv420_1280x720.yuv` is. `WholeStreamDecoded`, `PlayedWhole`
  and `WholeFileEncoded` exclude it.
- `csky_v4l2_decode_example.c:344`: the daemon cancels the mfc thread at whatever place
  it is, also inside of `fwrite` to the record file (lines 87-89), of `printf` (314) and of the
  message about a call that has failed. Whoever then needs that stream waits for
  ever: the parser thread to print that it has finished, main to print that the threads have
  (456) or to close the record file (74), and in the player the demultiplexer to log
  the end of the file (`csky_ffmpeg_media_player.c:128`). That is `LockedOut` in
  `EndsUnlessWedged`, `PlayerLockedOut` in `PlayerEnds`. It begins with a failing call or
  a card slower than two seconds, but for one case: a codec that delivers its empty picture
  just when the daemon has seen enough finds the mfc thread in its last `printf`.
  The encoder has the same at line 270.
- `v4l2_decode/mfc.c:133`: the loop over the granted OUTPUT buffers does not look at
  `MFC_MAX_OUT_BUF`, 16. A driver that grants more has the offset of buffer 16 + k
  written over the address of buffer k, and the parser thread writes a frame to
  wherever that points. `ReadyForThreads` says exactly that: the addresses
  that are lost are those of the first `granted - 16` buffers.
- `csky_ffmpeg_decode_audio_example.c:75, 188`: what `fwrite` and `fclose` return is not
  looked at; frames that the disk did not take are missing, and the tool prints
  "successfully!" (`FramesPassedOn` counts them as missed).
- `csky_ffmpeg_demuxing_example.c:218-219`: so it is with `av_write_trailer`, which
  writes what the outputs still have in their buffers; the tool returns 0
  (`DemuxedWhole` names the outputs whose trailer failed).
- `spi_flash.c:373`: the sum of offset and length wraps, and then an erase blanks what
  the range has of the chip and fails (`BeyondChipUntouched` is for sums that do
  not wrap).
- `parser.c:184`: a piece larger than the buffer leaves the context as it was, and the calls
  after it may consume nothing (`Terminates` is for pieces that fit).
- `csky_storage_example.c:123`: after a short write the next one starts at the
  beginning of the buffer, and the program's own read refuses the file
  (`WrittenIsWhole` excludes it).
- `video_main.c:210`: when STREAMON fails, or an error ends the parser thread, nobody
  empties the video queue; the demultiplexer waits at its gate for ever, and
  main joins it first (`LeftFull` in `PlayerEnds`).
- `csky_netsetting_example.c`: `check_ip` refuses every address whose last byte
  exceeds 127, also the one of its own README, 172.16.28.224.
- `csky_rtc_example.c:258`: the date of an alarm is not looked at, though the help says
  that it rings "when time is datetime you given"; and an alarm that is refused
  stays on.
- `csky_wdt_example.c:71`: the time-out that the driver granted is only printed, and
  the device is closed without the magic letter, so that the board may be reset after the
  tool has ended.
- `csky_uart_example.c`: a person who types before the tool has changed its rate
  types garbage into the line, and the tool goes on waiting for a Y; a second Y
  for one question is taken for the answer to the next (`SameRate` is for one Y).
- `parser.c:427`: the byte after `00 00 01` is never looked at as the beginning of
  another start code, nor is the byte after an H.264 slice's. A start code that
  begins in one of these is missed, and two pictures are handed out as one
  (`OnePicture` excludes it by `Overlap`; well-formed streams have none).

And without a property:

`storage/README.md` says that `test-1` and `test-2` are
written by two iterations, they are `test-0` and `test-1`; `main` of the storage
test returns 0 whatever its operation returns; `fb_open` never closes the
backlight; cleanup after a failed `pthread_create` closes the devices under the
threads that were created, until main returns; the daemon cancels an mfc thread
that may have ended by itself and been joined (`csky_v4l2_decode_example.c:344`),
which POSIX leaves undefined; the result of setting the panel's address is ignored
(line 265), and a refused one leaves the old picture on the screen while it goes
back to the codec (`TearFree` is for panels that refuse none); the media player never ends when
a stream's decoder gives up while the other queue is full, or when the file
ends in an I/O error that `av_read_frame` keeps returning; the audio player does
not flush its decoder, which may keep the last frames (`FramesPassedOn` allows it
that), and never releases a packet; the demultiplexer mixes two streams of a kind
up (excluded in `DemuxedWhole`).

## 5. Proofs

`PacketQueueProofs`, `MediaPlayerProofs`, `DecodePipelineProofs` (of
`DecodePipeline` and `VideoPlayer`), `EncodePipelineProofs`, `DeviceSetupProofs`,
`StorageProofs`, `StreamProofs` (of `FfmpegTools` and `StreamParser`), `ToolProofs`
(of `SpiFlash`, `ClockTools` and `LineTools`). All assumptions are the named
`ASSUME`s of the modules (maxima, sets and lists that are not empty, `NULL` outside of
the sets, a threshold within the buffer), which the runs evaluate, and where a theorem
has more they stand in its statement.

- The queue, for any number of putters, getters, nodes and packets: type
  correctness, `ListShape`, `NoDanglingPointer`, and the refinement of
  `PacketFifo` (its initial states and steps). The inductive invariant adds to the
  properties what holds inside of a call: the thread that has the mutex is the only
  one past `lock`, the node it holds is neither free nor linked, and how far
  each of `lastPkt`, `nbPkts` and `firstPkt` is behind `order` at each place.
  Without it `ListShape`, which speaks of a free mutex, says nothing about
  the state in which the mutex is released.
- `QueueNoLostWakeup`, the safety part of `GetterServed`: when a getter sleeps and
  the list is not empty, some thread is between its put and its signal, or awake and
  going to look. That alone is not inductive, because one signal wakes one getter;
  `Attended` counts: while any getter waits, there are as many such threads as
  packets.
- The player, for all maxima and files: type correctness, `QueuesBounded`,
  `GetNeverBlocks`, `ThreadsDoneBeforeFree`, `NothingLeftBehind`. The invariant
  says which threads may exist at each place of main, that a queue is below its
  maximum between the gate and the put, and that a thread at `get` has seen a
  packet that only it can take.
- The pipeline, for all sets of buffers and lengths of streams: type correctness,
  `OutputOwned`, `TearFree`, `NoBufferLost`. The invariant ties the owner of a
  picture to where the mfc thread is: what it is showing, what it showed before,
  what the panel has and what waits to be dequeued. `LockInv` adds that
  the lock of stderr is only kept where calls may fail.
- `WholeStreamDecoded`, for stream buffers numbered from 0 as in `out_buf_flag`, two
  picture buffers or more, and streams of any length. Under the property's
  premises a second invariant counts: every frame fed is decoded, waits to be
  dequeued or waits to be decoded (`CountInv`, with one for the empty picture); a
  buffer marked in use is in one of the codec's queues (`FeedInv`), a decoded
  picture in the list of those (`HandInv`); and nobody has set `finish` before all
  was decoded (`EndInv`). That the daemon's look at the counter does not do so
  needs the two picture buffers: with one, the codec could rest with work left.
- The video player, for every queue size, all buffers and files: `ImplementsDecode`,
  `GetFindsPacket`, and with them `TearFree` and `PlayedWhole`. The invariant counts
  the packets of the file (unread, in the queue, fed, or in hand) and says that the
  `sleep(4)` separates the last put from `quit`: a thread that saw an empty queue and
  then `quit` has seen the last packet taken.
- The encoder, for any number of buffers and frames: type correctness,
  `WrittenInOrder`, `WholeFileEncoded`. The invariant orders the frames through both
  queues of the codec (written, in hand, encoded, waiting), strictly, whichever call
  fails; when none does, it gives the number of each of them.
- The set-up, for arrays of any size and grants of up to twice that:
  `ReadyForThreads`, `OwnsWhatItCloses` and `NothingLeft`, from an invariant that says what
  each stage leaves behind, which addresses the loop has spoiled after
  n rounds (`SpoiledBy`, `RoundSpoils`) and which descriptors are still free then. The
  assumption on the grants is `SetupAssumption`: the kernel's `VIDEO_MAX_FRAME` is
  32, twice `MFC_MAX_OUT_BUF` and as much as `MFC_MAX_CAP_BUF`, and what is past that
  is not followed. Offsets and addresses are words of 32 bits, as on the C-SKY
  boards, so that an offset past the end covers one address.
- The audio tools: `BufferIsWindow` for every buffer size, threshold and file (the
  invariant adds that nothing was read before the first `fread`, and states the
  threshold by what is unread instead of a minimum); `FramesPassedOn` (frames are
  counted: passed on, missed, in the decoder, or in the packet in hand: `Counted`);
  `DemuxedWhole` for any number of packets and streams (`TrailersRead`: from the
  trailers on the files have what was written, or the output's trailer failed).
- The flash tool, for every chip, word, step, file and number of runs: `RangeOnly`,
  `Done`, `FoolproofJoined`, `BeyondChipUntouched`. The invariant says how far an
  operation has come and that what it has still to do lies in the range.
  `FlashAdvances` is the safety part of `Returns`: every step of a run lowers
  `StepsLeft`, a natural number, so a run that is not left alone ends.
- The storage test, for every buffer, size and number of files and runs: `Verdict`,
  `WrittenIsWhole`. The invariant ties what was compared or written so far to whole
  turns of the buffer.

- The parsers, for every codec, stream of bytes and size of the buffer: `KeptFits`,
  `NoByteLost`, `OnePicture`. None of the invariant speaks of a whole stream at
  once: a step takes one byte, and `ParserInv` says what the state of the automaton
  tells of the last few. `KeptInv` bounds the bytes kept of a start code; `Piece`
  says that the piece in hand is the stream from its beginning to what has been read,
  wherever a buffer ended, `Joined` that it begins where the one before it
  ended; `CodeRead` says which bytes a state has seen, `Ready` when a picture
  or a header waits, and `PictureSeen` that the piece has no picture but the one
  that the counters know of. An action returns from a call with up to six bytes
  kept, so most of the proof is about where a start code is that a buffer cuts.
  `ParserAdvances` is the safety part of `Terminates`: until a piece is too large,
  every step lowers `ToDo`, so no call comes back without having read a byte or
  ended a piece. It rests on `Piece`: a code that ends a piece begins behind the
  first byte of it.
- The tools that wait, for days of any length, all time-outs and pauses and any number
  of feedings and timers: `OnTime`, `FedInTime`. `ClockInv` places the clock:
  between what it is measured from (midnight, the last feeding, each timer's start)
  and the end of the last sleep, and exactly there when steps take no time. That
  the alarm rings at the time asked for is arithmetic with a modulus that is a
  constant (`NextOccurrence`), that the timers have expired needs both halves of an
  odd time-out (`Halves`).
- The tools that set up a line: `SettingsInForce` for all addresses, `SameRate` for
  every list of rates. `UartInv` says that nothing is on its way to the terminal
  while a question is open, that a question is the last of what has been sent, and
  that a Y which waits answers the question of this turn.

Only model-checked: everything temporal beyond `[][A]_vars`, that is the liveness
properties, which need `ENABLED`, out of the prover's reach; of `GetterServed`,
`Returns` and `Terminates` the safety part is proved, as said above, and the rest is
that the threads are scheduled. Each invariant that a
run checks is the subject of a theorem. The runs of `MCBoardTools` check the
properties for one tool at a time and the other's variables at rest; the theorems
are about `ClockSpec` and `LineSpec`, which have no others.

## 6. Not modelled, and what could follow

Left out on purpose: the mfc thread in `MediaPlayer`, and with it the lock that it
may keep (`VideoPlayer` has both, without the audio side); what the threads read and
write through an address that was spoiled (`DeviceSetup` ends where they begin);
the queue's `size`, percentages and frame counts that are only printed, `get_head` (always 0), what FFmpeg and ALSA compute, the scripts. The
player's `parser.c`, `mfc.c`, `fb.c` and `v4l2_common.c` are copies of those of
`v4l2_decode`, byte for byte; the models of those are the models of these.

Components without a model: the network transfer (a client that sends for ever and a
server that takes one connection; neither ends, nor keeps anything that a property
could be about), sound and PWM (parameters handed to ALSA, a number written to
sysfs), the frame buffer example (drawing), the printing of V4L2 formats, the shared
headers and the build files.

What could follow: audio and video of the player in one model (`MediaPlayer` and
`VideoPlayer` share the demultiplexer, and their product is beyond what TLC finishes
here); an abstract specification of a buffer that goes round between a program and
a codec, implemented by both pipelines; the bytes of a serial line in time.
