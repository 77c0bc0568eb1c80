# Verification of living_example

living_example is a collection of small programs for cameras and video: an RTSP
client, a DRM display for Rockchip boards, converters from H.264 to MP4, a pool of
KCF trackers, a recorder and a muxer of MP4 files with the mp4v2 library in source, and
a number of trials of single libraries. The programs do not call one another; they
share code by copying it. This directory holds TLA+ models of the
parts that have logic of their own, the TLC configurations that check them, and
proofs of their main properties that TLAPS checks.

How to run (in this directory): `tlc -config MCRtsp.cfg RtspClient` and so on,
each run with the module and the cfg of the table below; `tlapm RtspClientProofs.tla`
for the proofs. `PROJECT.json` relates every definition to the lines it models.

## 1. The parts of the system

| Part | Source | State it keeps | Model |
|---|---|---|---|
| RTSP client | `live555_rtspclient/src/main.cpp` | one counter of clients, one `StreamClientState` per URL | `RtspClient`, `StreamLifecycle` |
| DRM display | `rkdrm_display/`, `ffDecDisplayTest/rkdrm_display.c` | `struct drm_dev`, a ring of three buffers, `num` | `DrmDisplay` |
| H.264 to MP4 converter | `h264_to_mp4/mp4v2/convert/`, `Myffmpeg/MP4Encoder.cpp` | one buffer, two flags, the MP4 track | `H264Convert` |
| KCF tracker pool | `myKCF/src/KCFTrackerEX.cpp`, `main.c` | a table of 50 slots | `KcfPool` |
| mp4v2: tracks and files | `h264_to_mp4/mp4v2-2.0.0/src/mp4track.cpp`, `mp4file.cpp`, `atom_stsc.cpp` | the tables of each track, its chunk buffer, caches and edit list, the media data | `Mp4Track`, `Mp4File`, `EditList` |
| Timed MP4 recorder, muxer | `h264_to_mp4/mp4v2/mp4flie/`, `mux/` | first and last time stamps, two tracks | `Recorder` (with `Mp4File`) |
| The rest | see section 8 | | not modelled |

### RTSP client

*Operations.* `main` calls `openURL` for each URL, then runs live555's event loop.
The loop calls `continueAfterDESCRIBE`, `continueAfterSETUP`, `continueAfterPLAY`,
`subsessionAfterPlaying` (through a sink whose source closes),
`subsessionByeHandler` and `streamTimerHandler`; these call `setupNextSubsession`
and `shutdownStream`, and the last shutdown calls `exit`.

*Interactions.* Requests and answers with an RTSP server; RTCP BYEs; callbacks from
libliveMedia, which may run *inside* the call that installs them when a command
cannot be sent.

*What is hard.* All streams share `rtspClientCount`. A stream can be ended by an
error answer, a BYE, a closed source or a timer, in any order and at any point of
the chain DESCRIBE, SETUP, ..., PLAY; each path must count exactly once and
leave nothing behind that could call into a freed client.

*What makes it correct.* The process exits with the last client and not before; a
closed client has no callback left; the server is left streaming nothing; a stream
that plays ends when its media ends, and a stream with a duration ends even when
every BYE is lost.

### DRM display

*Operations.* `drmInit` obtains seven things in a row and undoes them by a chain of
labels; `drmDeinit`; `drmGetBuffer` and `drmPutBuffer`; `display_commit` draws into
one buffer of the ring and `drmCommit` puts it on the screen.

*What is hard.* Every libdrm call may fail; the two programs ignore the results of
`display_init` and `display_commit`; `num` goes on whether a frame reached the
screen or not.

*What makes it correct.* Nothing is freed twice, leaked or used after it was freed,
whichever call fails; no frame is drawn into the buffer on the screen.

### H.264 to MP4 converter

*Operations.* `WriteH264File` reads the file through a buffer of `BUFFER_SIZE`
bytes. For each read a backward scan finds the last start code; `WriteH264Data` and
`ReadOneNaluFromBuf` cut what lies before it into NAL units and give them to mp4v2;
what is left is moved to the front of the buffer.

*What is hard.* A unit may lie across two reads; the backward scan skips bytes; one
byte that `fread` never set is kept between two reads; the track exists only after
both parameter sets; every call of mp4v2 may fail.

*What makes it correct.* The samples are the file's units, whole, in order, each
once, and the buffer never grows beyond its size.

### KCF tracker pool

*Operations.* `KCFTrackerUpdate`, once a frame, moves every tracker in use, frees
those that lost their target (peak below `m_fKCFLevel`) and those older than 30 s.
`iKCFTrackerCheck`, for each detection, answers 1 for an old target or takes the
first free slot (`iKCFTrackerFind`). `iKCFTrackerClear` frees all slots.

*What is hard.* The answer comes from the table, not from the trackers; a slot's
entry outlives its tracker and is only partly rewritten when the slot is taken
again.

*What makes it correct.* A detection is dropped only for a tracker that is near it,
a target has one tracker, and no tracker holds a slot for ever.

### mp4v2: tracks and files

*Operations.* `MP4WriteSample` enters a sample in the tables of its track (stsz, stts,
ctts, stss) and keeps its bytes until they make a chunk of a second, which goes to
the end of the media data (stsc, stco). `MP4ReadSample` looks a sample up,
`MP4SetSampleRenderingOffset` re-times one, `MP4GetSampleIdFromTime` seeks. `MP4Close`
writes the rest and the tables; `MP4Read` and `MP4Modify` load them, the latter to append;
`MP4Optimize` copies the chunks of all tracks into the order of their times.
`MP4AddTrackEdit` and `MP4DeleteTrackEdit` change the edit list of a track, which says what part of it is
shown when; `MP4CopyTrack` copies a track sample by sample, through its edit list if asked to.

*Interactions.* All tracks share one file and its position; a track tells the file how
long it is; the programs call the library and mostly ignore what it returns.

*What is hard.* Every table is a compression that is undone when a sample breaks its
pattern (a size that differs, a first offset, a first non-sync sample), and each
counts samples in its own way: by `m_writeSampleId`, which starts at 1 again in
each session, by the samples of stsz, or backwards from the sample being written.
A chunk may be written in the middle of `WriteSample`, by `ReadSample`, or by `Close`;
the disk may refuse it half way through `WriteSample`. Two searches start at a row that
was cached before the table grew or was cut. The walk through an edit list adds up durations
that were shortened, in unsigned arithmetic, and its end is a comparison with the sum.

*What makes it correct.* Size, time, offset, sync and bytes that the file gives for a
sample are those that were written, after any number of sessions; a copy has the samples that the
edit list shows.

### Timed MP4 recorder and muxer

*Operations.* The recorder writes all frames of a video file, then all of an audio file,
until five seconds after the first time stamp; the muxer takes one frame of each in
turn until both have ended. Frames that are too short are passed over.

*What is hard.* The limit is an unsigned difference from a first time stamp that both
tracks share and the second may move back; a sample lasts from its predecessor's time
stamp to its own; the recorder stops a file at the first refused sample, the muxer ignores it.

*What makes it correct.* A recording keeps its limit, its samples are at the time
stamps, and both programs come to an end and close their file.

The `hazards` of `PROJECT.json` list what in these programs is hard to test, with
the line where it bites and the properties that would catch it. A hazard without properties has a note that says
why: among them are the wrong numbers of appended samples and the samples of no bytes, which the
properties of section 6 leave out.

## 2. RtspClient and StreamLifecycle

There is one thread and handlers are not interrupted, so one handler with all it
calls is one action; interleaving is between handlers of different streams, and
between them and the server. `stream[u]` is URL u's client, its `StreamClientState`
and its session at the server:

| Model | Code |
|---|---|
| `client`, `request` | the `ourRTSPClient`, and the response handler that is outstanding |
| `session`, `tracks`, `current` | `scs.session`, its subsessions, `scs.subsession` |
| `misc`, `sinks`, `bye` | the subsessions with `miscPtr`, `sink`, BYE handler set |
| `duration`, `timer` | `scs.duration`, and the delay of `scs.streamTimerTask` |
| `reply`, `up` | external: the answer on its way, and what the server streams |
| `closedIn` | history: the request that was outstanding at the shutdown |

`ShutdownStream` is `shutdownStream` with the destructors it runs and `exit`.
`SetupNextSubsession` stands for the whole recursion of `setupNextSubsession`: it
ends at any later subsession whose SETUP is sent, or past the last one with PLAY. A
command that cannot be sent has its handler called in the same action.

External, as the code uses it: an error answer means the server has not acted on
the command; closing a client drops its outstanding handler; a BYE handler is
called once; the media of a subsession ends at any time (`MediaEnds`) and the client
learns of it later by BYE, by source closure, by both or never.
`ourRTSPClient::createNew` does not return NULL.

`StreamLifecycle` is the abstract promise: a stream is opened once, closed once, and
the process ends in the step that ends the last stream in use. `RtspClient`
implements it with the streams in use as `active`; run `rtsp_client` checks this
and theorem `ImplementsLifecycle` proves it.

**Bounds.** Two URLs: the counter is shared, and two suffice for "last" and "not
last". Up to two subsessions: one whose SETUP is outstanding while another plays; `MaxTotal`
bounds the subsessions of both streams together by 3, as a stream acts on another only by the counter.
Durations {0, 1}: a session with and without an end. `UIntSpan`, the seconds that
2^32 microseconds hold, is 4294 in the code and scaled down to 3 (a session of
1 + 2 s just overflows) or 8. One run checks safety and liveness: in the configuration with
both durations, `Terminates` speaks of the behaviours in which every session has one (`Timed`). `CHECK_DEADLOCK FALSE`: the process exits, or waits for
a server that has nothing to send.

**Fairness** (`FairSpec`, run `rtsp_client`). `main` does not block while it
opens URLs, and the event loop serves every readable socket and every expired
timer: WF of `OpenURL` and of the handlers of each URL. That the server answers is
an assumption about the environment (WF of `ServerAnswers`); without it the client
really may wait for ever, as no command has a timeout. BYEs and source closures
get no fairness: they may be lost.

## 3. DrmDisplay

`pc` is where the program is; `object` says of each libdrm object of `drmInit`
whether it is live or freed; `dev` which pointers of `struct drm_dev` are set; `buf`
what each slot of the ring holds; `front` the slot on the screen; `num` is
`display_commit`'s. `freedTwice`, `misses` and `deadUse` are history. `DrmInitFails`
chooses the call that fails and runs the chain of labels from there
(`Unwind`). `DrmInitDies` is a call of libdrm that fails inside the helpers (`drmGetPlaneType` and the
others), which follow the null pointer they are given: the process dies, and the kernel takes back what it had. `zposChecked`, chosen in `Init` and never changed, tells the two copies of
the file apart: `rkdrm_display` sets ZPOS and tests the result, in `ffDecDisplayTest`
that code is under `#if 0`. So that one run shows both, `NoDoubleFree` and `NoDeadUse`
say what they say of the copy without the check; what the check breaks is the run
`drm_zpos`.

External: the kernel and the blitter. A blit into a slot without a mapping fails;
the atomic commit blocks, so a frame is on the screen when it returns. The programs
never call `drmPutBuffer` and `drmDeinit`; the caller modelled here puts back what it
got, after an initialisation that succeeded.

**Bounds.** `BufCount` is 3, as in the code; nothing else is bounded (`misses` is
counted up to `BufCount`, all that matters of it). `CHECK_DEADLOCK FALSE`: the
program ends.

## 4. H264Convert

One `Chunk` is one turn of `WriteH264File`'s loop: read, backward scan, cut, write,
move. A byte carries the position it was read from (0: never read), so that a sample
can be compared with the file; the properties describe the units of the file
without any scan (`FileUnits`, `Wanted`). A failure of mp4v2 at any unit ends the
conversion. A byte that `fread` did not set takes any value of `Stale`.

The scans of the code read up to four bytes outside what they were given; this
cannot change what they find, because the part they are given ends in a start code.
`memcpy` between overlapping regions is taken as a move.

**Bounds.** Files of up to six units of four kinds (both parameter sets, a slice
whose header byte is 01, and a delimiter, which is not kept), six or seven bytes each
with their start code, through a buffer of 30 bytes, so that files of one read and
of two reads both occur and the cut falls in different places of a unit. The code's buffer
holds 5 MB. `Stale` = {0, 1, 2}: the bytes of a start code and one other.
`CHECK_DEADLOCK FALSE`: the program ends.

## 5. KcfPool

`info` is `m_stKCFTrackerInfos`, `roi` the centre of each `KCFTracker`'s own `_roi`,
`ret` what the last call returned; `frame`, when the last `KCFTrackerUpdate` began, and `born` are history.
`KCFTrackerUpdate` comes a gap later, reads the clock again for each slot in use, as the trackers take
their time (`Readings`), and each tracker that it asks finds any place and keeps or loses
its target. `iKCFTrackerCheck` is `OldTarget`, `NewTarget` or `PoolFull`; `NewTarget`
reads the clock once more and does not write `iCenter`, as the code does not. The first frame, which meets an
empty pool, is part of `Init`.

External: `KCFTracker`, about which nothing is assumed. A detection lies within the
frame, as `main.c` clips it (`InFrame` is what matters of this). The range check at
`KCFTrackerEX.cpp:113` is left out: OpenCV asserts the same at line 92. That
`main.c` makes at most ten checks per frame is left out too; the model allows any
number.

**Bounds.** Two slots, one of them fresh while the other runs, and the pool full
with two targets (50 in the code); five places, detections of half width 1 and 2;
a time limit of 2 s (30 in the code) with frames 1 or 2 s apart; `Horizon` ends the
run after 5 s, long enough for a tracker to expire, and for its slot to be taken and updated again. `CHECK_DEADLOCK
FALSE`: the images end.

## 6. Mp4Track, Mp4File, EditList and Recorder

`Mp4Track` has the tables of one track and pure operators on them, `Mp4File` the file
and one action per call of the library, `EditList` the edit lists and the copy of a track, `Recorder`
the callers; `MCMp4` gives values.

| Model | Code |
|---|---|
| `track[t].size, sizes, count` | stsz: the one size of all samples, the table, the count |
| `stts`, `ctts`, `stss`, `stsc`, `chunks` | the other tables; `hasCtts`, `hasStss`: the atom is there |
| `next`, `buffer`, `samples`, `elapsed` | `m_writeSampleId`, the chunk buffer, `m_chunkSamples`, `m_chunkDuration` |
| `sttsCache`, `cttsCache` | `m_cachedStts...`, `m_cachedCtts...` |
| `media`, `movieDuration` | the bytes of mdat, the duration in mvhd |
| `elst` | the edit list of each track: `mediaTime`, `segmentDuration`, `mediaRate` = 0 |
| `dub` | the locals of `MP4CopyTrack`, and the first samples of the copy |
| `copy` | the temporary file of `MP4Optimize` and the loop of `RewriteMdat` |
| `turn`, `stamp`, `frames`, `ended` | where the program is in its two input files |
| `firstPTS`, `lastPTS`, `begun` | `m_u64FirstPTS`; `m_u64VideoPTS`, `m_u64AudioPTS`; not `m_bFirst...` |
| `log`, `pts`, `strayed`, `readBack`, `optimized` | history: what the caller asked for, and what happened |

`WriteSample` is the whole call: buffer, sizes, times, offsets, sync samples, the
chunk when it is full, durations, and the next number, in that order.
`WriteSampleFails` is the same call when the disk refuses the chunk: the exception
leaves all that was done before it. `ReadSample` writes the chunk of a
sample that is still in the buffer, and leaves the caches where its searches end, or where they were
when the bytes cannot be read. `GetFixedSampleDuration` answers `NotFixed` for a track with several rows of stts; the
library forbids a write that needs the answer then (`sample.h:188`), and so does the caller here. `MP4ConvertTime` multiplies and
divides integers where they suffice (`IntegersSuffice`), and rounds to the nearest otherwise, as its `double` does. `Close` flushes the
tracks one after the other; tables are loaded again from there, with the first
samples of stsc computed by `MP4StscAtom::Read`. `RewriteChunk` is one turn of `RewriteMdat`'s loop, so that `OptimizeFails`, an error or the
death of the process, may come between any two; it leaves the file as it was, because
only `Rename` replaces it. `Death` in the middle of a session leaves no moov and so no
file: mode `lost`.

`CopyTurn` is one turn of `MP4CopyTrack`'s loop: it ends the loop (`CopyDone`), copies a sample
(`CopySample`), or gives up and deletes the new track (`CopyFails`), because there is no sample at the time, it
cannot be read, or the disk refuses the copy. `SegmentsAt` and `SampleInSegment` are the two halves of
`GetSampleIdFromEditTime`: the segments that its loop does not pass over, and what it answers for
the first of them. An edit time is 64 bits wide (`PtsSpan`), the fields of the list 32 (`Span`).

A byte is the pair of its track and sample, so that what the tables lead to can
be compared with what was written. Offsets are counted from the first byte of the
media data. 32-bit fields of the tables wrap at `Span`; time stamps at `PtsSpan`.

**What the properties do not promise**, because the code does not do it. After
`MP4Modify` `m_writeSampleId` starts at 1 again while the file has samples: what ctts
and stss say of a track with such a sample (`strayed`) is left out of
`OffsetsRecorded`, `SyncAnswered` and `BytesReadBack`; a refused chunk, too, leaves its number
to the next sample. The first sample that stsc keeps for a chunk is counted back from the
number being written, which is wrong when `ReadSample` writes the chunk
(`readBack`); it is right again when the file is read. `IsSyncSample` fails instead of answering no for a
sample before the first sync sample, and so `SyncAnswered` says. Samples of no bytes at
the end of a session are in no chunk, and `BytesFound` speaks of files where all
samples are in one. stsc numbers the samples in 32 bits, so `BytesFound`, `BytesReadBack` and `InTimeOrder`
are about files with fewer samples than that (`Numbered`). In a session that left samples out, a chunk may ask stsz for
a size it does not have (`ChunkIsSized`): the array throws, and `MP4Optimize` fails. A first rendering offset of 0 on a track without ctts, for a sample that
others follow, goes to a table that is not there (`NoTable`): the process dies.
`CopiesInOrder` speaks of lists of one segment (`Aligned`: it starts with a sample and lies within the
track, whose samples all last); through such a list the last sample is not copied,
because `MP4CopyTrack` adds the duration of a sample and leaves its loop before it copies it, and so the
property says. With two segments the search finds a segment that has ended (`mp4track.cpp:1783`, run
`mp4_edits`); a segment that starts in the middle of a sample or a sample without duration may keep the
loop in its place as well. It is therefore not claimed that a copy ends, and
`CopiesInOrder` bounds the loop where it holds: each turn adds a sample to a prefix of a finite sequence.

External or left out: `MP4CloneTrack` succeeds, and what is copied goes to another file, of which only the
samples are kept (`dub.samples`); the caller copies once. The disk refuses a chunk only in `WriteSample`, and a
refused chunk leaves nothing behind on it; `MP4Close` succeeds; the result of
`PTS2TIME_SCALE` is the exact quotient cut off (in the code a `double` is, which may be one tick
less), and the fallback of `MP4ConvertTime` is exact as well. A frame that is cut short ends its file; that the muxer may take its
time stamp for the first one changes nothing, as no frame follows. `main.cpp:147`
reads a `result` that nothing has set when a file ends at once; `main` ignores
what the function returns, so both values lead on to the same step. Before them, the first frame of each file has
set up its track, and a failure there removes the file.

**Bounds.** Two tracks, 2 and 1 ticks per second, in a movie of 2, so that chunks have one or more
samples and a time is converted between scales. Up to four samples on the first track and two
on the second: the fourth is needed for a row of stsc that covers two chunks after
one that does not. Samples of 0, 1 and 2 bytes, sync or not, with an offset or not, with their own duration or the track's default;
`Span` is 16 so that a table's value may wrap. One refused chunk. `MaxEdits` 7 calls of "any caller", enough for two sessions, a read
and an `MP4Optimize`. Frames below, at and above the least size, with gaps of 1, 2 and -1;
time stamps of 3 per second that start apart in both orders; a limit of
1 s (5 in the code). The caller that makes edit lists ("cut") writes up to three samples (`MaxCut`), and has
lists of up to two of three segments, one of which is a dwell and one ends within a sample;
`MaxCopied` 4 samples of a copy are kept, one more than the track has. `CHECK_DEADLOCK FALSE`: the programs end.

**Fairness.** WF of `ProgramStep`: the recorder and the muxer are single threads that do
not wait, so they read on, and an input file has an end (`MaxFrames`). The
other callers ("edit", "cut") have none.

## 7. What is checked and proved

| Run | Module, cfg | What it shows |
|---|---|---|
| `rtsp_client` | RtspClient, MCRtsp | The count is the number of clients, the process runs exactly while a client is left, closed clients are quiet, media is orphaned only by a shutdown during a SETUP, a stream that reads nothing never set anything up, a stream without a timer is not stopped early, and all of it implements StreamLifecycle. With a server that answers every request is settled, timed streams end, and the process ends when every session has a duration. |
| `rtsp_first_url` | RtspClient, MCRtspFirstUrl | *Violated:* "Open and start streaming each one" (main.cpp:56). When the first DESCRIBE cannot be sent the process exits before the other URLs are opened. |
| `rtsp_mid_setup` | RtspClient, MCRtspMidSetup | *Violated:* "All subsessions' streams have now been closed" (main.cpp:347). A subsession that ends during the next one's SETUP takes the client down without TEARDOWN. |
| `rtsp_long_stream` | RtspClient, MCRtspLongStream | *Violated:* "a timer to be handled at the end of the stream's expected duration" (main.cpp:302). Above 4294 s the delay does not fit. |
| `drm_display` | DrmDisplay, MCDrmDisplay | Without the ZPOS branch nothing is freed twice and no dead object is used, although results are ignored; with or without it, what a failed `drmInit` and a careful caller leave behind, and that a frame is drawn into the buffer on the screen only after all others failed to reach it. |
| `drm_zpos` | DrmDisplay, MCDrmZpos | *Violated:* a `drmInit` that returned 0 has set up a usable device (rkdrm_display.c:570, main.c:40). When ZPOS cannot be set, everything is freed, one thing twice, and 0 is returned. |
| `h264_convert` | MCH264Convert, MCH264Convert | The buffer is never exceeded, no byte is written twice or out of order, a damaged sample is next to the end of a read, and a file that fits the buffer gives whole units from the first one on. |
| `h264_lost` | MCH264Convert, MCH264Lost | *Violated:* "convert H264 file to mp4 file" (MP4Encoder.h:43). The units after the last start code that the backward scan sees are lost. |
| `kcf_pool` | MCKcfPool, MCKcfPool | A wrong "old target" is due to a slot given away in the same frame; no second tracker is started where one was running when the frame came; no tracker is in use after a frame that came when it was older than the limit. |
| `kcf_stale` | MCKcfPool, MCKcfStale | *Violated:* "This is old target, drop it!" (myKCF main.c:69). A new target is dropped near the place where the previous owner of a slot was last seen. |
| `mp4_file` | MCMp4, MCMp4 | A file written by the recorder, the muxer or any caller that appends, reads back, re-times and optimizes: its tables give every sample's size, time, offset, sync flag and bytes; caches and seeks agree with them; the optimized file is in time order; a frame is shown at the time stamp of its predecessor; a recording keeps its limit, and recorder and muxer end (`RecordingEnds`); `MP4CopyTrack` copies the samples in order and each once (`CopiesInOrder`). |
| `mp4_edits` | MCMp4, MCMp4Edits | *Violated:* "'editWhen' is within this edit segment" (mp4track.cpp:1788). With segments [0, 1) and [1, 3) the third sample is looked up in the first segment, gets the duration -1, and the copy goes back and repeats its last two samples, for ever. |

Each property of a passing run has a mutant in its module (`\* Mutant:`): a
plausible bug in a definition, with which TLC finds the property violated.

### Proofs

The theorems hold for all values of the constants that satisfy the modules' `ASSUME`s.

*RtspClientProofs.* None of the safety invariants is inductive: whether a shutdown
sends TEARDOWN depends on the sinks, and whether the sinks are all that plays
depends on the request in flight. `Sound` says of one stream, in each state of its
client, how request, session, sinks, BYE handlers, timer and the server's `up` belong
together (`OpenInv`, `ClosedInv`). `HandlerStep` is the argument: every handler
leaves its stream open and sound (`Continue`) or shuts it down (`ShutdownStream`),
so the count and the exit condition are looked at once for each of the two and not
for each handler. From `Inductive` follow `TypeCorrect`, `CountCorrect`,
`ExitCorrect`, `QuietAfterClose`, `OrphanCause`, `IdleCause`, `NeverStopsEarly` and
the refinement `ImplementsLifecycle`.

*DrmDisplayProofs.* `Ring` says that the next slot is ahead of the one on the screen
by the number of frames missed, and one more; with it `OffScreen` (`DrawsOffScreen`)
holds for every `BufCount`. `TypeCorrect` comes with it. `Held` says what is live at
each point of the program: after a failed `drmInit` at most `drm_fd`, after a
successful one all that `dev` points to (`ObjectsHeld`, `PlainDevice`), and a
mapping without a framebuffer only in the slot `drmGetBuffer` failed on
(`SlotsHeld`). From it `FreedOnce`, `NotUsedDead` and `LeftBehind`.

*KcfPoolProofs.* The invariant says that the table and the trackers agree on every
slot not given away in this frame (`CentreIsRoi`), that a stamp is the time of
the start (`StampIsBirth`), and that the last frame came before the clock was read last (`FrameIsPast`): a tracker that is
young by its own reading of the clock was younger when the frame came. From it `OldByFresh`, `SecondTracker`, `Outlives` and
`TypeCorrect`, for every number of slots and all places.

*H264ConvertProofs.* For a buffer of any size, any file and any stale bytes:
`TypeCorrect`, `NeverOverrun`, `OrderKept`, `DamageBounded` and `SmallFileKept`. The inductive invariant `ConvertInv` has two halves.
`Cut` says of the samples that they are in order, lie in the part of the file that was read, and are units of the
file or next to a seam. While files are open, `Copied` says that the buffer is a stretch of the
file without a gap except at the seams, `Joined` that it ends in the byte that `memcpy` has added, and `Behind` that
all samples were cut from before it; without `Behind` order could not be kept over a move. The argument of a
step: what is moved and what is read join at a seam (`ReadOn`), the two scans cut that buffer into units that
end where the next start code begins (`UnitsChained`, `CutOut`), a unit without the seam in or near
it is one of the file (`CutUndamaged`, from `CutWhole`), and the rest is behind what was written
(`MovedUp`). For `SmallFileKept` a second invariant, `SmallInv`, says that of a file that fits the buffer either nothing
or everything has been read; `HandleFound` follows the flags and the samples from unit to unit, and
compares them with the units of the file before the next start code (`UnitOfFile`). The scans are recursive functions. That a function with such an equation exists, and what it returns, is proved here by
`Recursion` and `Descent` from the library's well-founded minimum, which speaks of sets and needs no operator for the
induction hypothesis.

*Mp4TrackProofs.* Lemmas about the pure operators of `Mp4Track`, for tables of any length: sums, the rows of a table of runs
and the search for a row from the first or from a cached one, the rows that a sample adds
and those that an offset cuts and joins, the two searches of stss, the seek to a time.
*Mp4TablesProofs.* What the tables of one track say of the samples that were written: `Recorded` is that stsz (`Sized`), stts (`Timed`),
ctts (`Shifted`) and stss (`Synced`) describe these very samples; the last two only on a track
where no sample was numbered wrongly. `Chunked` is the same of the bytes: stsc splits the samples into chunks, one after the
other (`StscAdded`, `ChunkOfSample`), each chunk of the media data and the chunk buffer hold the bytes of their
samples (`Laid`), unless an earlier session has left samples out (`Whole`). `SampleFound` goes from a sample through
stsc, stco and stsz to its bytes.

*Mp4FileProofs.* `SizesKept`, `TimesKept`, `OffsetsKept`, `SyncKept`, `CachesKept` and `SeekKept`. The inductive
invariant `TableInv` has three parts. `FileInv`: of every track the samples are `Recorded`, a cached row is one of its
table (`CacheOK` in `IsTrack`), and it lasts as long as its samples do unless a chunk was refused or 32 bits do not hold
the time (`Lasting`). `ListInv` types the edit lists and the copy: the durations of a copy
come from them. `Clocks` types the time stamps: a duration that is cut from one has to be an
integer for stts. What makes it inductive over sessions is that the count of samples, and not the number of the
next one, decides whether a sample is the first of stsz and stts. A refused chunk needs care: the
exception leaves `WriteSample` after the tables have the sample and before the track's duration has.

`BytesKept` (`BytesFound`), `ReadBackKept` (`BytesReadBack`) and `OrderOptimized` (`InTimeOrder`) need a second invariant, `MediaInv`.
`TrackMedia` says of each track that it is `Chunked`, and that the rows of stsc know the first samples of their chunks; that
second part is given up while a number may be wrong, and comes back when the file is read (`FirstsRight`, `ChunkLoaded`). The
bytes before a chunk do not change, because media data only grow (`LaidBefore`). For `MP4Optimize`, `CopyInv` says that
the chunks copied so far have the bytes of their samples in the copy (`Copied`), lie there in the order of their times, and
are not later than any that is left (`CopyInOrder`). The step takes the earliest next chunk of all tracks (`NextIsEarliest`); the next chunk
of a track is its earliest because chunks of one track start in order (`ChunksInOrder`), and rounding to the scale of the movie
keeps that (`ConvertMonotone`): cut off or to the nearest, and when the earlier time is cut off and the later one is not. Once all are copied, `Copied` is `Chunked` of the new file and `CopyInOrder` is `InOrder`.

*RecorderProofs.* `KeepsLimit` (`WithinLimit`), `ShowsPrevious`, `TypesKept` (`TypeOK`) and `CopyKept` (`CopiesInOrder`). For the limit, `FirstOfBoth` relates `m_u64FirstPTS` to
the first frames of the tracks that have begun, `Limited` says that while a track
goes on *all* its samples are within the limit, and once it is over all but the
last; `Stamped` has the types. The unsigned difference is
treated in one lemma (`UnsignedDifference`), which needs `LimitAssumption`: a frame earlier
than the first wraps to more than the limit.

`ShowsPrevious` (`StartIsPreviousPts`) rests on `StampInv`, which is `TableInv`, `RecInv` and `Gaps`: every duration in
the log is the ticks of the difference of two successive time stamps. Each difference is cut off to a whole
tick (`TicksElapsed`), and the sum over the frames so far is early by less than a tick for each of them.

`TypesKept` takes the bound of the chunk offsets from `MediaInv`, that of the edit list from `ListInv`, and adds what the input files
have given (`Inputs`).

`CopyKept` rests on `Dubbing`: a copy runs only in a file that is read, and nobody changes what it reads. Without the list it has the
samples up to `dub.id` (`WholeCopy`); with a list of one segment that starts with sample *a*, *n* samples from *a* on, and the time of the
next turn is that at which sample *a + n* starts, counted from the segment (`SegmentCopy`). The turn (`SegmentTurn`) finds this
sample (`SampleShown`): the segment is not passed over, the time is looked up in stts (`SampleStarting`, from `TableInv`: each
sample lasts, so only one starts then), and the end of the segment cuts it off or not. It ends the copy exactly when the *next* sample would be outside
(`TurnTimes`), which is why the last sample is missing; `SegmentInOrder` compares that with `Shown`.

*Only model-checked.*

- Liveness: `RequestsSettle`, `TimedStreamsEnd`, `Terminates` of the RTSP client and `RecordingEnds` of
  the recorder and the muxer. The provers have no rules for fairness and `ENABLED` here.
- That the runs expected to fail do fail: TLC's counterexamples show it.

Every invariant of a passing run, and every action property, is stated by a theorem.

## 8. What is not modelled

- `sps_str` and `pps_str` survive a conversion: a second file in one process would
  write samples before it has a track. Both programs convert one file.
- `drmSetDpmsMode`, `Write264Metadata`, `PraseMetadata`: nothing calls them.
- The frames a sink receives (`DummySink::afterGettingFrame`) only re-arm the read;
  the NAL type it prints is not modelled.
- `kcftracker.cpp`, `fhog.cpp`, the OpenCV examples, `getGPUbyCUDA`, `config-test`:
  numerical code, or straight-line calls of a library, without control to check.
- `ffmpegDec_test`, `ffmpegDec_test2`, `ffDecDisplayTest/ffDecDisplay.cpp` and
  `Myffmpeg`'s decoding: a single loop over FFmpeg.
- `examples/wdt` (one loop with a fixed sleep), `examples/uart`, `boost-test`.
- Of `mp4v2-2.0.0`: the classes of atoms and properties and how they are parsed and
  written, the creation of tracks, hint tracks, sample dependencies
  (sdtp), bit rates, tags and cover art, and the utilities. Among these, the parsers
  and the tables of atom names and sizes are data rather than control.
- `rabbitmq`: two straight lines of calls. What becomes of a message is decided by
  the broker and the library, which are not here.
- live555, FFmpeg, OpenCV, libdrm: libraries. The headers that are vendored here
  (`Myffmpeg/include`, most of the repository's lines) declare and do nothing.

## 9. Plan

Done: RtspClient with StreamLifecycle and proofs; DrmDisplay with proofs of the ring and
of the objects; H264Convert with proofs of type, buffer, order, damage and small files; KcfPool with proofs; Mp4Track, Mp4File, EditList and
Recorder with proofs of the sizes, times, offsets, sync samples, caches, seeks and bytes, of the order `MP4Optimize` leaves, of the
limit, the time stamps and the copy of a track.

What would come next:

1. An abstract specification of a file as a sequence of samples per track that
   `Mp4File` implements, from `TableInv` and `MediaInv`.
2. The hint tracks of `rtphint.cpp`, as a second kind of track in `Mp4File`.
3. An abstract specification of the ring of buffers (a frame on the screen is not
   drawn into while another buffer is free) that `DrmDisplay` implements.
