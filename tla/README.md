# TLA+ verification of the DE10-Nano video pipeline

The repository builds a Nios II system on a Cyclone V SoC that plays frames
from DDR3 over HDMI, and two DMA engines that copy memory.  This directory
holds TLA+ models of its hand-written logic (`src/RTL`), of the Nios II
software that drives it (`src/nios_software/video_app2`), of the drivers and the
clock this software stands on (`nios_ddr3_test_bsp`) and of the calibration that
makes the DDR3 memory usable (`hps_isw_handoff/.../sequencer.c`), TLC
configurations that check them on small instances, and TLAPS proofs for every
value of the constants.  Source paths below are relative to `src/`.

## 1. The system

| Part | Source | State | Operations | Talks to |
|---|---|---|---|---|
| Frame reader | `RTL/video_dma_master.v` | command FSM, next address, words commanded and received, busy, done pulse | one clock edge: trigger, throttle, command, accept, receive, finish; reset | memory (Avalon-MM reads), stream FIFO, control registers, vertical sync |
| Stream FIFO | `RTL/simple_dcfifo.v` | RAM, two pointers with gray codes, two two-flop synchronizers, output register | edge of wrclk, of rdclk, of both; no reset | frame reader writes, raster reads |
| Raster and patterns | `RTL/hdmi_sync_gen.v`, pixel half | raster counters, sync/data-enable/pixel registers, vertical-sync toggle | one pixel-clock edge; reset | reads the FIFO and (unsynchronized) the registers |
| Control registers | `RTL/hdmi_sync_gen.v`, CSR half | mode, gamma/continuous bits, frame pointer and its shadow, sticky done, start pulse, gamma table, bitmap | one clk edge with at most one bus access; reset | software, frame reader, raster |
| Pipeline wiring | `RTL/video_pipeline.v` | three-flop synchronizer of the vertical-sync toggle | edges of clk_50 and clk_hdmi | joins the four above |
| Menu software | `nios_software/video_app2/hdmi_control.c` | a local copy of the control word | read-modify-write functions, status print | control registers |
| Copy engine | `RTL/burst_master.v`, `RTL/simple_fifo.v` | registers, read master, write master, FIFO | one clk edge; reset | memory (reads and writes), test software |
| Scaling copy engine | `RTL/burst_master_4.v` | the same with two FIFOs and a five-stage pipeline | one clk edge; reset | memory, test software |
| Copy benchmark | `nios_software/video_app2/burst_master_test.c` | the transfer under way | set parameters, start, poll, acknowledge | copy engines |
| HDMI transmitter set-up | `video_app2/hdmi_config.c` | timeout of the PLL wait, the register being written | wait for the PLL, write the registers in order | I2C driver |
| I2C driver | `nios_ddr3_test_bsp/drivers/src/altera_avalon_i2c.c` | retries and polls left, the core's enable bit | send: enable, queue a command, check, wait for idle, disable, retry | I2C core, HDMI transmitter |
| System clock | `HAL/src/alt_tick.c`, `alt_alarm_start.c`, `drivers/src/altera_avalon_timer_sc.c` | tick count, alarm list with roll-over flags | timer interrupt, start and stop an alarm | interval timer, callbacks |
| Cycle counter | `video_app2/common.c` | the locals of one reading | five reads and writes of a reading, repeated if a tick fell in between | tick count, timer |
| DDR3 calibration | `hps_isw_handoff/soc_system_hps_0/sequencer.c` | stage and group, delay registers, edges found, strobe gate, read latency, first failure | the stages of each group, their sweeps and retries, the report | PHY and memory |
| HAL rest | `nios_ddr3_test_bsp/HAL` (vendor) | - | polled reads and writes (the reduced drivers: `public.mk:211`) | JTAG UART |
| Top level, debounce, edge detectors | `RTL/DE10_NANO_SoC_GHRD.v`, `ip/*` | shift registers, LED counter | clock edges | pins |
| Linux loader, image converter, testbenches | `linux_software`, `tests` | - | straight-line I/O | - |

Two clocks meet in the video pipeline: clk (50 MHz) and the pixel clock
(37.8336 MHz, `soc_system.qsys:1490`).  Three things cross between them: the FIFO
pointers (gray codes), the vertical sync twice (as a toggle for the frame
reader, as a level for the shadow of the frame pointer), and the registers,
which the raster reads as they are.

What is hard, and what makes each part correct:

- *Frame reader.*  It throttles on an occupancy that is several edges old while
  words it has asked for are still to come.  Correct: its account of those words
  is exact, it never asks for more than fits, it reads one frame from one base
  address however software moves the pointer, and every frame ends (TRYERROR.md
  section 7 was an end never reached).
- *Stream FIFO.*  Pointers are captured while they change.  Correct: a bounded
  queue whose two sides err on the safe side only, and whose ports say so
  (TRYERROR.md section 1 was an occupancy that wrapped to zero when full).
- *Raster and pipeline.*  Data, data enable and syncs pass different register
  chains, and nothing ever flushes the FIFO.  Correct: a picture shown in step is
  exactly one frame (TRYERROR.md section 6 was a shift by a column).
- *Control.*  Software reads, changes and writes back a word the hardware also
  changes.  Correct: no bit is lost, done is not cleared unseen, a start that saw
  the reader idle is honoured.
- *Copy engines.*  Two masters share a FIFO and come to rest at different edges.
  Correct: exactly the transfer's words are written, once, in order, every
  transfer ends, and the next start finds everything at rest.
- *Cycle counter and alarms.*  One time is joined from two counters that go on
  moving, and the tick count wraps.  Correct: the result is the time of one instant
  of the call, and an alarm is called on the tick that was asked for.
- *HDMI set-up.*  The caller ignores every result, so all rests on the driver's
  retries.  Correct: it always comes back, a success is one, and the retry of a
  write that failed late never reaches the device twice.
- *DDR3 calibration.*  Edges are found by tests that go wrong near them, a sweep may
  miss an edge, phase 0 is skipped, and each stage inherits delays from the last.
  Correct: what is reported as calibrated works, with the margins shared.

## 2. The modules

| Module | Models | Notes |
|---|---|---|
| `StaleFifo` | the promise of `simple_dcfifo.v` | abstract: a queue, and how much each side does not know yet |
| `DcFifo` | `simple_dcfifo.v` register by register | metastable capture: `Sampled` |
| `VideoDma` | `video_dma_master.v` and its memory port | `DmaTick(in)`: the three clocked blocks at one edge on inputs `in` |
| `VideoPath` | frame reader + memory + `StaleFifo` | the wires of `video_pipeline.v:76-115` |
| `HdmiCsr` | clk half of `hdmi_sync_gen.v` | a control word is the set of its bits |
| `HdmiRaster` | pixel half of `hdmi_sync_gen.v` | mode, tables and stream word are inputs |
| `HdmiPattern` | `HdmiRaster` in a pattern mode | |
| `VideoPipeline` | all of `video_pipeline.v` | `VideoPath`, `HdmiCsr`, `HdmiRaster`, both clocks, and an observer at the connector |
| `DmaControl` | menu software + `HdmiCsr` + `VideoDma` | `Ask`/`Learn`/`Store`: the read, its answer, the write back |
| `SimpleFifo` | `simple_fifo.v` | instantiated once by `BurstMaster`, twice by `BurstMaster4` |
| `BurstEngine` | CSR, read master, write master of `burst_master.v`; `burst_master_4.v` repeats them | three actions a composition conjoins into one edge |
| `CopyTest` | transfers of `burst_master_test.c` | either order of the parameters |
| `BurstMaster`, `BurstMaster4` | the two engines whole | |
| `ScaleArithmetic` | the arithmetic of `burst_master_4.v` and of the test that checks it | operators only, proved about in `ScaleProofs`: TLC has no 64-bit integers |
| `AlarmClock` | the promise of the alarm list | abstract: ticks left, no clock that wraps |
| `SystemClock` | timer, interrupt, `alt_tick`, alarms, `get_total_cycles` | an interrupt comes after at most `LATENCY` more steps of the program |
| `AvalonI2c` | polled sending of the I2C driver, with core and device | a byte is taken, refused, lost to another master, or never ends |
| `HdmiSetup` | `hdmi_init` on `AvalonI2c` | |
| `EyeCentre` | the arithmetic of the deskew | marks of the two sweeps, middle, margins |
| `DdrCalibration` | `mem_calibrate` and its stages on `EyeCentre` | one action per tap of a sweep; the eyes are any of a set, noisy at their edges |
| `DqsEnable` | `rw_mgr_mem_calibrate_vfifo_find_dqs_en_phase` | the window of the strobe is anywhere in the ring, of any length |
| `*Proofs` | theorems and proofs | `VideoPathProofs`: reader and FIFO; `PipelineProofs`: raster, crossing, whole pipeline, control software; `DriverProofs`: system clock, HDMI set-up; the others (`FifoProofs`, `DdrProofs`, `EnableProofs`, `CopyProofs`, `ScaleProofs`): one component each |
| `MC*` | instances for TLC | |

```
StaleFifo <--refines-- DcFifo
   ^
VideoDma --> VideoPath --> VideoPipeline <-- HdmiCsr, HdmiRaster --> HdmiPattern
   |                                             |
   +---------------> DmaControl <----------------+ (HdmiCsr)
BurstEngine --> CopyTest --> BurstMaster, BurstMaster4 <-- SimpleFifo
AlarmClock <--refines-- SystemClock        AvalonI2c --> HdmiSetup
EyeCentre --> DdrCalibration               DqsEnable
```

Conventions.  One step is one rising clock edge, or both clocks' at once, or a
reset.  A Verilog register is a variable of the same name; a nonblocking
assignment is a primed variable; the branch taken of an FSM is a disjunct with the
branch's condition as its guard; a wire is an operator.  Inputs are quantified
over everything the surroundings may present.  A data word is identified with the
byte address it was read from, so that "the right word" can be said; in
`BurstMaster4` it also carries the operations it has been through.  In the software models one step is
one access to a device, or one poll, tap or retry; a C loop is the action of its
body, and its counter a variable.  The memories
(external) are a queue of owed words (`inflight`, `owed`) answered in order, at any
delay, at most one per edge and never at the edge of acceptance, and for the
copy engines the list of beats stored (`written`).  Definitions whose comment
begins with *Seeded fault* are not part of any specification: each is a
plausible mistake in one definition, and putting it in that definition's place
makes a property fail.

## 3. Runs

| Run | Question | Instance |
|---|---|---|
| `dcfifo` | Does the gray-pointer FIFO keep `StaleFifo`'s promise under any interleaving and coincidence of clocks, and pass every word and every freed slot on? | 4 slots, 2 words |
| `video_path` | Is the reader's account exact, are the addresses one frame's? Can the stale throttle overrun the FIFO? Is the stream in order across frames and resets? Does every frame end? | 2 bursts of 2 words, depth 6, 2 bases |
| `video_pipeline` | Does a player that moves the frame pointer, starts frames and switches the source ever tear or shift a picture that is in step? Do both crossings of the vertical sync keep their order? | 2x2 picture in a 3x5 raster, bursts of 1, depth 4, 2 frames; software idles, selects stream or pattern, starts in continuous mode, or moves to the other frame |
| `pattern_aligned` | Are pattern pixels aligned with data enable? **Violated.** | 16x8 in 20x12, 8 levels, all nine modes |
| `dma_control` | What may software rely on across a read-modify-write? | frame of 2 bursts of 1, every menu function |
| `burst_master` | Is a transfer exact, does it end, is the engine ready for the next? | depth 4, 5 transfers of 0 to 16 words, bursts 1, 2 and 4 in equal and unequal pairs, a padded length, both parameter orders |
| `burst_master_4` | The same through the pipeline, with changing coefficients | depth 4, stages 0 to 3, 3 transfers of 8 words |
| `system_clock` | Is the cycle count exact wherever the tick falls, and does the alarm list implement `AlarmClock`? | timer of 4 cycles, tick count of 4, snapshot in halves of 2, interrupt up to 3 steps late, 2 alarms |
| `hdmi_setup` | Does set-up over a bus with NACKs, lost arbitration and hanging bytes come back, tell the truth and write each register once, in order? | queue of 2, 2 polls, 3 attempts, 3 registers, 2 PLL polls |
| `ddr_calibration` | Do a successful centring, the report and the latency mean what they say, and do the stages leave each other's delays alone? | 2 lines, 4 taps, 2 groups, 4 eyes (one too early, one late, two between) with 1 noisy tap |
| `dqs_enable` | Is every window long enough found, are the registers legal, does the opening end within a phase and half a tap of the middle? | ring of 4 cycles of 8 phases, 5 units a phase, 2 a tap, windows of 0 to 1.5 cycles at every position |
| `dqs_tracking` | Is the tracking value the taps of a phase, as the comment says? **Violated.** | as above |

Why the bounds are enough.  The FIFO depth of 4 is the smallest at which the two
top bits of the gray code differ from the rest (`wrfull` inverts both), and both
pointers wrap.  A frame has two bursts, so that "not the last" and "the last" differ, and
depth minus burst minus the two spare words leaves states in which the throttle closes
and opens, with one burst owed and the next commanded.  The 2x2 picture has two visible lines
and two columns, so that "next line" differs from "next pixel", and a blanking
long enough for the three-flop chains; complete pictures of both frames, frames
started in the middle of a picture and words left over from an abandoned one are
all reached.  `SidesKeepUp` (a state constraint) lets each side of the FIFO be
at most one move behind in the pipeline run; `video_path` has no such bound.
The copy engines' transfers are long enough for the ring pointers to wrap and for
the read master to be stopped by the room check; stage 3 is the first that only
passes words on, so that a longer pipeline repeats it.  Every word width of
`system_clock` is small enough to wrap many times, and a pass of the reading loop may
see a tick before, at, and after each of its accesses; `PASS_CYCLES` bounds it to less
than a tick, as five bus accesses against 50000 cycles are.  In `hdmi_setup` the queue
is shorter than a message, so that the wait for room happens, and attempts and
polls end within the run; both are 10000 in the code.  The eyes of `ddr_calibration` make
each sweep find, miss and lose edges, clamp delays at either end and fail the margins;
two groups are one that passes and a next.  The ring of `dqs_enable` is the real
number of phases (8) with a phase that is not a whole number of taps, as on the board
(12 and a fraction), and every position of the window is tried.  `EnableCentred` allows half a tap
more than a phase because a phase is not always enough: with the board's 312 ps and 25 ps,
a window of 1510 ps at 24200 ps ends 317 ps off, its middle having been moved out of phase 0 and
its edges found a tap late.  `WindowAssumption` leaves two cycles of the ring outside any window: the search
waits for two that fail before it looks for an edge, and the strobe is on for a burst,
far less than the 16 cycles of the ring.

Fairness.  `DcFifo`: both clocks run.  `VideoPath`: both clocks run and each side
learns in the end of what the other has done, the memory takes a command held out to it and
delivers what it owes (the Avalon-MM contract), and the display reads.
`BurstMaster`, `BurstMaster4`: clk runs, the memory takes commands and
beats and delivers, and the polling loop eventually sees done.  Each is weak fairness of an
edge with that input, and none says when.  `HdmiSetup`: the processor runs on, and
nothing else: the bus and the device may hang for ever.  No liveness is claimed for
the other modules.  `DqsEnable` ends, so deadlock is not an error there.

### What the violated runs show

- `PatternAligned`: the pattern is computed from the counters of the edge at
  which `hdmi_d` is registered, but data enable from those of the edge before, so
  each enabled pixel is its right neighbour's: column 0 is never shown.
  The stream mode is aligned, because the FIFO's output register adds the missing
  edge (`PictureIsOneFrame`).
- `TrackingIsOnePhase`: the step back by one phase (`sequencer.c:4484`) goes over the
  skipped phase 0 when the last good phase is 1, so that two phases are measured.

Disagreements that need no run: `print_dma_status` prints "YES (Read-to-Clear)"
(`hdmi_control.c:238`), but the bit is cleared by writing 1 (`ClearedOnlyIfSeen`
says when); `dma_start_single` prints that the frame was started (line 215) even if the
frame reader, busy, drops the start (`StartHonoured` says when it does not);
arbitration lost on the last byte of a message is not retried, although the driver's
header promises retries of lost arbitration (`altera_avalon_i2c.h:652-653`): after the last
wait only NACK is looked at, which is why `SuccessMeansWritten` excludes it; `doc/NIOS.md:78` calls the menus
case-insensitive, but 'R' and 'Q' are invalid options (`main.c:81-86`).

### What the passing runs say about use

- The shadow pointer is taken before the frame reader sees the same vertical sync
  (`ShadowBeforeEdge`) because between two pixel edges there is always an edge of
  clk: true of 37.8336 MHz against 50 MHz, not of the 74.25 MHz of `doc/DESIGN.md`.
- The FIFO is never flushed.  Words left by an underrun, a source switch in mid-picture or a
  reset shift all later pictures, for ever; `PictureIsOneFrame`
  and `InStepAtVsync` are about pictures whose frame was started in the blanking
  with an empty FIFO, and say that such a player stays in step.
- A copy whose padded length is not a whole number of write bursts never ends
  (the length is padded to read bursts only, `burst_master.v:195`), nor does one whose
  burst does not fit the FIFO.  `JobAssumption` in `CopyTest` says what a transfer
  has to meet; both test programs do.

## 4. Proofs

`VideoPathProofs` is for every burst length, FIFO depth, frame size and set of base
addresses that meets `DmaAssumption` (a burst and two words fit the FIFO) and
`WholeBursts` (a frame is a whole number of bursts: 960 x 540 = 8100 x 64).
`CountIsExact` and `NoWordLost` need no more.

The frame reader - theorems `DmaTypeCorrect`, `DmaPendingExact`, `DmaFrameInOrder`,
`DmaDoneIsComplete`, `DmaOneBasePerFrame`.  None of the properties is inductive by
itself.  The inductive invariant `DmaIInv` adds

- `WholeBurstsCommanded`: words commanded are a multiple of the burst, so that
  "not all commanded" leaves room for a whole burst and the count cannot pass
  the frame size;
- `StateFitsCounters`: what each FSM state implies about the counters (ISSUE_READ: not
  all commanded; WAIT_END: all commanded; busy outside IDLE; ...).

`PendingExact` then carries the argument: the words owed are commanded minus
received, so a word that arrives when none is owed cannot be, the counters stay in
range, and at the return to IDLE nothing is owed.  One lemma per kind of
edge: idle (`QuietEdge`, `StartFrameKeeps`, `RestKeeps`), busy without an
acceptance (`NoAcceptanceKeeps`), acceptance (`AcceptedKeeps`), reset.

With the FIFO - theorems `PathTypeCorrect`, `PathCreditBound`, `PathCountIsExact`,
`PathNoWordLost`, `PathStreamInOrder`.  The invariant is `DmaIInv`, the types and `CreditBound`: stored
words as the write side counts them, words owed and the burst being commanded leave
two slots free.  A write moves a word from "owed" to "stored", a read or
news of a read only lowers the count, and a command is issued only under the
throttle's condition, which compares the port `wrusedw`: that the saturating port equals
the count is a consequence of the bound itself (`CreditLeavesRoom`).  `NoWordLost` follows:
`wrfull` is false whenever a word arrives.  The order of the stream needs a link
between the words on their way and the reader's address: during a frame the newest word
stored or owed is the last one commanded (`StreamTail`), so that each burst begins
where the stream ends, or at a base address.  That `DcFifo` may stand in for
`StaleFifo` is the next theorem.

`FifoProofs` - theorems `FifoKeepsPromise`, `FifoPortsAgree`, `FifoNoSlotRace`, for every address
width from 2 up and every set of words.  A pointer is the set of its bits that are 1, so
the facts needed of the codes are facts about sets: there are as many pointers as sets of bits, a
pointer is determined by its bits, `gray2bin` undoes `bin2gray`, the codes of neighbours
differ in one bit, and the inverted top bits that `wrfull` compares stand for half way round the ring.
Since only one bit changes, whatever a synchronizer captures of a changing code is the old
code or the new one (`Sampled`): this is where a binary pointer would fail.  `FifoInv` has

- `Coded`: every gray register, the four of the synchronizers included, holds the code
  of a pointer;
- `InTurn`: going round the ring come what the write side knows of the reads, the reads, what the
  read side knows of the writes, and the writes, and from the first to the last is at most
  the memory; so news is late but never wrong.

The refinement maps the words between the pointers to the queue (`Stored`) and the distances
between a pointer and its images to what each side does not know yet (`LagReads`, `LagWrites`); each edge
of one clock or both is then a step of `StaleFifo` or a stutter.

`PipelineProofs` - theorems `PipelineOutputsTogether`, `PipelineShadowBeforeEdge`,
`PipelineImplementsPath`, `PipelinePictureIsOneFrame`, `PipelineInStepAtVsync`, for every
raster, burst, FIFO and set of frames that meets `PipelineAssumption` (the picture is
the frame; software writes frame pointers only to the pointer register, and
these are the base addresses) and `FrameExceedsFifo`
(a FIFO of 512 words against frames of 518400), and for every mode and table.

- `Lagging`: the two stages of the pixel pipeline are what the counters decoded to one and two
  raster positions ago; the position before is computed by `BackH`, `BackV`, which
  the proof shows to undo `Count`.  From it follows `OutputsTogether`.
- `SyncLeadsToggle`: the toggle follows the vertical sync by one pixel edge, and there is an
  edge of clk between two pixel edges, so that in each flip-flop of the two chains
  the sync is there before the toggle is.  From it follows `ShadowBeforeEdge`.
- Every step of the pipeline is one of `VideoPath` or a stutter (`PipelineImplementsPath`), so
  that all theorems of `VideoPathProofs` hold of the pipeline; the shadow pointer
  is a base address whenever the reader takes it.
- `InStep` carries `PictureIsOneFrame` and `InStepAtVsync`.  The words the display has
  taken are `Taken`, those received less those stored; on the visible lines they are
  as many as visible positions are past (`Showing`), so the word now read is the word of
  this position, unless the picture has run into a FIFO left empty, when the observer
  drops it.  In the blanking none is taken (`Blanked`), and a frame can be started
  but not overtaken: the reader rests before the last of its words can be
  read (`LastWordUnread`), and a whole frame does not fit the FIFO.

The control software (same module) - theorems `ControlNoLostUpdate`, `ControlStartHonoured`,
`ControlClearedOnlyIfSeen`, for any frame size, frame pointers and choice of menu functions.
The invariant `ControlInv` says that the word a function has read stays *fresh* until it
writes: its bits are those of the register, and if it showed the reader idle and
out of continuous mode, the reader is idle now.  The busy bit is one edge late, but the only
trigger it can miss is the function's own write.

`DdrProofs` - theorems `CalTypeCorrect`, `CalCentredWorks`, `CalCentredFairly`,
`CalReportTrue`, `CalLatencySafe`, `CalReadsKept`, for any number of lines, groups and
taps, any eyes and any noise at their edges.  `CentreInv` consists of the types,
`SweepSound` (an edge found is a setting that was seen to work, or lies between two
that were), `MaskSound` (the same for the window of the data mask) and
`CentredWorks`: how the middle is chosen does not matter, since the margins are
tested against the marks.  That the rest is shared evenly does depend on it
(`FairSound`, `MiddleMet`: two halvings that round towards zero).  `OrderInv` carries the report,
the latency and the delays that a stage leaves alone (`StageSound`, `DoneSound`,
`ErrorSound`, `LatencySound`).

`DriverProofs`, the system clock - theorems `ClockTypeCorrect`, `ClockReadingExact`,
`ClockAlarmsPunctual`, for any timer, word widths and alarms and an interrupt up to three
accesses late.  The last is a refinement: every step of the alarm list is a step
of `AlarmClock` or a stutter.  The reading rests on `Followed` and `Turned` (at
most two ticks have been counted since the first read, so that an equal count is the same
tick) and `SnapshotKnown` (a tick pending at the snapshot is counted before the
comparison); the alarms on `AlarmsAhead` (at most `SPAN - 1` ticks away, so
that one roll-over flag tells the laps apart).

`DriverProofs`, the HDMI set-up - theorems `SetupSuccessMeansWritten`, `SetupWrittenOnceInOrder`, for any
queue, number of polls and retries and list of writes.  An attempt that has
issued q of its three commands is in one of three situations (`Attempt`): no fault, and the device
has heard exactly those commands that are no longer in the queue; a fault, and then
no address is left in the queue, so that nothing more can be taken; or the write taken,
and nothing left.  A fault only happens to a write that is not taken and an attempt
is repeated only after a fault, hence no write is taken twice.

`EnableProofs` - theorems `EnableRegistersLegal`, `EnableNoWindowMissed`, `EnableIsCentred`, for any
ring, phases, taps and windows that meet `EnableAssumption`, `DelayAssumption` and
`WindowAssumption`.  `LoopsFit` says which phase and tap each step of the search may hold;
the chosen middle fits by bounds on the two quotients, and because a phase is shorter than the
delay line (`DelayAssumption`: 12 taps against 31).  The other two follow from `SearchInv`, which
is about windows of three phases and a tap or more.  It counts time from the start of the
search on without wrapping (`At` ties such a time to the ring, `B` is the time at
which the window begins), and has one predicate for each step of the search:

- `Lost`: two cycles that fail are still ahead, or one when one was met, so it does not go round in vain;
- `Beginning`, `Overlapping`, `Refining`: every setting passed over so far lies before `B`, so the begin found is
  less than a tap late (`BeginFound`); or it could not be refined, because the step back
  over the skipped phase 0 takes two phases, and then it is up to two phases late and the
  time kept for it is a phase behind its setting (`lag`);
- `Forwarding`, `Ending`, `Ended`, `Tapping`: the setting under test has not left the window by more than
  the step taken; the end is refined by taps from one phase before it (`Back`: two
  phases, when the last good phase is 1).  In `Moved` that is before the begin;
- `EdgesFound`, `Verifying`: what the edges say of the window, and that the middle, folded into one
  cycle, is met again by trying the cycles in turn (`ChosenMiddle`, `CycleReaches`).

`CopyProofs` - theorems `CopyInvariant`, `CopyCreditHolds`, `CopyCopyExact`,
`CopyStartTaken`, for every FIFO depth, burst length, sequence of transfers, latency
and back-pressure, from `EngineAssumption` and `JobAssumption`.  The properties say
nothing of what is still on its way, so the invariant `CopyIInv` does:

- `Accounted`: the bytes still to be commanded, and the words owed by the memory, in
  the FIFO and written, make up the padded length; so nothing is lost or
  repeated, and all is written when the write master has nothing left.
- `InOrder`: the words written, in the FIFO and owed lie in this order at successive
  addresses of the source.
- `Reading`, `Writing`: what remains of each master is whole bursts (`WholeLess`: so
  that a burst never takes it past zero), its address is where that remainder
  begins, and a burst begun fits the room (read) or the words stored (write).
- `Setting`: the registers named so far hold the values of the transfer, so that all
  five do at the start; `SamePadding` is why the OCM test may write the length
  before the burst.
- `AtRest` outside a transfer: so that a start finds nothing left over.

Its lemmas about the two masters (`ReadStep`, `WriteStep`, `Delivery`, `Storing`,
`RestMoves`, `StartMoves`, `FinishMoves`), about a ring (`RingMoves`) and about the software
(`SoftwareMoves`) do not mention what lies between the masters, and serve the second engine too.

`ScaleProofs` - theorems `ScaleInvariant`, `ScaleScaledExact`, `ScalePipelineAtRest`, for every
number of stages from 2 up, FIFO depth, burst length, sequence of transfers with any
coefficients, latency and back-pressure, from the assumptions above, `PipeAssumption` and
`ScaleAssumption` (the transfers of this engine are those of `run_ddr_to_ddr_test`, the only test
that `main.c:52` runs on it, which sets the coefficient before the start).  A word in a stage does not
say which word it is, so `ScaleIInv` counts the words that have entered each place:

- `Counted`: a stage holds a word exactly if one more has entered it than the next
  (`Linked`), and the words that have left the last are those written and in the output FIFO.
- `Carried`: the word in a stage is the one whose number the count is, with the operations of
  that stage and those before done (`Staged`); both FIFOs hold theirs in order, and
  `Accounted` and `OwedFrom` go on from the count of words that entered stage 0.
- `Coefficient`: the register holds the coefficient of this transfer whenever a word may move.

A stage gives its word up exactly when the next takes it (`Handshake`, which unrolls the chain
of ready signals), so bubbles and back-pressure leave every count right (`StageCounts`); the
counts do not grow along the pipeline (`StagesOrdered`), so when all is written they are all
equal and every stage is empty.

In the same module, about `ScaleArithmetic` - `ScaledWithinOne`: the pipeline's x * 5243 >> 21 is
the quotient by 400 or one more as long as the scaled word is below 17519600.  `TestComparesEqual`:
the 1024 words that `run_ddr_to_ddr_test` compares are in that range.  `TestBeyondTolerance`: the last
of the 262144 words that it copies is not, and differs by 12.

Only model-checked.  Every invariant and action property of the passing runs is a theorem; what is
left to TLC is liveness, since reasoning from fairness (and `ENABLED`) is out of the
prover's reach: `FrameEnds`, `WordsSurface`, `FullSubsides`, `TransferEnds`, `ScalingEnds`
and `SetupEnds`.  The two violated runs are counterexamples and have nothing to
prove.

## 5. What is abstracted or left out

- Addresses of the frame reader do not wrap at 2^32 (frames lie far below);
  those of the copy engines wrap at `AddrSpan`.
- `vs_wire` is taken as glitch-free when clk samples it; the register reads of the
  raster see the value before or after a coincident write, not a mixture.
- A write to a table or register by software coincides with at most one per edge,
  as on the bus; wait states do not occur on these slaves.
- Burst lengths of the copy engines are powers of two up to 256, as the length
  mask of `burst_master.v:195` supposes; in `BurstMaster4` the arithmetic of the scaling
  pipeline is tracked, not computed (`ScaleArithmetic` computes it).
- The register `pending_bursts`, debug LEDs and signal probes: no effect on the rest.
- `alt_alarm_start` with 2^32 - 1 ticks wraps to the present tick; no caller asks for
  it and the model excludes it.  A callback that stops the alarm after its own
  in the list breaks the walk of `alt_tick`; no callback of this program does.
- The I2C device answers to its own address only; no register or value of the set-up list
  looks like that address.
- The read and write tests of the DDR3 calibration are outcomes, certain inside an eye,
  impossible outside, open within `FUZZ` taps of an edge; the microcode that
  runs them is not modelled.  `set_failing_group_stage` asserts a group number that
  the deskew of lines exceeds (it passes group * lines + line); assertions are
  compiled out in this build.

### Not modelled

Most lines of the repository are not its own logic, and no model of them would say
anything: `sequencer.c` has 10885 lines of which some 2600 are compiled into this
build, the others being other memories, other devices and debug modes, and of the
2600 a good part loads instruction memory and constant registers; `tclrpt.c`,
the headers, `system.h` and the pin tables are generated; `alt_log_printf.c` and the
rest of the HAL are vendor code that the program reaches through `printf` only.  Also
left out: main menu and board set-up (straight-line), gamma-table and picture
generation (pure data), Linux loader and converter (plain I/O), reset-button debouncer
and edge detectors (vendor blocks), a simulation FIFO, vendor IP (`DC_FIFO.v`,
not the one instantiated), top-level wiring.

## 6. Plan

Done: the modules of section 2 with the runs and proofs above.  What would add
most from here:

1. `VideoDma` composed with `DcFifo` itself, shown to implement `VideoPath`, so that
   the stale view is no longer an intermediate promise in the composition.
2. A `CopyJob` (idle, or copying with a number of words done) implemented by both
   copy engines, and a `FramePlayer` (pictures shown) implemented by `VideoPipeline`.
3. Proofs: `FifoKeepsPromise` and `PipelineImplementsPath` joined by the composition of item 1, so that the
   theorems about pictures hold of the registers of the FIFO itself.

Run a model with `tlc -config X.cfg M` (`M` is the run's module in
`PROJECT.json`), and a proof module with `tlapm M.tla`.
