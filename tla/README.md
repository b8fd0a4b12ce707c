# A verification project for the Sun 386i driver

TLA+ models of the MAME driver in `src/driver`, of the processor patch in
`src/patches` and of the host tools in `src/tools`; TLC configurations that
check them on small instances; theorems about them that TLAPS proves for every
value of the constants.

## The system

The driver is one C++ class whose handlers are called by MAME's devices, by the
processor's loads and stores, and by timers. Nothing runs in parallel inside
MAME, but the *order* of the calls is decided by the guest kernel, by the
devices and by the user, none of which the driver controls: the interleavings
below are those of the calls.

| part | state | operations | interacts with |
|---|---|---|---|
| DMA chaining | `m_dmaint`, `m_dmaen`, `m_dmafilled`, `m_fdmax`, `m_fdcount` | `dma_tc_w`, `dma_eop_w`, `dma2_eop_w`, `dma_write`, registers 0x19 and 0xd9 in `atblock_w` | 8237s, diskette and SCSI controllers, kernel interrupt handler, 8259 bank 1 |
| DMA bus hold | none (the processor's HALT line) | `dma_hrq_w`, `dma2_hrq_w` | both 8237s, the processor |
| diskette command watch | `m_fdcmd`, `m_fdcmdpos`, `m_fdcmdlen`, `m_fdmax` | `fdc_cmd_byte`, `fdc_dor_w` | the controller, which parses the same bytes |
| interrupt unit | `m_icw_state`, `m_icu_int`, `m_atblock` | `icu_w`, `icu_int_w`, `icu_ack` | three 8259s, the devices' outputs, the kernel |
| loader and reset | `m_kernel`, three words of RAM, a timer | `quickload_kernel`, `place_kernel`, `machine_reset`, `hold_lines`, port 0x8004 | the stub PROM, the kernel, the serial chip |
| stub PROM | none (page tables in RAM) | reset entry, reboot, trap report, getchar | the loader's three words, ports 0x8004 and 0x8010 |
| PROM image | `s_prom_runs` | run encoder, copy in `machine_start` | each other, through the generated header |
| console | `m_conx`, `m_cony`, the frame buffer | `console_glyph`, wipe in `hold_lines` | the kernel, through port 0x8000; programs that draw |
| canned keyboard | `m_inpos`, `m_empty_polls`, `m_last_key` | `prom_keyboard_r` | `gets()` of the standalone programs |
| address maps | the tables | declaration, lookup | every device |
| palette and picture | `m_cgidx`, `m_cgphase`, `m_cgmap` | `cg3_addr_w`, `cg3_data_w`, `screen_update`, `screen_update_cg3` | the kernel; `hold_lines`; the console |
| i386 patch | task register, flags, cr3, TSSs, busy bits | task switch, IRET | the kernel and the DOS emulator |
| `console.py` | text read so far, marks, time limits | pump, wait, type, main | getty, the shell and halt, over the serial line |
| `barx.py` | volume, position; the output directory | `VolumeSet.read`, `ensure_dir`, `extract` | the host's file system, gzip |
| `ffs.py` | the image | `blocks`, `read`, `readdir`, `walk`, `lookup` | none |

The hard parts are: one interrupt line shared by two DMA groups; the terminal
count that must reach the diskette controller on the last byte of a transfer
and on no page end before; two parsers of one byte stream; state that survives
a machine reset beside state that does not; a task switch that may fault in the
middle; a script that knows of a machine only what it prints. `hazards` in
`PROJECT.json` lists each with its line and the properties that watch it.

## Modules and their correspondence to the code

`map` in `PROJECT.json` names the lines of every definition. Actions carry the
names of the handlers where they are one handler; a part of the environment has
a plain name and is marked external there. An operator `X_Y` with the word
*Mutation* in its comment is a faulty variant of `X` that no specification uses:
replacing `X` by it shows that a property can fail.

**DmaChain** composes the driver's chaining with the 8237 channels, both
controllers and the kernel's `dma_setup` and interrupt handler. `dmaint`,
`dmaen`, `dmafilled` are sets of channels instead of nibbles. `KernelDisarms`
and `KernelArms` are the writes to 0x19 and 0xd9 and contain the driver's whole
reaction (`Disarm`), `FdByte` is a byte of the diskette with everything it sets
off: `dma_write`'s count, the end of count, `dma_eop_w`, `dma_tc_w`. The kernel
is as the driver's comments tell of it (407-413, 251-264): it disarms around
every page it loads, arms only if pages are to come, and its handler serves the
bits it read. One assumption stands out and has a name, `IsrOutrunsPage`: the
handler reloads a channel faster than the device empties it. The length of a
read comes from the command's first and last sector and size code by the
driver's formula (`ReadLength`, 461-462), what the controller moves from the
sectors themselves, the other side's too if the multi-track bit is set
(`SectorsMoved`); the kernel asks one command for no more than lies on the side
it starts on (`KernelStaysOnSide`). The bank of the 8259 is level- or
edge-triggered (`level`): nothing in the repository says which, it is the
guest's ICW1. In edge mode a page that ends while the line is up for another
channel leaves no request; `overtaken` remembers that. `machine_reset` may come
between any two steps: it stops the kernel and the devices and drops the request
line, and leaves the driver's own bits and counts as they were, so a transfer
after it starts among the remains of the one it broke off. `hrq` and `halted`
are the hold of the bus: each controller asks before a byte and lets go after
it, both on the one HALT line (`dma_hrq_w`), and the kernel takes no step while
the line is up. As in the code, one that lets go lets the kernel run while the
other still holds the bus.
**DiskTransfer** is what a transfer promises whoever asks for it; `DmaChain` is
checked to implement it once per channel (`FloppyTransfer`, `ScsiTransfer`),
safety and liveness both.

**FdcCommand** runs the driver's parser and the controller's on the same bytes.
`fdc_dor_w` clears the controller after any byte of a command and tells the
driver nothing; `astray` remembers that a reset has parted the two, until both
begin a command together. The controller's lengths (`ControllerLen`) are those
of the uPD765 family, whose code is not in the repository: they are grouped by
what each command carries, and only where they agree with `fdc_cmd_len` is the
driver right.

**Icu** has `icu_w`'s two offsets (`icu_w0_Icw1`, `icu_w1`), `icu_int_w`,
`icu_ack` (`AckBank`, `CpuAck`), the wiring of the machine configuration, and a
`MachineReset` that keeps what the driver keeps. A bank's output follows its
requests a little later (`PicOut`), so that a request may go before it is
acknowledged. `irq0` is the processor's line as `icu_int_w` leaves it; the
processor acknowledges what it sees there, and `icu_ack` answers 0 if no bank's
output is up. Both serial chips write one request pin, the last writer wins.

**Boot** has the loader's paths (one per kind of image), the three steps of a
reset, the stub, and what the program may do; the port that carries both
reboots and traps is `out_8004`. RAM is five areas with one
content each; `entry`, `paging`, `tables` are the three slots. A diskette is
copied over four of them, the place of its own page tables included, over which
the stub then writes: what a standalone program must find whole is the rest
(`ProgramAreas`), an assumption about the programs.

**Console** is the frame buffer as a flat array and `console_glyph` on it;
**Terminal** is the grid of characters it stands for, and `IsTerminal` says that
the bytes show that grid after every step (refinement by reading glyphs back). A
byte is a set of inked pixels on the monochrome board and an entry of the
palette on the colour one (`GlyphByte`), and `CellPixel` is what the two screen
updates make of it. **AddressMap** is constants only: every entry of `mem_map`
and `io_map` and every test of the AT block, in the order of the source, with
the rule that decides who answers. **Screen** composes the two with the palette:
the maps are declared entry by entry, then a program prints, draws and sets
colours through whatever answers at the documented addresses, and `hold_lines`
wipes glass and map in mid colour. The program keeps its own account of the
palette (`expected`), which the driver's index and phase never see.

**Keyboard** is `prom_keyboard_r`, the two phases of `gets()`, and a reset
that keeps the count of polls (`left_over` remembers that it did).
**StubImage** is the run encoder and the copy at machine start.

**TaskSwitch** is the patched switch, one action per group of accesses
(`ClearBusy`, `SaveState`, `LoadTaskRegister`, `LoadLdt`, `LoadState`,
`LoadSegments`, `WriteLink`, `LoadCr3`, `SetBusy`, `FinishSwitch`), each of which
may fault, and the IRET paths of fix 2. A page is a task's segment, the GDT or
the LDT. The descriptors of the LDT and of the segments are read by the core
outside the patched lines, and are taken to be read as the supervisor.
`AccessRing` is the argument the patch adds; `mapped`, what the directories map,
is chosen at the start from the constant `Mappings`.

**SerialDriver** is `console.py` against a machine that echoes, asks, prints
and halts at its own pace; a word of `text` stands for a string, and an echo
contains what was typed. A limit is looked at before the text, as the loop of
`wait` does, and may strike with the awaited word already read.

**BarVolumes** is `barx.py` on archives cut into volumes; a *unit* stands for
256 bytes (a block is two), so that every position of a seam relative to
header, data and padding occurs. The volumes are computed from the archive
(`Stream`, `Filled`, `Volumes`); a place on the disk is a path with the endings
`.file` and `.Z` it was given. `parses` says of an entry whether `parse_header`
accepts its header: a name that is empty, a number that is no octal one (65-74)
make it pass the header over, and the data after it block by block. Two
assumptions: no block of data looks like a header, and no name of an archive
ends in `.file` or `.Z`.

## What the runs check, and the bounds

| run | question |
|---|---|
| `DmaChain_pages` | diskette and SCSI transfers interleaved, with the bus held and given back and a reset at any step, the bank in either mode: the inductive invariant and four that follow from it; the processor always goes on; both transfers implement `DiskTransfer`, so every page's interrupt is served, but for a channel overtaken in edge mode |
| `FdcCommand_kernel` | the inductive invariant; driver and controller agree where each of a diskette driver's commands starts and a read is counted by its own bytes, but for a command that a reset has parted them in |
| `Icu_serial` | banks are as programmed, vectors come from programmed banks, a device that asks is served unless masked, overtaken or silenced by the partner on its pin |
| `Boot_load` | the inductive invariant; loads start what was loaded, reboots put back what ran, the kernel's open of the keyboard gets carrier |
| `Boot_reboot` | (violation) after a reboot the kernel runs again |
| `Console_colour` | the frame buffer shows the terminal, and every pixel is that of the glyph, black on white; the palette is what was programmed, over resets in mid colour; no map entry shadows another and the devices answer at the 52 places where they are looked for |
| `Keyboard_typing` | no key is thrown away unless polls from before a reset are still counted; a wait ends |
| `StubImage_roundtrip` | all 512 images of nine bytes come back |
| `TaskSwitch_window` | switches complete where pages are mapped, a task resumes in the context it left, none is lost to a fault, virtual 8086 mode is ring 3 |
| `SerialDriver_session` | a prompt is taken for its own command's only; nothing is typed past the shell; sessions end |
| `SerialDriver_halt` | (violation) a session that ends well ends in a halted machine |
| `BarVolumes_set` | seams between volumes, collisions of names and refused headers lose nothing else, and the extraction ends |

Why the bounds are enough. *DMA*: a transfer of up to three bytes in pages of
one byte or two has one, two or three pages, so a first, a middle and a last one
of different lengths; one or two sectors of one byte or two give a command of
one, two or four bytes, and of twice that with both sides, which goes on past a
shorter transfer or ends with it; two channels are all the driver wires. The
safety half is proved for every size. *FdcCommand* has unbounded command
sequences; after a reset a parameter may be taken for an opcode, so parameters
include a read and a command of one byte. *Icu* has both serial chips on one
request and a device on another bank, in level mode (edge mode is the other
value of `LevelTriggered`, and the theorems are for both); every reset point is
reached because the state space is finite and closed. *Boot*: five requests are
enough for load, refused load, reboot, trap and reset in one run. *Console*:
three rows and two columns wrap, scroll and keep a middle row; two lines and two
bytes per cell tell every offset error apart, and two glyphs that no mirror,
swap of lines or inversion leaves as they are tell every pixel apart; the run
has the colour board, the theorems both. A palette of two entries has a run of
colours that crosses from one to the next and over the end of the map, and both
entries are the console's; the address maps are whole. *Keyboard*: eight polls
stand for 400; what matters is more than the drain's two. *StubImage*: gaps
below, at and above three erased bytes occur at the start, in the middle and at
the end of nine. *TaskSwitch*: the kernel, the emulator and its virtual task are
the three of the DOS window; two register values tell two contexts apart; the
directories map everything, or lack one page (each in turn, in either
directory), or have many gaps, so that a switch completes or faults at whichever
access first needs a page. *SerialDriver*: two commands let the prompt of one be
mistaken for the other's. *BarVolumes*: volumes of one, two and four data blocks
against three entries put a seam at every boundary, and one of the entries to
choose from has a header that is refused.

Deadlock is checked except in the runs whose system really stops: a halted
machine (`Boot`), a finished session, extraction or image, and a faulted
switch (`TaskSwitch`).

## Fairness

`DmaChain`: weak fairness of each device's byte and end, of the controllers'
requests for the bus and of the kernel's straight-line code; strong fairness of
taking a pending interrupt and of giving the command, because the base level may
disable interrupts, and the handler may run, again and again in between. Nothing
makes the kernel ask for transfers, a device fail or the machine reset. `Icu`: a
bank's output follows its requests in the end, the processor acknowledges a line
that stays up, and a handler ends; nothing makes a device ask or stop asking.
`Boot`: the emulator carries out a reset it has scheduled, the processor then
runs, and the kernel goes on to open its console. `Keyboard`: `gets()` goes on
polling and time passes. `SerialDriver`: machine and script both go on; the
limits may or may not strike. `BarVolumes`: one sequential program.

## What is proved

Every theorem is for all values of the constants under the named `ASSUME`s.

* **DmaChainProofs.** `ChainInv` is inductive. `NotCutShort` is not by itself: that
  a terminal count comes with all bytes moved depends on who is armed when. The
  strengthening says, per channel: bytes moved and in hand are the bytes loaded
  (`Accounting`); between two register writes the loaded page is still there
  (`PageInHand`); a set bit with nothing loaded since means an empty channel
  (`Emptied`); a disarmed channel at rest has all its pages (`ArmedUntilLast`);
  a transfer of one page never meets the handler (`OnePage`); and for the
  diskette that the count of a read, which the command's sectors and size code
  gave it, runs out no later than the sectors do (`TrackCounted`) and a terminal
  count comes when all has moved (`TerminatedAtEnd`). From it:
  `TypeCorrect`, `LineCorrect`, `NeverCutShort`, `ReadsEndInTime`,
  `OnePageIsQuiet`, `NoneStranded` (in either mode an emptied channel is pending,
  being served or overtaken, and in level mode none is overtaken) and
  `ChannelsRefine`: each channel, whoever owns it and however many there are,
  implements the safety half of `DiskTransfer` (`FloppyRefines` is the case of
  the diskette). A reset is why `LineFollowsDmaint` and `Emptied` speak of
  transfers under way only: a bit it leaves behind is set with the line down
  and, if it struck between a load and its disarm, with the base registers
  written.
* **FdcCommandProofs.** The parser stays in its nine bytes whatever it is fed.
  If the commands exclude read track and 0x1d, the two parsers hold the same
  bytes unless a reset has parted them (`ParsersInv`: `Together`,
  `ControllerWaits`), whence
  `StaysSynchronised` and `CountsItsOwn`; resets may come after any byte.
* **IcuProofs.** `BanksAreProgrammed`: `InSequence` relates the driver's count,
  the bank's and the kernel's, and every step but a reset of the bank at hand
  keeps it. `VectorsAreProgrammed` needs it, and that the processor's line is
  never up without a bank's output, though a reset clears the one and not the
  other: so the bank that answers is programmed, and what it answers is one of
  its requests or 7.
* **BootProofs.** `BootInv` is inductive. `LoadStartsProgram` is a statement
  about the stub's jump; the strengthening carries what the loader wrote through
  reset, devices and timer to it (`ReadyToStart`), and what runs is the driver's
  copy until another file is read (`StillThere`), for `RebootPutsBack`.
  The module also has the PROM image: `RoundTrip`, for any image, size and gap,
  by the invariant that runs hold the image and the copy holds the runs so far
  (`ImageInvariance`).
* **ScreenProofs.** *The maps*: the 59 declarations fall into groups that the
  page of the address separates, and within a group the intervals are apart or
  the kinds of access are (`NoOverlap`): `NothingShadowed`. What no other entry
  covers answers at its place whatever the order of declaration (`Sole`):
  `DevicesAtTheirPlaces`. *The palette*: palette and program agree on entry and
  phase from the first index on (`ScreenInv`), so the map is what was given
  (`PaletteIsProgrammed`); that the registers answer at their addresses is used,
  not assumed. *The glass*, of
  any size: the cursor never leaves it, and `ScreenIsTerminal` is the whole
  refinement of `Terminal`. An address is written in digits of four radixes
  (row, line, column, byte of the cell) and has one such form (`Digits`); so a
  glyph changes the bytes of its own cell only (`OneByteOneCell`), a scroll
  moves every byte by one row (`RowBelow`), and what `Terminal` reads back
  changes as its own step says. *Both together* give `ConsoleIsLegible`: the cells
  are whole glyphs, and pixel by pixel the palette, or the bits of the monochrome
  board, make them the font's ink in black on white.
* **TypingProofs.** For `console.py`, `ScriptInvariant`: at each of the script's
  points, what it has read and what is still on the wire are together what the
  machine has printed since the mark, and a prompt is the last word of it. From
  that: no command is reported as done before it is (`NeverRunsAhead`) and
  none is typed to a machine that does not wait for one (`TypesToShell`), for
  any number of commands, any output, reads of any size and any limit striking.
  For the canned keyboard, `DrainTakesNothing`: outside the wait no empty poll
  has been counted since the last reset that found some (`CountInv`).
* **BarVolumesProofs.** For any archive, block size and capacity of the volumes.
  The data areas of the volumes laid end to end are the archive and zeros after
  it, and `ExtractInv` says that what is being read is what lies there from the start
  of an entry, of its data or of its padding. Two lemmas carry the weight: where
  each piece of an archive lies (`Layout`, from what `FlattenSeq` does when one
  piece more is appended, `FlattenSeqAppend`) and in which volume and at which
  offset (`MediumUnits`). On the disk, a file that was moved aside has a
  directory in its place, so that nothing overwrites it (`DiskInStep`,
  `StoreHolds`, `EnsureDirHolds`). Hence `SeamsVanish` (what is on the disk is
  whole and nothing else is), `EverythingKept` and `NeverRaises`.
  `EverythingKept` has a hypothesis, `NamesApart`: no two names differ by
  leading dots and slashes only. It is needed, for `barx.py` writes such files
  to one place. An entry whose header is refused is not promised, and costs no other
  entry anything.
* **TaskSwitchProofs.** `SwitchIsWhole` (under `AllMapped`), `VirtualIsRing3`
  and `OuterRingsSwitch`, for any set of tasks and rings. A second invariant,
  `SwitchInv`, says at every step of a switch who is busy (`BusyBits`), whose
  context is where (`Contexts`) and that the target neither runs nor waits
  (`Who`): `TasksResume` (a switch that completes resumes exactly what was left),
  `BusyBitsAreRight`, `OutgoingSurvives`.

Every invariant that a run checks is thus a theorem, and so is every action
property. *Only model-checked*: `ProcessorResumes`, `Heard`, `WaitEnds`,
`ExtractEnds`, `SessionEnds`, `KeyboardOpens` and the progress half of
`DiskTransfer` in `FloppyTransfer` and `ScsiTransfer`. They rest on fairness,
which is defined by `ENABLED`, and that is out of the prover's reach.

Induction over data needs a remark. The library's induction theorems take a
predicate as a parameter, which the provers at hand do not instantiate.
`BarVolumesProofs` therefore proves induction for a *set* of numbers, from its
least element outside (`LeastElement`, `Induction`), and applies it to the set
of the numbers for which the claim holds. No module with theorems uses a
`RECURSIVE` operator.

## Where the code and its documents part

Two runs expect a violation, each of one property that restates a line of the
repository; `findings` quotes it.

* `Boot_reboot`: a reboot clears the three words it starts from with the rest of
  memory (`place_kernel`, 665), so the kernel is put back and never entered.
* `SerialDriver_halt`: the wait for `halt` (`console.py`, 240) finds the echo of
  the command it has just typed, and the emulator is stopped before the halt.

Others were met while modelling. The models take them as the code does, and the
properties that hold are stated around them:

* a file the loader refuses has already replaced the copy of the kernel that a
  reboot restores (699);
* exception 1 of a standalone program is taken for a reboot, because one port
  carries both (835);
* read track and 0x1d are missing from the table of command lengths (362-380);
  `FdcCommand` has the controller's length for them, and the theorems exclude
  them by assumption;
* a reset of the controller in mid command leaves the driver's parser where it
  was (394), and the driver counts for another command until both begin one
  together; `Synchronised` and `CountIsOfCommand` except exactly that;
* both DMA controllers drive one HALT line (403, 500), so the processor runs
  while the other still holds the bus; the models let it, and what is checked is
  that it never stands still for good (`ProcessorResumes`) and that the transfers
  are carried out all the same;
* one interrupt line for two channel groups (269, 418) loses a page's end if the
  bank is edge-triggered and the line is up for the other group; `NeverStranded`
  and the transfers' progress except exactly that (`overtaken`);
* the length of a read ignores the multi-track bit (461), so a read over both
  sides is ended with the first; `KernelStaysOnSide` is the assumption that the
  kernel asks for none;
* both serial chips drive one request pin with no merger (1003, 1017), where
  `docs/hardware-map.md` (134-135) has them share it: the fall of one takes the
  other's request with it; `Heard` excepts exactly that (`Silenced`);
* a diskette image is loaded over 0x80000 (707-708), where the stub then writes
  the page tables the loader itself has asked for there (711);
* `barx.py` passes over an entry whose header it cannot parse, and all of its
  data, without a word (65-74, 99-101); `NothingLost` speaks of the others;
* the count of empty polls survives a reset (578), and the next drain may throw
  a key away; `NothingSwallowed` excepts exactly that;
* `barx.py` writes `.rc` and `rc` to one file (109); `NothingLost` is checked on
  sets in which no two names differ by leading dots only, and `EverythingKept`
  proves it under that hypothesis (`NamesApart`);
* `ffs.py` shifts a file whose indirect block is a hole (55, 59, 63).

## Not modelled

* `ffs.py` and `coff.py`: readers without state of their own, run over one image
  at a time. Nothing in them interleaves, waits or is retried; what could be
  wrong is arithmetic on one inode or one table.
* The 286 task switch, which differs from the 386 one only in the place of the
  back link and in having no cr3; the x87 calls of the patch.
* The boot parameter block, NVRAM and console switch that `machine_reset`
  writes: constants of a run.
* Latches that are read back or constant (`m_enable`, `m_led`, `m_cgctrl`,
  slots, IDPROM); `m_fdfirst`, `m_fdlast` and `m_fddma`, which nothing reads but
  themselves, and `m_conline`, which only the log does; the page registers 0x81
  and 0x8a, which choose the address of a byte and nothing else.
* MAME's own devices (timers, SCSI, timekeeper, serial chips) beyond what the
  driver sees of them; the font, the label printer, the scripts that only start
  programs; `setup()`, `start()` and the ready marker of `console.py`.
* Saved states: `machine_start` registers three of the driver's variables with
  MAME, and what a restored state would lack is not part of any model.

## Plan

Done, in this order: DmaChain with DiskTransfer and its proofs, FdcCommand, Icu,
Boot, Console, Keyboard, StubImage, TaskSwitch, SerialDriver, BarVolumes; then
the resets of DmaChain and FdcCommand, the bus hold, AddressMap and Screen, and
the proofs of Boot, Screen, Keyboard and the rest of Icu and TaskSwitch; then
the proofs of SerialDriver, of the address maps, of `Terminal`'s refinement, of
`DiskTransfer` for every channel, and of BarVolumes.
Possible next steps:

1. the composition of `DmaChain`, whose commands set the count of a read in one
   step, with `FdcCommand`, which follows them byte by byte;
2. an abstract specification of a task switch that the 386 and the 286 one both
   implement;
3. `blocks` of `ffs.py` against the file it must return, and the loader's
   section loop against `read_va` of `coff.py`.
