----------------------------- MODULE AddressMap -----------------------------
(***************************************************************************)
(* Who answers the processor: the memory map, the port map and the decoder *)
(* of the AT block of src/driver/sun386i.cpp, entry by entry in the order  *)
(* of the source.  Where two entries of a map cover the same byte the one  *)
(* declared later wins, and nothing says so: a catch-all range over a      *)
(* device silently takes its accesses.  In the AT block the first test     *)
(* that holds wins.                                                        *)
(*                                                                         *)
(* An address is <<high, low>>, its two 16-bit halves.  An entry covers    *)
(* the bytes of its range on the lanes its umask32 leaves (the low two     *)
(* bits of the address), for reads, writes or both.                        *)
(***************************************************************************)
EXTENDS Integers, Sequences, FiniteSets, FiniteSetsExt

AllLanes == 0..3
Entry(from, to, dirs, lanes, who) ==
  [from |-> from, to |-> to, dirs |-> dirs, lanes |-> lanes, who |-> who]

(* The forms the driver uses: whole ranges, and byte registers on lane 0. *)
Both(from, to, who)   == Entry(from, to, {"r", "w"}, AllLanes, who)
Reads(from, to, who)  == Entry(from, to, {"r"}, AllLanes, who)
Writes(from, to, who) == Entry(from, to, {"w"}, AllLanes, who)
Port(at, dirs, who)   == Entry(at, <<at[1], at[2] + 3>>, dirs, {0}, who)
-----------------------------------------------------------------------------
BoardRegisters == <<
  Both(<<\h0000, \h0000>>, <<\h007f, \hffff>>, "ram"),
  Both(<<\ha000, \h0000>>, <<\ha000, \h000f>>, "stub"),
  Writes(<<\ha000, \h0010>>, <<\ha000, \h0013>>, "cg3_index"),
  Writes(<<\ha000, \h0014>>, <<\ha000, \h0017>>, "cg3_colour"),
  Writes(<<\ha000, \h0018>>, <<\ha000, \h001b>>, "cg3_control"),
  Both(<<\ha000, \h001c>>, <<\ha000, \h001f>>, "stub"),
  Port(<<\ha000, \h0020>>, {"r", "w"}, "zs1_B_control"),
  Port(<<\ha000, \h0024>>, {"r", "w"}, "zs1_B_data"),
  Port(<<\ha000, \h0028>>, {"r", "w"}, "zs1_A_control"),
  Port(<<\ha000, \h002c>>, {"r", "w"}, "zs1_A_data"),
  Both(<<\ha000, \h0030>>, <<\ha01f, \hffff>>, "stub") >>

(* (Mutation: one catch-all for the rest of the board, after the frame       *)
(* buffers - the mistake the comment in mem_map tells of.)                   *)
FrameBuffers_CatchAllOver == <<
  Both(<<\ha020, \h0000>>, <<\ha021, \hffff>>, "vram"),
  Both(<<\ha024, \h0000>>, <<\ha024, \h1fff>>, "ram"),
  Both(<<\ha040, \h0000>>, <<\ha04f, \hffff>>, "cvram"),
  Both(<<\ha024, \h2000>>, <<\ha07f, \hffff>>, "stub") >>

FrameBuffers == <<
  Both(<<\ha020, \h0000>>, <<\ha021, \hffff>>, "vram"),
  Both(<<\ha024, \h0000>>, <<\ha024, \h1fff>>, "ram"),
  Both(<<\ha024, \h2000>>, <<\ha03f, \hffff>>, "stub"),
  Both(<<\ha050, \h0000>>, <<\ha07f, \hffff>>, "stub"),
  Both(<<\ha040, \h0000>>, <<\ha04f, \hffff>>, "cvram") >>

Slots == <<
  Both(<<\hb000, \h0000>>, <<\hb000, \h00ff>>, "AT_block"),
  Both(<<\hc000, \h0000>>, <<\hc001, \hffff>>, "stub"),
  Both(<<\hd000, \h0000>>, <<\hd000, \hffff>>, "stub"),
  Reads(<<\hf000, \h0000>>, <<\hf000, \h0fff>>, "slot"),
  Reads(<<\hf200, \h0000>>, <<\hf200, \h0fff>>, "slot"),
  Reads(<<\hf400, \h0000>>, <<\hf400, \h0fff>>, "slot"),
  Reads(<<\hf600, \h0000>>, <<\hf600, \h0fff>>, "slot"),
  Port(<<\hf700, \h0000>>, {"r"}, "board_id"),
  Both(<<\hf800, \h0000>>, <<\hf800, \h0001>>, "enable"),
  Writes(<<\hf900, \h0000>>, <<\hf900, \h0000>>, "led") >>

(* (Mutation: channel A of the serial chip in front, the mistake that costs  *)
(* the console.)                                                             *)
OnBoard_ChannelsSwapped == <<
  Port(<<\hfb00, \h0000>>, {"r"}, "wds_status"),
  Port(<<\hfb00, \h0000>>, {"w"}, "wds_address"),
  Port(<<\hfb00, \h0004>>, {"r", "w"}, "wds_register"),
  Both(<<\hfb00, \h0008>>, <<\hfb00, \h0fff>>, "stub"),
  Port(<<\hfc00, \h0000>>, {"r", "w"}, "zs0_A_control"),
  Port(<<\hfc00, \h0004>>, {"r", "w"}, "zs0_A_data"),
  Port(<<\hfc00, \h0008>>, {"r", "w"}, "zs0_B_control"),
  Port(<<\hfc00, \h000c>>, {"r", "w"}, "zs0_B_data"),
  Both(<<\hfd00, \h0000>>, <<\hfd00, \h07ff>>, "timekeeper"),
  Reads(<<\hfe00, \h0000>>, <<\hfe00, \h001f>>, "idprom"),
  Reads(<<\hfffe, \h0000>>, <<\hffff, \hffff>>, "prom") >>

OnBoard == <<
  Port(<<\hfb00, \h0000>>, {"r"}, "wds_status"),
  Port(<<\hfb00, \h0000>>, {"w"}, "wds_address"),
  Port(<<\hfb00, \h0004>>, {"r", "w"}, "wds_register"),
  Both(<<\hfb00, \h0008>>, <<\hfb00, \h0fff>>, "stub"),
  Port(<<\hfc00, \h0000>>, {"r", "w"}, "zs0_B_control"),
  Port(<<\hfc00, \h0004>>, {"r", "w"}, "zs0_B_data"),
  Port(<<\hfc00, \h0008>>, {"r", "w"}, "zs0_A_control"),
  Port(<<\hfc00, \h000c>>, {"r", "w"}, "zs0_A_data"),
  Both(<<\hfd00, \h0000>>, <<\hfd00, \h07ff>>, "timekeeper"),
  Reads(<<\hfe00, \h0000>>, <<\hfe00, \h001f>>, "idprom"),
  Reads(<<\hfffe, \h0000>>, <<\hffff, \hffff>>, "prom") >>

mem_map == BoardRegisters \o FrameBuffers \o Slots \o OnBoard

(* The diskette controller has four byte registers in one word, each with    *)
(* handlers of its own for reading and writing.                              *)
Lane(l, dirs, who) == Entry(<<0, \h03f4>>, <<0, \h03f7>>, dirs, {l}, who)
io_map == <<
  Writes(<<0, \h0378>>, <<0, \h037b>>, "nop"),
  Port(<<0, \h8000>>, {"w"}, "console"),
  Port(<<0, \h8010>>, {"r"}, "keyboard"),
  Port(<<0, \h8014>>, {"r"}, "keyboard"),
  Writes(<<0, \h8004>>, <<0, \h8007>>, "trap_vector"),
  Writes(<<0, \h8008>>, <<0, \h800b>>, "trap_word"),
  Writes(<<0, \h800c>>, <<0, \h800f>>, "trap_cr2"),
  Entry(<<0, \h03f0>>, <<0, \h03f3>>, {"w"}, {2}, "fdc_dor"),
  Lane(0, {"r"}, "fdc_msr"), Lane(0, {"w"}, "fdc_dsr"),
  Lane(1, {"r", "w"}, "fdc_fifo"),
  Lane(3, {"r"}, "fdc_dir"), Lane(3, {"w"}, "fdc_ccr") >>

(* The AT block, an offset of one byte: what no test takes is memory, where  *)
(* the DMA's page registers are.                                             *)
Offsets(from, to, who) == Both(<<0, from>>, <<0, to>>, who)
atblock == <<
  Offsets(\h00, \h0f, "dma_0"), Offsets(\h20, \h21, "bank_0"), Offsets(\h30, \h31, "bank_1"),
  Offsets(\h40, \h43, "pit"), Offsets(\h44, \h47, "pit3"), Offsets(\ha0, \ha1, "bank_2"),
  Offsets(\hc0, \hcf, "dma_1"), Offsets(\h19, \h19, "chaining_0"),
  Offsets(\hd9, \hd9, "chaining_1") >>

(* All of them, in the order they are declared.                              *)
In(space, entries) == [i \in DOMAIN entries |-> [space |-> space, range |-> entries[i]]]
map == In("mem", mem_map) \o In("io", io_map) \o In("at", atblock)
-----------------------------------------------------------------------------
Leq(a, b) == a[1] < b[1] \/ (a[1] = b[1] /\ a[2] <= b[2])

(* Two entries that name the same byte for the same kind of access.          *)
Overlap(i, j) ==
  LET e == map[i].range
      f == map[j].range
  IN  /\ map[i].space = map[j].space
      /\ Leq(e.from, f.to) /\ Leq(f.from, e.to)
      /\ e.lanes \cap f.lanes # {} /\ e.dirs \cap f.dirs # {}

Covers(e, a, dir) == /\ Leq(e.from, a) /\ Leq(a, e.to)
                     /\ a[2] % 4 \in e.lanes /\ dir \in e.dirs

(* Who answers an access to the byte a. *)
Answers(space, a, dir) ==
  LET covering == {i \in DOMAIN map : map[i].space = space /\ Covers(map[i].range, a, dir)}
  IN  IF covering = {} THEN "nobody"
      ELSE map[IF space = "at" THEN Min(covering) ELSE Max(covering)].range.who

(* The registers the palette is programmed through.                          *)
Cg3Index  == <<\ha000, \h10>>
Cg3Colour == <<\ha000, \h14>>

(* Where the kernel's own tables look for its devices, and how it reaches    *)
(* for them, the stub its ports too: the ends of memory and of both pictures *)
(* (1152 by 900), the slots, the Weitek and the Ethernet, which only         *)
(* have a placeholder, and the ports of the diskette controller by direction *)
(* (docs/hardware-map.md, docs/findings.md and the comments of atblock_r,    *)
(* dma_tc_w and sun386i).                                                    *)
InMemory ==
  { <<"mem", <<0, 0>>, "r", "ram">>,      <<"mem", <<\h007f, \hffff>>, "w", "ram">>,
    <<"mem", Cg3Index, "w", "cg3_index">>, <<"mem", Cg3Colour, "w", "cg3_colour">>,
    <<"mem", <<\ha000, \h20>>, "r", "zs1_B_control">>, <<"mem", <<\ha000, \h24>>, "r", "zs1_B_data">>,
    <<"mem", <<\ha000, \h28>>, "r", "zs1_A_control">>, <<"mem", <<\ha000, \h2c>>, "r", "zs1_A_data">>,
    <<"mem", <<\ha020, 0>>, "w", "vram">>, <<"mem", <<\ha021, \hfa3f>>, "w", "vram">>,
    <<"mem", <<\ha040, 0>>, "w", "cvram">>, <<"mem", <<\ha04f, \hd1ff>>, "w", "cvram">>,
    <<"mem", <<\hb000, 0>>, "w", "AT_block">>, <<"mem", <<\hc000, 0>>, "w", "stub">>,
    <<"mem", <<\hd000, 0>>, "w", "stub">>, <<"mem", <<\hf000, 0>>, "r", "slot">>,
    <<"mem", <<\hf600, 0>>, "r", "slot">>, <<"mem", <<\hf700, 0>>, "r", "board_id">>,
    <<"mem", <<\hf800, 0>>, "r", "enable">>, <<"mem", <<\hf900, 0>>, "w", "led">>,
    <<"mem", <<\hfb00, 0>>, "r", "wds_status">>, <<"mem", <<\hfb00, 0>>, "w", "wds_address">>,
    <<"mem", <<\hfb00, 4>>, "w", "wds_register">>, <<"mem", <<\hfc00, 0>>, "r", "zs0_B_control">>,
    <<"mem", <<\hfc00, 4>>, "r", "zs0_B_data">>, <<"mem", <<\hfc00, 8>>, "r", "zs0_A_control">>,
    <<"mem", <<\hfc00, 12>>, "r", "zs0_A_data">>, <<"mem", <<\hfd00, 0>>, "r", "timekeeper">>,
    <<"mem", <<\hfe00, 0>>, "r", "idprom">>, <<"mem", <<\hfffe, 0>>, "r", "prom">> }

AtPorts ==
  { <<"io", <<0, \h378>>, "w", "nop">>,   <<"io", <<0, \h8000>>, "w", "console">>,
    <<"io", <<0, \h8004>>, "w", "trap_vector">>, <<"io", <<0, \h8010>>, "r", "keyboard">>,
    <<"io", <<0, \h3f2>>, "w", "fdc_dor">>, <<"io", <<0, \h3f4>>, "r", "fdc_msr">>,
    <<"io", <<0, \h3f4>>, "w", "fdc_dsr">>, <<"io", <<0, \h3f5>>, "r", "fdc_fifo">>,
    <<"io", <<0, \h3f5>>, "w", "fdc_fifo">>, <<"io", <<0, \h3f7>>, "r", "fdc_dir">>,
    <<"io", <<0, \h3f7>>, "w", "fdc_ccr">> }

InBlock ==
  { <<"at", <<0, \h00>>, "w", "dma_0">>,  <<"at", <<0, \h20>>, "w", "bank_0">>,
    <<"at", <<0, \h30>>, "w", "bank_1">>, <<"at", <<0, \ha0>>, "w", "bank_2">>,
    <<"at", <<0, \h40>>, "w", "pit">>,    <<"at", <<0, \h44>>, "w", "pit3">>,
    <<"at", <<0, \h47>>, "w", "pit3">>,   <<"at", <<0, \hc6>>, "w", "dma_1">>,
    <<"at", <<0, \hc7>>, "w", "dma_1">>,  <<"at", <<0, \h19>>, "r", "chaining_0">>,
    <<"at", <<0, \hd9>>, "r", "chaining_1">> }

Documented == InMemory \cup AtPorts \cup InBlock

(* The devices that do not answer there. *)
Misplaced == {d \in Documented : Answers(d[1], d[2], d[3]) # d[4]}
=============================================================================
