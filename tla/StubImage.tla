------------------------------ MODULE StubImage -----------------------------
(***************************************************************************)
(* The stub PROM on its way into the machine: gen_stub.py writes it into   *)
(* sun386i_prom.hxx as runs of bytes, leaving out the stretches of 0xff,   *)
(* and machine_start fills the PROM with 0xff and copies the runs back.    *)
(***************************************************************************)
EXTENDS Naturals, Sequences

CONSTANTS Size,   \* bytes of the PROM (0x20000)
          Gap,    \* how many 0xff in a row end a run (8)
          Byte,   \* the values of a byte
          FF      \* the value of an erased byte

ASSUME ImageAssumption == Size \in Nat /\ Gap \in Nat \ {0} /\ FF \in Byte

Address == 0..Size-1

VARIABLES rom,     \* the image gen_stub.py has built
          i, j,    \* the start of the run at hand, and how far it has got
          runs,    \* s_prom_runs
          prom,    \* the PROM region of the machine
          k,       \* the run machine_start copies next
          phase    \* "seek", "run": the encoder; "load", "done": the machine

encoder == <<rom, i, j, runs, prom, k, phase>>

Data == UNION {[0..n-1 -> Byte] : n \in 0..Size}
Run == [offset : Address, size : 0..Size, data : Data]

ImageTypeOK ==
  /\ rom \in [Address -> Byte] /\ prom \in [Address -> Byte]
  /\ i \in 0..Size /\ j \in 0..Size
  /\ runs \in Seq(Run)
  /\ k \in 1..Len(runs)+1
  /\ phase \in {"seek", "run", "load", "done"}

ImageInit ==
  /\ rom \in [Address -> Byte]
  /\ i = 0 /\ j = 0 /\ runs = <<>> /\ k = 1 /\ phase = "seek"
  /\ prom = [a \in Address |-> FF]

Seek ==
  /\ phase = "seek" /\ i < Size /\ rom[i] = FF
  /\ i' = i + 1
  /\ UNCHANGED <<rom, j, runs, prom, k, phase>>

StartRun ==
  /\ phase = "seek" /\ i < Size /\ rom[i] # FF
  /\ j' = i /\ phase' = "run"
  /\ UNCHANGED <<rom, i, runs, prom, k>>

(* A run ends before Gap erased bytes.  Near the end of the image fewer are  *)
(* left, and the slice is never equal to Gap of them.                        *)
GapAt(a) == a + Gap <= Size /\ \A n \in 0..Gap-1 : rom[a + n] = FF

ExtendRun ==
  /\ phase = "run" /\ j < Size /\ ~GapAt(j)
  /\ j' = j + 1
  /\ UNCHANGED <<rom, i, runs, prom, k, phase>>

(* (Mutation: the last byte of a run is left out.)                           *)
RunOf_OneShort(a, b) == [offset |-> a, size |-> b - a - 1, data |-> [n \in 0..b-a-2 |-> rom[a + n]]]

RunOf(a, b) == [offset |-> a, size |-> b - a, data |-> [n \in 0..b-a-1 |-> rom[a + n]]]

NextSeek == i' = j

EndRun ==
  /\ phase = "run" /\ (j >= Size \/ GapAt(j))
  /\ runs' = Append(runs, RunOf(i, j))
  /\ NextSeek /\ phase' = "seek"
  /\ UNCHANGED <<rom, j, prom, k>>

(* The machine is built with the runs; machine_start erases its PROM ...     *)
StartMachine ==
  /\ phase = "seek" /\ i >= Size
  /\ prom' = [a \in Address |-> FF] /\ k' = 1 /\ phase' = "load"
  /\ UNCHANGED <<rom, i, j, runs>>

Within(a, r) == r.offset <= a /\ a < r.offset + r.size

(* ... and copies one run after the other. *)
CopyRun ==
  /\ phase = "load" /\ k <= Len(runs)
  /\ prom' = [a \in Address |-> IF Within(a, runs[k]) THEN runs[k].data[a - runs[k].offset]
                                                      ELSE prom[a]]
  /\ k' = k + 1
  /\ UNCHANGED <<rom, i, j, runs, phase>>

Loaded ==
  /\ phase = "load" /\ k > Len(runs)
  /\ phase' = "done"
  /\ UNCHANGED <<rom, i, j, runs, prom, k>>

ImageNext == Seek \/ StartRun \/ ExtendRun \/ EndRun \/ StartMachine \/ CopyRun \/ Loaded

ImageSpec == ImageInit /\ [][ImageNext]_encoder

-----------------------------------------------------------------------------
(* What the machine has in its PROM is what gen_stub.py built, byte for      *)
(* byte, wherever the erased stretches lie (the run loop at the end of       *)
(* gen_stub.py and the copy in machine_start).                               *)
LoadedAsBuilt == phase = "done" => prom = rom

(* Every byte the search has passed is erased or in a run, and the runs hold *)
(* what is in the image.                                                     *)
RunsHoldImage ==
  /\ \A n \in 1..Len(runs) : \A b \in 0..runs[n].size-1 :
       runs[n].offset + b < Size /\ runs[n].data[b] = rom[runs[n].offset + b]
  /\ \A a \in 0..i-1 : rom[a] # FF => \E n \in 1..Len(runs) : Within(a, runs[n])

(* The machine's copy holds the image, as far as it has been copied. *)
CopyHoldsImage ==
  /\ \A a \in Address : prom[a] \in {FF, rom[a]}
  /\ \A n \in 1..k-1 : \A a \in Address : Within(a, runs[n]) => prom[a] = rom[a]

(* Where the search and the copy are when. *)
PhaseInStep ==
  /\ phase = "run" => i < Size /\ i <= j
  /\ phase \in {"seek", "run"} => k = 1
  /\ phase \in {"load", "done"} => i = Size
  /\ phase = "done" => k = Len(runs) + 1

(* All of it together is what every step keeps. *)
ImageInvariant == ImageTypeOK /\ RunsHoldImage /\ CopyHoldsImage /\ PhaseInStep
=============================================================================
