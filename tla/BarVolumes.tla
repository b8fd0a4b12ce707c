----------------------------- MODULE BarVolumes -----------------------------
(***************************************************************************)
(* src/tools/barx.py: the extraction of a set of Sun "bar" diskettes.  An  *)
(* archive is cut into volumes wherever a diskette is full, each volume    *)
(* starts with a header block of its own, and VolumeSet.read has to make   *)
(* the seams vanish.  The files go to a disk where one name can be asked   *)
(* for both as a file and as a directory.                                  *)
(*                                                                         *)
(* A block is BS units; what a unit holds is told apart only by whose it   *)
(* is: a volume header, an entry's header, the k-th unit of an entry's     *)
(* data, or filler.                                                        *)
(***************************************************************************)
EXTENDS Integers, Sequences, FiniteSets, SequencesExt, FiniteSetsExt

CONSTANTS BS,          \* units in a block
          Entries,     \* what may be archived: [name, dir, size, pack, parses]
          MaxEntries,  \* bound: entries in an archive
          Caps,        \* bound: blocks on a volume, its header included
          NoEntry, Directory

(* The kinds of units, the entries of an archive, and what a file on the   *)
(* disk holds.  A name is its path with the leading dots and slashes gone, *)
(* never empty ("_root" stands for the empty one), and whether it had a    *)
(* dot.  An entry whose header parse_header refuses does not parse.  Two   *)
(* things are assumed of an archive: no name in it ends in ".file" or      *)
(* ".Z", and no block of data looks like a header.                         *)
Unit     == ({"head", "data"} \X Nat \X Nat) \cup {<<"zero">>, <<"volume">>}
Name     == [path : Seq(STRING) \ {<<>>}, dot : BOOLEAN]
Entry    == [name : Name, dir : BOOLEAN, size : Nat, pack : {"raw", "Z", "bad"},
             parses : BOOLEAN]
FileData == [data : Seq(Unit), unpacked : BOOLEAN]

ASSUME BarAssumption == /\ BS \in Nat \ {0} /\ MaxEntries \in Nat
                        /\ Caps \subseteq Nat \ {0, 1}
                        /\ Entries \subseteq Entry
                        /\ NoEntry # Directory
                        /\ NoEntry \notin FileData /\ Directory \notin FileData

VARIABLES archive,   \* the entries, in order; fixed
          vols,      \* the images, each a sequence of units; fixed
          cur, pos,  \* VolumeSet.cur and pos, counted from 0
          want, out, \* VolumeSet.read: what is left to read, what was read
          stage,     \* where extract is
          entry,     \* h, as the index of the entry (0: none)
          data,
          disk       \* what is at each place below outdir

vars == <<archive, vols, cur, pos, want, out, stage, entry, data, disk>>
-----------------------------------------------------------------------------
(* The media. *)
HeaderOf(i)  == [k \in 1..BS |-> <<"head", i, k>>]
Content(a, i) == [k \in 1..a[i].size |-> <<"data", i, k>>]
Body(i)   == Content(archive, i)
Filler(n) == [k \in 1..n |-> <<"zero">>]
PadOf(n)  == (BS - (n % BS)) % BS

Piece(a, i)  == HeaderOf(i) \o Content(a, i) \o Filler(PadOf(a[i].size))
Stream(a)    == FlattenSeq([i \in DOMAIN a |-> Piece(a, i)])

(* An archive written to volumes of cap blocks; the last one is filled     *)
(* with zeros to the end.                                                  *)
Room(cap)      == (cap - 1) * BS
Count(a, cap)  == (Len(Stream(a)) \div Room(cap)) + 1
Filled(a, cap) == Stream(a) \o Filler((Count(a, cap) * Room(cap)) - Len(Stream(a)))
Volume(a, cap, v) == [k \in 1..BS |-> <<"volume">>]
                       \o SubSeq(Filled(a, cap), ((v - 1) * Room(cap)) + 1, v * Room(cap))
Volumes(a, cap) == [v \in 1..Count(a, cap) |-> Volume(a, cap, v)]
-----------------------------------------------------------------------------
(* The disk.  A name may be a directory, a file, a file moved aside or     *)
(* put beside a directory (".file"), and one that could not be unpacked    *)
(* (".Z").                                                                 *)
Rel(name)  == name.path      \* the leading dots and slashes are stripped
Steps(p)   == {SubSeq(p, 1, n) : n \in 1..Len(p)}
Paths      == UNION {Steps(Rel(e.name)) : e \in Entries}
Endings    == SUBSET {".file", ".Z"}
Places     == Paths \X Endings
At(p)      == <<p, {}>>
IsFile(v)  == v \notin {NoEntry, Directory}
FileOf(i)  == [data |-> Body(i), unpacked |-> archive[i].pack = "Z"]

(* (Mutation: the file in the way is removed.) *)
MoveAside_Drops(d, p) ==
  [l \in Places |-> IF l[1] \in Steps(p) /\ IsFile(d[l]) THEN NoEntry ELSE d[l]]

(* ensure_dir: files in the way are renamed, then the path is made. *)
MoveAside(d, p) ==
  [l \in Places |->
     IF l[1] \in Steps(p) /\ IsFile(d[At(l[1])]) /\ l[2] \subseteq {".file"}
     THEN IF l[2] = {} THEN NoEntry ELSE d[At(l[1])]
     ELSE d[l]]
MakeDirs(d, p) ==
  [l \in Places |-> IF l[1] \in Steps(p) /\ l[2] = {} THEN Directory ELSE d[l]]
ensure_dir(d, p) == MakeDirs(MoveAside(d, p), p)
InTheWay(d, p)   == \E s \in Steps(p) : IsFile(MoveAside(d, p)[At(s)])

(* Where a file goes, its directory made: d is the disk after that. *)
Suffix(d, p) == IF d[At(p)] = Directory THEN {".file"} ELSE {}
Opens(d, l)  == d[l] # Directory

(* The magic of compress, and gzip's verdict on the data. *)
Magic(s)      == s # <<>> /\ Head(s)[1] = "data" /\ archive[Head(s)[2]].pack # "raw"
GzipAccepts(s) == \E i \in DOMAIN archive : s = Body(i) /\ archive[i].pack = "Z"
-----------------------------------------------------------------------------
(* VolumeSet *)
Eof   == cur >= Len(vols)
Avail == Len(vols[cur + 1]) - pos

Reading  == want > 0 /\ ~Eof
ReadDone == ~Reading

(* (Mutations: the header of the next volume read as data; the end of a      *)
(* volume never left.)                                                       *)
Advance_NoHeader == /\ Reading /\ Avail <= 0
                    /\ cur' = cur + 1 /\ pos' = 0
                    /\ UNCHANGED <<archive, vols, want, out, stage, entry, data, disk>>
Advance_Stays == /\ Reading /\ Avail <= 0
                 /\ UNCHANGED cur /\ pos' = Len(vols[cur + 1])
                 /\ UNCHANGED <<archive, vols, want, out, stage, entry, data, disk>>

Advance == /\ Reading /\ Avail <= 0
           /\ cur' = cur + 1 /\ pos' = BS
           /\ UNCHANGED <<archive, vols, want, out, stage, entry, data, disk>>

Take == LET n == Min({want, Avail}) IN
        /\ Reading /\ Avail > 0
        /\ out' = out \o SubSeq(vols[cur + 1], pos + 1, pos + n)
        /\ pos' = pos + n
        /\ want' = want - n
        /\ UNCHANGED <<archive, vols, cur, stage, entry, data, disk>>

read(n) == want' = n /\ out' = <<>>
-----------------------------------------------------------------------------
(* extract: a header, its data, the padding, the file. *)
(* A block is the header of an entry, or there is none: filler, data, and    *)
(* the headers whose name or numbers are refused.                            *)
parse_header(blk) == {i \in DOMAIN archive : archive[i].parses /\ blk = HeaderOf(i)}

LoopTop == IF Eof THEN stage' = "done" /\ UNCHANGED <<want, out>>
                  ELSE stage' = "header" /\ read(BS)

HeaderRead ==
  /\ stage = "header" /\ ReadDone
  /\ IF Len(out) < BS THEN stage' = "done" /\ UNCHANGED <<want, out, entry>>
     ELSE IF parse_header(out) = {} THEN LoopTop /\ UNCHANGED entry
     ELSE LET i == CHOOSE i \in parse_header(out) : TRUE IN
          /\ entry' = i
          /\ stage' = "data" /\ read(archive[i].size)
  /\ UNCHANGED <<archive, vols, cur, pos, data, disk>>

DataRead ==
  /\ stage = "data" /\ ReadDone
  /\ data' = out
  /\ stage' = "pad" /\ read(PadOf(archive[entry].size))
  /\ UNCHANGED <<archive, vols, cur, pos, entry, disk>>

MakesDirectory(e) == e.dir \/ e.size = 0

Raise == stage' = "raised" /\ UNCHANGED <<want, out, disk>>

StoreDirectory ==
  LET p == Rel(archive[entry].name) IN
  /\ stage = "pad" /\ ReadDone /\ MakesDirectory(archive[entry])
  /\ IF InTheWay(disk, p) THEN Raise
                          ELSE disk' = ensure_dir(disk, p) /\ LoopTop
  /\ UNCHANGED <<archive, vols, cur, pos, entry, data>>

StoreFile ==
  LET p   == Rel(archive[entry].name)
      d   == ensure_dir(disk, Front(p))
      bad == Magic(data) /\ ~GzipAccepts(data)
      l   == <<p, Suffix(d, p) \cup (IF bad THEN {".Z"} ELSE {})>>
  IN
  /\ stage = "pad" /\ ReadDone /\ ~MakesDirectory(archive[entry])
  /\ IF InTheWay(disk, Front(p)) \/ ~Opens(d, l)
     THEN Raise
     ELSE /\ disk' = [d EXCEPT ![l] = [data |-> data,
                                       unpacked |-> Magic(data) /\ ~bad]]
          /\ LoopTop
  /\ UNCHANGED <<archive, vols, cur, pos, entry, data>>
-----------------------------------------------------------------------------
Init ==
  /\ archive \in BoundedSeq(Entries, MaxEntries) \ {<<>>}
  /\ \E cap \in Caps : vols = Volumes(archive, cap)
  /\ cur = 0 /\ pos = BS
  /\ want = BS /\ out = <<>>
  /\ stage = "header" /\ entry = 0 /\ data = <<>>
  /\ disk = [l \in Places |-> NoEntry]

Next == Advance \/ Take \/ HeaderRead \/ DataRead \/ StoreDirectory \/ StoreFile

Spec == Init /\ [][Next]_vars /\ WF_vars(Next)
-----------------------------------------------------------------------------
(* Wherever the volumes were cut, what is on the disk is what was          *)
(* archived: no volume header, filler or other file's data inside it, and  *)
(* nothing missing (VolumeSet.read, and the padding extract skips).        *)
SeamsInvisible ==
  \A l \in Places : IsFile(disk[l]) =>
    \E i \in DOMAIN archive : disk[l] = FileOf(i) /\ Rel(archive[i].name) = l[1]

(* A name that comes as a file and as a directory keeps both: at the end   *)
(* every directory is there and the last file of each name is there, under *)
(* its own name or beside it (ensure_dir, and the isdir test of extract).  *)
(* An entry whose header is refused is passed over block by block, and     *)
(* takes none of those after it along.                                     *)
PlainFile(e) == e.parses /\ ~MakesDirectory(e)
Kept(m) ==
  \A i \in 1..m :
    LET e == archive[i] IN
    IF PlainFile(e)
    THEN \/ \E j \in i+1..m : archive[j].name = e.name /\ PlainFile(archive[j])
         \/ \E s \in Endings : disk[<<Rel(e.name), s>>] = FileOf(i)
    ELSE e.parses => disk[At(Rel(e.name))] = Directory
NothingLost == stage = "done" => Kept(Len(archive))

(* The extraction ends, and with every entry dealt with: read's loop makes *)
(* progress each turn, and no order of files and directories makes extract *)
(* raise half way through.                                                 *)
ExtractEnds == <>(stage = "done")
-----------------------------------------------------------------------------
(* Why: the volumes' data areas, laid end to end, hold the archive and     *)
(* zeros after it, and what is being read is what lies there from the      *)
(* start of an entry, of its data or of its padding.                       *)
Start(e)      == Len(Stream(SubSeq(archive, 1, e - 1)))
Position(cap) == (cur * Room(cap)) + (pos - BS)
Base(cap)     == Position(cap) - Len(out)

Medium(cap) == archive \in Seq(Entries) /\ vols = Volumes(archive, cap)

HeadOnMedium(cap) ==
  /\ cur \in 0..Count(archive, cap) /\ pos \in BS..BS+Room(cap)
  /\ cur = Count(archive, cap) => pos = BS

OutIsMedium(cap) ==
  /\ want \in Nat /\ out \in Seq(Unit) /\ Base(cap) \in Nat
  /\ \A n \in 1..Len(out) : out[n] = Filled(archive, cap)[Base(cap) + n]

(* No two names of the set differ in the leading dot only: then the first  *)
(* m entries are dealt with.                                               *)
NamesApart == \A e, f \in Entries : Rel(e.name) = Rel(f.name) => e.name = f.name
Done(m)    == NamesApart => Kept(m)

Asked(n, cap, base) == want + Len(out) = n /\ Base(cap) = base

(* Where a header is looked for: at the start of an entry, some blocks       *)
(* before the end of one that was refused, or after the last.                *)
PassingOver(e, x) == /\ ~archive[e].parses /\ x > Start(e)
                     /\ \E k \in Nat \ {0} : x + (k * BS) = Start(e + 1)
LooksAt(e, x) == IF e <= Len(archive) THEN x = Start(e) \/ PassingOver(e, x) ELSE x >= Start(e)

HeaderNext(cap) ==
  /\ want + Len(out) = BS
  /\ \E e \in 1..Len(archive)+1 : Done(e - 1) /\ LooksAt(e, Base(cap))
DataNext(cap) ==
  /\ entry \in 1..Len(archive) /\ archive[entry].parses /\ Done(entry - 1)
  /\ Asked(archive[entry].size, cap, Start(entry) + BS)
PadNext(cap) ==
  /\ entry \in 1..Len(archive) /\ archive[entry].parses /\ Done(entry - 1)
  /\ Asked(PadOf(archive[entry].size), cap, Start(entry) + BS + archive[entry].size)
  /\ data = Body(entry)

InStep(cap) ==
  /\ stage \in {"header", "data", "pad", "done"}
  /\ stage = "header" => HeaderNext(cap)
  /\ stage = "data" => DataNext(cap)
  /\ stage = "pad" => PadNext(cap)
  /\ stage = "done" => Done(Len(archive))

(* A file that was moved aside has a directory in its place.               *)
DiskInStep ==
  /\ disk \in [Places -> FileData \cup {NoEntry, Directory}]
  /\ \A l \in Places : disk[l] = Directory => l[2] = {}
  /\ \A p \in Paths : disk[<<p, {".file"}>>] # NoEntry => disk[At(p)] = Directory
  /\ SeamsInvisible

ExtractInvAt(cap) == Medium(cap) /\ HeadOnMedium(cap) /\ OutIsMedium(cap) /\ InStep(cap)
ExtractInv == DiskInStep /\ \E cap \in Caps : ExtractInvAt(cap)
=============================================================================
