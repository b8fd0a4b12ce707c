---------------------------- MODULE MCBarVolumes ----------------------------
(* Sets of up to MaxEntries entries in which one name is both a file and a *)
(* directory, a hidden one, and one whose header is refused.               *)
EXTENDS BarVolumes

Boot == [path |-> <<"boot">>, dot |-> FALSE]
Tree == [path |-> <<"boot", "tree">>, dot |-> FALSE]
DotRc == [path |-> <<"rc">>, dot |-> TRUE]

File(n, s, p) == [name |-> n, dir |-> FALSE, size |-> s, pack |-> p,
                  parses |-> TRUE]
Dir(n)        == [name |-> n, dir |-> TRUE, size |-> 0, pack |-> "raw", parses |-> TRUE]
Refused(e)    == [e EXCEPT !.parses = FALSE]

MCEntries == {Dir(Boot), File(Boot, 1, "raw"), File(Boot, 3, "Z"),
              Dir(Tree), File(Tree, 2, "raw"), File(Tree, 5, "bad"), File(Tree, 0, "raw"),
              File(DotRc, 2, "Z"), Refused(File(Boot, 3, "raw"))}
=============================================================================
