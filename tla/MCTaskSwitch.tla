---------------------------- MODULE MCTaskSwitch ----------------------------
(* The DOS window: the kernel's task, and the emulator process with a task   *)
(* state segment of its own and one for virtual 8086 mode, which it sees at  *)
(* a user address.                                                           *)
EXTENDS TaskSwitch

Tasks == {"kernel", "dos", "v86"}
Homes == [t \in Tasks |-> IF t = "kernel" THEN "kernel" ELSE "dos"]
Rings == [t \in Tasks |-> IF t = "kernel" THEN 0 ELSE 3]

Pages == Tasks \cup {"gdt", "ldt"}
Everywhere == [t \in Tasks |-> Pages]

(* One page missing in one directory, or nearly all of them.                 *)
OneGap == {[Everywhere EXCEPT ![h] = Pages \ {p}] : h \in {"kernel", "dos"}, p \in Pages}
Gaps == [t \in Tasks |-> IF t = "kernel" THEN {"kernel", "v86", "gdt"} ELSE {"kernel", "v86"}]
MCMappings == {Everywhere, Gaps} \cup OneGap
=============================================================================
