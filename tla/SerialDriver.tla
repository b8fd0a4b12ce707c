----------------------------- MODULE SerialDriver ---------------------------
(***************************************************************************)
(* tools/console.py drives the machine over its serial line: it logs in,   *)
(* types commands, and takes the next prompt it reads for the end of each. *)
(* All it knows of the machine is the text that has come down the line.    *)
(* The machine (getty, the login shell, halt) is external: it echoes what  *)
(* is typed, asks for a terminal type or does not, and prints one prompt   *)
(* when it is ready.  A word of the text stands for the string it is,      *)
(* "TERM" for the question "TERM = (".                                     *)
(***************************************************************************)
EXTENDS Naturals, Sequences

CONSTANTS Commands,     \* how many commands there are to type
          MaxOutput,    \* words a command prints before its prompt
          HostMayBeSlow \* may a wait run into its time limit?

ASSUME DriverAssumption == Commands \in Nat /\ MaxOutput \in Nat /\ HostMayBeSlow \in BOOLEAN

(* The lines the driver types, and the words the machine prints; the echo of *)
(* a line is that line.                                                      *)
Line == {"user", "return", "command", "/etc/halt"}
Word == {"login:", "TERM", "SUPERUSER", "output", "halted"} \cup Line

(* str.find: the words that contain the string looked for.  The echo of      *)
(* /etc/halt contains "halt".                                                *)
Contains(word, needle) ==
  word = needle \/ (needle = "halt" /\ word \in {"halted", "/etc/halt"})

VARIABLES
  phase,    \* "boot", "login", "next", "wait", "halt", "tail", "stopped"
  text,     \* what has been read
  mark,     \* where the wait under way begins to look
  asked,    \* the question for the terminal type has been answered
  done,     \* commands whose prompt has come back
  result,   \* "none", "ok", "failed"
  pumps,    \* reads of the tail
  tty,      \* typed and not yet echoed
  input,    \* echoed and not yet read by the machine
  wire,     \* printed by the machine and not yet read by the driver
  sun,      \* "boots", "login", "term", "shell", "busy", "halting", "halted", "off"
  printed,  \* words printed by the command under way
  finished  \* commands the machine has finished

driver == <<phase, text, mark, asked, done, result, pumps>>
machine == <<tty, input, wire, sun, printed, finished>>
vars == <<driver, machine>>

Init ==
  /\ phase = "boot" /\ text = <<>> /\ mark = 1 /\ asked = FALSE /\ done = 0
  /\ result = "none" /\ pumps = 0
  /\ tty = <<>> /\ input = <<>> /\ wire = <<>> /\ sun = "boots"
  /\ printed = 0 /\ finished = 0

-----------------------------------------------------------------------------
(* The machine *)

Prints(word) == wire' = Append(wire, word)

Boots == /\ sun = "boots" /\ sun' = "login" /\ Prints("login:")
         /\ UNCHANGED <<driver, tty, input, printed, finished>>

(* The terminal driver echoes as the characters arrive, whoever reads them.  *)
Echoes == /\ tty # <<>> /\ sun # "off"
          /\ tty' = Tail(tty) /\ input' = Append(input, Head(tty))
          /\ Prints(Head(tty))
          /\ UNCHANGED <<driver, sun, printed, finished>>

Reads(line) == input # <<>> /\ Head(input) = line /\ input' = Tail(input)

LogsIn == /\ sun = "login" /\ Reads("user")
          /\ \/ sun' = "term" /\ Prints("TERM")
             \/ sun' = "shell" /\ Prints("SUPERUSER")
          /\ UNCHANGED <<driver, tty, printed, finished>>

TermGiven == /\ sun = "term" /\ Reads("return")
             /\ sun' = "shell" /\ Prints("SUPERUSER")
             /\ UNCHANGED <<driver, tty, printed, finished>>

StartsCommand == /\ sun = "shell" /\ Reads("command")
                 /\ sun' = "busy" /\ printed' = 0
                 /\ UNCHANGED <<driver, tty, wire, finished>>

CommandPrints == /\ sun = "busy" /\ printed < MaxOutput
                 /\ Prints("output") /\ printed' = printed + 1
                 /\ UNCHANGED <<driver, tty, input, sun, finished>>

CommandEnds == /\ sun = "busy"
               /\ sun' = "shell" /\ finished' = finished + 1 /\ Prints("SUPERUSER")
               /\ UNCHANGED <<driver, tty, input, printed>>

StartsHalt == /\ sun = "shell" /\ Reads("/etc/halt")
              /\ sun' = "halting" /\ Prints("output")
              /\ UNCHANGED <<driver, tty, printed, finished>>

Halts == /\ sun = "halting" /\ sun' = "halted" /\ Prints("halted")
         /\ UNCHANGED <<driver, tty, input, printed, finished>>

-----------------------------------------------------------------------------
(* The driver *)

Found(needle, from) == \E n \in from..Len(text) : Contains(text[n], needle)

(* Line.pump: a read takes what is there, or the first part of it.           *)
Pump == /\ wire # <<>>
        /\ \E n \in 1..Len(wire) :
             /\ text' = text \o SubSeq(wire, 1, n)
             /\ wire' = SubSeq(wire, n + 1, Len(wire))

(* Line.type. *)
Types(line) == tty' = Append(tty, line)

Fails == /\ phase' = "stopped" /\ result' = "failed" /\ sun' = "off"
         /\ UNCHANGED <<text, mark, asked, done, pumps, tty, input, wire, printed, finished>>

(* A loop that looks and reads: it reads on while there is nothing to find.  *)
Loop(p, found) == phase = p /\ ~found /\ Pump
                  /\ UNCHANGED <<phase, mark, asked, done, result, pumps,
                                 tty, input, sun, printed, finished>>

(* The limit is looked at before the text: it may strike although what was   *)
(* waited for has just come.                                                 *)
TimesOut(p) == phase = p /\ HostMayBeSlow /\ Fails

LoginSeen == Found("login:", 1)
AwaitsLogin   == Loop("boot", LoginSeen)
LoginTimesOut == TimesOut("boot")
TypeUser == /\ phase = "boot" /\ LoginSeen
            /\ Types("user") /\ phase' = "login"
            /\ UNCHANGED <<text, mark, asked, done, result, pumps,
                           input, wire, sun, printed, finished>>

(* A round of the login loop looks for the prompt first, then for the        *)
(* question, and reads on.                                                   *)
PromptSeen == Found("SUPERUSER", 1)

(* (Mutation: the question is answered whenever it is in the text.)          *)
MayAnswer_Again == TRUE
MayAnswer == ~asked

UserTimesOut == TimesOut("login")

TermSeen == MayAnswer /\ Found("TERM", 1)
LoggedIn == /\ phase = "login" /\ PromptSeen
            /\ phase' = "next"
            /\ UNCHANGED <<text, mark, asked, done, result, pumps, machine>>
LoginRound == /\ phase = "login" /\ ~PromptSeen /\ (TermSeen \/ wire # <<>>)
              /\ IF TermSeen THEN Types("return") /\ asked' = TRUE
                             ELSE UNCHANGED <<tty, asked>>
              /\ Pump \/ (wire = <<>> /\ UNCHANGED <<text, wire>>)
              /\ UNCHANGED <<phase, mark, done, result, pumps, input, sun, printed, finished>>

(* (Mutation: the wait looks at the text from the beginning.)                *)
LookFrom_Start == 1

(* The wait for a command's prompt begins behind the command's own length.   *)
LookFrom == Len(text) + 2

MoreToType == done < Commands

TypeCommand == /\ phase = "next" /\ MoreToType
               /\ mark' = LookFrom /\ Types("command") /\ phase' = "wait"
               /\ UNCHANGED <<text, asked, done, result, pumps,
                              input, wire, sun, printed, finished>>

(* (Mutation: a command is counted when its wait gives up.)                  *)
StepFails_GoesOn == /\ phase' = "next" /\ done' = done + 1
                    /\ UNCHANGED <<text, mark, asked, result, pumps, machine>>
StepFails == Fails

PromptBack == Found("SUPERUSER", mark)
AwaitsPrompt == Loop("wait", PromptBack)
CommandOk == /\ phase = "wait" /\ PromptBack
             /\ done' = done + 1 /\ phase' = "next"
             /\ UNCHANGED <<text, mark, asked, result, pumps, machine>>
CommandTimesOut == phase = "wait" /\ HostMayBeSlow /\ StepFails

(* At the end: /etc/halt, a wait of four minutes for "halt" that looks from  *)
(* the mark itself, and twelve more reads.                                   *)
TypeHalt == /\ phase = "next" /\ ~MoreToType
            /\ mark' = Len(text) + 1 /\ Types("/etc/halt") /\ phase' = "halt"
            /\ UNCHANGED <<text, asked, done, result, pumps,
                           input, wire, sun, printed, finished>>

HaltSeen == Found("halt", mark)
AwaitsHalt == Loop("halt", HaltSeen)
HaltWaitEnds == /\ phase = "halt" /\ (HaltSeen \/ HostMayBeSlow)
                /\ phase' = "tail"
                /\ UNCHANGED <<text, mark, asked, done, result, pumps, machine>>

(* A read of the tail that finds nothing for a second counts as well.        *)
ReadTail == /\ phase = "tail" /\ pumps < 12 /\ pumps' = pumps + 1
            /\ Pump \/ (wire = <<>> /\ UNCHANGED <<text, wire>>)
            /\ UNCHANGED <<phase, mark, asked, done, result, tty, input, sun, printed, finished>>

(* The emulator is ended, whatever the machine in it is at. *)
Stop == /\ phase = "tail" /\ pumps = 12
        /\ phase' = "stopped" /\ result' = "ok"
        /\ sun' = IF sun = "halted" THEN sun ELSE "off"
        /\ UNCHANGED <<text, mark, asked, done, pumps, tty, input, wire, printed, finished>>

Machine == Boots \/ Echoes \/ LogsIn \/ TermGiven \/ StartsCommand \/ CommandEnds
           \/ StartsHalt \/ Halts
Driver == \/ AwaitsLogin \/ TypeUser
          \/ LoggedIn \/ LoginRound
          \/ TypeCommand \/ CommandOk \/ AwaitsPrompt
          \/ TypeHalt \/ AwaitsHalt \/ HaltWaitEnds \/ ReadTail \/ Stop

Next ==
  \/ Boots \/ Echoes \/ LogsIn \/ TermGiven \/ StartsCommand \/ CommandPrints \/ CommandEnds
  \/ StartsHalt \/ Halts
  \/ AwaitsLogin \/ LoginTimesOut \/ TypeUser
  \/ LoggedIn \/ LoginRound \/ UserTimesOut
  \/ TypeCommand \/ AwaitsPrompt \/ CommandOk \/ CommandTimesOut
  \/ TypeHalt \/ AwaitsHalt \/ HaltWaitEnds \/ ReadTail \/ Stop

(* Both the machine and the script go on.                                    *)
Spec == Init /\ [][Next]_vars /\ WF_vars(Machine) /\ WF_vars(Driver)

-----------------------------------------------------------------------------
(* A command is reported as done only when the machine has finished it: no   *)
(* prompt of an earlier one is taken for its own, and a session that ends    *)
(* well has carried out every command (main of console.py).                  *)
OkMeansFinished == done <= finished /\ (result = "ok" => finished = Commands)

(* A command is typed only to a shell that waits for one: nothing typed is   *)
(* read by the login or by a command before it (main).                       *)
TypedToShell == [][Len(tty') > Len(tty) /\ phase = "next" =>
                     sun = "shell" /\ tty = <<>> /\ input = <<>>]_vars

(* However slow the host, and though no limit need ever strike, the session  *)
(* ends: driver and machine never wait for each other.  One that ends well   *)
(* has carried out every command (main, and the limits of its waits).        *)
SessionEnds == <>(phase = "stopped" /\ (result = "ok" => finished = Commands))

(* A session that ends well ends in a clean halt: the machine has halted     *)
(* before the emulator is stopped (README.md, "Serial console on ttya, and a *)
(* clean halt").                                                             *)
HaltIsClean == result = "ok" => sun = "halted"
=============================================================================
