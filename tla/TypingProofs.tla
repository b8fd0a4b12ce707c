----------------------------- MODULE TypingProofs -----------------------------
(***************************************************************************)
(* What is typed at the machine reaches whom it is meant for, on its two   *)
(* ways in.                                                                *)
(*                                                                         *)
(* The serial line: the script never runs ahead of the machine, for any    *)
(* number of commands, any amount of output, reads of any size and a host  *)
(* of any speed.  All it goes by is the text that has come down the line;  *)
(* the argument is about that text together with what is still on the      *)
(* wire: the prompt that ends a wait is always the last word of it.        *)
(*                                                                         *)
(* The keyboard of the PROM: no key of the canned input is lost to the     *)
(* drain of gets(), whatever there is to type and however many empty polls *)
(* a key waits for.                                                        *)
(***************************************************************************)
EXTENDS SerialDriver, Keyboard, TLAPS

(* The words the machine has said, in order: read by the driver or not yet.  *)
Length  == Len(text) + Len(wire)
Said(n) == IF n <= Len(text) THEN text[n] ELSE wire[n - Len(text)]

NotSaid(word, from)  == \A n \in from..Length : Said(n) # word
OnlyLast(word, from) == \A n \in from..Length : Said(n) = word => n = Length

(* What the driver has typed and the machine has not read: nothing, or one   *)
(* line, echoed or not.                                                      *)
Quiet == tty = <<>> /\ input = <<>>
Unechoed(line) == tty = <<line>> /\ input = <<>>
Echoed(line)   == tty = <<>> /\ input = <<line>>
Underway(line) == Unechoed(line) \/ Echoed(line)

TypeOK ==
  /\ phase \in {"boot", "login", "next", "wait", "halt", "tail", "stopped"}
  /\ text \in Seq(Word) /\ wire \in Seq(Word)
  /\ tty \in Seq(Line) /\ input \in Seq(Line)
  /\ mark \in Nat \ {0} /\ asked \in BOOLEAN
  /\ done \in Nat /\ finished \in Nat /\ printed \in Nat
  /\ result \in {"none", "ok", "failed"}
  /\ sun \in {"boots", "login", "term", "shell", "busy", "halting", "halted", "off"}

AtBoot == /\ Quiet /\ done = 0 /\ finished = 0 /\ ~asked
          /\ NotSaid("SUPERUSER", 1) /\ NotSaid("TERM", 1)
          /\ sun = "login" \/ (sun = "boots" /\ Length = 0)

AtLogin ==
  /\ done = 0 /\ finished = 0
  /\ \/ /\ sun = "login" /\ Underway("user") /\ ~asked
        /\ NotSaid("SUPERUSER", 1) /\ NotSaid("TERM", 1)
     \/ /\ sun = "term" /\ NotSaid("SUPERUSER", 1)
        /\ IF asked THEN Underway("return") ELSE Quiet
     \/ /\ sun = "shell" /\ Quiet /\ OnlyLast("SUPERUSER", 1)
        /\ ~asked => NotSaid("TERM", 1)

AtNext == sun = "shell" /\ Quiet /\ wire = <<>> /\ finished = done /\ done <= Commands

AtWait ==
  /\ done < Commands
  /\ \/ sun = "shell" /\ Unechoed("command") /\ finished = done /\ Length + 1 < mark
     \/ sun = "shell" /\ Echoed("command") /\ finished = done /\ Length < mark
     \/ sun = "busy" /\ Quiet /\ finished = done /\ NotSaid("SUPERUSER", mark)
     \/ sun = "shell" /\ Quiet /\ finished = done + 1 /\ OnlyLast("SUPERUSER", mark)

AtHalt == /\ done = Commands /\ finished = Commands
          /\ \/ sun = "shell" /\ Underway("/etc/halt")
             \/ sun \in {"halting", "halted"} /\ Quiet

AtStop == /\ sun \in {"halted", "off"} /\ done <= finished
          /\ result = "ok" => finished = Commands

(* What the driver takes for granted at each point of its script.            *)
IInv ==
  /\ TypeOK
  /\ phase = "boot" => AtBoot
  /\ phase = "login" => AtLogin
  /\ phase = "next" => AtNext
  /\ phase = "wait" => AtWait
  /\ phase \in {"halt", "tail"} => AtHalt
  /\ phase = "stopped" => AtStop
  /\ phase # "stopped" => result = "none"

-----------------------------------------------------------------------------
(* A word printed is the last one said, and changes none said before.        *)
LEMMA PrintsOne ==
  ASSUME TypeOK, NEW word \in Word, Prints(word), text' = text
  PROVE  /\ wire' \in Seq(Word) /\ wire' # <<>> /\ Length \in Nat /\ Length' = Length + 1
         /\ \A n \in 1..Length : Said(n)' = Said(n)
         /\ \A n \in Nat : n = Length + 1 => Said(n)' = word
<1>1. /\ wire' = Append(wire, word) /\ wire \in Seq(Word) /\ text \in Seq(Word)
      /\ Len(wire) \in Nat /\ Len(text) \in Nat
  BY DEF TypeOK, Prints
<1>2. /\ wire' \in Seq(Word) /\ Len(wire') = Len(wire) + 1 /\ wire'[Len(wire) + 1] = word
      /\ \A i \in 1..Len(wire) : wire'[i] = wire[i]
  BY <1>1
<1>3. wire' # <<>> /\ Length \in Nat /\ Length' = Length + 1
  BY <1>1, <1>2 DEF Length
<1>4. ASSUME NEW n \in 1..Length PROVE Said(n)' = Said(n)
  BY <1>1, <1>2 DEF Said, Length
<1>5. ASSUME NEW n \in Nat, n = Length + 1 PROVE Said(n)' = word
  BY <1>1, <1>2, <1>5 DEF Said, Length
<1> QED BY <1>2, <1>3, <1>4, <1>5

(* A read moves words from the wire to the text: what was said stays said.   *)
LEMMA PumpsAll ==
  ASSUME TypeOK, Pump
  PROVE  /\ text' \in Seq(Word) /\ wire' \in Seq(Word)
         /\ Length \in Nat /\ Length' = Length
         /\ \A n \in 1..Length : Said(n)' = Said(n)
<1>1. PICK k \in 1..Len(wire) : /\ text' = text \o SubSeq(wire, 1, k)
                               /\ wire' = SubSeq(wire, k + 1, Len(wire))
  BY DEF Pump
<1>2. /\ SubSeq(wire, 1, k) \in Seq(Word) /\ Len(SubSeq(wire, 1, k)) = k
      /\ \A i \in 1..k : SubSeq(wire, 1, k)[i] = wire[i]
  BY DEF TypeOK
<1>3. /\ wire' \in Seq(Word) /\ Len(wire') = Len(wire) - k
      /\ \A i \in 1..Len(wire)-k : wire'[i] = wire[i + k]
  BY <1>1 DEF TypeOK
<1>4. /\ text' \in Seq(Word) /\ Len(text') = Len(text) + k
      /\ \A i \in 1..Len(text) + k :
           text'[i] = IF i <= Len(text) THEN text[i] ELSE wire[i - Len(text)]
  BY <1>1, <1>2 DEF TypeOK
<1>5. Len(text) \in Nat /\ Len(wire) \in Nat
  BY DEF TypeOK
<1>6. ASSUME NEW n \in 1..Length PROVE Said(n)' = Said(n)
  <2>1. CASE n <= Len(text)
    BY <1>4, <1>5, <1>6, <2>1 DEF Said, Length
  <2>2. CASE n > Len(text) /\ n <= Len(text) + k
    BY <1>4, <1>5, <2>2 DEF Said
  <2>3. CASE n > Len(text) + k
    <3>1. n - Len(text') \in 1..Len(wire) - k /\ (n - Len(text')) + k = n - Len(text)
      BY <1>4, <1>5, <1>6, <2>3 DEF Length
    <3>2. wire'[n - Len(text')] = wire[n - Len(text)]
      BY <1>3, <3>1
    <3> QED BY <1>4, <1>5, <2>3, <3>2 DEF Said
  <2> QED BY <1>5, <1>6, <2>1, <2>2, <2>3 DEF Length
<1> QED BY <1>3, <1>4, <1>5, <1>6 DEF Length

(* A word that is found has been said, and is not on the wire.               *)
LEMMA FoundIsSaid ==
  ASSUME TypeOK, NEW word \in {"login:", "TERM", "SUPERUSER"}, NEW from \in Nat \ {0}
  PROVE  Found(word, from) =>
           \E n \in from..Len(text) : Said(n) = word /\ n \in from..Length /\ n \in 1..Length
<1>1. text \in Seq(Word) /\ wire \in Seq(Word)
  BY DEF TypeOK
<1>2. Len(text) \in Nat /\ Len(wire) \in Nat
  BY <1>1
<1> SUFFICES ASSUME NEW n \in from..Len(text), Contains(text[n], word)
             PROVE  Said(n) = word /\ n \in from..Length /\ n \in 1..Length
  BY DEF Found
<1>4. text[n] = word
  BY DEF Contains
<1>5. n \in Nat /\ from <= n /\ n <= Len(text)
  BY <1>2
<1>6. n \in from..Length /\ n \in 1..Length
  BY <1>2, <1>5 DEF Length
<1>7. Said(n) = word
  BY <1>4, <1>5 DEF Said
<1> QED BY <1>6, <1>7

(* What stays true of the words said when nothing, or one word, is added.    *)
LEMMA SameWords ==
  ASSUME TypeOK, UNCHANGED <<text, wire>> \/ Pump, NEW word, NEW from \in Nat \ {0}
  PROVE  /\ text' \in Seq(Word) /\ wire' \in Seq(Word) /\ Length' = Length
         /\ \A n \in 1..Length : Said(n)' = Said(n)
         /\ NotSaid(word, from) => NotSaid(word, from)'
         /\ OnlyLast(word, from) => OnlyLast(word, from)'
<1>1. CASE UNCHANGED <<text, wire>>
  BY <1>1 DEF TypeOK, Length, Said, NotSaid, OnlyLast
<1>2. CASE Pump
  BY <1>2, PumpsAll DEF NotSaid, OnlyLast
<1> QED BY <1>1, <1>2

LEMMA OneMoreWord ==
  ASSUME TypeOK, NEW said \in Word, Prints(said), text' = text,
         NEW word, NEW from \in Nat \ {0}
  PROVE  /\ NotSaid(word, from) => OnlyLast(word, from)'
         /\ NotSaid(word, from) /\ word # said => NotSaid(word, from)'
<1>1. /\ Length \in Nat /\ Length' = Length + 1
      /\ \A n \in 1..Length : Said(n)' = Said(n)
      /\ \A n \in Nat : n = Length + 1 => Said(n)' = said
  BY PrintsOne
<1>2. ASSUME NotSaid(word, from), NEW n \in from..Length', Said(n)' = word
      PROVE  n = Length + 1 /\ word = said
  BY <1>1, <1>2 DEF NotSaid
<1> QED BY <1>1, <1>2 DEF NotSaid, OnlyLast

-----------------------------------------------------------------------------
(* Every step keeps the types.                                               *)
LEMMA TypesKept == ASSUME TypeOK, [Next]_vars PROVE TypeOK'
<1> USE DEF TypeOK, Line, Word
<1>1. ASSUME NEW word \in Word, Prints(word), text' = text PROVE wire' \in Seq(Word)
  BY <1>1, PrintsOne
<1>2. ASSUME Pump \/ UNCHANGED <<text, wire>> PROVE text' \in Seq(Word) /\ wire' \in Seq(Word)
  BY <1>2, PumpsAll
<1>3. CASE Boots \/ Halts \/ CommandPrints \/ CommandEnds
  BY <1>1, <1>3 DEF Boots, Halts, CommandPrints, CommandEnds, driver
<1>4. CASE Echoes
  <2>1. Head(tty) \in Line /\ Tail(tty) \in Seq(Line)
    BY <1>4 DEF Echoes
  <2>2. wire' \in Seq(Word)
    BY <1>1, <1>4, <2>1 DEF Echoes, driver
  <2>3. input' \in Seq(Line)
    BY <1>4, <2>1 DEF Echoes
  <2> QED BY <1>4, <2>1, <2>2, <2>3 DEF Echoes, driver
<1>5. CASE LogsIn \/ TermGiven \/ StartsHalt \/ StartsCommand
  <2>1. ASSUME NEW line, Reads(line) PROVE input' \in Seq(Line)
    BY <2>1 DEF Reads
  <2>2. wire' \in Seq(Word)
    BY <1>1, <1>5 DEF LogsIn, TermGiven, StartsHalt, StartsCommand, driver
  <2> QED BY <1>5, <2>1, <2>2 DEF LogsIn, TermGiven, StartsHalt, StartsCommand, driver
<1>6. CASE TypeUser \/ TypeCommand \/ TypeHalt
  <2>1. mark' \in Nat \ {0}
    BY <1>6 DEF TypeUser, TypeCommand, TypeHalt, LookFrom
  <2>2. ASSUME NEW line \in Line, Types(line) PROVE tty' \in Seq(Line)
    BY <2>2 DEF Types
  <2> QED BY <1>6, <2>1, <2>2 DEF TypeUser, TypeCommand, TypeHalt
<1>7. CASE LoggedIn \/ HaltWaitEnds \/ CommandOk
  BY <1>7 DEF LoggedIn, HaltWaitEnds, CommandOk, machine
<1>8. CASE LoginRound
  <2>1. tty' \in Seq(Line) /\ asked' \in BOOLEAN
    <3>1. CASE TermSeen
      BY <1>8, <3>1 DEF LoginRound, Types
    <3>2. CASE ~TermSeen
      BY <1>8, <3>2 DEF LoginRound
    <3> QED BY <3>1, <3>2
  <2> QED BY <1>2, <1>8, <2>1 DEF LoginRound
<1>9. CASE CommandTimesOut \/ LoginTimesOut \/ UserTimesOut
  BY <1>9 DEF CommandTimesOut, LoginTimesOut, UserTimesOut, TimesOut, StepFails, Fails
<1>10. CASE ReadTail
  BY <1>2, <1>10 DEF ReadTail
<1>11. CASE Stop
  BY <1>11 DEF Stop
<1>12. CASE AwaitsLogin \/ AwaitsPrompt \/ AwaitsHalt
  BY <1>2, <1>12 DEF AwaitsLogin, AwaitsPrompt, AwaitsHalt, Loop
<1>13. CASE UNCHANGED vars
  BY <1>13 DEF vars, driver, machine
<1> HIDE DEF TypeOK, Line, Word
<1> QED
  BY <1>3, <1>4, <1>5, <1>6, <1>7, <1>8, <1>9, <1>10, <1>11, <1>12, <1>13 DEF Next

-----------------------------------------------------------------------------
(* The machine's steps.  Where each of them is possible is what the script   *)
(* has brought about.                                                        *)
LEMMA BootsKeeps == ASSUME IInv, Boots PROVE IInv'
<1>1. TypeOK' /\ TypeOK
  BY TypesKept DEF IInv, Next
<1>2. phase = "boot" /\ AtBoot /\ Length = 0
  BY DEF IInv, TypeOK, Boots, AtBoot, AtLogin, AtNext, AtWait, AtHalt, AtStop
<1>3. NotSaid("SUPERUSER", 1)' /\ NotSaid("TERM", 1)'
  BY <1>1, <1>2, OneMoreWord DEF Boots, AtBoot, driver, Word
<1> QED BY <1>1, <1>2, <1>3 DEF IInv, Boots, AtBoot, Quiet, driver

LEMMA EchoesKeeps == ASSUME IInv, Echoes PROVE IInv'
<1>1. TypeOK' /\ TypeOK
  BY TypesKept DEF IInv, Next
<1>2. PICK line \in Line : Head(tty) = line
  BY <1>1 DEF TypeOK, Echoes
<1>3. line \in Word /\ Prints(line) /\ text' = text /\ line # "SUPERUSER" /\ line # "TERM"
  BY <1>2 DEF Echoes, driver, Line, Word
<1>4. Length \in Nat /\ Length' = Length + 1
  BY <1>1, <1>3, PrintsOne
<1>5. ASSUME NEW l \in Line, Underway(l) PROVE Unechoed(l) /\ Echoed(l)' /\ l = line
  <2>1. tty = <<l>> /\ input = <<>>
    BY <1>5 DEF Echoes, Underway, Unechoed, Echoed
  <2>2. Head(tty) = l /\ Tail(tty) = <<>> /\ Append(input, l) = <<l>>
    BY <2>1
  <2> QED BY <1>2, <2>1, <2>2 DEF Echoes, Unechoed, Echoed
<1>6. ~Quiet /\ phase # "boot" /\ phase # "next"
  BY DEF Echoes, Quiet, IInv, AtBoot, AtNext
<1>7. UNCHANGED <<phase, mark, asked, done, result, sun, finished>>
  BY DEF Echoes, driver
<1>8. ASSUME phase = "login" PROVE AtLogin'
  <2>1. AtLogin /\ AtLogin!1 /\ AtLogin!2
    BY <1>8 DEF IInv, AtLogin
  <2> QED BY <1>1, <1>3, <1>5, <1>6, <1>7, <2>1, OneMoreWord DEF AtLogin, Line, Underway
<1>9. ASSUME phase = "wait" PROVE AtWait'
  <2>1. AtWait /\ AtWait!1 /\ mark \in Nat
    BY <1>1, <1>9 DEF IInv, AtWait, TypeOK
  <2>2. CASE AtWait!2!1
    BY <1>4, <1>5, <1>7, <2>1, <2>2 DEF AtWait, Line, Underway
  <2>3. CASE AtWait!2!2
    BY <1>5, <2>3 DEF Line, Underway, Unechoed, Echoed
  <2>4. CASE AtWait!2!3 \/ AtWait!2!4
    BY <1>6, <2>4
  <2> QED BY <2>1, <2>2, <2>3, <2>4 DEF AtWait
<1>10. ASSUME phase \in {"halt", "tail"} PROVE AtHalt'
  BY <1>5, <1>6, <1>7, <1>10 DEF IInv, AtHalt, Line, Underway
<1>11. ASSUME phase = "stopped" PROVE AtStop'
  BY <1>7, <1>11 DEF IInv, AtStop
<1> QED BY <1>1, <1>6, <1>7, <1>8, <1>9, <1>10, <1>11 DEF IInv

(* A line is read only where it is the one that was typed.                   *)
LEMMA LineRead ==
  ASSUME NEW line, NEW l, Reads(line), Underway(l)
  PROVE  line = l /\ tty = <<>> /\ input' = <<>>
<1>1. input = <<l>> /\ tty = <<>>
  BY DEF Reads, Underway, Unechoed, Echoed
<1>2. Head(<<l>>) = l /\ Tail(<<l>>) = <<>>
  OBVIOUS
<1> QED BY <1>1, <1>2 DEF Reads

LEMMA LogsInKeeps == ASSUME IInv, LogsIn PROVE IInv'
<1>1. TypeOK' /\ TypeOK
  BY TypesKept DEF IInv, Next
<1>2. phase = "login" /\ AtLogin /\ Underway("user") /\ ~asked
      /\ NotSaid("SUPERUSER", 1) /\ NotSaid("TERM", 1)
  BY DEF IInv, TypeOK, LogsIn, Reads, AtBoot, AtLogin, AtNext, AtWait, AtHalt, AtStop,
         Quiet, Underway, Unechoed, Echoed
<1>3. Quiet' /\ UNCHANGED <<phase, text, asked, done, finished, result>>
  BY <1>2, LineRead DEF LogsIn, driver, Quiet
<1>4. CASE sun' = "term" /\ Prints("TERM")
  BY <1>1, <1>2, <1>3, <1>4, OneMoreWord DEF IInv, AtLogin, Word
<1>5. CASE sun' = "shell" /\ Prints("SUPERUSER")
  BY <1>1, <1>2, <1>3, <1>5, OneMoreWord DEF IInv, AtLogin, Word
<1> QED BY <1>4, <1>5 DEF LogsIn

LEMMA TermGivenKeeps == ASSUME IInv, TermGiven PROVE IInv'
<1>1. TypeOK' /\ TypeOK
  BY TypesKept DEF IInv, Next
<1>2. phase = "login" /\ AtLogin /\ input # <<>> /\ NotSaid("SUPERUSER", 1)
  BY DEF IInv, TypeOK, TermGiven, Reads, AtBoot, AtLogin, AtNext, AtWait, AtHalt, AtStop
<1>3. asked /\ Underway("return")
  BY <1>2 DEF TermGiven, AtLogin, Quiet
<1>4. Quiet' /\ UNCHANGED <<phase, text, asked, done, finished, result>>
  BY <1>3, LineRead DEF TermGiven, driver, Quiet
<1>5. OnlyLast("SUPERUSER", 1)'
  BY <1>1, <1>2, <1>4, OneMoreWord DEF TermGiven, Word
<1> QED BY <1>1, <1>2, <1>3, <1>4, <1>5 DEF IInv, AtLogin, TermGiven

LEMMA StartsCommandKeeps == ASSUME IInv, StartsCommand PROVE IInv'
<1>1. TypeOK' /\ TypeOK
  BY TypesKept DEF IInv, Next
<1>2. input # <<>> /\ sun = "shell" /\ Reads("command")
  BY DEF StartsCommand, Reads
<1>3. phase = "wait" /\ AtWait
  <2>1. phase \notin {"boot", "login", "next", "stopped"}
    BY <1>2 DEF IInv, AtBoot, AtLogin, AtNext, AtStop, Quiet
  <2>2. ~Underway("/etc/halt")
    BY <1>2, LineRead
  <2> QED BY <1>1, <1>2, <2>1, <2>2 DEF IInv, TypeOK, AtHalt
<1>4. finished = done /\ Length < mark /\ Echoed("command") /\ done < Commands
  BY <1>2, <1>3 DEF AtWait, Quiet, Unechoed
<1>5. Quiet' /\ UNCHANGED <<phase, text, wire, mark, asked, done, finished, result>>
  BY <1>2, <1>4, LineRead DEF StartsCommand, Underway, driver, Quiet
<1>6. NotSaid("SUPERUSER", mark)
  BY <1>1, <1>4 DEF NotSaid, TypeOK, Length
<1>7. NotSaid("SUPERUSER", mark)'
  BY <1>5, <1>6 DEF NotSaid, Said, Length
<1> QED BY <1>1, <1>3, <1>4, <1>5, <1>7 DEF IInv, AtWait, StartsCommand

LEMMA CommandPrintsKeeps == ASSUME IInv, CommandPrints PROVE IInv'
<1>1. TypeOK' /\ TypeOK
  BY TypesKept DEF IInv, Next
<1>2. phase = "wait" /\ AtWait /\ Quiet /\ finished = done /\ NotSaid("SUPERUSER", mark)
  BY DEF CommandPrints, IInv, TypeOK, AtBoot, AtLogin, AtNext, AtWait, AtHalt, AtStop
<1>3. UNCHANGED <<phase, text, mark, asked, done, finished, result, sun, tty, input>>
  BY DEF CommandPrints, driver
<1>4. NotSaid("SUPERUSER", mark)'
  <2>1. PICK m \in Nat \ {0} : m = mark
    BY <1>1 DEF TypeOK
  <2>2. NotSaid("SUPERUSER", m)'
    BY <1>1, <1>2, <1>3, <2>1, OneMoreWord DEF CommandPrints, Word
  <2> QED BY <1>3, <2>1, <2>2
<1> QED BY <1>1, <1>2, <1>3, <1>4 DEF IInv, AtWait, Quiet, CommandPrints

(* The prompt that ends a command is the last word said, and the first       *)
(* prompt behind the mark.                                                   *)
LEMMA CommandEndsKeeps == ASSUME IInv, CommandEnds PROVE IInv'
<1>1. TypeOK' /\ TypeOK
  BY TypesKept DEF IInv, Next
<1>2. phase = "wait" /\ AtWait /\ Quiet /\ finished = done /\ NotSaid("SUPERUSER", mark)
  BY DEF CommandEnds, IInv, TypeOK, AtBoot, AtLogin, AtNext, AtWait, AtHalt, AtStop
<1>3. UNCHANGED <<phase, text, mark, asked, done, result, tty, input>> /\ finished' = finished + 1
  BY DEF CommandEnds, driver
<1>4. OnlyLast("SUPERUSER", mark)'
  <2>1. PICK m \in Nat \ {0} : m = mark
    BY <1>1 DEF TypeOK
  <2>2. OnlyLast("SUPERUSER", m)'
    BY <1>1, <1>2, <1>3, <2>1, OneMoreWord DEF CommandEnds, Word
  <2> QED BY <1>3, <2>1, <2>2
<1> QED BY <1>1, <1>2, <1>3, <1>4 DEF IInv, AtWait, Quiet, CommandEnds

LEMMA HaltKeeps == ASSUME IInv, StartsHalt \/ Halts PROVE IInv'
<1>1. TypeOK' /\ TypeOK
  BY TypesKept DEF IInv, Next
<1>2. UNCHANGED <<phase, text, mark, asked, done, result, finished>>
  BY DEF StartsHalt, Halts, driver
<1>3. CASE StartsHalt
  <2>1. input # <<>> /\ sun = "shell" /\ Reads("/etc/halt")
    BY <1>3 DEF StartsHalt, Reads
  <2>2. phase \in {"halt", "tail"} /\ AtHalt
    <3>1. phase \notin {"boot", "login", "next", "stopped"}
      BY <2>1 DEF IInv, AtBoot, AtLogin, AtNext, AtStop, Quiet
    <3>2. ~Underway("command")
      BY <2>1, LineRead
    <3> QED BY <1>1, <2>1, <3>1, <3>2 DEF IInv, TypeOK, AtWait, Underway, Quiet
  <2>3. Quiet'
    BY <2>1, <2>2, LineRead, <1>3 DEF AtHalt, Quiet, StartsHalt
  <2> QED BY <1>1, <1>2, <1>3, <2>2, <2>3 DEF IInv, AtHalt, StartsHalt
<1>4. CASE Halts
  <2>1. phase \in {"halt", "tail"} /\ AtHalt /\ Quiet
    BY <1>4 DEF Halts, IInv, TypeOK, AtBoot, AtLogin, AtNext, AtWait, AtHalt, AtStop
  <2> QED BY <1>1, <1>2, <1>4, <2>1 DEF IInv, AtHalt, Quiet, Halts
<1> QED BY <1>3, <1>4

-----------------------------------------------------------------------------
(* The driver's steps. *)
LEMMA GivesUpKeeps ==
  ASSUME IInv, CommandTimesOut \/ LoginTimesOut \/ UserTimesOut PROVE IInv'
<1>1. TypeOK' /\ TypeOK
  BY TypesKept DEF IInv, Next
<1>2. Fails /\ phase \in {"boot", "login", "wait"}
  BY DEF CommandTimesOut, LoginTimesOut, UserTimesOut, TimesOut, StepFails
<1>3. done <= finished
  BY <1>1, <1>2 DEF IInv, TypeOK, AtBoot, AtLogin, AtWait
<1> QED BY <1>1, <1>2, <1>3 DEF IInv, AtStop, Fails

(* Reading on keeps what the driver takes for granted: nothing is said by it. *)
LEMMA ReadsOnKeeps == ASSUME IInv, AwaitsLogin \/ AwaitsPrompt \/ AwaitsHalt PROVE IInv'
<1>1. TypeOK' /\ TypeOK
  BY TypesKept DEF IInv, Next
<1>2. Pump /\ UNCHANGED <<phase, mark, asked, done, result, tty, input, sun, printed, finished>>
  BY DEF AwaitsLogin, AwaitsPrompt, AwaitsHalt, Loop
<1>3. phase \in {"boot", "wait", "halt"}
  BY DEF AwaitsLogin, AwaitsPrompt, AwaitsHalt, Loop
<1>4. PICK m \in Nat \ {0} : m = mark
  BY <1>1 DEF TypeOK
<1>5. Length' = Length
  BY <1>1, <1>2, PumpsAll
<1>6. ASSUME phase = "boot" PROVE AtBoot'
  BY <1>1, <1>2, <1>5, <1>6, SameWords DEF IInv, AtBoot, Quiet
<1>7. ASSUME phase = "wait" PROVE AtWait'
  <2>1. /\ NotSaid("SUPERUSER", m) => NotSaid("SUPERUSER", m)'
        /\ OnlyLast("SUPERUSER", m) => OnlyLast("SUPERUSER", m)'
    BY <1>1, <1>2, SameWords
  <2>2. /\ NotSaid("SUPERUSER", mark) => NotSaid("SUPERUSER", mark)'
        /\ OnlyLast("SUPERUSER", mark) => OnlyLast("SUPERUSER", mark)'
    BY <1>2, <1>4, <2>1
  <2> QED BY <1>2, <1>5, <1>7, <2>2 DEF IInv, AtWait, Quiet, Echoed, Unechoed
<1>8. ASSUME phase = "halt" PROVE AtHalt'
  BY <1>2, <1>8 DEF IInv, AtHalt, Quiet, Underway, Echoed, Unechoed
<1> QED BY <1>1, <1>2, <1>3, <1>6, <1>7, <1>8 DEF IInv

LEMMA TypeUserKeeps == ASSUME IInv, TypeUser PROVE IInv'
<1>1. TypeOK' /\ TypeOK
  BY TypesKept DEF IInv, Next
<1>2. PICK n \in 1..Length : TRUE
  BY <1>1, FoundIsSaid DEF TypeUser, LoginSeen
<1>3. AtBoot /\ sun = "login" /\ Quiet
  BY <1>2 DEF IInv, TypeUser, AtBoot
<1>4. Unechoed("user")'
  BY <1>3 DEF TypeUser, Types, Quiet, Unechoed
<1>5. UNCHANGED <<text, wire, asked, done, sun, finished, result>> /\ phase = "boot" /\ phase' = "login"
  BY DEF TypeUser
<1>6. NotSaid("SUPERUSER", 1)' /\ NotSaid("TERM", 1)'
  BY <1>1, <1>3, <1>5, SameWords DEF AtBoot
<1> QED BY <1>1, <1>3, <1>4, <1>5, <1>6 DEF IInv, AtBoot, AtLogin, Underway

(* A prompt that was seen is the last word: the shell waits, and nothing is  *)
(* left on the wire.                                                         *)
LEMMA PromptIsLast ==
  ASSUME TypeOK, NEW from \in Nat \ {0}, Found("SUPERUSER", from), OnlyLast("SUPERUSER", from)
  PROVE  wire = <<>>
<1>1. Len(text) \in Nat /\ wire \in Seq(Word)
  BY DEF TypeOK
<1>2. \E n \in from..Len(text) : Said(n) = "SUPERUSER" /\ n \in from..Length
  BY FoundIsSaid
<1>3. \E n \in from..Len(text) : n = Len(text) + Len(wire)
  BY <1>2 DEF OnlyLast, Length
<1>4. Len(wire) = 0
  BY <1>1, <1>3
<1> QED BY <1>1, <1>4

LEMMA LoggedInKeeps == ASSUME IInv, LoggedIn PROVE IInv'
<1>1. TypeOK' /\ TypeOK
  BY TypesKept DEF IInv, Next
<1>2. phase = "login" /\ AtLogin /\ Found("SUPERUSER", 1) /\ phase' = "next"
      /\ UNCHANGED <<text, wire, tty, input, sun, done, finished, result>>
  BY DEF LoggedIn, PromptSeen, IInv, machine
<1>3. ~NotSaid("SUPERUSER", 1)
  BY <1>1, <1>2, FoundIsSaid DEF NotSaid
<1>4. sun = "shell" /\ Quiet /\ OnlyLast("SUPERUSER", 1)
  BY <1>2, <1>3 DEF AtLogin
<1>5. wire = <<>>
  BY <1>1, <1>2, <1>4, PromptIsLast
<1> QED BY <1>1, <1>2, <1>4, <1>5, DriverAssumption DEF IInv, AtLogin, AtNext, Quiet

LEMMA LoginRoundKeeps == ASSUME IInv, LoginRound PROVE IInv'
<1>1. TypeOK' /\ TypeOK
  BY TypesKept DEF IInv, Next
<1>2. phase = "login" /\ AtLogin /\ (Pump \/ UNCHANGED <<text, wire>>)
      /\ UNCHANGED <<phase, mark, done, result, input, sun, finished>>
  BY DEF LoginRound, IInv
<1>3. /\ NotSaid("SUPERUSER", 1) => NotSaid("SUPERUSER", 1)'
      /\ OnlyLast("SUPERUSER", 1) => OnlyLast("SUPERUSER", 1)'
      /\ NotSaid("TERM", 1) => NotSaid("TERM", 1)'
  BY <1>1, <1>2, SameWords
<1>4. CASE TermSeen
  <2>1. ~NotSaid("TERM", 1) /\ ~asked
    BY <1>1, <1>4, FoundIsSaid DEF TermSeen, MayAnswer, NotSaid
  <2>2. sun = "term" /\ NotSaid("SUPERUSER", 1) /\ Quiet /\ done = 0 /\ finished = 0
    BY <1>2, <2>1 DEF AtLogin
  <2>3. asked' /\ Unechoed("return")'
    BY <1>2, <1>4, <2>2 DEF LoginRound, Types, Quiet, Unechoed
  <2> QED BY <1>1, <1>2, <1>3, <2>2, <2>3 DEF IInv, AtLogin, Underway
<1>5. CASE ~TermSeen
  <2>1. UNCHANGED <<tty, asked>>
    BY <1>5 DEF LoginRound
  <2> QED BY <1>1, <1>2, <1>3, <2>1 DEF IInv, AtLogin, Underway, Quiet, Echoed, Unechoed
<1> QED BY <1>4, <1>5

(* The wait for a command's prompt looks behind everything said so far and   *)
(* behind the command's echo.                                                *)
LEMMA TypeCommandKeeps == ASSUME IInv, TypeCommand PROVE IInv'
<1>1. TypeOK' /\ TypeOK
  BY TypesKept DEF IInv, Next
<1>2. AtNext /\ done < Commands
  BY DEF IInv, TypeCommand, MoreToType
<1>3. Unechoed("command")'
  BY <1>2 DEF TypeCommand, Types, AtNext, Quiet, Unechoed
<1>4. (Length + 1)' < mark'
  BY <1>1, <1>2 DEF TypeCommand, LookFrom, AtNext, Length, TypeOK
<1> QED BY <1>1, <1>2, <1>3, <1>4 DEF IInv, TypeCommand, AtNext, AtWait

LEMMA CommandOkKeeps == ASSUME IInv, CommandOk PROVE IInv'
<1>1. TypeOK' /\ TypeOK
  BY TypesKept DEF IInv, Next
<1>2. phase = "wait" /\ AtWait /\ Found("SUPERUSER", mark) /\ phase' = "next" /\ done' = done + 1
      /\ UNCHANGED <<text, wire, tty, input, sun, finished, result>>
  BY DEF CommandOk, PromptBack, IInv, machine
<1>3. PICK m \in Nat \ {0} : m = mark
  BY <1>1 DEF TypeOK
<1>4. Length \in Nat /\ Len(text) \in Nat
  BY <1>1 DEF TypeOK, Length
<1>5. \E n \in m..Length : Said(n) = "SUPERUSER"
  BY <1>1, <1>2, <1>3, FoundIsSaid
<1>6. sun = "shell" /\ Quiet /\ finished = done + 1 /\ OnlyLast("SUPERUSER", m) /\ done < Commands
  BY <1>2, <1>3, <1>4, <1>5 DEF AtWait, NotSaid
<1>7. wire = <<>>
  BY <1>1, <1>2, <1>3, <1>6, PromptIsLast
<1> QED BY <1>1, <1>2, <1>6, <1>7, DriverAssumption DEF IInv, AtNext, Quiet, TypeOK

LEMMA TypeHaltKeeps == ASSUME IInv, TypeHalt PROVE IInv'
<1>1. TypeOK' /\ TypeOK
  BY TypesKept DEF IInv, Next
<1>2. AtNext /\ done = Commands
  BY <1>1, DriverAssumption DEF IInv, TypeHalt, MoreToType, AtNext, TypeOK
<1>3. Unechoed("/etc/halt")'
  BY <1>2 DEF TypeHalt, Types, AtNext, Quiet, Unechoed
<1> QED BY <1>1, <1>2, <1>3 DEF IInv, TypeHalt, AtNext, AtHalt, Underway

LEMMA EndKeeps == ASSUME IInv, HaltWaitEnds \/ ReadTail \/ Stop PROVE IInv'
<1>1. TypeOK' /\ TypeOK
  BY TypesKept DEF IInv, Next
<1>2. AtHalt /\ phase \in {"halt", "tail"}
  BY DEF IInv, HaltWaitEnds, ReadTail, Stop
<1>3. CASE HaltWaitEnds \/ ReadTail
  BY <1>1, <1>2, <1>3 DEF IInv, HaltWaitEnds, ReadTail, machine, AtHalt, Underway, Quiet, Echoed, Unechoed
<1>4. CASE Stop
  BY <1>1, <1>2, <1>4 DEF IInv, Stop, AtHalt, AtStop, TypeOK
<1> QED BY <1>3, <1>4

-----------------------------------------------------------------------------
(* The driver's assumptions hold at every point of its script, however the   *)
(* machine, the line and the host take turns.                                *)
THEOREM ScriptInvariant == Spec => []IInv
<1>1. Init => IInv
  <2> SUFFICES ASSUME Init PROVE IInv
    OBVIOUS
  <2>1. Length = 0
    BY DEF Init, Length
  <2>2. TypeOK
    <3>1. <<>> \in Seq(Word) /\ <<>> \in Seq(Line)
      OBVIOUS
    <3>2. 0 \in Nat /\ 1 \in Nat \ {0}
      OBVIOUS
    <3> QED BY <3>1, <3>2, Zenon DEF Init, TypeOK
  <2>3. AtBoot
    BY <2>1 DEF Init, AtBoot, Quiet, NotSaid
  <2> QED BY <2>2, <2>3 DEF Init, IInv
<1>2. IInv /\ [Next]_vars => IInv'
  <2> SUFFICES ASSUME IInv, [Next]_vars PROVE IInv'
    OBVIOUS
  <2>1. CASE Boots \/ Echoes \/ LogsIn \/ TermGiven
    BY <2>1, BootsKeeps, EchoesKeeps, LogsInKeeps, TermGivenKeeps
  <2>2. CASE StartsCommand \/ CommandPrints \/ CommandEnds \/ StartsHalt \/ Halts
    BY <2>2, StartsCommandKeeps, CommandPrintsKeeps, CommandEndsKeeps, HaltKeeps
  <2>3. CASE CommandTimesOut \/ LoginTimesOut \/ UserTimesOut
    BY <2>3, GivesUpKeeps
  <2>4. CASE AwaitsLogin \/ AwaitsPrompt \/ AwaitsHalt
    BY <2>4, ReadsOnKeeps
  <2>5. CASE TypeUser \/ LoggedIn \/ LoginRound
    BY <2>5, TypeUserKeeps, LoggedInKeeps, LoginRoundKeeps
  <2>6. CASE TypeCommand \/ CommandOk \/ TypeHalt
    BY <2>6, TypeCommandKeeps, CommandOkKeeps, TypeHaltKeeps
  <2>7. CASE HaltWaitEnds \/ ReadTail \/ Stop
    BY <2>7, EndKeeps
  <2>8. CASE UNCHANGED vars
    BY <2>8 DEF vars, driver, machine, IInv, TypeOK, AtBoot, AtLogin, AtNext, AtWait, AtHalt, AtStop,
       Quiet, Underway, Echoed, Unechoed, NotSaid, OnlyLast, Said, Length
  <2> QED BY <2>1, <2>2, <2>3, <2>4, <2>5, <2>6, <2>7, <2>8 DEF Next
<1> QED BY <1>1, <1>2, PTL DEF Spec

(* A command is reported as done only when the machine has finished it, and  *)
(* a session that ends well has carried out every one (main).                *)
THEOREM NeverRunsAhead == Spec => []OkMeansFinished
<1>1. IInv => OkMeansFinished
  BY DEF IInv, TypeOK, AtBoot, AtLogin, AtNext, AtWait, AtHalt, AtStop, OkMeansFinished
<1> QED BY <1>1, ScriptInvariant, PTL

(* A command is typed only to a shell that waits for one (main).             *)
THEOREM TypesToShell == Spec => TypedToShell
<1>1. IInv /\ [Next]_vars =>
        [Len(tty') > Len(tty) /\ phase = "next" => sun = "shell" /\ tty = <<>> /\ input = <<>>]_vars
  BY DEF IInv, AtNext, Quiet
<1> QED BY <1>1, ScriptInvariant, PTL DEF Spec, TypedToShell

-----------------------------------------------------------------------------
(* The keyboard of the PROM. *)

(* Before the drain has ended no empty poll has been counted, except before  *)
(* a reset.                                                                  *)
CountInv == /\ reader \in {"calls", "drains", "waits"} /\ empty_polls \in Nat
            /\ reader # "waits" /\ ~left_over => empty_polls = 0

LEMMA CountInvariance == KeyboardSpec => []CountInv
<1>1. KeyboardInit => CountInv
  BY DEF KeyboardInit, CountInv
<1>2. CountInv /\ [KeyboardNext]_keyboard => CountInv'
  <2> SUFFICES ASSUME CountInv, [KeyboardNext]_keyboard PROVE CountInv'
    OBVIOUS
  <2> USE InputAssumption DEF CountInv, Typed, PollsKey, PollsNothing
  <2>1. CASE GetsCalled
    BY <2>1 DEF GetsCalled
  <2>2. CASE DrainsKey
    BY <2>2 DEF DrainsKey
  <2>3. CASE DrainEnds
    BY <2>3 DEF DrainEnds
  <2>4. CASE WaitsOn
    BY <2>4 DEF WaitsOn
  <2>5. CASE GetsKey
    BY <2>5 DEF GetsKey
  <2>6. CASE TimePasses
    BY <2>6 DEF TimePasses
  <2>7. CASE Reset
    <3>1. reader' = "calls" /\ empty_polls' = empty_polls
      BY <2>7 DEF Reset
    <3>2. ~left_over' => ~(empty_polls > 0)
      BY <2>7, Zenon DEF Reset
    <3> QED
      BY <3>1, <3>2
  <2>8. CASE UNCHANGED keyboard
    BY <2>8 DEF keyboard
  <2> QED
    BY <2>1, <2>2, <2>3, <2>4, <2>5, <2>6, <2>7, <2>8 DEF KeyboardNext
<1> QED
  BY <1>1, <1>2, PTL DEF KeyboardSpec

(* A key turns up while gets() drains only if polls from before a reset are  *)
(* still counted (prom_keyboard_r, which guesses from the number of empty    *)
(* polls, and machine_reset, which keeps it).                                *)
THEOREM DrainTakesNothing == KeyboardSpec => NothingSwallowed
<1>1. CountInv /\ [KeyboardNext]_keyboard => [swallowed' # swallowed => left_over]_keyboard
  <2> SUFFICES ASSUME CountInv, KeyboardNext, swallowed' # swallowed PROVE left_over
    OBVIOUS
  <2>1. DrainsKey
    BY DEF KeyboardNext, GetsCalled, DrainEnds, WaitsOn, GetsKey, TimePasses, Reset
  <2>2. reader = "drains" /\ empty_polls + 1 >= PollsToType
    BY <2>1 DEF DrainsKey, PollsKey, TypesNow
  <2>3. PollsToType \in Nat /\ PollsToType > 1
    BY InputAssumption
  <2> QED
    BY <2>2, <2>3 DEF CountInv
<1> QED
  BY <1>1, CountInvariance, PTL DEF KeyboardSpec, NothingSwallowed
=============================================================================
