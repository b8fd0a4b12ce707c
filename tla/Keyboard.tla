------------------------------ MODULE Keyboard ------------------------------
(***************************************************************************)
(* Canned input typed at the PROM's keyboard port (prom_keyboard_r).  The  *)
(* driver cannot see whether the machine waits for a key; it tells from    *)
(* the polls: gets() first drains what was typed ahead, until a poll       *)
(* answers nothing, and then polls for good.                               *)
(***************************************************************************)
EXTENDS Naturals, Sequences

CONSTANTS Input,         \* what there is to type, a sequence
          NewLine,       \* the key that ends a line
          PollsToType    \* empty polls before a key turns up (400)

ASSUME InputAssumption == Input \in Seq(STRING) /\ PollsToType \in Nat \ {0, 1}

VARIABLES inpos,         \* keys typed so far
          empty_polls,   \* polls answered with nothing since the last key
          rested,        \* 20 ms have passed since the last key
          reader,        \* "calls", "drains" or "waits": where gets() is
          swallowed,     \* keys that its drain has thrown away
          left_over      \* polls counted before a reset are counted still

keyboard == <<inpos, empty_polls, rested, reader, swallowed, left_over>>

KeyboardInit == /\ inpos = 0 /\ empty_polls = 0 /\ rested = FALSE
                /\ reader = "calls" /\ swallowed = <<>> /\ left_over = FALSE

(* (Mutation: a key does not start the count afresh.)                        *)
Typed_KeepsCount == UNCHANGED empty_polls /\ left_over' = FALSE

Typed == empty_polls' = 0 /\ left_over' = FALSE

(* (Mutation: more polls asked for than are ever counted.)                   *)
TypesNow_Never == empty_polls > PollsToType /\ rested

(* Long enough polled, and long enough since the last key. *)
TypesNow == empty_polls + 1 >= PollsToType /\ rested

(* A poll of the port: a key, or nothing.  The count stands for itself up to *)
(* the value that matters.                                                   *)
PollsKey     == /\ inpos < Len(Input) /\ TypesNow
                /\ Typed /\ rested' = FALSE
                /\ inpos' = inpos + 1
PollsNothing == /\ inpos < Len(Input) => ~TypesNow
                /\ empty_polls' = IF inpos < Len(Input) /\ empty_polls < PollsToType
                                    THEN empty_polls + 1 ELSE empty_polls
                /\ UNCHANGED <<inpos, rested, left_over>>

Key == Input[inpos + 1]

GetsCalled == /\ reader = "calls" /\ reader' = "drains"
              /\ UNCHANGED <<inpos, empty_polls, rested, swallowed, left_over>>

DrainsKey == /\ reader = "drains" /\ PollsKey
             /\ swallowed' = Append(swallowed, Key)
             /\ UNCHANGED reader

DrainEnds == /\ reader = "drains" /\ PollsNothing
             /\ reader' = "waits"
             /\ UNCHANGED swallowed

WaitsOn == /\ reader = "waits" /\ PollsNothing
           /\ UNCHANGED <<reader, swallowed>>

GetsKey == /\ reader = "waits" /\ PollsKey
           /\ reader' = IF Key = NewLine THEN "calls" ELSE reader
           /\ UNCHANGED swallowed

TimePasses == /\ ~rested /\ rested' = TRUE
              /\ UNCHANGED <<inpos, empty_polls, reader, swallowed, left_over>>

(* machine_reset leaves the input and the count of polls as they are.        *)
Reset == /\ reader' = "calls"
         /\ left_over' = (left_over \/ empty_polls > 0)
         /\ UNCHANGED <<inpos, empty_polls, rested, swallowed>>

KeyboardNext == \/ GetsCalled \/ DrainsKey \/ DrainEnds \/ WaitsOn \/ GetsKey
                \/ TimePasses \/ Reset

KeyboardSpec == /\ KeyboardInit /\ [][KeyboardNext]_keyboard
                /\ WF_keyboard(DrainEnds \/ WaitsOn \/ GetsKey \/ DrainsKey)
                /\ WF_keyboard(TimePasses)

-----------------------------------------------------------------------------
(* No key turns up while gets() throws away what was typed ahead, unless     *)
(* polls from before a reset are still counted (the comment in               *)
(* prom_keyboard_r: a character must only turn up once the machine is really *)
(* waiting for one; m_empty_polls is what survives the reset).               *)
NothingSwallowed == [][swallowed' # swallowed => left_over]_keyboard

(* A machine that waits gets its line as long as there is something to type. *)
WaitEnds == (reader = "waits" /\ \E i \in inpos+1..Len(Input) : Input[i] = NewLine)
              ~> reader = "calls"
=============================================================================
