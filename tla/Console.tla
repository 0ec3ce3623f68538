------------------------------- MODULE Console -------------------------------
(***************************************************************************)
(* printf of src/shared/wstdlib.c and the serial port it writes to.        *)
(*                                                                         *)
(* The conversions append to one buffer, which is sent to the port when a  *)
(* text does not fit and when printf ends.  The port is an actor of its    *)
(* own: serial_putc waits until the transmit holding register is empty and *)
(* fills it, and the port empties it at its own pace.                      *)
(*                                                                         *)
(* `todo' is what the running printf has still to do, nested calls         *)
(* included: malloc and free print a message themselves after the end of   *)
(* boot services.  Characters are numbers, as in the code.                 *)
(***************************************************************************)
EXTENDS Integers, SequencesExt

CONSTANTS
  Scripts,       \* what the loader may call, each a sequence of statements
  BUFFER_SIZE,   \* _PRINTF_BUFFER_SIZE
  NARROW_MAX,    \* the 255 characters that %-s copies at most
  POINTER_DIGITS,\* the 16 digits of %p
  CHAR_LIMIT,    \* 2^8: what the port sends of a CHAR16
  BugMalloc, BugFree, \* the messages of malloc and free
  NONE           \* the empty transmit holding register

ASSUME ConsoleAssumption ==
  /\ BUFFER_SIZE \in Nat \ {0, 1}
  /\ NARROW_MAX \in 0..(BUFFER_SIZE - 1)
  /\ POINTER_DIGITS \in Nat \ {0} /\ CHAR_LIMIT \in Nat \ {0}
  /\ BugMalloc \in Seq(Nat) /\ BugFree \in Seq(Nat)
  /\ NONE \notin Nat

(* The powers of base up to the n-th, which the divisors go through.        *)
Powers(base, n) ==
  LET Power[k \in 0..n] == IF k = 0 THEN 1 ELSE base * Power[k - 1] IN Power

(* An argument has the type its conversion reads.                           *)
IsItem(item) ==
  CASE item.spec \in {"s", "-s"} -> item.arg \in Seq(Nat)
    [] item.spec = "d" -> item.arg \in Int
    [] item.spec = "p" -> item.arg \in 0..(Powers(16, POINTER_DIGITS)[POINTER_DIGITS] - 1)
    [] item.spec \in {"literal", "c", "u", "x", "%", "other", "-other"} -> item.arg \in Nat
    [] OTHER -> FALSE

ASSUME ScriptsAssumption ==
  \A s \in Scripts :
    /\ Len(s) \in Nat
    /\ \A n \in 1..Len(s) :
         /\ Len(s[n].items) \in Nat /\ \A k \in 1..Len(s[n].items) : IsItem(s[n].items[k])
         /\ \/ s[n].call = "printf"
            \/ s[n].call = "wstdlib_bs_exited" /\ s[n].items = <<>>

VARIABLES
  script,    \* the statements of this run of the loader
  next,      \* the next of them
  todo,      \* what is left of the current printf
  buffer,    \* _printf_buffer up to _printf_buffer_pos
  sent,      \* i of _printf_flush
  thr,       \* the transmit holding register
  wire,      \* what the port has sent
  bsExited,  \* _bs_exited
  blocks,    \* the copies of %-s that are allocated
  stopped    \* "no", or the undefined behaviour that ended the program

vars == <<script, next, todo, buffer, sent, thr, wire, bsExited, blocks, stopped>>

Init ==
  /\ script \in Scripts
  /\ next = 1
  /\ todo = <<>>
  /\ buffer = <<>> /\ sent = 0
  /\ thr = NONE /\ wire = <<>>
  /\ bsExited = FALSE
  /\ blocks = 0
  /\ stopped = "no"

-----------------------------------------------------------------------------
(* The conversions.                                                         *)

DigitChar(digit) == IF digit < 10 THEN digit + 48 ELSE digit - 10 + 97

(* _printf_write_uintn and _printf_write_hex: the divisor grows until one   *)
(* digit is left, and shrinks again digit by digit.                         *)
Numeral(num, base) ==
  LET Power == Powers(base, num)
      top == CHOOSE k \in 0..num :
               num \div Power[k] < base /\ \A j \in 0..(k - 1) : num \div Power[j] >= base
  IN [n \in 1..(top + 1) |-> DigitChar((num \div Power[top + 1 - n]) % base)]

Pointer(num) ==
  LET Power == Powers(16, POINTER_DIGITS)
  IN [n \in 1..POINTER_DIGITS |-> DigitChar((num \div Power[POINTER_DIGITS - n]) % 16)]

Write(text) == [op |-> "write", text |-> text]
Store(text) == [op |-> "store", text |-> text]
Malloc(text) == [op |-> "malloc", text |-> text]
Copy(text) == [op |-> "copy", text |-> text]
Free(n) == [op |-> "free", count |-> n]
Flush == [op |-> "flush"]

(* _printf_write_char is _printf_write of one character.                    *)
WriteChars(text) == [n \in 1..Len(text) |-> Write(<<text[n]>>)]

Conversion(item) ==
  CASE item.spec \in {"literal", "c"} -> <<Write(<<item.arg>>)>>
    [] item.spec = "s" -> <<Write(item.arg)>>
    [] item.spec = "u" -> WriteChars(Numeral(item.arg, 10))
    [] item.spec = "x" -> WriteChars(Numeral(item.arg, 16))
    [] item.spec = "d" /\ item.arg < 0 -> <<Write(<<45>>)>> \o WriteChars(Numeral(-item.arg, 10))
    [] item.spec = "d" /\ item.arg >= 0 -> WriteChars(Numeral(item.arg, 10))
    [] item.spec = "p" -> <<Write(<<48, 120>>)>> \o WriteChars(Pointer(item.arg))
    [] item.spec = "%" -> <<Write(<<37>>)>>
    [] item.spec = "-s" -> <<Malloc(item.arg)>>
    [] item.spec \in {"other", "-other"} -> <<Write(<<37>>), Write(<<item.arg>>)>>

Printf(items) == FlattenSeq([n \in 1..Len(items) |-> Conversion(items[n])]) \o <<Flush>>

Text(chars) == [n \in 1..Len(chars) |-> [spec |-> "literal", arg |-> chars[n]]]

(* What %-s copies of its argument.                                         *)
Narrow(str) == SubSeq(str, 1, IF Len(str) < NARROW_MAX THEN Len(str) ELSE NARROW_MAX)

-----------------------------------------------------------------------------
Doing(op) == stopped = "no" /\ todo # <<>> /\ Head(todo).op = op

(* The head of todo is done, and ops are what it comes to.                  *)
Becomes(ops) == todo' = ops \o Tail(todo)

loaderVars == <<script, next, bsExited>>

Call ==
  /\ stopped = "no" /\ todo = <<>>
  /\ next <= Len(script)
  /\ next' = next + 1
  /\ \/ /\ script[next].call = "printf"
        /\ todo' = Printf(script[next].items)
        /\ UNCHANGED bsExited
     \/ /\ script[next].call = "wstdlib_bs_exited"
        /\ bsExited' = TRUE
        /\ UNCHANGED todo
  /\ UNCHANGED <<script, buffer, sent, thr, wire, blocks, stopped>>

Full(text) == Len(buffer) + Len(text) >= BUFFER_SIZE

(* _printf_write: at most one flush makes room.                             *)
LateWriteText ==
  /\ Doing("write")
  /\ LET text == Head(todo).text IN
     Becomes((IF Len(buffer) >= BUFFER_SIZE THEN <<Flush>> ELSE <<>>) \o <<Store(text)>>)
  /\ UNCHANGED <<loaderVars, buffer, sent, thr, wire, blocks, stopped>>
WriteText ==
  /\ Doing("write")
  /\ LET text == Head(todo).text IN
     Becomes((IF Full(text) THEN <<Flush>> ELSE <<>>) \o <<Store(text)>>)
  /\ UNCHANGED <<loaderVars, buffer, sent, thr, wire, blocks, stopped>>

StoreText ==
  /\ Doing("store")
  /\ LET text == Head(todo).text IN
     IF Len(buffer) + Len(text) <= BUFFER_SIZE
       THEN buffer' = buffer \o text /\ Becomes(<<>>) /\ UNCHANGED stopped
       ELSE stopped' = "overrun" /\ UNCHANGED <<buffer, todo>>
  /\ UNCHANGED <<loaderVars, sent, thr, wire, blocks>>

(* serial_putc, and the loop of _printf_flush around it.                    *)
Putc(ready) ==
  /\ Doing("flush")
  /\ sent < Len(buffer)
  /\ ready
  /\ thr' = buffer[sent + 1] % CHAR_LIMIT
  /\ sent' = sent + 1
  /\ UNCHANGED <<loaderVars, todo, buffer, wire, blocks, stopped>>
HastySerialPutc == Putc(TRUE)
InvertedSerialPutc == Putc(thr # NONE)
SerialPutc == Putc(thr = NONE)

FlushEnds ==
  /\ Doing("flush")
  /\ sent = Len(buffer)
  /\ buffer' = <<>> /\ sent' = 0
  /\ Becomes(<<>>)
  /\ UNCHANGED <<loaderVars, thr, wire, blocks, stopped>>

(* malloc for the copy of %-s, whose result is not checked.                 *)
MallocCopy ==
  /\ Doing("malloc")
  /\ LET text == Head(todo).text IN
     \/ /\ bsExited
        /\ Becomes(Printf(Text(BugMalloc)) \o <<Copy(text)>>)
        /\ UNCHANGED blocks
     \/ /\ ~bsExited
        /\ blocks' = blocks + 1
        /\ Becomes(<<Write(Narrow(text)), Free(1)>>)
     \/ /\ ~bsExited
        /\ Becomes(<<Copy(text)>>)
        /\ UNCHANGED blocks
  /\ UNCHANGED <<loaderVars, buffer, sent, thr, wire, stopped>>

(* The copy goes to address 0: the machine faults, or memory is there.      *)
CopyToNull ==
  /\ Doing("copy")
  /\ \/ stopped' = "null" /\ UNCHANGED todo
     \/ Becomes(<<Write(Narrow(Head(todo).text)), Free(0)>>) /\ UNCHANGED stopped
  /\ UNCHANGED <<loaderVars, buffer, sent, thr, wire, blocks>>

FreeCopy ==
  /\ Doing("free")
  /\ IF bsExited
       THEN Becomes(Printf(Text(BugFree))) /\ UNCHANGED blocks
       ELSE Becomes(<<>>) /\ blocks' = blocks - Head(todo).count
  /\ UNCHANGED <<loaderVars, buffer, sent, thr, wire, stopped>>

Loader ==
  \/ Call \/ WriteText \/ StoreText \/ SerialPutc \/ FlushEnds
  \/ MallocCopy \/ CopyToNull \/ FreeCopy

(* The port sends the character it holds.                                   *)
Transmit ==
  /\ thr # NONE
  /\ wire' = Append(wire, thr)
  /\ thr' = NONE
  /\ UNCHANGED <<loaderVars, todo, buffer, sent, blocks, stopped>>

Next == Loader \/ Transmit

(* The loader runs, and the port sends what it holds.                       *)
Spec == Init /\ [][Next]_vars /\ WF_vars(Loader) /\ WF_vars(Transmit)

-----------------------------------------------------------------------------
(* Properties.                                                              *)

(* What wstdlib.h says an item is printed as: digits from the lowest up, a  *)
(* string as a whole, and what is not supported as it stands.  The messages *)
(* of malloc and free come where they interrupt it.                         *)
Digits(num, base) ==
  LET D[n \in 0..num] ==
        IF n < base THEN <<DigitChar(n)>> ELSE Append(D[n \div base], DigitChar(n % base))
  IN D[num]

Meaning(item, exited) ==
  CASE item.spec \in {"literal", "c"} -> <<item.arg>>
    [] item.spec = "s" -> item.arg
    [] item.spec = "u" -> Digits(item.arg, 10)
    [] item.spec = "x" -> Digits(item.arg, 16)
    [] item.spec = "d" -> IF item.arg < 0 THEN <<45>> \o Digits(-item.arg, 10)
                                          ELSE Digits(item.arg, 10)
    [] item.spec = "p" ->
         LET d == Digits(item.arg, 16)
         IN <<48, 120>> \o [n \in 1..(POINTER_DIGITS - Len(d)) |-> 48] \o d
    [] item.spec = "%" -> <<37>>
    [] item.spec = "other" -> <<37, item.arg>>
    [] item.spec = "-other" -> <<37, 45, item.arg>>
    [] item.spec = "-s" /\ ~exited -> item.arg
    [] item.spec = "-s" /\ exited -> BugMalloc \o item.arg \o BugFree

(* What the calls so far mean, the characters taken to bytes, and what of   *)
(* the line has been given to the port.                                     *)
Said ==
  LET Exited(n) == \E k \in 1..n : script[k].call = "wstdlib_bs_exited"
      Statement(n) == FlattenSeq([k \in 1..Len(script[n].items) |->
                                    Meaning(script[n].items[k], Exited(n))])
      chars == FlattenSeq([n \in 1..(next - 1) |-> Statement(n)])
  IN [n \in 1..Len(chars) |-> chars[n] % CHAR_LIMIT]

Given == IF thr = NONE THEN wire ELSE Append(wire, thr)

(* The serial line never carries anything but what wstdlib.h says the calls *)
(* of printf print.                                                         *)
AsHeaderSays == IsPrefix(Given, Said)

(* The two kinds of items that printf does not print as wstdlib.h says: %-  *)
(* before anything but an s loses its -, and %-s ends after NARROW_MAX      *)
(* characters.                                                              *)
Departs(item) ==
  \/ item.spec = "-other"
  \/ item.spec = "-s" /\ Len(item.arg) > NARROW_MAX
Departed == \E n \in 1..(next - 1) : \E k \in 1..Len(script[n].items) : Departs(script[n].items[k])

(* Until an item of these two kinds is printed, the serial line carries     *)
(* what the calls of printf mean, in their order: nothing is lost, repeated *)
(* or overtaken, whatever the pace of the port and wherever the buffer had  *)
(* to be flushed.  When a call returns all of it has been given to the      *)
(* port, and, whatever was printed, neither text nor a copy is left.        *)
SerialOutput ==
  /\ ~Departed => AsHeaderSays
  /\ todo = <<>> => buffer = <<>> /\ blocks = 0 /\ (~Departed => Given = Said)

(* The buffer is overrun only by one %s longer than all of it: no           *)
(* conversion that goes character by character, and no sequence of shorter  *)
(* ones, can do it.                                                         *)
OverrunOnlyByLongString ==
  stopped = "overrun" =>
    \E k \in 1..Len(script[next - 1].items) :
      LET item == script[next - 1].items[k] IN
      item.spec = "s" /\ Len(item.arg) > BUFFER_SIZE

(* Every printf comes to an end: the nested messages do not call each other *)
(* for ever, and each wait for the port ends.                               *)
PrintfReturns == <>(stopped # "no" \/ (todo = <<>> /\ next > Len(script)))
==============================================================================
