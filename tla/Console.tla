------------------------------ MODULE Console -------------------------------
(***************************************************************************)
(* From a key to the screen: the keyboard and its controller (external),   *)
(* the interrupt handler with its decoder and queue                        *)
(* (drivers/ps2/keyboard.rs), the loop of kmain that prints keys (main.rs) *)
(* and the output of other CPUs to the same terminal (stdout.rs).  The     *)
(* model begins when the keyboard has acknowledged that it scans, and its  *)
(* interrupt is not routed yet.                                            *)
(*                                                                         *)
(* The handler and kmain are on CPU 0, which the interrupt is routed to.   *)
(* kmain holds the lock of the queue, and so keeps interrupts disabled,    *)
(* until the key is printed.  TERMINAL is locked for one piece of output,  *)
(* which is printed character by character.                                *)
(***************************************************************************)
EXTENDS Terminal

CONSTANTS
  Scancodes,  \* bytes of the keyboard
  Events,     \* [code, bytes, down]: what keys do, and the scancodes for it
  Name,       \* Name[code]: the characters that print! makes of a key code
  Cpus,       \* the other CPUs
  Output,     \* Output[c]: pieces that CPU c prints, see Piece
  MaxEvents   \* bound on events

Piece ==
  [kind : {"print"}, text : Seq(Chars)]
    \union [kind : {"log"}, fg : Colors, prefix : Seq(Chars), text : Seq(Chars)]

\* The bytes q are those that p begins with.
Begins(q, p) == Len(q) <= Len(p) /\ \A i \in 1..Len(q) : q[i] = p[i]

\* No event's scancodes are the beginning of another's.
ASSUME ConsoleAssumption ==
  /\ MaxEvents \in Nat
  /\ \A e \in Events : e.down \in BOOLEAN /\ e.bytes \in Seq(Scancodes) \ {<<>>}
                       /\ Name[e.code] \in Seq(Chars)
  /\ \A e, f \in Events : Begins(e.bytes, f.bytes) => e = f
  /\ Cpus \subseteq Nat \ {0} /\ Output \in [Cpus -> Seq(Piece)]

VARIABLES
  typed,     \* all events so far, with the bytes and the keys up to each (history)
  stream,    \* all bytes (history)
  pressed,   \* the codes of the keys pressed (history)
  wire,      \* bytes that the controller has not taken yet
  out,       \* output buffer of the controller: no byte or one
  unmasked,  \* the pin of the I/O APIC is unmasked
  irr,       \* the interrupt is pending at the local APIC of CPU 0
  handler,   \* where keyboard_handler is
  byte,      \* scancode
  decoder,   \* bytes that DECODER has seen of an event
  buffer,    \* KEY_BUFFER
  main,      \* where kmain is
  hand,      \* the key that kmain prints
  shown,     \* keys printed (history)
  holder,    \* the CPU that has locked TERMINAL, as a set
  output,    \* what it has yet to print: characters, and colours to set
  term,      \* TERMINAL
  page,      \* all output, on a page without end (history)
  jobs       \* jobs[c]: what CPU c has yet to print

history == <<typed, stream, pressed>>
keyboard == <<history, wire, out, irr>>
driver == <<handler, byte, decoder>>
screen == <<holder, output, term, page>>
vars == <<keyboard, driver, screen, unmasked, buffer, main, hand, shown, jobs>>

-----------------------------------------------------------------------------
(* Output.                                                                 *)

\* The page: the terminal without its end.
NewPage == [lines |-> <<BlankLine>>, col |-> 0, fg |-> "white"]
NextLine(p) == [p EXCEPT !.lines = Append(@, BlankLine), !.col = 0]
OnPage(p, c) ==
  LET cell == IF c \in Font THEN <<c, p.fg>> ELSE Background
      put  == [p EXCEPT !.lines[Len(p.lines)][p.col] = cell, !.col = @ + 1]
  IN  CASE c = "newline" -> NextLine(p)
        [] c = "return"  -> [p EXCEPT !.col = 0]
        [] c = "tab"     -> IF TabStop(p.col) < Cols THEN [p EXCEPT !.col = TabStop(p.col)] ELSE p
        [] OTHER         -> IF put.col = Cols THEN NextLine(put) ELSE put

\* TERMINAL is locked for a piece of output, which is to begin in white.
Lock(c, text) ==
  /\ holder = {}
  /\ holder' = {c} /\ output' = text
  /\ page' = [page EXCEPT !.fg = "white"]
  /\ UNCHANGED term

\* What the holder prints next: set_colors or print_char.
Put ==
  /\ output # <<>>
  /\ LET x == Head(output)
     IN  IF x \in Colors THEN term' = SetColors(term, x) /\ page' = [page EXCEPT !.fg = x]
         ELSE term' = PrintChar(term, x) /\ page' = OnPage(page, x)
  /\ output' = Tail(output)
  /\ UNCHANGED <<keyboard, driver, holder, unmasked, buffer, main, hand, shown, jobs>>

Unlock(c) ==
  /\ holder = {c} /\ output = <<>>
  /\ holder' = {}
  /\ UNCHANGED <<output, term, page>>

\* log_ok, log_warn and log_err.
Log(fg, prefix, text) == <<fg>> \o prefix \o <<"white">> \o text \o <<"newline">>

\* A piece of output of another CPU.  println! is two of them.
Emit(c) ==
  /\ jobs[c] # <<>>
  /\ jobs' = [jobs EXCEPT ![c] = Tail(@)]
  /\ LET job == Head(jobs[c])
     IN  Lock(c, IF job.kind = "print" THEN job.text ELSE Log(job.fg, job.prefix, job.text))
  /\ UNCHANGED <<keyboard, driver, unmasked, buffer, main, hand, shown>>

Emitted(c) ==
  /\ Unlock(c)
  /\ UNCHANGED <<keyboard, driver, unmasked, buffer, main, hand, shown, jobs>>

-----------------------------------------------------------------------------
(* The keyboard and its controller.                                        *)

Type(e) ==
  /\ Len(typed) < MaxEvents
  /\ wire' = wire \o e.bytes
  /\ stream' = stream \o e.bytes
  /\ pressed' = IF e.down THEN Append(pressed, e.code) ELSE pressed
  /\ typed' = Append(typed, [event |-> e, bytes |-> Len(stream'), keys |-> Len(pressed')])
  /\ UNCHANGED <<out, irr, driver, screen, unmasked, buffer, main, hand, shown, jobs>>

\* A byte fills the output buffer; the edge is lost while the pin is masked.
Deliver ==
  /\ wire # <<>> /\ out = <<>>
  /\ out' = <<Head(wire)>> /\ wire' = Tail(wire)
  /\ irr' = (irr \/ unmasked)
  /\ UNCHANGED <<history, driver, screen, unmasked, buffer, main, hand, shown, jobs>>

-----------------------------------------------------------------------------
(* keyboard_handler.                                                       *)

\* An interrupt wakes a CPU that halts.
Woken(pc) == IF pc = "halted" THEN "check" ELSE pc

Open == handler = "none" /\ main \notin {"print", "printing"}

Enter ==
  /\ Open /\ irr
  /\ irr' = FALSE
  /\ handler' = "read"
  /\ main' = Woken(main)
  /\ UNCHANGED <<history, wire, out, byte, decoder, screen, unmasked, buffer, hand, shown, jobs>>

\* read_data waits for a byte.
HandlerRead ==
  /\ handler = "read" /\ out # <<>>
  /\ byte' = Head(out) /\ out' = <<>>
  /\ handler' = "decode"
  /\ UNCHANGED <<history, wire, irr, decoder, screen, unmasked, buffer, main, hand, shown, jobs>>

\* pc_keyboard's add_byte: the event that the bytes end, if they end one.
Decoded(bytes) == {e \in Events : e.bytes = bytes}

\* Variant: every event is queued.
QueuedAll(e) == TRUE

Queued(e) == e.down

HandlerPush ==
  /\ handler = "decode"
  /\ LET bytes == Append(decoder, byte)
         got   == Decoded(bytes)
     IN  \/ got = {} /\ decoder' = bytes /\ UNCHANGED buffer
         \/ \E e \in got :
              /\ decoder' = <<>>
              /\ buffer' = IF Queued(e) THEN Append(buffer, e.code) ELSE buffer
  /\ handler' = "none"
  /\ UNCHANGED <<keyboard, byte, screen, unmasked, main, hand, shown, jobs>>

-----------------------------------------------------------------------------
(* kmain.                                                                  *)

\* The end of keyboard::init.
Unmask ==
  /\ main = "init" /\ handler = "none"
  /\ unmasked' = TRUE
  /\ main' = "check"
  /\ UNCHANGED <<keyboard, driver, screen, buffer, hand, shown, jobs>>

\* pop_front, with the lock of the queue.
Check ==
  /\ main = "check" /\ handler = "none"
  /\ \/ /\ buffer # <<>>
        /\ hand' = <<Head(buffer)>> /\ buffer' = Tail(buffer)
        /\ main' = "print"
     \/ /\ buffer = <<>>
        /\ main' = "idle"
        /\ UNCHANGED <<hand, buffer>>
  /\ UNCHANGED <<keyboard, driver, screen, unmasked, shown, jobs>>

PrintKey ==
  /\ main = "print"
  /\ Lock(0, Name[hand[1]])
  /\ main' = "printing"
  /\ UNCHANGED <<keyboard, driver, unmasked, buffer, hand, shown, jobs>>

KeyPrinted ==
  /\ main = "printing"
  /\ Unlock(0)
  /\ shown' = shown \o hand /\ hand' = <<>>
  /\ main' = "check"
  /\ UNCHANGED <<keyboard, driver, unmasked, buffer, jobs>>

\* hlt; between the check and hlt interrupts are enabled.
Hlt ==
  /\ main = "idle" /\ handler = "none"
  /\ main' = "halted"
  /\ UNCHANGED <<keyboard, driver, screen, unmasked, buffer, hand, shown, jobs>>

\* Variant: after a timer interrupt kmain halts again.
HaltAgain == "idle"

\* The loop of kmain goes on at its start.
AfterTimer == "check"

\* The timer interrupt.  kmain goes on when it gets the CPU back.
Timer ==
  /\ Open /\ main = "halted"
  /\ main' = AfterTimer
  /\ UNCHANGED <<keyboard, driver, screen, unmasked, buffer, hand, shown, jobs>>

-----------------------------------------------------------------------------

Init ==
  /\ typed = <<>> /\ stream = <<>> /\ pressed = <<>> /\ wire = <<>> /\ out = <<>>
  /\ unmasked = FALSE /\ irr = FALSE
  /\ handler = "none" /\ byte = "none" /\ decoder = <<>>
  /\ buffer = <<>> /\ main = "init" /\ hand = <<>> /\ shown = <<>>
  /\ holder = {} /\ output = <<>> /\ term = Cleared /\ page = NewPage
  /\ jobs = Output

Handler == Enter \/ HandlerRead \/ HandlerPush
Kmain == Unmask \/ Check \/ PrintKey \/ KeyPrinted \/ Hlt
Printing == Put \/ \E c \in Cpus : Emitted(c)

Next ==
  \/ \E e \in Events : Type(e)
  \/ Deliver \/ Handler \/ Kmain \/ Timer \/ Printing
  \/ \E c \in Cpus : Emit(c)

Spec == Init /\ [][Next]_vars

\* Devices answer, the timer keeps firing, kmain gets the CPU again, and who has
\* locked TERMINAL goes on.
FairSpec ==
  /\ Spec /\ WF_vars(Deliver) /\ WF_vars(Handler) /\ WF_vars(Kmain) /\ WF_vars(Timer)
  /\ WF_vars(Printing)

-----------------------------------------------------------------------------
(* Properties.                                                             *)

\* Bytes and keys of the first n events.
Bytes(events, n) == IF n = 0 THEN 0 ELSE events[n].bytes
Keys(events, n) == IF n = 0 THEN 0 ELSE events[n].keys

UnderWay == (IF handler = "decode" THEN <<byte>> ELSE <<>>) \o out \o wire

\* No key is lost, doubled or overtaken on its way through the controller, the
\* decoder, the queue and kmain, wherever interrupts come in between: the keys of
\* the first events have come through, in order, and exactly the bytes of the
\* other events are still under way.
KeysInOrder ==
  \E n \in 0..Len(typed) :
    /\ shown \o hand \o buffer = SubSeq(pressed, 1, Keys(typed, n))
    /\ decoder \o UnderWay = SubSeq(stream, Bytes(typed, n) + 1, Len(stream))

\* A byte that came before the pin was unmasked: its edge is lost, and with it
\* the keyboard, because no other byte comes before this one is read.
Missed == unmasked /\ out # <<>> /\ ~irr /\ handler # "read"

\* Every key pressed is printed, even one that comes between the check of the
\* queue and hlt, unless a key came before the pin was unmasked.
KeysPrinted ==
  \A n \in 1..MaxEvents : (Len(pressed) >= n) ~> (Missed \/ Len(shown) >= n)

\* The first of the lines that is on the screen.
Start(lines) == IF Len(lines) > Rows THEN Len(lines) - Rows ELSE 0

Cell(lines, n, x) == IF n <= Len(lines) THEN lines[n][x] ELSE Background

\* Line i of the glyph in a cell.
Drawn(cell, i) == IF cell = Background THEN Background ELSE <<cell[1], cell[2], i>>

\* What is to be at line y of pixels, in column x.
Picture(lines, y, x) ==
  IF y \div GlyphHeight >= Rows THEN Background
  ELSE Drawn(Cell(lines, Start(lines) + (y \div GlyphHeight) + 1, x), y % GlyphHeight)

\* The screen is the end of the page: lines scroll without a trace, also when
\* the screen is not a multiple of the lines of text, each character has its
\* glyph and colour, whichever CPUs print in between, and the cursor is in place.
ScreenShows ==
  /\ term.row = Len(page.lines) - Start(page.lines) - 1 /\ term.col = page.col
  /\ \A y \in 0..(Height - 1), x \in 0..(Cols - 1) : term.fb[y][x] = Picture(page.lines, y, x)
=============================================================================
