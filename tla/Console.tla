------------------------------ MODULE Console ------------------------------
(***************************************************************************)
(* The kernel's console: the serial ports (arch/x64/uart/uart.c), printk   *)
(* called by main, and printk called by the keyboard interrupt in the      *)
(* middle of it (arch/x64/int/idt.c).  A character is sent in two steps,   *)
(* as in com_send: wait until the port can send, then write the data       *)
(* register; the interrupt may come in between.                            *)
(***************************************************************************)
EXTENDS Printk

CONSTANTS
    Port,       \* the base addresses that are tried, 1 .. n
    FifoSize,   \* characters the transmitter of a port can hold
    Formats,    \* the formats main may print
    Values,     \* the arguments
    Alphabet,   \* the characters that parse_conversion is tried on
    MaxPart     \* and the most of them in each part of a conversion

VARIABLES
    works,      \* the ports that exist
    regs,       \* [Port -> [fifoOn, loopback, fifo]]
    status,     \* com_ports[p].status
    uart_port,  \* the console, or 0 for NULL
    next,       \* the port x64_uart_init comes to next
    main, key,  \* the two printers: [port, text, sent, waited]
    call,       \* main's printk call: [fmt, x, lost], fmt << >> before it
    struck,     \* history: what main had sent when the key was struck, or -1
    line        \* what has come out of each port

vars == <<works, regs, status, uart_port, next, main, key, call, struck, line>>

Greeting == <<1003>>
KeyText == <<1004, 1005>>     \* "Keystroke (%#x)\n", as two characters
Silent == [port |-> 0, text |-> << >>, sent |-> 0, waited |-> FALSE]
Busy(p) == p.sent < Len(p.text)

Init ==
    /\ works \in SUBSET Port
    /\ regs = [p \in Port |-> [fifoOn |-> FALSE, loopback |-> FALSE, fifo |-> << >>]]
    /\ status = [p \in Port |-> "BUSY"]
    /\ uart_port = 0
    /\ next = 1
    /\ main = Silent /\ key = Silent
    /\ call = [fmt |-> << >>, x |-> 0, lost |-> FALSE]
    /\ struck = -1
    /\ line = [p \in Port |-> << >>]

-----------------------------------------------------------------------------
\* Faulty variants: the FIFO is not switched on; the port is left in loopback mode.
SetUpNoFifo(p) ==
    IF p \in works THEN [fifoOn |-> FALSE, loopback |-> FALSE, fifo |-> << >>]
    ELSE regs[p]
SetUpLooped(p) ==
    IF p \in works THEN [fifoOn |-> TRUE, loopback |-> TRUE, fifo |-> << >>]
    ELSE regs[p]

\* com_port_setup: a port that echoes the test byte is ready; there is nothing
\* behind the address of one that does not.
SetUp(p) ==
    IF p \in works THEN [fifoOn |-> TRUE, loopback |-> FALSE, fifo |-> << >>]
    ELSE regs[p]

\* One round of x64_uart_init: the first port that works becomes the console,
\* and every port that works is greeted.
UartInit ==
    /\ next \in Port /\ ~Busy(main)
    /\ regs' = [regs EXCEPT ![next] = SetUp(next)]
    /\ status' = [status EXCEPT ![next] = IF next \in works THEN "READY" ELSE "BROKEN"]
    /\ uart_port' = IF uart_port = 0 /\ next \in works THEN next ELSE uart_port
    /\ main' = IF next \in works THEN [Silent EXCEPT !.port = next, !.text = Greeting] ELSE main
    /\ next' = next + 1
    /\ UNCHANGED <<works, key, call, struck, line>>

\* Without a console arch_initialise halts.
Up == next \notin Port /\ uart_port # 0

Printk(f, x) ==
    /\ Up /\ ~Busy(main) /\ ~Busy(key) /\ call.fmt = << >>
    /\ LET out == printk(f, x) IN
        /\ main' = [Silent EXCEPT !.port = uart_port, !.text = out.text]
        /\ call' = [fmt |-> f, x |-> x, lost |-> out.lost]
    /\ UNCHANGED <<works, regs, status, uart_port, next, key, struck, line>>

\* The keyboard interrupt: its handler prints, and main waits for it.
KeyStroke ==
    /\ Up /\ call.fmt # << >> /\ struck = -1
    /\ key' = [Silent EXCEPT !.port = uart_port, !.text = KeyText]
    /\ struck' = main.sent
    /\ UNCHANGED <<works, regs, status, uart_port, next, main, call, line>>

\* can_send: the transmitter is empty.
THRE(p) == regs[p].fifo = << >>

\* Outside the FIFO mode the transmitter holds one character, and another one
\* written over it is lost.
Written(r, ch) ==
    IF r.fifoOn /\ Len(r.fifo) < FifoSize THEN [r EXCEPT !.fifo = Append(@, ch)]
    ELSE [r EXCEPT !.fifo = <<ch>>]

\* The two steps of com_send, for a port that is ready.
Waited(p) == [p EXCEPT !.waited = TRUE]
Sent(p) == [p EXCEPT !.waited = FALSE, !.sent = @ + 1]

Ready(p) == status[p.port] = "READY"
WriteData(p) == regs' = [regs EXCEPT ![p.port] = Written(@, p.text[p.sent + 1])]

CanSendMain ==
    /\ Busy(main) /\ ~Busy(key) /\ ~main.waited /\ Ready(main)
    /\ THRE(main.port)
    /\ main' = Waited(main)
    /\ UNCHANGED <<works, regs, status, uart_port, next, key, call, struck, line>>

OutbMain ==
    /\ Busy(main) /\ ~Busy(key) /\ main.waited
    /\ WriteData(main)
    /\ main' = Sent(main)
    /\ UNCHANGED <<works, status, uart_port, next, key, call, struck, line>>

\* Nothing interrupts the handler, but the transmitter works on.
CanSendKey ==
    /\ Busy(key) /\ ~key.waited /\ Ready(key)
    /\ THRE(key.port)
    /\ key' = Waited(key)
    /\ UNCHANGED <<works, regs, status, uart_port, next, main, call, struck, line>>

OutbKey ==
    /\ Busy(key) /\ key.waited
    /\ WriteData(key)
    /\ key' = Sent(key)
    /\ UNCHANGED <<works, status, uart_port, next, main, call, struck, line>>

\* The port sends a character; in loopback mode it comes back instead.
Transmit(p) ==
    /\ regs[p].fifo # << >>
    /\ line' = IF regs[p].loopback THEN line ELSE [line EXCEPT ![p] = Append(@, Head(regs[p].fifo))]
    /\ regs' = [regs EXCEPT ![p].fifo = Tail(@)]
    /\ UNCHANGED <<works, status, uart_port, next, main, key, call, struck>>

Send == CanSendMain \/ OutbMain \/ CanSendKey \/ OutbKey

Next ==
    \/ UartInit
    \/ \E f \in Formats, x \in Values : Printk(f, x)
    \/ KeyStroke
    \/ Send
    \/ \E p \in Port : Transmit(p)

\* A port that works sends what it holds, and the processor runs on.
Spec ==
    /\ Init /\ [][Next]_vars
    /\ WF_vars(Send)
    /\ \A p \in Port : WF_vars(Transmit(p))

-----------------------------------------------------------------------------
\* The printers and the ports keep their shapes, and a transmitter never holds
\* more than it has room for.
TypeOK ==
    /\ uart_port \in Port \cup {0}
    /\ \A p \in Port : status[p] \in {"BUSY", "READY", "BROKEN"} /\ Len(regs[p].fifo) <= FifoSize
    /\ \A p \in {main, key} : p.sent \in 0 .. Len(p.text)

\* What the printers have handed over so far, the handler's characters in the
\* place where it interrupted main.
HandedOver ==
    LET done == SubSeq(main.text, 1, main.sent)
        keys == SubSeq(key.text, 1, key.sent)
    IN  IF call.fmt = << >> THEN << >>
        ELSE IF struck < 0 THEN done
        ELSE SubSeq(done, 1, struck) \o keys \o SubSeq(done, struck + 1, Len(done))

\* No character is lost, doubled or moved on its way to the console, wherever
\* between the test and the write of com_send the interrupt comes in: what has
\* come out and what the transmitter holds is the greeting and what was printed.
\* The console is the first port that works, and ports that do not get nothing
\* (and a transmitter never holds more than it has room for, with the other types).
LineExact ==
    /\ TypeOK
    /\ Up => /\ uart_port = Min(works)
             /\ call.fmt # << >> =>
                    line[uart_port] \o regs[uart_port].fifo = Greeting \o HandedOver
    /\ \A p \in Port \ works : line[p] \o regs[p].fifo = << >>

ParserFollows(grammar) ==
    /\ \A g \in grammar : parse_conversion(g.str, 0) = [end |-> Len(g.str), spec |-> g.spec]
    /\ LET accepted == {g.str : g \in grammar} IN
       \A s \in UNION {[1 .. n -> Alphabet] : n \in 0 .. MaxPart + 1} :
            LET end == parse_conversion(<<37>> \o s, 0).end IN
            end # NULL => SubSeq(<<37>> \o s, 1, end) \in accepted

\* parse_conversion accepts exactly the conversions of the grammar in its
\* comment, and takes from each what it says.  (The functions have no state: they
\* are tried once, before the ports are set up.)
ParseByGrammar == next = 1 => ParserFollows(Grammar(Alphabet, MaxPart))

ReadsBack(x, spec) ==
    LET dec == print_i64(x, spec)
        hex == print_u64_hex(x, spec)
        sign == IF x < 0 THEN <<45>> ELSE IF 43 \in spec.flags THEN <<43>> ELSE << >>
        number == SubSeq(dec, Len(sign) + 1, Len(dec))
        hexnum == SubSeq(hex, IF 35 \in spec.flags THEN 3 ELSE 1, Len(hex))
        magnitude == IF x < 0 THEN -x ELSE x
        needed == Min({k \in 1 .. NumLen : magnitude < 10 ^ k})
    IN  /\ x # IntMin =>
             /\ IsPrefix(sign, dec)
             /\ Numeral(number, magnitude, 10)
             /\ Len(number) = Max({needed, Min({Max({spec.precision, spec.width}), NumLen})})
        /\ Numeral(hexnum, x % (-2 * IntMin), 16)
        /\ Len(hexnum) \in Min({spec.precision, HexLen}) .. HexLen

\* A printed number reads back as the argument, behind its sign, and is as long
\* as precision and field width ask for; the least int64_t, which has no
\* negation, is left out.  A hexadecimal number may be longer than asked.
NumbersReadBack ==
    next = 1 =>
    \A x \in IntMin .. -IntMin - 1, precision, width \in 0 .. NumLen + 1, flags \in SUBSET {35, 43} :
        ReadsBack(x, [NoSpec EXCEPT !.precision = precision, !.width = width, !.flags = flags])

\* Everything main prints comes out in the end, up to the call of printk whose
\* format does not parse.
EverythingPrinted ==
    (call.fmt # << >>) ~> (Up /\ ~Busy(main) /\ ~Busy(key) /\ THRE(uart_port)
                            /\ Len(line[uart_port]) >= Len(Greeting) + Len(main.text))
=============================================================================
