----------------------------- MODULE ConsoleInv -----------------------------
(***************************************************************************)
(* The inductive invariant behind the safety properties of the console.    *)
(***************************************************************************)
EXTENDS ConsoleProps

Executing == IF trap = "none" THEN current ELSE Handler

(* e is in uart_puts(out_buf), at the head of its loop or in uart_putc.    *)
PutsNext(e) == code[e].at = "load"
PutsChar(e) == code[e].at \in {"poll", "write"} /\ code[e].then = "load"

(* uart_putc goes back to one of its callers; the handler is in one        *)
(* exactly during traps, and has seen what it polled.                      *)
Callers == {"load", "spin", "timer_handler", "plic_claim", "uart_isr", "newline"}

CallsReturn ==
  /\ \A e \in Printers : code[e].at \in {"poll", "write"} => code[e].then \in Callers
  /\ trap = "none" => code[Handler] = Quiet
  /\ code[Handler].at = "write" => steady[Handler]

(* A printer is in the part of the buffer its text takes, in front of the  *)
(* last byte, to which nobody writes anything but a NUL.                   *)
Placed(e) ==
  /\ code[e].at = "format" => code[e].pos <= code[e].len /\ code[e].len + 1 < BufSize
  /\ PutsNext(e) \/ PutsChar(e) => code[e].pos < BufSize

(* As long as nobody else writes to it, the buffer holds the text of the   *)
(* printer as far as it has got, and what is before pos has been put out.  *)
Owns(e) ==
  clean[e] =>
    /\ code[e].at = "format" => /\ code[e].sent = 0
                                /\ \A i \in 0 .. code[e].pos - 1 : out_buf[i] = e
    /\ PutsNext(e) \/ PutsChar(e) => /\ code[e].len < BufSize /\ code[e].pos <= code[e].len
                                     /\ \A i \in 0 .. code[e].len - 1 : out_buf[i] = e
                                     /\ out_buf[code[e].len] = NUL
    /\ PutsNext(e) => code[e].sent = code[e].pos
    /\ PutsChar(e) => code[e].ch = e /\ code[e].sent + 1 = code[e].pos

(* What a printer has polled holds while it goes on executing.             *)
Polled ==
  \A e \in Printers :
    code[e].at = "write" /\ steady[e] => idle /\ e = Executing

OInv ==
  /\ TypeOK /\ CallsReturn /\ Polled
  /\ out_buf[BufSize - 1] = NUL
  /\ \A e \in Printers : Placed(e) /\ Owns(e)

(* Where the handler is between claim and complete.                        *)
Serving ==
  \/ code[Handler].at \in {"uart_isr", "newline", "plic_complete"}
  \/ code[Handler].at \in {"poll", "write"} /\ code[Handler].then \in {"newline", "uart_isr"}

(* Only the handler has a character from outside, and only if it is going  *)
(* to put a newline behind it.                                             *)
Holds(e) ==
  code[e].at \in {"poll", "write"} =>
    (code[e].ch >= Echo <=> e = Handler /\ code[e].then = "newline")

(* The input: the handler serves what it has claimed, in a trap of that    *)
(* kind, and whoever does something else has claimed nothing.              *)
InputInv ==
  /\ echoed \in Seq(Chars)
  /\ \A e \in Printers : Holds(e)
  /\ EchoesInOrder
  /\ claimed <=> Serving
  /\ Serving => trap = "external" /\ ~ pending
  /\ \/ code[Handler].at = "plic_claim"
     \/ code[Handler].at \in {"poll", "write"} /\ code[Handler].then = "plic_claim"
     => trap = "external" /\ pending
  /\ \A t \in Tasks :
       /\ code[t].at \in {"user", "format", "load", "poll", "write", "spin"}
       /\ code[t].at \in {"poll", "write"} => code[t].then \in {"load", "spin"}
=============================================================================
