------------------------------ MODULE Console ------------------------------
(***************************************************************************)
(* Console output and input of stages 08 to 11: printf (its formatting is  *)
(* module Printf), uart.c, plic.c and the trap handlers that print.        *)
(*                                                                         *)
(* Tasks print and are preempted between any two accesses of the buffer or *)
(* the UART; a trap handler prints in the same way and is not.  Both are   *)
(* "printers" that run the same code.  A character of printf's text is the *)
(* number of its printer, and the i-th of them goes to out_buf[i]; a text  *)
(* is its length.  A string literal is printed as its last character.      *)
(*                                                                         *)
(* An operator x_... right before x is x with a slip a programmer could    *)
(* make, a mutant the properties are tried against.                        *)
(***************************************************************************)
EXTENDS Integers, Sequences

CONSTANTS NumTasks,   \* tasks that print
          Lengths,    \* of the texts they print
          TickLength, \* of the text timer_handler prints
          BufSize,    \* sizeof(out_buf)
          FifoSize,   \* characters the receiver holds
          MaxChars    \* bound: characters that arrive

ASSUME ConsoleAssumption ==
  /\ NumTasks \in Nat \ {0}
  /\ Lengths \subseteq Nat /\ TickLength \in 0 .. BufSize - 2
  /\ BufSize \in Nat \ {0, 1} /\ FifoSize \in Nat \ {0} /\ MaxChars \in Nat

Tasks    == 1 .. NumTasks
Handler  == NumTasks + 1
Printers == Tasks \cup {Handler}
NUL      == 0
Literal  == NumTasks + 2      \* a character of a string literal
Echo     == NumTasks + 3      \* the first character that arrives; the next ones follow

VARIABLES current,    \* the task that runs, or was interrupted
          trap,       \* the trap the hart is in
          code,       \* where each printer is, and its variables
          out_buf,
          idle,       \* LSR_TX_IDLE
          rx,         \* what the receiver holds
          pending,    \* the UART's interrupt, in the PLIC
          claimed,    \* and whether it is being served
          arrived,    \* how many characters have arrived
          echoed,     \* ghost: those handed back to the transmitter
          lost,       \* ghost: a character was written while it was busy
          clean,      \* ghost: no one else has written to out_buf since
                      \* the call began
          steady      \* ghost: no trap since the printer last polled

device == <<idle, rx, pending, claimed, arrived>>
ghosts == <<echoed, lost, clean, steady>>
vars   == <<current, trap, code, out_buf, device, ghosts>>

Quiet == [at |-> "user", pos |-> 0, len |-> 0, sent |-> 0, ch |-> NUL, then |-> "user"]

Init ==
  /\ current = 1 /\ trap = "none"
  /\ code = [e \in Printers |-> Quiet]
  /\ out_buf = [i \in 0 .. BufSize - 1 |-> NUL]
  /\ idle = TRUE /\ rx = <<>> /\ pending = FALSE /\ claimed = FALSE /\ arrived = 0
  /\ echoed = <<>> /\ lost = FALSE
  /\ clean = [e \in Printers |-> FALSE] /\ steady = [e \in Printers |-> FALSE]

(* The printer that executes, and where it is.                             *)
Runs(e, where) ==
  /\ e = IF trap = "none" THEN current ELSE Handler
  /\ code[e].at = where
-----------------------------------------------------------------------------
(* _vprintf: the pass that measures, and the check of the result.          *)
TooLong_without_nul(len) == len > BufSize
TooLong(len) == len + 1 >= BufSize

(* uart_putc(ch), after which the printer is at then.                      *)
PutChar(e, ch, then) ==
  code' = [code EXCEPT ![e].at = "poll", ![e].ch = ch, ![e].then = then]

printf(e, len) ==
  /\ IF TooLong(len)    \* an error message, then an endless loop
     THEN PutChar(e, Literal, "spin") /\ UNCHANGED clean
     ELSE /\ code' = [code EXCEPT ![e] = [Quiet EXCEPT !.at = "format", !.len = len]]
          /\ clean' = [clean EXCEPT ![e] = TRUE]
  /\ UNCHANGED <<current, trap, out_buf, device, echoed, lost, steady>>

(* _vsnprintf stores one character, and NUL in the end, if inside of n.    *)
StoredAt(i, ch) == [j \in DOMAIN out_buf |-> IF j = i THEN ch ELSE out_buf[j]]
Disturbing(e)   == [f \in Printers |-> clean[f] /\ f = e]

format(e) ==
  /\ Runs(e, "format") /\ code[e].pos < code[e].len
  /\ out_buf' = StoredAt(code[e].pos, e)
  /\ code' = [code EXCEPT ![e].pos = @ + 1]
  /\ clean' = Disturbing(e)
  /\ UNCHANGED <<current, trap, device, echoed, lost, steady>>

format_end_too_early(e) ==
  /\ Runs(e, "format") /\ code[e].pos = code[e].len
  /\ out_buf' = StoredAt(code[e].pos - 1, NUL)
  /\ code' = [code EXCEPT ![e].at = "load", ![e].pos = 0]
  /\ clean' = Disturbing(e)
  /\ UNCHANGED <<current, trap, device, echoed, lost, steady>>
format_end(e) ==
  /\ Runs(e, "format") /\ code[e].pos = code[e].len
  /\ out_buf' = StoredAt(code[e].pos, NUL)
  /\ code' = [code EXCEPT ![e].at = "load", ![e].pos = 0]
  /\ clean' = Disturbing(e)
  /\ UNCHANGED <<current, trap, device, echoed, lost, steady>>

(* uart_puts(out_buf): what the byte at s is, be it outside the buffer.    *)
Byte(s) == IF s \in DOMAIN out_buf THEN out_buf[s] ELSE NUL

load(e) ==
  /\ Runs(e, "load") /\ Byte(code[e].pos) # NUL
  /\ code' = [code EXCEPT ![e].at = "poll", ![e].ch = Byte(code[e].pos),
                          ![e].pos = @ + 1, ![e].then = "load"]
  /\ UNCHANGED <<current, trap, out_buf, device, ghosts>>

printf_returns(e) ==
  /\ Runs(e, "load") /\ Byte(code[e].pos) = NUL
  /\ code' = [code EXCEPT ![e] = IF e = Handler THEN [Quiet EXCEPT !.at = "schedule"] ELSE Quiet]
  /\ UNCHANGED <<current, trap, out_buf, device, ghosts>>

(* uart_putc: LSR_TX_IDLE is read until it is set, then the character is   *)
(* written to THR.                                                         *)
poll_once(e) ==
  /\ Runs(e, "poll")
  /\ code' = [code EXCEPT ![e].at = "write"]
  /\ steady' = [steady EXCEPT ![e] = TRUE]
  /\ UNCHANGED <<current, trap, out_buf, device, echoed, lost, clean>>
poll(e) ==
  /\ Runs(e, "poll") /\ idle
  /\ code' = [code EXCEPT ![e].at = "write"]
  /\ steady' = [steady EXCEPT ![e] = TRUE]
  /\ UNCHANGED <<current, trap, out_buf, device, echoed, lost, clean>>

write(e) ==
  /\ Runs(e, "write")
  /\ idle' = FALSE
  /\ lost' = (lost \/ ~ idle)
  /\ echoed' = IF code[e].ch >= Echo THEN Append(echoed, code[e].ch) ELSE echoed
  /\ code' = [code EXCEPT ![e].at = code[e].then,
                          ![e].sent = IF code[e].ch = e THEN @ + 1 ELSE @]
  /\ UNCHANGED <<current, trap, out_buf, rx, pending, claimed, arrived, clean, steady>>
-----------------------------------------------------------------------------
(* A trap; its handler first prints which one it is.                       *)
Enter(what, then) ==
  /\ trap = "none"
  /\ trap' = what
  /\ PutChar(Handler, Literal, then)
  /\ steady' = [e \in Printers |-> FALSE]
  /\ UNCHANGED <<current, out_buf, device, echoed, lost, clean>>

Leave ==
  /\ trap' = "none"
  /\ code' = [code EXCEPT ![Handler] = Quiet]

timer_interrupt    == Enter("timer", "timer_handler")
external_interrupt == pending /\ Enter("external", "plic_claim")

timer_handler == Runs(Handler, "timer_handler") /\ printf(Handler, TickLength)

NextTask(t) == (t % NumTasks) + 1

schedule ==
  /\ Runs(Handler, "schedule")
  /\ current' = NextTask(current)
  /\ Leave
  /\ UNCHANGED <<out_buf, device, ghosts>>

(* external_interrupt_handler: claim, serve, complete.                     *)
plic_claim ==
  /\ Runs(Handler, "plic_claim")
  /\ pending' = FALSE /\ claimed' = pending
  /\ IF pending
     THEN code' = [code EXCEPT ![Handler].at = "uart_isr"] /\ UNCHANGED trap
     ELSE Leave
  /\ UNCHANGED <<current, out_buf, idle, rx, arrived, ghosts>>

(* uart_isr: every character there is goes back, with a newline.           *)
uart_isr ==
  /\ Runs(Handler, "uart_isr")
  /\ IF rx = <<>>
     THEN code' = [code EXCEPT ![Handler].at = "plic_complete"] /\ UNCHANGED rx
     ELSE rx' = Tail(rx) /\ PutChar(Handler, Head(rx), "newline")
  /\ UNCHANGED <<current, trap, out_buf, idle, pending, claimed, arrived, ghosts>>

newline ==
  /\ Runs(Handler, "newline")
  /\ PutChar(Handler, Literal, "uart_isr")
  /\ UNCHANGED <<current, trap, out_buf, device, ghosts>>

plic_complete_forgotten ==
  /\ Runs(Handler, "plic_complete")
  /\ Leave
  /\ UNCHANGED <<current, out_buf, device, ghosts>>
plic_complete ==
  /\ Runs(Handler, "plic_complete")
  /\ claimed' = FALSE
  /\ Leave
  /\ UNCHANGED <<current, out_buf, idle, rx, pending, arrived, ghosts>>
-----------------------------------------------------------------------------
(* The UART shifts a character out, and receives one.                      *)
transmit ==
  /\ ~ idle
  /\ idle' = TRUE
  /\ UNCHANGED <<current, trap, code, out_buf, rx, pending, claimed, arrived, ghosts>>

receive ==
  /\ arrived < MaxChars /\ Len(rx) < FifoSize
  /\ rx' = Append(rx, Echo + arrived)
  /\ arrived' = arrived + 1
  /\ UNCHANGED <<current, trap, code, out_buf, idle, pending, claimed, ghosts>>

(* Its interrupt is a level, which the PLIC looks at when it is not being  *)
(* served; what is pending stays until it is claimed.                      *)
plic_gateway ==
  /\ rx # <<>> /\ ~ pending /\ ~ claimed
  /\ pending' = TRUE
  /\ UNCHANGED <<current, trap, code, out_buf, idle, rx, claimed, arrived, ghosts>>

Printing == \E e \in Printers :
              format(e) \/ format_end(e) \/ load(e) \/ printf_returns(e) \/ poll(e) \/ write(e)

InTrap ==
  \/ trap # "none" /\ Printing
  \/ timer_handler \/ schedule \/ plic_claim \/ uart_isr \/ newline \/ plic_complete

Next ==
  \/ \E t \in Tasks, len \in Lengths : Runs(t, "user") /\ printf(t, len)
  \/ trap = "none" /\ Printing
  \/ InTrap
  \/ timer_interrupt \/ external_interrupt
  \/ transmit \/ receive \/ plic_gateway

(* The hart goes on in a trap, the devices go on.  A pending interrupt is  *)
(* taken: it waits for traps to end, and an external one goes first.       *)
Fairness ==
  /\ WF_vars(InTrap)
  /\ WF_vars(transmit) /\ WF_vars(plic_gateway)
  /\ SF_vars(external_interrupt)

Spec == Init /\ [][Next]_vars /\ Fairness
=============================================================================
