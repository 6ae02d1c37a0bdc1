---------------------------- MODULE ConsoleProps ----------------------------
(***************************************************************************)
(* What may be expected of a console that tasks and traps print to at the  *)
(* same time, and of its input.                                            *)
(***************************************************************************)
EXTENDS Console

Chars == 0 .. Echo + MaxChars

Places == {"user", "format", "load", "poll", "write", "spin", "timer_handler",
           "schedule", "plic_claim", "uart_isr", "newline", "plic_complete"}

TypeOK ==
  /\ current \in Tasks /\ trap \in {"none", "timer", "external"}
  /\ code \in [Printers -> [at : Places, pos : Nat, len : Nat, sent : Nat,
                            ch : Chars, then : Places]]
  /\ out_buf \in [0 .. BufSize - 1 -> Printers \cup {NUL}]
  /\ idle \in BOOLEAN /\ rx \in Seq(Chars) /\ Len(rx) <= FifoSize
  /\ pending \in BOOLEAN /\ claimed \in BOOLEAN /\ arrived \in 0 .. MaxChars
  /\ lost \in BOOLEAN
  /\ clean \in [Printers -> BOOLEAN] /\ steady \in [Printers -> BOOLEAN]

(* However many print into out_buf at the same time, and whatever NULs     *)
(* they overwrite, nobody gets past its end: one is always ahead.          *)
BufferIsKept ==
  /\ TypeOK
  /\ out_buf[BufSize - 1] = NUL
  /\ \A e \in Printers :
       code[e].at \in {"format", "load"} => code[e].pos < BufSize

(* A printf during which no other printf writes to the buffer hands its    *)
(* own text to uart_putc, all of it and nothing else.                      *)
UndisturbedPrints ==
  \A e \in Printers :
    clean[e] /\ code[e].at = "load" =>
      /\ code[e].sent = code[e].pos /\ code[e].pos <= code[e].len
      /\ out_buf[code[e].pos] = NUL <=> code[e].pos = code[e].len

(* Without that condition it fails: there is one buffer (printf.c:117).    *)
PrintsOwnText ==
  \A e \in Printers :
    code[e].at = "poll" /\ code[e].then = "load" => code[e].ch = e

(* A character is written to a busy transmitter only by a task that was    *)
(* interrupted between its poll and its write (uart.c:115).  The handler,  *)
(* which is not, finds it idle each time.                                  *)
PollHolds ==
  \A e \in Printers :
    Runs(e, "write") /\ ~ idle => e # Handler /\ ~ steady[e]

(* Such a task does lose a character.                                      *)
NothingOverwritten == ~ lost

(* However reception and trap handlers interleave: what has been handed    *)
(* back, what the handler holds and what the receiver holds are the        *)
(* characters that arrived, each once and in their order,                  *)
InHand ==
  IF code[Handler].at \in {"poll", "write"} /\ code[Handler].then = "newline"
  THEN <<code[Handler].ch>> ELSE <<>>

EchoesInOrder == echoed \o InHand \o rx = [k \in 1 .. arrived |-> Echo + k - 1]

(* and every claim is of an interrupt that is pending, and is completed    *)
(* before the handler returns: otherwise the PLIC would never look at the  *)
(* receiver again (trap.c:28).                                             *)
ClaimsAreCompleted ==
  /\ claimed => trap = "external" /\ ~ pending
  /\ code[Handler].at = "plic_claim" => pending

(* So every character that arrives is handed back, in its place, also one  *)
(* that arrives while an earlier one is served, after uart_isr has looked  *)
(* (uart.c:142).                                                           *)
EveryCharEchoed ==
  /\ [](EchoesInOrder /\ ClaimsAreCompleted)
  /\ \A k \in 1 .. MaxChars : arrived >= k ~> Len(echoed) >= k
=============================================================================
