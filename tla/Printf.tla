------------------------------- MODULE Printf -------------------------------
(***************************************************************************)
(* What printf makes of a format and its arguments (_vsnprintf of          *)
(* printf.c; the case 'u' only exercise 15-1 has).  Characters are strings *)
(* of length one.  A string argument is a sequence of them, a character    *)
(* argument a number (0 to 15 are the digits), a number argument an        *)
(* integer of LongBits bits: int and long are equally wide.                *)
(*                                                                         *)
(* _vprintf runs it twice: without a buffer, for the length, and with a    *)
(* buffer of that length.                                                  *)
(*                                                                         *)
(* An operator x_... right before x is x with a slip a programmer could    *)
(* make, a mutant the properties are tried against.                        *)
(***************************************************************************)
EXTENDS Integers, SequencesExt

CONSTANT LongBits     \* of a long

ASSUME LongAssumption == LongBits \in {4 * k : k \in 1 .. 16}

TwoTo[k \in 0 .. LongBits] == IF k = 0 THEN 1 ELSE 2 * TwoTo[k - 1]

MinLong == - TwoTo[LongBits - 1]
MaxLong == TwoTo[LongBits - 1] - 1
Negated(n)  == IF n = MinLong THEN n ELSE - n      \* it wraps
Unsigned(n) == IF n < 0 THEN n + TwoTo[LongBits] ELSE n

(* Division of C, which truncates towards zero.                            *)
Quotient(n)  == IF n < 0 THEN - ((- n) \div 10) ELSE n \div 10
Remainder(n) == n - 10 * Quotient(n)

HexDigit == <<"0", "1", "2", "3", "4", "5", "6", "7",
              "8", "9", "a", "b", "c", "d", "e", "f">>
Junk == "junk"        \* a character below '0'
Digit(d) == IF d \in 0 .. 15 THEN HexDigit[d + 1] ELSE Junk

(* The digits are counted by dividing until nothing is left, and filled in *)
(* from the last one on.                                                   *)
Decimal(n) ==
  LET num[k \in 0 .. LongBits] == IF k = 0 THEN n ELSE Quotient(num[k - 1])
      digits == Min({k \in 1 .. LongBits : num[k] = 0})
  IN  [i \in 1 .. digits |-> Digit(Remainder(num[digits - i]))]

Signed_unnegated(n) == IF n < 0 THEN <<"-">> \o Decimal(n) ELSE Decimal(n)
Signed(n) == IF n < 0 THEN <<"-">> \o Decimal(Negated(n)) ELSE Decimal(n)

(* num >> 4 * i, for the digit behind which there are i.                   *)
Hex(n) ==
  LET digits == LongBits \div 4
      num[i \in 0 .. digits] == IF i = 0 THEN n ELSE num[i - 1] \div 16
  IN  [i \in 1 .. digits |-> Digit(num[digits - i] % 16)]

Pointer(n) == <<"0", "x">> \o Hex(n)
-----------------------------------------------------------------------------
(* The loop over the format: whether it is behind a '%', the arguments     *)
(* left, and what has been put out.                                        *)
Start(args) == [format |-> FALSE, args |-> args, put |-> <<>>]

Put(st, chars) == [st EXCEPT !.put = @ \o chars]
Convert(st, chars) ==
  [format |-> FALSE, args |-> Tail(st.args), put |-> st.put \o chars]

(* '%c' takes its argument only if there is a buffer to store it in.       *)
Character(st, buffer) ==
  IF buffer THEN Convert(st, <<Digit(Head(st.args))>>)
  ELSE [Put(st, <<"?">>) EXCEPT !.format = FALSE]

Step(st, ch, buffer) ==
  IF ~ st.format
  THEN IF ch = "%" THEN [st EXCEPT !.format = TRUE] ELSE Put(st, <<ch>>)
  ELSE CASE ch = "p" -> Convert(st, Pointer(Head(st.args)))
         [] ch = "x" -> Convert(st, Hex(Head(st.args)))
         [] ch = "d" -> Convert(st, Signed(Head(st.args)))
         [] ch = "u" -> Convert(st, Decimal(Unsigned(Head(st.args))))
         [] ch = "s" -> Convert(st, Head(st.args))
         [] ch = "c" -> Character(st, buffer)
         [] OTHER    -> st          \* 'l', and whatever is not a conversion

(* Everything it would put out; its result is the length of it.            *)
Produced(s, args, buffer) ==
  LET st[k \in 0 .. Len(s)] == IF k = 0 THEN Start(args) ELSE Step(st[k - 1], s[k], buffer)
  IN  st[Len(s)].put

Length(s, args) == Len(Produced(s, args, FALSE))

(* The string in a buffer of n bytes, up to its NUL.                       *)
Text(n, s, args) ==
  LET all == Produced(s, args, TRUE)
  IN  IF Len(all) < n THEN all ELSE SubSeq(all, 1, n - 1)

(* _vprintf: what is in out_buf when uart_puts is called.                  *)
Printed(s, args) == Text(Length(s, args) + 1, s, args)
=============================================================================
