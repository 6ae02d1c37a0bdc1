---------------------------- MODULE PrintfProps ----------------------------
(***************************************************************************)
(* printf against a reference, over formats of one conversion with every   *)
(* number, and of up to three items with a few: items is any of them.      *)
(***************************************************************************)
EXTENDS Printf

VARIABLE items

Item(conv, arg) == [conv |-> conv, arg |-> arg]

Longs == MinLong .. MaxLong
Edges == {MinLong + 1, -10, -1, 0, 9, 10, MaxLong}
Words == {<<>>, <<"o", "k">>}

Numbers(set) == {Item(conv, n) : conv \in {"d", "u", "x", "p"}, n \in set}
Others ==
  {Item("s", w) : w \in Words} \cup {Item("c", 7), Item("text", "a")}

(* The format string and the arguments of a sequence of items.             *)
Directive(item) ==
  IF item.conv = "text" THEN <<item.arg>>
  ELSE IF item.conv = "u" THEN <<"%", "l", "u">> ELSE <<"%", item.conv>>
Format(row) == FlattenSeq([i \in DOMAIN row |-> Directive(row[i])])
Args(row) ==
  FlattenSeq([i \in DOMAIN row |-> IF row[i].conv = "text" THEN <<>> ELSE <<row[i].arg>>])

(* Reference: a number in decimal is the shortest row of digits that       *)
(* stands for it; in hexadecimal all digits of the word are there.         *)
Worth(char) == CHOOSE k \in 0 .. 15 : HexDigit[k + 1] = char
Value(digits, base) ==
  LET v[k \in 0 .. Len(digits)] == IF k = 0 THEN 0 ELSE v[k - 1] * base + Worth(digits[k])
  IN  v[Len(digits)]
IsRow(text, base) ==
  /\ text # <<>>
  /\ \A i \in DOMAIN text : \E k \in 0 .. base - 1 : HexDigit[k + 1] = text[i]

IsDecimal(text, n) ==
  /\ IsRow(text, 10) /\ Value(text, 10) = n
  /\ Len(text) > 1 => Head(text) # "0"
IsHex(text, n) ==
  IsRow(text, 16) /\ Len(text) = LongBits \div 4 /\ Value(text, 16) = Unsigned(n)

Stands(text, item) ==
  CASE item.conv = "d"    -> IF item.arg < 0
                             THEN Head(text) = "-" /\ IsDecimal(Tail(text), - item.arg)
                             ELSE IsDecimal(text, item.arg)
    [] item.conv = "u"    -> IsDecimal(text, Unsigned(item.arg))
    [] item.conv = "x"    -> IsHex(text, item.arg)
    [] item.conv = "p"    -> /\ SubSeq(text, 1, 2) = <<"0", "x">>
                             /\ IsHex(SubSeq(text, 3, Len(text)), item.arg)
    [] item.conv = "s"    -> text = item.arg
    [] item.conv = "c"    -> text = <<Digit(item.arg)>>
    [] item.conv = "text" -> text = <<item.arg>>

PrintedRow(row) == Printed(Format(row), Args(row))

(* Behind a character no string: _vsnprintf would take the character for   *)
(* the address of one.                                                     *)
Behind(row, conv, others) ==
  \E i, j \in DOMAIN row : i < j /\ row[i].conv = conv /\ row[j].conv \in others

Rows ==
  {<<item>> : item \in Numbers(Longs)} \cup
  {row \in SeqOf(Numbers(Edges) \cup Others, 2)
           \cup {<<a, b, c>> : a, b, c \in Others \cup Numbers({-1})} :
     ~ Behind(row, "c", {"s"})}

(* Each item is printed as what stands for it, and several are printed one *)
(* behind the other: the pass that measures and the pass that writes agree *)
(* on the length of each and on the argument it takes.                     *)
ItemsStand   == \A i \in DOMAIN items : Stands(PrintedRow(<<items[i]>>), items[i])
Concatenates ==
  PrintedRow(items) = FlattenSeq([i \in DOMAIN items |-> PrintedRow(<<items[i]>>)])

(* So it is but for the number of which there is no negative               *)
(* (printf.c:47), and for a decimal number behind a character: only one of *)
(* the passes takes the argument of '%c' (printf.c:80).                    *)
PrintsItems ==
  /\ (\A i \in DOMAIN items : items[i] # Item("d", MinLong)) => ItemsStand
  /\ ~ Behind(items, "c", {"d", "u"}) => Concatenates
=============================================================================
