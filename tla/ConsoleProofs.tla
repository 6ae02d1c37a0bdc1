--------------------------- MODULE ConsoleProofs ---------------------------
(***************************************************************************)
(* The console for any number of tasks, lengths of texts, and sizes of the *)
(* buffer and the receiver; and, in the last section, printf for any row   *)
(* of items and any width of a long.                                       *)
(***************************************************************************)
EXTENDS ConsoleInv, PrintfProps, SequenceTheorems, WellFoundedInduction, TLAPS

(* What a printer is: see TypeOK.                                          *)
Frame == [at : Places, pos : Nat, len : Nat, sent : Nat, ch : Chars, then : Places]

LEMMA Constants ==
  /\ NumTasks \in Nat \ {0} /\ BufSize \in Nat \ {0, 1} /\ MaxChars \in Nat
  /\ Printers = 1 .. NumTasks + 1 /\ Handler \in Printers
  /\ Printers \cup {NUL, Literal} \subseteq Chars
  /\ \A e \in Printers : e \in Int /\ e # NUL /\ e # Literal
  /\ \A t \in Tasks : t \in Printers /\ t # Handler
BY ConsoleAssumption DEF Printers, Tasks, Handler, Chars, Echo, NUL, Literal

LEMMA QuietIs ==
  /\ Quiet \in Frame
  /\ Quiet.at = "user" /\ Quiet.pos = 0 /\ Quiet.len = 0 /\ Quiet.sent = 0
BY Constants DEF Quiet, Frame, Places

LEMMA CodeIs ==
  ASSUME TypeOK, NEW e \in Printers
  PROVE  /\ code \in [Printers -> Frame] /\ code[e] \in Frame
         /\ code[e].at \in Places /\ code[e].pos \in Nat /\ code[e].len \in Nat
         /\ code[e].sent \in Nat /\ code[e].ch \in Chars /\ code[e].then \in Places
<1>1. code \in [Printers -> Frame]
  BY DEF TypeOK, Frame
<1>2. code[e] \in Frame
  BY <1>1
<1> QED
  BY <1>1, <1>2 DEF Frame

LEMMA ExecutingIs ==
  ASSUME TypeOK
  PROVE  Executing \in Printers
BY Constants DEF TypeOK, Executing

(* Those that do not execute stay as they are.                             *)
LEMMA OthersStay ==
  ASSUME OInv, NEW f \in Printers, code'[f] = code[f],
         clean'[f] => clean[f] /\ out_buf' = out_buf
  PROVE  Placed(f)' /\ Owns(f)'
<1>1. Placed(f) /\ Owns(f)
  BY DEF OInv
<1>2. Placed(f)'
  BY <1>1 DEF Placed, PutsNext, PutsChar
<1>3. Owns(f)'
  BY <1>1 DEF Owns, PutsNext, PutsChar
<1> QED
  BY <1>2, <1>3

(* uart_putc(ch) called by e.                                              *)
LEMMA PutCharIs ==
  ASSUME TypeOK, NEW e \in Printers, NEW ch \in Chars, NEW then \in Places,
         PutChar(e, ch, then)
  PROVE  /\ code' \in [Printers -> Frame]
         /\ \A f \in Printers : f # e => code'[f] = code[f]
         /\ code'[e].at = "poll" /\ code'[e].ch = ch /\ code'[e].then = then
<1>1. code'[e] = [code[e] EXCEPT !.at = "poll", !.ch = ch, !.then = then]
  BY CodeIs DEF PutChar
<1>2. code'[e] = [at |-> "poll", pos |-> code[e].pos, len |-> code[e].len,
                  sent |-> code[e].sent, ch |-> ch, then |-> then]
  BY <1>1, CodeIs DEF Frame
<1>3. code'[e] \in Frame
  BY <1>2, CodeIs DEF Frame, Places
<1>4. \A f \in Printers : f # e => code'[f] = code[f]
  BY CodeIs DEF PutChar
<1>5. DOMAIN code' = Printers /\ code' = [f \in Printers |-> code'[f]]
  BY CodeIs DEF PutChar
<1> QED
  BY <1>2, <1>3, <1>4, <1>5, CodeIs
-----------------------------------------------------------------------------
(* A step of the printer that executes keeps the invariant if it leaves    *)
(* its own part of it in order.                                            *)
LEMMA PrinterStep ==
  ASSUME OInv, TypeOK', NEW e \in Printers, e = Executing, UNCHANGED <<current, trap>>,
         \A f \in Printers : f # e => /\ code'[f] = code[f] /\ steady'[f] = steady[f]
                                      /\ clean'[f] => clean[f] /\ out_buf' = out_buf,
         out_buf'[BufSize - 1] = NUL, Placed(e)', Owns(e)',
         code'[e].at \in {"poll", "write"} => code'[e].then \in Callers,
         code'[e].at = "write" => idle' /\ steady'[e]
  PROVE  OInv'
<1>1. CallsReturn'
  <2>1. \A f \in Printers : code'[f].at \in {"poll", "write"} => code'[f].then \in Callers
    BY DEF OInv, CallsReturn
  <2>2. trap' = "none" => e # Handler
    BY Constants DEF OInv, TypeOK, Executing
  <2>3. e # Handler => code'[Handler] = code[Handler] /\ steady'[Handler] = steady[Handler]
    BY Constants
  <2> QED
    BY <2>1, <2>2, <2>3 DEF OInv, CallsReturn
<1>2. Polled'
  <2>1. Executing' = e
    BY DEF Executing
  <2> QED
    BY <2>1 DEF OInv, Polled
<1>3. \A f \in Printers : Placed(f)' /\ Owns(f)'
  BY OthersStay
<1> QED
  BY <1>1, <1>2, <1>3 DEF OInv

(* A printer that is not in the buffer has nothing to keep there.          *)
LEMMA Elsewhere ==
  ASSUME NEW e \in Printers, code'[e].at # "format", code'[e].at # "load",
         code'[e].at \in {"poll", "write"} => code'[e].then # "load"
  PROVE  Placed(e)' /\ Owns(e)'
BY DEF Placed, Owns, PutsNext, PutsChar

LEMMA RunsIs ==
  ASSUME TypeOK, NEW e \in Printers, NEW w, Runs(e, w)
  PROVE  e = Executing /\ code[e].at = w /\ (e = Handler => trap # "none")
BY Constants DEF TypeOK, Runs, Executing

LEMMA PrintfStep ==
  ASSUME OInv, NEW e \in Printers, e = Executing, NEW len \in Nat, printf(e, len)
  PROVE  OInv'
<1>1. UNCHANGED <<current, trap, out_buf, idle, rx, pending, claimed, arrived, lost, steady>>
  BY DEF printf, device
<1>2. CASE TooLong(len)
  <2>1. PutChar(e, Literal, "spin") /\ clean' = clean
    BY <1>2 DEF printf
  <2>2. /\ code' \in [Printers -> Frame]
        /\ \A f \in Printers : f # e => code'[f] = code[f]
        /\ code'[e].at = "poll" /\ code'[e].then = "spin"
    BY <2>1, Constants, PutCharIs DEF OInv, Places
  <2>3. TypeOK'
    BY <1>1, <2>1, <2>2 DEF OInv, TypeOK, Frame
  <2>4. Placed(e)' /\ Owns(e)'
    BY <2>2, Elsewhere
  <2>5. out_buf'[BufSize - 1] = NUL
    BY <1>1 DEF OInv
  <2> QED
    BY <1>1, <2>1, <2>2, <2>3, <2>4, <2>5, PrinterStep DEF Callers
<1>3. CASE ~ TooLong(len)
  <2>1. /\ code' = [code EXCEPT ![e] = [Quiet EXCEPT !.at = "format", !.len = len]]
        /\ clean' = [clean EXCEPT ![e] = TRUE]
    BY <1>3 DEF printf
  <2> DEFINE r == [Quiet EXCEPT !.at = "format", !.len = len]
  <2>2. /\ r \in Frame /\ r.at = "format" /\ r.len = len /\ r.pos = 0 /\ r.sent = 0
    BY QuietIs DEF Frame, Places
  <2> HIDE DEF r
  <2>3. /\ code' \in [Printers -> Frame] /\ code'[e] = r
        /\ \A f \in Printers : f # e => code'[f] = code[f] /\ clean'[f] = clean[f]
        /\ clean' \in [Printers -> BOOLEAN]
    BY <2>1, <2>2, CodeIs DEF OInv, TypeOK, r
  <2>4. TypeOK'
    BY <1>1, <2>3 DEF OInv, TypeOK, Frame
  <2>5. len + 1 < BufSize
    BY <1>3, Constants DEF TooLong
  <2>6. Placed(e)' /\ Owns(e)'
    BY <2>2, <2>3, <2>5 DEF Placed, Owns, PutsNext, PutsChar
  <2>7. out_buf'[BufSize - 1] = NUL
    BY <1>1 DEF OInv
  <2> QED
    BY <1>1, <2>2, <2>3, <2>4, <2>6, <2>7, PrinterStep
<1> QED
  BY <1>2, <1>3

(* Whoever writes to the buffer is the only one to have done so.           *)
LEMMA DisturbingIs ==
  ASSUME OInv, NEW e \in Printers, clean' = Disturbing(e)
  PROVE  /\ clean' \in [Printers -> BOOLEAN]
         /\ \A f \in Printers : f # e => ~ clean'[f]
         /\ clean'[e] => clean[e]
BY DEF Disturbing, OInv, TypeOK

LEMMA StoredIs ==
  ASSUME OInv, NEW i \in Nat, i < BufSize, NEW ch \in Printers \cup {NUL},
         out_buf' = StoredAt(i, ch)
  PROVE  /\ out_buf' \in [0 .. BufSize - 1 -> Printers \cup {NUL}]
         /\ out_buf'[i] = ch
         /\ \A j \in 0 .. BufSize - 1 : j # i => out_buf'[j] = out_buf[j]
BY Constants DEF OInv, TypeOK, StoredAt

LEMMA FormatStep ==
  ASSUME OInv, NEW e \in Printers, format(e)
  PROVE  OInv'
<1>0. TypeOK /\ Placed(e) /\ Owns(e) /\ out_buf[BufSize - 1] = NUL
  BY DEF OInv
<1>1. /\ UNCHANGED <<current, trap, idle, rx, pending, claimed, arrived, lost, steady>>
      /\ out_buf' = StoredAt(code[e].pos, e) /\ clean' = Disturbing(e)
      /\ code' = [code EXCEPT ![e].pos = @ + 1] /\ code[e].pos < code[e].len
  BY DEF format, device
<1>2. e = Executing /\ code[e].at = "format"
  BY <1>0, RunsIs DEF format
<1>3. code[e].pos \in Nat /\ code[e].len \in Nat /\ code[e].len + 1 < BufSize
  BY <1>0, <1>2, CodeIs DEF Placed
<1>4. /\ code' \in [Printers -> Frame]
      /\ \A f \in Printers : f # e => code'[f] = code[f]
      /\ code'[e].at = "format" /\ code'[e].pos = code[e].pos + 1
      /\ code'[e].len = code[e].len /\ code'[e].sent = code[e].sent
  <2> DEFINE r == [code[e] EXCEPT !.pos = code[e].pos + 1]
  <2>1. r = [at |-> code[e].at, pos |-> code[e].pos + 1, len |-> code[e].len,
             sent |-> code[e].sent, ch |-> code[e].ch, then |-> code[e].then]
    BY <1>0, CodeIs DEF Frame
  <2>2. r \in Frame
    BY <1>0, <2>1, CodeIs DEF Frame
  <2>3. code' = [code EXCEPT ![e] = r]
    BY <1>1
  <2> QED
    BY <1>0, <1>2, <2>1, <2>2, <2>3, CodeIs
<1>5. /\ clean' \in [Printers -> BOOLEAN]
      /\ \A f \in Printers : f # e => ~ clean'[f]
      /\ clean'[e] => clean[e]
  BY <1>1, DisturbingIs
<1>6. /\ out_buf' \in [0 .. BufSize - 1 -> Printers \cup {NUL}]
      /\ out_buf'[code[e].pos] = e
      /\ \A j \in 0 .. BufSize - 1 : j # code[e].pos => out_buf'[j] = out_buf[j]
  BY <1>1, <1>3, Constants, StoredIs, SMTT(30)
<1>7. TypeOK'
  BY <1>0, <1>1, <1>4, <1>5, <1>6 DEF TypeOK, Frame
<1>8. out_buf'[BufSize - 1] = NUL
  <2>1. BufSize - 1 \in 0 .. BufSize - 1 /\ BufSize - 1 # code[e].pos
    BY <1>1, <1>3, Constants
  <2> QED
    BY <1>0, <1>6, <2>1
<1>9. Placed(e)'
  BY <1>1, <1>3, <1>4 DEF Placed, PutsNext, PutsChar
<1>10. Owns(e)'
  <2> SUFFICES ASSUME clean'[e]
               PROVE  code[e].sent = 0 /\ \A i \in 0 .. code[e].pos : out_buf'[i] = e
    BY <1>3, <1>4 DEF Owns, PutsNext, PutsChar
  <2>1. code[e].sent = 0 /\ \A i \in 0 .. code[e].pos - 1 : out_buf[i] = e
    BY <1>0, <1>2, <1>5 DEF Owns
  <2>2. \A i \in 0 .. code[e].pos - 1 : i \in 0 .. BufSize - 1 /\ i # code[e].pos
    BY <1>1, <1>3, Constants, SMTT(30)
  <2> QED
    BY <1>1, <1>3, <1>6, <2>1, <2>2
<1> QED
  BY <1>1, <1>2, <1>4, <1>5, <1>7, <1>8, <1>9, <1>10, PrinterStep

LEMMA FormatEndStep ==
  ASSUME OInv, NEW e \in Printers, format_end(e)
  PROVE  OInv'
<1>0. TypeOK /\ Placed(e) /\ Owns(e) /\ out_buf[BufSize - 1] = NUL
  BY DEF OInv
<1>1. /\ UNCHANGED <<current, trap, idle, rx, pending, claimed, arrived, lost, steady>>
      /\ out_buf' = StoredAt(code[e].pos, NUL) /\ clean' = Disturbing(e)
      /\ code' = [code EXCEPT ![e].at = "load", ![e].pos = 0] /\ code[e].pos = code[e].len
  BY DEF format_end, device
<1>2. e = Executing /\ code[e].at = "format"
  BY <1>0, RunsIs DEF format_end
<1>3. code[e].pos \in Nat /\ code[e].len \in Nat /\ code[e].len + 1 < BufSize
  BY <1>0, <1>2, CodeIs DEF Placed
<1>4. /\ code' \in [Printers -> Frame]
      /\ \A f \in Printers : f # e => code'[f] = code[f]
      /\ code'[e].at = "load" /\ code'[e].pos = 0
      /\ code'[e].len = code[e].len /\ code'[e].sent = code[e].sent
  <2>0. PICK r : r = [code[e] EXCEPT !.at = "load", !.pos = 0]
    OBVIOUS
  <2>1. r = [at |-> "load", pos |-> 0, len |-> code[e].len,
             sent |-> code[e].sent, ch |-> code[e].ch, then |-> code[e].then]
    BY <1>0, <2>0, CodeIs DEF Frame
  <2>2. r \in Frame
    BY <1>0, <2>1, CodeIs DEF Frame, Places
  <2>3. code' = [code EXCEPT ![e] = r]
    BY <1>1, <2>0
  <2> QED
    BY <1>0, <2>1, <2>2, <2>3, CodeIs
<1>5. /\ clean' \in [Printers -> BOOLEAN]
      /\ \A f \in Printers : f # e => ~ clean'[f]
      /\ clean'[e] => clean[e]
  BY <1>1, DisturbingIs
<1>6. /\ out_buf' \in [0 .. BufSize - 1 -> Printers \cup {NUL}]
      /\ out_buf'[code[e].pos] = NUL
      /\ \A j \in 0 .. BufSize - 1 : j # code[e].pos => out_buf'[j] = out_buf[j]
  BY <1>1, <1>3, Constants, StoredIs
<1>7. TypeOK'
  BY <1>0, <1>1, <1>4, <1>5, <1>6 DEF TypeOK, Frame
<1>8. out_buf'[BufSize - 1] = NUL
  <2>1. BufSize - 1 \in 0 .. BufSize - 1 /\ BufSize - 1 # code[e].pos
    BY <1>1, <1>3, Constants
  <2> QED
    BY <1>0, <1>6, <2>1
<1>9. Placed(e)'
  BY <1>3, <1>4, Constants DEF Placed, PutsNext, PutsChar
<1>10. Owns(e)'
  <2> SUFFICES ASSUME clean'[e]
               PROVE  /\ code[e].sent = 0 /\ out_buf'[code[e].len] = NUL
                      /\ \A i \in 0 .. code[e].len - 1 : out_buf'[i] = e
    BY <1>3, <1>4, Constants DEF Owns, PutsNext, PutsChar
  <2>1. code[e].sent = 0 /\ \A i \in 0 .. code[e].pos - 1 : out_buf[i] = e
    BY <1>0, <1>2, <1>5 DEF Owns
  <2>2. \A i \in 0 .. code[e].pos - 1 : i \in 0 .. BufSize - 1 /\ i # code[e].pos
    BY <1>1, <1>3, Constants
  <2> QED
    BY <1>1, <1>3, <1>6, <2>1, <2>2
<1> QED
  BY <1>1, <1>2, <1>4, <1>5, <1>7, <1>8, <1>9, <1>10, PrinterStep

(* uart_puts takes a character that is not the NUL at the end.             *)
LEMMA LoadStep ==
  ASSUME OInv, NEW e \in Printers, load(e)
  PROVE  OInv'
<1>0. TypeOK /\ Placed(e) /\ Owns(e) /\ out_buf[BufSize - 1] = NUL
  BY DEF OInv
<1>1. /\ UNCHANGED <<current, trap, out_buf, idle, rx, pending, claimed, arrived,
                     lost, clean, steady>>
      /\ code' = [code EXCEPT ![e].at = "poll", ![e].ch = Byte(code[e].pos),
                              ![e].pos = @ + 1, ![e].then = "load"]
      /\ Byte(code[e].pos) # NUL
  BY DEF load, device, ghosts
<1>2. e = Executing /\ code[e].at = "load"
  BY <1>0, RunsIs DEF load
<1>3. /\ code[e].pos \in Nat /\ code[e].pos < BufSize
      /\ Byte(code[e].pos) = out_buf[code[e].pos] /\ code[e].pos \in 0 .. BufSize - 1
      /\ out_buf[code[e].pos] \in Printers \cup {NUL}
  <2>1. code[e].pos \in Nat /\ code[e].pos < BufSize
    BY <1>0, <1>2, CodeIs DEF Placed, PutsNext
  <2>2. code[e].pos \in 0 .. BufSize - 1
    BY <2>1, Constants
  <2>3. out_buf \in [0 .. BufSize - 1 -> Printers \cup {NUL}]
    BY <1>0 DEF TypeOK
  <2> QED
    BY <2>1, <2>2, <2>3 DEF Byte
<1>4. code[e].pos + 1 < BufSize
  BY <1>0, <1>1, <1>3, Constants
<1>5. /\ code' \in [Printers -> Frame]
      /\ \A f \in Printers : f # e => code'[f] = code[f]
      /\ code'[e].at = "poll" /\ code'[e].pos = code[e].pos + 1
      /\ code'[e].len = code[e].len /\ code'[e].sent = code[e].sent
      /\ code'[e].ch = out_buf[code[e].pos] /\ code'[e].then = "load"
  <2>0. PICK r : r = [code[e] EXCEPT !.at = "poll", !.ch = out_buf[code[e].pos],
                                     !.pos = code[e].pos + 1, !.then = "load"]
    OBVIOUS
  <2>1. r = [at |-> "poll", pos |-> code[e].pos + 1, len |-> code[e].len,
             sent |-> code[e].sent, ch |-> out_buf[code[e].pos], then |-> "load"]
    BY <1>0, <2>0, CodeIs DEF Frame
  <2>2. r \in Frame
    BY <1>0, <1>3, <2>1, CodeIs, Constants, SMTT(30) DEF Frame, Places
  <2>3. code' = [code EXCEPT ![e] = r]
    BY <1>1, <1>3, <2>0
  <2> QED
    BY <1>0, <2>1, <2>2, <2>3, CodeIs
<1>6. TypeOK'
  BY <1>0, <1>1, <1>5 DEF TypeOK, Frame
<1>7. Placed(e)'
  BY <1>4, <1>5 DEF Placed, PutsNext, PutsChar
<1>8. Owns(e)'
  <2> SUFFICES ASSUME clean[e]
               PROVE  /\ code[e].len < BufSize /\ code[e].pos + 1 <= code[e].len
                      /\ \A i \in 0 .. code[e].len - 1 : out_buf[i] = e
                      /\ out_buf[code[e].len] = NUL
                      /\ out_buf[code[e].pos] = e /\ code[e].sent + 1 = code[e].pos + 1
    BY <1>1, <1>5 DEF Owns, PutsNext, PutsChar
  <2>1. /\ code[e].len < BufSize /\ code[e].pos <= code[e].len
        /\ \A i \in 0 .. code[e].len - 1 : out_buf[i] = e
        /\ out_buf[code[e].len] = NUL
        /\ code[e].sent = code[e].pos
    BY <1>0, <1>2 DEF Owns, PutsNext, PutsChar
  <2>2. code[e].pos # code[e].len /\ code[e].len \in Nat
    BY <1>0, <1>1, <1>3, <2>1, CodeIs
  <2>3. code[e].pos \in 0 .. code[e].len - 1
    BY <1>3, <2>1, <2>2
  <2> QED
    BY <1>3, <2>1, <2>2, <2>3
<1> QED
  BY <1>0, <1>1, <1>2, <1>5, <1>6, <1>7, <1>8, PrinterStep DEF Callers

LEMMA ReturnStep ==
  ASSUME OInv, NEW e \in Printers, printf_returns(e)
  PROVE  OInv'
<1>0. TypeOK /\ out_buf[BufSize - 1] = NUL
  BY DEF OInv
<1>1. /\ UNCHANGED <<current, trap, out_buf, idle, rx, pending, claimed, arrived,
                     lost, clean, steady>>
      /\ code' = [code EXCEPT ![e] = IF e = Handler THEN [Quiet EXCEPT !.at = "schedule"]
                                     ELSE Quiet]
  BY DEF printf_returns, device, ghosts
<1>2. e = Executing
  BY <1>0, RunsIs DEF printf_returns
<1>3. PICK r : r = IF e = Handler THEN [Quiet EXCEPT !.at = "schedule"] ELSE Quiet
  OBVIOUS
<1>4. r \in Frame /\ r.at \in {"user", "schedule"}
  BY <1>3, QuietIs DEF Frame, Places
<1>5. /\ code' \in [Printers -> Frame] /\ code'[e] = r
      /\ \A f \in Printers : f # e => code'[f] = code[f]
  BY <1>0, <1>1, <1>3, <1>4, CodeIs
<1>6. TypeOK'
  BY <1>0, <1>1, <1>5 DEF TypeOK, Frame
<1>7. Placed(e)' /\ Owns(e)'
  BY <1>4, <1>5, Elsewhere
<1> QED
  BY <1>0, <1>1, <1>2, <1>4, <1>5, <1>6, <1>7, PrinterStep

LEMMA PollStep ==
  ASSUME OInv, NEW e \in Printers, poll(e)
  PROVE  OInv'
<1>0. /\ TypeOK /\ Placed(e) /\ Owns(e) /\ out_buf[BufSize - 1] = NUL
      /\ code[e].at \in {"poll", "write"} => code[e].then \in Callers
  BY DEF OInv, CallsReturn
<1>1. /\ UNCHANGED <<current, trap, out_buf, idle, rx, pending, claimed, arrived, lost, clean>>
      /\ code' = [code EXCEPT ![e].at = "write"] /\ steady' = [steady EXCEPT ![e] = TRUE]
      /\ idle
  BY DEF poll, device
<1>2. e = Executing /\ code[e].at = "poll"
  BY <1>0, RunsIs DEF poll
<1>3. /\ code' \in [Printers -> Frame]
      /\ \A f \in Printers : f # e => code'[f] = code[f]
      /\ code'[e].at = "write" /\ code'[e].pos = code[e].pos
      /\ code'[e].len = code[e].len /\ code'[e].sent = code[e].sent
      /\ code'[e].ch = code[e].ch /\ code'[e].then = code[e].then
  <2>0. PICK r : r = [code[e] EXCEPT !.at = "write"]
    OBVIOUS
  <2>1. r = [at |-> "write", pos |-> code[e].pos, len |-> code[e].len,
             sent |-> code[e].sent, ch |-> code[e].ch, then |-> code[e].then]
    BY <1>0, <2>0, CodeIs DEF Frame
  <2>2. r \in Frame
    BY <1>0, <2>1, CodeIs DEF Frame, Places
  <2>3. code' = [code EXCEPT ![e] = r]
    BY <1>1, <2>0
  <2> QED
    BY <1>0, <2>1, <2>2, <2>3, CodeIs
<1>4. /\ steady' \in [Printers -> BOOLEAN] /\ steady'[e] = TRUE
      /\ \A f \in Printers : f # e => steady'[f] = steady[f]
  BY <1>0, <1>1 DEF TypeOK
<1>5. TypeOK'
  BY <1>0, <1>1, <1>3, <1>4 DEF TypeOK, Frame
<1>6. Placed(e)' /\ Owns(e)'
  BY <1>0, <1>1, <1>2, <1>3 DEF Placed, Owns, PutsNext, PutsChar
<1> QED
  BY <1>0, <1>1, <1>2, <1>3, <1>4, <1>5, <1>6, PrinterStep

LEMMA WriteStep ==
  ASSUME OInv, NEW e \in Printers, write(e)
  PROVE  OInv'
<1>0. /\ TypeOK /\ Placed(e) /\ Owns(e) /\ out_buf[BufSize - 1] = NUL
      /\ code[e].at \in {"poll", "write"} => code[e].then \in Callers
  BY DEF OInv, CallsReturn
<1>1. /\ UNCHANGED <<current, trap, out_buf, rx, pending, claimed, arrived, clean, steady>>
      /\ code' = [code EXCEPT ![e].at = code[e].then,
                              ![e].sent = IF code[e].ch = e THEN @ + 1 ELSE @]
      /\ idle' = FALSE /\ lost' = (lost \/ ~ idle)
  BY DEF write
<1>2. e = Executing /\ code[e].at = "write"
  BY <1>0, RunsIs DEF write
<1>3. PICK n : n = IF code[e].ch = e THEN code[e].sent + 1 ELSE code[e].sent
  OBVIOUS
<1>4. /\ code' \in [Printers -> Frame]
      /\ \A f \in Printers : f # e => code'[f] = code[f]
      /\ code'[e].at = code[e].then /\ code'[e].pos = code[e].pos
      /\ code'[e].len = code[e].len /\ code'[e].sent = n
  <2>0. PICK r : r = [code[e] EXCEPT !.at = code[e].then, !.sent = n]
    OBVIOUS
  <2>1. r = [at |-> code[e].then, pos |-> code[e].pos, len |-> code[e].len,
             sent |-> n, ch |-> code[e].ch, then |-> code[e].then]
    BY <1>0, <2>0, CodeIs DEF Frame
  <2>2. r \in Frame
    BY <1>0, <1>3, <2>1, CodeIs DEF Frame
  <2>3. code' = [code EXCEPT ![e] = r]
    BY <1>1, <1>3, <2>0
  <2> QED
    BY <1>0, <2>1, <2>2, <2>3, CodeIs
<1>5. lost' \in BOOLEAN
  BY <1>1
<1>6. TypeOK'
  BY <1>0, <1>1, <1>4, <1>5 DEF TypeOK, Frame
<1>7. code'[e].at \in Callers
  BY <1>0, <1>2, <1>4
<1>8. Placed(e)'
  BY <1>0, <1>2, <1>4, <1>7 DEF Placed, PutsNext, PutsChar, Callers
<1>9. Owns(e)'
  BY <1>0, <1>1, <1>2, <1>3, <1>4, <1>7 DEF Owns, PutsNext, PutsChar, Callers
<1> QED
  BY <1>0, <1>1, <1>2, <1>4, <1>6, <1>7, <1>8, <1>9, PrinterStep DEF Callers
-----------------------------------------------------------------------------
(* The steps of the trap handlers.                                         *)
LEMMA HandlerRuns ==
  ASSUME TypeOK, NEW w, Runs(Handler, w)
  PROVE  Handler = Executing /\ code[Handler].at = w /\ trap # "none"
BY Constants, RunsIs

LEMMA EnterStep ==
  ASSUME OInv, NEW what \in {"timer", "external"}, NEW then \in {"timer_handler", "plic_claim"},
         Enter(what, then)
  PROVE  OInv'
<1>0. TypeOK /\ out_buf[BufSize - 1] = NUL
  BY DEF OInv
<1>1. /\ UNCHANGED <<current, out_buf, idle, rx, pending, claimed, arrived, lost, clean>>
      /\ trap' = what /\ steady' = [e \in Printers |-> FALSE]
      /\ PutChar(Handler, Literal, then)
  BY DEF Enter, device
<1>2. /\ code' \in [Printers -> Frame]
      /\ \A f \in Printers : f # Handler => code'[f] = code[f]
      /\ code'[Handler].at = "poll" /\ code'[Handler].then = then
  <2>1. then \in Places
    BY DEF Places
  <2> QED
    BY <1>0, <1>1, <2>1, Constants, PutCharIs, SMTT(30)
<1>3. TypeOK'
  BY <1>0, <1>1, <1>2 DEF TypeOK, Frame
<1>4. \A f \in Printers : Placed(f)' /\ Owns(f)'
  BY <1>1, <1>2, Elsewhere, OthersStay, Constants
<1>5. CallsReturn'
  BY <1>1, <1>2 DEF OInv, CallsReturn, Callers
<1>6. Polled'
  BY <1>1 DEF Polled
<1> QED
  BY <1>0, <1>1, <1>3, <1>4, <1>5, <1>6 DEF OInv

LEMMA LeaveStep ==
  ASSUME OInv, Executing = Handler, Leave, current' \in Tasks,
         idle' = idle, pending' \in BOOLEAN, claimed' \in BOOLEAN,
         UNCHANGED <<out_buf, rx, arrived, lost, clean, steady>>
  PROVE  OInv'
<1>0. TypeOK /\ out_buf[BufSize - 1] = NUL
  BY DEF OInv
<1>1. /\ code' \in [Printers -> Frame] /\ code'[Handler] = Quiet /\ trap' = "none"
      /\ \A f \in Printers : f # Handler => code'[f] = code[f]
  BY <1>0, CodeIs, Constants, QuietIs DEF Leave
<1>2. TypeOK'
  BY <1>0, <1>1 DEF TypeOK, Frame
<1>3. \A f \in Printers : Placed(f)' /\ Owns(f)'
  <2>1. Placed(Handler)' /\ Owns(Handler)'
    BY <1>1, QuietIs, Constants, Elsewhere
  <2> QED
    BY <1>1, <2>1, OthersStay
<1>4. CallsReturn'
  BY <1>1, QuietIs DEF OInv, CallsReturn
<1>5. Polled'
  BY <1>1, QuietIs DEF OInv, Polled
<1> QED
  BY <1>0, <1>2, <1>3, <1>4, <1>5 DEF OInv

LEMMA ScheduleStep ==
  ASSUME OInv, schedule
  PROVE  OInv'
<1>1. TypeOK
  BY DEF OInv
<1>2. Executing = Handler /\ Leave
  BY <1>1, HandlerRuns DEF schedule
<1>3. current' \in Tasks
  <2>1. current \in 1 .. NumTasks /\ current' = (current % NumTasks) + 1
    BY <1>1 DEF TypeOK, Tasks, schedule, NextTask
  <2>2. current % NumTasks \in 0 .. NumTasks - 1
    BY <2>1, Constants
  <2> QED
    BY <2>1, <2>2, Constants DEF Tasks
<1>4. UNCHANGED <<out_buf, idle, rx, pending, claimed, arrived, lost, clean, steady>>
  BY DEF schedule, device, ghosts
<1> QED
  BY <1>1, <1>2, <1>3, <1>4, LeaveStep DEF TypeOK

LEMMA PlicCompleteStep ==
  ASSUME OInv, plic_complete
  PROVE  OInv'
<1>1. TypeOK
  BY DEF OInv
<1>2. /\ UNCHANGED <<current, out_buf, idle, rx, pending, arrived, lost, clean, steady>>
      /\ claimed' = FALSE /\ Leave /\ Executing = Handler
  BY <1>1, HandlerRuns DEF plic_complete, ghosts
<1> QED
  BY <1>1, <1>2, LeaveStep DEF TypeOK

(* The handler goes on to a place where it has nothing in the buffer.      *)
LEMMA HandlerGoes ==
  ASSUME OInv, NEW w \in {"uart_isr", "plic_complete"}, Executing = Handler,
         code' = [code EXCEPT ![Handler].at = w], UNCHANGED <<current, trap, out_buf, idle,
           rx, arrived, lost, clean, steady>>,
         pending' \in BOOLEAN, claimed' \in BOOLEAN
  PROVE  OInv'
<1>0. TypeOK /\ out_buf[BufSize - 1] = NUL
  BY DEF OInv
<1>1. /\ code' \in [Printers -> Frame] /\ code'[Handler].at = w
      /\ \A f \in Printers : f # Handler => code'[f] = code[f]
  <2>0. PICK c \in Frame : c = code[Handler]
    BY <1>0, CodeIs, Constants
  <2>1. PICK r : r = [c EXCEPT !.at = w]
    OBVIOUS
  <2>2. r = [at |-> w, pos |-> c.pos, len |-> c.len,
             sent |-> c.sent, ch |-> c.ch, then |-> c.then]
    BY <2>1 DEF Frame
  <2>3. r \in Frame
    BY <2>2 DEF Frame, Places
  <2>4. code' = [code EXCEPT ![Handler] = r]
    BY <2>0, <2>1
  <2> QED
    BY <1>0, <2>2, <2>3, <2>4, CodeIs, Constants
<1>2. TypeOK'
  BY <1>0, <1>1 DEF TypeOK, Frame
<1>3. Placed(Handler)' /\ Owns(Handler)'
  BY <1>1, Constants, Elsewhere
<1> QED
  BY <1>0, <1>1, <1>2, <1>3, Constants, PrinterStep

LEMMA PlicClaimStep ==
  ASSUME OInv, plic_claim
  PROVE  OInv'
<1>1. TypeOK
  BY DEF OInv
<1>2. /\ UNCHANGED <<current, out_buf, idle, rx, arrived, lost, clean, steady>>
      /\ pending' = FALSE /\ claimed' = pending /\ Executing = Handler
  BY <1>1, HandlerRuns DEF plic_claim, ghosts
<1>3. current \in Tasks /\ pending' \in BOOLEAN /\ claimed' \in BOOLEAN
  BY <1>1, <1>2 DEF TypeOK
<1>4. CASE pending
  <2>1. code' = [code EXCEPT ![Handler].at = "uart_isr"] /\ trap' = trap
    BY <1>4 DEF plic_claim
  <2> QED
    BY <1>2, <1>3, <2>1, HandlerGoes
<1>5. CASE ~ pending
  <2>1. Leave
    BY <1>5 DEF plic_claim
  <2> QED
    BY <1>2, <1>3, <2>1, LeaveStep
<1> QED
  BY <1>4, <1>5

(* The handler calls uart_putc.                                            *)
LEMMA HandlerPuts ==
  ASSUME OInv, Executing = Handler, NEW ch \in Chars, NEW then \in {"newline", "uart_isr"},
         PutChar(Handler, ch, then),
         UNCHANGED <<current, trap, out_buf, idle, pending, claimed, arrived, lost, clean, steady>>,
         rx' \in Seq(Chars), Len(rx') <= FifoSize
  PROVE  OInv'
<1>0. TypeOK /\ out_buf[BufSize - 1] = NUL
  BY DEF OInv
<1>1. /\ code' \in [Printers -> Frame]
      /\ \A f \in Printers : f # Handler => code'[f] = code[f]
      /\ code'[Handler].at = "poll" /\ code'[Handler].then = then
  <2>1. then \in Places
    BY DEF Places
  <2> QED
    BY <1>0, <2>1, Constants, PutCharIs
<1>2. TypeOK'
  BY <1>0, <1>1 DEF TypeOK, Frame
<1>3. Placed(Handler)' /\ Owns(Handler)'
  BY <1>1, Constants, Elsewhere
<1> QED
  BY <1>0, <1>1, <1>2, <1>3, Constants, PrinterStep DEF Callers

LEMMA UartIsrStep ==
  ASSUME OInv, uart_isr
  PROVE  OInv'
<1>1. /\ TypeOK /\ rx \in Seq(Chars) /\ Len(rx) <= FifoSize
      /\ pending \in BOOLEAN /\ claimed \in BOOLEAN
  BY DEF OInv, TypeOK
<1>2. /\ UNCHANGED <<current, trap, out_buf, idle, pending, claimed, arrived, lost, clean, steady>>
      /\ Executing = Handler
  BY <1>1, HandlerRuns DEF uart_isr, ghosts
<1>3. CASE rx = <<>>
  <2>1. code' = [code EXCEPT ![Handler].at = "plic_complete"] /\ rx' = rx
    BY <1>3 DEF uart_isr
  <2> QED
    BY <1>1, <1>2, <2>1, HandlerGoes
<1>4. CASE rx # <<>>
  <2>1. rx' = Tail(rx) /\ PutChar(Handler, Head(rx), "newline")
    BY <1>4 DEF uart_isr
  <2>2. Head(rx) \in Chars /\ Tail(rx) \in Seq(Chars) /\ Len(Tail(rx)) <= FifoSize
    BY <1>1, <1>4, ConsoleAssumption
  <2> QED
    BY <1>1, <1>2, <2>1, <2>2, HandlerPuts
<1> QED
  BY <1>3, <1>4

LEMMA NewlineStep ==
  ASSUME OInv, newline
  PROVE  OInv'
<1>1. TypeOK /\ rx \in Seq(Chars) /\ Len(rx) <= FifoSize
  BY DEF OInv, TypeOK
<1>2. /\ UNCHANGED <<current, trap, out_buf, idle, rx, pending, claimed, arrived, lost, clean, steady>>
      /\ Executing = Handler /\ PutChar(Handler, Literal, "uart_isr")
  BY <1>1, HandlerRuns DEF newline, device, ghosts
<1> QED
  BY <1>1, <1>2, Constants, HandlerPuts
-----------------------------------------------------------------------------
(* The devices touch no printer; what a poll has seen, a transmitter that  *)
(* gets idle does not change.                                              *)
LEMMA DeviceStep ==
  ASSUME OInv, TypeOK', UNCHANGED <<current, trap, code, out_buf, clean, steady>>, idle => idle'
  PROVE  OInv'
<1>1. \A f \in Printers : Placed(f)' /\ Owns(f)'
  BY OthersStay
<1>2. CallsReturn' /\ Polled'
  BY DEF OInv, CallsReturn, Polled, Executing
<1> QED
  BY <1>1, <1>2 DEF OInv

LEMMA DevicesStep ==
  ASSUME OInv, transmit \/ receive \/ plic_gateway \/ UNCHANGED vars
  PROVE  OInv'
<1>1. UNCHANGED <<current, trap, code, out_buf, lost, clean, steady>>
  BY DEF transmit, receive, plic_gateway, vars, ghosts
<1>2. /\ idle' \in BOOLEAN /\ pending' \in BOOLEAN /\ claimed' \in BOOLEAN
      /\ idle => idle'
  BY DEF OInv, TypeOK, transmit, receive, plic_gateway, vars, device
<1>3. /\ rx' \in Seq(Chars) /\ Len(rx') <= FifoSize /\ arrived' \in 0 .. MaxChars
  <2>1. rx \in Seq(Chars) /\ Len(rx) <= FifoSize /\ arrived \in 0 .. MaxChars
    BY DEF OInv, TypeOK
  <2>2. CASE receive
    <3>1. rx' = Append(rx, Echo + arrived) /\ arrived' = arrived + 1
          /\ arrived < MaxChars /\ Len(rx) < FifoSize
      BY <2>2 DEF receive
    <3>2. Echo + arrived \in Chars
      BY <2>1, Constants DEF Chars, Echo
    <3> QED
      BY <2>1, <3>1, <3>2, ConsoleAssumption
  <2>3. CASE ~ receive
    <3>1. UNCHANGED <<rx, arrived>>
      BY <2>3 DEF transmit, plic_gateway, vars, device
    <3> QED
      BY <2>1, <3>1
  <2> QED
    BY <2>2, <2>3
<1>4. TypeOK'
  BY <1>1, <1>2, <1>3 DEF OInv, TypeOK
<1> QED
  BY <1>1, <1>2, <1>4, DeviceStep

LEMMA InitStep ==
  ASSUME Init
  PROVE  OInv
<1>1. \A e \in Printers : code[e] = Quiet /\ ~ clean[e]
  BY DEF Init
<1>2. TypeOK
  <2>1. code \in [Printers -> Frame]
    BY QuietIs DEF Init
  <2>2. current \in Tasks /\ rx \in Seq(Chars) /\ Len(rx) <= FifoSize /\ arrived \in 0 .. MaxChars
    BY Constants, ConsoleAssumption DEF Init, Tasks
  <2>3. out_buf \in [0 .. BufSize - 1 -> Printers \cup {NUL}]
    BY DEF Init
  <2> QED
    BY <2>1, <2>2, <2>3 DEF Init, TypeOK, Frame
<1>3. CallsReturn /\ Polled
  BY <1>1, QuietIs, Constants DEF Init, CallsReturn, Polled
<1>4. out_buf[BufSize - 1] = NUL
  BY Constants DEF Init
<1>5. \A e \in Printers : Placed(e) /\ Owns(e)
  BY <1>1, QuietIs DEF Placed, Owns, PutsNext, PutsChar
<1> QED
  BY <1>2, <1>3, <1>4, <1>5 DEF OInv

LEMMA NextStep ==
  ASSUME OInv, [Next]_vars
  PROVE  OInv'
<1>0. TypeOK
  BY DEF OInv
<1>1. CASE \E t \in Tasks, len \in Lengths : Runs(t, "user") /\ printf(t, len)
  BY <1>0, <1>1, RunsIs, PrintfStep, Constants, ConsoleAssumption
<1>2. CASE Printing
  BY <1>2, FormatStep, FormatEndStep, LoadStep, ReturnStep, PollStep, WriteStep DEF Printing
<1>3. CASE timer_handler
  BY <1>0, <1>3, HandlerRuns, PrintfStep, Constants, ConsoleAssumption DEF timer_handler
<1>4. CASE schedule \/ plic_claim \/ uart_isr \/ newline \/ plic_complete
  BY <1>4, ScheduleStep, PlicClaimStep, UartIsrStep, NewlineStep, PlicCompleteStep
<1>5. CASE timer_interrupt \/ external_interrupt
  BY <1>5, EnterStep DEF timer_interrupt, external_interrupt
<1>6. CASE transmit \/ receive \/ plic_gateway \/ UNCHANGED vars
  BY <1>6, DevicesStep
<1> QED
  BY <1>1, <1>2, <1>3, <1>4, <1>5, <1>6 DEF Next, InTrap

(* In every state reached, printers are where their text is, and have seen *)
(* what they act on (OInv).                                                *)
THEOREM ConsoleInvariant == Spec => []OInv
<1>1. Init => OInv
  BY InitStep
<1>2. OInv /\ [Next]_vars => OInv'
  BY NextStep
<1> QED
  BY <1>1, <1>2, PTL DEF Spec

(* Nobody gets past the end of out_buf, however many print into it at the  *)
(* same time: see BufferIsKept.                                            *)
THEOREM NobodyLeavesBuffer == Spec => []BufferIsKept
<1>1. OInv => BufferIsKept
  <2> SUFFICES ASSUME OInv, NEW e \in Printers, code[e].at \in {"format", "load"}
               PROVE  code[e].pos < BufSize
    BY DEF OInv, BufferIsKept
  <2>1. TypeOK /\ Placed(e)
    BY DEF OInv
  <2> QED
    BY <2>1, CodeIs, Constants DEF Placed, PutsNext
<1> QED
  BY <1>1, ConsoleInvariant, PTL

(* A printf that has the buffer for itself prints its text, all of it and  *)
(* nothing else: see UndisturbedPrints.                                    *)
THEOREM TextsArePrinted == Spec => []UndisturbedPrints
<1>1. OInv => UndisturbedPrints
  <2> SUFFICES ASSUME OInv, NEW e \in Printers, clean[e], code[e].at = "load"
               PROVE  /\ code[e].sent = code[e].pos /\ code[e].pos <= code[e].len
                      /\ out_buf[code[e].pos] = NUL <=> code[e].pos = code[e].len
    BY DEF UndisturbedPrints
  <2>1. /\ code[e].pos <= code[e].len /\ code[e].sent = code[e].pos
        /\ \A i \in 0 .. code[e].len - 1 : out_buf[i] = e
        /\ out_buf[code[e].len] = NUL
    BY DEF OInv, Owns, PutsNext
  <2>2. code[e].pos \in Nat /\ code[e].len \in Nat /\ e # NUL
    BY CodeIs, Constants DEF OInv
  <2>3. code[e].pos # code[e].len => out_buf[code[e].pos] = e
    BY <2>1, <2>2
  <2> QED
    BY <2>1, <2>2, <2>3
<1> QED
  BY <1>1, ConsoleInvariant, PTL

(* A trap handler never loses a character, and a task only if it was       *)
(* interrupted between its poll and its write: see PollHolds.              *)
THEOREM PollsHold == Spec => []PollHolds
<1>1. OInv => PollHolds
  BY DEF OInv, Polled, CallsReturn, PollHolds, Runs
<1> QED
  BY <1>1, ConsoleInvariant, PTL
-----------------------------------------------------------------------------
(* The input.  First the parts of a printer that a step of it changes.     *)
LEMMA FormatMoves ==
  ASSUME TypeOK, NEW e \in Printers, format(e) \/ format_end(e) \/ printf_returns(e)
  PROVE  /\ e = Executing /\ UNCHANGED <<trap, rx, pending, claimed, arrived, echoed>>
         /\ \A f \in Printers : f # e => code'[f] = code[f]
         /\ code[e].at \in {"format", "load"}
         /\ code'[e].at \in {"user", "format", "load", "schedule"}
         /\ code'[e].at = "schedule" => e = Handler
<1>1. code \in [Printers -> Frame] /\ code[e] \in Frame
  BY CodeIs
<1>2. CASE format(e)
  <2>1. code' = [code EXCEPT ![e].pos = @ + 1]
        /\ UNCHANGED <<trap, rx, pending, claimed, arrived, echoed>>
    BY <1>2 DEF format, device
  <2>2. e = Executing /\ code[e].at = "format"
    BY <1>2, RunsIs DEF format
  <2>3. code'[e].at = code[e].at
    BY <1>1, <2>1 DEF Frame
  <2> QED
    BY <1>1, <2>1, <2>2, <2>3
<1>3. CASE format_end(e)
  <2>1. code' = [code EXCEPT ![e].at = "load", ![e].pos = 0]
        /\ UNCHANGED <<trap, rx, pending, claimed, arrived, echoed>>
    BY <1>3 DEF format_end, device
  <2>2. e = Executing /\ code[e].at = "format"
    BY <1>3, RunsIs DEF format_end
  <2>3. code'[e].at = "load"
    BY <1>1, <2>1 DEF Frame
  <2> QED
    BY <1>1, <2>1, <2>2, <2>3
<1>4. CASE printf_returns(e)
  <2>1. code' = [code EXCEPT ![e] = IF e = Handler THEN [Quiet EXCEPT !.at = "schedule"]
                                    ELSE Quiet]
        /\ UNCHANGED <<trap, rx, pending, claimed, arrived, echoed>>
    BY <1>4 DEF printf_returns, device, ghosts
  <2>2. e = Executing /\ code[e].at = "load"
    BY <1>4, RunsIs DEF printf_returns
  <2>3. code'[e].at = IF e = Handler THEN "schedule" ELSE "user"
    BY <1>1, <2>1 DEF Quiet
  <2> QED
    BY <1>1, <2>1, <2>2, <2>3
<1> QED
  BY <1>2, <1>3, <1>4

LEMMA LoadMoves ==
  ASSUME TypeOK, NEW e \in Printers, load(e)
  PROVE  /\ e = Executing /\ UNCHANGED <<trap, rx, pending, claimed, arrived, echoed>>
         /\ \A f \in Printers : f # e => code'[f] = code[f]
         /\ code[e].at = "load" /\ code'[e].at = "poll" /\ code'[e].then = "load"
         /\ code'[e].ch \in Printers \cup {NUL}
<1>1. code \in [Printers -> Frame] /\ code[e] \in Frame
  BY CodeIs
<1>2. PICK b : b = Byte(code[e].pos)
  OBVIOUS
<1>3. b \in Printers \cup {NUL}
  BY <1>2 DEF Byte, TypeOK
<1>4. code' = [code EXCEPT ![e].at = "poll", ![e].ch = b, ![e].pos = @ + 1, ![e].then = "load"]
      /\ UNCHANGED <<trap, rx, pending, claimed, arrived, echoed>>
  BY <1>2 DEF load, device, ghosts
<1>5. e = Executing /\ code[e].at = "load"
  BY RunsIs DEF load
<1>6. code'[e].at = "poll" /\ code'[e].then = "load" /\ code'[e].ch = b
  BY <1>1, <1>4 DEF Frame
<1> QED
  BY <1>1, <1>3, <1>4, <1>5, <1>6

LEMMA PollMoves ==
  ASSUME TypeOK, NEW e \in Printers, poll(e)
  PROVE  /\ e = Executing /\ UNCHANGED <<trap, rx, pending, claimed, arrived, echoed>>
         /\ \A f \in Printers : f # e => code'[f] = code[f]
         /\ code[e].at = "poll" /\ code'[e].at = "write"
         /\ code'[e].then = code[e].then /\ code'[e].ch = code[e].ch
<1>1. code \in [Printers -> Frame] /\ code[e] \in Frame
  BY CodeIs
<1>2. code' = [code EXCEPT ![e].at = "write"]
      /\ UNCHANGED <<trap, rx, pending, claimed, arrived, echoed>>
  BY DEF poll, device
<1>3. e = Executing /\ code[e].at = "poll"
  BY RunsIs DEF poll
<1>4. code'[e].at = "write" /\ code'[e].then = code[e].then /\ code'[e].ch = code[e].ch
  BY <1>1, <1>2 DEF Frame
<1> QED
  BY <1>1, <1>2, <1>3, <1>4

LEMMA WriteMoves ==
  ASSUME TypeOK, NEW e \in Printers, write(e)
  PROVE  /\ e = Executing /\ UNCHANGED <<trap, rx, pending, claimed, arrived>>
         /\ \A f \in Printers : f # e => code'[f] = code[f]
         /\ code[e].at = "write" /\ code'[e].at = code[e].then
         /\ echoed' = IF code[e].ch >= Echo THEN Append(echoed, code[e].ch) ELSE echoed
<1>1. code \in [Printers -> Frame] /\ code[e] \in Frame
  BY CodeIs
<1>2. PICK n : n = IF code[e].ch = e THEN code[e].sent + 1 ELSE code[e].sent
  OBVIOUS
<1>3. code' = [code EXCEPT ![e].at = code[e].then, ![e].sent = n]
      /\ UNCHANGED <<trap, rx, pending, claimed, arrived>>
  BY <1>2 DEF write
<1>4. e = Executing /\ code[e].at = "write"
  BY RunsIs DEF write
<1>5. code'[e].at = code[e].then
  BY <1>1, <1>3 DEF Frame
<1>6. echoed' = IF code[e].ch >= Echo THEN Append(echoed, code[e].ch) ELSE echoed
  BY DEF write
<1> QED
  BY <1>1, <1>3, <1>4, <1>5, <1>6

(* printf calls the first pass or complains.                               *)
LEMMA PrintfMoves ==
  ASSUME TypeOK, NEW e \in Printers, NEW len, printf(e, len)
  PROVE  /\ UNCHANGED <<trap, rx, pending, claimed, arrived, echoed>>
         /\ \A f \in Printers : f # e => code'[f] = code[f]
         /\ \/ code'[e].at = "format"
            \/ code'[e].at = "poll" /\ code'[e].then = "spin" /\ code'[e].ch = Literal
         /\ ~ TooLong(len) => code'[e].at = "format"
<1>1. UNCHANGED <<trap, rx, pending, claimed, arrived, echoed>>
  BY DEF printf, device
<1>2. CASE TooLong(len)
  <2>1. PutChar(e, Literal, "spin")
    BY <1>2 DEF printf
  <2>2. Literal \in Chars /\ "spin" \in Places
    BY Constants DEF Places
  <2> QED
    BY <1>1, <1>2, <2>1, <2>2, PutCharIs
<1>3. CASE ~ TooLong(len)
  <2>1. code' = [code EXCEPT ![e] = [Quiet EXCEPT !.at = "format", !.len = len]]
    BY <1>3 DEF printf
  <2>2. [Quiet EXCEPT !.at = "format", !.len = len].at = "format"
    BY DEF Quiet
  <2>3. code \in [Printers -> Frame]
    BY CodeIs
  <2> QED
    BY <1>1, <2>1, <2>2, <2>3
<1> QED
  BY <1>2, <1>3
-----------------------------------------------------------------------------
LEMMA Characters ==
  /\ Echo \in Nat /\ NUL < Echo /\ Literal < Echo
  /\ \A e \in Printers : e < Echo
  /\ \A c \in Chars : c \in Nat
<1>1. NumTasks \in Nat /\ MaxChars \in Nat
  BY Constants
<1>2. Echo = NumTasks + 3 /\ Literal = NumTasks + 2 /\ NUL = 0
  BY DEF Echo, Literal, NUL
<1>3. \A e \in Printers : e \in Nat /\ e < Echo
  BY <1>1, <1>2, Constants
<1>4. \A c \in Chars : c \in Nat
  BY <1>1, <1>2 DEF Chars
<1> QED
  BY <1>1, <1>2, <1>3, <1>4

(* A step of a task has nothing to do with the input.                      *)
LEMMA TaskKeepsInput ==
  ASSUME TypeOK, InputInv, NEW t \in Tasks,
         UNCHANGED <<trap, rx, pending, claimed, arrived, echoed>>,
         \A f \in Printers : f # t => code'[f] = code[f],
         code'[t].at \in {"user", "format", "load", "poll", "write", "spin"},
         code'[t].at \in {"poll", "write"} =>
           code'[t].then \in {"load", "spin"} /\ code'[t].ch < Echo,
         code'[t].ch \in Nat
  PROVE  InputInv'
<1>1. code'[Handler] = code[Handler] /\ t # Handler
  BY Constants
<1>2. InHand' = InHand /\ Serving' = Serving
  BY <1>1 DEF InHand, Serving
<1>3. \A e \in Printers : Holds(e)'
  <2>1. Holds(t)'
    BY <1>1, Characters DEF Holds
  <2>2. \A e \in Printers : e # t => Holds(e)'
    BY DEF InputInv, Holds
  <2> QED
    BY <2>1, <2>2
<1>4. EchoesInOrder'
  BY <1>2 DEF InputInv, EchoesInOrder
<1> QED
  BY <1>1, <1>2, <1>3, <1>4, Constants DEF InputInv

(* A step of the handler has to leave the input in order.                  *)
LEMMA HandlerKeepsInput ==
  ASSUME InputInv, \A f \in Printers : f # Handler => code'[f] = code[f],
         echoed' \in Seq(Chars), Holds(Handler)', EchoesInOrder',
         claimed' <=> Serving', Serving' => trap' = "external" /\ ~ pending',
         \/ code'[Handler].at = "plic_claim"
         \/ code'[Handler].at \in {"poll", "write"} /\ code'[Handler].then = "plic_claim"
         => trap' = "external" /\ pending'
  PROVE  InputInv'
<1>1. \A e \in Printers : Holds(e)'
  <2>1. \A e \in Printers : e # Handler => Holds(e)'
    BY DEF InputInv, Holds
  <2> QED
    BY <2>1
<1> QED
  BY <1>1, Constants DEF InputInv

(* What stays is in order.                                                 *)
LEMMA SameInput ==
  ASSUME InputInv, UNCHANGED <<echoed, rx, arrived>>, InHand' = InHand
  PROVE  EchoesInOrder' /\ echoed' \in Seq(Chars)
BY DEF InputInv, EchoesInOrder

LEMMA NothingInHand ==
  ASSUME code[Handler].at \notin {"poll", "write"} \/ code[Handler].then # "newline"
  PROVE  InHand = <<>>
BY DEF InHand

LEMMA TaskPrints ==
  ASSUME TypeOK, TypeOK', InputInv, NEW t \in Tasks,
         \/ format(t) \/ format_end(t) \/ load(t) \/ printf_returns(t) \/ poll(t) \/ write(t)
         \/ \E len : printf(t, len)
  PROVE  InputInv'
<1>1. t \in Printers /\ t # Handler
  BY Constants
<1>2. /\ Holds(t) /\ code[t].at \in {"user", "format", "load", "poll", "write", "spin"}
      /\ code[t].at \in {"poll", "write"} => code[t].then \in {"load", "spin"}
  BY <1>1 DEF InputInv
<1>3. code'[t].ch \in Nat /\ code[t].ch \in Nat
  <2>1. code'[t].ch \in Chars /\ code[t].ch \in Chars
    BY <1>1, CodeIs DEF TypeOK
  <2> QED
    BY <2>1, Characters
<1>4. CASE format(t) \/ format_end(t) \/ printf_returns(t)
  BY <1>1, <1>3, <1>4, FormatMoves, TaskKeepsInput
<1>5. CASE load(t)
  <2>1. code'[t].ch < Echo
    BY <1>1, <1>5, LoadMoves, Characters
  <2> QED
    BY <1>1, <1>3, <1>5, <2>1, LoadMoves, TaskKeepsInput
<1>6. CASE poll(t)
  <2>1. code'[t].ch < Echo
    BY <1>1, <1>2, <1>3, <1>6, PollMoves, Characters DEF Holds
  <2> QED
    BY <1>1, <1>2, <1>3, <1>6, <2>1, PollMoves, TaskKeepsInput
<1>7. CASE write(t)
  <2>1. ~ (code[t].ch >= Echo) /\ code[t].then \in {"load", "spin"}
    BY <1>1, <1>2, <1>7, WriteMoves DEF Holds
  <2> QED
    BY <1>1, <1>3, <1>7, <2>1, WriteMoves, TaskKeepsInput
<1>8. CASE \E len : printf(t, len)
  <2>1. PICK len : printf(t, len)
    BY <1>8
  <2>2. Literal < Echo
    BY Characters
  <2> QED
    BY <1>1, <1>3, <2>1, <2>2, PrintfMoves, TaskKeepsInput
<1> QED
  BY <1>4, <1>5, <1>6, <1>7, <1>8
-----------------------------------------------------------------------------
(* Sequences: what moves from one of three to the next.                    *)
LEMMA MovedOn ==
  ASSUME NEW S, NEW p \in Seq(S), NEW q \in Seq(S), q # <<>>
  PROVE  p \o <<Head(q)>> \o Tail(q) = p \o <<>> \o q
<1>1. p \o <<>> = p /\ <<Head(q)>> \in Seq(S) /\ Tail(q) \in Seq(S)
  OBVIOUS
<1>2. (p \o <<Head(q)>>) \o Tail(q) = p \o (<<Head(q)>> \o Tail(q))
  BY <1>1, ConcatAssociative, SMT
<1>3. <<Head(q)>> \o Tail(q) = q
  OBVIOUS
<1> QED
  BY <1>1, <1>2, <1>3

LEMMA HandedOver ==
  ASSUME NEW S, NEW p \in Seq(S), NEW q \in Seq(S), NEW x \in S
  PROVE  Append(p, x) \o <<>> \o q = p \o <<x>> \o q
<1>1. Append(p, x) = p \o <<x>> /\ Append(p, x) \in Seq(S)
  OBVIOUS
<1>2. Append(p, x) \o <<>> = Append(p, x)
  BY <1>1
<1> QED
  BY <1>1, <1>2

(* The numbers from c on.                                                  *)
LEMMA Upwards ==
  ASSUME NEW n \in Nat, NEW c \in Nat
  PROVE  /\ [k \in 1 .. n |-> c + k - 1] \in Seq(Int)
         /\ Len([k \in 1 .. n |-> c + k - 1]) = n
         /\ \A i \in 1 .. n : [k \in 1 .. n |-> c + k - 1][i] = c + i - 1
OBVIOUS

LEMMA UpwardsAppend ==
  ASSUME NEW n \in Nat, NEW c \in Nat
  PROVE  Append([k \in 1 .. n |-> c + k - 1], c + n) = [k \in 1 .. n + 1 |-> c + k - 1]
<1> DEFINE v == [k \in 1 .. n |-> c + k - 1]
           w == [k \in 1 .. n + 1 |-> c + k - 1]
<1>1. v \in Seq(Int) /\ Len(v) = n /\ \A i \in 1 .. n : v[i] = c + i - 1
  BY Upwards
<1>2. w \in Seq(Int) /\ Len(w) = n + 1 /\ \A i \in 1 .. n + 1 : w[i] = c + i - 1
  BY Upwards
<1> HIDE DEF v, w
<1>3. Append(v, c + n) \in Seq(Int) /\ Len(Append(v, c + n)) = n + 1
  BY <1>1
<1>4. \A i \in 1 .. n + 1 : Append(v, c + n)[i] = w[i]
  BY <1>1, <1>2
<1> QED
  BY <1>2, <1>3, <1>4, SeqEqual DEF v, w

LEMMA OneMore ==
  ASSUME NEW S, NEW p \in Seq(S), NEW q \in Seq(S), NEW r \in Seq(S), NEW x \in S
  PROVE  p \o q \o Append(r, x) = Append(p \o q \o r, x)
<1>1. p \o q \in Seq(S)
  OBVIOUS
<1>2. PICK u \in Seq(S) : u = p \o q
  BY <1>1
<1>3. u \o Append(r, x) = Append(u \o r, x)
  OBVIOUS
<1> QED
  BY <1>2, <1>3

LEMMA FirstIsFrom ==
  ASSUME NEW S, NEW p \in Seq(S), NEW r \in Seq(S), NEW n \in Nat, NEW c \in Nat,
         r # <<>>, p \o <<>> \o r = [k \in 1 .. n |-> c + k - 1]
  PROVE  c <= Head(r)
<1> DEFINE v == p \o r
<1>1. Len(r) \in Nat /\ Len(r) # 0 /\ Len(p) \in Nat /\ Head(r) = r[1]
  OBVIOUS
<1>2. Len(v) = Len(p) + Len(r) /\ v[Len(p) + 1] = r[1]
  BY <1>1
<1>3. p \o <<>> \o r = v
  BY ConcatEmptySeq
<1>4. v = [k \in 1 .. n |-> c + k - 1]
  BY <1>3
<1> HIDE DEF v
<1>5. Len(v) = n /\ \A k \in 1 .. n : v[k] = c + k - 1
  BY <1>4
<1>6. Len(p) + 1 \in 1 .. n
  BY <1>1, <1>2, <1>5
<1>7. v[Len(p) + 1] = c + Len(p)
  BY <1>1, <1>5, <1>6
<1>8. r[1] >= c
  BY <1>1, <1>2, <1>7
<1> QED
  BY ONLY <1>1, <1>8, Zenon

(* What the conjuncts of InputInv say of the handler.                      *)
LEMMA InputIs ==
  ASSUME TypeOK, InputInv
  PROVE  /\ echoed \in Seq(Chars) /\ rx \in Seq(Chars) /\ arrived \in Nat
         /\ code[Handler].at \in {"poll", "write"} =>
              (code[Handler].ch >= Echo <=> code[Handler].then = "newline")
         /\ claimed <=> Serving
         /\ Serving => trap = "external" /\ ~ pending
         /\ code[Handler] \in Frame
<1>1. code[Handler] \in Frame
  BY CodeIs, Constants
<1>2. arrived \in Nat
  BY Constants DEF TypeOK
<1>3. Holds(Handler)
  BY Constants DEF InputInv
<1> QED
  BY <1>1, <1>2, <1>3 DEF TypeOK, InputInv, Holds

LEMMA HandlerFormats ==
  ASSUME TypeOK, InputInv,
         format(Handler) \/ format_end(Handler) \/ load(Handler) \/ printf_returns(Handler)
  PROVE  InputInv'
<1>0. Handler \in Printers
  BY Constants
<1>1. /\ UNCHANGED <<trap, rx, pending, claimed, arrived, echoed>>
      /\ \A f \in Printers : f # Handler => code'[f] = code[f]
      /\ code[Handler].at \in {"format", "load"}
      /\ \/ code'[Handler].at \in {"user", "format", "load", "schedule"}
         \/ /\ code'[Handler].at = "poll" /\ code'[Handler].then = "load"
            /\ code'[Handler].ch \in Printers \cup {NUL}
  BY <1>0, FormatMoves, LoadMoves
<1>2. ~ Serving /\ ~ Serving' /\ InHand = <<>> /\ InHand' = <<>>
  BY <1>1 DEF Serving, InHand
<1>3. code'[Handler].at \in {"poll", "write"} => ~ (code'[Handler].ch >= Echo)
  <2>1. \A c \in Printers \cup {NUL} : ~ (c >= Echo)
    BY Characters, Constants DEF NUL
  <2> QED
    BY <1>1, <2>1
<1>4. Holds(Handler)'
  BY <1>1, <1>3 DEF Holds
<1>5. EchoesInOrder' /\ echoed' \in Seq(Chars)
  BY <1>1, <1>2, SameInput
<1>6. claimed' <=> Serving'
  BY <1>1, <1>2, InputIs
<1> QED
  BY <1>1, <1>2, <1>4, <1>5, <1>6, HandlerKeepsInput

LEMMA HandlerPolls ==
  ASSUME TypeOK, InputInv, poll(Handler)
  PROVE  InputInv'
<1>0. Handler \in Printers
  BY Constants
<1>1. /\ UNCHANGED <<trap, rx, pending, claimed, arrived, echoed>>
      /\ \A f \in Printers : f # Handler => code'[f] = code[f]
      /\ code[Handler].at = "poll" /\ code'[Handler].at = "write"
      /\ code'[Handler].then = code[Handler].then /\ code'[Handler].ch = code[Handler].ch
  BY <1>0, PollMoves
<1>2. (Serving' <=> Serving) /\ InHand' = InHand
  BY <1>1 DEF Serving, InHand
<1>3. Holds(Handler)'
  BY <1>1, InputIs DEF Holds
<1>4. EchoesInOrder' /\ echoed' \in Seq(Chars)
  BY <1>1, <1>2, SameInput
<1>5. code[Handler].then = "plic_claim" => trap = "external" /\ pending
  BY <1>1 DEF InputInv
<1> QED
  BY <1>1, <1>2, <1>3, <1>4, <1>5, InputIs, HandlerKeepsInput

LEMMA HandlerWrites ==
  ASSUME TypeOK, InputInv, write(Handler), code[Handler].then \in Callers
  PROVE  InputInv'
<1>0. Handler \in Printers
  BY Constants
<1>1. /\ UNCHANGED <<trap, rx, pending, claimed, arrived>>
      /\ \A f \in Printers : f # Handler => code'[f] = code[f]
      /\ code[Handler].at = "write" /\ code'[Handler].at = code[Handler].then
      /\ echoed' = IF code[Handler].ch >= Echo THEN Append(echoed, code[Handler].ch) ELSE echoed
  BY <1>0, WriteMoves
<1>2. code[Handler].ch >= Echo <=> code[Handler].then = "newline"
  BY <1>1, InputIs
<1>3. Serving' <=> Serving
  BY <1>1 DEF Serving, Callers
<1>4. code'[Handler].at \notin {"poll", "write"}
  BY <1>1 DEF Callers
<1>5. InHand' = <<>> /\ Holds(Handler)'
  BY <1>4 DEF InHand, Holds
<1>6. EchoesInOrder' /\ echoed' \in Seq(Chars)
  <2>1. CASE code[Handler].then = "newline"
    <3>1. PICK c \in Chars : c = code[Handler].ch
      BY InputIs DEF Frame
    <3>2. echoed' = Append(echoed, c) /\ InHand = <<c>>
      BY <1>1, <1>2, <2>1, <3>1 DEF InHand
    <3>3. echoed \in Seq(Chars) /\ rx \in Seq(Chars)
      BY InputIs
    <3>4. Append(echoed, c) \o <<>> \o rx = echoed \o <<c>> \o rx
      BY <3>1, <3>3, HandedOver
    <3>5. echoed' \o InHand' \o rx' = echoed \o InHand \o rx
      BY <1>1, <1>5, <3>2, <3>4
    <3>6. EchoesInOrder
      BY DEF InputInv
    <3>7. EchoesInOrder'
      BY <1>1, <3>5, <3>6 DEF EchoesInOrder
    <3>8. Append(echoed, c) \in Seq(Chars)
      BY <3>1, <3>3
    <3> QED
      BY <3>2, <3>7, <3>8
  <2>2. CASE code[Handler].then # "newline"
    <3>1. InHand = <<>> /\ echoed' = echoed
      BY <1>1, <1>2, <2>2 DEF InHand
    <3> QED
      BY <1>1, <1>5, <3>1, SameInput
  <2> QED
    BY <2>1, <2>2
<1>7. code[Handler].then = "plic_claim" => trap = "external" /\ pending
  BY <1>1 DEF InputInv
<1>8. code'[Handler].at = "plic_claim" => trap' = "external" /\ pending'
  BY <1>1, <1>7
<1>9. (claimed' <=> Serving') /\ (Serving' => trap' = "external" /\ ~ pending')
  BY <1>1, <1>3, InputIs
<1> QED
  BY <1>1, <1>4, <1>5, <1>6, <1>8, <1>9, HandlerKeepsInput

LEMMA TimerHandlerInput ==
  ASSUME TypeOK, InputInv, timer_handler
  PROVE  InputInv'
<1>0. Handler \in Printers
  BY Constants
<1>1. printf(Handler, TickLength) /\ code[Handler].at = "timer_handler"
  BY HandlerRuns DEF timer_handler
<1>2. ~ TooLong(TickLength)
  BY ConsoleAssumption DEF TooLong
<1>3. /\ UNCHANGED <<trap, rx, pending, claimed, arrived, echoed>>
      /\ \A f \in Printers : f # Handler => code'[f] = code[f]
      /\ code'[Handler].at = "format"
  BY <1>0, <1>1, <1>2, PrintfMoves
<1>4. ~ Serving /\ ~ Serving' /\ InHand = <<>> /\ InHand' = <<>> /\ Holds(Handler)'
  BY <1>1, <1>3 DEF Serving, InHand, Holds
<1>5. EchoesInOrder' /\ echoed' \in Seq(Chars)
  BY <1>3, <1>4, SameInput
<1>6. claimed' <=> Serving'
  BY <1>3, <1>4, InputIs
<1> QED
  BY <1>3, <1>4, <1>5, <1>6, HandlerKeepsInput

LEMMA LeaveInput ==
  ASSUME TypeOK, InputInv, Leave, UNCHANGED <<rx, arrived, echoed>>, ~ claimed',
         code[Handler].at \in {"schedule", "plic_complete"}
  PROVE  InputInv'
<1>1. code' = [code EXCEPT ![Handler] = Quiet] /\ code \in [Printers -> Frame]
  BY CodeIs, Constants DEF Leave
<1>2. code'[Handler] = Quiet /\ \A f \in Printers : f # Handler => code'[f] = code[f]
  BY <1>1, Constants
<1>3. code'[Handler].at = "user"
  BY <1>2, QuietIs
<1>4. ~ Serving' /\ InHand = <<>> /\ InHand' = <<>> /\ Holds(Handler)'
  BY <1>3 DEF Serving, InHand, Holds
<1>5. EchoesInOrder' /\ echoed' \in Seq(Chars)
  BY <1>4, SameInput
<1> QED
  BY <1>2, <1>3, <1>4, <1>5, HandlerKeepsInput

LEMMA ScheduleInput ==
  ASSUME TypeOK, InputInv, schedule
  PROVE  InputInv'
<1>1. Leave /\ code[Handler].at = "schedule" /\ UNCHANGED <<rx, claimed, arrived, echoed>>
  BY HandlerRuns DEF schedule, device, ghosts
<1>2. ~ Serving
  BY <1>1 DEF Serving
<1> QED
  BY <1>1, <1>2, InputIs, LeaveInput

LEMMA PlicCompleteInput ==
  ASSUME TypeOK, InputInv, plic_complete
  PROVE  InputInv'
<1>1. Leave /\ code[Handler].at = "plic_complete" /\ UNCHANGED <<rx, arrived, echoed>> /\ ~ claimed'
  BY HandlerRuns DEF plic_complete, ghosts
<1> QED
  BY <1>1, LeaveInput

LEMMA HandlerAt ==
  ASSUME TypeOK, NEW w, code' = [code EXCEPT ![Handler].at = w]
  PROVE  code'[Handler].at = w /\ \A f \in Printers : f # Handler => code'[f] = code[f]
BY CodeIs, Constants DEF Frame

LEMMA PlicClaimInput ==
  ASSUME TypeOK, InputInv, plic_claim
  PROVE  InputInv'
<1>1. code[Handler].at = "plic_claim" /\ UNCHANGED <<rx, arrived, echoed>>
  BY HandlerRuns DEF plic_claim, ghosts
<1>2. trap = "external" /\ pending
  BY <1>1 DEF InputInv
<1>3. /\ code' = [code EXCEPT ![Handler].at = "uart_isr"] /\ trap' = trap
      /\ ~ pending' /\ claimed' = pending
  BY <1>2 DEF plic_claim
<1>4. code'[Handler].at = "uart_isr" /\ \A f \in Printers : f # Handler => code'[f] = code[f]
  BY <1>3, HandlerAt
<1>5. Serving' /\ InHand = <<>> /\ InHand' = <<>> /\ Holds(Handler)'
  BY <1>1, <1>4 DEF Serving, InHand, Holds
<1>6. EchoesInOrder' /\ echoed' \in Seq(Chars)
  BY <1>1, <1>5, SameInput
<1> QED
  BY <1>2, <1>3, <1>4, <1>5, <1>6, HandlerKeepsInput

LEMMA UartIsrInput ==
  ASSUME TypeOK, InputInv, uart_isr
  PROVE  InputInv'
<1>1. code[Handler].at = "uart_isr" /\ UNCHANGED <<trap, pending, claimed, arrived, echoed>>
  BY HandlerRuns DEF uart_isr, ghosts
<1>2. Serving /\ InHand = <<>>
  BY <1>1 DEF Serving, InHand
<1>3. claimed' /\ trap' = "external" /\ ~ pending'
  BY <1>1, <1>2, InputIs
<1>4. CASE rx = <<>>
  <2>1. code' = [code EXCEPT ![Handler].at = "plic_complete"] /\ rx' = rx
    BY <1>4 DEF uart_isr
  <2>2. /\ code'[Handler].at = "plic_complete"
        /\ \A f \in Printers : f # Handler => code'[f] = code[f]
    BY <2>1, HandlerAt
  <2>3. Serving' /\ InHand' = <<>> /\ Holds(Handler)'
    BY <2>2 DEF Serving, InHand, Holds
  <2>4. EchoesInOrder' /\ echoed' \in Seq(Chars)
    BY <1>1, <1>2, <2>1, <2>3, SameInput
  <2> QED
    BY <1>3, <2>2, <2>3, <2>4, HandlerKeepsInput
<1>5. CASE rx # <<>>
  <2>1. rx' = Tail(rx) /\ PutChar(Handler, Head(rx), "newline")
    BY <1>5 DEF uart_isr
  <2>2. rx \in Seq(Chars) /\ echoed \in Seq(Chars) /\ arrived \in Nat
    BY InputIs
  <2>3. Head(rx) \in Chars
    BY <1>5, <2>2
  <2>4. PICK c \in Chars : c = Head(rx)
    BY <2>3
  <2>5. Handler \in Printers /\ "newline" \in Places
    BY Constants DEF Places
  <2>6. /\ code'[Handler].at = "poll" /\ code'[Handler].ch = c /\ code'[Handler].then = "newline"
        /\ \A f \in Printers : f # Handler => code'[f] = code[f]
    BY <2>1, <2>4, <2>5, PutCharIs
  <2>7. Serving' /\ InHand' = <<c>>
    BY <2>6 DEF Serving, InHand
  <2>8. echoed \o <<>> \o rx = [k \in 1 .. arrived |-> Echo + k - 1]
    BY <1>2 DEF InputInv, EchoesInOrder
  <2>9. Echo \in Nat
    BY Characters
  <2>10. Echo <= c
    BY <1>5, <2>2, <2>4, <2>8, <2>9, FirstIsFrom
  <2>11. c >= Echo
    BY <2>9, <2>10, Characters
  <2>12. Holds(Handler)'
    BY <2>6, <2>11 DEF Holds
  <2>13. echoed \o <<Head(rx)>> \o Tail(rx) = echoed \o <<>> \o rx
    BY <1>5, <2>2, MovedOn
  <2>14. echoed' \o InHand' \o rx' = echoed \o InHand \o rx
    BY <1>1, <1>2, <2>1, <2>4, <2>7, <2>13
  <2>15. EchoesInOrder' /\ echoed' \in Seq(Chars)
    BY <1>1, <2>2, <2>14 DEF InputInv, EchoesInOrder
  <2> QED
    BY <1>3, <2>6, <2>7, <2>12, <2>15, HandlerKeepsInput
<1> QED
  BY <1>4, <1>5

LEMMA NewlineInput ==
  ASSUME TypeOK, InputInv, newline
  PROVE  InputInv'
<1>1. /\ code[Handler].at = "newline" /\ PutChar(Handler, Literal, "uart_isr")
      /\ UNCHANGED <<trap, rx, pending, claimed, arrived, echoed>>
  BY HandlerRuns DEF newline, device, ghosts
<1>2. Handler \in Printers /\ Literal \in Chars /\ "uart_isr" \in Places
  BY Constants DEF Places
<1>3. /\ code'[Handler].at = "poll" /\ code'[Handler].ch = Literal
      /\ code'[Handler].then = "uart_isr"
      /\ \A f \in Printers : f # Handler => code'[f] = code[f]
  BY <1>1, <1>2, PutCharIs
<1>4. ~ (Literal >= Echo)
  BY Characters, Constants DEF Literal, Echo
<1>5. Serving /\ Serving' /\ InHand = <<>> /\ InHand' = <<>> /\ Holds(Handler)'
  BY <1>1, <1>3, <1>4 DEF Serving, InHand, Holds
<1>6. EchoesInOrder' /\ echoed' \in Seq(Chars)
  BY <1>1, <1>5, SameInput
<1> QED
  BY <1>1, <1>3, <1>5, <1>6, InputIs, HandlerKeepsInput

LEMMA EnterInput ==
  ASSUME TypeOK, InputInv, code[Handler] = Quiet, NEW what, NEW then, Enter(what, then),
         \/ then = "timer_handler"
         \/ then = "plic_claim" /\ what = "external" /\ pending
  PROVE  InputInv'
<1>1. /\ PutChar(Handler, Literal, then) /\ trap' = what
      /\ UNCHANGED <<rx, pending, claimed, arrived, echoed>>
  BY DEF Enter, device
<1>2. Handler \in Printers /\ Literal \in Chars /\ then \in Places
  BY Constants DEF Places
<1>3. /\ code'[Handler].at = "poll" /\ code'[Handler].ch = Literal /\ code'[Handler].then = then
      /\ \A f \in Printers : f # Handler => code'[f] = code[f]
  BY <1>1, <1>2, PutCharIs
<1>4. ~ (Literal >= Echo)
  BY Characters, Constants DEF Literal, Echo
<1>5. code[Handler].at = "user"
  BY QuietIs
<1>6. ~ Serving /\ ~ Serving' /\ InHand = <<>> /\ InHand' = <<>> /\ Holds(Handler)'
  BY <1>3, <1>4, <1>5 DEF Serving, InHand, Holds
<1>7. EchoesInOrder' /\ echoed' \in Seq(Chars)
  BY <1>1, <1>6, SameInput
<1>8. claimed' <=> Serving'
  BY <1>1, <1>6, InputIs
<1> QED
  BY <1>1, <1>3, <1>6, <1>7, <1>8, HandlerKeepsInput

LEMMA DevicesInput ==
  ASSUME TypeOK, InputInv, transmit \/ receive \/ plic_gateway \/ UNCHANGED vars
  PROVE  InputInv'
<1>1. UNCHANGED <<trap, code, claimed, echoed>>
  BY DEF transmit, receive, plic_gateway, vars, device, ghosts
<1>2. InHand' = InHand /\ Serving' = Serving /\ \A e \in Printers : Holds(e)' = Holds(e)
  BY <1>1 DEF InHand, Serving, Holds
<1>3. pending => pending'
  BY DEF transmit, receive, plic_gateway, vars, device
<1>4. Serving => ~ pending'
  BY InputIs DEF transmit, receive, plic_gateway, vars, device
<1>5. EchoesInOrder'
  <2>1. CASE receive
    <3>1. rx' = Append(rx, Echo + arrived) /\ arrived' = arrived + 1 /\ arrived < MaxChars
      BY <2>1 DEF receive
    <3>2. /\ echoed \in Seq(Chars) /\ rx \in Seq(Chars) /\ arrived \in Nat
          /\ code[Handler] \in Frame
      BY InputIs
    <3>3. Echo + arrived \in Chars
      BY <3>1, <3>2, Constants, Characters DEF Chars
    <3>4. InHand \in Seq(Chars)
      BY <3>2 DEF InHand, Frame
    <3>5. echoed \o InHand \o Append(rx, Echo + arrived)
            = Append(echoed \o InHand \o rx, Echo + arrived)
      BY <3>2, <3>3, <3>4, OneMore
    <3>6. echoed \o InHand \o rx = [k \in 1 .. arrived |-> Echo + k - 1]
      BY DEF InputInv, EchoesInOrder
    <3>7. Echo \in Nat
      BY Characters
    <3>8. Append([k \in 1 .. arrived |-> Echo + k - 1], Echo + arrived)
            = [k \in 1 .. arrived + 1 |-> Echo + k - 1]
      BY <3>2, <3>7, UpwardsAppend
    <3> QED
      BY <1>1, <1>2, <3>1, <3>5, <3>6, <3>8 DEF EchoesInOrder
  <2>2. CASE ~ receive
    <3>1. UNCHANGED <<rx, arrived>>
      BY <2>2 DEF transmit, plic_gateway, vars, device
    <3> QED
      BY <1>1, <1>2, <3>1, SameInput
  <2> QED
    BY <2>1, <2>2
<1> QED
  BY <1>1, <1>2, <1>3, <1>4, <1>5 DEF InputInv
-----------------------------------------------------------------------------
LEMMA InputInit ==
  ASSUME Init
  PROVE  InputInv
<1>1. \A e \in Printers : code[e] = Quiet
  BY DEF Init
<1>2. \A e \in Printers : code[e].at = "user"
  BY <1>1, QuietIs
<1>3. InHand = <<>> /\ ~ Serving /\ \A e \in Printers : Holds(e)
  BY <1>2, Constants DEF InHand, Serving, Holds
<1>4. EchoesInOrder
  BY <1>3 DEF Init, EchoesInOrder
<1> QED
  BY <1>2, <1>3, <1>4, Constants DEF Init, InputInv

LEMMA InputStep ==
  ASSUME OInv, OInv', InputInv, [Next]_vars
  PROVE  InputInv'
<1>0. TypeOK /\ TypeOK' /\ (trap = "none" => code[Handler] = Quiet)
  BY DEF OInv, CallsReturn
<1>1. CASE \E t \in Tasks, len \in Lengths : Runs(t, "user") /\ printf(t, len)
  BY <1>0, <1>1, TaskPrints
<1>2. CASE Printing
  <2>1. PICK e \in Printers : format(e) \/ format_end(e) \/ load(e) \/ printf_returns(e)
                              \/ poll(e) \/ write(e)
    BY <1>2 DEF Printing
  <2>2. CASE e \in Tasks
    BY <1>0, <2>1, <2>2, TaskPrints
  <2>3. CASE e = Handler
    <3>1. CASE write(Handler)
      <4>1. code[Handler].at = "write"
        BY <1>0, <3>1, HandlerRuns DEF write
      <4>2. code[Handler].then \in Callers
        BY <4>1, Constants DEF OInv, CallsReturn
      <4> QED
        BY <1>0, <3>1, <4>2, HandlerWrites
    <3>2. CASE ~ write(Handler)
      BY <1>0, <2>1, <2>3, <3>2, HandlerFormats, HandlerPolls
    <3> QED
      BY <3>1, <3>2
  <2> QED
    BY <2>2, <2>3 DEF Printers
<1>3. CASE timer_handler \/ schedule \/ plic_claim \/ uart_isr \/ newline \/ plic_complete
  BY <1>0, <1>3, TimerHandlerInput, ScheduleInput, PlicClaimInput, UartIsrInput, NewlineInput,
     PlicCompleteInput
<1>4. CASE timer_interrupt \/ external_interrupt
  <2>1. trap = "none"
    BY <1>4 DEF timer_interrupt, external_interrupt, Enter
  <2> QED
    BY <1>0, <1>4, <2>1, EnterInput DEF timer_interrupt, external_interrupt
<1>5. CASE transmit \/ receive \/ plic_gateway \/ UNCHANGED vars
  BY <1>0, <1>5, DevicesInput
<1> QED
  BY <1>1, <1>2, <1>3, <1>4, <1>5 DEF Next, InTrap

(* Whatever is printed meanwhile, what has been echoed, is being echoed    *)
(* and waits in the receiver is what arrived, each character once and in   *)
(* order; and the handler claims an interrupt that is pending, and         *)
(* completes it: see EchoesInOrder and ClaimsAreCompleted.                 *)
THEOREM InputIsKept == Spec => [](EchoesInOrder /\ ClaimsAreCompleted)
<1>1. Init => InputInv
  BY InputInit
<1>2. OInv /\ OInv' /\ InputInv /\ [Next]_vars => InputInv'
  BY InputStep
<1>3. OInv /\ InputInv => EchoesInOrder /\ ClaimsAreCompleted
  BY DEF InputInv, ClaimsAreCompleted
<1> QED
  BY <1>1, <1>2, <1>3, ConsoleInvariant, PTL DEF Spec
-----------------------------------------------------------------------------
(* Induction over numbers: a set of naturals has a smallest member.        *)
LEMMA SmallestMember ==
  ASSUME NEW S \in SUBSET Nat, S # {}
  PROVE  \E n \in S : \A k \in S : n <= k
<1> DEFINE Smaller == OpToRel(<, Nat)
<1>1. IsWellFoundedOn(Smaller, Nat)
  BY NatLessThanWellFounded
<1>2. \A j, k \in Nat : j < k => <<j, k>> \in Smaller
  BY DEF OpToRel
<1> HIDE DEF Smaller
<1>3. PICK n \in S : \A k \in S : ~ (<<k, n>> \in Smaller)
  BY <1>1, WFMin
<1>4. \A k \in S : ~ (k < n)
  BY <1>2, <1>3
<1>5. \A k \in S : n <= k
  BY <1>4
<1> QED
  BY <1>5

(* The set of the numbers up to n that have a property holds all of them.  *)
LEMMA AllUpTo ==
  ASSUME NEW n \in Nat, NEW P \in SUBSET (0 .. n),
         0 \in P, \A k \in 0 .. n - 1 : k \in P => k + 1 \in P
  PROVE  P = 0 .. n
<1>1. SUFFICES ASSUME 0 .. n \ P # {} PROVE FALSE
  OBVIOUS
<1>2. 0 .. n \ P \in SUBSET Nat
  OBVIOUS
<1>3. PICK k \in 0 .. n \ P : \A j \in 0 .. n \ P : k <= j
  BY <1>1, <1>2, SmallestMember
<1>4. k # 0
  OBVIOUS
<1>5. k - 1 \in 0 .. n - 1
  BY <1>4
<1>6. k - 1 \notin P
  BY <1>3, <1>5
<1>7. k - 1 \in 0 .. n \ P
  BY <1>5, <1>6
<1>8. k <= k - 1
  BY ONLY <1>3, <1>7
<1> QED
  BY <1>8

(* What comes of v in n steps, of which the k-th is F[k].                  *)
Iterates(f, v, F, n) == f[0] = v /\ \A k \in 1 .. n : f[k] = F[k][f[k - 1]]

(* Steps that stay in V can be taken one after the other.                  *)
LEMMA IteratesExist ==
  ASSUME NEW V, NEW v \in V, NEW n \in Nat, NEW F \in [1 .. n -> [V -> V]]
  PROVE  \E f \in [0 .. n -> V] : Iterates(f, v, F, n)
<1> DEFINE Is(f, m) == f[0] = v /\ \A k \in 1 .. m : f[k] = F[k][f[k - 1]]
           Can(m) == \E f \in [0 .. m -> V] : Is(f, m)
           P == {m \in 0 .. n : Can(m)}
<1>1. Can(0)
  <2>1. [k \in 0 .. 0 |-> v] \in [0 .. 0 -> V] /\ Is([k \in 0 .. 0 |-> v], 0)
    OBVIOUS
  <2> QED
    BY ONLY <2>1
<1>2. ASSUME NEW m \in 0 .. n - 1, Can(m) PROVE Can(m + 1)
  <2>1. PICK f \in [0 .. m -> V] : Is(f, m)
    BY <1>2
  <2> DEFINE g == [k \in 0 .. m + 1 |-> IF k = m + 1 THEN F[m + 1][f[m]] ELSE f[k]]
  <2>2. g \in [0 .. m + 1 -> V]
    <3>1. m + 1 \in 1 .. n /\ f[m] \in V
      OBVIOUS
    <3>2. F[m + 1] \in [V -> V]
      BY <3>1
    <3>3. F[m + 1][f[m]] \in V
      BY <3>1, <3>2
    <3> QED
      BY <3>3
  <2>3. g[0] = v
    BY <2>1
  <2>4. ASSUME NEW k \in 1 .. m + 1 PROVE g[k] = F[k][g[k - 1]]
    <3>1. k - 1 \in 0 .. m /\ g[k - 1] = f[k - 1]
      OBVIOUS
    <3>2. CASE k = m + 1
      BY <3>1, <3>2
    <3>3. CASE k # m + 1
      <4>1. k \in 1 .. m
        BY <3>3
      <4> QED
        BY <3>1, <3>3, <4>1, <2>1
    <3> QED
      BY <3>2, <3>3
  <2>5. Is(g, m + 1)
    BY <2>3, <2>4
  <2> HIDE DEF g, Is
  <2> QED
    BY <2>2, <2>5
<1> HIDE DEF Can
<1>3. P \in SUBSET (0 .. n) /\ 0 \in P /\ \A m \in 0 .. n - 1 : m \in P => m + 1 \in P
  BY <1>1, <1>2
<1> HIDE DEF P
<1>4. P = 0 .. n
  BY <1>3, AllUpTo
<1>5. n \in P
  BY <1>4
<1>6. Can(n)
  BY <1>5 DEF P
<1> QED
  BY <1>6 DEF Can, Iterates

(* What each step keeps in V stays there.                                  *)
LEMMA StaysIn ==
  ASSUME NEW V, NEW n \in Nat, NEW g, g[0] \in V,
         \A k \in 1 .. n : g[k - 1] \in V => g[k] \in V
  PROVE  \A k \in 0 .. n : g[k] \in V
<1> DEFINE P == {k \in 0 .. n : g[k] \in V}
<1>1. P \in SUBSET (0 .. n) /\ 0 \in P
  OBVIOUS
<1>2. ASSUME NEW k \in 0 .. n - 1, k \in P PROVE k + 1 \in P
  <2>1. k + 1 \in 1 .. n /\ (k + 1) - 1 = k
    OBVIOUS
  <2> QED
    BY <1>2, <2>1
<1> HIDE DEF P
<1>3. P = 0 .. n
  BY <1>1, <1>2, AllUpTo
<1> QED
  BY <1>3 DEF P

(* The width of a long is a positive multiple of four.                     *)
LEMMA Bits ==
  /\ LongBits \in Nat /\ LongBits >= 4 /\ LongBits \div 4 \in Nat /\ LongBits \div 4 >= 1
  /\ 4 * (LongBits \div 4) = LongBits
BY LongAssumption

(* TwoTo[k] is the k-th power of two.                                      *)
LEMMA PowersOfTwo ==
  /\ TwoTo[0] = 1
  /\ \A k \in 0 .. LongBits : TwoTo[k] \in Nat \ {0}
  /\ \A k \in 1 .. LongBits : TwoTo[k] = 2 * TwoTo[k - 1]
<1> DEFINE n == LongBits
           F == [k \in 1 .. n |-> [x \in Nat \ {0} |-> 2 * x]]
           body(w) == [k \in 0 .. LongBits |-> IF k = 0 THEN 1 ELSE 2 * w[k - 1]]
<1>1. n \in Nat /\ 1 \in Nat \ {0} /\ F \in [1 .. n -> [Nat \ {0} -> Nat \ {0}]]
  BY Bits
<1> HIDE DEF F
<1>2. PICK f \in [0 .. n -> Nat \ {0}] : Iterates(f, 1, F, n)
  BY <1>1, IteratesExist
<1>3. f[0] = 1 /\ \A k \in 1 .. n : f[k] = F[k][f[k - 1]]
  BY <1>2 DEF Iterates
<1>4. \A k \in 1 .. n : f[k] = 2 * f[k - 1]
  <2> TAKE k \in 1 .. n
  <2>1. f[k - 1] \in Nat \ {0} /\ f[k] = F[k][f[k - 1]]
    BY <1>1, <1>3
  <2> QED
    BY <2>1 DEF F
<1>5. f = body(f)
  <2>1. \A k \in 0 .. n : f[k] = body(f)[k]
    BY <1>1, <1>3, <1>4
  <2> QED
    BY <2>1
<1>6. TwoTo = body(TwoTo)
  BY ONLY <1>5 DEF TwoTo
<1>7. TwoTo[0] = 1 /\ \A k \in 1 .. n : TwoTo[k] = 2 * TwoTo[k - 1]
  BY <1>1, <1>6
<1>8. \A k \in 0 .. n : TwoTo[k] \in Nat \ {0}
  <2>1. ASSUME NEW k \in 1 .. n, TwoTo[k - 1] \in Nat \ {0} PROVE TwoTo[k] \in Nat \ {0}
    <3>1. TwoTo[k] = 2 * TwoTo[k - 1]
      BY <1>7
    <3> QED
      BY ONLY <2>1, <3>1
  <2> QED
    BY ONLY <1>1, <1>7, <2>1, StaysIn
<1> QED
  BY <1>7, <1>8

Glyphs == {HexDigit[k] : k \in 1 .. 16}

(* The sixteen digits are different characters.                            *)
LEMMA DigitsDiffer ==
  ASSUME NEW j \in 0 .. 15, NEW k \in 0 .. 15, HexDigit[j + 1] = HexDigit[k + 1]
  PROVE  j = k
BY DEF HexDigit

(* The reference reads a digit as the number it was put out for.           *)
LEMMA WorthOfDigit ==
  ASSUME NEW k \in 0 .. 15
  PROVE  Digit(k) = HexDigit[k + 1] /\ Worth(Digit(k)) = k /\ Digit(k) \in Glyphs
<1>1. Digit(k) = HexDigit[k + 1]
  BY DEF Digit
<1>2. k + 1 \in 1 .. 16
  OBVIOUS
<1>3. Worth(Digit(k)) = CHOOSE j \in 0 .. 15 : HexDigit[j + 1] = HexDigit[k + 1]
  BY <1>1 DEF Worth
<1>4. \A j \in 0 .. 15 : HexDigit[j + 1] = HexDigit[k + 1] => j = k
  BY DigitsDiffer
<1>5. Worth(Digit(k)) = k
  BY <1>3, <1>4
<1>6. Digit(k) \in Glyphs
  BY <1>1, <1>2 DEF Glyphs
<1> QED
  BY <1>1, <1>5, <1>6

Plain == Glyphs \cup {Junk}

(* Whatever is put out for a digit is one, or the junk a negative          *)
(* remainder gives.                                                        *)
LEMMA DigitsPlain == ASSUME NEW d PROVE Digit(d) \in Plain
<1>1. CASE d \in 0 .. 15
  BY <1>1, WorthOfDigit DEF Plain
<1>2. CASE d \notin 0 .. 15
  BY <1>2 DEF Digit, Plain
<1> QED
  BY <1>1, <1>2

(* Division by ten of a number that is not negative.                       *)
LEMMA Divided ==
  ASSUME NEW n \in Nat
  PROVE  /\ Quotient(n) \in Nat /\ Remainder(n) \in 0 .. 9
         /\ n = 10 * Quotient(n) + Remainder(n)
         /\ \A m \in Nat : n < 2 * m => Quotient(n) < m
BY DEF Quotient, Remainder

(* It truncates towards zero, and at least halves.                         *)
LEMMA Shrinks ==
  ASSUME NEW n \in Int
  PROVE  /\ Quotient(n) \in Int
         /\ \A m \in Nat : - (2 * m) < n /\ n < 2 * m => - m < Quotient(n) /\ Quotient(n) < m
BY DEF Quotient

(* num[k] is what is left of n after k divisions, of which digits are      *)
(* needed to leave nothing.                                                *)
Divisions(num, digits, n) ==
  /\ num[0] = n /\ (n \in Nat => \A k \in 0 .. LongBits : num[k] \in Nat)
  /\ \A k \in 1 .. LongBits : num[k] = Quotient(num[k - 1])
  /\ digits \in 1 .. LongBits /\ num[digits] = 0
  /\ \A k \in 1 .. digits - 1 : num[k] # 0

(* The loop that counts the digits ends within the width of a long, and    *)
(* the one that fills them in puts out the remainders (printf.c:54-60).    *)
LEMMA DecimalSteps ==
  ASSUME NEW n \in - TwoTo[LongBits] + 1 .. TwoTo[LongBits] - 1
  PROVE  \E num, digits :
           /\ Divisions(num, digits, n)
           /\ Decimal(n) = [i \in 1 .. digits |-> Digit(Remainder(num[digits - i]))]
<1> DEFINE F == [k \in 1 .. LongBits |-> [x \in Int |-> Quotient(x)]]
           body(w) == [k \in 0 .. LongBits |-> IF k = 0 THEN n ELSE Quotient(w[k - 1])]
<1>1. LongBits \in Nat /\ LongBits >= 4 /\ TwoTo[LongBits] \in Nat /\ n \in Int
      /\ - TwoTo[LongBits] < n /\ n < TwoTo[LongBits]
  BY Bits, PowersOfTwo
<1>2. F \in [1 .. LongBits -> [Int -> Int]]
  BY Shrinks
<1> HIDE DEF F
<1>3. PICK f \in [0 .. LongBits -> Int] : Iterates(f, n, F, LongBits)
  BY <1>1, <1>2, IteratesExist
<1>4. f[0] = n /\ \A k \in 1 .. LongBits : f[k] = F[k][f[k - 1]]
  BY <1>3 DEF Iterates
<1>5. \A k \in 1 .. LongBits : f[k] = Quotient(f[k - 1])
  <2> TAKE k \in 1 .. LongBits
  <2>1. f[k - 1] \in Int /\ f[k] = F[k][f[k - 1]]
    BY <1>1, <1>4
  <2> QED
    BY <2>1 DEF F
<1>6. f = body(f)
  <2>1. \A k \in 0 .. LongBits : f[k] = body(f)[k]
    BY <1>1, <1>4, <1>5
  <2> QED
    BY <2>1
<1> DEFINE num == CHOOSE w : w = body(w)
           digits == Min({k \in 1 .. LongBits : num[k] = 0})
<1>7. num = body(num)
  BY ONLY <1>6
<1>a. Decimal(n) = [i \in 1 .. digits |-> Digit(Remainder(num[digits - i]))]
  BY DEF Decimal
<1> HIDE DEF num
<1>8. num[0] = n /\ \A k \in 1 .. LongBits : num[k] = Quotient(num[k - 1])
  BY <1>1, <1>7, SMTT(30)
<1>9. \A k \in 0 .. LongBits : num[k] \in Int
  <2>1. ASSUME NEW k \in 1 .. LongBits, num[k - 1] \in Int PROVE num[k] \in Int
    BY <1>8, <2>1, Shrinks
  <2> QED
    BY ONLY <1>1, <1>8, <2>1, StaysIn
<1>b. ASSUME n \in Nat PROVE \A k \in 0 .. LongBits : num[k] \in Nat
  <2>1. ASSUME NEW k \in 1 .. LongBits, num[k - 1] \in Nat PROVE num[k] \in Nat
    BY <1>8, <2>1, Divided
  <2>2. num[0] \in Nat
    BY <1>8, <1>b
  <2> QED
    BY ONLY <1>1, <2>1, <2>2, StaysIn
<1>10. num[LongBits] = 0
  <2> DEFINE P == {k \in 0 .. LongBits :
                    - TwoTo[LongBits - k] < num[k] /\ num[k] < TwoTo[LongBits - k]}
  <2>1. P \in SUBSET (0 .. LongBits) /\ 0 \in P
    <3>1. 0 \in 0 .. LongBits /\ LongBits - 0 = LongBits /\ num[0] = n
      BY <1>1, <1>8
    <3>2. - TwoTo[LongBits - 0] < num[0] /\ num[0] < TwoTo[LongBits - 0]
      BY <1>1, <3>1
    <3> QED
      BY <3>1, <3>2
  <2>2. ASSUME NEW k \in 0 .. LongBits - 1, k \in P PROVE k + 1 \in P
    <3>1. k + 1 \in 1 .. LongBits /\ (k + 1) - 1 = k /\ k \in 0 .. LongBits
          /\ LongBits - k \in 1 .. LongBits /\ (LongBits - k) - 1 = LongBits - (k + 1)
          /\ LongBits - (k + 1) \in 0 .. LongBits
      BY <1>1
    <3>2. num[k + 1] = Quotient(num[k]) /\ num[k] \in Int
          /\ - TwoTo[LongBits - k] < num[k] /\ num[k] < TwoTo[LongBits - k]
      BY <1>8, <1>9, <2>2, <3>1
    <3>3. TwoTo[LongBits - k] = 2 * TwoTo[LongBits - (k + 1)] /\ TwoTo[LongBits - (k + 1)] \in Nat
      BY <3>1, PowersOfTwo
    <3>4. /\ - TwoTo[LongBits - (k + 1)] < num[k + 1]
          /\ num[k + 1] < TwoTo[LongBits - (k + 1)]
      BY ONLY <3>2, <3>3, Shrinks
    <3> QED
      BY <3>1, <3>4
  <2> HIDE DEF P
  <2>3. LongBits \in P
    <3>1. P = 0 .. LongBits
      BY ONLY <1>1, <2>1, <2>2, AllUpTo
    <3> QED
      BY <1>1, <3>1
  <2>4. - TwoTo[0] < num[LongBits] /\ num[LongBits] < TwoTo[0]
    BY <1>1, <2>3 DEF P
  <2>5. num[LongBits] \in Int /\ TwoTo[0] = 1
    <3>1. LongBits \in 0 .. LongBits
      BY <1>1
    <3> QED
      BY ONLY <1>9, <3>1, PowersOfTwo
  <2> QED
    BY ONLY <2>4, <2>5
<1>11. /\ digits \in 1 .. LongBits /\ num[digits] = 0
       /\ \A k \in 1 .. digits - 1 : num[k] # 0
  <2> DEFINE S == {k \in 1 .. LongBits : num[k] = 0}
  <2>1. S \in SUBSET Nat /\ S # {}
    BY <1>1, <1>10
  <2>2. \A k \in 1 .. LongBits : num[k] = 0 => k \in S
    OBVIOUS
  <2>3. \A k \in S : k \in 1 .. LongBits /\ num[k] = 0
    OBVIOUS
  <2> HIDE DEF S
  <2>4. Min(S) \in S /\ \A k \in S : Min(S) <= k
    BY <2>1, SmallestMember DEF Min
  <2>5. digits = Min(S)
    BY DEF S
  <2> HIDE DEF digits
  <2>6. digits \in S /\ \A k \in S : digits <= k
    BY <2>4, <2>5
  <2>7. digits \in 1 .. LongBits /\ num[digits] = 0
    BY <2>3, <2>6
  <2>8. ASSUME NEW k \in 1 .. digits - 1, num[k] = 0 PROVE FALSE
    <3>1. k \in 1 .. LongBits
      BY <1>1, <2>7
    <3>2. digits <= k
      BY <2>2, <2>6, <2>8, <3>1
    <3> QED
      BY <2>7, <3>2
  <2> QED
    BY <2>7, <2>8
<1> HIDE DEF digits
<1>12. Divisions(num, digits, n)
  BY <1>8, <1>b, <1>11 DEF Divisions
<1> QED
  BY <1>a, <1>12

(* Digits, or junk, come out for every long, even the one whose sign       *)
(* cannot be turned.                                                       *)
LEMMA DecimalPlain ==
  ASSUME NEW n \in - TwoTo[LongBits] + 1 .. TwoTo[LongBits] - 1
  PROVE  Decimal(n) \in Seq(Plain)
<1>1. PICK num, digits :
        /\ Divisions(num, digits, n)
        /\ Decimal(n) = [i \in 1 .. digits |-> Digit(Remainder(num[digits - i]))]
  BY DecimalSteps
<1>2. digits \in Nat
  BY <1>1, Bits DEF Divisions
<1>3. \A i \in 1 .. digits : Digit(Remainder(num[digits - i])) \in Plain
  BY DigitsPlain
<1> QED
  BY <1>1, <1>2, <1>3

(* What Value adds up, digit by digit.                                     *)
Values(v, digits, base) ==
  /\ v[0] = 0 /\ Value(digits, base) = v[Len(digits)]
  /\ \A k \in 1 .. Len(digits) : v[k] = v[k - 1] * base + Worth(digits[k])

(* The recursion of Value has a solution.                                  *)
LEMMA ValueSteps ==
  ASSUME NEW n \in Nat, NEW digits, Len(digits) = n, NEW base \in Nat,
         \A k \in 1 .. n : Worth(digits[k]) \in Int
  PROVE  \E v : Values(v, digits, base)
<1> DEFINE F == [k \in 1 .. n |-> [x \in Int |-> x * base + Worth(digits[k])]]
           body(w) == [k \in 0 .. Len(digits) |->
                         IF k = 0 THEN 0 ELSE w[k - 1] * base + Worth(digits[k])]
<1>1. F \in [1 .. n -> [Int -> Int]]
  <2>1. ASSUME NEW k \in 1 .. n, NEW x \in Int PROVE x * base + Worth(digits[k]) \in Int
    <3>1. x * base \in Int /\ Worth(digits[k]) \in Int
      OBVIOUS
    <3> QED
      BY ONLY <3>1
  <2> QED
    BY <2>1
<1> HIDE DEF F
<1>2. PICK f \in [0 .. n -> Int] : Iterates(f, 0, F, n)
  <2>1. 0 \in Int
    OBVIOUS
  <2> QED
    BY ONLY <1>1, <2>1, n \in Nat, IteratesExist
<1>3. f[0] = 0 /\ \A k \in 1 .. n : f[k] = F[k][f[k - 1]]
  BY <1>2 DEF Iterates
<1>4. ASSUME NEW k \in 1 .. n PROVE f[k] = f[k - 1] * base + Worth(digits[k])
  <2>1. f[k - 1] \in Int /\ f[k] = F[k][f[k - 1]]
    BY <1>3
  <2> QED
    BY <2>1 DEF F
<1>5. f = body(f)
  <2>1. \A k \in 0 .. n : f[k] = body(f)[k]
    BY <1>3, <1>4
  <2> QED
    BY <2>1
<1> DEFINE v == CHOOSE w : w = body(w)
<1>6. v = body(v)
  BY ONLY <1>5
<1>7. Value(digits, base) = v[Len(digits)]
  BY DEF Value
<1> HIDE DEF v
<1>8. v[0] = 0 /\ \A k \in 1 .. n : v[k] = v[k - 1] * base + Worth(digits[k])
  BY <1>6
<1>9. Values(v, digits, base)
  BY <1>7, <1>8 DEF Values
<1> QED
  BY <1>9

(* Only the digit of zero is a zero.                                       *)
LEMMA ZeroIs == Digit(0) = "0" /\ \A k \in 1 .. 15 : Digit(k) # "0"
<1>1. Digit(0) = HexDigit[1] /\ HexDigit[1] = "0" /\ HexDigit[1] = HexDigit[0 + 1]
  BY DEF Digit, HexDigit
<1>2. ASSUME NEW k \in 1 .. 15, Digit(k) = "0" PROVE FALSE
  <2>1. k \in 0 .. 15 /\ Digit(k) = HexDigit[k + 1]
    BY DEF Digit
  <2>2. HexDigit[k + 1] = HexDigit[0 + 1] /\ 0 \in 0 .. 15
    BY <1>1, <1>2, <2>1
  <2>3. k = 0
    BY ONLY <2>1, <2>2, DigitsDiffer
  <2> QED
    BY <2>3
<1> QED
  BY <1>1, <1>2

(* Decimal(n) is the shortest row of digits that stands for n.             *)
LEMMA DecimalStands ==
  ASSUME NEW n \in 0 .. TwoTo[LongBits] - 1
  PROVE  IsDecimal(Decimal(n), n) /\ Decimal(n) \in Seq(Glyphs)
<1>1. PICK num, digits :
        /\ Divisions(num, digits, n)
        /\ Decimal(n) = [i \in 1 .. digits |-> Digit(Remainder(num[digits - i]))]
  <2>1. TwoTo[LongBits] \in Nat
    BY Bits, PowersOfTwo
  <2>2. n \in - TwoTo[LongBits] + 1 .. TwoTo[LongBits] - 1
    BY <2>1
  <2> QED
    BY ONLY <2>2, DecimalSteps
<1> DEFINE text == Decimal(n)
<1>2. /\ num[0] = n /\ \A k \in 0 .. LongBits : num[k] \in Nat
      /\ \A k \in 1 .. LongBits : num[k] = Quotient(num[k - 1])
      /\ digits \in 1 .. LongBits /\ num[digits] = 0
      /\ \A k \in 1 .. digits - 1 : num[k] # 0
  BY <1>1 DEF Divisions
<1>3. digits \in Nat /\ digits >= 1 /\ LongBits \in Nat /\ digits <= LongBits
  BY <1>2, Bits
<1>4. ASSUME NEW i \in 1 .. digits
      PROVE  /\ digits - i \in 0 .. LongBits /\ digits - i + 1 \in 1 .. LongBits
             /\ num[digits - i] \in Nat /\ num[digits - i + 1] \in Nat
             /\ num[digits - i] = 10 * num[digits - i + 1] + Remainder(num[digits - i])
             /\ Remainder(num[digits - i]) \in 0 .. 9
             /\ text[i] = Digit(Remainder(num[digits - i]))
  <2>1. digits - i \in 0 .. LongBits /\ digits - i + 1 \in 1 .. LongBits
        /\ (digits - i + 1) - 1 = digits - i /\ digits - i + 1 \in 0 .. LongBits
    BY <1>3
  <2>2. num[digits - i] \in Nat /\ num[digits - i + 1] = Quotient(num[digits - i])
    BY <1>2, <2>1
  <2>3. text[i] = Digit(Remainder(num[digits - i]))
    BY <1>1
  <2> HIDE DEF text
  <2> QED
    BY ONLY <2>1, <2>2, <2>3, Divided
<1>5. \A k \in 0 .. 9 : k \in 0 .. 15
  OBVIOUS
<1>6. ASSUME NEW i \in 1 .. digits
      PROVE  /\ text[i] \in Glyphs /\ Worth(text[i]) = Remainder(num[digits - i])
             /\ \E k \in 0 .. 9 : HexDigit[k + 1] = text[i]
  <2> HIDE DEF text
  <2> DEFINE r == Remainder(num[digits - i])
  <2>1. r \in 0 .. 9 /\ r \in 0 .. 15 /\ text[i] = Digit(r)
    BY <1>4, <1>5
  <2> HIDE DEF r
  <2>2. text[i] \in Glyphs /\ Worth(text[i]) = r /\ HexDigit[r + 1] = text[i]
    BY ONLY <2>1, WorthOfDigit
  <2> QED
    BY <2>1, <2>2 DEF r
<1>7. text \in Seq(Glyphs) /\ Len(text) = digits /\ DOMAIN text = 1 .. digits
  <2>1. text = [i \in 1 .. digits |-> Digit(Remainder(num[digits - i]))]
    BY <1>1
  <2>2. \A i \in 1 .. digits : Digit(Remainder(num[digits - i])) \in Glyphs
    BY <1>4, <1>6
  <2> HIDE DEF text
  <2> QED
    BY <1>3, <2>1, <2>2
<1> HIDE DEF text
<1>8. PICK v : Values(v, text, 10)
  <2>1. \A i \in 1 .. digits : Worth(text[i]) \in Int
    BY <1>4, <1>6
  <2>2. 10 \in Nat
    OBVIOUS
  <2> QED
    BY ONLY <1>3, <1>7, <2>1, <2>2, ValueSteps
<1>9. /\ v[0] = 0 /\ Value(text, 10) = v[digits]
      /\ \A i \in 1 .. digits : v[i] = v[i - 1] * 10 + Remainder(num[digits - i])
  BY <1>6, <1>7, <1>8 DEF Values
<1>10. v[digits] = n
  <2> DEFINE P == {i \in 0 .. digits : v[i] = num[digits - i]}
  <2>1. P \in SUBSET (0 .. digits) /\ 0 \in P
    BY <1>2, <1>3, <1>9
  <2>2. ASSUME NEW i \in 0 .. digits - 1, i \in P PROVE i + 1 \in P
    <3>1. i + 1 \in 1 .. digits /\ (i + 1) - 1 = i /\ digits - (i + 1) + 1 = digits - i
          /\ i + 1 \in 0 .. digits
      BY <1>3
    <3>2. v[i] = num[digits - i]
      BY <2>2
    <3>3. v[i + 1] = v[i] * 10 + Remainder(num[digits - (i + 1)])
      BY <1>9, <3>1
    <3>4. /\ num[digits - (i + 1)] = 10 * num[digits - i] + Remainder(num[digits - (i + 1)])
          /\ num[digits - i] \in Nat /\ Remainder(num[digits - (i + 1)]) \in 0 .. 9
      BY <1>4, <3>1
    <3>5. v[i + 1] = num[digits - (i + 1)]
      BY ONLY <3>2, <3>3, <3>4
    <3> QED
      BY <3>1, <3>5
  <2> HIDE DEF P
  <2>3. P = 0 .. digits
    BY ONLY <1>3, <2>1, <2>2, AllUpTo
  <2>4. v[digits] = num[digits - digits]
    BY <1>3, <2>3 DEF P
  <2> QED
    BY <1>2, <1>3, <2>4
<1>11. Len(text) > 1 => Head(text) # "0"
  <2> SUFFICES ASSUME digits > 1 PROVE text[1] # "0"
    BY <1>3, <1>7
  <2>1. 1 \in 1 .. digits /\ digits - 1 \in 1 .. digits - 1 /\ digits - 1 + 1 = digits
    BY <1>3
  <2>2. num[digits - 1] # 0 /\ num[digits - 1] = 10 * num[digits] + Remainder(num[digits - 1])
        /\ Remainder(num[digits - 1]) \in 0 .. 9 /\ text[1] = Digit(Remainder(num[digits - 1]))
    BY <1>2, <1>4, <2>1
  <2> DEFINE r == Remainder(num[digits - 1])
  <2>3. r # 0 /\ r \in 0 .. 9 /\ text[1] = Digit(r)
    BY <1>2, <2>2
  <2> HIDE DEF r
  <2>4. r \in 1 .. 15
    BY ONLY <2>3
  <2> QED
    BY ONLY <2>3, <2>4, ZeroIs
<1>12. IsRow(text, 10)
  <2>1. text # <<>>
    BY <1>3, <1>7
  <2>2. 10 - 1 = 9
    OBVIOUS
  <2> QED
    BY <1>6, <1>7, <2>1, <2>2 DEF IsRow
<1>13. IsDecimal(text, n)
  BY <1>9, <1>10, <1>11, <1>12 DEF IsDecimal
<1> QED
  BY <1>7, <1>13 DEF text

(* Whatever the argument, a pointer and a number in hexadecimal are as     *)
(* long as the word is wide.                                               *)
LEMMA HexPlain ==
  ASSUME NEW n
  PROVE  Hex(n) \in Seq(Plain) /\ Len(Hex(n)) = LongBits \div 4
<1> DEFINE D == LongBits \div 4
           num == CHOOSE w : w = [i \in 0 .. D |-> IF i = 0 THEN n ELSE w[i - 1] \div 16]
<1>1. Hex(n) = [i \in 1 .. D |-> Digit(num[D - i] % 16)]
  BY DEF Hex
<1>2. D \in Nat
  BY Bits
<1> HIDE DEF num
<1>3. \A i \in 1 .. D : Digit(num[D - i] % 16) \in Plain
  BY DigitsPlain
<1> QED
  BY <1>1, <1>2, <1>3

(* num[i] is n without its last i digits: at last nothing but the sign.    *)
Nibbles(num, n) ==
  /\ num[0] = n /\ \A k \in 0 .. LongBits \div 4 : num[k] \in Int
  /\ \A k \in 1 .. LongBits \div 4 : num[k] = num[k - 1] \div 16
  /\ num[LongBits \div 4] = IF n < 0 THEN -1 ELSE 0

(* Division by sixteen is exact, the remainder is a digit.                 *)
LEMMA Sixteenth ==
  ASSUME NEW n \in Int
  PROVE  n \div 16 \in Int /\ n % 16 \in 0 .. 15 /\ n = 16 * (n \div 16) + (n % 16)
OBVIOUS

(* It takes four bits off a bounded number, and keeps the sign.            *)
LEMMA SixteenthOfBounded ==
  ASSUME NEW n \in Int, NEW m \in Nat
  PROVE  /\ - (16 * m) <= n /\ n < 0 => - m <= n \div 16 /\ n \div 16 < 0
         /\ 0 <= n /\ n < 16 * m => 0 <= n \div 16 /\ n \div 16 < m
<1> DEFINE q == n \div 16
           r == n % 16
<1>1. q \in Int /\ r \in 0 .. 15 /\ n = 16 * q + r
  BY Sixteenth
<1> HIDE DEF q, r
<1> QED
  BY ONLY <1>1, m \in Nat DEF q

(* The shifts of the loop at printf.c:32-37 exist, and leave the sign at   *)
(* last.                                                                   *)
LEMMA HexSteps ==
  ASSUME NEW n \in - TwoTo[LongBits] .. TwoTo[LongBits] - 1
  PROVE  \E num : /\ Nibbles(num, n)
                  /\ Hex(n) = [i \in 1 .. LongBits \div 4 |-> Digit(num[LongBits \div 4 - i] % 16)]
<1> DEFINE D == LongBits \div 4
           F == [k \in 1 .. D |-> [x \in Int |-> x \div 16]]
           body(w) == [i \in 0 .. D |-> IF i = 0 THEN n ELSE w[i - 1] \div 16]
<1>1. D \in Nat /\ 4 * D = LongBits /\ LongBits \in Nat /\ TwoTo[LongBits] \in Nat /\ n \in Int
      /\ - TwoTo[LongBits] <= n /\ n < TwoTo[LongBits] /\ D >= 1
  BY Bits, PowersOfTwo
<1>2. F \in [1 .. D -> [Int -> Int]]
  BY Sixteenth
<1> DEFINE num == CHOOSE w : w = body(w)
<1>a. Hex(n) = [i \in 1 .. D |-> Digit(num[D - i] % 16)]
  BY DEF Hex
<1> HIDE DEF F, D
<1>3. PICK f \in [0 .. D -> Int] : Iterates(f, n, F, D)
  BY ONLY <1>1, <1>2, IteratesExist
<1>4. f[0] = n /\ \A k \in 1 .. D : f[k] = F[k][f[k - 1]]
  BY <1>3 DEF Iterates
<1>5. \A k \in 1 .. D : f[k] = f[k - 1] \div 16
  <2> TAKE k \in 1 .. D
  <2>1. f[k - 1] \in Int /\ f[k] = F[k][f[k - 1]]
    BY <1>1, <1>4
  <2> QED
    BY <2>1 DEF F
<1>6. f = body(f)
  <2>1. \A k \in 0 .. D : f[k] = body(f)[k]
    BY <1>1, <1>4, <1>5
  <2> QED
    BY <2>1
<1>7. num = body(num)
  BY ONLY <1>6
<1> HIDE DEF num
<1>8. num[0] = n /\ \A k \in 1 .. D : num[k] = num[k - 1] \div 16
  BY <1>1, <1>7
<1>9. \A k \in 0 .. D : num[k] \in Int
  <2>1. ASSUME NEW k \in 1 .. D, num[k - 1] \in Int PROVE num[k] \in Int
    BY <1>8, <2>1, Sixteenth
  <2> QED
    BY ONLY <1>1, <1>8, <2>1, StaysIn
<1>10. ASSUME NEW k \in 0 .. D - 1
       PROVE  /\ k + 1 \in 0 .. D /\ k \in 0 .. D /\ num[k] \in Int
              /\ num[k + 1] = num[k] \div 16
              /\ TwoTo[LongBits - 4 * k] = 16 * TwoTo[LongBits - 4 * (k + 1)]
              /\ TwoTo[LongBits - 4 * (k + 1)] \in Nat
  <2> DEFINE j == LongBits - 4 * (k + 1)
  <2>1. k + 1 \in 1 .. D /\ k + 1 \in 0 .. D /\ k \in 0 .. D /\ (k + 1) - 1 = k
        /\ j \in 0 .. LongBits /\ j + 1 \in 1 .. LongBits /\ j + 2 \in 1 .. LongBits
        /\ j + 3 \in 1 .. LongBits /\ j + 4 \in 1 .. LongBits /\ LongBits - 4 * k = j + 4
        /\ j + 1 - 1 = j /\ j + 2 - 1 = j + 1 /\ j + 3 - 1 = j + 2 /\ j + 4 - 1 = j + 3
    BY <1>1
  <2> HIDE DEF j
  <2>2. TwoTo[j] \in Nat /\ TwoTo[j + 1] = 2 * TwoTo[j] /\ TwoTo[j + 2] = 2 * TwoTo[j + 1]
        /\ TwoTo[j + 3] = 2 * TwoTo[j + 2] /\ TwoTo[j + 4] = 2 * TwoTo[j + 3]
    BY ONLY <2>1, PowersOfTwo, SMTT(30)
  <2>3. TwoTo[j + 4] = 16 * TwoTo[j]
    BY ONLY <2>2
  <2> QED
    BY <1>8, <1>9, <2>1, <2>2, <2>3 DEF j
<1>11. num[D] = IF n < 0 THEN -1 ELSE 0
  <2> DEFINE P == {k \in 0 .. D : IF n < 0 THEN - TwoTo[LongBits - 4 * k] <= num[k] /\ num[k] < 0
                                  ELSE 0 <= num[k] /\ num[k] < TwoTo[LongBits - 4 * k]}
  <2>1. P \in SUBSET (0 .. D) /\ 0 \in P
    <3>1. LongBits - 4 * 0 = LongBits
      BY <1>1
    <3> QED
      BY <1>1, <1>8, <3>1
  <2>2. ASSUME NEW k \in 0 .. D - 1, k \in P PROVE k + 1 \in P
    <3> DEFINE x == num[k]
               m == TwoTo[LongBits - 4 * (k + 1)]
    <3>1. k + 1 \in 0 .. D /\ x \in Int /\ num[k + 1] = x \div 16 /\ m \in Nat
          /\ TwoTo[LongBits - 4 * k] = 16 * m
      BY <1>10
    <3>2. IF n < 0 THEN - TwoTo[LongBits - 4 * k] <= x /\ x < 0
                   ELSE 0 <= x /\ x < TwoTo[LongBits - 4 * k]
      BY <2>2
    <3>3. k + 1 \in P <=> k + 1 \in 0 .. D /\ IF n < 0 THEN - m <= num[k + 1] /\ num[k + 1] < 0
                                          ELSE 0 <= num[k + 1] /\ num[k + 1] < m
      OBVIOUS
    <3> HIDE DEF x, m, P
    <3>4. n < 0 => - (16 * m) <= x /\ x < 0
      BY ONLY <3>1, <3>2
    <3>5. ~ (n < 0) => 0 <= x /\ x < 16 * m
      BY ONLY <3>1, <3>2
    <3>6. n < 0 => - m <= x \div 16 /\ x \div 16 < 0
      BY ONLY <3>1, <3>4, SixteenthOfBounded
    <3>7. ~ (n < 0) => 0 <= x \div 16 /\ x \div 16 < m
      BY ONLY <3>1, <3>5, SixteenthOfBounded
    <3> QED
      BY ONLY <3>1, <3>3, <3>6, <3>7
  <2>3. LongBits - 4 * D = 0 /\ D \in 0 .. D
    BY <1>1
  <2> HIDE DEF P
  <2>4. P = 0 .. D
    BY ONLY <1>1, <2>1, <2>2, AllUpTo
  <2>5. IF n < 0 THEN - TwoTo[0] <= num[D] /\ num[D] < 0 ELSE 0 <= num[D] /\ num[D] < TwoTo[0]
    BY <2>3, <2>4 DEF P
  <2> QED
    BY <1>9, <2>3, <2>5, PowersOfTwo
<1>12. Nibbles(num, n)
  BY <1>8, <1>9, <1>11 DEF Nibbles, D
<1> QED
  BY <1>a, <1>12 DEF D

(* Hex(n) has all the digits of the word, and stands for the bits of n.    *)
LEMMA HexStands ==
  ASSUME NEW n \in - TwoTo[LongBits] .. TwoTo[LongBits] - 1
  PROVE  IsHex(Hex(n), n)
<1>1. PICK num : /\ Nibbles(num, n)
                 /\ Hex(n) = [i \in 1 .. LongBits \div 4 |-> Digit(num[LongBits \div 4 - i] % 16)]
  BY HexSteps
<1> DEFINE D == LongBits \div 4
           text == Hex(n)
<1>2. D \in Nat /\ 4 * D = LongBits /\ LongBits \in Nat /\ TwoTo[LongBits] \in Nat /\ D >= 1
  BY Bits, PowersOfTwo
<1>3. /\ num[0] = n /\ \A k \in 0 .. D : num[k] \in Int
      /\ \A k \in 1 .. D : num[k] = num[k - 1] \div 16
      /\ num[D] = IF n < 0 THEN -1 ELSE 0
  BY <1>1 DEF Nibbles
<1>4. text = [i \in 1 .. D |-> Digit(num[D - i] % 16)]
  BY <1>1
<1> HIDE DEF D, text
<1>5. ASSUME NEW i \in 1 .. D
      PROVE  /\ D - i \in 0 .. D /\ D - i + 1 \in 0 .. D
             /\ num[D - i] \in Int /\ num[D - i + 1] \in Int
             /\ num[D - i] = 16 * num[D - i + 1] + (num[D - i] % 16)
             /\ num[D - i] % 16 \in 0 .. 15
             /\ text[i] = Digit(num[D - i] % 16)
  <2>1. D - i \in 0 .. D /\ D - i + 1 \in 1 .. D
        /\ (D - i + 1) - 1 = D - i /\ D - i + 1 \in 0 .. D
    BY <1>2
  <2>2. num[D - i] \in Int /\ num[D - i + 1] = num[D - i] \div 16
    BY <1>3, <2>1
  <2>3. text[i] = Digit(num[D - i] % 16)
    BY <1>4
  <2> QED
    BY ONLY <2>1, <2>2, <2>3, Sixteenth
<1>6. ASSUME NEW i \in 1 .. D
      PROVE  /\ text[i] \in Glyphs /\ Worth(text[i]) = num[D - i] % 16
             /\ \E k \in 0 .. 15 : HexDigit[k + 1] = text[i]
  <2> DEFINE r == num[D - i] % 16
  <2>1. r \in 0 .. 15 /\ text[i] = Digit(r)
    BY <1>5
  <2> HIDE DEF r
  <2>2. text[i] \in Glyphs /\ Worth(text[i]) = r /\ HexDigit[r + 1] = text[i]
    BY ONLY <2>1, WorthOfDigit
  <2> QED
    BY <2>1, <2>2 DEF r
<1>7. text \in Seq(Glyphs) /\ Len(text) = D /\ DOMAIN text = 1 .. D
  <2>2. \A i \in 1 .. D : Digit(num[D - i] % 16) \in Glyphs
    BY <1>5, <1>6
  <2> QED
    BY <1>2, <1>4, <2>2
<1>8. PICK v : Values(v, text, 16)
  <2>1. \A i \in 1 .. D : Worth(text[i]) \in Int
    BY <1>5, <1>6
  <2>2. 16 \in Nat
    OBVIOUS
  <2> QED
    BY ONLY <1>2, <1>7, <2>1, <2>2, ValueSteps
<1>9. /\ v[0] = 0 /\ Value(text, 16) = v[D]
      /\ \A i \in 1 .. D : v[i] = v[i - 1] * 16 + (num[D - i] % 16)
  BY <1>6, <1>7, <1>8 DEF Values
<1> DEFINE above(i) == IF n < 0 THEN TwoTo[4 * i] ELSE 0
<1>10. v[D] = num[D - D] + above(D)
  <2> DEFINE P == {i \in 0 .. D : v[i] = num[D - i] + above(i)}
  <2>1. P \in SUBSET (0 .. D) /\ 0 \in P
    <3>1. 4 * 0 = 0 /\ D - 0 = D /\ TwoTo[0] = 1
      BY <1>2, PowersOfTwo
    <3> QED
      BY <1>2, <1>3, <1>9, <3>1
  <2>2. ASSUME NEW i \in 0 .. D - 1, i \in P PROVE i + 1 \in P
    <3>1. i + 1 \in 1 .. D /\ (i + 1) - 1 = i /\ D - (i + 1) + 1 = D - i
          /\ i + 1 \in 0 .. D /\ i \in 0 .. D
      BY <1>2
    <3>2. v[i] = num[D - i] + above(i)
      BY <2>2
    <3>3. v[i + 1] = v[i] * 16 + (num[D - (i + 1)] % 16)
      BY <1>9, <3>1
    <3>4. /\ num[D - (i + 1)] = 16 * num[D - i] + (num[D - (i + 1)] % 16)
          /\ num[D - i] \in Int /\ num[D - (i + 1)] % 16 \in 0 .. 15
          /\ num[D - (i + 1)] \in Int
      BY <1>5, <3>1
    <3>5. above(i + 1) = 16 * above(i) /\ above(i) \in Nat /\ above(i + 1) \in Nat
      <4> DEFINE j == 4 * i
      <4>1. 4 * (i + 1) = j + 4 /\ j \in 0 .. LongBits
            /\ j + 1 \in 1 .. LongBits /\ j + 2 \in 1 .. LongBits
            /\ j + 3 \in 1 .. LongBits /\ j + 4 \in 1 .. LongBits
            /\ j + 1 - 1 = j /\ j + 2 - 1 = j + 1 /\ j + 3 - 1 = j + 2 /\ j + 4 - 1 = j + 3
        BY <1>2
      <4>2. above(i) = IF n < 0 THEN TwoTo[j] ELSE 0
        OBVIOUS
      <4>3. above(i + 1) = IF n < 0 THEN TwoTo[j + 4] ELSE 0
        BY <4>1
      <4> HIDE DEF j, above
      <4>4. TwoTo[j] \in Nat /\ TwoTo[j + 1] = 2 * TwoTo[j] /\ TwoTo[j + 2] = 2 * TwoTo[j + 1]
            /\ TwoTo[j + 3] = 2 * TwoTo[j + 2] /\ TwoTo[j + 4] = 2 * TwoTo[j + 3]
        BY ONLY <4>1, PowersOfTwo, SMTT(30)
      <4> QED
        BY ONLY <4>2, <4>3, <4>4
    <3> HIDE DEF above
    <3>6. v[i + 1] = num[D - (i + 1)] + above(i + 1)
      BY ONLY <3>2, <3>3, <3>4, <3>5
    <3> QED
      BY <3>1, <3>6
  <2> HIDE DEF P
  <2>3. P = 0 .. D
    BY ONLY <1>2, <2>1, <2>2, AllUpTo
  <2>4. D \in P
    BY <1>2, <2>3
  <2> QED
    BY <2>4 DEF P
<1>11. Value(text, 16) = Unsigned(n)
  <2>1. D - D = 0
    BY <1>2
  <2> QED
    BY <1>2, <1>3, <1>9, <1>10, <2>1 DEF Unsigned
<1>12. IsRow(text, 16)
  <2>1. text # <<>>
    BY <1>2, <1>7
  <2>2. 16 - 1 = 15
    OBVIOUS
  <2> QED
    BY <1>6, <1>7, <2>1, <2>2 DEF IsRow
<1>13. IsHex(text, n)
  BY <1>7, <1>11, <1>12 DEF IsHex, D
<1> QED
  BY <1>13 DEF text

(* The head and the tail of a sequence put together of them.               *)
LEMMA FirstAndRest ==
  ASSUME NEW S, NEW e \in S, NEW s \in Seq(S)
  PROVE  <<e>> \o s \in Seq(S) /\ Head(<<e>> \o s) = e /\ Tail(<<e>> \o s) = s
<1>1. <<e>> \in Seq(S) /\ Len(<<e>>) = 1 /\ <<e>>[1] = e
  OBVIOUS
<1> DEFINE f == <<e>>
           t == f \o s
<1>2. f \in Seq(S) /\ Len(f) = 1 /\ f[1] = e
  BY <1>1
<1> HIDE DEF f
<1>3. Len(s) \in Nat
  OBVIOUS
<1>4. t \in Seq(S) /\ Len(t) = 1 + Len(s)
      /\ \A i \in 1 .. 1 + Len(s) : t[i] = IF i <= 1 THEN f[i] ELSE s[i - 1]
  <2>1. f \o s \in Seq(S) /\ Len(f \o s) = Len(f) + Len(s)
        /\ \A i \in 1 .. Len(f) + Len(s) : (f \o s)[i] = IF i <= Len(f) THEN f[i] ELSE s[i - Len(f)]
    BY ONLY s \in Seq(S), <1>2, ConcatProperties
  <2> QED
    BY ONLY <1>2, <2>1
<1> HIDE DEF t
<1>5. t # <<>>
  BY <1>3, <1>4
<1>6. Head(t) = e
  BY <1>2, <1>3, <1>4
<1>7. Tail(t) \in Seq(S) /\ Len(Tail(t)) = Len(s) /\ \A i \in 1 .. Len(s) : Tail(t)[i] = t[i + 1]
  <2>1. Tail(t) \in Seq(S) /\ Len(Tail(t)) = Len(t) - 1
        /\ \A i \in 1 .. Len(Tail(t)) : Tail(t)[i] = t[i + 1]
    BY ONLY <1>4, <1>5, HeadTailProperties
  <2> QED
    BY ONLY <1>3, <1>4, <2>1
<1>8. \A i \in 1 .. Len(s) : Tail(t)[i] = s[i]
  BY <1>3, <1>4, <1>7
<1>9. Tail(t) = s
  BY ONLY <1>7, <1>8, s \in Seq(S), SeqEqual
<1> QED
  BY <1>4, <1>6, <1>9 DEF t, f

(* A pointer is taken apart into its prefix and its digits.                *)
LEMMA PointerParts ==
  ASSUME NEW s \in Seq(Plain)
  PROVE  /\ SubSeq(<<"0", "x">> \o s, 1, 2) = <<"0", "x">>
         /\ SubSeq(<<"0", "x">> \o s, 3, Len(<<"0", "x">> \o s)) = s
<1> DEFINE f == <<"0", "x">>
           S == Plain \cup {"0", "x"}
           t == f \o s
<1>1. f \in Seq(S) /\ Len(f) = 2 /\ s \in Seq(S)
  OBVIOUS
<1>a. f[1] \in S /\ f[2] \in S
  OBVIOUS
<1> HIDE DEF f, S
<1>2. Len(s) \in Nat
  OBVIOUS
<1>3. t \in Seq(S) /\ Len(t) = 2 + Len(s)
      /\ \A i \in 1 .. 2 + Len(s) : t[i] = IF i <= 2 THEN f[i] ELSE s[i - 2]
  <2>1. f \o s \in Seq(S) /\ Len(f \o s) = Len(f) + Len(s)
        /\ \A i \in 1 .. Len(f) + Len(s) : (f \o s)[i] = IF i <= Len(f) THEN f[i] ELSE s[i - Len(f)]
    BY ONLY <1>1, ConcatProperties
  <2> QED
    BY ONLY <1>1, <2>1
<1> HIDE DEF t
<1>4. \A i \in 1 .. Len(t) : t[i] \in S
  BY <1>3, ElementOfSeq
<1>5. SubSeq(t, 1, 2) = f
  <2> DEFINE u == SubSeq(t, 1, 2)
  <2>1. \A i \in 1 .. 2 : t[i] \in S /\ t[i] = f[i]
    BY <1>2, <1>3, <1>4
  <2>2. u \in Seq(S) /\ Len(u) = 2 /\ \A i \in 1 .. 2 : u[i] = t[i]
    BY <2>1, SubSeqProperties
  <2> HIDE DEF u
  <2>3. \A i \in 1 .. 2 : u[i] = f[i]
    BY <2>1, <2>2
  <2>4. u = f
    BY ONLY <1>1, <2>2, <2>3, SeqEqual
  <2> QED
    BY <2>4 DEF u
<1>6. SubSeq(t, 3, Len(t)) = s
  <2> DEFINE u == SubSeq(t, 3, Len(t))
  <2>1. \A i \in 3 .. Len(t) : t[i] \in S
    BY <1>2, <1>3, <1>4
  <2>2. u \in Seq(S) /\ Len(u) = (IF 3 <= Len(t) THEN Len(t) - 3 + 1 ELSE 0)
        /\ \A i \in 1 .. Len(t) - 3 + 1 : u[i] = t[3 + i - 1]
    <3>1. 3 \in Int /\ Len(t) \in Int
      BY <1>2, <1>3
    <3> QED
      BY ONLY <2>1, <3>1, SubSeqProperties
  <2> HIDE DEF u
  <2>3. Len(u) = Len(s) /\ \A i \in 1 .. Len(s) : u[i] = s[i]
    BY <1>2, <1>3, <2>2
  <2>4. u = s
    BY ONLY <1>1, <2>2, <2>3, SeqEqual
  <2> QED
    BY <2>4 DEF u
<1> QED
  BY <1>5, <1>6 DEF t, f

(* What printf puts out for an item.                                       *)
Piece(item) ==
  CASE item.conv = "d"    -> Signed(item.arg)
    [] item.conv = "u"    -> Decimal(Unsigned(item.arg))
    [] item.conv = "x"    -> Hex(item.arg)
    [] item.conv = "p"    -> Pointer(item.arg)
    [] item.conv = "s"    -> item.arg
    [] item.conv = "c"    -> <<Digit(item.arg)>>
    [] item.conv = "text" -> <<item.arg>>

(* The items there are, of whatever characters.                            *)
Printable(Symbols) ==
  {Item(conv, n) : conv \in {"d", "u", "x", "p"}, n \in Longs}
  \cup {Item("s", s) : s \in Seq(Symbols)} \cup {Item("c", n) : n \in 0 .. 15}
  \cup {Item("text", char) : char \in Symbols \ {"%"}}

(* What Negated and Unsigned make of a long fits the width.                *)
LEMMA LongsFit ==
  ASSUME NEW n \in Longs
  PROVE  /\ n \in - TwoTo[LongBits] .. TwoTo[LongBits] - 1 /\ n \in Int
         /\ Unsigned(n) \in 0 .. TwoTo[LongBits] - 1
         /\ n >= 0 => n \in 0 .. TwoTo[LongBits] - 1
         /\ n < 0 /\ n # MinLong => Negated(n) = - n /\ Negated(n) \in 0 .. TwoTo[LongBits] - 1
         /\ n = MinLong => Negated(n) = n
<1>1. LongBits \in 1 .. LongBits /\ LongBits - 1 \in 0 .. LongBits
  BY Bits
<1>2. TwoTo[LongBits] = 2 * TwoTo[LongBits - 1] /\ TwoTo[LongBits - 1] \in Nat \ {0}
      /\ TwoTo[LongBits] \in Nat
  BY <1>1, PowersOfTwo
<1> DEFINE half == TwoTo[LongBits - 1]
           full == TwoTo[LongBits]
<1>3. full = 2 * half /\ half \in Nat /\ half > 0 /\ full \in Nat
  BY <1>2
<1>4. MinLong = - half /\ MaxLong = half - 1
  BY DEF MinLong, MaxLong
<1>5. Unsigned(n) = IF n < 0 THEN n + full ELSE n
  BY DEF Unsigned
<1>6. Negated(n) = IF n = MinLong THEN n ELSE - n
  BY DEF Negated
<1> HIDE DEF half, full
<1>7. n \in Int /\ - half <= n /\ n < half
  BY <1>3, <1>4 DEF Longs
<1>8. n \in - full .. full - 1 /\ Unsigned(n) \in 0 .. full - 1 /\ (n >= 0 => n \in 0 .. full - 1)
  BY ONLY <1>3, <1>5, <1>7
<1>9. n < 0 /\ n # MinLong => Negated(n) = - n /\ Negated(n) \in 0 .. full - 1
  BY ONLY <1>3, <1>4, <1>6, <1>7
<1>10. n = MinLong => Negated(n) = n
  BY ONLY <1>6
<1> QED
  BY <1>7, <1>8, <1>9, <1>10 DEF full

(* A signed number is a minus and its absolute value, or itself.           *)
LEMMA SignedStands ==
  ASSUME NEW n \in Longs, n # MinLong
  PROVE  /\ n < 0 => Head(Signed(n)) = "-" /\ IsDecimal(Tail(Signed(n)), - n)
         /\ ~ (n < 0) => IsDecimal(Signed(n), n)
<1>1. CASE n < 0
  <2>1. Negated(n) = - n /\ Negated(n) \in 0 .. TwoTo[LongBits] - 1
    BY <1>1, LongsFit
  <2>2. IsDecimal(Decimal(Negated(n)), Negated(n)) /\ Decimal(Negated(n)) \in Seq(Glyphs)
    BY ONLY <2>1, DecimalStands
  <2> DEFINE S == Glyphs \cup {"-"}
             minus == "-"
             text == Decimal(Negated(n))
  <2>3. Signed(n) = <<minus>> \o text
    BY <1>1 DEF Signed
  <2>4. minus \in S /\ text \in Seq(S)
    BY <2>2
  <2> HIDE DEF S, minus, text
  <2>5. Head(Signed(n)) = minus /\ Tail(Signed(n)) = text
    BY ONLY <2>3, <2>4, FirstAndRest
  <2> QED
    BY <1>1, <2>1, <2>2, <2>5 DEF minus, text
<1>2. CASE ~ (n < 0)
  <2>1. n \in 0 .. TwoTo[LongBits] - 1
    BY <1>2, LongsFit
  <2>2. Signed(n) = Decimal(n)
    BY <1>2 DEF Signed
  <2> QED
    BY <1>2, <2>1, <2>2, DecimalStands
<1> QED
  BY <1>1, <1>2

Out(Symbols) == Plain \cup {"-", "0", "x", "?"} \cup Symbols

(* An item is of one of seven kinds, with an argument that fits it.        *)
LEMMA KindsOfItems ==
  ASSUME NEW Symbols, NEW item \in Printable(Symbols)
  PROVE  \/ /\ \/ item.conv = "d" \/ item.conv = "u"
               \/ item.conv = "x" \/ item.conv = "p"
            /\ item.arg \in Longs
         \/ item.conv = "s" /\ item.arg \in Seq(Symbols)
         \/ item.conv = "c" /\ item.arg \in Int
         \/ item.conv = "text" /\ item.arg \in Symbols /\ item.arg # "%"
<1>1. CASE item \in {Item(conv, n) : conv \in {"d", "u", "x", "p"}, n \in Longs}
  BY <1>1 DEF Item
<1>2. CASE item \in {Item("s", s) : s \in Seq(Symbols)}
  BY <1>2 DEF Item
<1>3. CASE item \in {Item("c", n) : n \in 0 .. 15}
  BY <1>3 DEF Item
<1>4. CASE item \in {Item("text", char) : char \in Symbols \ {"%"}}
  BY <1>4 DEF Item
<1> QED
  BY <1>1, <1>2, <1>3, <1>4 DEF Printable

(* A signed number is made of digits, junk and a minus.                    *)
LEMMA SignedPlain ==
  ASSUME NEW n \in Longs
  PROVE  Signed(n) \in Seq(Plain \cup {"-"})
<1> DEFINE minus == "-"
           S == Plain \cup {minus}
<1>0. minus \in S /\ \A s \in Seq(Plain) : s \in Seq(S)
  OBVIOUS
<1>1. TwoTo[LongBits] \in Nat
  BY Bits, PowersOfTwo
<1>2. n \in Int /\ n \in - TwoTo[LongBits] + 1 .. TwoTo[LongBits] - 1
      /\ Negated(n) \in - TwoTo[LongBits] + 1 .. TwoTo[LongBits] - 1
  <2>1. n \in Int /\ n \in - TwoTo[LongBits] + 1 .. TwoTo[LongBits] - 1
    <3>1. LongBits \in 1 .. LongBits /\ LongBits - 1 \in 0 .. LongBits
      BY Bits
    <3>2. TwoTo[LongBits] = 2 * TwoTo[LongBits - 1] /\ TwoTo[LongBits - 1] \in Nat \ {0}
      BY <3>1, PowersOfTwo
    <3> DEFINE half == TwoTo[LongBits - 1]
               full == TwoTo[LongBits]
    <3>3. full = 2 * half /\ half \in Nat /\ half > 0 /\ n \in - half .. half - 1
      BY <3>2 DEF Longs, MinLong, MaxLong
    <3> HIDE DEF half, full
    <3>4. n \in Int /\ n \in - full + 1 .. full - 1
      BY ONLY <3>3
    <3> QED
      BY <3>4 DEF full
  <2>2. Negated(n) = n \/ Negated(n) = - n
    BY DEF Negated
  <2> QED
    BY <1>1, <2>1, <2>2
<1>3. Decimal(n) \in Seq(S) /\ Decimal(Negated(n)) \in Seq(S)
  <2>1. Decimal(n) \in Seq(Plain) /\ Decimal(Negated(n)) \in Seq(Plain)
    BY ONLY <1>2, DecimalPlain
  <2> QED
    BY <1>0, <2>1
<1>4. n < 0 => Signed(n) = <<minus>> \o Decimal(Negated(n))
  BY DEF Signed
<1>5. ~ (n < 0) => Signed(n) = Decimal(n)
  BY DEF Signed
<1> HIDE DEF minus, S
<1>6. <<minus>> \o Decimal(Negated(n)) \in Seq(S)
  BY ONLY <1>0, <1>3, FirstAndRest
<1>7. Signed(n) \in Seq(S)
  BY ONLY <1>3, <1>4, <1>5, <1>6
<1> QED
  BY <1>7 DEF S, minus

(* A pointer is made of digits and its prefix, and always as long.         *)
LEMMA PointerPlain ==
  ASSUME NEW n
  PROVE  Pointer(n) \in Seq(Plain \cup {"0", "x"}) /\ Len(Pointer(n)) = 2 + LongBits \div 4
<1> DEFINE S == Plain \cup {"0", "x"}
           f == <<"0", "x">>
<1>1. f \in Seq(S) /\ Len(f) = 2 /\ Pointer(n) = f \o Hex(n)
  BY DEF Pointer
<1>2. Hex(n) \in Seq(S) /\ Len(Hex(n)) = LongBits \div 4
  <2>1. Hex(n) \in Seq(Plain) /\ Len(Hex(n)) = LongBits \div 4
    BY HexPlain
  <2> QED
    BY <2>1
<1> HIDE DEF S, f
<1>3. Pointer(n) \in Seq(S) /\ Len(Pointer(n)) = Len(f) + Len(Hex(n))
  BY ONLY <1>1, <1>2, ConcatProperties
<1> QED
  BY <1>1, <1>2, <1>3 DEF S

(* A piece is a sequence of characters.                                    *)
LEMMA PieceTyped ==
  ASSUME NEW Symbols, NEW item \in Printable(Symbols)
  PROVE  Piece(item) \in Seq(Out(Symbols))
<1>0. Plain \subseteq Out(Symbols) /\ Symbols \subseteq Out(Symbols)
  BY DEF Out
<1>b. Plain \cup {"-"} \subseteq Out(Symbols)
  BY DEF Out
<1>c. Plain \cup {"0", "x"} \subseteq Out(Symbols)
  BY DEF Out
<1>a. TwoTo[LongBits] \in Nat
  BY Bits, PowersOfTwo
<1>1. CASE item.conv = "d" /\ item.arg \in Longs
  <2>1. Piece(item) = Signed(item.arg)
    BY <1>1 DEF Piece
  <2>2. Signed(item.arg) \in Seq(Plain \cup {"-"})
    BY <1>1, SignedPlain
  <2> QED
    BY ONLY <1>b, <2>1, <2>2, SeqMonotonic
<1>2. CASE item.conv = "u" /\ item.arg \in Longs
  <2>1. Piece(item) = Decimal(Unsigned(item.arg))
    BY <1>2 DEF Piece
  <2>2. Unsigned(item.arg) \in 0 .. TwoTo[LongBits] - 1
    BY <1>2, LongsFit
  <2>3. Unsigned(item.arg) \in - TwoTo[LongBits] + 1 .. TwoTo[LongBits] - 1
    BY ONLY <1>a, <2>2
  <2>4. Decimal(Unsigned(item.arg)) \in Seq(Plain)
    BY ONLY <2>3, DecimalPlain
  <2> QED
    BY ONLY <1>0, <2>1, <2>4, SeqMonotonic
<1>3. CASE item.conv = "x"
  <2>1. Piece(item) = Hex(item.arg)
    BY <1>3 DEF Piece
  <2> QED
    BY ONLY <1>0, <2>1, HexPlain, SeqMonotonic
<1>4. CASE item.conv = "p"
  <2>1. Piece(item) = Pointer(item.arg)
    BY <1>4 DEF Piece
  <2> QED
    BY ONLY <1>c, <2>1, PointerPlain, SeqMonotonic
<1>5. CASE item.conv = "s" /\ item.arg \in Seq(Symbols)
  <2>1. Piece(item) = item.arg
    BY <1>5 DEF Piece
  <2>2. item.arg \in Seq(Symbols)
    BY <1>5
  <2> QED
    BY ONLY <1>0, <2>1, <2>2, SeqMonotonic
<1>6. CASE item.conv = "c"
  <2>1. Piece(item) = <<Digit(item.arg)>>
    BY <1>6 DEF Piece
  <2>2. Digit(item.arg) \in Out(Symbols)
    BY ONLY <1>0, DigitsPlain
  <2> QED
    BY ONLY <2>1, <2>2
<1>7. CASE item.conv = "text" /\ item.arg \in Symbols
  <2>1. Piece(item) = <<item.arg>>
    BY <1>7 DEF Piece
  <2>2. item.arg \in Out(Symbols)
    BY <1>0, <1>7
  <2> QED
    BY ONLY <2>1, <2>2
<1> QED
  BY <1>1, <1>2, <1>3, <1>4, <1>5, <1>6, <1>7, KindsOfItems

(* What is put out for an item stands for it.                              *)
LEMMA PieceStands ==
  ASSUME NEW Symbols, NEW item \in Printable(Symbols), item # Item("d", MinLong)
  PROVE  Stands(Piece(item), item)
<1> DEFINE n == item.arg
<1>1. CASE item.conv = "d" /\ item.arg \in Longs
  <2>1. Piece(item) = Signed(n)
    BY <1>1 DEF Piece
  <2>2. n # MinLong
    <3>1. item = [conv |-> item.conv, arg |-> item.arg]
      BY DEF Printable, Item
    <3> QED
      BY <1>1, <3>1 DEF Item
  <2>3. Stands(Piece(item), item) <=>
          IF n < 0 THEN Head(Piece(item)) = "-" /\ IsDecimal(Tail(Piece(item)), - n)
          ELSE IsDecimal(Piece(item), n)
    BY <1>1 DEF Stands
  <2> QED
    BY <1>1, <2>1, <2>2, <2>3, SignedStands
<1>2. CASE item.conv = "u" /\ item.arg \in Longs
  <2>1. Piece(item) = Decimal(Unsigned(n))
    BY <1>2 DEF Piece
  <2>2. Stands(Piece(item), item) <=> IsDecimal(Piece(item), Unsigned(n))
    BY <1>2 DEF Stands
  <2>3. Unsigned(n) \in 0 .. TwoTo[LongBits] - 1
    BY <1>2, LongsFit
  <2> QED
    BY <2>1, <2>2, <2>3, DecimalStands
<1>3. CASE item.conv = "x" /\ item.arg \in Longs
  <2>1. Piece(item) = Hex(n)
    BY <1>3 DEF Piece
  <2>2. Stands(Piece(item), item) <=> IsHex(Piece(item), n)
    BY <1>3 DEF Stands
  <2>3. n \in - TwoTo[LongBits] .. TwoTo[LongBits] - 1
    BY <1>3, LongsFit
  <2> QED
    BY <2>1, <2>2, <2>3, HexStands
<1>4. CASE item.conv = "p" /\ item.arg \in Longs
  <2>1. Piece(item) = Pointer(n)
    BY <1>4 DEF Piece
  <2>2. Stands(Piece(item), item) <=>
          /\ SubSeq(Piece(item), 1, 2) = <<"0", "x">>
          /\ IsHex(SubSeq(Piece(item), 3, Len(Piece(item))), n)
    BY <1>4 DEF Stands
  <2>3. n \in - TwoTo[LongBits] .. TwoTo[LongBits] - 1
    BY <1>4, LongsFit
  <2>4. IsHex(Hex(n), n)
    BY <2>3, HexStands
  <2>5. Hex(n) \in Seq(Plain)
    BY HexPlain
  <2>6. /\ SubSeq(Pointer(n), 1, 2) = <<"0", "x">>
        /\ SubSeq(Pointer(n), 3, Len(Pointer(n))) = Hex(n)
    BY <2>5, PointerParts DEF Pointer
  <2> QED
    BY <2>1, <2>2, <2>4, <2>6
<1>5. CASE item.conv = "s"
  BY <1>5 DEF Piece, Stands
<1>6. CASE item.conv = "c"
  BY <1>6 DEF Piece, Stands
<1>7. CASE item.conv = "text"
  BY <1>7 DEF Piece, Stands
<1> QED
  BY <1>1, <1>2, <1>3, <1>4, <1>5, <1>6, <1>7, KindsOfItems

(* A row of sequences one behind the other: f[k] are the first k of them,  *)
(* r[k] those behind the first k.                                          *)
Flattens(f, r, seqs, n, S) ==
  /\ f[0] = <<>> /\ r[n] = <<>> /\ FlattenSeq(seqs) = f[n]
  /\ \A k \in 0 .. n : f[k] \in Seq(S) /\ r[k] \in Seq(S) /\ f[n] = f[k] \o r[k]
  /\ \A k \in 1 .. n : f[k] = f[k - 1] \o seqs[k] /\ r[k - 1] = seqs[k] \o r[k]

(* Two sequences one behind the other are a sequence.                      *)
LEMMA Joins ==
  ASSUME NEW S, NEW s \in Seq(S), NEW t \in Seq(S)
  PROVE  s \o t \in Seq(S)
BY ConcatProperties

Firsts(f, seqs, n, S) ==
  /\ f[0] = <<>> /\ FlattenSeq(seqs) = f[n]
  /\ \A k \in 0 .. n : f[k] \in Seq(S)
  /\ \A k \in 1 .. n : f[k] = f[k - 1] \o seqs[k]

(* The recursion of FlattenSeq has a solution.                             *)
LEMMA FirstOnes ==
  ASSUME NEW S, NEW n \in Nat, NEW seqs \in [1 .. n -> Seq(S)]
  PROVE  \E f : Firsts(f, seqs, n, S)
<1> DEFINE F == [k \in 1 .. n |-> [x \in Seq(S) |-> x \o seqs[k]]]
           empty == <<>>
<1>1. empty \in Seq(S) /\ Len(seqs) = n
  OBVIOUS
<1>2. F \in [1 .. n -> [Seq(S) -> Seq(S)]]
  <2>1. ASSUME NEW k \in 1 .. n, NEW x \in Seq(S) PROVE x \o seqs[k] \in Seq(S)
    <3>1. seqs[k] \in Seq(S)
      OBVIOUS
    <3> QED
      BY ONLY <3>1, x \in Seq(S), Joins
  <2> QED
    BY <2>1
<1> HIDE DEF F
<1>a. \A k \in 1 .. n, x \in Seq(S) : F[k][x] = x \o seqs[k]
  BY DEF F
<1>3. PICK f \in [0 .. n -> Seq(S)] : Iterates(f, empty, F, n)
  <2> HIDE DEF empty
  <2> QED
    BY ONLY <1>1, <1>2, n \in Nat, IteratesExist
<1>4. f[0] = <<>> /\ \A k \in 1 .. n : f[k] = F[k][f[k - 1]]
  BY <1>3 DEF Iterates
<1>5. ASSUME NEW k \in 1 .. n PROVE f[k] = f[k - 1] \o seqs[k]
  <2>1. f[k - 1] \in Seq(S) /\ f[k] = F[k][f[k - 1]]
    BY <1>4
  <2> QED
    BY ONLY <1>a, <2>1, k \in 1 .. n
<1>6. \A k \in 0 .. n : f[k] \in Seq(S)
  OBVIOUS
<1>7. FlattenSeq(seqs) = f[n]
  <2>1. CASE n = 0
    <3>1. seqs = <<>>
      BY <2>1
    <3>2. FlattenSeq(seqs) = seqs
      BY <1>1, <2>1 DEF FlattenSeq
    <3> QED
      BY <1>4, <2>1, <3>1, <3>2
  <2>2. CASE n # 0
    <3> DEFINE body(w) == [i \in 1 .. Len(seqs) |->
                             IF i = 1 THEN seqs[i] ELSE w[i - 1] \o seqs[i]]
               g == [i \in 1 .. n |-> f[i]]
               flatten == CHOOSE w : w = body(w)
    <3>1. f[1] = seqs[1]
      <4>1. 1 \in 1 .. n /\ 1 - 1 = 0
        BY <2>2
      <4>2. f[1] = <<>> \o seqs[1] /\ seqs[1] \in Seq(S)
        BY <1>4, <1>5, <4>1
      <4> QED
        BY ONLY <4>2, ConcatEmptySeq
    <3>2. g = body(g)
      <4>1. ASSUME NEW i \in 1 .. n PROVE g[i] = body(g)[i]
        <5>1. CASE i = 1
          BY <1>1, <3>1, <5>1
        <5>2. CASE i # 1
          <6>1. i - 1 \in 1 .. n
            BY <5>2
          <6>2. g[i - 1] = f[i - 1] /\ g[i] = f[i]
            BY <6>1
          <6>3. body(g)[i] = g[i - 1] \o seqs[i]
            BY <1>1, <5>2
          <6> HIDE DEF g
          <6> QED
            BY <1>5, <6>2, <6>3
        <5> QED
          BY <5>1, <5>2
      <4> QED
        BY <1>1, <4>1
    <3>3. flatten = body(flatten)
      BY ONLY <3>2
    <3>4. FlattenSeq(seqs) = flatten[n]
      BY <1>1, <2>2 DEF FlattenSeq
    <3> HIDE DEF flatten, g
    <3>5. \A i \in 1 .. n : flatten[i] = IF i = 1 THEN seqs[i] ELSE flatten[i - 1] \o seqs[i]
      BY <1>1, <3>3
    <3> DEFINE P == {i \in 0 .. n : i # 0 => flatten[i] = f[i]}
    <3>6. P \in SUBSET (0 .. n) /\ 0 \in P
      OBVIOUS
    <3>7. ASSUME NEW i \in 0 .. n - 1, i \in P PROVE i + 1 \in P
      <4>1. i + 1 \in 1 .. n /\ i + 1 \in 0 .. n /\ (i + 1) - 1 = i /\ i + 1 # 0
        OBVIOUS
      <4>2. CASE i = 0
        <5>1. flatten[1] = f[1]
          BY <3>1, <3>5, <4>1, <4>2
        <5> QED
          BY <4>1, <4>2, <5>1
      <4>3. CASE i # 0
        <5>1. flatten[i] = f[i] /\ i + 1 # 1
          BY <3>7, <4>3
        <5>2. flatten[i + 1] = flatten[i] \o seqs[i + 1] /\ f[i + 1] = f[i] \o seqs[i + 1]
          BY <1>5, <3>5, <4>1, <5>1
        <5> QED
          BY <4>1, <5>1, <5>2
      <4> QED
        BY <4>2, <4>3
    <3> HIDE DEF P
    <3>8. P = 0 .. n
      BY ONLY n \in Nat, <3>6, <3>7, AllUpTo
    <3>9. n \in P
      BY <3>8
    <3> QED
      BY <2>2, <3>4, <3>9 DEF P
  <2> QED
    BY <2>1, <2>2
<1>8. Firsts(f, seqs, n, S)
  BY <1>4, <1>5, <1>6, <1>7 DEF Firsts
<1> QED
  BY <1>8

(* A row of sequences can be split behind each of them.                    *)
LEMMA FlattenSteps ==
  ASSUME NEW S, NEW n \in Nat, NEW seqs \in [1 .. n -> Seq(S)]
  PROVE  \E f, r : Flattens(f, r, seqs, n, S)
<1>0. PICK f : Firsts(f, seqs, n, S)
  BY FirstOnes
<1>1. /\ f[0] = <<>> /\ FlattenSeq(seqs) = f[n]
      /\ \A k \in 0 .. n : f[k] \in Seq(S)
      /\ \A k \in 1 .. n : f[k] = f[k - 1] \o seqs[k]
  BY <1>0 DEF Firsts
<1> DEFINE G == [k \in 1 .. n |-> [x \in Seq(S) |-> seqs[n + 1 - k] \o x]]
           empty == <<>>
<1>2. empty \in Seq(S)
  OBVIOUS
<1>3. \A k \in 1 .. n : n + 1 - k \in 1 .. n /\ seqs[k] \in Seq(S)
  OBVIOUS
<1>4. G \in [1 .. n -> [Seq(S) -> Seq(S)]]
  <2>1. ASSUME NEW k \in 1 .. n, NEW x \in Seq(S) PROVE seqs[n + 1 - k] \o x \in Seq(S)
    <3>1. seqs[n + 1 - k] \in Seq(S)
      BY <1>3
    <3> QED
      BY ONLY <3>1, x \in Seq(S), Joins
  <2> QED
    BY <2>1
<1>5. \A k \in 1 .. n, x \in Seq(S) : G[k][x] = seqs[n + 1 - k] \o x
  OBVIOUS
<1> HIDE DEF G
<1>6. PICK b \in [0 .. n -> Seq(S)] : Iterates(b, empty, G, n)
  <2> HIDE DEF empty
  <2> QED
    BY ONLY <1>2, <1>4, n \in Nat, IteratesExist
<1>7. b[0] = <<>> /\ \A k \in 1 .. n : b[k] = G[k][b[k - 1]]
  BY <1>6 DEF Iterates
<1>8. ASSUME NEW k \in 1 .. n PROVE b[k] = seqs[n + 1 - k] \o b[k - 1]
  <2>1. b[k - 1] \in Seq(S) /\ b[k] = G[k][b[k - 1]]
    BY <1>7
  <2> QED
    BY ONLY <1>5, <2>1, k \in 1 .. n
<1> DEFINE r == [k \in 0 .. n |-> b[n - k]]
<1>9. /\ r[n] = <<>> /\ \A k \in 0 .. n : r[k] \in Seq(S)
      /\ \A k \in 1 .. n : r[k - 1] = seqs[k] \o r[k]
  <2>1. r[n] = <<>>
    BY <1>7
  <2>2. ASSUME NEW k \in 0 .. n PROVE r[k] \in Seq(S)
    OBVIOUS
  <2>3. ASSUME NEW k \in 1 .. n PROVE r[k - 1] = seqs[k] \o r[k]
    <3>1. r[k - 1] = b[n - (k - 1)] /\ r[k] = b[n - k]
      OBVIOUS
    <3>2. n - (k - 1) \in 1 .. n /\ n + 1 - (n - (k - 1)) = k /\ (n - (k - 1)) - 1 = n - k
      OBVIOUS
    <3> HIDE DEF r
    <3> QED
      BY <1>8, <3>1, <3>2
  <2> HIDE DEF r
  <2> QED
    BY <2>1, <2>2, <2>3
<1> HIDE DEF r
<1>10. \A k \in 0 .. n : f[n] = f[k] \o r[k]
  <2> DEFINE P == {k \in 0 .. n : f[n] = f[n - k] \o r[n - k]}
  <2>1. P \in SUBSET (0 .. n) /\ 0 \in P
    <3>1. f[n] \in Seq(S) /\ n - 0 = n
      <4>1. n \in 0 .. n /\ n - 0 = n
        OBVIOUS
      <4> QED
        BY ONLY <1>1, <4>1
    <3>2. f[n] = f[n] \o <<>>
      BY ONLY <3>1, ConcatEmptySeq
    <3>3. f[n] = f[n] \o r[n] /\ 0 \in 0 .. n
      BY <1>9, <3>2
    <3> QED
      BY <3>1, <3>3
  <2>2. ASSUME NEW k \in 0 .. n - 1, k \in P PROVE k + 1 \in P
    <3> DEFINE j == n - k
    <3>1. j \in 1 .. n /\ j - 1 \in 0 .. n /\ j \in 0 .. n /\ n - (k + 1) = j - 1 /\ k + 1 \in 0 .. n
      OBVIOUS
    <3>2. f[n] = f[j] \o r[j]
      BY <2>2
    <3>3. k + 1 \in P <=> f[n] = f[j - 1] \o r[j - 1]
      BY <3>1
    <3> HIDE DEF j, P
    <3>4. f[j] = f[j - 1] \o seqs[j] /\ r[j - 1] = seqs[j] \o r[j]
          /\ f[j - 1] \in Seq(S) /\ seqs[j] \in Seq(S) /\ r[j] \in Seq(S)
      BY <1>1, <1>3, <1>9, <3>1
    <3>5. (f[j - 1] \o seqs[j]) \o r[j] = f[j - 1] \o (seqs[j] \o r[j])
      <4> DEFINE x == f[j - 1]
                 y == seqs[j]
                 z == r[j]
      <4>1. x \in Seq(S) /\ y \in Seq(S) /\ z \in Seq(S)
        BY <3>4
      <4> HIDE DEF x, y, z
      <4>2. (x \o y) \o z = x \o (y \o z)
        BY ONLY <4>1, ConcatAssociative, SMTT(30)
      <4> QED
        BY <4>2 DEF x, y, z
    <3> QED
      BY ONLY <3>2, <3>3, <3>4, <3>5
  <2> HIDE DEF P
  <2>3. P = 0 .. n
    BY ONLY n \in Nat, <2>1, <2>2, AllUpTo
  <2>4. ASSUME NEW k \in 0 .. n PROVE f[n] = f[k] \o r[k]
    <3>1. n - k \in P /\ n - (n - k) = k
      BY <2>3
    <3> QED
      BY <3>1 DEF P
  <2> QED
    BY <2>4
<1>11. Flattens(f, r, seqs, n, S)
  BY <1>1, <1>9, <1>10 DEF Flattens
<1> QED
  BY <1>11

(* The loop over s is in state x behind the first j characters.            *)
Reaches(s, args, buffer, j, x) ==
  \E q : /\ q[0] = Start(args) /\ q[j] = x
         /\ \A i \in 1 .. j : q[i] = Step(q[i - 1], s[i], buffer)

(* The loop starts at the first character, with all arguments.             *)
LEMMA ReachesStart ==
  ASSUME NEW s, NEW args, NEW buffer
  PROVE  Reaches(s, args, buffer, 0, Start(args))
<1> DEFINE x == Start(args)
           q == [i \in 0 .. 0 |-> x]
<1>1. q[0] = x /\ \A i \in 1 .. 0 : q[i] = Step(q[i - 1], s[i], buffer)
  OBVIOUS
<1> HIDE DEF q
<1> QED
  BY <1>1 DEF Reaches

(* Each character takes the loop one step on.                              *)
LEMMA ReachesNext ==
  ASSUME NEW s, NEW args, NEW buffer, NEW j \in Nat, NEW x,
         Reaches(s, args, buffer, j, x)
  PROVE  Reaches(s, args, buffer, j + 1, Step(x, s[j + 1], buffer))
<1>1. PICK q : /\ q[0] = Start(args) /\ q[j] = x
               /\ \A i \in 1 .. j : q[i] = Step(q[i - 1], s[i], buffer)
  BY DEF Reaches
<1> DEFINE y == Step(x, s[j + 1], buffer)
           w == [i \in 0 .. j + 1 |-> IF i = j + 1 THEN y ELSE q[i]]
<1>2. \A i \in 0 .. j : w[i] = q[i]
  OBVIOUS
<1>3. w[j + 1] = y
  OBVIOUS
<1> HIDE DEF w
<1>4. ASSUME NEW i \in 1 .. j + 1 PROVE w[i] = Step(w[i - 1], s[i], buffer)
  <2>1. CASE i = j + 1
    <3>1. i - 1 = j /\ j \in 0 .. j
      BY <2>1
    <3>2. w[i - 1] = x
      BY <1>1, <1>2, <3>1
    <3> QED
      BY <1>3, <2>1, <3>2
  <2>2. CASE i # j + 1
    <3>1. i \in 1 .. j /\ i \in 0 .. j /\ i - 1 \in 0 .. j
      BY <2>2
    <3> QED
      BY <1>1, <1>2, <3>1
  <2> QED
    BY <2>1, <2>2
<1>5. w[0] = Start(args)
  BY <1>1, <1>2
<1> HIDE DEF y
<1>6. Reaches(s, args, buffer, j + 1, y)
  BY <1>3, <1>4, <1>5 DEF Reaches
<1> QED
  BY <1>6 DEF y

(* What is put out is what the last state of the loop has put out.         *)
LEMMA ReachesEnd ==
  ASSUME NEW s, NEW args, NEW buffer, NEW x, Len(s) \in Nat,
         Reaches(s, args, buffer, Len(s), x)
  PROVE  Produced(s, args, buffer) = x.put
<1> DEFINE n == Len(s)
           body(w) == [k \in 0 .. Len(s) |->
                         IF k = 0 THEN Start(args) ELSE Step(w[k - 1], s[k], buffer)]
           st == CHOOSE w : w = body(w)
<1>1. PICK q : /\ q[0] = Start(args) /\ q[n] = x
               /\ \A i \in 1 .. n : q[i] = Step(q[i - 1], s[i], buffer)
  BY DEF Reaches
<1> DEFINE f == [k \in 0 .. n |-> q[k]]
<1>2. f = body(f)
  <2>1. ASSUME NEW k \in 0 .. n PROVE f[k] = body(f)[k]
    <3>1. CASE k = 0
      BY <1>1, <3>1
    <3>2. CASE k # 0
      <4>1. k \in 1 .. n /\ k - 1 \in 0 .. n
        BY <3>2
      <4>2. f[k] = q[k] /\ f[k - 1] = q[k - 1]
        BY <4>1
      <4>3. body(f)[k] = Step(f[k - 1], s[k], buffer)
        BY <3>2
      <4> QED
        BY <1>1, <4>1, <4>2, <4>3
    <3> QED
      BY <3>1, <3>2
  <2> QED
    BY <2>1
<1>3. st = body(st)
  BY ONLY <1>2
<1>4. Produced(s, args, buffer) = st[n].put
  BY DEF Produced
<1> HIDE DEF st
<1>5. st[0] = Start(args) /\ \A k \in 1 .. n : st[k] = Step(st[k - 1], s[k], buffer)
  BY <1>3
<1> DEFINE P == {k \in 0 .. n : st[k] = q[k]}
<1>6. P \in SUBSET (0 .. n) /\ 0 \in P
  BY <1>1, <1>5
<1>7. ASSUME NEW k \in 0 .. n - 1, k \in P PROVE k + 1 \in P
  <2>1. k + 1 \in 1 .. n /\ k + 1 \in 0 .. n /\ (k + 1) - 1 = k
    OBVIOUS
  <2>2. st[k] = q[k]
    BY <1>7
  <2>3. st[k + 1] = q[k + 1]
    BY <1>1, <1>5, <2>1, <2>2
  <2> QED
    BY <2>1, <2>3
<1> HIDE DEF P
<1>8. P = 0 .. n
  BY ONLY n \in Nat, <1>6, <1>7, AllUpTo
<1>9. st[n] = q[n]
  BY <1>8 DEF P
<1> QED
  BY <1>1, <1>4, <1>9

(* Not behind a '%', and behind one.                                       *)
Outside(args, put) == [format |-> FALSE, args |-> args, put |-> put]
Inside(args, put)  == [format |-> TRUE,  args |-> args, put |-> put]

(* A character outside a conversion (printf.c:87-96).                      *)
LEMMA StepsOutside ==
  ASSUME NEW a, NEW p, NEW ch, NEW b
  PROVE  /\ ch = "%" => Step(Outside(a, p), ch, b) = Inside(a, p)
         /\ ch # "%" => Step(Outside(a, p), ch, b) = Outside(a, p \o <<ch>>)
BY DEF Step, Outside, Inside, Put

(* A character inside a conversion (printf.c:20-85).                       *)
LEMMA StepsInside ==
  ASSUME NEW a, NEW p, NEW ch, NEW b \in BOOLEAN
  PROVE  /\ ch = "p" => Step(Inside(a, p), ch, b) = Outside(Tail(a), p \o Pointer(Head(a)))
         /\ ch = "x" => Step(Inside(a, p), ch, b) = Outside(Tail(a), p \o Hex(Head(a)))
         /\ ch = "d" => Step(Inside(a, p), ch, b) = Outside(Tail(a), p \o Signed(Head(a)))
         /\ ch = "u" => Step(Inside(a, p), ch, b) = Outside(Tail(a), p \o Decimal(Unsigned(Head(a))))
         /\ ch = "s" => Step(Inside(a, p), ch, b) = Outside(Tail(a), p \o Head(a))
         /\ ch = "c" /\ b => Step(Inside(a, p), ch, b) = Outside(Tail(a), p \o <<Digit(Head(a))>>)
         /\ ch = "c" /\ ~ b => Step(Inside(a, p), ch, b) = Outside(a, p \o <<"?">>)
         /\ ch = "l" => Step(Inside(a, p), ch, b) = Inside(a, p)
<1> DEFINE st == Inside(a, p)
<1>1. st.format /\ st.args = a /\ st.put = p
  BY DEF Inside
<1>2. \A chars : Convert(st, chars) = Outside(Tail(a), p \o chars)
  BY DEF Convert, Inside, Outside
<1>3. b => Character(st, b) = Outside(Tail(a), p \o <<Digit(Head(a))>>)
  BY <1>1, <1>2 DEF Character
<1>4. ~ b => Character(st, b) = Outside(a, p \o <<"?">>)
  BY DEF Character, Put, Inside, Outside
<1> HIDE DEF st
<1>5. ch = "p" => Step(st, ch, b) = Outside(Tail(a), p \o Pointer(Head(a)))
  BY <1>1, <1>2 DEF Step
<1>6. ch = "x" => Step(st, ch, b) = Outside(Tail(a), p \o Hex(Head(a)))
  BY <1>1, <1>2 DEF Step
<1>7. ch = "d" => Step(st, ch, b) = Outside(Tail(a), p \o Signed(Head(a)))
  BY <1>1, <1>2 DEF Step
<1>8. ch = "u" => Step(st, ch, b) = Outside(Tail(a), p \o Decimal(Unsigned(Head(a))))
  BY <1>1, <1>2 DEF Step
<1>9. ch = "s" => Step(st, ch, b) = Outside(Tail(a), p \o Head(a))
  BY <1>1, <1>2 DEF Step
<1>10. ch = "c" => Step(st, ch, b) = Character(st, b)
  BY <1>1 DEF Step
<1>11. ch = "l" => Step(st, ch, b) = st
  BY <1>1 DEF Step
<1> QED
  BY <1>3, <1>4, <1>5, <1>6, <1>7, <1>8, <1>9, <1>10, <1>11 DEF st

(* Where the loop is behind an item, if it was outside with arguments a    *)
(* left and p put out.                                                     *)
Shown(item, a, p, b) ==
  IF item.conv = "text" THEN Outside(a, p \o <<item.arg>>)
  ELSE IF item.conv = "c" /\ ~ b THEN Outside(a, p \o <<"?">>)
  ELSE Outside(Tail(a), p \o Piece([item EXCEPT !.arg = Head(a)]))

(* The piece of an item with another argument.                             *)
LEMMA PieceOf ==
  ASSUME NEW item, NEW arg, item = [conv |-> item.conv, arg |-> item.arg]
  PROVE  LET it == [item EXCEPT !.arg = arg] IN
         /\ item.conv = "d" => Piece(it) = Signed(arg)
         /\ item.conv = "u" => Piece(it) = Decimal(Unsigned(arg))
         /\ item.conv = "x" => Piece(it) = Hex(arg)
         /\ item.conv = "p" => Piece(it) = Pointer(arg)
         /\ item.conv = "s" => Piece(it) = arg
         /\ item.conv = "c" => Piece(it) = <<Digit(arg)>>
<1> DEFINE it == [item EXCEPT !.arg = arg]
<1>1. it.conv = item.conv /\ it.arg = arg
  OBVIOUS
<1> HIDE DEF it
<1>2. /\ item.conv = "d" => Piece(it) = Signed(arg)
      /\ item.conv = "u" => Piece(it) = Decimal(Unsigned(arg))
      /\ item.conv = "x" => Piece(it) = Hex(arg)
      /\ item.conv = "p" => Piece(it) = Pointer(arg)
      /\ item.conv = "s" => Piece(it) = arg
      /\ item.conv = "c" => Piece(it) = <<Digit(arg)>>
  BY <1>1 DEF Piece
<1> QED
  BY <1>2 DEF it

(* The loop takes the directive of an item from outside to outside, and    *)
(* puts out one piece.                                                     *)
LEMMA ItemSteps ==
  ASSUME NEW Symbols, NEW item \in Printable(Symbols), NEW s, NEW args, NEW b \in BOOLEAN,
         NEW k \in Nat, NEW a, NEW p, Reaches(s, args, b, k, Outside(a, p)),
         \A j \in 1 .. Len(Directive(item)) : s[k + j] = Directive(item)[j]
  PROVE  Reaches(s, args, b, k + Len(Directive(item)), Shown(item, a, p, b))
<1>1. CASE item.conv = "text" /\ item.arg # "%"
  <2>1. Directive(item) = <<item.arg>>
    BY <1>1 DEF Directive
  <2>2. Len(Directive(item)) = 1 /\ Directive(item)[1] = item.arg
    BY <2>1
  <2>3. s[k + 1] = item.arg
    BY <2>2
  <2>4. Step(Outside(a, p), s[k + 1], b) = Outside(a, p \o <<item.arg>>)
    BY <1>1, <2>3, StepsOutside
  <2>5. Shown(item, a, p, b) = Outside(a, p \o <<item.arg>>)
    BY <1>1 DEF Shown
  <2>6. Reaches(s, args, b, k + 1, Step(Outside(a, p), s[k + 1], b))
    BY ReachesNext
  <2> QED
    BY ONLY <2>2, <2>4, <2>5, <2>6
<1>2. ASSUME item.conv # "text", item.conv # "u",
             NEW x, Step(Inside(a, p), item.conv, b) = x
      PROVE  Reaches(s, args, b, k + Len(Directive(item)), x)
  <2>1. Directive(item) = <<"%", item.conv>>
    BY <1>2 DEF Directive
  <2>2. Len(Directive(item)) = 2 /\ Directive(item)[1] = "%" /\ Directive(item)[2] = item.conv
    BY <2>1
  <2>3. s[k + 1] = "%" /\ s[k + 2] = item.conv
    BY <2>2
  <2>4. Step(Outside(a, p), s[k + 1], b) = Inside(a, p)
    BY <2>3, StepsOutside
  <2>5. Reaches(s, args, b, k + 1, Inside(a, p))
    BY <2>4, ReachesNext
  <2>6. k + 1 \in Nat /\ (k + 1) + 1 = k + 2
    OBVIOUS
  <2>7. Reaches(s, args, b, k + 2, Step(Inside(a, p), s[k + 2], b))
    <3>1. Reaches(s, args, b, (k + 1) + 1, Step(Inside(a, p), s[(k + 1) + 1], b))
      BY ONLY <2>5, <2>6, ReachesNext
    <3> QED
      BY ONLY <2>6, <3>1
  <2>8. Step(Inside(a, p), s[k + 2], b) = x
    BY <1>2, <2>3
  <2> QED
    BY ONLY <2>2, <2>7, <2>8
<1>3. item = [conv |-> item.conv, arg |-> item.arg]
  BY DEF Printable, Item
<1> DEFINE h == Head(a)
           it == [item EXCEPT !.arg = h]
<1>4. item.conv # "text" /\ ~ (item.conv = "c" /\ ~ b)
        => Shown(item, a, p, b) = Outside(Tail(a), p \o Piece(it))
  BY DEF Shown
<1>5. /\ item.conv = "d" => Piece(it) = Signed(h)
      /\ item.conv = "u" => Piece(it) = Decimal(Unsigned(h))
      /\ item.conv = "x" => Piece(it) = Hex(h)
      /\ item.conv = "p" => Piece(it) = Pointer(h)
      /\ item.conv = "s" => Piece(it) = h
      /\ item.conv = "c" => Piece(it) = <<Digit(h)>>
  BY ONLY <1>3, PieceOf
<1> HIDE DEF it
<1>6. CASE item.conv = "u"
  <2>1. Directive(item) = <<"%", "l", "u">>
    BY <1>6 DEF Directive
  <2>2. Len(Directive(item)) = 3 /\ Directive(item)[1] = "%" /\ Directive(item)[2] = "l"
        /\ Directive(item)[3] = "u"
    BY <2>1
  <2>3. s[k + 1] = "%" /\ s[k + 2] = "l" /\ s[k + 3] = "u"
    BY <2>2
  <2>4. Step(Outside(a, p), s[k + 1], b) = Inside(a, p)
    BY ONLY <2>3, StepsOutside
  <2>5. Reaches(s, args, b, k + 1, Inside(a, p))
    BY <2>4, ReachesNext
  <2>6. k + 1 \in Nat /\ (k + 1) + 1 = k + 2 /\ k + 2 \in Nat /\ (k + 2) + 1 = k + 3
    OBVIOUS
  <2>7. Step(Inside(a, p), s[k + 2], b) = Inside(a, p)
    BY <2>3, StepsInside
  <2>8. Reaches(s, args, b, k + 2, Inside(a, p))
    <3>1. Reaches(s, args, b, (k + 1) + 1, Step(Inside(a, p), s[(k + 1) + 1], b))
      BY ONLY <2>5, <2>6, ReachesNext
    <3> QED
      BY ONLY <2>6, <2>7, <3>1
  <2>9. Reaches(s, args, b, k + 3, Step(Inside(a, p), s[k + 3], b))
    <3>1. Reaches(s, args, b, (k + 2) + 1, Step(Inside(a, p), s[(k + 2) + 1], b))
      BY ONLY <2>6, <2>8, ReachesNext
    <3> QED
      BY ONLY <2>6, <3>1
  <2>10. Step(Inside(a, p), s[k + 3], b) = Outside(Tail(a), p \o Decimal(Unsigned(h)))
    BY <2>3, StepsInside
  <2>11. Shown(item, a, p, b) = Outside(Tail(a), p \o Decimal(Unsigned(h)))
    BY <1>4, <1>5, <1>6
  <2> QED
    BY ONLY <2>2, <2>9, <2>10, <2>11
<1>7. CASE item.conv = "c" /\ ~ b
  <2>1. Shown(item, a, p, b) = Outside(a, p \o <<"?">>)
    BY <1>7 DEF Shown
  <2>2. Step(Inside(a, p), item.conv, b) = Outside(a, p \o <<"?">>)
    BY <1>7, StepsInside
  <2>3. item.conv # "text" /\ item.conv # "u"
    BY <1>7
  <2> QED
    BY <1>2, <2>1, <2>2, <2>3
<1>8. CASE item.conv = "c" /\ b
  <2>1. Shown(item, a, p, b) = Outside(Tail(a), p \o <<Digit(h)>>)
    BY <1>4, <1>5, <1>8
  <2>2. Step(Inside(a, p), item.conv, b) = Outside(Tail(a), p \o <<Digit(h)>>)
    BY <1>8, StepsInside
  <2>3. item.conv # "text" /\ item.conv # "u"
    BY <1>8
  <2> QED
    BY <1>2, <2>1, <2>2, <2>3
<1>9. CASE item.conv = "d"
  <2>1. Shown(item, a, p, b) = Outside(Tail(a), p \o Signed(h))
    BY <1>4, <1>5, <1>9
  <2>2. Step(Inside(a, p), item.conv, b) = Outside(Tail(a), p \o Signed(h))
    BY <1>9, StepsInside
  <2>3. item.conv # "text" /\ item.conv # "u"
    BY <1>9
  <2> QED
    BY <1>2, <2>1, <2>2, <2>3
<1>10. CASE item.conv = "x"
  <2>1. Shown(item, a, p, b) = Outside(Tail(a), p \o Hex(h))
    BY <1>4, <1>5, <1>10
  <2>2. Step(Inside(a, p), item.conv, b) = Outside(Tail(a), p \o Hex(h))
    BY <1>10, StepsInside
  <2>3. item.conv # "text" /\ item.conv # "u"
    BY <1>10
  <2> QED
    BY <1>2, <2>1, <2>2, <2>3
<1>11. CASE item.conv = "p"
  <2>1. Shown(item, a, p, b) = Outside(Tail(a), p \o Pointer(h))
    BY <1>4, <1>5, <1>11
  <2>2. Step(Inside(a, p), item.conv, b) = Outside(Tail(a), p \o Pointer(h))
    BY <1>11, StepsInside
  <2>3. item.conv # "text" /\ item.conv # "u"
    BY <1>11
  <2> QED
    BY <1>2, <2>1, <2>2, <2>3
<1>12. CASE item.conv = "s"
  <2>1. Shown(item, a, p, b) = Outside(Tail(a), p \o h)
    BY <1>4, <1>5, <1>12
  <2>2. Step(Inside(a, p), item.conv, b) = Outside(Tail(a), p \o h)
    BY <1>12, StepsInside
  <2>3. item.conv # "text" /\ item.conv # "u"
    BY <1>12
  <2> QED
    BY <1>2, <2>1, <2>2, <2>3
<1> QED
  BY <1>1, <1>6, <1>7, <1>8, <1>9, <1>10, <1>11, <1>12, KindsOfItems

ArgSet(Symbols) == Int \cup Seq(Symbols)
ArgOf(item) == IF item.conv = "text" THEN <<>> ELSE <<item.arg>>
Letters(Symbols) == {"%", "l", "u", "d", "x", "p", "s", "c"} \cup Symbols

(* A sequence of one element.                                              *)
LEMMA OneElement ==
  ASSUME NEW S, NEW e \in S
  PROVE  <<e>> \in Seq(S) /\ Len(<<e>>) = 1 /\ <<e>>[1] = e
OBVIOUS

(* A sequence of none.                                                     *)
LEMMA NoElement ==
  ASSUME NEW S
  PROVE  <<>> \in Seq(S) /\ Len(<<>>) = 0
OBVIOUS

(* The argument of an item that takes one.                                 *)
LEMMA ArgTyped ==
  ASSUME NEW Symbols, NEW item \in Printable(Symbols), item.conv # "text"
  PROVE  item.arg \in ArgSet(Symbols)
<1>1. \A n \in Longs : n \in Int
  BY LongsFit
<1> QED
  BY <1>1, KindsOfItems DEF ArgSet

(* The arguments an item takes.                                            *)
LEMMA ArgOfTyped ==
  ASSUME NEW Symbols, NEW item \in Printable(Symbols)
  PROVE  ArgOf(item) \in Seq(ArgSet(Symbols))
<1>1. CASE item.conv = "text"
  BY <1>1, NoElement DEF ArgOf
<1>2. CASE item.conv # "text"
  <2>1. ArgOf(item) = <<item.arg>>
    BY <1>2 DEF ArgOf
  <2>2. item.arg \in ArgSet(Symbols)
    BY <1>2, ArgTyped
  <2> QED
    BY ONLY <2>1, <2>2, OneElement
<1> QED
  BY <1>1, <1>2

(* The part of the format an item is written as.                           *)
LEMMA DirectiveTyped ==
  ASSUME NEW Symbols, NEW item \in Printable(Symbols)
  PROVE  Directive(item) \in Seq(Letters(Symbols))
<1> DEFINE S == Letters(Symbols)
           c == item.conv
           per == "%"
           ell == "l"
           u == "u"
<1>1. per \in S /\ ell \in S /\ u \in S
  BY DEF Letters
<1>2. c # "text" => c \in S
  BY KindsOfItems DEF Letters
<1>3. c = "text" => item.arg \in S
  <2>1. c = "text" => item.arg \in Symbols
    BY KindsOfItems
  <2> QED
    BY <2>1 DEF Letters
<1>4. /\ c = "text" => Directive(item) = <<item.arg>>
      /\ c = u => Directive(item) = <<per, ell, u>>
      /\ c # "text" /\ c # u => Directive(item) = <<per, c>>
  BY DEF Directive
<1> HIDE DEF S, per, ell, u
<1>5. CASE c = "text"
  BY <1>3, <1>4, <1>5, OneElement DEF S
<1>6. CASE c = u
  <2>1. <<per, ell, u>> \in Seq(S)
    BY ONLY <1>1
  <2>2. c # "text"
    BY <1>6 DEF u
  <2> QED
    BY <1>4, <1>6, <2>1 DEF S
<1>7. CASE c # "text" /\ c # u
  <2>1. <<per, c>> \in Seq(S)
    BY ONLY <1>1, <1>2, <1>7
  <2> QED
    BY <1>4, <1>7, <2>1 DEF S
<1> QED
  BY <1>5, <1>6, <1>7

(* An item with its argument at hand is shown as its piece.                *)
LEMMA ShownAsPiece ==
  ASSUME NEW Symbols, NEW item \in Printable(Symbols), NEW rest \in Seq(ArgSet(Symbols)),
         NEW p, NEW b \in BOOLEAN, item.conv = "c" => b
  PROVE  Shown(item, ArgOf(item) \o rest, p, b) = Outside(rest, p \o Piece(item))
<1>1. CASE item.conv = "text"
  <2>1. Piece(item) = <<item.arg>>
    BY <1>1 DEF Piece
  <2>2. ArgOf(item) \o rest = rest
    <3>1. ArgOf(item) = <<>>
      BY <1>1 DEF ArgOf
    <3> QED
      BY ONLY <3>1, rest \in Seq(ArgSet(Symbols)), ConcatEmptySeq
  <2> QED
    BY <1>1, <2>1, <2>2 DEF Shown
<1>2. CASE item.conv # "text"
  <2> DEFINE a == ArgOf(item) \o rest
  <2>1. Head(a) = item.arg /\ Tail(a) = rest
    <3>1. ArgOf(item) = <<item.arg>>
      BY <1>2 DEF ArgOf
    <3>2. item.arg \in ArgSet(Symbols)
      BY <1>2, ArgTyped
    <3> QED
      BY ONLY <3>1, <3>2, rest \in Seq(ArgSet(Symbols)), FirstAndRest
  <2> HIDE DEF a
  <2>2. [item EXCEPT !.arg = Head(a)] = item
    <3>1. item = [conv |-> item.conv, arg |-> item.arg]
      BY DEF Printable, Item
    <3> QED
      BY <2>1, <3>1
  <2>3. Shown(item, a, p, b) = Outside(Tail(a), p \o Piece([item EXCEPT !.arg = Head(a)]))
    BY <1>2 DEF Shown
  <2>4. Shown(item, a, p, b) = Outside(rest, p \o Piece(item))
    BY ONLY <2>1, <2>2, <2>3
  <2> QED
    BY <2>4 DEF a
<1> QED
  BY <1>1, <1>2

(* Whatever argument it takes, a text and a hexadecimal number are as long *)
(* as their pieces.                                                        *)
AsLong(Symbols, item, a, p, b) ==
  \E rest : \E chars \in Seq(Out(Symbols)) :
     Len(chars) = Len(Piece(item)) /\ Shown(item, a, p, b) = Outside(rest, p \o chars)

(* So that a pass that takes the wrong argument for one stays in step.     *)
LEMMA ShownAsLong ==
  ASSUME NEW Symbols, NEW item \in Printable(Symbols), NEW a, NEW p, NEW b \in BOOLEAN,
         item.conv = "text" \/ item.conv = "x" \/ item.conv = "p"
  PROVE  AsLong(Symbols, item, a, p, b)
<1> DEFINE h == Head(a)
           it == [item EXCEPT !.arg = h]
<1>0. Plain \subseteq Out(Symbols) /\ Plain \cup {"0", "x"} \subseteq Out(Symbols)
  BY DEF Out
<1>1. item = [conv |-> item.conv, arg |-> item.arg]
  BY DEF Printable, Item
<1>2. item.conv = "x" => Piece(it) = Hex(h)
  BY ONLY <1>1, PieceOf
<1>3. item.conv = "p" => Piece(it) = Pointer(h)
  BY ONLY <1>1, PieceOf
<1>4. item.conv = "x" \/ item.conv = "p" => Shown(item, a, p, b) = Outside(Tail(a), p \o Piece(it))
  BY DEF Shown
<1> HIDE DEF it, h
<1>5. CASE item.conv = "text"
  <2>1. Piece(item) = <<item.arg>>
    BY <1>5 DEF Piece
  <2>2. Piece(item) \in Seq(Out(Symbols))
    BY PieceTyped
  <2>3. Shown(item, a, p, b) = Outside(a, p \o Piece(item))
    BY <1>5, <2>1 DEF Shown
  <2> QED
    BY ONLY <2>2, <2>3 DEF AsLong
<1>6. CASE item.conv = "x"
  <2>1. Piece(item) = Hex(item.arg)
    BY <1>6 DEF Piece
  <2>2. Len(Hex(h)) = Len(Piece(item))
    BY ONLY <2>1, HexPlain
  <2>3. Hex(h) \in Seq(Out(Symbols))
    <3>1. Hex(h) \in Seq(Plain)
      BY HexPlain
    <3> QED
      BY ONLY <1>0, <3>1, SeqMonotonic
  <2>4. Shown(item, a, p, b) = Outside(Tail(a), p \o Hex(h))
    BY <1>2, <1>4, <1>6
  <2> QED
    BY ONLY <2>2, <2>3, <2>4 DEF AsLong
<1>7. CASE item.conv = "p"
  <2>1. Piece(item) = Pointer(item.arg)
    BY <1>7 DEF Piece
  <2>2. Len(Pointer(h)) = Len(Piece(item))
    <3>1. Len(Pointer(h)) = 2 + LongBits \div 4 /\ Len(Pointer(item.arg)) = 2 + LongBits \div 4
      BY PointerPlain
    <3> QED
      BY ONLY <2>1, <3>1
  <2>3. Pointer(h) \in Seq(Out(Symbols))
    <3>1. Pointer(h) \in Seq(Plain \cup {"0", "x"})
      BY PointerPlain
    <3> QED
      BY ONLY <1>0, <3>1, SeqMonotonic
  <2>4. Shown(item, a, p, b) = Outside(Tail(a), p \o Pointer(h))
    BY <1>3, <1>4, <1>7
  <2> QED
    BY ONLY <2>2, <2>3, <2>4 DEF AsLong
<1> QED
  BY <1>5, <1>6, <1>7

(* Where the characters of a row's sequences are in it.                    *)
PlacedAt(f, seqs, n, k) ==
  /\ Len(f[k - 1]) \in Nat /\ Len(f[k]) = Len(f[k - 1]) + Len(seqs[k])
  /\ \A j \in 1 .. Len(seqs[k]) : f[n][Len(f[k - 1]) + j] = seqs[k][j]

(* The characters of the k-th sequence are behind those of the ones before *)
(* it.                                                                     *)
LEMMA PlacesOf ==
  ASSUME NEW S, NEW n \in Nat, NEW seqs \in [1 .. n -> Seq(S)],
         NEW f, NEW r, Flattens(f, r, seqs, n, S), NEW k \in 1 .. n
  PROVE  PlacedAt(f, seqs, n, k)
<1> DEFINE x == f[k - 1]
           y == seqs[k]
           z == r[k]
<1>1. k - 1 \in 0 .. n /\ k \in 0 .. n /\ k \in 1 .. n
  OBVIOUS
<1>2. x \in Seq(S) /\ y \in Seq(S) /\ z \in Seq(S)
      /\ f[n] = x \o (y \o z) /\ f[k] = x \o y
  <2>1. f[k - 1] \in Seq(S) /\ r[k] \in Seq(S) /\ f[n] = f[k - 1] \o r[k - 1]
        /\ r[k - 1] = seqs[k] \o r[k] /\ f[k] = f[k - 1] \o seqs[k]
    BY <1>1 DEF Flattens
  <2>2. seqs[k] \in Seq(S)
    OBVIOUS
  <2> QED
    BY <2>1, <2>2
<1> HIDE DEF x, y, z
<1>3. Len(x) \in Nat /\ Len(y) \in Nat /\ Len(z) \in Nat
  BY <1>2, LenProperties
<1>4. Len(x \o y) = Len(x) + Len(y)
  BY <1>2, ConcatProperties
<1>5. /\ y \o z \in Seq(S) /\ Len(y \o z) = Len(y) + Len(z)
      /\ \A j \in 1 .. Len(y) + Len(z) : (y \o z)[j] = IF j <= Len(y) THEN y[j] ELSE z[j - Len(y)]
  BY ONLY <1>2, ConcatProperties
<1>6. \A j \in 1 .. Len(x) + Len(y \o z) :
        (x \o (y \o z))[j] = IF j <= Len(x) THEN x[j] ELSE (y \o z)[j - Len(x)]
  BY ONLY <1>2, <1>5, ConcatProperties
<1>7. ASSUME NEW j \in 1 .. Len(y) PROVE f[n][Len(x) + j] = y[j]
  <2>1. /\ Len(x) + j \in 1 .. Len(x) + Len(y \o z) /\ ~ (Len(x) + j <= Len(x))
        /\ (Len(x) + j) - Len(x) = j /\ j \in 1 .. Len(y) + Len(z) /\ j <= Len(y)
    BY ONLY <1>3, <1>5, j \in 1 .. Len(y)
  <2>2. (x \o (y \o z))[Len(x) + j] = (y \o z)[(Len(x) + j) - Len(x)]
    BY ONLY <1>6, <2>1
  <2>3. (y \o z)[j] = y[j]
    BY ONLY <1>5, <2>1
  <2> QED
    BY ONLY <1>2, <2>1, <2>2, <2>3
<1> QED
  BY <1>2, <1>3, <1>4, <1>7 DEF x, y, PlacedAt

Pieces(row) == [i \in DOMAIN row |-> Piece(row[i])]

(* Only what takes no argument, or is as long whatever it takes, follows a *)
(* character.                                                              *)
CharsLast(row) ==
  \A i, j \in DOMAIN row :
    i < j /\ row[i].conv = "c" => \/ row[j].conv = "text" \/ row[j].conv = "c"
                                  \/ row[j].conv = "x" \/ row[j].conv = "p"

(* The format, the arguments and the text of a row of n items.             *)
Composed(Symbols, row, n, f, fr, g, gr, h, hr, dirs, args) ==
  /\ n \in Nat /\ n = Len(row) /\ DOMAIN row = 1 .. n
  /\ \A k \in 1 .. n : row[k] \in Printable(Symbols)
  /\ dirs \in [1 .. n -> Seq(Letters(Symbols))] /\ \A k \in 1 .. n : dirs[k] = Directive(row[k])
  /\ args \in [1 .. n -> Seq(ArgSet(Symbols))] /\ \A k \in 1 .. n : args[k] = ArgOf(row[k])
  /\ Pieces(row) \in [1 .. n -> Seq(Out(Symbols))]
  /\ Flattens(f, fr, dirs, n, Letters(Symbols)) /\ f[n] = Format(row)
  /\ Flattens(g, gr, args, n, ArgSet(Symbols)) /\ g[n] = Args(row)
  /\ Flattens(h, hr, Pieces(row), n, Out(Symbols))

(* The format, the arguments and the text of a row are flattened in step.  *)
LEMMA RowParts ==
  ASSUME NEW Symbols, NEW row \in Seq(Printable(Symbols))
  PROVE  \E n, f, fr, g, gr, h, hr, dirs, args :
           Composed(Symbols, row, n, f, fr, g, gr, h, hr, dirs, args)
<1> DEFINE n == Len(row)
           dirs == [i \in DOMAIN row |-> Directive(row[i])]
           args == [i \in DOMAIN row |-> ArgOf(row[i])]
<1>1. n \in Nat /\ DOMAIN row = 1 .. n /\ \A k \in 1 .. n : row[k] \in Printable(Symbols)
  BY LenProperties, ElementOfSeq
<1>2. Format(row) = FlattenSeq(dirs)
  BY DEF Format
<1>3. Args(row) = FlattenSeq(args)
  BY DEF Args, ArgOf
<1>4. dirs \in [1 .. n -> Seq(Letters(Symbols))] /\ \A k \in 1 .. n : dirs[k] = Directive(row[k])
  BY <1>1, DirectiveTyped
<1>5. args \in [1 .. n -> Seq(ArgSet(Symbols))] /\ \A k \in 1 .. n : args[k] = ArgOf(row[k])
  BY <1>1, ArgOfTyped
<1>6. Pieces(row) \in [1 .. n -> Seq(Out(Symbols))]
  BY <1>1, PieceTyped DEF Pieces
<1> HIDE DEF n, dirs, args
<1>7. PICK f, fr : Flattens(f, fr, dirs, n, Letters(Symbols))
  BY ONLY <1>1, <1>4, FlattenSteps
<1>8. PICK g, gr : Flattens(g, gr, args, n, ArgSet(Symbols))
  BY ONLY <1>1, <1>5, FlattenSteps
<1>9. PICK h, hr : Flattens(h, hr, Pieces(row), n, Out(Symbols))
  BY ONLY <1>1, <1>6, FlattenSteps
<1>10. f[n] = Format(row) /\ g[n] = Args(row)
  BY <1>2, <1>3, <1>7, <1>8 DEF Flattens
<1>11. n = Len(row)
  BY DEF n
<1>12. Composed(Symbols, row, n, f, fr, g, gr, h, hr, dirs, args)
  BY ONLY <1>1, <1>4, <1>5, <1>6, <1>7, <1>8, <1>9, <1>10, <1>11 DEF Composed
<1> QED
  BY ONLY <1>12

(* What there is behind none of the sequences is all of it.                *)
LEMMA Whole ==
  ASSUME NEW f, NEW r, NEW seqs, NEW n \in Nat, NEW S, Flattens(f, r, seqs, n, S)
  PROVE  f[0] = <<>> /\ FlattenSeq(seqs) = f[n] /\ f[n] = r[0] /\ f[n] \in Seq(S)
<1>1. 0 \in 0 .. n /\ n \in 0 .. n
  OBVIOUS
<1>2. f[0] = <<>> /\ FlattenSeq(seqs) = f[n]
  BY DEF Flattens
<1>3. r[0] \in Seq(S) /\ f[n] = f[0] \o r[0] /\ f[n] \in Seq(S)
  BY <1>1 DEF Flattens
<1>4. f[n] = r[0]
  BY ONLY <1>2, <1>3, ConcatEmptySeq
<1> QED
  BY <1>2, <1>3, <1>4

(* The pass that writes puts out the pieces, one behind the other.         *)
LEMMA RowWritten ==
  ASSUME NEW Symbols, NEW row \in Seq(Printable(Symbols)), NEW b \in BOOLEAN, b
  PROVE  Produced(Format(row), Args(row), b) = FlattenSeq(Pieces(row))
<1>0. PICK n, f, fr, g, gr, h, hr, dirs, args :
        Composed(Symbols, row, n, f, fr, g, gr, h, hr, dirs, args)
  BY RowParts
<1>1. /\ n \in Nat /\ n = Len(row) /\ DOMAIN row = 1 .. n
      /\ \A k \in 1 .. n : row[k] \in Printable(Symbols)
      /\ dirs \in [1 .. n -> Seq(Letters(Symbols))] /\ \A k \in 1 .. n : dirs[k] = Directive(row[k])
      /\ args \in [1 .. n -> Seq(ArgSet(Symbols))] /\ \A k \in 1 .. n : args[k] = ArgOf(row[k])
      /\ Pieces(row) \in [1 .. n -> Seq(Out(Symbols))]
      /\ Flattens(f, fr, dirs, n, Letters(Symbols)) /\ f[n] = Format(row)
      /\ Flattens(g, gr, args, n, ArgSet(Symbols)) /\ g[n] = Args(row)
      /\ Flattens(h, hr, Pieces(row), n, Out(Symbols))
  BY ONLY <1>0 DEF Composed
<1> DEFINE F == Format(row)
           A == Args(row)
<1> HIDE DEF F, A
<1>2. /\ f[0] = <<>> /\ h[0] = <<>> /\ gr[0] = A
      /\ FlattenSeq(Pieces(row)) = h[n] /\ f[n] = F
  <2>1. f[0] = <<>>
    BY ONLY <1>1, Whole
  <2>2. h[0] = <<>> /\ FlattenSeq(Pieces(row)) = h[n]
    <3>1. n \in Nat /\ Flattens(h, hr, Pieces(row), n, Out(Symbols))
      BY ONLY <1>1
    <3> QED
      BY ONLY <3>1, Whole
  <2>3. g[n] = gr[0]
    BY ONLY <1>1, Whole
  <2> QED
    BY <1>1, <2>1, <2>2, <2>3 DEF F, A
<1> DEFINE P == {k \in 0 .. n : Reaches(F, A, b, Len(f[k]), Outside(gr[k], h[k]))}
<1>3. P \in SUBSET (0 .. n) /\ 0 \in P
  <2>1. Len(f[0]) = 0
    BY <1>2
  <2>2. Start(A) = Outside(gr[0], h[0])
    BY <1>2 DEF Start, Outside
  <2>3. Reaches(F, A, b, 0, Start(A))
    BY ReachesStart
  <2>4. Reaches(F, A, b, Len(f[0]), Outside(gr[0], h[0]))
    BY ONLY <2>1, <2>2, <2>3
  <2>5. 0 \in 0 .. n
    BY <1>1
  <2> QED
    BY <2>4, <2>5
<1>4. ASSUME NEW k \in 0 .. n - 1, k \in P PROVE k + 1 \in P
  <2> DEFINE i == k + 1
             item == row[i]
             m == Len(f[k])
  <2>1. i \in 1 .. n /\ i \in 0 .. n /\ i - 1 = k
    BY <1>1
  <2>2. item \in Printable(Symbols) /\ dirs[i] = Directive(item) /\ args[i] = ArgOf(item)
        /\ Pieces(row)[i] = Piece(item)
    BY <1>1, <2>1 DEF Pieces
  <2>3. Reaches(F, A, b, m, Outside(gr[k], h[k]))
    BY <1>4
  <2> HIDE DEF P, item, i
  <2>4. m \in Nat /\ Len(f[i]) = m + Len(Directive(item))
        /\ \A j \in 1 .. Len(Directive(item)) : F[m + j] = Directive(item)[j]
    <3>1. /\ Len(f[i - 1]) \in Nat /\ Len(f[i]) = Len(f[i - 1]) + Len(dirs[i])
          /\ \A j \in 1 .. Len(dirs[i]) : f[n][Len(f[i - 1]) + j] = dirs[i][j]
      <4>1. n \in Nat /\ i \in 1 .. n /\ dirs \in [1 .. n -> Seq(Letters(Symbols))]
        BY <1>1, <2>1
      <4>2. Flattens(f, fr, dirs, n, Letters(Symbols))
        BY <1>1
      <4>3. PlacedAt(f, dirs, n, i)
        BY ONLY <4>1, <4>2, PlacesOf
      <4> QED
        BY <4>3 DEF PlacedAt
    <3> QED
      BY <1>2, <2>1, <2>2, <3>1
  <2> HIDE DEF m
  <2>5. gr[k] = ArgOf(item) \o gr[i] /\ gr[i] \in Seq(ArgSet(Symbols)) /\ h[i] = h[k] \o Piece(item)
    <3>1. gr[i - 1] = args[i] \o gr[i] /\ gr[i] \in Seq(ArgSet(Symbols))
      BY <1>1, <2>1 DEF Flattens
    <3>2. h[i] = h[i - 1] \o Pieces(row)[i]
      BY <1>1, <2>1 DEF Flattens
    <3> QED
      BY <2>1, <2>2, <3>1, <3>2
  <2>6. Reaches(F, A, b, m + Len(Directive(item)), Shown(item, gr[k], h[k], b))
    BY ONLY b \in BOOLEAN, <2>2, <2>3, <2>4, ItemSteps DEF m
  <2>7. Shown(item, gr[k], h[k], b) = Outside(gr[i], h[i])
    <3>1. item.conv = "c" => b
      OBVIOUS
    <3>2. Shown(item, ArgOf(item) \o gr[i], h[k], b) = Outside(gr[i], h[k] \o Piece(item))
      BY ONLY <2>2, <2>5, <3>1, b \in BOOLEAN, ShownAsPiece
    <3> QED
      BY ONLY <2>5, <3>2
  <2>8. Reaches(F, A, b, Len(f[i]), Outside(gr[i], h[i]))
    BY ONLY <2>4, <2>6, <2>7
  <2>9. i \in P
    BY <2>1, <2>8 DEF P
  <2> QED
    BY <2>9 DEF i
<1> HIDE DEF P
<1>5. P = 0 .. n
  BY ONLY <1>1, <1>3, <1>4, AllUpTo
<1>6. Reaches(F, A, b, Len(F), Outside(gr[n], h[n]))
  <2>1. n \in P
    BY <1>1, <1>5
  <2> QED
    BY <1>2, <2>1 DEF P
<1>7. Len(F) \in Nat
  <2>1. f[n] \in Seq(Letters(Symbols))
    BY ONLY <1>1, Whole
  <2> QED
    BY <1>2, <2>1, LenProperties
<1>8. Produced(F, A, b) = Outside(gr[n], h[n]).put
  BY ONLY <1>6, <1>7, ReachesEnd
<1>9. Produced(F, A, b) = h[n]
  BY <1>8 DEF Outside
<1> QED
  BY <1>2, <1>9 DEF F, A

(* The pass that measures counts as many characters as the other puts out. *)
LEMMA RowMeasured ==
  ASSUME NEW Symbols, NEW row \in Seq(Printable(Symbols)), CharsLast(row),
         NEW b \in BOOLEAN, ~ b
  PROVE  Len(Produced(Format(row), Args(row), b)) = Len(FlattenSeq(Pieces(row)))
<1>0. PICK n, f, fr, g, gr, h, hr, dirs, args :
        Composed(Symbols, row, n, f, fr, g, gr, h, hr, dirs, args)
  BY RowParts
<1>1. /\ n \in Nat /\ n = Len(row) /\ DOMAIN row = 1 .. n
      /\ \A k \in 1 .. n : row[k] \in Printable(Symbols)
      /\ dirs \in [1 .. n -> Seq(Letters(Symbols))] /\ \A k \in 1 .. n : dirs[k] = Directive(row[k])
      /\ args \in [1 .. n -> Seq(ArgSet(Symbols))] /\ \A k \in 1 .. n : args[k] = ArgOf(row[k])
      /\ Pieces(row) \in [1 .. n -> Seq(Out(Symbols))]
      /\ Flattens(f, fr, dirs, n, Letters(Symbols)) /\ f[n] = Format(row)
      /\ Flattens(g, gr, args, n, ArgSet(Symbols)) /\ g[n] = Args(row)
      /\ Flattens(h, hr, Pieces(row), n, Out(Symbols))
  BY ONLY <1>0 DEF Composed
<1> DEFINE F == Format(row)
           A == Args(row)
<1> HIDE DEF F, A
<1>2. /\ f[0] = <<>> /\ h[0] = <<>> /\ gr[0] = A
      /\ FlattenSeq(Pieces(row)) = h[n] /\ f[n] = F
  <2>1. f[0] = <<>>
    BY ONLY <1>1, Whole
  <2>2. h[0] = <<>> /\ FlattenSeq(Pieces(row)) = h[n]
    <3>1. n \in Nat /\ Flattens(h, hr, Pieces(row), n, Out(Symbols))
      BY ONLY <1>1
    <3> QED
      BY ONLY <3>1, Whole
  <2>3. g[n] = gr[0]
    BY ONLY <1>1, Whole
  <2> QED
    BY <1>1, <2>1, <2>2, <2>3 DEF F, A
<1>a. \A k \in 0 .. n : h[k] \in Seq(Out(Symbols)) /\ Len(h[k]) \in Nat
  <2>1. \A k \in 0 .. n : h[k] \in Seq(Out(Symbols))
    BY <1>1 DEF Flattens
  <2> QED
    BY ONLY <2>1, LenProperties
<1> DEFINE None(k) == \A l \in 1 .. k : row[l].conv # "c"
           Good(k, a, p) == /\ Reaches(F, A, b, Len(f[k]), Outside(a, p))
                            /\ p \in Seq(Out(Symbols)) /\ Len(p) = Len(h[k])
                            /\ None(k) => a = gr[k]
           P == {k \in 0 .. n : \E a, p : Good(k, a, p)}
<1>3. P \in SUBSET (0 .. n) /\ 0 \in P
  <2>1. Len(f[0]) = 0
    BY <1>2
  <2>2. Start(A) = Outside(gr[0], h[0])
    BY <1>2 DEF Start, Outside
  <2>3. Reaches(F, A, b, 0, Start(A))
    BY ReachesStart
  <2>4. Reaches(F, A, b, Len(f[0]), Outside(gr[0], h[0]))
    BY ONLY <2>1, <2>2, <2>3
  <2>5. 0 \in 0 .. n
    BY <1>1
  <2>6. Good(0, gr[0], h[0])
    BY <1>a, <2>4, <2>5
  <2> HIDE DEF Good
  <2> QED
    BY <2>5, <2>6
<1>4. ASSUME NEW k \in 0 .. n - 1, k \in P PROVE k + 1 \in P
  <2> DEFINE i == k + 1
             item == row[i]
             m == Len(f[k])
  <2>1. i \in 1 .. n /\ i \in 0 .. n /\ i - 1 = k /\ k \in 0 .. n
    BY <1>1
  <2>2. item \in Printable(Symbols) /\ dirs[i] = Directive(item) /\ args[i] = ArgOf(item)
        /\ Pieces(row)[i] = Piece(item)
    BY <1>1, <2>1 DEF Pieces
  <2>3. PICK a, p : Good(k, a, p)
    BY <1>4
  <2>4. /\ Reaches(F, A, b, m, Outside(a, p))
        /\ p \in Seq(Out(Symbols)) /\ Len(p) = Len(h[k])
        /\ None(k) => a = gr[k]
    BY <2>3
  <2>a. None(i) <=> None(k) /\ item.conv # "c"
    BY <2>1
  <2>b. ~ None(k) => item.conv = "text" \/ item.conv = "c" \/ item.conv = "x" \/ item.conv = "p"
    <3> SUFFICES ASSUME NEW l \in 1 .. k, row[l].conv = "c"
                 PROVE  item.conv = "text" \/ item.conv = "c" \/ item.conv = "x" \/ item.conv = "p"
      OBVIOUS
    <3>1. l \in DOMAIN row /\ i \in DOMAIN row /\ l < i
      BY <1>1, <2>1
    <3> HIDE DEF i
    <3> QED
      BY <3>1 DEF CharsLast
  <2> HIDE DEF P, Good, None, item, i
  <2>5. m \in Nat /\ Len(f[i]) = m + Len(Directive(item))
        /\ \A j \in 1 .. Len(Directive(item)) : F[m + j] = Directive(item)[j]
    <3>1. n \in Nat /\ i \in 1 .. n /\ dirs \in [1 .. n -> Seq(Letters(Symbols))]
      BY <1>1, <2>1
    <3>2. Flattens(f, fr, dirs, n, Letters(Symbols))
      BY <1>1
    <3>3. PlacedAt(f, dirs, n, i)
      BY ONLY <3>1, <3>2, PlacesOf
    <3> QED
      BY <1>2, <2>1, <2>2, <3>3 DEF PlacedAt
  <2> HIDE DEF m
  <2>6. gr[k] = ArgOf(item) \o gr[i] /\ gr[i] \in Seq(ArgSet(Symbols)) /\ h[i] = h[k] \o Piece(item)
    <3>1. gr[i - 1] = args[i] \o gr[i] /\ gr[i] \in Seq(ArgSet(Symbols))
      BY <1>1, <2>1 DEF Flattens
    <3>2. h[i] = h[i - 1] \o Pieces(row)[i]
      BY <1>1, <2>1 DEF Flattens
    <3> QED
      BY <2>1, <2>2, <3>1, <3>2
  <2>7. Reaches(F, A, b, Len(f[i]), Shown(item, a, p, b))
    <3>1. Reaches(F, A, b, m + Len(Directive(item)), Shown(item, a, p, b))
      BY ONLY b \in BOOLEAN, <2>2, <2>4, <2>5, ItemSteps
    <3> QED
      BY ONLY <2>5, <3>1
  <2>8. Piece(item) \in Seq(Out(Symbols)) /\ Len(h[i]) = Len(h[k]) + Len(Piece(item))
    <3>1. Piece(item) \in Seq(Out(Symbols)) /\ h[k] \in Seq(Out(Symbols))
      BY <1>a, <2>1, <2>2, PieceTyped
    <3> QED
      BY ONLY <2>6, <3>1, ConcatProperties
  <2>9. ASSUME NEW rest, NEW chars \in Seq(Out(Symbols)), Len(chars) = Len(Piece(item)),
               Shown(item, a, p, b) = Outside(rest, p \o chars), None(i) => rest = gr[i]
        PROVE  i \in P
    <3>1. p \o chars \in Seq(Out(Symbols)) /\ Len(p \o chars) = Len(p) + Len(chars)
      BY ONLY <2>4, chars \in Seq(Out(Symbols)), ConcatProperties
    <3>2. Len(p \o chars) = Len(h[i])
      BY ONLY <2>4, <2>8, <2>9, <3>1
    <3>3. Reaches(F, A, b, Len(f[i]), Outside(rest, p \o chars))
      BY ONLY <2>7, <2>9
    <3>4. Good(i, rest, p \o chars)
      BY ONLY <2>9, <3>1, <3>2, <3>3 DEF Good
    <3> QED
      BY <2>1, <3>4 DEF P
  <2>10. ASSUME item.conv = "c" PROVE i \in P
    <3>1. Shown(item, a, p, b) = Outside(a, p \o <<"?">>)
      BY <2>10 DEF Shown
    <3>2. Piece(item) = <<Digit(item.arg)>>
      BY <2>10 DEF Piece
    <3> DEFINE q == "?"
    <3>3. q \in Out(Symbols)
      BY DEF Out
    <3>4. Shown(item, a, p, b) = Outside(a, p \o <<q>>)
      BY <3>1
    <3> HIDE DEF q
    <3>5. <<q>> \in Seq(Out(Symbols)) /\ Len(<<q>>) = 1
      BY ONLY <3>3, OneElement
    <3>6. Len(Piece(item)) = 1
      BY ONLY <3>2, DigitsPlain, OneElement
    <3>7. ~ None(i)
      BY <2>a, <2>10
    <3> QED
      BY ONLY <2>9, <3>4, <3>5, <3>6, <3>7
  <2>11. ASSUME item.conv # "c" /\ None(k) PROVE i \in P
    <3>1. a = ArgOf(item) \o gr[i]
      BY <2>4, <2>6, <2>11
    <3>2. item.conv = "c" => b
      BY <2>11
    <3>3. Shown(item, ArgOf(item) \o gr[i], p, b) = Outside(gr[i], p \o Piece(item))
      BY ONLY <2>2, <2>6, <3>2, b \in BOOLEAN, ShownAsPiece
    <3>4. Shown(item, a, p, b) = Outside(gr[i], p \o Piece(item))
      BY ONLY <3>1, <3>3
    <3> QED
      BY ONLY <2>8, <2>9, <3>4
  <2>12. ASSUME item.conv # "c" /\ ~ None(k) PROVE i \in P
    <3>1. item.conv = "text" \/ item.conv = "x" \/ item.conv = "p"
      BY <2>b, <2>12
    <3>2. PICK rest : \E chars \in Seq(Out(Symbols)) :
             /\ Len(chars) = Len(Piece(item))
             /\ Shown(item, a, p, b) = Outside(rest, p \o chars)
      <4>1. item \in Printable(Symbols)
        BY <2>2
      <4>2. AsLong(Symbols, item, a, p, b)
        BY ONLY <3>1, <4>1, b \in BOOLEAN, ShownAsLong
      <4> QED
        BY ONLY <4>2 DEF AsLong
    <3>3. ~ None(i)
      BY <2>a, <2>12
    <3> QED
      BY ONLY <2>9, <3>2, <3>3
  <2>13. i \in P
    BY <2>10, <2>11, <2>12
  <2> QED
    BY <2>13 DEF i
<1> HIDE DEF P
<1>5. P = 0 .. n
  BY ONLY <1>1, <1>3, <1>4, AllUpTo
<1>6. PICK a, p : Reaches(F, A, b, Len(F), Outside(a, p)) /\ Len(p) = Len(h[n])
  <2>1. n \in P
    BY <1>1, <1>5
  <2> QED
    BY <1>2, <2>1 DEF P
<1>7. Len(F) \in Nat
  <2>1. f[n] \in Seq(Letters(Symbols))
    BY ONLY <1>1, Whole
  <2> QED
    BY <1>2, <2>1, LenProperties
<1>8. Produced(F, A, b) = Outside(a, p).put
  BY ONLY <1>6, <1>7, ReachesEnd
<1>9. Produced(F, A, b) = p
  BY <1>8 DEF Outside
<1> QED
  BY <1>2, <1>6, <1>9 DEF F, A

(* A row is printed as finitely many characters.                           *)
LEMMA PiecesFlatten ==
  ASSUME NEW Symbols, NEW row \in Seq(Printable(Symbols))
  PROVE  Len(FlattenSeq(Pieces(row))) \in Nat
<1>1. PICK n, f, fr, g, gr, h, hr, dirs, args :
        Composed(Symbols, row, n, f, fr, g, gr, h, hr, dirs, args)
  BY RowParts
<1>2. n \in Nat /\ Flattens(h, hr, Pieces(row), n, Out(Symbols))
  BY ONLY <1>1 DEF Composed
<1>3. FlattenSeq(Pieces(row)) = h[n] /\ h[n] \in Seq(Out(Symbols))
  BY ONLY <1>2, Whole
<1> QED
  BY <1>3, LenProperties

(* What printf puts out for a row: the pieces of its items.                *)
LEMMA RowPrinted ==
  ASSUME NEW Symbols, NEW row \in Seq(Printable(Symbols)), CharsLast(row)
  PROVE  PrintedRow(row) = FlattenSeq(Pieces(row))
<1> DEFINE F == Format(row)
           A == Args(row)
           no == FALSE
           yes == TRUE
           all == FlattenSeq(Pieces(row))
<1>1. PrintedRow(row) = Printed(F, A)
  BY DEF PrintedRow
<1>2. Produced(F, A, yes) = all
  <2>1. yes \in BOOLEAN /\ yes
    OBVIOUS
  <2> HIDE DEF yes
  <2> QED
    BY <2>1, RowWritten
<1>3. Len(Produced(F, A, no)) = Len(all)
  <2>1. no \in BOOLEAN /\ ~ no
    OBVIOUS
  <2> HIDE DEF no
  <2> QED
    BY <2>1, RowMeasured
<1>4. Length(F, A) = Len(all)
  BY ONLY <1>3 DEF Length
<1>5. \A n : Text(n, F, A) = IF Len(all) < n THEN all ELSE SubSeq(all, 1, n - 1)
  BY ONLY <1>2 DEF Text
<1> HIDE DEF F, A, no, yes, all
<1>6. Len(all) \in Nat
  BY PiecesFlatten DEF all
<1>7. Printed(F, A) = Text(Len(all) + 1, F, A)
  BY <1>4 DEF Printed
<1>8. Len(all) < Len(all) + 1
  BY ONLY <1>6
<1>9. Printed(F, A) = all
  BY ONLY <1>5, <1>7, <1>8
<1> QED
  BY <1>1, <1>9 DEF F, A, all

(* Printed alone, an item is its piece.                                    *)
LEMMA ItemPrinted ==
  ASSUME NEW Symbols, NEW item \in Printable(Symbols)
  PROVE  PrintedRow(<<item>>) = Piece(item)
<1> DEFINE row == <<item>>
<1>1. row \in Seq(Printable(Symbols)) /\ DOMAIN row = {1} /\ row[1] = item /\ Len(row) = 1
  OBVIOUS
<1> HIDE DEF row
<1>2. CharsLast(row)
  BY <1>1 DEF CharsLast
<1>3. PrintedRow(row) = FlattenSeq(Pieces(row))
  BY <1>1, <1>2, RowPrinted
<1>4. PICK n, f, fr, g, gr, h, hr, dirs, args :
        Composed(Symbols, row, n, f, fr, g, gr, h, hr, dirs, args)
  BY <1>1, RowParts
<1>5. n = Len(row) /\ n \in Nat /\ Flattens(h, hr, Pieces(row), n, Out(Symbols))
  BY ONLY <1>4 DEF Composed
<1>6. n = 1 /\ 1 \in 1 .. n /\ 1 - 1 = 0
  BY <1>1, <1>5
<1>7. FlattenSeq(Pieces(row)) = h[1]
  <2>1. FlattenSeq(Pieces(row)) = h[n]
    BY ONLY <1>5, Whole
  <2> QED
    BY ONLY <1>6, <2>1
<1>8. h[1] = h[0] \o Pieces(row)[1] /\ h[0] = <<>>
  BY <1>5, <1>6 DEF Flattens
<1>9. Pieces(row)[1] = Piece(item) /\ Piece(item) \in Seq(Out(Symbols))
  BY <1>1, PieceTyped DEF Pieces
<1>10. h[1] = Piece(item)
  BY ONLY <1>8, <1>9, ConcatEmptySeq
<1> QED
  BY <1>3, <1>7, <1>10 DEF row

NoStringBehindChar == ~ Behind(items, "c", {"s"})
DecimalBehindChar  == Behind(items, "c", {"d", "u"})

(* The items of a row are printable.                                       *)
LEMMA ItemsTyped ==
  ASSUME NEW Symbols, items \in Seq(Printable(Symbols))
  PROVE  /\ \A i \in DOMAIN items : items[i] \in Printable(Symbols)
         /\ DOMAIN items = 1 .. Len(items) /\ Len(items) \in Nat
BY LenProperties, ElementOfSeq

(* The two conditions of PrintsItems on the order of items together.       *)
LEMMA ItemsCharsLast ==
  ASSUME NEW Symbols, items \in Seq(Printable(Symbols)), NoStringBehindChar, ~ DecimalBehindChar
  PROVE  CharsLast(items)
<1>1. SUFFICES ASSUME NEW i \in DOMAIN items, NEW j \in DOMAIN items,
                      i < j, items[i].conv = "c"
               PROVE  \/ items[j].conv = "text" \/ items[j].conv = "c"
                      \/ items[j].conv = "x" \/ items[j].conv = "p"
  BY DEF CharsLast
<1>2. items[j].conv # "s"
  BY <1>1 DEF NoStringBehindChar, Behind
<1>3. items[j].conv # "d" /\ items[j].conv # "u"
  BY <1>1 DEF DecimalBehindChar, Behind
<1>4. items[j] \in Printable(Symbols)
  BY ItemsTyped
<1> DEFINE it == items[j]
<1>5. it \in Printable(Symbols) /\ it.conv # "s" /\ it.conv # "d" /\ it.conv # "u"
  BY <1>2, <1>3, <1>4
<1> HIDE DEF it
<1>6. it.conv = "text" \/ it.conv = "c" \/ it.conv = "x" \/ it.conv = "p"
  BY ONLY <1>5, KindsOfItems
<1> QED
  BY <1>6 DEF it

(* printf (printf.c:10-101, 103-121), for every width of a long, every row *)
(* of items whatever its length and arguments, and every set of            *)
(* characters: each item is printed as what stands for it, if none is the  *)
(* least number in decimal; and they are printed one behind the other, if  *)
(* no decimal number is behind a character: the pass that measures and the *)
(* pass that writes agree. Behind a character there must not be a string,  *)
(* whose address the first pass would mistake the character for.           *)
THEOREM PrintfPrintsItems ==
  ASSUME NEW Symbols, items \in Seq(Printable(Symbols)), NoStringBehindChar
  PROVE  PrintsItems
<1>1. /\ \A i \in DOMAIN items : items[i] \in Printable(Symbols)
      /\ DOMAIN items = 1 .. Len(items) /\ Len(items) \in Nat
  BY ItemsTyped
<1>2. \A i \in DOMAIN items : PrintedRow(<<items[i]>>) = Piece(items[i])
  <2> TAKE i \in DOMAIN items
  <2>1. items[i] \in Printable(Symbols)
    BY <1>1
  <2> QED
    BY ONLY <2>1, ItemPrinted
<1> DEFINE least == Item("d", MinLong)
<1>3. ASSUME \A i \in DOMAIN items : items[i] # least PROVE ItemsStand
  <2>1. ASSUME NEW i \in DOMAIN items PROVE Stands(PrintedRow(<<items[i]>>), items[i])
    <3>1. items[i] \in Printable(Symbols)
      BY <1>1
    <3>2. items[i] # Item("d", MinLong)
      BY <1>3
    <3>3. Stands(Piece(items[i]), items[i])
      BY ONLY <3>1, <3>2, PieceStands
    <3> QED
      BY <1>2, <3>3
  <2> QED
    BY ONLY <2>1 DEF ItemsStand
<1>4. ASSUME ~ DecimalBehindChar PROVE Concatenates
  <2>1. CharsLast(items)
    BY <1>4, ItemsCharsLast
  <2>2. PrintedRow(items) = FlattenSeq(Pieces(items))
    BY <2>1, RowPrinted
  <2>3. Pieces(items) = [i \in DOMAIN items |-> PrintedRow(<<items[i]>>)]
    BY <1>2 DEF Pieces
  <2> QED
    BY ONLY <2>2, <2>3 DEF Concatenates
<1> QED
  BY ONLY <1>3, <1>4 DEF PrintsItems, DecimalBehindChar
=============================================================================
