------------------------------- MODULE Buffer -------------------------------
(***************************************************************************)
(* struct buffer of buffer.c: what a peer has sent of a line, or what is   *)
(* to be sent to it.  A buffer is its bytes and the number of them in use; *)
(* the length of buf is the field size.  malloc() and realloc() succeed.   *)
(***************************************************************************)
EXTENDS Naturals, Sequences

CONSTANTS Chars,    \* the bytes of a text: neither of the four below
          MinSize,  \* BUFFER_MINSIZE
          MaxSize   \* BUFFER_MAXSIZE

NL == "nl"          \* '\n'
CR == "cr"          \* '\r'
NUL == "nul"        \* '\0', the end of a string
Unset == "unset"    \* a byte that malloc() or realloc() returned

ASSUME SizesAssumption == /\ MinSize \in Nat \ {0}
                          /\ MaxSize \in Nat
                          /\ MinSize <= MaxSize
ASSUME CharsAssumption == Chars \intersect {NL, CR, NUL, Unset} = {}

Bytes == Chars \union {NL, CR, NUL, Unset}

IsBuffer(b) == /\ b \in [buf : Seq(Bytes), idx : Nat]
               /\ b.idx <= Len(b.buf)
               /\ Len(b.buf) <= MaxSize

EmptyBuffer == [buf |-> <<>>, idx |-> 0]
Reset(b) == [b EXCEPT !.idx = 0]
Room(b) == Len(b.buf) - b.idx

(* realloc() keeps the bytes there were.                                   *)
Resized(b, size) ==
  [b EXCEPT !.buf = [i \in 1..size |-> IF i <= Len(b.buf) THEN b.buf[i] ELSE Unset]]

AtMost(n, bound) == IF n < bound THEN n ELSE bound
AtLeast(n, bound) == IF n > bound THEN n ELSE bound

CannotGrow(b) == Len(b.buf) >= MaxSize
Enlarged(b) ==
  IF CannotGrow(b) THEN b
  ELSE Resized(b, AtLeast(AtMost(2 * Len(b.buf), MaxSize), MinSize))

(***************************************************************************)
(* read_into_buffer(): the first call allocates; what the read returned    *)
(* goes behind the bytes in use; a buffer that is full and has no end of   *)
(* line is enlarged, or stays as it is when it has reached MaxSize.        *)
(***************************************************************************)
Allocated(b) == IF b.buf = <<>> THEN Resized(b, MinSize) ELSE b

Stored(b, bytes) ==
  [buf |-> [i \in 1..Len(b.buf) |-> IF i \in (b.idx + 1)..(b.idx + Len(bytes))
                                    THEN bytes[i - b.idx] ELSE b.buf[i]],
   idx |-> b.idx + Len(bytes)]

EndsLine(b) == b.idx > 0 /\ b.buf[b.idx] = NL

(* Mutant: the size is compared with > instead of >=.                      *)
AfterReadGrowsLate(b, bytes) ==
  LET c == Stored(b, bytes)
  IN IF c.idx > Len(c.buf) /\ ~EndsLine(c) THEN Enlarged(c) ELSE c

AfterRead(b, bytes) ==
  LET c == Stored(b, bytes)
  IN IF c.idx >= Len(c.buf) /\ ~EndsLine(c) THEN Enlarged(c) ELSE c

(***************************************************************************)
(* buffer_terminate_line() looks at the last byte only; chomp() then       *)
(* strips the end of the string that starts at the first one.              *)
(***************************************************************************)
Ends(buf, n) == n = Len(buf) \/ buf[n + 1] = NUL
StrLen(buf) == CHOOSE n \in 0..Len(buf) :
                 Ends(buf, n) /\ \A m \in 0..(n - 1) : ~Ends(buf, m)
Text(b) == SubSeq(b.buf, 1, StrLen(b.buf))

(* Mutant: a carriage return is not stripped.                              *)
ChompedNewlines(buf) ==
  [i \in 1..Len(buf) |->
     IF i <= StrLen(buf) /\ \A j \in i..StrLen(buf) : buf[j] = NL THEN NUL ELSE buf[i]]

Chomped(buf) ==
  [i \in 1..Len(buf) |->
     IF i <= StrLen(buf) /\ \A j \in i..StrLen(buf) : buf[j] \in {NL, CR}
     THEN NUL ELSE buf[i]]

Terminated(b) == [b EXCEPT !.buf = Chomped([b.buf EXCEPT ![b.idx] = NUL])]

(***************************************************************************)
(* vbufprintf() enlarges the buffer until the text and its NUL fit, and    *)
(* fails, with the text left out, when it has reached MaxSize.             *)
(***************************************************************************)
CanPrint(b, text) == Len(text) < MaxSize - b.idx

(* The sizes that one or more calls of enlarge_buffer() lead to.           *)
Doubled(size) ==
  LET first == AtLeast(AtMost(2 * size, MaxSize), MinSize)
  IN {MaxSize} \union {n \in size..MaxSize : \E k \in 0..MaxSize : n = first * 2^k}

Least(S) == CHOOSE n \in S : \A m \in S : n <= m

PrintSize(b, text) ==
  Least({n \in {Len(b.buf)} \union Doubled(Len(b.buf)) : n - b.idx > Len(text) \/ n = MaxSize})

Printed(b, text) ==
  LET c == Resized(b, PrintSize(b, text))
  IN IF CanPrint(b, text) THEN Stored(c, text) ELSE c
=============================================================================
