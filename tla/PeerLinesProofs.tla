-------------------------- MODULE PeerLinesProofs --------------------------
(***************************************************************************)
(* Theorems about PeerLines, for any lines, outputs and sizes of buffers.  *)
(***************************************************************************)
EXTENDS PeerLines, TLAPS, SequenceTheorems, WellFoundedInduction

-----------------------------------------------------------------------------
(* A set of numbers has a least one.                                       *)
LEMMA LeastIs ==
  ASSUME NEW S \in SUBSET Nat, S # {}
  PROVE  Least(S) \in S /\ \A m \in S : Least(S) <= m
<1> DEFINE Smaller == {p \in Nat \X Nat : p[1] < p[2]}
<1>1. IsWellFoundedOn(Smaller, Nat)
  BY NatLessThanWellFounded DEF OpToRel
<1>2. PICK n \in S : \A m \in S : ~(<<m, n>> \in Smaller)
  BY <1>1, WFMin
<1>3. ASSUME NEW m \in S
      PROVE  n <= m
  <2>1. m \in Nat /\ n \in Nat
    OBVIOUS
  <2>2. m < n => <<m, n>> \in Smaller
    BY <2>1
  <2>3. ~(m < n)
    BY <1>2, <2>2
  <2> QED
    BY <2>1, <2>3
<1> QED
  BY <1>3 DEF Least

(* A resized buffer keeps the bytes it had, and those in use.              *)
LEMMA ResizedIs ==
  ASSUME NEW b, IsBuffer(b), NEW size \in Nat, Len(b.buf) <= size, size <= MaxSize
  PROVE  /\ IsBuffer(Resized(b, size))
         /\ Len(Resized(b, size).buf) = size /\ Resized(b, size).idx = b.idx
         /\ \A i \in 1..Len(b.buf) : Resized(b, size).buf[i] = b.buf[i]
<1> DEFINE old == b.buf
           n == Len(old)
           new == [i \in 1..size |-> IF i <= n THEN old[i] ELSE Unset]
<1>1. b \in [buf : Seq(Bytes), idx : Nat] /\ b.idx <= n /\ old \in Seq(Bytes) /\ n \in Nat
  BY DEF IsBuffer
<1>2. Resized(b, size) = [b EXCEPT !.buf = new]
  BY DEF Resized
<1>3. \A i \in 1..n : old[i] \in Bytes
  BY <1>1
<1> HIDE DEF n, old
<1>4. new \in [1..size -> Bytes]
  BY <1>1, <1>3 DEF Bytes
<1>5. new \in Seq(Bytes) /\ Len(new) = size
  BY <1>4
<1>6. \A i \in 1..n : new[i] = old[i]
  BY <1>1 DEF n, old
<1> HIDE DEF new
<1>7. Resized(b, size) = [buf |-> new, idx |-> b.idx]
  BY <1>1, <1>2
<1>8. b.idx <= size
  BY <1>1 DEF n, old
<1> QED
  BY <1>1, <1>5, <1>6, <1>7, <1>8 DEF IsBuffer, n, old

(* So does one that read_into_buffer() has allocated.                      *)
LEMMA AllocatedIs ==
  ASSUME NEW b, IsBuffer(b)
  PROVE  /\ IsBuffer(Allocated(b)) /\ Allocated(b).idx = b.idx
         /\ Len(b.buf) <= Len(Allocated(b).buf) /\ Len(Allocated(b).buf) > 0
         /\ \A i \in 1..Len(b.buf) : Allocated(b).buf[i] = b.buf[i]
<1>1. CASE b.buf = <<>>
  <2>1. MinSize \in Nat /\ MinSize <= MaxSize /\ MinSize > 0 /\ Len(b.buf) = 0
    BY <1>1, SizesAssumption
  <2>2. Len(b.buf) <= MinSize
    BY <2>1
  <2>3. /\ IsBuffer(Resized(b, MinSize)) /\ Resized(b, MinSize).idx = b.idx
        /\ Len(Resized(b, MinSize).buf) = MinSize
    BY <2>1, <2>2, ResizedIs
  <2> QED
    BY <1>1, <2>1, <2>3 DEF Allocated
<1>2. CASE b.buf # <<>>
  <2>1. b.buf \in Seq(Bytes)
    BY DEF IsBuffer
  <2>2. Len(b.buf) \in Nat /\ Len(b.buf) > 0
    BY <1>2, <2>1
  <2> QED
    BY <1>2, <2>2 DEF Allocated
<1> QED
  BY <1>1, <1>2

(* And one that enlarge_buffer() was asked to enlarge.                     *)
LEMMA EnlargedIs ==
  ASSUME NEW b, IsBuffer(b)
  PROVE  /\ IsBuffer(Enlarged(b)) /\ Enlarged(b).idx = b.idx
         /\ Len(b.buf) <= Len(Enlarged(b).buf)
         /\ \A i \in 1..Len(b.buf) : Enlarged(b).buf[i] = b.buf[i]
<1> DEFINE n == Len(b.buf)
           size == AtLeast(AtMost(2 * n, MaxSize), MinSize)
<1>1. n \in Nat /\ n <= MaxSize
  BY DEF IsBuffer
<1> HIDE DEF n
<1>2. ~(n >= MaxSize) => size \in Nat /\ n <= size /\ size <= MaxSize
  BY <1>1, SizesAssumption DEF AtLeast, AtMost
<1> HIDE DEF size
<1>3. CASE CannotGrow(b)
  BY <1>1, <1>3 DEF Enlarged, n
<1>4. CASE ~CannotGrow(b)
  <2>1. size \in Nat /\ n <= size /\ size <= MaxSize
    BY <1>2, <1>4 DEF CannotGrow, n
  <2>2. Enlarged(b) = Resized(b, size)
    BY <1>4 DEF Enlarged, size, n
  <2> QED
    BY <2>1, <2>2, ResizedIs DEF n
<1> QED
  BY <1>3, <1>4

(* What is stored goes behind the bytes in use.                            *)
LEMMA StoredIs ==
  ASSUME NEW b, IsBuffer(b), NEW bytes \in Seq(Bytes), b.idx + Len(bytes) <= Len(b.buf)
  PROVE  /\ IsBuffer(Stored(b, bytes)) /\ Len(Stored(b, bytes).buf) = Len(b.buf)
         /\ Stored(b, bytes).idx = b.idx + Len(bytes)
         /\ \A i \in 1..b.idx : Stored(b, bytes).buf[i] = b.buf[i]
         /\ \A i \in 1..Len(bytes) : Stored(b, bytes).buf[b.idx + i] = bytes[i]
<1> DEFINE old == b.buf
           n == Len(old)
           k == b.idx
           m == Len(bytes)
           new == [i \in 1..n |-> IF i \in (k + 1)..(k + m) THEN bytes[i - k] ELSE old[i]]
<1>1. n \in Nat /\ k \in Nat /\ m \in Nat /\ k + m <= n /\ n <= MaxSize
  BY DEF IsBuffer
<1>2. \A i \in 1..n : old[i] \in Bytes
  BY DEF IsBuffer
<1>3. \A i \in 1..m : bytes[i] \in Bytes
  OBVIOUS
<1>4. Stored(b, bytes) = [buf |-> new, idx |-> k + m]
  BY DEF Stored
<1> HIDE DEF n, k, m, old
<1>5. ASSUME NEW i \in 1..n, i \in (k + 1)..(k + m)
      PROVE  i - k \in 1..m
  BY <1>1, <1>5
<1>6. new \in [1..n -> Bytes]
  BY <1>2, <1>3, <1>5
<1>7. new \in Seq(Bytes) /\ Len(new) = n
  BY <1>1, <1>6
<1>8. \A i \in 1..k : new[i] = old[i]
  BY <1>1
<1>9. ASSUME NEW i \in 1..m
      PROVE  new[k + i] = bytes[i]
  <2>1. k + i \in 1..n /\ k + i \in (k + 1)..(k + m) /\ (k + i) - k = i
    BY <1>1
  <2> QED
    BY <2>1
<1> HIDE DEF new
<1>10. IsBuffer([buf |-> new, idx |-> k + m])
  BY <1>1, <1>7 DEF IsBuffer
<1>11. /\ Len(Stored(b, bytes).buf) = n /\ Stored(b, bytes).idx = k + m
       /\ \A i \in 1..k : Stored(b, bytes).buf[i] = old[i]
       /\ \A i \in 1..m : Stored(b, bytes).buf[k + i] = bytes[i]
  BY <1>4, <1>7, <1>8, <1>9
<1> QED
  BY <1>4, <1>10, <1>11 DEF n, k, m, old

(* What one read leaves in the buffer.                                     *)
LEMMA AfterReadIs ==
  ASSUME NEW b, IsBuffer(b), NEW bytes \in Seq(Bytes), b.idx + Len(bytes) <= Len(b.buf)
  PROVE  LET c == AfterRead(b, bytes)
         IN /\ IsBuffer(c) /\ c.idx = b.idx + Len(bytes)
            /\ \A i \in 1..b.idx : c.buf[i] = b.buf[i]
            /\ \A i \in 1..Len(bytes) : c.buf[b.idx + i] = bytes[i]
<1> DEFINE s == Stored(b, bytes)
           c == AfterRead(b, bytes)
           k == b.idx
           m == Len(bytes)
<1>1. /\ IsBuffer(s) /\ Len(s.buf) = Len(b.buf) /\ s.idx = k + m
      /\ \A i \in 1..k : s.buf[i] = b.buf[i]
      /\ \A i \in 1..m : s.buf[k + i] = bytes[i]
  BY StoredIs
<1>2. c = s \/ c = Enlarged(s)
  BY DEF AfterRead
<1>3. k \in Nat /\ m \in Nat /\ k + m <= Len(s.buf) /\ Len(s.buf) \in Nat
  BY <1>1 DEF IsBuffer
<1> HIDE DEF s, c, k, m
<1>4. /\ IsBuffer(c) /\ c.idx = s.idx
      /\ \A i \in 1..Len(s.buf) : c.buf[i] = s.buf[i]
  BY <1>1, <1>2, EnlargedIs
<1>5. \A i \in 1..k : c.buf[i] = b.buf[i]
  BY <1>1, <1>3, <1>4
<1>6. ASSUME NEW i \in 1..m
      PROVE  c.buf[k + i] = bytes[i]
  <2>1. k + i \in 1..Len(s.buf)
    BY <1>3
  <2> QED
    BY <1>1, <1>4, <2>1
<1> QED
  BY <1>1, <1>4, <1>5, <1>6 DEF c, k, m

(* vbufprintf() makes the buffer no smaller, and large enough for a text   *)
(* that can be printed at all.                                             *)
LEMMA PrintSizeIs ==
  ASSUME NEW b, IsBuffer(b), NEW t, Len(t) \in Nat
  PROVE  /\ PrintSize(b, t) \in Nat
         /\ Len(b.buf) <= PrintSize(b, t) /\ PrintSize(b, t) <= MaxSize
         /\ CanPrint(b, t) => b.idx + Len(t) <= PrintSize(b, t)
<1> DEFINE n == Len(b.buf)
           k == b.idx
           l == Len(t)
           S == {m \in {n} \union Doubled(n) : m - k > l \/ m = MaxSize}
<1>1. n \in Nat /\ n <= MaxSize /\ k \in Nat /\ k <= n /\ l \in Nat
  BY DEF IsBuffer
<1>2. MaxSize \in Nat
  BY SizesAssumption
<1>3. PrintSize(b, t) = Least(S)
  BY DEF PrintSize
<1>4. CanPrint(b, t) => l < MaxSize - k
  BY DEF CanPrint
<1> HIDE DEF n, k, l
<1>5. Doubled(n) \subseteq n..MaxSize
  BY <1>1, <1>2 DEF Doubled
<1>6. MaxSize \in Doubled(n)
  BY DEF Doubled
<1>7. S \in SUBSET Nat /\ S \subseteq n..MaxSize /\ MaxSize \in S
  BY <1>1, <1>2, <1>5, <1>6
<1>8. Least(S) \in S
  BY <1>7, LeastIs
<1> DEFINE p == PrintSize(b, t)
<1>9. p \in n..MaxSize /\ (p - k > l \/ p = MaxSize)
  BY <1>3, <1>7, <1>8
<1> HIDE DEF p, S
<1>10. CanPrint(b, t) => k + l <= p
  BY <1>1, <1>2, <1>4, <1>9
<1>11. p \in Nat /\ n <= p /\ p <= MaxSize
  BY <1>1, <1>2, <1>9
<1> QED
  BY <1>10, <1>11 DEF p, n, k, l

(* A text is printed whole behind the bytes in use, or not at all.         *)
LEMMA PrintedIs ==
  ASSUME NEW b, IsBuffer(b), NEW t \in Seq(Bytes)
  PROVE  LET c == Printed(b, t)
         IN /\ IsBuffer(c)
            /\ \A i \in 1..b.idx : c.buf[i] = b.buf[i]
            /\ ~CanPrint(b, t) => c.idx = b.idx
            /\ CanPrint(b, t) => /\ c.idx = b.idx + Len(t)
                                 /\ \A i \in 1..Len(t) : c.buf[b.idx + i] = t[i]
<1> DEFINE r == Resized(b, PrintSize(b, t))
           c == Printed(b, t)
           p == PrintSize(b, t)
<1>1. Len(t) \in Nat /\ Len(b.buf) \in Nat /\ b.idx \in Nat /\ b.idx <= Len(b.buf)
  BY DEF IsBuffer
<1>2. /\ p \in Nat /\ Len(b.buf) <= p /\ p <= MaxSize
      /\ CanPrint(b, t) => b.idx + Len(t) <= p
  BY <1>1, PrintSizeIs
<1>3. /\ IsBuffer(r) /\ Len(r.buf) = p /\ r.idx = b.idx
      /\ \A i \in 1..Len(b.buf) : r.buf[i] = b.buf[i]
  BY <1>2, ResizedIs
<1>4. \A i \in 1..b.idx : r.buf[i] = b.buf[i]
  BY <1>1, <1>3
<1>5. c = IF CanPrint(b, t) THEN Stored(r, t) ELSE r
  BY DEF Printed
<1> HIDE DEF r, c, p
<1>6. CASE ~CanPrint(b, t)
  BY <1>3, <1>4, <1>5, <1>6 DEF c
<1>7. CASE CanPrint(b, t)
  <2>1. r.idx + Len(t) <= Len(r.buf)
    BY <1>2, <1>3, <1>7
  <2>2. /\ IsBuffer(Stored(r, t)) /\ Stored(r, t).idx = r.idx + Len(t)
        /\ \A i \in 1..r.idx : Stored(r, t).buf[i] = r.buf[i]
        /\ \A i \in 1..Len(t) : Stored(r, t).buf[r.idx + i] = t[i]
    BY <1>3, <2>1, StoredIs
  <2> QED
    BY <1>3, <1>4, <1>5, <1>7, <2>2 DEF c
<1> QED
  BY <1>6, <1>7

(* A string ends at its first NUL, or at the end of the buffer.            *)
LEMMA StrLenIs ==
  ASSUME NEW buf \in Seq(Bytes)
  PROVE  /\ StrLen(buf) \in 0..Len(buf) /\ Ends(buf, StrLen(buf))
         /\ \A m \in 0..StrLen(buf) - 1 : ~Ends(buf, m)
<1> DEFINE len == Len(buf)
           S == {n \in 0..len : Ends(buf, n)}
<1>1. len \in Nat
  OBVIOUS
<1>2. len \in S
  BY <1>1 DEF Ends
<1> HIDE DEF len
<1>3. S \in SUBSET Nat
  BY <1>1
<1>4. Least(S) \in S /\ \A m \in S : Least(S) <= m
  BY <1>2, <1>3, LeastIs
<1> DEFINE n == Least(S)
<1>5. n \in 0..len /\ Ends(buf, n)
  BY <1>4
<1>6. ASSUME NEW m \in 0..(n - 1)
      PROVE  ~Ends(buf, m)
  <2>1. n \in Nat /\ n <= len
    BY <1>1, <1>5
  <2> HIDE DEF n
  <2>2. m \in 0..len /\ ~(n <= m)
    BY <1>1, <2>1
  <2> QED
    BY <1>4, <2>2 DEF n
<1> HIDE DEF n
<1>7. StrLen(buf) \in 0..len /\ Ends(buf, StrLen(buf)) /\ \A m \in 0..(StrLen(buf) - 1) : ~Ends(buf, m)
  BY <1>5, <1>6 DEF StrLen, len
<1> QED
  BY <1>7 DEF len

(* The string in a buffer that holds so many bytes of it and then a NUL.   *)
LEMMA StrLenOfText ==
  ASSUME NEW buf \in Seq(Bytes), NEW n \in Nat, n < Len(buf),
         \A i \in 1..n : buf[i] # NUL, buf[n + 1] = NUL
  PROVE  StrLen(buf) = n
<1> DEFINE len == Len(buf)
           k == StrLen(buf)
<1>1. len \in Nat /\ n < len
  OBVIOUS
<1>2. k \in 0..len /\ Ends(buf, k) /\ \A m \in 0..k - 1 : ~Ends(buf, m)
  BY StrLenIs
<1>3. Ends(buf, n)
  BY DEF Ends
<1> HIDE DEF len, k
<1>4. ~(n < k)
  BY <1>1, <1>2, <1>3
<1>5. ~(k < n)
  <2> SUFFICES ASSUME k < n
               PROVE  FALSE
    OBVIOUS
  <2>1. k \in Nat /\ k # len /\ k + 1 \in 1..n
    BY <1>1, <1>2
  <2>2. buf[k + 1] = NUL
    BY <1>2, <2>1 DEF Ends, len
  <2> QED
    BY <2>1, <2>2
<1> QED
  BY <1>1, <1>2, <1>4, <1>5 DEF k

(* buffer_terminate_line() changes bytes only.                             *)
LEMMA TerminatedIs ==
  ASSUME NEW b, IsBuffer(b), b.idx > 0
  PROVE  /\ IsBuffer(Terminated(b)) /\ Terminated(b).idx = b.idx
         /\ Terminated(b).buf = Chomped([b.buf EXCEPT ![b.idx] = NUL])
<1> DEFINE old == b.buf
           n == Len(old)
           z == [old EXCEPT ![b.idx] = NUL]
           y == Chomped(z)
<1>1. b \in [buf : Seq(Bytes), idx : Nat] /\ b.idx <= n /\ old \in Seq(Bytes) /\ n \in Nat /\ n <= MaxSize
  BY DEF IsBuffer
<1>2. NUL \in Bytes
  BY DEF Bytes
<1>31. \A e \in Bytes, s \in Seq(Bytes) : \A i \in 1..Len(s) :
        [s EXCEPT ![i] = e] \in Seq(Bytes) /\ Len([s EXCEPT ![i] = e]) = Len(s)
  OBVIOUS
<1>32. b.idx \in 1..Len(old)
  BY <1>1
<1>3. z \in Seq(Bytes) /\ Len(z) = n
  BY <1>1, <1>2, <1>31, <1>32
<1> HIDE DEF z
<1>4. \A i \in 1..n : z[i] \in Bytes
  BY <1>3
<1> HIDE DEF n
<1>5. y = [i \in 1..n |-> IF i <= StrLen(z) /\ \A j \in i..StrLen(z) : z[j] \in {NL, CR}
                          THEN NUL ELSE z[i]]
  BY <1>3 DEF Chomped
<1>6. y \in [1..n -> Bytes]
  BY <1>2, <1>4, <1>5
<1>7. y \in Seq(Bytes) /\ Len(y) = n
  BY <1>1, <1>6
<1> HIDE DEF y
<1>8. Terminated(b) = [buf |-> y, idx |-> b.idx]
  BY <1>1 DEF Terminated, y, z
<1> QED
  BY <1>1, <1>7, <1>8 DEF IsBuffer, y, z

(* A buffer that holds a line and its end holds the line as a string when  *)
(* it has been terminated.                                                 *)
LEMMA LineTerminated ==
  ASSUME NEW b, IsBuffer(b), NEW l \in Lines, NEW eol \in Eols,
         b.idx = Len(l) + Len(eol), \A i \in 1..b.idx : b.buf[i] = (l \o eol)[i]
  PROVE  b.idx > 0 /\ Text(Terminated(b)) = l
<1> DEFINE n == Len(l)
           k == b.idx
           old == b.buf
           z == [old EXCEPT ![k] = NUL]
           y == Chomped(z)
<1>1. l \in Seq(Chars) /\ n \in Nat /\ eol \in {<<NL>>, <<CR, NL>>}
  BY TextsAssumption
<1>2. k = n + 1 \/ (k = n + 2 /\ eol = <<CR, NL>>)
  BY <1>1
<1>3. \A c \in Chars : c \in Bytes /\ c \notin {NL, CR, NUL}
  BY CharsAssumption DEF Bytes
<1>4. l \in Seq(Bytes) /\ eol \in Seq(Bytes)
  BY <1>1, <1>3 DEF Bytes
<1>5. /\ \A i \in 1..n : (l \o eol)[i] = l[i]
      /\ k = n + 2 => (l \o eol)[n + 1] = CR
  BY <1>1, <1>2, <1>4
<1>6. /\ \A i \in 1..n : old[i] = l[i] /\ l[i] \in Chars
      /\ k = n + 2 => old[n + 1] = CR
  BY <1>1, <1>2, <1>5
<1>7. /\ old \in Seq(Bytes) /\ Len(old) \in Nat /\ k <= Len(old)
      /\ NUL \in Bytes /\ CR # NUL
  BY DEF IsBuffer, Bytes, CR, NUL
<1>8. z \in Seq(Bytes) /\ Len(z) = Len(old) /\ z[k] = NUL /\ \A i \in 1..Len(old) : i # k => z[i] = old[i]
  BY <1>1, <1>2, <1>7
<1>9. y = Terminated(b).buf /\ y \in Seq(Bytes)
  BY <1>1, <1>2, TerminatedIs DEF IsBuffer
<1> HIDE DEF n, k, old, z, y
<1>10. /\ \A i \in 1..n : z[i] = l[i] /\ l[i] \in Chars
       /\ k = n + 2 => z[n + 1] = CR
  BY <1>1, <1>2, <1>6, <1>7, <1>8
<1>11. StrLen(z) = k - 1
  <2>1. k - 1 \in Nat /\ k - 1 < Len(z) /\ (k - 1) + 1 = k
    BY <1>1, <1>2, <1>7, <1>8
  <2>a. \A i \in 1..n : z[i] # NUL
    BY <1>3, <1>10
  <2>2. ASSUME NEW i \in 1..k - 1
        PROVE  z[i] # NUL
    <3>1. i \in 1..n \/ (k = n + 2 /\ i = n + 1)
      BY <1>1, <1>2
    <3> QED
      BY <1>7, <1>10, <2>a, <3>1
  <2> QED
    BY <1>8, <2>1, <2>2, StrLenOfText
<1>12. /\ DOMAIN y = 1..Len(old) /\ Len(y) = Len(old)
       /\ \A i \in 1..Len(old) :
            y[i] = IF i <= k - 1 /\ \A j \in i..k - 1 : z[j] \in {NL, CR} THEN NUL ELSE z[i]
  <2>1. y = [i \in 1..Len(old) |->
               IF i <= k - 1 /\ \A j \in i..k - 1 : z[j] \in {NL, CR} THEN NUL ELSE z[i]]
    BY <1>8, <1>11 DEF Chomped, y
  <2> QED
    BY <1>7, <1>9, <2>1
<1>13. ASSUME NEW i \in 1..n
       PROVE  y[i] = l[i]
  <2>1. i \in 1..Len(old) /\ i \in i..k - 1
    BY <1>1, <1>2, <1>7
  <2>2. z[i] \notin {NL, CR} /\ z[i] = l[i]
    BY <1>3, <1>10
  <2> QED
    BY <1>12, <2>1, <2>2
<1>14. y[n + 1] = NUL
  <2>1. n + 1 \in 1..Len(old)
    BY <1>1, <1>2, <1>7
  <2>2. CASE k = n + 1
    <3>1. ~(n + 1 <= k - 1)
      BY <1>1, <2>2
    <3> QED
      BY <1>8, <1>12, <2>1, <2>2, <3>1
  <2>3. CASE k = n + 2
    <3>1. n + 1 <= k - 1 /\ \A j \in (n + 1)..k - 1 : j = n + 1
      BY <1>1, <2>3
    <3> QED
      BY <1>10, <1>12, <2>1, <2>3, <3>1
  <2> QED
    BY <1>2, <2>2, <2>3
<1>15. n < Len(y)
  BY <1>1, <1>2, <1>7, <1>12
<1>16. \A i \in 1..n : y[i] # NUL
  BY <1>3, <1>10, <1>13
<1>17. StrLen(y) = n
  BY <1>1, <1>9, <1>14, <1>15, <1>16, StrLenOfText
<1>18. SubSeq(y, 1, n) = l
  <2>1. \A i \in 1..n : y[i] \in Bytes
    BY <1>3, <1>10, <1>13
  <2>2. /\ SubSeq(y, 1, n) \in Seq(Bytes) /\ Len(SubSeq(y, 1, n)) = n
        /\ \A i \in 1..n : SubSeq(y, 1, n)[i] = y[i]
    BY <1>1, <1>9, <1>15
  <2> QED
    BY <1>4, <1>13, <2>2, SeqEqual DEF n
<1> QED
  BY <1>1, <1>2, <1>9, <1>17, <1>18 DEF Text, n, k

-----------------------------------------------------------------------------
(* A byte of a text is a byte, and none of the four special ones.          *)
LEMMA TextBytes ==
  /\ Chars \subseteq Bytes /\ \A c \in Chars : c \notin {NL, CR, NUL}
  /\ \A s \in Seq(Chars) : s \in Seq(Bytes)
  /\ Prompt \in Seq(Chars) /\ \A l \in Lines : l \in Seq(Chars)
  /\ \A eol \in Eols : eol \in Seq(Bytes)
<1>1. Chars \subseteq Bytes /\ \A c \in Chars : c \notin {NL, CR, NUL}
  BY CharsAssumption DEF Bytes
<1>2. ASSUME NEW s \in Seq(Chars)
      PROVE  s \in Seq(Bytes)
  BY <1>1, SeqMonotonic
<1>3. Prompt \in Seq(Chars) /\ \A l \in Lines : l \in Seq(Chars)
  BY TextsAssumption DEF Prompt
<1>4. ASSUME NEW eol \in Eols
      PROVE  eol \in Seq(Bytes)
  <2>1. NL \in Bytes /\ CR \in Bytes
    BY DEF Bytes
  <2>2. eol = <<NL>> \/ eol = <<CR, NL>>
    BY TextsAssumption
  <2>3. <<NL>> \in Seq(Bytes) /\ <<CR, NL>> \in Seq(Bytes)
    BY <2>1
  <2> QED
    BY <2>2, <2>3
<1> QED
  BY <1>1, <1>2, <1>3, <1>4

(* A buffer's fields.                                                      *)
LEMMA BufferFields ==
  ASSUME NEW b, IsBuffer(b)
  PROVE  /\ b.buf \in Seq(Bytes) /\ b.idx \in Nat /\ Len(b.buf) \in Nat
         /\ b.idx <= Len(b.buf) /\ Len(b.buf) <= MaxSize /\ b.idx <= MaxSize
         /\ b = [buf |-> b.buf, idx |-> b.idx]
BY SizesAssumption DEF IsBuffer

(* buffer_reset() leaves the bytes.                                        *)
LEMMA ResetIs ==
  ASSUME NEW b, IsBuffer(b)
  PROVE  IsBuffer(Reset(b)) /\ Reset(b).idx = 0 /\ Reset(b).buf = b.buf
BY DEF IsBuffer, Reset

(* A new buffer is one, and nothing is in it.                              *)
LEMMA EmptyIs == IsBuffer(EmptyBuffer) /\ EmptyBuffer.idx = 0
BY SizesAssumption DEF IsBuffer, EmptyBuffer

(* A part of a sequence of bytes.                                          *)
LEMMA PartIs ==
  ASSUME NEW s \in Seq(Bytes), NEW m \in Nat, NEW n \in Nat, n <= Len(s)
  PROVE  /\ SubSeq(s, m + 1, n) \in Seq(Bytes)
         /\ Len(SubSeq(s, m + 1, n)) = IF m < n THEN n - m ELSE 0
         /\ m < n => \A i \in 1..n - m : SubSeq(s, m + 1, n)[i] = s[m + i]
<1>1. \A i \in (m + 1)..n : s[i] \in Bytes
  BY ElementOfSeq
<1>2. /\ SubSeq(s, m + 1, n) \in Seq(Bytes)
      /\ Len(SubSeq(s, m + 1, n)) = IF m + 1 <= n THEN n - (m + 1) + 1 ELSE 0
      /\ \A i \in 1..n - (m + 1) + 1 : SubSeq(s, m + 1, n)[i] = s[m + 1 + i - 1]
  BY <1>1, SubSeqProperties
<1> HIDE <1>1
<1> DEFINE part == SubSeq(s, m + 1, n)
<1> HIDE DEF part
<1>3. Len(part) = IF m < n THEN n - m ELSE 0
  BY <1>2 DEF part
<1>4. ASSUME m < n, NEW i \in 1..n - m
      PROVE  part[i] = s[m + i]
  <2>1. i \in 1..n - (m + 1) + 1 /\ m + 1 + i - 1 = m + i
    BY <1>4
  <2> QED
    BY <1>2, <2>1 DEF part
<1> QED
  BY <1>2, <1>3, <1>4 DEF part

(* The first bytes of a sequence.                                          *)
LEMMA PrefixIs ==
  ASSUME NEW s \in Seq(Bytes), NEW n \in Nat, n <= Len(s)
  PROVE  /\ SubSeq(s, 1, n) \in Seq(Bytes) /\ Len(SubSeq(s, 1, n)) = n
         /\ \A i \in 1..n : SubSeq(s, 1, n)[i] = s[i]
<1>1. \A i \in 1..n : s[i] \in Bytes
  BY ElementOfSeq
<1>2. /\ SubSeq(s, 1, n) \in Seq(Bytes)
      /\ Len(SubSeq(s, 1, n)) = IF 1 <= n THEN n - 1 + 1 ELSE 0
      /\ \A i \in 1..n - 1 + 1 : SubSeq(s, 1, n)[i] = s[1 + i - 1]
  BY <1>1, SubSeqProperties
<1> DEFINE part == SubSeq(s, 1, n)
<1> HIDE DEF part
<1>3. Len(part) = n
  BY <1>2 DEF part
<1>4. ASSUME NEW i \in 1..n
      PROVE  part[i] = s[i]
  <2>1. i \in 1..n - 1 + 1 /\ 1 + i - 1 = i
    OBVIOUS
  <2> QED
    BY <1>2, <2>1 DEF part
<1> QED
  BY <1>2, <1>3, <1>4 DEF part

-----------------------------------------------------------------------------
(* A thread goes on, and the others stay where they are.                   *)
LEMMA Moved ==
  ASSUME TypeOK, NEW s \in Senders, NEW label, Goto(s, label)
  PROVE  /\ label \in WorkerPcs \union LoopPcs => pc' \in [Senders -> WorkerPcs \union LoopPcs]
         /\ pc'[s] = label /\ \A o \in Senders : o # s => pc'[o] = pc[o]
BY DEF TypeOK, Goto

(* What TypeOK says of the buffers and of what is sent.                    *)
LEMMA SendTypes ==
  ASSUME TypeOK
  PROVE  /\ IsBuffer(recv) /\ IsBuffer(send)
         /\ send.buf \in Seq(Bytes) /\ send.idx \in Nat /\ Len(send.buf) \in Nat
         /\ send.idx <= Len(send.buf) /\ send.idx <= MaxSize /\ MaxSize \in Nat
         /\ \A s \in Senders : sb[s] \in Nat /\ sb[s] <= MaxSize /\ text[s] \in Seq(Bytes)
         /\ screen \in Seq(Bytes) /\ answered \in Seq(Bytes)
<1>1. IsBuffer(recv) /\ IsBuffer(send) /\ screen \in Seq(Bytes) /\ answered \in Seq(Bytes)
  BY DEF TypeOK
<1>2. ASSUME NEW s \in Senders
      PROVE  sb[s] \in Nat /\ sb[s] <= MaxSize /\ text[s] \in Seq(Bytes)
  <2>1. sb[s] \in 0..MaxSize /\ text[s] \in Seq(Chars)
    BY DEF TypeOK
  <2> QED
    BY <2>1, SizesAssumption, TextBytes
<1> QED
  BY <1>1, <1>2, BufferFields, SizesAssumption

(* A text is printed into send.                                            *)
LEMMA SayTypes ==
  ASSUME TypeOK, NEW s \in Senders, NEW flushing \in WorkerPcs \union LoopPcs,
         NEW done \in WorkerPcs \union LoopPcs, Say(s, flushing, done)
  PROVE  TypeOK'
<1>1. pc' \in [Senders -> WorkerPcs \union LoopPcs]
  BY Moved DEF Say
<1>2. text' \in [Senders -> Seq(Chars)]
  <2>1. <<>> \in Seq(Chars) /\ text \in [Senders -> Seq(Chars)]
    BY DEF TypeOK
  <2> QED
    BY <2>1 DEF Say
<1>3. IsBuffer(send') /\ sb' \in [Senders -> 0..MaxSize] /\ answered' \in Seq(Bytes)
  <2>1. CASE UNCHANGED <<send, sb, answered>>
    BY <2>1 DEF TypeOK
  <2>2. CASE /\ send' = Printed(send, text[s])
             /\ sb' = [sb EXCEPT ![s] = 0]
             /\ answered' = IF CanPrint(send, text[s]) THEN answered \o text[s] ELSE answered
    <3>1. IsBuffer(send')
      BY <2>2, SendTypes, PrintedIs
    <3>2. answered \o text[s] \in Seq(Bytes) /\ answered \in Seq(Bytes)
      BY SendTypes, ConcatProperties
    <3>3. 0 \in 0..MaxSize /\ sb \in [Senders -> 0..MaxSize]
      BY SizesAssumption DEF TypeOK
    <3> QED
      BY <2>2, <3>1, <3>2, <3>3
  <2> QED
    BY <2>1, <2>2 DEF Say
<1>4. log' \subseteq {"too_fast", "no_room", "write_failed", "crossed"}
  BY DEF Say, TypeOK
<1> QED
  BY <1>1, <1>2, <1>3, <1>4 DEF Say, TypeOK, clientVars, recvVars

(* What a write has taken, what it takes and what is left.                 *)
LEMMA Written ==
  ASSUME TypeOK, NEW s \in Senders, NEW r \in 1..send.idx - sb[s], sb[s] < send.idx
  PROVE  /\ sb[s] + r \in 0..MaxSize /\ sb[s] + r <= send.idx
         /\ SubSeq(send.buf, sb[s] + 1, sb[s] + r) \in Seq(Bytes)
         /\ Len(SubSeq(send.buf, sb[s] + 1, sb[s] + r)) = r
         /\ \A i \in 1..r : SubSeq(send.buf, sb[s] + 1, sb[s] + r)[i] = send.buf[sb[s] + i]
<1> DEFINE buf == send.buf
           idx == send.idx
           len == Len(buf)
           m == sb[s]
           n == m + r
<1>1. /\ buf \in Seq(Bytes) /\ idx \in Nat /\ m \in Nat /\ MaxSize \in Nat
      /\ idx <= len /\ len \in Nat /\ idx <= MaxSize /\ r \in 1..idx - m /\ m < idx
  BY SendTypes
<1> HIDE DEF buf, idx, len, m
<1>2. m \in Nat /\ n \in Nat /\ n - m = r /\ n <= len /\ m < n /\ n <= idx /\ n \in 0..MaxSize
  BY <1>1
<1> HIDE DEF n
<1>3. /\ SubSeq(buf, m + 1, n) \in Seq(Bytes)
      /\ Len(SubSeq(buf, m + 1, n)) = n - m
      /\ \A i \in 1..n - m : SubSeq(buf, m + 1, n)[i] = buf[m + i]
  BY <1>1, <1>2, PartIs DEF len
<1> QED
  BY <1>2, <1>3 DEF m, n, buf, idx

(* A write of Flush(s, done) that takes r bytes of the buffer.             *)
Writes(s, done, r) ==
  /\ sb[s] < send.idx
  /\ screen' = screen \o SubSeq(send.buf, sb[s] + 1, sb[s] + r)
  /\ mayType' = (mayType \/ \E i \in 1..r :
                              SubSeq(send.buf, sb[s] + 1, sb[s] + r)[i] = PromptChar)
  /\ IF sb[s] + r < send.idx
     THEN sb' = [sb EXCEPT ![s] = @ + r] /\ UNCHANGED <<send, pc>>
     ELSE send' = Reset(send) /\ sb' = [sb EXCEPT ![s] = 0] /\ Goto(s, done)
  /\ UNCHANGED <<terminate, log>>

(* The cases of a call of write().                                         *)
LEMMA FlushCases ==
  ASSUME NEW s, NEW done, Flush(s, done)
  PROVE  /\ UNCHANGED <<lines, line, wire, recvVars, answered, text, notices>>
         /\ \/ sb[s] = 0 /\ send.idx = 0 /\ GiveUp(s, done) /\ UNCHANGED log
            \/ Flaky /\ sb[s] < send.idx /\ GiveUp(s, done) /\ log' = log \union {"write_failed"}
            \/ \E r \in 1..(send.idx - sb[s]) : Writes(s, done, r)
            \/ /\ sb[s] > 0 /\ sb[s] >= send.idx
               /\ send' = Reset(send) /\ sb' = [sb EXCEPT ![s] = 0] /\ Goto(s, done)
               /\ UNCHANGED <<mayType, screen, terminate, log>>
BY DEF Flush, Writes

(* A call of write() is made, or fails.                                    *)
LEMMA FlushTypes ==
  ASSUME TypeOK, NEW s \in Senders, NEW done \in WorkerPcs \union LoopPcs, Flush(s, done)
  PROVE  TypeOK'
<1>1. /\ screen' \in Seq(Bytes) /\ IsBuffer(send') /\ sb' \in [Senders -> 0..MaxSize]
      /\ mayType' \in BOOLEAN /\ terminate' \in BOOLEAN
      /\ pc' \in [Senders -> WorkerPcs \union LoopPcs]
      /\ log' \subseteq {"too_fast", "no_room", "write_failed", "crossed"}
  <2>0. /\ screen \in Seq(Bytes) /\ IsBuffer(send) /\ sb \in [Senders -> 0..MaxSize]
        /\ mayType \in BOOLEAN /\ terminate \in BOOLEAN /\ IsBuffer(Reset(send))
        /\ pc \in [Senders -> WorkerPcs \union LoopPcs] /\ 0 \in 0..MaxSize
        /\ log \subseteq {"too_fast", "no_room", "write_failed", "crossed"}
    BY ResetIs, SizesAssumption DEF TypeOK
  <2>1. CASE GiveUp(s, done) /\ (UNCHANGED log \/ log' = log \union {"write_failed"})
    <3>1. pc' \in [Senders -> WorkerPcs \union LoopPcs]
      BY <2>1, Moved DEF GiveUp
    <3> QED
      BY <2>0, <2>1, <3>1 DEF GiveUp
  <2>2. ASSUME NEW r \in 1..(send.idx - sb[s]), Writes(s, done, r)
        PROVE  <1>1
    <3>1. sb[s] + r \in 0..MaxSize /\ SubSeq(send.buf, sb[s] + 1, sb[s] + r) \in Seq(Bytes)
      BY <2>2, Written DEF Writes
    <3>2. screen' \in Seq(Bytes)
      BY <2>0, <2>2, <3>1, ConcatProperties DEF Writes
    <3>3. mayType' \in BOOLEAN /\ terminate' \in BOOLEAN
      BY <2>0, <2>2 DEF Writes
    <3>4. CASE sb[s] + r < send.idx
      BY <2>0, <2>2, <3>1, <3>2, <3>3, <3>4 DEF Writes
    <3>5. CASE ~(sb[s] + r < send.idx)
      <4>1. pc' \in [Senders -> WorkerPcs \union LoopPcs]
        BY <2>2, <3>5, Moved DEF Writes
      <4> QED
        BY <2>0, <2>2, <3>2, <3>3, <3>5, <4>1 DEF Writes
    <3> QED
      BY <3>4, <3>5
  <2>3. CASE /\ send' = Reset(send) /\ sb' = [sb EXCEPT ![s] = 0] /\ Goto(s, done)
             /\ UNCHANGED <<mayType, screen, terminate, log>>
    <3>1. pc' \in [Senders -> WorkerPcs \union LoopPcs]
      BY <2>3, Moved
    <3> QED
      BY <2>0, <2>3, <3>1
  <2> QED
    BY <2>1, <2>2, <2>3, FlushCases
<1>2. UNCHANGED <<lines, line, wire, recv, queued, busy, paused, answered, text, notices>>
  BY FlushCases DEF recvVars
<1> QED
  BY <1>1, <1>2 DEF TypeOK

(* What the loop reads goes behind what it had read.                       *)
LEMMA ReadIs ==
  ASSUME TypeOK, NEW r \in 0..AtMost(Room(Allocated(recv)), Len(wire))
  PROVE  LET b == AfterRead(Allocated(recv), SubSeq(wire, 1, r))
         IN /\ IsBuffer(b) /\ b.idx = recv.idx + r
            /\ SubSeq(b.buf, 1, b.idx) = SubSeq(recv.buf, 1, recv.idx) \o SubSeq(wire, 1, r)
            /\ wire = SubSeq(wire, 1, r) \o SubSeq(wire, r + 1, Len(wire))
            /\ SubSeq(wire, r + 1, Len(wire)) \in Seq(Bytes) /\ SubSeq(wire, 1, r) \in Seq(Bytes)
            /\ r \in Nat /\ r <= Len(wire)
            /\ SubSeq(wire, r + 1, Len(wire)) = <<>> => r = Len(wire)
<1> DEFINE a == Allocated(recv)
           k == recv.idx
           got == SubSeq(wire, 1, r)
           left == SubSeq(wire, r + 1, Len(wire))
           b == AfterRead(a, got)
           w == Len(wire)
<1>1. /\ IsBuffer(recv) /\ wire \in Seq(Bytes) /\ w \in Nat
      /\ k \in Nat /\ k <= Len(recv.buf) /\ recv.buf \in Seq(Bytes)
  BY BufferFields DEF TypeOK
<1>2. /\ IsBuffer(a) /\ a.idx = k /\ k <= Len(a.buf) /\ Len(a.buf) \in Nat
      /\ \A i \in 1..Len(recv.buf) : a.buf[i] = recv.buf[i]
  BY <1>1, AllocatedIs, BufferFields
<1>3. r \in Nat /\ r <= w /\ k + r <= Len(a.buf)
  BY <1>1, <1>2 DEF AtMost, Room
<1> HIDE DEF w
<1>4. /\ got \in Seq(Bytes) /\ Len(got) = r /\ \A i \in 1..r : got[i] = wire[i]
      /\ left \in Seq(Bytes) /\ Len(left) = w - r
  <2>1. /\ SubSeq(wire, 1, r) \in Seq(Bytes) /\ Len(SubSeq(wire, 1, r)) = r
        /\ \A i \in 1..r : SubSeq(wire, 1, r)[i] = wire[i]
    BY <1>1, <1>3, PrefixIs DEF w
  <2>2. /\ SubSeq(wire, r + 1, w) \in Seq(Bytes)
        /\ Len(SubSeq(wire, r + 1, w)) = IF r < w THEN w - r ELSE 0
    BY <1>1, <1>3, PartIs DEF w
  <2> QED
    BY <1>1, <1>3, <2>1, <2>2 DEF w
<1>5. wire = got \o left
  <2>1. 1 \in 1..Len(wire) + 1 /\ r \in 1 - 1..Len(wire) /\ Len(wire) \in r..Len(wire)
    BY <1>1, <1>3 DEF w
  <2>2. got \o left = SubSeq(wire, 1, Len(wire))
    BY <1>1, <2>1, ConcatAdjacentSubSeq
  <2> QED
    BY <1>1, <2>2, SubSeqFull
<1> HIDE DEF got
<1>6. /\ IsBuffer(b) /\ b.idx = k + r
      /\ \A i \in 1..k : b.buf[i] = a.buf[i]
      /\ \A i \in 1..r : b.buf[k + i] = got[i]
  <2> HIDE DEF a, k
  <2>1. a.idx = k /\ Len(got) = r /\ a.idx + Len(got) <= Len(a.buf)
    BY <1>2, <1>3, <1>4
  <2>2. /\ IsBuffer(b) /\ b.idx = a.idx + Len(got)
        /\ \A i \in 1..a.idx : b.buf[i] = a.buf[i]
        /\ \A i \in 1..Len(got) : b.buf[a.idx + i] = got[i]
    BY <1>2, <1>4, <2>1, AfterReadIs
  <2> HIDE DEF b
  <2> QED
    BY <2>1, <2>2
<1> HIDE DEF b, left, a
<1>7. left = <<>> => r = w
  <2>1. left = <<>> => Len(left) = 0
    OBVIOUS
  <2> QED
    BY <1>1, <1>3, <1>4, <2>1
<1>8. SubSeq(b.buf, 1, b.idx) = SubSeq(recv.buf, 1, k) \o got
  <2> DEFINE had == SubSeq(recv.buf, 1, k)
             all == SubSeq(b.buf, 1, b.idx)
  <2>1. had \in Seq(Bytes) /\ Len(had) = k /\ \A i \in 1..k : had[i] = recv.buf[i]
    BY <1>1, PrefixIs
  <2>2. all \in Seq(Bytes) /\ Len(all) = k + r /\ \A i \in 1..k + r : all[i] = b.buf[i]
    <3>1. /\ b.buf \in Seq(Bytes) /\ b.idx <= Len(b.buf) /\ b.idx \in Nat
      BY <1>6, BufferFields
    <3>2. b.idx = k + r
      BY <1>6
    <3> QED
      BY <3>1, <3>2, PrefixIs
  <2> HIDE DEF had, all
  <2>3. /\ had \o got \in Seq(Bytes) /\ Len(had \o got) = k + r
        /\ \A i \in 1..k + r : (had \o got)[i] = IF i <= k THEN had[i] ELSE got[i - k]
    <3>1. /\ had \o got \in Seq(Bytes) /\ Len(had \o got) = Len(had) + Len(got)
          /\ \A i \in 1..Len(had) + Len(got) :
               (had \o got)[i] = IF i <= Len(had) THEN had[i] ELSE got[i - Len(had)]
      BY <1>4, <2>1, ConcatProperties
    <3>2. Len(had) = k /\ Len(got) = r
      BY <1>4, <2>1
    <3> QED
      BY <3>1, <3>2
  <2>4. ASSUME NEW i \in 1..k + r
        PROVE  all[i] = (had \o got)[i]
    <3>1. CASE i <= k
      <4>1. i \in 1..k /\ i \in 1..Len(recv.buf)
        BY <1>1, <1>3, <3>1
      <4> QED
        BY <1>2, <1>6, <2>1, <2>2, <2>3, <3>1, <4>1
    <3>2. CASE ~(i <= k)
      <4>1. i - k \in 1..r /\ k + (i - k) = i
        BY <1>1, <1>3, <3>2
      <4>2. b.buf[k + (i - k)] = got[i - k]
        BY <1>6, <4>1
      <4> QED
        BY <2>2, <2>3, <3>2, <4>1, <4>2
    <3> QED
      BY <3>1, <3>2
  <2>5. all = had \o got
    BY <2>2, <2>3, <2>4, SeqEqual
  <2> QED
    BY <2>5 DEF all, had
<1> QED
  BY <1>3, <1>4, <1>5, <1>6, <1>7, <1>8 DEF a, b, k, got, left, w

(* Everything has its type.                                                *)
LEMMA TypeStep == TypeOK /\ [Next]_vars => TypeOK'
<1> SUFFICES ASSUME TypeOK, [Next]_vars
             PROVE  TypeOK'
  OBVIOUS
<1> USE DEF clientVars, recvVars, sendVars
<1>0. WorkerPcs \subseteq WorkerPcs \union LoopPcs /\ LoopPcs \subseteq WorkerPcs \union LoopPcs
  OBVIOUS
<1>s. Loop \in Senders /\ \A w \in Workers : w \in Senders
  BY DEF Senders
<1>1. ASSUME Type
      PROVE  TypeOK'
  <2>1. PICK l \in Lines, eol \in Eols : line' = l \o eol /\ wire' = wire \o line'
    BY <1>1 DEF Type
  <2>2. line' \in Seq(Bytes)
    BY <2>1, TextBytes, ConcatProperties
  <2>3. wire' \in Seq(Bytes)
    BY <2>1, <2>2, ConcatProperties DEF TypeOK
  <2>4. answered' \in Seq(Bytes)
    <3>1. /\ answered \in Seq(Bytes) /\ Len(answered) \in Nat /\ Len(screen) \in Nat
          /\ Len(answered) <= Len(answered)
      BY DEF TypeOK
    <3>2. SubSeq(answered, Len(screen) + 1, Len(answered)) \in Seq(Bytes)
      BY <3>1, PartIs
    <3> QED
      BY <1>1, <3>2 DEF Type
  <2>5. lines' \in 0..MaxLines
    BY <1>1, BoundsAssumption DEF Type, TypeOK
  <2>6. screen' \in Seq(Bytes) /\ mayType' \in BOOLEAN
    <3>1. screen' = <<>> /\ mayType' = FALSE
      BY <1>1 DEF Type
    <3>2. <<>> \in Seq(Bytes) /\ FALSE \in BOOLEAN
      OBVIOUS
    <3> QED
      BY <3>1, <3>2
  <2>7. UNCHANGED <<recv, queued, busy, paused, send, terminate, sb, pc, text, notices, log>>
    BY <1>1 DEF Type
  <2> QED
    BY <2>2, <2>3, <2>4, <2>5, <2>6, <2>7 DEF TypeOK
<1>2. ASSUME Read
      PROVE  TypeOK'
  <2> DEFINE room == Room(Allocated(recv))
             got(r) == AfterRead(Allocated(recv), SubSeq(wire, 1, r))
  <2>1. PICK r \in 0..AtMost(room, Len(wire)) :
          /\ IF EndsLine(got(r))
             THEN recv' = Terminated(got(r)) /\ Goto(Loop, "queue")
             ELSE recv' = got(r) /\ UNCHANGED pc
          /\ wire' = SubSeq(wire, r + 1, Len(wire))
    BY <1>2 DEF Read
  <2>2. IsBuffer(got(r)) /\ SubSeq(wire, r + 1, Len(wire)) \in Seq(Bytes)
    BY <2>1, ReadIs
  <2> HIDE DEF got, room
  <2>3. IsBuffer(recv')
    <3>1. CASE EndsLine(got(r))
      <4>1. got(r).idx > 0
        BY <3>1 DEF EndsLine
      <4> QED
        BY <2>1, <2>2, <3>1, <4>1, TerminatedIs
    <3>2. CASE ~EndsLine(got(r))
      BY <2>1, <2>2, <3>2
    <3> QED
      BY <3>1, <3>2
  <2>4. pc' \in [Senders -> WorkerPcs \union LoopPcs]
    <3>1. pc' = pc \/ Goto(Loop, "queue")
      BY <2>1
    <3>2. "queue" \in WorkerPcs \union LoopPcs
      BY DEF LoopPcs
    <3>3. pc \in [Senders -> WorkerPcs \union LoopPcs]
      BY DEF TypeOK
    <3> QED
      BY <1>s, <3>1, <3>2, <3>3, Moved
  <2>5. UNCHANGED <<lines, line, mayType, queued, busy, paused, screen, send, terminate, sb,
                    answered, text, notices, log>>
    BY <1>2 DEF Read
  <2>6. wire' \in Seq(Bytes)
    BY <2>1, <2>2
  <2> QED
    BY <2>3, <2>4, <2>5, <2>6 DEF TypeOK
<1>3. ASSUME Queue
      PROVE  TypeOK'
  <2>1. pc' \in [Senders -> WorkerPcs \union LoopPcs]
    BY <1>3, <1>s, Moved DEF Queue, LoopPcs
  <2> QED
    BY <1>3, <2>1 DEF Queue, TypeOK
<1>4. ASSUME ResetByLoop
      PROVE  TypeOK'
  <2>1. pc' \in [Senders -> WorkerPcs \union LoopPcs]
    BY <1>4, <1>s, Moved DEF ResetByLoop, LoopPcs
  <2>2. IsBuffer(recv')
    BY <1>4, ResetIs DEF ResetByLoop, TypeOK
  <2> QED
    BY <1>4, <2>1, <2>2 DEF ResetByLoop, TypeOK
<1>5. ASSUME LoopSends
      PROVE  TypeOK'
  <2>1. CASE Say(Loop, "flushes", "poll")
    BY <2>1, <1>s, SayTypes DEF LoopPcs
  <2>2. CASE Flush(Loop, "poll")
    BY <2>2, <1>s, FlushTypes DEF LoopPcs
  <2> QED
    BY <1>5, <2>1, <2>2 DEF LoopSends
<1>6. ASSUME NEW stop \in BOOLEAN, Notify(stop), notices' \in 0..MaxNotices
      PROVE  TypeOK'
  <2>1. pc' \in [Senders -> WorkerPcs \union LoopPcs]
    BY <1>6, <1>s, Moved DEF Notify, LoopPcs
  <2>2. Notice \in Seq(Chars)
    <3>1. Notice \in Seq(Chars \ {PromptChar}) /\ Chars \ {PromptChar} \subseteq Chars
      BY TextsAssumption
    <3> QED
      BY <3>1, SeqMonotonic
  <2>3. text' \in [Senders -> Seq(Chars)]
    BY <1>6, <2>2 DEF Notify, TypeOK
  <2>4. UNCHANGED <<lines, line, mayType, wire, recv, queued, busy, screen, send, terminate, sb,
                    answered, log>>
    BY <1>6 DEF Notify
  <2>5. paused' \in BOOLEAN
    BY <1>6 DEF Notify
  <2> QED
    BY <1>6, <2>1, <2>3, <2>4, <2>5 DEF TypeOK
<1>7. ASSUME Wall \/ Pause \/ Resume
      PROVE  TypeOK'
  <2>1. notices' \in 0..MaxNotices
    <3>1. notices' = notices \/ (notices < MaxNotices /\ notices' = notices + 1)
      BY <1>7 DEF Wall, Pause, Resume
    <3>2. notices \in 0..MaxNotices
      BY DEF TypeOK
    <3> QED
      BY <3>1, <3>2, BoundsAssumption
  <2>2. Notify(paused) \/ Notify(TRUE) \/ Notify(FALSE)
    BY <1>7 DEF Wall, Pause, Resume
  <2>3. paused \in BOOLEAN
    BY DEF TypeOK
  <2> QED
    BY <1>6, <2>1, <2>2, <2>3
<1>8. ASSUME NEW w \in Workers, WorkerStep(w)
      PROVE  TypeOK'
  <2>1. CASE Take(w)
    <3>1. pc' \in [Senders -> WorkerPcs \union LoopPcs]
      <4>1. pc' = pc \/ Goto(w, "run")
        BY <2>1 DEF Take
      <4> QED
        BY <1>s, <4>1, Moved DEF WorkerPcs, TypeOK
    <3>2. queued' \in BOOLEAN /\ busy' \in BOOLEAN
      BY <2>1 DEF Take, TypeOK
    <3>3. log' \subseteq {"too_fast", "no_room", "write_failed", "crossed"}
      BY <2>1 DEF Take, TypeOK
    <3>4. UNCHANGED <<lines, line, mayType, wire, recv, paused, screen, send, terminate, sb,
                      answered, text, notices>>
      BY <2>1 DEF Take
    <3> QED
      BY <3>1, <3>2, <3>3, <3>4 DEF TypeOK
  <2>2. CASE Run(w)
    <3>1. PICK o \in (IF Text(recv) = <<>> THEN {<<>>} ELSE Outputs) :
            text' = [text EXCEPT ![w] = o] /\ Goto(w, IF o = <<>> THEN "reset" ELSE "says")
      BY <2>2 DEF Run
    <3>2. o \in Seq(Chars)
      <4>1. \A t \in Outputs : t \in Seq(Chars \ {PromptChar})
        BY TextsAssumption
      <4>2. \A t \in Outputs : t \in Seq(Chars)
        BY <4>1, SeqMonotonic
      <4>3. <<>> \in Seq(Chars)
        OBVIOUS
      <4> QED
        BY <4>2, <4>3
    <3>3. text' \in [Senders -> Seq(Chars)]
      BY <3>1, <3>2 DEF TypeOK
    <3>4. Goto(w, "reset") \/ Goto(w, "says")
      BY <3>1
    <3>5. pc' \in [Senders -> WorkerPcs \union LoopPcs]
      BY <1>s, <3>4, Moved DEF WorkerPcs
    <3>6. UNCHANGED <<lines, line, mayType, wire, recv, queued, busy, paused, screen, send,
                      terminate, sb, answered, notices, log>>
      BY <2>2 DEF Run
    <3> QED
      BY <3>3, <3>5, <3>6 DEF TypeOK
  <2>3. CASE WorkerPrints(w)
    <3>1. Say(w, "flushes", "reset") \/ Say(w, "flushes_prompt", "clear")
      BY <2>3 DEF WorkerPrints
    <3> QED
      BY <1>s, <3>1, SayTypes DEF WorkerPcs
  <2>4. CASE WorkerFlushes(w)
    <3>1. Flush(w, "reset") \/ Flush(w, "clear")
      BY <2>4 DEF WorkerFlushes
    <3> QED
      BY <1>s, <3>1, FlushTypes DEF WorkerPcs
  <2>5. CASE ResetByWorker(w)
    <3>1. pc' \in [Senders -> WorkerPcs \union LoopPcs]
      BY <2>5, <1>s, Moved DEF ResetByWorker, WorkerPcs
    <3>2. IsBuffer(recv')
      BY <2>5, ResetIs DEF ResetByWorker, TypeOK
    <3>3. text' \in [Senders -> Seq(Chars)]
      BY <2>5, TextBytes DEF ResetByWorker, TypeOK
    <3>4. UNCHANGED <<lines, line, mayType, wire, queued, busy, paused, screen, send, terminate,
                      sb, answered, notices, log>>
      BY <2>5 DEF ResetByWorker
    <3> QED
      BY <3>1, <3>2, <3>3, <3>4 DEF TypeOK
  <2>6. CASE Clear(w)
    <3>1. pc' \in [Senders -> WorkerPcs \union LoopPcs]
      BY <2>6, <1>s, Moved DEF Clear, WorkerPcs
    <3> QED
      BY <2>6, <3>1 DEF Clear, TypeOK
  <2> QED
    BY <1>8, <2>1, <2>2, <2>3, <2>4, <2>5, <2>6 DEF WorkerStep
<1>9. CASE UNCHANGED vars
  BY <1>9 DEF vars, TypeOK
<1> QED
  BY <1>1, <1>2, <1>3, <1>4, <1>5, <1>7, <1>8, <1>9 DEF Next, LoopReads

-----------------------------------------------------------------------------
(***************************************************************************)
(* The invariant.  Where the threads are, and what they have in hand:      *)
(***************************************************************************)
PlacesOK ==
  /\ pc[Loop] \in LoopPcs
  /\ \A w \in Workers : pc[w] \in WorkerPcs
  /\ \A s \in Senders : /\ pc[s] = "says" => text[s] \in (Outputs \union {Notice}) \ {<<>>}
                        /\ pc[s] = "prompts" => text[s] = Prompt

Sending(s) == pc[s] \in {"flushes", "flushes_prompt"}

(* what a sender has still to write, *)
Rest(s) == SubSeq(send.buf, sb[s] + 1, send.idx)

(* one sender at a time: what it has not written is what the client has    *)
(* not seen; a prompt is in the buffer alone; *)
OneSends == \A s, o \in Senders : Sending(s) /\ Sending(o) => s = o

SendingOK ==
  \A s \in Senders : Sending(s) =>
    /\ ~terminate
    /\ sb[s] < send.idx \/ (sb[s] = 0 /\ send.idx = 0 /\ "no_room" \in log)
    /\ answered = screen \o Rest(s)
    /\ pc[s] = "flushes" => \A i \in 1..send.idx : send.buf[i] # PromptChar
    /\ pc[s] = "flushes_prompt" => send.idx <= 1

AtRest ==
  (\A s \in Senders : ~Sending(s)) /\ ~terminate => send.idx = 0 /\ screen = answered

Seen == Len(screen) <= Len(answered) /\ screen = SubSeq(answered, 1, Len(screen))
Reasons == terminate => log \intersect {"write_failed", "no_room"} # {}
SendInv == OneSends /\ SendingOK /\ AtRest /\ Seen /\ Reasons

(* whose turn it is: the client's, a line's on its way to a worker, or one *)
(* worker's, which has the line in recv;                                   *)
Active(w) == pc[w] \in {"run", "says", "flushes", "reset", "prompts", "flushes_prompt"}
OnWay == wire # <<>> \/ pc[Loop] = "queue"

Turn ==
  /\ mayType => ~queued
  /\ mayType \/ queued => ~OnWay /\ \A w \in Workers : ~Active(w)
  /\ \A w \in Workers : Active(w) => ~OnWay /\ \A o \in Workers : Active(o) => o = w

(* and where the line is: in recv and on the wire, then in recv alone.     *)
Received == IF pc[Loop] = "reset" THEN <<>> ELSE SubSeq(recv.buf, 1, recv.idx)
Typed == \E l \in Lines, eol \in Eols : line = l \o eol
Ready == queued \/ pc[Loop] = "queue" \/ \E w \in Workers : pc[w] = "run"

LineOK ==
  /\ wire # <<>> => line = Received \o wire /\ Typed
  /\ wire = <<>> /\ pc[Loop] \notin {"reset", "queue"} => recv.idx = 0
  /\ pc[Loop] = "queue" => wire = <<>>
  /\ Ready => Text(recv) \in Lines /\ \E eol \in Eols : line = Text(recv) \o eol

Inv == TypeOK /\ PlacesOK /\ ("crossed" \notin log => SendInv /\ Turn /\ LineOK)

-----------------------------------------------------------------------------
(* Threads keep to their own places.                                       *)
LEMMA PlacesStep == TypeOK /\ PlacesOK /\ [Next]_vars => PlacesOK'
<1> SUFFICES ASSUME TypeOK, PlacesOK, [Next]_vars
             PROVE  PlacesOK'
  OBVIOUS
<1> USE DEF clientVars, recvVars, sendVars
<1>s. /\ Loop \in Senders /\ \A w \in Workers : w \in Senders /\ w # Loop
      /\ \A s \in Senders : s = Loop \/ s \in Workers
  BY SendersAssumption DEF Senders
<1>1. ASSUME pc' = pc, text' = text
      PROVE  PlacesOK'
  BY <1>1 DEF PlacesOK
(* A thread moves, and its text is as its new place needs it.              *)
<1>2. ASSUME NEW s \in Senders, NEW label, Goto(s, label),
             s = Loop => label \in LoopPcs, s # Loop => label \in WorkerPcs,
             label = "says" => text'[s] \in (Outputs \union {Notice}) \ {<<>>},
             label = "prompts" => text'[s] = Prompt,
             \A o \in Senders : o # s => text'[o] = text[o]
      PROVE  PlacesOK'
  <2>1. pc'[s] = label /\ \A o \in Senders : o # s => pc'[o] = pc[o]
    BY <1>2, Moved
  <2>2. pc'[Loop] \in LoopPcs
    BY <1>2, <1>s, <2>1 DEF PlacesOK
  <2>3. ASSUME NEW w \in Workers
        PROVE  pc'[w] \in WorkerPcs
    BY <1>2, <1>s, <2>1 DEF PlacesOK
  <2>4. ASSUME NEW o \in Senders
        PROVE  /\ pc'[o] = "says" => text'[o] \in (Outputs \union {Notice}) \ {<<>>}
               /\ pc'[o] = "prompts" => text'[o] = Prompt
    BY <1>2, <2>1 DEF PlacesOK
  <2> QED
    BY <2>2, <2>3, <2>4 DEF PlacesOK
<1>3. ASSUME NEW s \in Senders, NEW flushing, NEW done, Say(s, flushing, done),
             s = Loop => flushing \in LoopPcs /\ done \in LoopPcs,
             s # Loop => flushing \in WorkerPcs /\ done \in WorkerPcs,
             flushing \notin {"says", "prompts"}, done \notin {"says", "prompts"}
      PROVE  PlacesOK'
  <2>1. Goto(s, flushing) \/ Goto(s, done)
    BY <1>3 DEF Say
  <2>2. \A o \in Senders : o # s => text'[o] = text[o]
    BY <1>3 DEF Say, TypeOK
  <2> QED
    BY <1>2, <1>3, <2>1, <2>2
<1>4. ASSUME NEW s \in Senders, NEW done, Flush(s, done),
             s = Loop => done \in LoopPcs, s # Loop => done \in WorkerPcs,
             done \notin {"says", "prompts"}
      PROVE  PlacesOK'
  <2>1. text' = text /\ (pc' = pc \/ Goto(s, done))
    BY <1>4, FlushCases DEF GiveUp, Writes
  <2> QED
    BY <1>1, <1>2, <1>4, <2>1
<1>5. CASE Type
  BY <1>1, <1>5 DEF Type
<1>6. CASE Read
  <2>1. text' = text /\ (pc' = pc \/ Goto(Loop, "queue"))
    BY <1>6 DEF Read
  <2>2. "queue" \in LoopPcs
    BY DEF LoopPcs
  <2> QED
    BY <1>1, <1>2, <1>s, <2>1, <2>2
<1>7. CASE Queue \/ ResetByLoop
  <2>1. text' = text /\ (Goto(Loop, "reset") \/ Goto(Loop, "poll"))
    BY <1>7 DEF Queue, ResetByLoop
  <2>2. "reset" \in LoopPcs /\ "poll" \in LoopPcs
    BY DEF LoopPcs
  <2> QED
    BY <1>2, <1>s, <2>1, <2>2
<1>8. CASE LoopSends
  <2>1. Say(Loop, "flushes", "poll") \/ Flush(Loop, "poll")
    BY <1>8 DEF LoopSends
  <2>2. "flushes" \in LoopPcs /\ "poll" \in LoopPcs
    BY DEF LoopPcs
  <2> QED
    BY <1>3, <1>4, <1>s, <2>1, <2>2
<1>9. CASE Wall \/ Pause \/ Resume
  <2>1. Goto(Loop, "says") /\ text' = [text EXCEPT ![Loop] = Notice]
    BY <1>9 DEF Wall, Pause, Resume, Notify
  <2>2. text'[Loop] = Notice /\ \A o \in Senders : o # Loop => text'[o] = text[o]
    BY <1>s, <2>1 DEF TypeOK
  <2>3. "says" \in LoopPcs /\ Notice \in (Outputs \union {Notice}) \ {<<>>}
    BY TextsAssumption DEF LoopPcs
  <2> QED
    BY <1>2, <1>s, <2>1, <2>2, <2>3
<1>10. ASSUME NEW w \in Workers, WorkerStep(w)
       PROVE  PlacesOK'
  <2> USE DEF WorkerPcs
  <2>1. CASE Take(w)
    <3>1. text' = text /\ (pc' = pc \/ Goto(w, "run"))
      BY <2>1 DEF Take
    <3> QED
      BY <1>1, <1>2, <1>s, <3>1
  <2>2. CASE Run(w)
    <3>1. PICK o \in (IF Text(recv) = <<>> THEN {<<>>} ELSE Outputs) :
            text' = [text EXCEPT ![w] = o] /\ Goto(w, IF o = <<>> THEN "reset" ELSE "says")
      BY <2>2 DEF Run
    <3>2. text'[w] = o /\ \A x \in Senders : x # w => text'[x] = text[x]
      BY <1>s, <3>1 DEF TypeOK
    <3>3. CASE o = <<>>
      BY <1>2, <1>s, <3>1, <3>2, <3>3
    <3>4. CASE o # <<>>
      <4>1. o \in (Outputs \union {Notice}) \ {<<>>} /\ Goto(w, "says")
        BY <3>1, <3>4
      <4> QED
        BY <1>2, <1>s, <3>2, <4>1
    <3> QED
      BY <3>3, <3>4
  <2>3. CASE WorkerPrints(w)
    <3>1. Say(w, "flushes", "reset") \/ Say(w, "flushes_prompt", "clear")
      BY <2>3 DEF WorkerPrints
    <3> QED
      BY <1>3, <1>s, <3>1
  <2>4. CASE WorkerFlushes(w)
    <3>1. Flush(w, "reset") \/ Flush(w, "clear")
      BY <2>4 DEF WorkerFlushes
    <3> QED
      BY <1>4, <1>s, <3>1
  <2>5. CASE ResetByWorker(w)
    <3>1. Goto(w, "prompts") /\ text' = [text EXCEPT ![w] = Prompt]
      BY <2>5 DEF ResetByWorker
    <3>2. text'[w] = Prompt /\ \A x \in Senders : x # w => text'[x] = text[x]
      BY <1>s, <3>1 DEF TypeOK
    <3> QED
      BY <1>2, <1>s, <3>1, <3>2
  <2>6. CASE Clear(w)
    <3>1. Goto(w, "idle") /\ text' = text
      BY <2>6 DEF Clear
    <3> QED
      BY <1>2, <1>s, <3>1
  <2> QED
    BY <1>10, <2>1, <2>2, <2>3, <2>4, <2>5, <2>6 DEF WorkerStep
<1>11. CASE UNCHANGED vars
  BY <1>1, <1>11 DEF vars
<1> QED
  BY <1>5, <1>6, <1>7, <1>8, <1>9, <1>10, <1>11 DEF Next, LoopReads

-----------------------------------------------------------------------------
(* What was seen of what was sent is a prefix of it.                       *)
LEMMA SeenFrom ==
  ASSUME NEW s \in Seq(Bytes), NEW t \in Seq(Bytes), NEW r \in Seq(Bytes), t = s \o r
  PROVE  Len(s) <= Len(t) /\ s = SubSeq(t, 1, Len(s))
<1> DEFINE n == Len(s)
<1>1. n \in Nat /\ Len(r) \in Nat /\ Len(t) = n + Len(r)
  BY ConcatProperties
<1>2. \A i \in 1..n : t[i] = s[i]
  BY <1>1, ConcatProperties
<1> HIDE DEF n
<1>3. n <= Len(t)
  BY <1>1
<1>4. SubSeq(t, 1, n) \in Seq(Bytes) /\ Len(SubSeq(t, 1, n)) = n /\ \A i \in 1..n : SubSeq(t, 1, n)[i] = t[i]
  BY <1>1, <1>3, PrefixIs
<1> DEFINE p == SubSeq(t, 1, n)
<1> HIDE DEF p
<1>5. Len(s) = Len(p) /\ \A i \in 1..Len(s) : s[i] = p[i]
  BY <1>2, <1>4 DEF n, p
<1>6. s = p
  BY <1>4, <1>5, SeqEqual DEF p
<1> QED
  BY <1>3, <1>6 DEF n, p

(* Steps that do not send.                                                 *)
LEMMA SendKept ==
  ASSUME SendInv, send' = send, sb' = sb, screen' = screen, answered' = answered,
         terminate' = terminate, log \subseteq log',
         \A s \in Senders : \/ pc'[s] = pc[s]
                            \/ ~Sending(s) /\ pc'[s] \notin {"flushes", "flushes_prompt"}
  PROVE  SendInv'
<1>1. \A s \in Senders : /\ Sending(s)' <=> Sending(s)
                         /\ Sending(s) => pc'[s] = pc[s]
  BY DEF Sending
<1>2. OneSends'
  BY <1>1 DEF SendInv, OneSends
<1>3. SendingOK'
  BY <1>1 DEF SendInv, SendingOK, Rest
<1>4. AtRest'
  BY <1>1 DEF SendInv, AtRest
<1>5. Seen'
  BY DEF SendInv, Seen
<1>6. Reasons'
  BY DEF SendInv, Reasons
<1> QED
  BY <1>2, <1>3, <1>4, <1>5, <1>6 DEF SendInv

(* When nobody sends, the connection is over or nothing is left to write.  *)
LEMMA SendEnds ==
  ASSUME TypeOK', OneSends, \A s \in Senders : Sending(s)' => FALSE,
         Seen', Reasons', terminate' \/ (send.idx = 0 /\ screen = answered)'
  PROVE  SendInv'
BY DEF SendInv, OneSends, SendingOK, AtRest

(* conn_send() fills the buffer of a connection that nobody sends to.      *)
LEMMA SayStep ==
  ASSUME TypeOK, TypeOK', PlacesOK, SendInv, NEW s \in Senders, NEW done, NEW flushing,
         \/ pc[s] = "says" /\ flushing = "flushes"
         \/ pc[s] = "prompts" /\ flushing = "flushes_prompt",
         done \notin {"flushes", "flushes_prompt"},
         Say(s, flushing, done), "crossed" \notin log'
  PROVE  SendInv'
<1>0. ~Sending(s)
  BY DEF Sending
<1>1. CASE terminate
  <2>1. /\ Goto(s, done) /\ UNCHANGED <<send, sb, answered, log>>
        /\ screen' = screen /\ terminate' = terminate
    BY <1>1 DEF Say
  <2>2. \A o \in Senders : \/ pc'[o] = pc[o]
                           \/ ~Sending(o) /\ pc'[o] \notin {"flushes", "flushes_prompt"}
    BY <1>0, <2>1, Moved
  <2> QED
    BY <2>1, <2>2, SendKept
<1>2. CASE ~terminate
  <2> DEFINE t == text[s]
             fits == CanPrint(send, t)
  <2>1. /\ send' = Printed(send, t) /\ sb' = [sb EXCEPT ![s] = 0]
        /\ answered' = IF fits THEN answered \o t ELSE answered
        /\ log' = log \union (IF fits THEN {} ELSE {"no_room"})
                      \union (IF \E o \in Senders \ {s} : pc[o] \in {"flushes", "flushes_prompt"}
                              THEN {"crossed"} ELSE {})
        /\ Goto(s, flushing) /\ screen' = screen /\ terminate' = terminate
    BY <1>2 DEF Say
  <2>2. \A o \in Senders : ~Sending(o)
    <3>1. \A o \in Senders \ {s} : ~Sending(o)
      BY <2>1 DEF Sending
    <3> QED
      BY <1>0, <3>1
  <2>3. send.idx = 0 /\ screen = answered
    BY <1>2, <2>2 DEF SendInv, AtRest
  <2>4. pc'[s] = flushing /\ \A o \in Senders : o # s => pc'[o] = pc[o]
    BY <2>1, Moved
  <2>5. \A o \in Senders : Sending(o)' <=> o = s
    BY <2>2, <2>4 DEF Sending
  <2>6. t \in Seq(Chars) /\ t \in Seq(Bytes) /\ Len(t) \in Nat /\ t # <<>> /\ sb'[s] = 0
        /\ screen \in Seq(Bytes) /\ IsBuffer(send)
    <3>1. t # <<>>
      BY DEF PlacesOK, Prompt
    <3>2. t \in Seq(Chars)
      BY DEF TypeOK
    <3>3. sb'[s] = 0
      BY <2>1 DEF TypeOK
    <3> QED
      BY <3>1, <3>2, <3>3, TextBytes DEF TypeOK
  <2>7. flushing = "flushes" => \A i \in 1..Len(t) : t[i] # PromptChar
    <3> SUFFICES ASSUME flushing = "flushes"
                 PROVE  \A i \in 1..Len(t) : t[i] # PromptChar
      OBVIOUS
    <3>1. t \in (Outputs \union {Notice})
      BY DEF PlacesOK
    <3>2. t \in Seq(Chars \ {PromptChar})
      BY <3>1, TextsAssumption
    <3> HIDE DEF t
    <3>3. \A i \in 1..Len(t) : t[i] \in Chars \ {PromptChar}
      BY <3>2, ElementOfSeq
    <3> QED
      BY <3>3
  <2>8. flushing = "flushes_prompt" => Len(t) = 1
    <3>1. flushing = "flushes_prompt" => t = <<PromptChar>>
      BY DEF PlacesOK, Prompt
    <3> QED
      BY <3>1
  <2>9. /\ IsBuffer(send') /\ send'.buf \in Seq(Bytes)
        /\ ~fits => send'.idx = 0
        /\ fits => send'.idx = Len(t) /\ \A i \in 1..Len(t) : send'.buf[i] = t[i]
    <3> DEFINE c == Printed(send, t)
    <3>1. /\ IsBuffer(c)
          /\ ~fits => c.idx = send.idx
          /\ fits => /\ c.idx = send.idx + Len(t)
                     /\ \A i \in 1..Len(t) : c.buf[send.idx + i] = t[i]
      BY <2>6, PrintedIs
    <3>2. send' = c
      BY <2>1
    <3> HIDE DEF c, fits, t
    <3>3. IsBuffer(send') /\ send'.buf \in Seq(Bytes)
      BY <3>1, <3>2, BufferFields
    <3>4. ~fits => send'.idx = 0
      BY <2>3, <3>1, <3>2
    <3>5. fits => send'.idx = Len(t)
      BY <2>3, <2>6, <3>1, <3>2
    <3>6. ASSUME fits, NEW i \in 1..Len(t)
          PROVE  send'.buf[i] = t[i]
      <4>1. send.idx + i = i
        BY <2>3
      <4> QED
        BY <3>1, <3>2, <3>6, <4>1
    <3> QED
      BY <3>3, <3>4, <3>5, <3>6
  <2>10. Rest(s)' = IF fits THEN t ELSE <<>>
    <3> DEFINE buf == send'.buf
               idx == send'.idx
    <3>1. Rest(s)' = SubSeq(buf, 0 + 1, idx)
      BY <2>6 DEF Rest
    <3> HIDE DEF t, fits, buf, idx
    <3>2. CASE fits
      <4>1. /\ SubSeq(buf, 1, Len(t)) \in Seq(Bytes) /\ Len(SubSeq(buf, 1, Len(t))) = Len(t)
            /\ \A i \in 1..Len(t) : SubSeq(buf, 1, Len(t))[i] = buf[i]
        <5>1. Len(t) <= Len(buf)
          BY <2>9, <3>2, BufferFields DEF buf
        <5> QED
          BY <2>6, <2>9, <5>1, PrefixIs DEF buf
      <4>2. SubSeq(buf, 1, Len(t)) = t
        BY <2>6, <2>9, <3>2, <4>1, SeqEqual DEF buf
      <4> QED
        BY <2>9, <3>1, <3>2, <4>2 DEF idx
    <3>3. CASE ~fits
      <4>1. SubSeq(buf, 1, 0) = <<>>
        BY SubSeqEmpty
      <4> QED
        BY <2>9, <3>1, <3>3, <4>1 DEF idx
    <3> QED
      BY <3>2, <3>3
  <2> HIDE DEF t, fits
  <2>11. answered' = screen' \o Rest(s)'
    <3>1. screen \o <<>> = screen
      BY <2>6, ConcatEmptySeq
    <3> QED
      BY <2>1, <2>3, <2>10, <3>1
  <2>12. OneSends'
    BY <2>5 DEF OneSends
  <2>13. SendingOK'
    <3>1. ~terminate'
      BY <1>2, <2>1
    <3>2. sb'[s] < send'.idx \/ (sb'[s] = 0 /\ send'.idx = 0 /\ "no_room" \in log')
      <4>1. CASE fits
        <5>1. Len(t) > 0
          BY <2>6, EmptySeq
        <5> QED
          BY <2>6, <2>9, <4>1, <5>1
      <4>2. CASE ~fits
        BY <2>1, <2>6, <2>9, <4>2
      <4> QED
        BY <4>1, <4>2
    <3>3. pc'[s] = "flushes" => \A i \in 1..send'.idx : send'.buf[i] # PromptChar
      <4> SUFFICES ASSUME flushing = "flushes", NEW i \in 1..send'.idx
                   PROVE  send'.buf[i] # PromptChar
        BY <2>4
      <4>1. fits /\ i \in 1..Len(t)
        BY <2>9
      <4> QED
        BY <2>7, <2>9, <4>1
    <3>4. pc'[s] = "flushes_prompt" => send'.idx <= 1
      BY <2>4, <2>8, <2>9
    <3>5. \A o \in Senders : Sending(o)' => o = s
      BY <2>5
    <3> QED
      BY <2>11, <3>1, <3>2, <3>3, <3>4, <3>5 DEF SendingOK
  <2>14. AtRest'
    BY <2>5 DEF AtRest
  <2>15. Seen'
    <3>1. Rest(s)' \in Seq(Bytes) /\ screen' \in Seq(Bytes) /\ answered' \in Seq(Bytes)
      BY <2>6, <2>10 DEF TypeOK
    <3> QED
      BY <2>11, <3>1, SeenFrom DEF Seen
  <2>16. Reasons'
    BY <1>2, <2>1 DEF Reasons
  <2> QED
    BY <2>12, <2>13, <2>14, <2>15, <2>16 DEF SendInv
<1> QED
  BY <1>1, <1>2

(* A call of write() takes some of what the only sender has left, or ends  *)
(* the connection.                                                         *)
LEMMA FlushStep ==
  ASSUME TypeOK, TypeOK', SendInv, NEW s \in Senders, NEW done,
         Sending(s), done \notin {"flushes", "flushes_prompt"}, Flush(s, done)
  PROVE  SendInv'
<1>1. /\ ~terminate /\ answered = screen \o Rest(s)
      /\ sb[s] < send.idx \/ (sb[s] = 0 /\ send.idx = 0 /\ "no_room" \in log)
      /\ pc[s] = "flushes" => \A i \in 1..send.idx : send.buf[i] # PromptChar
      /\ pc[s] = "flushes_prompt" => send.idx <= 1
  BY DEF SendInv, SendingOK
<1>2. \A o \in Senders : o # s => ~Sending(o)
  BY DEF SendInv, OneSends
<1>3. answered' = answered
  BY FlushCases
<1>4. /\ send.buf \in Seq(Bytes) /\ send.idx \in Nat /\ sb[s] \in Nat /\ MaxSize \in Nat
      /\ send.idx <= Len(send.buf) /\ Len(send.buf) \in Nat /\ IsBuffer(send)
      /\ screen \in Seq(Bytes) /\ answered \in Seq(Bytes)
  BY SendTypes
(* The sender is done.                                                     *)
<1>5. ASSUME Goto(s, done), Seen', Reasons',
             terminate' \/ (send.idx = 0 /\ screen = answered)'
      PROVE  SendInv'
  <2>1. \A o \in Senders : ~Sending(o)'
    BY <1>2, <1>5, Moved DEF Sending
  <2> QED
    BY <1>5, <2>1, SendEnds DEF SendInv
<1>6. CASE /\ GiveUp(s, done)
           /\ \/ "no_room" \in log /\ log' = log
              \/ log' = log \union {"write_failed"}
  <2>1. Goto(s, done) /\ terminate' /\ screen' = screen
    BY <1>6 DEF GiveUp
  <2>2. Seen'
    BY <1>3, <2>1 DEF SendInv, Seen
  <2>3. Reasons'
    BY <1>6 DEF Reasons
  <2> QED
    BY <1>5, <2>1, <2>2, <2>3
<1>7. ASSUME NEW r \in 1..(send.idx - sb[s]), Writes(s, done, r)
      PROVE  SendInv'
  <2> DEFINE buf == send.buf
             idx == send.idx
             m == sb[s]
             n == m + r
             bytes == SubSeq(buf, m + 1, n)
             left == SubSeq(buf, n + 1, idx)
  <2>1. /\ m < idx /\ screen' = screen \o bytes
        /\ terminate' = terminate /\ log' = log
    BY <1>7 DEF Writes
  <2>2. n \in Nat /\ n <= idx /\ bytes \in Seq(Bytes) /\ Len(bytes) = r /\ idx <= Len(buf)
    <3>1. n \in 0..MaxSize /\ n <= idx /\ bytes \in Seq(Bytes) /\ Len(bytes) = r
      BY <2>1, Written
    <3> QED
      BY <1>4, <3>1
  <2>3. Rest(s) = bytes \o left /\ left \in Seq(Bytes)
    <3> HIDE DEF buf, idx, m
    <3>1. buf \in Seq(Bytes) /\ idx \in Nat /\ m \in Nat /\ idx <= Len(buf) /\ Len(buf) \in Nat /\ m < n
      BY <1>4, <1>7 DEF buf, idx, m
    <3> HIDE DEF n
    <3>2. m + 1 \in 1..Len(buf) + 1 /\ n \in (m + 1) - 1..Len(buf) /\ idx \in n..Len(buf)
      BY <2>2, <3>1
    <3>3. SubSeq(buf, m + 1, n) \o SubSeq(buf, n + 1, idx) = SubSeq(buf, m + 1, idx)
      BY <3>1, <3>2, ConcatAdjacentSubSeq
    <3>4. left \in Seq(Bytes)
      BY <2>2, <3>1, PartIs
    <3> QED
      BY <3>3, <3>4 DEF Rest, buf, idx, m
  <2> HIDE DEF bytes, left
  <2>4. answered = screen' \o left /\ screen' \in Seq(Bytes)
    <3>1. bytes \in Seq(Bytes) /\ left \in Seq(Bytes) /\ screen' = screen \o bytes
      BY <2>1, <2>2, <2>3
    <3>2. /\ (screen \o bytes) \o left = screen \o (bytes \o left)
          /\ screen \o bytes \in Seq(Bytes)
      <4>1. screen \in Seq(Bytes) /\ bytes \in Seq(Bytes) /\ left \in Seq(Bytes)
        BY <1>4, <3>1
      <4>2. screen \o bytes \in Seq(Bytes)
        BY <4>1, ConcatProperties
      <4>3. (screen \o bytes) \o left = screen \o (bytes \o left)
        BY ONLY <4>1, ConcatAssociative
      <4> QED
        BY <4>2, <4>3
    <3> QED
      BY <1>1, <2>3, <3>1, <3>2
  <2>5. Seen'
    BY <1>3, <1>4, <2>3, <2>4, SeenFrom DEF Seen
  <2>6. Reasons'
    BY <2>1 DEF SendInv, Reasons
  <2>7. CASE n < idx
    <3>1. sb' = [sb EXCEPT ![s] = @ + r] /\ send' = send /\ pc' = pc
      BY <1>7, <2>7 DEF Writes
    <3>2. sb'[s] = n
      BY <3>1 DEF TypeOK
    <3>3. Rest(s)' = left
      BY <3>1, <3>2 DEF Rest, left
    <3>4. OneSends'
      BY <3>1 DEF SendInv, OneSends, Sending
    <3>5. SendingOK'
      <4>1. ~terminate' /\ sb'[s] < send'.idx /\ answered' = screen' \o Rest(s)'
        BY <1>1, <1>3, <2>1, <2>4, <2>7, <3>1, <3>2, <3>3
      <4>2. \A o \in Senders : Sending(o)' => o = s
        BY <1>2, <3>1 DEF Sending
      <4> QED
        BY <1>1, <3>1, <4>1, <4>2 DEF SendingOK
    <3>6. AtRest'
      BY <3>1 DEF AtRest, Sending
    <3> QED
      BY <2>5, <2>6, <3>4, <3>5, <3>6 DEF SendInv
  <2>8. CASE ~(n < idx)
    <3>1. send' = Reset(send) /\ Goto(s, done)
      BY <1>7, <2>8 DEF Writes
    <3>2. send'.idx = 0
      BY <1>4, <3>1, ResetIs
    <3>3. left = <<>>
      <4> HIDE DEF buf, idx, n
      <4>1. n + 1 \in Int /\ idx \in Int /\ idx < n + 1
        <5>1. idx \in Nat
          BY <1>4 DEF idx
        <5> QED
          BY <2>2, <2>8, <5>1
      <4> QED
        BY <4>1, SubSeqEmpty DEF left
    <3>4. screen' = answered'
      BY <1>3, <2>4, <3>3, ConcatEmptySeq
    <3> QED
      BY <1>5, <2>5, <2>6, <3>1, <3>2, <3>4
  <2> QED
    BY <2>7, <2>8
<1>8. ~(sb[s] > 0 /\ sb[s] >= send.idx)
  BY <1>1, <1>4
<1>9. sb[s] = 0 /\ send.idx = 0 => "no_room" \in log
  BY <1>1, <1>4
<1> QED
  BY <1>6, <1>7, <1>8, <1>9, FlushCases

(* The steps of a thread that is not sending.                              *)
LEMMA SendKeptBy ==
  ASSUME SendInv, TypeOK, NEW s \in Senders, NEW label, Goto(s, label), ~Sending(s),
         label \notin {"flushes", "flushes_prompt"}, log \subseteq log',
         send' = send, sb' = sb, screen' = screen, answered' = answered, terminate' = terminate
  PROVE  SendInv'
BY Moved, SendKept

(* The connection's output, in every step that lets nobody cross.          *)
LEMMA SendStep ==
  ASSUME TypeOK, TypeOK', PlacesOK, SendInv, [Next]_vars, "crossed" \notin log'
  PROVE  SendInv'
<1> USE DEF clientVars, recvVars, sendVars
<1>s. Loop \in Senders /\ \A w \in Workers : w \in Senders
  BY DEF Senders
<1>1. CASE Type
  <2>1. /\ screen' = <<>> /\ answered' = SubSeq(answered, Len(screen) + 1, Len(answered))
        /\ UNCHANGED <<send, sb, pc, terminate, log>>
    BY <1>1 DEF Type
  <2>2. screen \in Seq(Bytes) /\ answered \in Seq(Bytes) /\ answered' \in Seq(Bytes)
    BY DEF TypeOK
  <2>3. OneSends' /\ Reasons'
    BY <2>1 DEF SendInv, OneSends, Sending, Reasons
  <2>4. Seen'
    BY <2>1, <2>2, ConcatEmptySeq, SeenFrom DEF Seen
  <2>5. ASSUME NEW r \in Seq(Bytes), answered = screen \o r
        PROVE  answered' = screen' \o r
    <3>1. answered' = r
      <4> DEFINE n == Len(screen)
                 k == Len(answered)
                 p == SubSeq(answered, n + 1, k)
      <4>1. /\ n \in Nat /\ Len(r) \in Nat /\ k = n + Len(r)
            /\ \A i \in 1..n + Len(r) : answered[i] = IF i <= n THEN screen[i] ELSE r[i - n]
        BY <2>2, <2>5, ConcatProperties
      <4>2. /\ p \in Seq(Bytes) /\ Len(p) = IF n < k THEN k - n ELSE 0
            /\ n < k => \A i \in 1..k - n : p[i] = answered[n + i]
        BY <2>2, <4>1, PartIs
      <4> HIDE DEF n, k, p
      <4>3. Len(p) = Len(r)
        BY <4>1, <4>2
      <4>4. ASSUME NEW i \in 1..Len(p)
            PROVE  p[i] = r[i]
        <5>1. n < k /\ i \in 1..k - n /\ n + i \in 1..n + Len(r) /\ ~(n + i <= n) /\ (n + i) - n = i
          BY <4>1, <4>3
        <5>2. answered[n + i] = r[(n + i) - n]
          BY <4>1, <5>1
        <5> QED
          BY <4>2, <5>1, <5>2
      <4>5. p = r
        BY <4>2, <4>3, <4>4, SeqEqual
      <4> QED
        BY <2>1, <4>5 DEF p, n, k
    <3> QED
      BY <2>1, <3>1, ConcatEmptySeq
  <2>6. SendingOK'
    <3> SUFFICES ASSUME NEW s \in Senders, Sending(s)'
                 PROVE  /\ ~terminate'
                        /\ (sb[s] < send.idx \/ (sb[s] = 0 /\ send.idx = 0 /\ "no_room" \in log))'
                        /\ answered' = screen' \o Rest(s)'
                        /\ (pc[s] = "flushes" => \A i \in 1..send.idx : send.buf[i] # PromptChar)'
                        /\ (pc[s] = "flushes_prompt" => send.idx <= 1)'
      BY DEF SendingOK
    <3>1. Sending(s) /\ Rest(s)' = Rest(s)
      BY <2>1 DEF Sending, Rest
    <3>2. Rest(s) \in Seq(Bytes)
      BY SendTypes, PartIs DEF Rest
    <3>3. answered' = screen' \o Rest(s)'
      BY <2>5, <3>1, <3>2 DEF SendInv, SendingOK
    <3> QED
      BY <2>1, <3>1, <3>3 DEF SendInv, SendingOK
  <2>7. AtRest'
    <3> SUFFICES ASSUME \A s \in Senders : ~Sending(s)', ~terminate'
                 PROVE  send'.idx = 0 /\ screen' = answered'
      BY DEF AtRest
    <3>1. send.idx = 0 /\ screen = answered
      BY <2>1 DEF SendInv, AtRest, Sending
    <3>2. answered = screen \o <<>> /\ <<>> \in Seq(Bytes)
      BY <2>2, <3>1, ConcatEmptySeq
    <3>3. answered' = screen' \o <<>>
      BY <2>5, <3>2
    <3> QED
      BY <2>1, <3>1, <3>3, ConcatEmptySeq
  <2> QED
    BY <2>3, <2>4, <2>6, <2>7 DEF SendInv
<1>2. CASE Read
  <2>1. pc[Loop] = "poll" /\ (pc' = pc \/ Goto(Loop, "queue"))
    BY <1>2 DEF Read
  <2>2. UNCHANGED <<send, sb, screen, answered, terminate, log>>
    BY <1>2 DEF Read
  <2> QED
    BY <1>s, <2>1, <2>2, SendKept, SendKeptBy DEF Sending
<1>3. CASE Queue
  BY <1>3, <1>s, SendKeptBy DEF Queue, Sending
<1>4. CASE ResetByLoop
  BY <1>4, <1>s, SendKeptBy DEF ResetByLoop, Sending
<1>5. CASE LoopSends
  BY <1>5, <1>s, SayStep, FlushStep DEF LoopSends, Sending
<1>6. CASE Wall \/ Pause \/ Resume
  <2>1. pc[Loop] = "poll" /\ Goto(Loop, "says")
    BY <1>6 DEF Wall, Pause, Resume, Notify
  <2>2. UNCHANGED <<send, sb, screen, answered, terminate, log>>
    BY <1>6 DEF Wall, Pause, Resume, Notify
  <2> QED
    BY <1>s, <2>1, <2>2, SendKeptBy DEF Sending
<1>7. ASSUME NEW w \in Workers, WorkerStep(w)
      PROVE  SendInv'
  <2>1. CASE Take(w)
    <3>1. pc[w] = "idle" /\ (pc' = pc \/ Goto(w, "run")) /\ log \subseteq log'
      BY <2>1 DEF Take
    <3>2. UNCHANGED <<send, sb, screen, answered, terminate>>
      BY <2>1 DEF Take
    <3> QED
      BY <1>s, <3>1, <3>2, SendKept, SendKeptBy DEF Sending
  <2>2. CASE Run(w)
    <3>1. pc[w] = "run" /\ (Goto(w, "reset") \/ Goto(w, "says"))
      BY <2>2 DEF Run
    <3>2. UNCHANGED <<send, sb, screen, answered, terminate, log>>
      BY <2>2 DEF Run
    <3> QED
      BY <1>s, <3>1, <3>2, SendKeptBy DEF Sending
  <2>3. CASE WorkerPrints(w)
    BY <2>3, <1>s, SayStep DEF WorkerPrints
  <2>4. CASE WorkerFlushes(w)
    BY <2>4, <1>s, FlushStep DEF WorkerFlushes, Sending
  <2>5. CASE ResetByWorker(w)
    BY <2>5, <1>s, SendKeptBy DEF ResetByWorker, Sending
  <2>6. CASE Clear(w)
    BY <2>6, <1>s, SendKeptBy DEF Clear, Sending
  <2> QED
    BY <1>7, <2>1, <2>2, <2>3, <2>4, <2>5, <2>6 DEF WorkerStep
<1>8. CASE UNCHANGED vars
  BY <1>8, SendKept DEF vars
<1> QED
  BY <1>1, <1>2, <1>3, <1>4, <1>5, <1>6, <1>7, <1>8 DEF Next, LoopReads

-----------------------------------------------------------------------------
(* Steps that leave the turn where it is, or end it.                       *)
LEMMA TurnKept ==
  ASSUME Turn, mayType' => mayType, queued' => queued, OnWay' => OnWay,
         \A w \in Workers : Active(w)' => Active(w)
  PROVE  Turn'
BY DEF Turn

(* The same, of one thread.                                                *)
LEMMA TurnKeptBy ==
  ASSUME Turn, TypeOK, NEW s \in Senders, NEW label, Goto(s, label),
         mayType' => mayType, queued' => queued, wire' = wire, label # "queue",
         s # Loop => Active(s) \/ label \in {"idle", "clear"}
  PROVE  Turn'
<1>1. pc'[s] = label /\ \A o \in Senders : o # s => pc'[o] = pc[o]
  BY Moved
<1>2. Loop \in Senders /\ \A w \in Workers : w \in Senders /\ w # Loop
  BY SendersAssumption DEF Senders
<1>3. OnWay' => OnWay
  BY <1>1, <1>2 DEF OnWay
<1>4. ASSUME NEW w \in Workers, Active(w)'
      PROVE  Active(w)
  <2>1. CASE w = s
    <3>1. label \notin {"idle", "clear"}
      BY <1>1, <1>4, <2>1 DEF Active
    <3> QED
      BY <1>2, <2>1, <3>1
  <2>2. CASE w # s
    BY <1>1, <1>2, <1>4, <2>2 DEF Active
  <2> QED
    BY <2>1, <2>2
<1> QED
  BY <1>3, <1>4, TurnKept

(* A prompt that has been written makes it the client's turn.              *)
LEMMA TurnFlush ==
  ASSUME TypeOK, PlacesOK, SendInv, Turn, NEW s \in Senders, NEW done, Flush(s, done),
         \/ pc[s] = "flushes" /\ done \in {"reset", "poll"}
         \/ pc[s] = "flushes_prompt" /\ done = "clear"
  PROVE  Turn'
<1>s. /\ Loop \in Senders /\ \A w \in Workers : w \in Senders /\ w # Loop
      /\ \A o \in Senders : o # Loop => o \in Workers
  BY SendersAssumption DEF Senders
<1>1. wire' = wire /\ queued' = queued /\ (pc' = pc \/ Goto(s, done))
  BY FlushCases DEF recvVars, GiveUp, Writes
<1>2. CASE mayType' => mayType
  <2>1. CASE pc' = pc
    BY <1>1, <1>2, <2>1, TurnKept DEF OnWay, Active
  <2>2. CASE Goto(s, done)
    BY <1>1, <1>2, <2>2, TurnKeptBy DEF Active
  <2> QED
    BY <1>1, <2>1, <2>2
<1>3. CASE mayType' /\ ~mayType
  <2>1. PICK r \in 1..(send.idx - sb[s]) : Writes(s, done, r)
    BY <1>3, FlushCases DEF GiveUp
  <2> DEFINE m == sb[s]
             idx == send.idx
  <2>2. PICK i \in 1..r : SubSeq(send.buf, m + 1, m + r)[i] = PromptChar
    BY <1>3, <2>1 DEF Writes
  <2>3. m \in Nat /\ idx \in Nat /\ m < idx /\ m + r <= idx /\ send.buf[m + i] = PromptChar
    <3>1. m \in Nat /\ idx \in Nat /\ m < idx
      BY <2>1, SendTypes DEF Writes
    <3>2. \A k \in 1..r : SubSeq(send.buf, m + 1, m + r)[k] = send.buf[m + k]
      BY <3>1, Written
    <3>3. m + r <= idx
      BY <3>1, Written
    <3> QED
      BY <2>2, <3>1, <3>2, <3>3
  <2>4. /\ pc[s] = "flushes" => \A k \in 1..idx : send.buf[k] # PromptChar
        /\ pc[s] = "flushes_prompt" => idx <= 1
    BY DEF SendInv, SendingOK, Sending
  <2>r. r \in 1..idx - m /\ i \in 1..r
    OBVIOUS
  <2> HIDE DEF m, idx
  <2>5. m + i \in 1..idx
    BY <2>3, <2>r
  <2>6. pc[s] = "flushes_prompt" /\ idx <= 1 /\ done = "clear"
    BY <2>3, <2>4, <2>5
  <2>7. ~(m + r < idx)
    BY <2>3, <2>6, <2>r
  <2>8. Goto(s, done)
    BY <2>1, <2>7 DEF Writes, m, idx
  <2>9. s \in Workers /\ Active(s)
    BY <1>s, <2>6 DEF PlacesOK, LoopPcs, Active
  <2>10. pc'[s] = "clear" /\ \A o \in Senders : o # s => pc'[o] = pc[o]
    BY <2>6, <2>8, Moved
  <2>11. ~OnWay' /\ ~queued'
    BY <1>s, <1>1, <2>9, <2>10 DEF Turn, OnWay
  <2>12. \A w \in Workers : ~Active(w)'
    <3>1. \A w \in Workers : w # s => ~Active(w)
      BY <2>9 DEF Turn
    <3> QED
      BY <1>s, <2>10, <3>1 DEF Active
  <2> QED
    BY <2>11, <2>12 DEF Turn
<1> QED
  BY <1>2, <1>3

(* Whose turn it is, in every step that lets nobody cross.                 *)
LEMMA TurnStep ==
  ASSUME TypeOK, PlacesOK, SendInv, Turn, LineOK, [Next]_vars
  PROVE  Turn'
<1> USE DEF clientVars, recvVars, sendVars
<1>s. /\ Loop \in Senders /\ \A w \in Workers : w \in Senders /\ w # Loop
  BY SendersAssumption DEF Senders
<1>1. CASE Type
  BY <1>1 DEF Type, Turn, Active
<1>2. CASE Read
  <2>1. wire # <<>> /\ (pc' = pc \/ Goto(Loop, "queue")) /\ mayType' = mayType /\ queued' = queued
    BY <1>2 DEF Read
  <2>2. OnWay
    BY <2>1 DEF OnWay
  <2>3. \A w \in Workers : pc'[w] = pc[w]
    BY <1>s, <2>1, Moved
  <2> QED
    BY <2>1, <2>2, <2>3, TurnKept DEF Active
<1>3. CASE Queue
  <2>1. pc[Loop] = "queue" /\ queued' /\ mayType' = mayType /\ wire' = wire
    BY <1>3 DEF Queue
  <2>2. pc'[Loop] = "reset" /\ \A w \in Workers : pc'[w] = pc[w]
    BY <1>3, <1>s, Moved DEF Queue
  <2>3. ~OnWay'
    BY <2>1, <2>2 DEF OnWay, LineOK
  <2>4. ~mayType /\ \A w \in Workers : ~Active(w)
    BY <2>1 DEF OnWay, Turn
  <2> QED
    BY <2>1, <2>2, <2>3, <2>4 DEF Turn, Active
<1>4. CASE ResetByLoop
  BY <1>4, <1>s, TurnKeptBy DEF ResetByLoop
<1>5. CASE LoopSends
  <2>1. CASE pc[Loop] = "says" /\ Say(Loop, "flushes", "poll")
    <3>1. Goto(Loop, "flushes") \/ Goto(Loop, "poll")
      BY <2>1 DEF Say
    <3>2. mayType' = mayType /\ queued' = queued /\ wire' = wire
      BY <2>1 DEF Say
    <3> QED
      BY <1>s, <3>1, <3>2, TurnKeptBy
  <2>2. CASE pc[Loop] = "flushes" /\ Flush(Loop, "poll")
    BY <2>2, <1>s, TurnFlush
  <2> QED
    BY <1>5, <2>1, <2>2 DEF LoopSends
<1>6. CASE Wall \/ Pause \/ Resume
  <2>1. Goto(Loop, "says") /\ mayType' = mayType /\ queued' = queued /\ wire' = wire
    BY <1>6 DEF Wall, Pause, Resume, Notify
  <2> QED
    BY <1>s, <2>1, TurnKeptBy
<1>7. ASSUME NEW w \in Workers, WorkerStep(w)
      PROVE  Turn'
  <2>1. CASE Take(w)
    <3>1. /\ queued /\ ~queued' /\ (pc' = pc \/ Goto(w, "run"))
          /\ mayType' = mayType /\ wire' = wire
      BY <2>1 DEF Take
    <3>2. \A o \in Senders : o # w => pc'[o] = pc[o]
      BY <1>s, <3>1, Moved
    <3>3. ~OnWay' /\ ~mayType' /\ \A o \in Workers : ~Active(o)
      BY <1>s, <3>1, <3>2 DEF Turn, OnWay
    <3>4. \A o \in Workers : Active(o)' => o = w
      BY <1>s, <3>2, <3>3 DEF Active
    <3> QED
      BY <3>1, <3>3, <3>4 DEF Turn
  <2>2. CASE Run(w)
    <3>1. Active(w) /\ (Goto(w, "reset") \/ Goto(w, "says"))
      BY <2>2 DEF Run, Active
    <3>2. mayType' = mayType /\ queued' = queued /\ wire' = wire
      BY <2>2 DEF Run
    <3> QED
      BY <1>s, <3>1, <3>2, TurnKeptBy
  <2>3. CASE WorkerPrints(w)
    <3>1. /\ Active(w) /\ mayType' = mayType /\ queued' = queued /\ wire' = wire
          /\ \E label \in {"flushes", "reset", "flushes_prompt", "clear"} : Goto(w, label)
      BY <2>3 DEF WorkerPrints, Say, Active
    <3> QED
      BY <1>s, <3>1, TurnKeptBy
  <2>4. CASE WorkerFlushes(w)
    BY <2>4, <1>s, TurnFlush DEF WorkerFlushes
  <2>5. CASE ResetByWorker(w)
    BY <2>5, <1>s, TurnKeptBy DEF ResetByWorker, Active
  <2>6. CASE Clear(w)
    BY <2>6, <1>s, TurnKeptBy DEF Clear
  <2> QED
    BY <1>7, <2>1, <2>2, <2>3, <2>4, <2>5, <2>6 DEF WorkerStep
<1>8. CASE UNCHANGED vars
  BY <1>8, TurnKept DEF vars, OnWay, Active
<1> QED
  BY <1>1, <1>2, <1>3, <1>4, <1>5, <1>6, <1>7, <1>8 DEF Next, LoopReads

-----------------------------------------------------------------------------
(* The end of a line is its last byte.                                     *)
LEMMA EndOfLine ==
  ASSUME NEW l \in Lines, NEW eol \in Eols, NEW k \in 1..Len(l \o eol)
  PROVE  /\ Len(l \o eol) = Len(l) + Len(eol)
         /\ (l \o eol)[k] = NL <=> k = Len(l \o eol)
<1> DEFINE n == Len(l)
           s == l \o eol
<1>1. l \in Seq(Chars) /\ n \in Nat /\ eol \in {<<NL>>, <<CR, NL>>}
  BY TextsAssumption
<1>2. l \in Seq(Bytes) /\ eol \in Seq(Bytes)
  BY TextBytes
<1>3. /\ s \in Seq(Bytes) /\ Len(s) = n + Len(eol)
      /\ \A i \in 1..n + Len(eol) : s[i] = IF i <= n THEN l[i] ELSE eol[i - n]
  BY <1>2, ConcatProperties
<1>4. \A i \in 1..n : l[i] \in Chars
  BY <1>1
<1>5. \A c \in Chars : c # NL
  BY CharsAssumption
<1>6. CASE eol = <<NL>>
  <2>1. Len(eol) = 1 /\ eol[1] = NL
    BY <1>6
  <2> HIDE DEF s, n
  <2>2. s[n + 1] = NL /\ Len(s) = n + 1
    BY <1>1, <1>3, <2>1
  <2>3. k \in 1..n + 1
    BY <2>2 DEF s
  <2>4. CASE k <= n
    <3>1. s[k] = l[k] /\ k \in 1..n
      BY <1>1, <1>3, <2>1, <2>3, <2>4
    <3> QED
      BY <1>1, <1>3, <1>4, <1>5, <2>1, <2>2, <2>4, <3>1 DEF s, n
  <2>5. CASE k = n + 1
    BY <1>1, <1>3, <2>1, <2>2, <2>5 DEF s, n
  <2> QED
    BY <1>1, <2>3, <2>4, <2>5
<1>7. CASE eol = <<CR, NL>>
  <2>1. Len(eol) = 2 /\ eol[1] = CR /\ eol[2] = NL /\ CR # NL
    BY <1>7 DEF CR, NL
  <2> HIDE DEF s, n
  <2>2. s[n + 1] = CR /\ s[n + 2] = NL /\ Len(s) = n + 2
    BY <1>1, <1>3, <2>1
  <2>3. k \in 1..n + 2
    BY <2>2 DEF s
  <2>4. CASE k <= n
    <3>1. s[k] = l[k] /\ k \in 1..n
      BY <1>1, <1>3, <2>1, <2>3, <2>4
    <3> QED
      BY <1>1, <1>3, <1>4, <1>5, <2>1, <2>2, <2>4, <3>1 DEF s, n
  <2>5. CASE k = n + 1
    BY <1>1, <1>3, <2>1, <2>2, <2>5 DEF s, n
  <2>6. CASE k = n + 2
    BY <1>1, <1>3, <2>1, <2>2, <2>6 DEF s, n
  <2> QED
    BY <1>1, <2>3, <2>4, <2>5, <2>6
<1> QED
  BY <1>1, <1>6, <1>7

(* Steps that leave the line where it is.                                  *)
LEMMA LineKept ==
  ASSUME LineOK, line' = line, wire' = wire, recv' = recv, Ready' => Ready,
         pc'[Loop] = pc[Loop] \/ {pc[Loop], pc'[Loop]} \subseteq {"poll", "says", "flushes"}
  PROVE  LineOK'
<1>1. pc'[Loop] \in {"reset", "queue"} <=> pc[Loop] \in {"reset", "queue"}
  OBVIOUS
<1>2. (pc'[Loop] = "reset" <=> pc[Loop] = "reset") /\ (pc'[Loop] = "queue" <=> pc[Loop] = "queue")
  OBVIOUS
<1>3. Received' = Received /\ (Typed' <=> Typed) /\ Text(recv)' = Text(recv)
  BY <1>2 DEF Received, Typed
<1>4. (wire # <<>> => line = Received \o wire /\ Typed)'
  BY <1>3 DEF LineOK
<1>5. (Ready => Text(recv) \in Lines /\ \E eol \in Eols : line = Text(recv) \o eol)'
  BY <1>3 DEF LineOK
<1> QED
  BY <1>1, <1>2, <1>4, <1>5 DEF LineOK

(* A worker's.                                                             *)
LEMMA LineKeptBy ==
  ASSUME LineOK, TypeOK, NEW w \in Workers, NEW label, Goto(w, label), label # "run",
         line' = line, wire' = wire, recv' = recv, queued' = queued
  PROVE  LineOK'
<1>1. Loop \in Senders /\ \A o \in Workers : o \in Senders /\ o # Loop
  BY SendersAssumption DEF Senders
<1>2. pc'[w] = label /\ \A o \in Senders : o # w => pc'[o] = pc[o]
  BY <1>1, Moved
<1>3. pc'[Loop] = pc[Loop]
  BY <1>1, <1>2
<1>4. Ready' => Ready
  BY <1>1, <1>2, <1>3 DEF Ready
<1> QED
  BY <1>3, <1>4, LineKept

(* The loop's, when it sends.                                              *)
LEMMA LineKeptByLoop ==
  ASSUME LineOK, TypeOK, pc[Loop] \in {"poll", "says", "flushes"},
         NEW label \in {"poll", "says", "flushes"}, Goto(Loop, label),
         line' = line, wire' = wire, recv' = recv, queued' = queued
  PROVE  LineOK'
<1>1. Loop \in Senders /\ \A o \in Workers : o \in Senders /\ o # Loop
  BY SendersAssumption DEF Senders
<1>2. pc'[Loop] = label /\ \A o \in Workers : pc'[o] = pc[o]
  BY <1>1, Moved
<1>3. Ready' => Ready
  BY <1>2 DEF Ready
<1> QED
  BY <1>2, <1>3, LineKept

(* buffer_reset() leaves the text.                                         *)
LEMMA ResetText ==
  ASSUME NEW b, IsBuffer(b)
  PROVE  Text(Reset(b)) = Text(b) /\ SubSeq(Reset(b).buf, 1, Reset(b).idx) = <<>>
<1>1. Reset(b).buf = b.buf /\ Reset(b).idx = 0
  BY ResetIs
<1>2. SubSeq(b.buf, 1, 0) = <<>>
  BY SubSeqEmpty
<1> QED
  BY <1>1, <1>2 DEF Text

(* The client types when nothing is left of the line before.               *)
LEMMA LineTyped ==
  ASSUME TypeOK, Turn, LineOK, Type
  PROVE  LineOK'
<1>1. PICK l \in Lines, eol \in Eols : line' = l \o eol /\ wire' = wire \o line'
  BY DEF Type
<1>2. mayType /\ UNCHANGED <<recv, queued, pc>>
  BY DEF Type, recvVars
<1>3. ~OnWay /\ ~queued /\ \A w \in Workers : ~Active(w)
  BY <1>2 DEF Turn
<1>4. wire = <<>> /\ pc[Loop] # "queue" /\ ~Ready
  BY <1>3 DEF OnWay, Active, Ready
<1>5. line' \in Seq(Bytes) /\ line' # <<>>
  <2>1. l \in Seq(Bytes) /\ eol \in Seq(Bytes)
    BY TextBytes
  <2>2. eol # <<>>
    <3>1. eol = <<NL>> \/ eol = <<CR, NL>>
      BY TextsAssumption
    <3> QED
      BY <3>1
  <2> QED
    BY <1>1, <2>1, <2>2, ConcatProperties, ConcatEqualIffEmpty
<1>6. wire' = line'
  BY <1>1, <1>4, <1>5, ConcatEmptySeq
<1>7. Received = <<>>
  <2>1. CASE pc[Loop] = "reset"
    BY <2>1 DEF Received
  <2>2. CASE pc[Loop] # "reset"
    <3>1. recv.idx = 0
      BY <1>4, <2>2 DEF LineOK
    <3> QED
      BY <2>2, <3>1, SubSeqEmpty DEF Received
  <2> QED
    BY <2>1, <2>2
<1>8. Received' = <<>> /\ ~Ready' /\ pc'[Loop] # "queue"
  BY <1>2, <1>4, <1>7 DEF Received, Ready
<1>9. line' = Received' \o wire' /\ Typed'
  BY <1>1, <1>5, <1>6, <1>8, ConcatEmptySeq DEF Typed
<1> QED
  BY <1>5, <1>6, <1>8, <1>9 DEF LineOK

(* What is read ends the line, or leaves some of it on the wire.           *)
LEMMA LineRead ==
  ASSUME TypeOK, Turn, LineOK, Read
  PROVE  LineOK'
<1> DEFINE got(r) == AfterRead(Allocated(recv), SubSeq(wire, 1, r))
<1>1. PICK r \in 0..AtMost(Room(Allocated(recv)), Len(wire)) :
        /\ IF EndsLine(got(r))
           THEN recv' = Terminated(got(r)) /\ Goto(Loop, "queue")
           ELSE recv' = got(r) /\ UNCHANGED pc
        /\ wire' = SubSeq(wire, r + 1, Len(wire))
  BY DEF Read
<1> DEFINE b == got(r)
           k == recv.idx
           had == SubSeq(recv.buf, 1, k)
           part == SubSeq(wire, 1, r)
           all == SubSeq(b.buf, 1, b.idx)
<1>2. /\ pc[Loop] = "poll" /\ wire # <<>> /\ line' = line /\ queued' = queued
      /\ Loop \in Senders
  BY DEF Read, Senders
<1>3. /\ IsBuffer(b) /\ b.idx = k + r /\ all = had \o part
      /\ wire = part \o wire' /\ wire' \in Seq(Bytes) /\ part \in Seq(Bytes)
      /\ r \in Nat /\ r <= Len(wire)
  BY <1>1, ReadIs
<1>4. had \in Seq(Bytes) /\ Len(had) = k /\ k \in Nat
  <2>1. IsBuffer(recv)
    BY DEF TypeOK
  <2> QED
    BY <2>1, BufferFields, PrefixIs
<1>5. line = had \o wire /\ Typed
  BY <1>2 DEF LineOK, Received
<1> HIDE DEF got, had, part
<1>6. line = all \o wire'
  <2>1. had \in Seq(Bytes) /\ part \in Seq(Bytes) /\ wire' \in Seq(Bytes)
    BY <1>3, <1>4
  <2>2. (had \o part) \o wire' = had \o (part \o wire')
    BY ONLY <2>1, ConcatAssociative
  <2>3. line = had \o (part \o wire')
    BY <1>3, <1>5
  <2> QED
    BY <1>3, <2>2, <2>3
<1>7. PICK l \in Lines, eol \in Eols : line = l \o eol
  BY <1>5 DEF Typed
<1> DEFINE n == Len(line)
           i == b.idx
<1>8. /\ all \in Seq(Bytes) /\ Len(all) = i /\ \A j \in 1..i : all[j] = b.buf[j]
      /\ i \in Nat
  BY <1>3, BufferFields, PrefixIs
<1>9. n \in Nat /\ n > 0 /\ \A j \in 1..n : line[j] = NL <=> j = n
  <2>1. line \in Seq(Bytes) /\ n \in Nat
    BY DEF TypeOK
  <2>2. \A j \in 1..n : line[j] = NL <=> j = n
    BY <1>7, EndOfLine
  <2>3. n > 0
    <3>1. wire \in Seq(Bytes) /\ Len(wire) \in Nat /\ Len(wire) > 0
      BY <1>2, EmptySeq DEF TypeOK
    <3>2. n = Len(had) + Len(wire)
      BY <1>4, <1>5, <3>1, ConcatProperties
    <3> QED
      BY <1>4, <3>1, <3>2
  <2> QED
    BY <2>1, <2>2, <2>3
<1>10. /\ Len(wire') \in Nat /\ n = i + Len(wire')
       /\ \A j \in 1..i : line[j] = b.buf[j]
  <2>1. /\ n = Len(all) + Len(wire')
        /\ \A j \in 1..Len(all) + Len(wire') :
             line[j] = IF j <= Len(all) THEN all[j] ELSE wire'[j - Len(all)]
    BY <1>3, <1>6, <1>8, ConcatProperties
  <2>2. Len(wire') \in Nat
    BY <1>3
  <2> HIDE DEF n, all, i
  <2> QED
    BY <1>8, <2>1, <2>2
<1> HIDE DEF n, all, i
<1>11. EndsLine(b) <=> Len(wire') = 0
  <2>1. EndsLine(b) <=> i > 0 /\ b.buf[i] = NL
    BY DEF EndsLine, i
  <2>2. CASE i > 0
    <3>1. i \in 1..i /\ i \in 1..n
      BY <1>8, <1>10, <2>2
    <3>2. b.buf[i] = NL <=> i = n
      BY <1>9, <1>10, <3>1
    <3> QED
      BY <1>8, <1>10, <2>1, <2>2, <3>2
  <2>3. CASE ~(i > 0)
    BY <1>8, <1>9, <1>10, <2>1, <2>3
  <2> QED
    BY <2>2, <2>3
<1>12. wire' = <<>> <=> Len(wire') = 0
  BY <1>3, EmptySeq
<1>13. CASE EndsLine(b)
  <2>1. wire' = <<>> /\ i = n
    BY <1>8, <1>10, <1>11, <1>12, <1>13
  <2>2. recv' = Terminated(b) /\ pc'[Loop] = "queue"
    BY <1>1, <1>2, <1>13, Moved
  <2>3. Text(Terminated(b)) = l
    <3>1. i = Len(l) + Len(eol)
      BY <1>7, <2>1, EndOfLine DEF n
    <3>2. \A j \in 1..i : b.buf[j] = (l \o eol)[j]
      BY <1>7, <1>10
    <3> QED
      BY <1>3, <3>1, <3>2, LineTerminated DEF i
  <2>4. Text(recv') = l
    BY <2>2, <2>3
  <2> QED
    BY <1>2, <1>7, <2>1, <2>2, <2>4 DEF LineOK
<1>14. CASE ~EndsLine(b)
  <2>1. recv' = b /\ pc' = pc
    BY <1>1, <1>14
  <2>2. wire' # <<>>
    BY <1>11, <1>12, <1>14
  <2>3. Received' = all
    BY <1>2, <2>1 DEF Received, all
  <2>4. ~Ready'
    <3>1. ~queued /\ \A w \in Workers : ~Active(w)
      BY <1>2 DEF Turn, OnWay
    <3> QED
      BY <1>2, <2>1, <3>1 DEF Ready, Active
  <2>5. line' = Received' \o wire' /\ Typed'
    BY <1>2, <1>5, <1>6, <2>3 DEF Typed
  <2> QED
    BY <1>2, <2>1, <2>2, <2>4, <2>5 DEF LineOK
<1> QED
  BY <1>13, <1>14

(* The line, in every step that lets nobody cross.                         *)
LEMMA LineStep ==
  ASSUME TypeOK, Turn, LineOK, [Next]_vars
  PROVE  LineOK'
<1> USE DEF clientVars, recvVars, sendVars
<1>s. /\ Loop \in Senders /\ \A w \in Workers : w \in Senders /\ w # Loop
  BY SendersAssumption DEF Senders
<1>b. IsBuffer(recv)
  BY DEF TypeOK
<1>1. CASE Queue
  <2>1. pc[Loop] = "queue" /\ UNCHANGED <<line, wire, recv>>
    BY <1>1 DEF Queue
  <2>2. pc'[Loop] = "reset"
    BY <1>1, <1>s, Moved DEF Queue
  <2>3. wire = <<>> /\ Text(recv) \in Lines /\ \E eol \in Eols : line = Text(recv) \o eol
    BY <2>1 DEF LineOK, Ready
  <2> QED
    BY <2>1, <2>2, <2>3 DEF LineOK
<1>2. CASE ResetByLoop
  <2>1. /\ pc[Loop] = "reset" /\ recv' = Reset(recv) /\ Goto(Loop, "poll")
        /\ UNCHANGED <<line, wire, queued>>
    BY <1>2 DEF ResetByLoop
  <2>2. pc'[Loop] = "poll" /\ \A w \in Workers : pc'[w] = pc[w]
    BY <1>s, <2>1, Moved
  <2>3. Text(recv') = Text(recv) /\ SubSeq(recv'.buf, 1, recv'.idx) = <<>> /\ recv'.idx = 0
    BY <1>b, <2>1, ResetText, ResetIs
  <2>4. Received = <<>> /\ Received' = <<>>
    BY <2>1, <2>2, <2>3 DEF Received
  <2>5. Ready' => Ready
    BY <2>1, <2>2 DEF Ready
  <2>6. (wire # <<>> => line = Received \o wire /\ Typed)'
    BY <2>1, <2>4 DEF LineOK, Typed
  <2> QED
    BY <2>1, <2>2, <2>3, <2>5, <2>6 DEF LineOK
<1>3. CASE LoopSends
  <2>1. /\ pc[Loop] \in {"poll", "says", "flushes"} /\ UNCHANGED <<line, wire, recv, queued>>
        /\ (pc' = pc \/ Goto(Loop, "flushes") \/ Goto(Loop, "poll"))
    <3>1. CASE pc[Loop] = "says" /\ Say(Loop, "flushes", "poll")
      BY <3>1 DEF Say
    <3>2. CASE pc[Loop] = "flushes" /\ Flush(Loop, "poll")
      BY <3>2, FlushCases DEF GiveUp, Writes
    <3> QED
      BY <1>3, <3>1, <3>2 DEF LoopSends
  <2>2. CASE pc' = pc
    BY <2>1, <2>2, LineKept DEF Ready
  <2> QED
    BY <2>1, <2>2, LineKeptByLoop
<1>4. CASE Wall \/ Pause \/ Resume
  <2>1. pc[Loop] = "poll" /\ Goto(Loop, "says") /\ UNCHANGED <<line, wire, recv, queued>>
    BY <1>4 DEF Wall, Pause, Resume, Notify
  <2> QED
    BY <2>1, LineKeptByLoop
<1>5. ASSUME NEW w \in Workers, WorkerStep(w)
      PROVE  LineOK'
  <2>1. CASE Take(w)
    <3>1. queued /\ (pc' = pc \/ Goto(w, "run")) /\ UNCHANGED <<line, wire, recv>>
      BY <2>1 DEF Take
    <3>2. Ready /\ pc'[Loop] = pc[Loop]
      BY <1>s, <3>1, Moved DEF Ready
    <3> QED
      BY <3>1, <3>2, LineKept
  <2>2. CASE Run(w)
    <3>1. (Goto(w, "reset") \/ Goto(w, "says")) /\ UNCHANGED <<line, wire, recv, queued>>
      BY <2>2 DEF Run
    <3> QED
      BY <3>1, LineKeptBy
  <2>3. CASE WorkerPrints(w)
    <3>1. /\ UNCHANGED <<line, wire, recv, queued>>
          /\ \E label \in {"flushes", "reset", "flushes_prompt", "clear"} : Goto(w, label)
      BY <2>3 DEF WorkerPrints, Say
    <3> QED
      BY <3>1, LineKeptBy
  <2>4. CASE WorkerFlushes(w)
    <3>1. PICK done \in {"reset", "clear"} : Flush(w, done)
      BY <2>4 DEF WorkerFlushes
    <3>2. UNCHANGED <<line, wire, recv, queued>> /\ (pc' = pc \/ Goto(w, done))
      BY <3>1, FlushCases DEF GiveUp, Writes
    <3>3. CASE pc' = pc
      BY <3>2, <3>3, LineKept DEF Ready
    <3> QED
      BY <3>2, <3>3, LineKeptBy
  <2>5. CASE ResetByWorker(w)
    <3>1. /\ pc[w] = "reset" /\ recv' = Reset(recv) /\ Goto(w, "prompts")
          /\ UNCHANGED <<line, wire, queued>>
      BY <2>5 DEF ResetByWorker
    <3>2. ~OnWay
      BY <3>1 DEF Turn, Active
    <3>3. pc'[Loop] = pc[Loop] /\ pc'[w] = "prompts" /\ \A o \in Workers : o # w => pc'[o] = pc[o]
      BY <1>s, <3>1, Moved
    <3>4. Text(recv') = Text(recv) /\ recv'.idx = 0
      BY <1>b, <3>1, ResetText, ResetIs
    <3>5. Ready' => Ready
      BY <3>1, <3>3 DEF Ready
    <3> QED
      BY <3>1, <3>2, <3>3, <3>4, <3>5 DEF LineOK, OnWay
  <2>6. CASE Clear(w)
    <3>1. Goto(w, "idle") /\ UNCHANGED <<line, wire, recv, queued>>
      BY <2>6 DEF Clear
    <3> QED
      BY <3>1, LineKeptBy
  <2> QED
    BY <1>5, <2>1, <2>2, <2>3, <2>4, <2>5, <2>6 DEF WorkerStep
<1>6. CASE UNCHANGED vars
  BY <1>6, LineKept DEF vars, Ready
<1> QED
  BY <1>1, <1>2, <1>3, <1>4, <1>5, <1>6, LineTyped, LineRead DEF Next, LoopReads

-----------------------------------------------------------------------------
(* The invariant holds from the start.                                     *)
LEMMA InitInv == Init => Inv
<1> SUFFICES ASSUME Init
             PROVE  Inv
  OBVIOUS
<1>1. Prompt \in Seq(Chars) /\ Prompt \in Seq(Bytes) /\ \A s \in Senders : <<>> \in Seq(Chars)
  BY TextBytes
<1>2. IsBuffer(recv) /\ recv.idx = 0
  BY EmptyIs DEF Init
<1>3. IsBuffer(send) /\ send.idx = 0
  BY <1>1, EmptyIs, PrintedIs, ResetIs DEF Init
<1>4. /\ Loop \in Senders /\ pc[Loop] = "poll"
      /\ \A w \in Workers : w \in Senders /\ pc[w] = "idle"
      /\ \A s \in Senders : pc[s] \in {"poll", "idle"}
  BY SendersAssumption DEF Init, Senders
<1>5. TypeOK
  <2>1. lines \in 0..MaxLines /\ notices \in 0..MaxNotices
    BY BoundsAssumption DEF Init
  <2>2. /\ line \in Seq(Bytes) /\ wire \in Seq(Bytes)
        /\ screen \in Seq(Bytes) /\ answered \in Seq(Bytes)
    BY <1>1 DEF Init
  <2>3. pc \in [Senders -> WorkerPcs \union LoopPcs]
    BY DEF Init, WorkerPcs, LoopPcs
  <2>4. text \in [Senders -> Seq(Chars)]
    BY <1>1 DEF Init
  <2>5. sb \in [Senders -> 0..MaxSize]
    BY SizesAssumption DEF Init
  <2>6. /\ mayType \in BOOLEAN /\ queued \in BOOLEAN /\ busy \in BOOLEAN
        /\ terminate \in BOOLEAN /\ paused \in BOOLEAN
    BY DEF Init
  <2>7. log \subseteq {"too_fast", "no_room", "write_failed", "crossed"}
    BY DEF Init
  <2> QED
    BY <1>2, <1>3, <2>1, <2>2, <2>3, <2>4, <2>5, <2>6, <2>7 DEF TypeOK
<1>6. PlacesOK
  BY <1>4 DEF PlacesOK, LoopPcs, WorkerPcs
<1>7. SendInv
  <2>1. \A s \in Senders : ~Sending(s)
    BY <1>4 DEF Sending
  <2>2. screen = answered /\ ~terminate
    BY DEF Init
  <2>3. Seen
    BY <2>2, SubSeqFull DEF Seen, Init, Prompt
  <2> QED
    BY <1>3, <2>1, <2>2, <2>3 DEF SendInv, OneSends, SendingOK, AtRest, Reasons
<1>8. Turn
  BY <1>4 DEF Turn, OnWay, Active, Init
<1>9. LineOK
  BY <1>2, <1>4 DEF LineOK, Ready, Init
<1> QED
  BY <1>5, <1>6, <1>7, <1>8, <1>9 DEF Inv

(* What has happened stays in the log.                                     *)
LEMMA LogGrows == [Next]_vars => log \subseteq log'
<1> SUFFICES ASSUME [Next]_vars
             PROVE  log \subseteq log'
  OBVIOUS
<1> USE DEF clientVars, recvVars, sendVars
<1>1. ASSUME NEW s, NEW flushing, NEW done, Say(s, flushing, done)
      PROVE  log \subseteq log'
  BY <1>1 DEF Say
<1>2. ASSUME NEW s, NEW done, Flush(s, done)
      PROVE  log \subseteq log'
  BY <1>2, FlushCases DEF Writes
<1>3. CASE Type \/ LoopReads \/ Wall \/ Pause \/ Resume
  BY <1>3 DEF Type, LoopReads, Read, Queue, ResetByLoop, Wall, Pause, Resume, Notify
<1>4. CASE LoopSends
  BY <1>1, <1>2, <1>4 DEF LoopSends
<1>5. ASSUME NEW w \in Workers, WorkerStep(w)
      PROVE  log \subseteq log'
  <2>1. CASE WorkerPrints(w) \/ WorkerFlushes(w)
    BY <1>1, <1>2, <2>1 DEF WorkerPrints, WorkerFlushes
  <2>2. CASE Take(w) \/ Run(w) \/ ResetByWorker(w) \/ Clear(w)
    BY <2>2 DEF Take, Run, ResetByWorker, Clear
  <2> QED
    BY <1>5, <2>1, <2>2 DEF WorkerStep
<1>6. CASE UNCHANGED vars
  BY <1>6 DEF vars
<1> QED
  BY <1>3, <1>4, <1>5, <1>6 DEF Next

(* And in every step.                                                      *)
LEMMA NextInv == Inv /\ [Next]_vars => Inv'
<1> SUFFICES ASSUME Inv, [Next]_vars
             PROVE  Inv'
  OBVIOUS
<1>1. TypeOK /\ PlacesOK /\ TypeOK' /\ PlacesOK'
  BY TypeStep, PlacesStep DEF Inv
<1>2. ASSUME "crossed" \notin log'
      PROVE  SendInv' /\ Turn' /\ LineOK'
  <2>1. SendInv /\ Turn /\ LineOK
    BY <1>2, LogGrows DEF Inv
  <2> QED
    BY <1>1, <1>2, <2>1, SendStep, TurnStep, LineStep
<1> QED
  BY <1>1, <1>2 DEF Inv

(* So the invariant always holds.                                          *)
LEMMA Invariance == Spec => []Inv
<1> QED
  BY InitInv, NextInv, PTL DEF Spec

(***************************************************************************)
(* The buffers never hold more than they have room for, nor grow beyond    *)
(* BUFFER_MAXSIZE, and no write goes beyond what is in use.                *)
(***************************************************************************)
THEOREM TypeCorrect == Spec => []TypeOK
<1>1. Inv => TypeOK
  BY DEF Inv
<1> QED
  BY <1>1, Invariance, PTL

(***************************************************************************)
(* However reads cut the lines up, a worker executes the whole of the last *)
(* line and nothing else, as long as loop and workers take turns sending.  *)
(***************************************************************************)
THEOREM LineIntactAlways == Spec => []LineIntact
<1>1. Inv => LineIntact
  BY DEF Inv, LineIntact, LineOK, Ready
<1> QED
  BY <1>1, Invariance, PTL

(***************************************************************************)
(* conn_send_buffer() ends a connection for a write that failed, a text    *)
(* that does not fit, or two senders at once, and for nothing else.        *)
(***************************************************************************)
THEOREM SendErrorsRealAlways == Spec => []SendErrorsReal
<1>1. Inv => SendErrorsReal
  BY DEF Inv, SendErrorsReal, SendInv, Reasons
<1> QED
  BY <1>1, Invariance, PTL

(***************************************************************************)
(* However writes cut the texts up, the client sees what was sent, in that *)
(* order, without a gap, and all of it once nobody sends, as long as loop  *)
(* and workers take turns sending.                                         *)
(***************************************************************************)
THEOREM OutputWholeAlways == Spec => []OutputWhole
<1>1. Inv => OutputWhole
  BY DEF Inv, OutputWhole, SendInv, Seen, AtRest, Sending
<1> QED
  BY <1>1, Invariance, PTL
=============================================================================
