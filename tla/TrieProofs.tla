----------------------------- MODULE TrieProofs -----------------------------
(***************************************************************************)
(* Theorems about StringTrie, for any strings, queries and data.           *)
(***************************************************************************)
EXTENDS StringTrie, SequenceTheorems, WellFoundedInduction, TLAPS

Paths == Seq(Characters)

-----------------------------------------------------------------------------
(* A prefix, character by character.                                       *)
LEMMA PrefixIs ==
  ASSUME NEW a \in Paths, NEW b \in Paths
  PROVE  IsPrefix(a, b) <=> Len(a) <= Len(b) /\ \A i \in 1..Len(a) : a[i] = b[i]
<1> DEFINE n == Len(a)
           p == SubSeq(b, 1, n)
<1>1. n \in Nat /\ Len(b) \in Nat /\ a \in Seq(Characters) /\ b \in Seq(Characters)
  BY DEF Paths
<1>2. SubSeq(a, 1, n) = a
  BY <1>1, SubSeqFull
<1>3. IsPrefix(a, b) <=> n <= Len(b) /\ a = p
  BY <1>2 DEF IsPrefix
<1>4. ASSUME n <= Len(b)
      PROVE  p \in Seq(Characters) /\ Len(p) = n /\ \A i \in 1..n : p[i] = b[i]
  <2>1. \A i \in 1..n : b[i] \in Characters
    BY <1>1, <1>4
  <2>2. /\ p \in Seq(Characters)
        /\ Len(p) = IF 1 <= n THEN n - 1 + 1 ELSE 0
        /\ \A i \in 1..n - 1 + 1 : p[i] = b[1 + i - 1]
    BY <1>1, <2>1, SubSeqProperties
  <2> HIDE DEF p, n
  <2>3. Len(p) = n
    BY <1>1, <2>2
  <2>4. ASSUME NEW i \in 1..n
        PROVE  p[i] = b[i]
    <3>1. i \in 1..n - 1 + 1 /\ 1 + i - 1 = i
      BY <1>1
    <3> QED
      BY <2>2, <3>1
  <2> QED
    BY <2>2, <2>3, <2>4
<1> HIDE DEF p
<1>5. ASSUME n <= Len(b)
      PROVE  a = p <=> \A i \in 1..n : a[i] = b[i]
  <2>1. (\A i \in 1..Len(a) : a[i] = p[i]) => a = p
    BY <1>1, <1>4, <1>5, SeqEqual
  <2> QED
    BY <1>4, <1>5, <2>1
<1> QED
  BY <1>3, <1>5

(* A non-empty prefix is a node on the path to the string.                 *)
LEMMA OnPath ==
  ASSUME NEW s \in Paths
  PROVE  NonEmptyPrefixes(s) = {n \in Paths \ {<<>>} : IsPrefix(n, s)}
<1>1. s \in Seq(Characters) /\ Len(s) \in Nat
  BY DEF Paths
<1>2. ASSUME NEW n \in NonEmptyPrefixes(s)
      PROVE  n \in Paths \ {<<>>} /\ IsPrefix(n, s)
  <2>1. PICK l \in 0..Len(s) : n = SubSeq(s, 1, l)
    BY <1>2 DEF NonEmptyPrefixes, Prefixes
  <2>2. \A i \in 1..l : s[i] \in Characters
    BY <1>1, <2>1
  <2>3. /\ n \in Seq(Characters)
        /\ Len(n) = IF 1 <= l THEN l - 1 + 1 ELSE 0
    BY <1>1, <2>1, <2>2, SubSeqProperties
  <2>4. Len(n) = l
    BY <2>1, <2>3
  <2>5. SubSeq(n, 1, Len(n)) = n
    BY <2>3, SubSeqFull
  <2>6. n # <<>>
    BY <1>2 DEF NonEmptyPrefixes
  <2> QED
    BY <1>1, <2>1, <2>3, <2>4, <2>5, <2>6 DEF IsPrefix, Paths
<1>3. ASSUME NEW n \in Paths \ {<<>>}, IsPrefix(n, s)
      PROVE  n \in NonEmptyPrefixes(s)
  <2>1. n \in Seq(Characters) /\ Len(n) \in Nat /\ Len(n) <= Len(s)
    BY <1>3 DEF Paths, IsPrefix
  <2> DEFINE k == Len(n)
  <2>2. n = SubSeq(s, 1, k)
    BY <1>3, <2>1, SubSeqFull DEF IsPrefix
  <2>3. k \in 0..Len(s)
    BY <1>1, <2>1
  <2> HIDE DEF k
  <2>4. \E l \in 0..Len(s) : n = SubSeq(s, 1, l)
    BY <2>2, <2>3
  <2>5. n \in Prefixes(s)
    BY <2>4 DEF Prefixes
  <2> QED
    BY <2>5 DEF NonEmptyPrefixes
<1> QED
  BY <1>2, <1>3

(* Prefixes of prefixes are prefixes.                                      *)
LEMMA PrefixOfPrefix ==
  ASSUME NEW a \in Paths, NEW b \in Paths, NEW c \in Paths, IsPrefix(a, b), IsPrefix(b, c)
  PROVE  IsPrefix(a, c)
<1>1. Len(a) \in Nat /\ Len(b) \in Nat /\ Len(c) \in Nat
  BY DEF Paths
<1>2. /\ Len(a) <= Len(b) /\ \A i \in 1..Len(a) : a[i] = b[i]
      /\ Len(b) <= Len(c) /\ \A i \in 1..Len(b) : b[i] = c[i]
  BY PrefixIs
<1>3. Len(a) <= Len(c) /\ \A i \in 1..Len(a) : a[i] = c[i]
  BY <1>1, <1>2
<1> QED
  BY <1>3, PrefixIs

(* Of two prefixes of a string the shorter is one of the other.            *)
LEMMA PrefixesNest ==
  ASSUME NEW a \in Paths, NEW b \in Paths, NEW c \in Paths, IsPrefix(a, c), IsPrefix(b, c),
         Len(a) <= Len(b)
  PROVE  IsPrefix(a, b)
<1>1. Len(a) \in Nat /\ Len(b) \in Nat /\ Len(c) \in Nat
  BY DEF Paths
<1>2. /\ \A i \in 1..Len(a) : a[i] = c[i]
      /\ \A i \in 1..Len(b) : b[i] = c[i]
  BY PrefixIs
<1>3. \A i \in 1..Len(a) : a[i] = b[i]
  BY <1>1, <1>2
<1> QED
  BY <1>3, PrefixIs

(* Every path begins with itself.                                          *)
LEMMA PrefixOfItself ==
  ASSUME NEW a \in Paths
  PROVE  IsPrefix(a, a)
BY DEF IsPrefix, Paths

(* The node so many characters down a path.                                *)
LEMMA NodeAt ==
  ASSUME NEW s \in Paths, NEW k \in 1..Len(s)
  PROVE  /\ SubSeq(s, 1, k) \in Paths \ {<<>>} /\ Len(SubSeq(s, 1, k)) = k
         /\ IsPrefix(SubSeq(s, 1, k), s)
<1> DEFINE p == SubSeq(s, 1, k)
<1>1. s \in Seq(Characters) /\ Len(s) \in Nat
  BY DEF Paths
<1>2. \A i \in 1..k : s[i] \in Characters
  BY <1>1
<1>3. p \in Seq(Characters) /\ Len(p) = IF 1 <= k THEN k - 1 + 1 ELSE 0
  BY <1>1, <1>2, SubSeqProperties
<1> HIDE DEF p
<1>4. Len(p) = k /\ p # <<>> /\ k <= Len(s)
  BY <1>1, <1>3
<1>5. SubSeq(p, 1, Len(p)) = p
  BY <1>3, SubSeqFull
<1>6. IsPrefix(p, s)
  BY <1>4, <1>5 DEF IsPrefix, p
<1> QED
  BY <1>3, <1>4, <1>6 DEF Paths, p

-----------------------------------------------------------------------------
(***************************************************************************)
(* The invariant: what TypeOK says of the nodes, that only strings have    *)
(* data, and NoGarbage.                                                    *)
(***************************************************************************)
Shaped ==
  /\ node \subseteq Paths \ {<<>>}
  /\ \A n \in node : NonEmptyPrefixes(n) \subseteq node
  /\ data \in [node -> Data \union {Null}]
  /\ Stored \subseteq Strings

Inv == Shaped /\ NoGarbage

(* The same, as it is used below.                                          *)
LEMMA Closed ==
  ASSUME Shaped, NEW n \in node, NEW m \in Paths \ {<<>>}, IsPrefix(m, n)
  PROVE  m \in node
<1>1. n \in Paths
  BY DEF Shaped
<1>2. m \in NonEmptyPrefixes(n)
  BY <1>1, OnPath
<1> QED
  BY <1>2 DEF Shaped

(* One character further down a path is a child.                           *)
LEMMA NextIsChild ==
  ASSUME NEW n \in Paths, NEW k \in Nat, k > 0, k + 1 <= Len(n), SubSeq(n, 1, k + 1) \in node
  PROVE  SubSeq(n, 1, k + 1) \in Children(SubSeq(n, 1, k))
<1> DEFINE a == SubSeq(n, 1, k)
           b == SubSeq(n, 1, k + 1)
<1>1. Len(n) \in Nat
  BY DEF Paths
<1>2. k \in 1..Len(n) /\ k + 1 \in 1..Len(n)
  BY <1>1
<1>3. /\ a \in Paths \ {<<>>} /\ Len(a) = k /\ IsPrefix(a, n)
      /\ b \in Paths \ {<<>>} /\ Len(b) = k + 1 /\ IsPrefix(b, n)
  BY <1>2, NodeAt
<1> HIDE DEF a, b
<1>4. Len(a) <= Len(b)
  BY <1>3
<1>5. IsPrefix(a, b)
  BY <1>3, <1>4, PrefixesNest
<1>6. Len(b) = Len(a) + 1
  BY <1>3
<1> QED
  BY <1>5, <1>6 DEF Children, a, b

-----------------------------------------------------------------------------
(* What Freed(s) looks at.                                                 *)
Idle(s, n) == (n = s \/ data[n] = Null) /\ \A m \in Children(n) : IsPrefix(m, s)

(* A node is freed when every node from it to s is idle.                   *)
LEMMA FreedIs ==
  ASSUME NEW s \in Paths, NEW n
  PROVE  n \in Freed(s) <=> /\ n \in Paths \ {<<>>} /\ IsPrefix(n, s) /\ Len(n) > 1
                            /\ \A m \in Paths \ {<<>>} :
                                 IsPrefix(m, s) /\ IsPrefix(n, m) => Idle(s, m)
<1>1. NonEmptyPrefixes(s) = {x \in Paths \ {<<>>} : IsPrefix(x, s)}
  BY OnPath
<1>2. Freed(s) = {x \in NonEmptyPrefixes(s) :
                    /\ Len(x) > 1
                    /\ \A m \in NonEmptyPrefixes(s) : IsPrefix(x, m) => Idle(s, m)}
  BY DEF Freed, Idle
<1> QED
  BY <1>1, <1>2

(* Of the strings stored, only s itself can be freed.                      *)
LEMMA StoredStays ==
  ASSUME Shaped, NEW s \in Paths \ {<<>>}, NEW t \in node, data[t] # Null, t # s
  PROVE  t \notin Freed(s)
<1> SUFFICES ASSUME t \in Freed(s)
             PROVE  FALSE
  OBVIOUS
<1>1. t \in Paths \ {<<>>} /\ IsPrefix(t, s) /\ IsPrefix(t, t)
  BY FreedIs, PrefixOfItself
<1>2. Idle(s, t)
  BY <1>1, FreedIs
<1> QED
  BY <1>2 DEF Idle

(* What hangs from a freed node is freed: there is nothing else below it   *)
(* than the path to s, or a node on that path would not be idle.           *)
LEMMA FreedBelow ==
  ASSUME Shaped, NEW s \in Paths \ {<<>>}, NEW p \in Freed(s), NEW n \in node, IsPrefix(p, n)
  PROVE  n \in Freed(s)
<1>1. /\ p \in Paths \ {<<>>} /\ IsPrefix(p, s) /\ Len(p) > 1
      /\ \A m \in Paths \ {<<>>} : IsPrefix(m, s) /\ IsPrefix(p, m) => Idle(s, m)
  BY FreedIs
<1>2. n \in Paths \ {<<>>} /\ Len(n) \in Nat /\ Len(p) \in Nat /\ Len(p) <= Len(n)
  BY <1>1, PrefixIs DEF Shaped, Paths
<1> DEFINE At(k) == SubSeq(n, 1, k)
           Off == {k \in Len(p)..Len(n) : ~IsPrefix(At(k), s)}
(* The first node of the path to n that is not on the path to s.           *)
<1>3. Off = {}
  <2> SUFFICES ASSUME Off # {}
               PROVE  FALSE
    OBVIOUS
  <2> DEFINE Smaller == {x \in Nat \X Nat : x[1] < x[2]}
  <2>1. IsWellFoundedOn(Smaller, Nat)
    BY NatLessThanWellFounded DEF OpToRel
  <2>2. Off \subseteq Nat
    BY <1>2
  <2> HIDE DEF Off, Smaller
  <2>3. PICK k \in Off : \A m \in Off : ~(<<m, k>> \in Smaller)
    BY <2>1, <2>2, WFMin
  <2>4. k \in Nat /\ Len(p) <= k /\ k <= Len(n) /\ ~IsPrefix(At(k), s)
    BY <1>2, <2>3 DEF Off
  <2>5. At(Len(p)) = p
    <3>1. p \in Seq(Characters)
      BY <1>1 DEF Paths
    <3> QED
      BY <3>1, SubSeqFull DEF IsPrefix
  <2> HIDE DEF At
  <2>6. k # Len(p)
    BY <1>1, <2>4, <2>5
  <2> DEFINE j == k - 1
  <2>7. j \in Nat /\ j > 0 /\ j + 1 = k /\ j + 1 <= Len(n) /\ Len(p) <= j /\ j \in Len(p)..Len(n)
    BY <1>1, <1>2, <2>4, <2>6
  <2>8. IsPrefix(At(j), s)
    <3>1. <<j, k>> \in Smaller
      BY <2>4, <2>7 DEF Smaller
    <3>2. j \notin Off
      BY <2>3, <3>1
    <3> QED
      BY <2>7, <3>2 DEF Off
  <2> HIDE DEF j
  <2>9. /\ At(j) \in Paths \ {<<>>} /\ Len(At(j)) = j /\ IsPrefix(At(j), n)
        /\ At(k) \in Paths \ {<<>>} /\ Len(At(k)) = k /\ IsPrefix(At(k), n)
    <3>1. j \in 1..Len(n) /\ k \in 1..Len(n)
      BY <1>2, <2>4, <2>7
    <3> QED
      BY <1>2, <3>1, NodeAt DEF At
  <2>10. IsPrefix(p, At(j))
    BY <1>1, <1>2, <2>7, <2>9, PrefixesNest
  <2>11. Idle(s, At(j))
    BY <1>1, <2>8, <2>9, <2>10
  <2>12. At(k) \in Children(At(j))
    <3>1. At(k) \in node
      BY <2>9, Closed
    <3> QED
      BY <1>2, <2>7, <3>1, NextIsChild DEF At
  <2>13. IsPrefix(At(k), s)
    BY <2>11, <2>12 DEF Idle
  <2> QED
    BY <2>4, <2>13
<1>4. IsPrefix(n, s)
  <2>1. Len(n) \in Len(p)..Len(n) /\ n \in Seq(Characters)
    BY <1>2 DEF Paths
  <2>2. At(Len(n)) = n
    BY <2>1, SubSeqFull
  <2> HIDE DEF At
  <2> QED
    BY <1>3, <2>1, <2>2
<1>5. Len(n) > 1
  BY <1>1, <1>2
<1>6. ASSUME NEW m \in Paths \ {<<>>}, IsPrefix(m, s), IsPrefix(n, m)
      PROVE  Idle(s, m)
  <2>1. IsPrefix(p, m)
    BY <1>1, <1>2, <1>6, PrefixOfPrefix
  <2> QED
    BY <1>1, <1>6, <2>1
<1> QED
  BY <1>2, <1>4, <1>5, <1>6, FreedIs

-----------------------------------------------------------------------------
(* Adding a string adds the path to it.                                    *)
LEMMA AddShaped ==
  ASSUME Shaped, NEW s \in Strings, NEW d \in Data, AddString(s, d)
  PROVE  /\ Shaped' /\ node' = node \union NonEmptyPrefixes(s) /\ s \in node'
         /\ \A n \in node' : data'[n] = IF n = s THEN d ELSE IF n \in node THEN data[n] ELSE Null
<1>1. s \in Paths \ {<<>>}
  BY StringsAssumption DEF Paths
<1>2. NonEmptyPrefixes(s) = {n \in Paths \ {<<>>} : IsPrefix(n, s)}
  BY <1>1, OnPath
<1>3. node' = node \union NonEmptyPrefixes(s) /\ s \in node'
  BY <1>1, <1>2, PrefixOfItself DEF AddString
<1>4. data' = [n \in node' |-> IF n = s THEN d ELSE IF n \in node THEN data[n] ELSE Null]
  BY DEF AddString
<1>5. node' \subseteq Paths \ {<<>>}
  BY <1>2, <1>3 DEF Shaped
<1>6. ASSUME NEW n \in node'
      PROVE  NonEmptyPrefixes(n) \subseteq node'
  <2>1. CASE n \in node
    BY <1>3, <2>1 DEF Shaped
  <2>2. CASE n \in NonEmptyPrefixes(s)
    <3>1. \A m \in Paths \ {<<>>} : IsPrefix(m, n) => IsPrefix(m, s)
      BY <1>1, <1>2, <2>2, PrefixOfPrefix
    <3>2. NonEmptyPrefixes(n) = {m \in Paths \ {<<>>} : IsPrefix(m, n)}
      BY <1>2, <2>2, OnPath
    <3> QED
      BY <1>2, <1>3, <3>1, <3>2
  <2> QED
    BY <1>3, <2>1, <2>2
<1>7. data' \in [node' -> Data \union {Null}]
  BY <1>4 DEF Shaped
<1>8. Stored' \subseteq Strings
  BY <1>4, DataAssumption DEF Stored, Shaped
<1> QED
  BY <1>3, <1>4, <1>5, <1>6, <1>7, <1>8 DEF Shaped

(* st_add_string leaves no node that leads to no string.                   *)
LEMMA AddClean ==
  ASSUME Inv, NEW s \in Strings, NEW d \in Data, AddString(s, d)
  PROVE  Inv'
<1>1. /\ Shaped' /\ node' = node \union NonEmptyPrefixes(s) /\ s \in node'
      /\ \A n \in node' : data'[n] = IF n = s THEN d ELSE IF n \in node THEN data[n] ELSE Null
  BY AddShaped DEF Inv
<1>2. s \in Paths
  BY StringsAssumption DEF Paths
<1>3. s \in Stored'
  BY <1>1, DataAssumption DEF Stored
<1>4. ASSUME NEW n \in node', Len(n) > 1
      PROVE  \E t \in Stored' : IsPrefix(n, t)
  <2>1. CASE n \in node
    <3>1. PICK t \in Stored : IsPrefix(n, t)
      BY <1>4, <2>1 DEF Inv, NoGarbage
    <3>2. t \in Stored'
      BY <1>1, <1>3 DEF Stored
    <3> QED
      BY <3>1, <3>2
  <2>2. CASE n \in NonEmptyPrefixes(s)
    BY <1>2, <1>3, <2>2, OnPath
  <2> QED
    BY <1>1, <2>1, <2>2
<1> QED
  BY <1>1, <1>4 DEF Inv, NoGarbage

(* Removing a string leaves the paths to the others.                       *)
LEMMA RmShaped ==
  ASSUME Shaped, NEW s \in Strings, s \in node, RmString(s)
  PROVE  /\ Shaped' /\ node' = node \ Freed(s)
         /\ \A n \in node' : data'[n] = IF n = s THEN Null ELSE data[n]
         /\ \A t \in Stored : t # s => t \in Stored' /\ data'[t] = data[t]
<1>1. s \in Paths \ {<<>>}
  BY StringsAssumption DEF Paths
<1>2. /\ node' = node \ Freed(s)
      /\ data' = [n \in node' |-> IF n = s THEN Null ELSE data[n]]
  BY DEF RmString
<1>3. ASSUME NEW n \in node', NEW p \in NonEmptyPrefixes(n)
      PROVE  p \in node'
  <2>1. n \in node /\ n \in Paths /\ n \notin Freed(s)
    BY <1>2 DEF Shaped
  <2>2. p \in node /\ IsPrefix(p, n)
    BY <2>1, OnPath DEF Shaped
  <2>3. p \notin Freed(s)
    BY <1>1, <2>1, <2>2, FreedBelow
  <2> QED
    BY <1>2, <2>2, <2>3
<1>4. Shaped'
  <2>1. data' \in [node' -> Data \union {Null}]
    BY <1>2 DEF Shaped
  <2>2. Stored' \subseteq Strings
    BY <1>2 DEF Stored, Shaped
  <2> QED
    BY <1>2, <1>3, <2>1, <2>2 DEF Shaped
<1>5. ASSUME NEW t \in Stored, t # s
      PROVE  t \in Stored' /\ data'[t] = data[t]
  <2>1. t \in node /\ data[t] # Null
    BY DEF Stored
  <2>2. t \in node'
    BY <1>1, <1>2, <1>5, <2>1, StoredStays
  <2> QED
    BY <1>2, <1>5, <2>1, <2>2 DEF Stored
<1> QED
  BY <1>2, <1>4, <1>5

(* Nor does st_rm_string.                                                  *)
LEMMA RmClean ==
  ASSUME Inv, NEW s \in Strings, RmString(s)
  PROVE  Inv'
<1>1. CASE s \notin node
  BY <1>1 DEF RmString, Inv, Shaped, NoGarbage, Stored
<1>2. CASE s \in node
  <2>1. /\ Shaped' /\ node' = node \ Freed(s)
        /\ \A t \in Stored : t # s => t \in Stored'
    BY <1>2, RmShaped DEF Inv
  <2>2. s \in Paths \ {<<>>} /\ Shaped
    BY StringsAssumption DEF Paths, Inv
  <2>3. ASSUME NEW n \in node', Len(n) > 1
        PROVE  \E t \in Stored' : IsPrefix(n, t)
    <3>1. n \in node /\ n \notin Freed(s) /\ n \in Paths \ {<<>>}
      BY <2>1, <2>2 DEF Shaped
    <3>2. PICK t \in Stored : IsPrefix(n, t)
      BY <2>3, <3>1 DEF Inv, NoGarbage
    <3>3. CASE t # s
      BY <2>1, <3>2, <3>3
(* The node was kept, so one between it and s is not idle.                 *)
    <3>4. CASE t = s
      <4>1. PICK m \in Paths \ {<<>>} : IsPrefix(m, s) /\ IsPrefix(n, m) /\ ~Idle(s, m)
        BY <2>2, <2>3, <3>1, <3>2, <3>4, FreedIs
      <4>2. m \in node
        BY <1>2, <2>2, <4>1, Closed
      <4>3. CASE m # s /\ data[m] # Null
        <5>1. m \in Stored'
          BY <2>1, <4>2, <4>3 DEF Stored
        <5> QED
          BY <4>1, <5>1
      <4>4. ASSUME NEW c \in Children(m), ~IsPrefix(c, s)
            PROVE  \E x \in Stored' : IsPrefix(n, x)
        <5>1. c \in node /\ c \in Paths /\ IsPrefix(m, c) /\ Len(c) = Len(m) + 1
          BY <2>2 DEF Children, Shaped
        <5>2. Len(c) > 1
          <6>1. Len(m) \in Nat /\ Len(m) > 0
            BY EmptySeq DEF Paths
          <6> QED
            BY <5>1, <6>1
        <5>3. PICK x \in Stored : IsPrefix(c, x)
          BY <5>1, <5>2 DEF Inv, NoGarbage
        <5>4. x \in Paths
          BY <2>2 DEF Stored, Shaped
        <5>5. x \in Stored'
          BY <2>1, <4>4, <5>3
        <5>6. IsPrefix(n, x)
          BY <3>1, <4>1, <5>1, <5>3, <5>4, PrefixOfPrefix
        <5> QED
          BY <5>5, <5>6
      <4> QED
        BY <4>1, <4>3, <4>4 DEF Idle
    <3> QED
      BY <3>3, <3>4
  <2> QED
    BY <2>1, <2>3 DEF Inv, NoGarbage
<1> QED
  BY <1>1, <1>2

(* The empty trie satisfies the invariant.                                 *)
LEMMA InitInv == Init => Inv
BY DEF Init, Inv, Shaped, NoGarbage, Stored

(* No call breaks the invariant.                                           *)
LEMMA NextInv == Inv /\ [Next]_vars => Inv'
<1> SUFFICES ASSUME Inv, [Next]_vars
             PROVE  Inv'
  OBVIOUS
<1>1. CASE Destroy
  BY <1>1 DEF Destroy, Inv, Shaped, NoGarbage, Stored
<1>2. CASE UNCHANGED <<node, data>>
  BY <1>2 DEF Inv, Shaped, NoGarbage, Stored
<1> QED
  BY <1>1, <1>2, AddClean, RmClean DEF Next, LookupString, LookupExact, vars

(* It always holds.                                                        *)
LEMMA Invariance == Spec => []Inv
<1> QED
  BY InitInv, NextInv, PTL DEF Spec

(***************************************************************************)
(* st_rm_string frees every node that leads to no string any more, but for *)
(* the first one of a path, whatever was added and removed before.         *)
(***************************************************************************)
THEOREM NoGarbageAlways == Spec => []NoGarbage
<1>1. Inv => NoGarbage
  BY DEF Inv
<1> QED
  BY <1>1, Invariance, PTL

-----------------------------------------------------------------------------
(* A string below a node that is longer than it is below a child of it.    *)
LEMMA ChildTowards ==
  ASSUME Shaped, NEW m \in node, NEW t \in node, IsPrefix(m, t), m # t
  PROVE  \E c \in Children(m) : IsPrefix(c, t)
<1> DEFINE k == Len(m)
           c == SubSeq(t, 1, k + 1)
<1>1. m \in Paths /\ t \in Paths /\ m # <<>>
  BY DEF Shaped
<1>2. k \in Nat /\ k > 0 /\ Len(t) \in Nat /\ k <= Len(t) /\ \A i \in 1..k : m[i] = t[i]
  BY <1>1, PrefixIs, EmptySeq DEF Paths
<1>3. SubSeq(t, 1, k) = m
  BY <1>1, SubSeqFull DEF IsPrefix, Paths
<1>4. k # Len(t)
  BY <1>1, <1>3, SubSeqFull DEF Paths
<1> HIDE DEF k
<1>5. k + 1 \in 1..Len(t) /\ k + 1 <= Len(t)
  BY <1>2, <1>4
<1>6. c \in Paths \ {<<>>} /\ IsPrefix(c, t)
  BY <1>1, <1>5, NodeAt
<1>7. c \in node
  BY <1>6, Closed
<1>8. c \in Children(SubSeq(t, 1, k))
  BY <1>1, <1>2, <1>5, <1>7, NextIsChild
<1> QED
  BY <1>3, <1>6, <1>8

(* Below every child a string is stored.                                   *)
LEMMA StoredBelow ==
  ASSUME Inv, NEW m \in node, NEW c \in Children(m)
  PROVE  \E t \in Stored : IsPrefix(c, t) /\ IsPrefix(m, t) /\ t # m /\ t \in Paths
<1>1. c \in node /\ c \in Paths /\ m \in Paths /\ m # <<>> /\ IsPrefix(m, c) /\ Len(c) = Len(m) + 1
  BY DEF Children, Shaped, Inv
<1>2. Len(m) \in Nat /\ Len(m) > 0
  BY <1>1, EmptySeq DEF Paths
<1>3. PICK t \in Stored : IsPrefix(c, t)
  BY <1>1, <1>2 DEF Inv, NoGarbage
<1>4. t \in Paths
  BY DEF Stored, Shaped, Inv
<1>5. t # m
  BY <1>1, <1>2, <1>3, <1>4, PrefixIs
<1>6. IsPrefix(m, t)
  BY <1>1, <1>3, <1>4, PrefixOfPrefix
<1> QED
  BY <1>3, <1>4, <1>5, <1>6

-----------------------------------------------------------------------------
(* Where get_the_only_child() ends.                                        *)
End(q, n) == /\ IsPrefix(q, n) /\ ~GoesOn(n)
             /\ \A m \in node : IsPrefix(q, m) /\ IsStrictPrefix(m, n) => GoesOn(m)

(* Every stored string below q is below the node where it ends.            *)
LEMMA AllBelowEnd ==
  ASSUME Shaped, NEW q \in node, NEW e \in node, End(q, e), NEW t \in Stored, IsPrefix(q, t)
  PROVE  IsPrefix(e, t)
<1>1. /\ q \in Paths \ {<<>>} /\ e \in Paths \ {<<>>} /\ t \in Paths \ {<<>>}
      /\ t \in node /\ data[t] # Null
  BY DEF Shaped, Stored
<1>2. /\ Len(q) \in Nat /\ Len(e) \in Nat /\ Len(t) \in Nat /\ Len(q) > 0
      /\ IsPrefix(q, e) /\ Len(q) <= Len(e)
  BY <1>1, PrefixIs, EmptySeq DEF Paths, End
<1> DEFINE At(k) == SubSeq(e, 1, k)
           Off == {k \in Len(q)..Len(e) : ~IsPrefix(At(k), t)}
(* The first node on the way to the end that is not on the way to t.       *)
<1>3. Off = {}
  <2> SUFFICES ASSUME Off # {}
               PROVE  FALSE
    OBVIOUS
  <2> DEFINE Smaller == {x \in Nat \X Nat : x[1] < x[2]}
  <2>1. IsWellFoundedOn(Smaller, Nat)
    BY NatLessThanWellFounded DEF OpToRel
  <2>2. Off \subseteq Nat
    BY <1>2
  <2> HIDE DEF Off, Smaller
  <2>3. PICK k \in Off : \A m \in Off : ~(<<m, k>> \in Smaller)
    BY <2>1, <2>2, WFMin
  <2>4. k \in Nat /\ Len(q) <= k /\ k <= Len(e) /\ ~IsPrefix(At(k), t)
    BY <1>2, <2>3 DEF Off
  <2>5. At(Len(q)) = q
    <3>1. q \in Seq(Characters)
      BY <1>1 DEF Paths
    <3> QED
      BY <1>2, <3>1, SubSeqFull DEF IsPrefix
  <2> HIDE DEF At
  <2>6. k # Len(q)
    BY <2>4, <2>5
  <2> DEFINE j == k - 1
  <2>7. j \in Nat /\ j > 0 /\ j + 1 = k /\ j + 1 <= Len(e) /\ Len(q) <= j /\ j \in Len(q)..Len(e)
    BY <1>2, <2>4, <2>6
  <2>8. IsPrefix(At(j), t)
    <3>1. <<j, k>> \in Smaller
      BY <2>4, <2>7 DEF Smaller
    <3>2. j \notin Off
      BY <2>3, <3>1
    <3> QED
      BY <2>7, <3>2 DEF Off
  <2> HIDE DEF j
  <2>9. /\ At(j) \in Paths \ {<<>>} /\ Len(At(j)) = j /\ IsPrefix(At(j), e)
        /\ At(k) \in Paths \ {<<>>} /\ Len(At(k)) = k /\ IsPrefix(At(k), e)
    <3>1. j \in 1..Len(e) /\ k \in 1..Len(e)
      BY <1>2, <2>4, <2>7
    <3> QED
      BY <1>1, <3>1, NodeAt DEF At
  <2>10. IsPrefix(q, At(j))
    BY <1>1, <1>2, <2>7, <2>9, PrefixesNest
  <2>11. At(j) # e
    BY <2>7, <2>9
  <2>12. At(j) \in node /\ At(k) \in node
    BY <1>1, <2>9, Closed
  <2>13. GoesOn(At(j))
    BY <2>9, <2>10, <2>11, <2>12 DEF End, IsStrictPrefix
  <2>14. PICK c \in Children(At(j)) : Children(At(j)) = {c}
    BY <2>13 DEF GoesOn
  <2>15. At(k) \in Children(At(j))
    BY <1>1, <2>7, <2>12, NextIsChild DEF At
  <2>16. At(j) # t
    BY <1>1, <2>13 DEF GoesOn
  <2>17. PICK d \in Children(At(j)) : IsPrefix(d, t)
    BY <1>1, <2>8, <2>12, <2>16, ChildTowards
  <2>18. At(k) = d
    BY <2>14, <2>15, <2>17
  <2> QED
    BY <2>4, <2>17, <2>18
<1>4. Len(e) \in Len(q)..Len(e) /\ e \in Seq(Characters)
  BY <1>1, <1>2 DEF Paths
<1>5. At(Len(e)) = e
  BY <1>4, SubSeqFull
<1> HIDE DEF At
<1> QED
  BY <1>3, <1>4, <1>5

(* It does end, on the way to any string stored below q.                   *)
LEMMA EndExists ==
  ASSUME Shaped, NEW q \in node, NEW t \in Stored, IsPrefix(q, t)
  PROVE  \E e \in node : End(q, e)
<1>1. /\ q \in Paths \ {<<>>} /\ t \in Paths \ {<<>>}
      /\ t \in node /\ data[t] # Null
  BY DEF Shaped, Stored
<1>2. Len(q) \in Nat /\ Len(t) \in Nat /\ Len(q) > 0 /\ Len(q) <= Len(t)
  BY <1>1, PrefixIs, EmptySeq DEF Paths
<1> DEFINE At(k) == SubSeq(t, 1, k)
           Stops == {k \in Len(q)..Len(t) : ~GoesOn(At(k))}
           Smaller == {x \in Nat \X Nat : x[1] < x[2]}
<1>3. Len(t) \in Stops
  <2>1. Len(t) \in Len(q)..Len(t) /\ t \in Seq(Characters)
    BY <1>1, <1>2 DEF Paths
  <2>2. At(Len(t)) = t
    BY <2>1, SubSeqFull
  <2>3. ~GoesOn(t)
    BY <1>1 DEF GoesOn
  <2> HIDE DEF At
  <2> QED
    BY <2>1, <2>2, <2>3
<1>4. IsWellFoundedOn(Smaller, Nat)
  BY NatLessThanWellFounded DEF OpToRel
<1>5. Stops \subseteq Nat
  BY <1>2
<1> HIDE DEF Stops, Smaller
<1>6. PICK k \in Stops : \A m \in Stops : ~(<<m, k>> \in Smaller)
  BY <1>3, <1>4, <1>5, WFMin
<1>7. k \in Nat /\ Len(q) <= k /\ k <= Len(t) /\ ~GoesOn(At(k)) /\ k \in 1..Len(t)
  BY <1>2, <1>6 DEF Stops
<1>8. At(k) \in Paths \ {<<>>} /\ Len(At(k)) = k /\ IsPrefix(At(k), t)
  BY <1>1, <1>7, NodeAt
<1>9. At(k) \in node /\ IsPrefix(q, At(k))
  BY <1>1, <1>7, <1>8, Closed, PrefixesNest
<1> HIDE DEF At
<1>10. ASSUME NEW m \in node, IsPrefix(q, m), IsStrictPrefix(m, At(k))
       PROVE  GoesOn(m)
  <2> DEFINE j == Len(m)
  <2>1. m \in Paths /\ j \in Nat /\ IsPrefix(m, At(k)) /\ m # At(k)
    BY <1>10 DEF Shaped, IsStrictPrefix, Paths
  <2>2. IsPrefix(m, t)
    BY <1>1, <1>8, <2>1, PrefixOfPrefix
  <2>3. At(j) = m
    BY <2>1, <2>2, SubSeqFull DEF IsPrefix, Paths, At
  <2>4. Len(q) <= j /\ j <= k
    BY <1>1, <1>8, <1>10, <2>1, PrefixIs
  <2> HIDE DEF j
  <2>5. j # k
    BY <2>1, <2>3
  <2>6. <<j, k>> \in Smaller /\ j \in Len(q)..Len(t)
    BY <1>2, <1>7, <2>1, <2>4, <2>5 DEF Smaller
  <2>7. j \notin Stops
    BY <1>6, <2>6
  <2> QED
    BY <2>3, <2>6, <2>7 DEF Stops
<1> QED
  BY <1>7, <1>9, <1>10 DEF End

-----------------------------------------------------------------------------
(* The strings of the table are those stored, with their data.             *)
LEMMA KeysAreStored ==
  ASSUME Shaped
  PROVE  /\ D!Known = Stored
         /\ \A s \in Stored : s \in Strings /\ s \in node /\ s \in Paths \ {<<>>} /\ Table[s] = data[s]
         /\ \A q : D!Completions(q) = {s \in Stored : IsPrefix(q, s)}
<1>1. \A s \in Strings : s \in D!Known <=> s \in Stored
  BY DEF D!Known, Table, Stored
<1>2. D!Known = Stored
  BY <1>1 DEF D!Known, Shaped
<1>3. \A s \in Stored : s \in Strings /\ s \in node /\ s \in Paths \ {<<>>}
  BY DEF Stored, Shaped
<1>4. \A s \in Stored : Table[s] = data[s]
  BY <1>3 DEF Table
<1>5. \A q : D!Completions(q) = {s \in Stored : IsPrefix(q, s)}
  BY <1>2 DEF D!Completions, D!IsPrefix, IsPrefix
<1> QED
  BY <1>2, <1>3, <1>4, <1>5

(* Two strings below a node that branches, or that is stored itself, have  *)
(* both its prefixes for theirs.                                           *)
LEMMA TwoBelow ==
  ASSUME Inv, NEW e \in node, ~GoesOn(e), Children(e) # {}
  PROVE  \E s, t \in Stored : s # t /\ IsPrefix(e, s) /\ IsPrefix(e, t)
<1>1. e \in Paths
  BY DEF Inv, Shaped
<1>2. PICK c \in Children(e) : TRUE
  OBVIOUS
<1>3. PICK s \in Stored : IsPrefix(c, s) /\ IsPrefix(e, s) /\ s # e /\ s \in Paths
  BY StoredBelow
<1>4. CASE data[e] # Null
  <2>1. e \in Stored /\ IsPrefix(e, e)
    BY <1>1, <1>4, PrefixOfItself DEF Stored
  <2> QED
    BY <1>3, <2>1
<1>5. CASE data[e] = Null
  <2>1. PICK d \in Children(e) : d # c
    BY <1>2, <1>5 DEF GoesOn
  <2>2. PICK t \in Stored : IsPrefix(d, t) /\ IsPrefix(e, t) /\ t # e /\ t \in Paths
    BY StoredBelow
  <2>3. s # t
    <3> SUFFICES ASSUME s = t
                 PROVE  FALSE
      OBVIOUS
    <3>1. c \in Paths /\ d \in Paths /\ Len(c) = Len(d) /\ c \in Seq(Characters) /\ d \in Seq(Characters)
      BY DEF Children, Inv, Shaped, Paths
    <3>2. IsPrefix(c, s) /\ IsPrefix(d, s)
      BY <1>3, <2>2
    <3>3. \A i \in 1..Len(c) : c[i] = d[i]
      BY <1>3, <3>1, <3>2, PrefixIs
    <3>4. c = d
      BY <3>1, <3>3, SeqEqual
    <3> QED
      BY <2>1, <3>4
  <2> QED
    BY <1>3, <2>2, <2>3
<1> QED
  BY <1>4, <1>5

(* get_the_only_child() finds the one string stored that begins with q, if *)
(* there is one, or nothing if there are more, or does not return.         *)
LEMMA OnlyChildMeans ==
  ASSUME Inv, NEW q \in node, data[q] = Null, TheOnlyChild(q) # Crash
  PROVE  TheOnlyChild(q) = D!Meaning(q)
<1> DEFINE e == CHOOSE n \in node : End(q, n)
<1>1. TheOnlyChild(q) = IF Children(e) # {} THEN Null
                        ELSE IF data[e] = Null THEN Crash ELSE data[e]
  BY DEF TheOnlyChild, End
<1>2. Shaped /\ q \in Paths /\ q \notin Stored
  BY DEF Inv, Shaped, Stored
<1>3. \E n \in node : End(q, n)
  <2>1. CASE Children(q) = {}
    <3>1. ~GoesOn(q)
      BY <2>1 DEF GoesOn
    <3>2. ASSUME NEW m \in node, IsPrefix(q, m), IsStrictPrefix(m, q)
          PROVE  FALSE
      <4>1. m \in Seq(Characters) /\ q \in Seq(Characters) /\ m # q /\ IsPrefix(m, q)
        BY <1>2, <3>2 DEF Shaped, Paths, IsStrictPrefix
      <4>2. Len(m) = Len(q) /\ \A i \in 1..Len(m) : m[i] = q[i]
        BY <1>2, <3>2, <4>1, PrefixIs DEF Paths
      <4> QED
        BY <4>1, <4>2, SeqEqual
    <3> QED
      BY <1>2, <3>1, <3>2, PrefixOfItself DEF End
  <2>2. CASE Children(q) # {}
    <3>1. PICK c \in Children(q) : TRUE
      BY <2>2
    <3>2. PICK t \in Stored : IsPrefix(q, t)
      BY StoredBelow
    <3> QED
      BY <1>2, <3>2, EndExists
  <2> QED
    BY <2>1, <2>2
<1>4. e \in node /\ End(q, e)
  BY <1>3
<1> HIDE DEF e
<1>5. /\ D!Known = Stored
      /\ \A s \in Stored : s \in Strings /\ s \in node /\ s \in Paths \ {<<>>} /\ Table[s] = data[s]
      /\ D!Completions(q) = {s \in Stored : IsPrefix(q, s)}
  BY <1>2, KeysAreStored
<1>6. e \in Paths /\ IsPrefix(q, e)
  BY <1>2, <1>4 DEF Shaped, End
<1>7. CASE Children(e) # {}
  <2>1. PICK s, t \in Stored : s # t /\ IsPrefix(e, s) /\ IsPrefix(e, t)
    BY <1>4, <1>7, TwoBelow DEF End
  <2>2. s \in D!Completions(q) /\ t \in D!Completions(q)
    BY <1>2, <1>5, <1>6, <2>1, PrefixOfPrefix
  <2>3. D!Meaning(q) = Null
    BY <1>2, <1>5, <2>1, <2>2 DEF D!Meaning
  <2> QED
    BY <1>1, <1>7, <2>3
<1>8. CASE Children(e) = {}
  <2>1. data[e] # Null /\ TheOnlyChild(q) = data[e]
    BY <1>1, <1>8
  <2>2. e \in Stored
    BY <1>4, <2>1 DEF Stored
  <2>3. ASSUME NEW s \in Stored, IsPrefix(q, s)
        PROVE  s = e
    <3>1. IsPrefix(e, s) /\ s \in node
      BY <1>2, <1>4, <1>5, <2>3, AllBelowEnd
    <3> QED
      BY <1>2, <1>4, <1>8, <3>1, ChildTowards
  <2>4. D!Completions(q) = {e}
    BY <1>5, <1>6, <2>2, <2>3
  <2>5. \A s \in D!Known : D!IsPrefix(q, s) <=> s = e
    BY <1>5, <1>6, <2>2, <2>3 DEF D!IsPrefix, IsPrefix
  <2>6. (CHOOSE s \in D!Known : D!IsPrefix(q, s)) = e
    BY <1>5, <2>2, <2>5
  <2>7. D!Meaning(q) = Table[e]
    BY <1>2, <1>5, <2>2, <2>4, <2>6 DEF D!Meaning
  <2> QED
    BY <1>5, <2>1, <2>2, <2>7
<1> QED
  BY <1>7, <1>8

-----------------------------------------------------------------------------
(* Where find_node() returns, it returns what the string means.            *)
LEMMA FindMeans ==
  ASSUME Inv, NEW q \in Queries, Find(q) # Crash
  PROVE  Find(q) = D!Meaning(q)
<1>1. q \in Paths \ {<<>>} /\ Shaped
  BY StringsAssumption DEF Paths, Inv
<1>2. /\ D!Known = Stored
      /\ \A s \in Stored : s \in node /\ Table[s] = data[s]
      /\ D!Completions(q) = {s \in Stored : IsPrefix(q, s)}
  BY <1>1, KeysAreStored
<1>3. CASE q \notin node
  <2>1. D!Completions(q) = {} /\ q \notin D!Known
    BY <1>1, <1>2, <1>3, Closed
  <2>2. D!Meaning(q) = Null
    BY <2>1 DEF D!Meaning
  <2> QED
    BY <1>3, <2>2 DEF Find
<1>4. CASE q \in node /\ data[q] # Null
  BY <1>2, <1>4 DEF Find, D!Meaning, Stored
<1>5. CASE q \in node /\ data[q] = Null
  BY <1>5, OnlyChildMeans DEF Find
<1> QED
  BY <1>3, <1>4, <1>5

(* A step that does not crash is one of the table.                         *)
LEMMA DictionaryStep ==
  ASSUME Inv, [Next]_vars, answer' # Crash
  PROVE  [D!Next]_<<Table, call, answer>>
<1>0. Shaped
  BY DEF Inv
<1>1. ASSUME NEW s \in Strings, NEW d \in Data, AddString(s, d)
      PROVE  D!Next
  <2>1. /\ node' = node \union NonEmptyPrefixes(s) /\ s \in node'
        /\ \A n \in node' : data'[n] = IF n = s THEN d ELSE IF n \in node THEN data[n] ELSE Null
    BY <1>0, <1>1, AddShaped
  <2>2. Table' = [Table EXCEPT ![s] = d]
    <3>1. ASSUME NEW t \in Strings
          PROVE  Table'[t] = IF t = s THEN d ELSE Table[t]
      BY <2>1 DEF Table
    <3> QED
      BY <3>1 DEF Table
  <2>3. D!Learn(s, d)
    BY <1>1, <2>2 DEF AddString, D!Learn
  <2> QED
    BY <2>3 DEF D!Next
<1>2. ASSUME NEW s \in Strings, RmString(s)
      PROVE  D!Next
  <2>1. Table' = [Table EXCEPT ![s] = Null] /\ answer' = Table[s]
    <3>1. CASE s \notin node
      BY <1>2, <3>1 DEF RmString, Table
    <3>2. CASE s \in node
      <4>1. /\ node' = node \ Freed(s)
            /\ \A n \in node' : data'[n] = IF n = s THEN Null ELSE data[n]
            /\ \A t \in Stored : t # s => t \in Stored' /\ data'[t] = data[t]
        BY <1>0, <1>2, <3>2, RmShaped
      <4>2. ASSUME NEW t \in Strings
            PROVE  Table'[t] = IF t = s THEN Null ELSE Table[t]
        <5>1. CASE t \in Stored /\ t # s
          BY <4>1, <5>1 DEF Table, Stored
        <5>2. CASE t \notin Stored \/ t = s
          BY <4>1, <5>2 DEF Table, Stored
        <5> QED
          BY <5>1, <5>2
      <4> QED
        BY <1>2, <3>2, <4>2 DEF RmString, Table
    <3> QED
      BY <3>1, <3>2
  <2>2. D!Forget(s)
    BY <1>2, <2>1 DEF RmString, D!Forget
  <2> QED
    BY <2>2 DEF D!Next
<1>3. ASSUME NEW q \in Queries, LookupString(q)
      PROVE  D!Next
  <2>1. answer' = Find(q) /\ call' = <<"lookup", q>> /\ Table' = Table
    BY <1>3 DEF LookupString, Table
  <2>2. Find(q) = D!Meaning(q)
    BY <2>1, FindMeans
  <2>3. D!Lookup(q)
    BY <2>1, <2>2 DEF D!Lookup
  <2> QED
    BY <2>3 DEF D!Next
<1>4. ASSUME NEW q \in Queries, LookupExact(q)
      PROVE  D!Next
  <2>1. /\ call' = <<"exact", q>> /\ Table' = Table
        /\ answer' = IF q \in node THEN data[q] ELSE Null
    BY <1>4 DEF LookupExact, Table
  <2>2. answer' = IF q \in D!Known THEN Table[q] ELSE Null
    BY <1>0, <2>1, KeysAreStored DEF Stored
  <2>3. D!LookupExact(q)
    BY <2>1, <2>2 DEF D!LookupExact
  <2> QED
    BY <2>3 DEF D!Next
<1>5. CASE Destroy
  <2>1. Table' = [s \in Strings |-> Null]
    BY <1>5 DEF Destroy, Table
  <2>2. D!Clear
    BY <1>5, <2>1 DEF Destroy, D!Clear
  <2> QED
    BY <2>2 DEF D!Next
<1>6. CASE UNCHANGED vars
  BY <1>6 DEF vars, Table
<1> QED
  BY <1>1, <1>2, <1>3, <1>4, <1>5, <1>6 DEF Next

(***************************************************************************)
(* To its callers the trie is a Dictionary wherever a lookup returns:      *)
(* adding, removing and destroying change the table as they should, however*)
(* nodes are shared and freed, and a string that is not stored is completed*)
(* when and only when one stored string begins with it (find_node() and    *)
(* get_the_only_child()).                                                  *)
(***************************************************************************)
THEOREM ImplementsDictionary == Spec => AsDictionary
<1>1. Init => D!Init
  BY DEF Init, D!Init, Table
<1>2. Inv /\ [Next]_vars => [answer' # Crash => D!Next]_<<Table, call, answer>>
  BY DictionaryStep
<1> QED
  BY <1>1, <1>2, Invariance, PTL DEF Spec, AsDictionary

-----------------------------------------------------------------------------
(* The nodes lie on the paths to the strings.                              *)
OnPaths == node \subseteq UNION {NonEmptyPrefixes(s) : s \in Strings}

(* Every node hangs from another one, the pointers are data or NULL, and   *)
(* the calls and answers are those of st_add_string() and the others.      *)
THEOREM TypeCorrect == Spec => []TypeOK
<1> DEFINE Typed == OnPaths /\ call \in D!Calls /\ answer \in Data \union {Null, Crash}
<1>1. Init => Typed
  BY DEF Init, OnPaths, D!Calls
<1>2. ASSUME Inv, Typed, [Next]_vars
      PROVE  Typed'
  <2>0. Shaped
    BY <1>2 DEF Inv
  <2>1. ASSUME NEW s \in Strings, NEW d \in Data, AddString(s, d)
        PROVE  Typed'
    BY <1>2, <2>1 DEF AddString, OnPaths, D!Calls
  <2>2. ASSUME NEW s \in Strings, RmString(s)
        PROVE  Typed'
    BY <1>2, <2>0, <2>2 DEF RmString, OnPaths, D!Calls, Shaped
  <2>3. ASSUME NEW q \in Queries, LookupString(q)
        PROVE  Typed'
    <3>1. CASE q \notin node \/ data[q] # Null
      <4>1. Find(q) \in Data \union {Null}
        BY <2>0, <3>1 DEF Find, Shaped
      <4> QED
        BY <1>2, <2>3, <4>1 DEF LookupString, OnPaths, D!Calls
    <3>2. CASE q \in node /\ data[q] = Null
      <4>1. Find(q) = Crash \/ Find(q) = D!Meaning(q)
        BY <1>2, FindMeans
      <4>2. D!Meaning(q) \in Data \union {Null}
        <5>1. \A s \in D!Known : Table[s] \in Data \union {Null}
          BY <2>0 DEF D!Known, Table, Shaped
        <5>2. ASSUME NEW s \in D!Known, D!Completions(q) = {s}
              PROVE  (CHOOSE t \in D!Known : D!IsPrefix(q, t)) \in D!Known
          BY <5>2 DEF D!Completions
        <5> QED
          BY <5>1, <5>2 DEF D!Meaning
      <4> QED
        BY <1>2, <2>3, <4>1, <4>2 DEF LookupString, OnPaths, D!Calls
    <3> QED
      BY <3>1, <3>2
  <2>4. ASSUME NEW q \in Queries, LookupExact(q)
        PROVE  Typed'
    BY <1>2, <2>0, <2>4 DEF LookupExact, OnPaths, D!Calls, Shaped
  <2>5. CASE Destroy
    BY <2>5 DEF Destroy, OnPaths, D!Calls
  <2>6. CASE UNCHANGED vars
    BY <1>2, <2>6 DEF vars, OnPaths
  <2> QED
    BY <1>2, <2>1, <2>2, <2>3, <2>4, <2>5, <2>6 DEF Next
<1>3. Inv /\ Typed => TypeOK
  BY DEF Inv, Shaped, OnPaths, TypeOK
<1> QED
  BY <1>1, <1>2, <1>3, Invariance, PTL DEF Spec
=============================================================================
