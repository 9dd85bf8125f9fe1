---------------------------- MODULE FramingProofs ----------------------------
(***************************************************************************)
(* What holds of the framing for all bytes: where a part of a datagram or  *)
(* a frame is found, and what the ones' complement checksum of udp.go adds *)
(* up to.                                                                  *)
(*                                                                         *)
(* Folded and WordSum are recursive functions, so their values are known   *)
(* by induction only.  It is used as set inclusion: a set of naturals that *)
(* has a number whenever it has all smaller ones is Nat, since a well-     *)
(* founded relation leaves its complement no least member.                 *)
(***************************************************************************)
EXTENDS UdpFraming, SequenceTheorems, WellFoundedInduction, TLAPS

(* Where a part of a concatenation is found                                *)

\* t is found in s after its first off elements.
HoldsAt(s, off, t) ==
  off + Len(t) <= Len(s) /\ \A i \in 1..Len(t) : s[off + i] = t[i]

\* What is in the left part of a concatenation stays where it is.
LEMMA HoldsInLeft ==
  ASSUME NEW S, NEW a \in Seq(S), NEW b \in Seq(S), NEW t \in Seq(S),
         NEW off \in Nat, HoldsAt(a, off, t)
  PROVE  HoldsAt(a \o b, off, t)
<1>1. /\ Len(a \o b) = Len(a) + Len(b)
      /\ \A i \in 1..Len(a) : (a \o b)[i] = a[i]
  BY ConcatProperties, LenProperties
<1>2. Len(a) \in Nat /\ Len(b) \in Nat /\ Len(t) \in Nat BY LenProperties
<1>3. ASSUME NEW i \in 1..Len(t) PROVE (a \o b)[off + i] = t[i]
  <2>1. off + i \in 1..Len(a) BY <1>2 DEF HoldsAt
  <2>2. QED BY <1>1, <2>1 DEF HoldsAt
<1>4. QED BY <1>1, <1>2, <1>3 DEF HoldsAt

\* What is in the right part is found after the left part.
LEMMA HoldsInRight ==
  ASSUME NEW S, NEW a \in Seq(S), NEW b \in Seq(S), NEW t \in Seq(S),
         NEW off \in Nat, HoldsAt(b, off, t)
  PROVE  HoldsAt(a \o b, Len(a) + off, t)
<1>1. /\ Len(a \o b) = Len(a) + Len(b)
      /\ \A i \in 1..Len(a) + Len(b) :
           (a \o b)[i] = IF i <= Len(a) THEN a[i] ELSE b[i - Len(a)]
  BY ConcatProperties
<1>2. Len(a) \in Nat /\ Len(b) \in Nat /\ Len(t) \in Nat BY LenProperties
<1>3. ASSUME NEW i \in 1..Len(t) PROVE (a \o b)[Len(a) + off + i] = t[i]
  <2>1. /\ Len(a) + off + i \in 1..Len(a) + Len(b) /\ ~(Len(a) + off + i <= Len(a))
        /\ Len(a) + off + i - Len(a) = off + i
    BY <1>2 DEF HoldsAt
  <2>2. (a \o b)[Len(a) + off + i] = b[off + i] BY <1>1, <2>1
  <2>3. QED BY <2>2 DEF HoldsAt
<1>4. QED BY <1>1, <1>2, <1>3 DEF HoldsAt

\* Either part of a concatenation is found in it.
LEMMA HoldsParts ==
  ASSUME NEW S, NEW a \in Seq(S), NEW b \in Seq(S)
  PROVE  /\ a \o b \in Seq(S) /\ Len(a \o b) = Len(a) + Len(b)
         /\ HoldsAt(a \o b, 0, a) /\ HoldsAt(a \o b, Len(a), b)
<1>1. Len(a) \in Nat /\ Len(b) \in Nat BY LenProperties
<1>2. HoldsAt(a, 0, a) /\ HoldsAt(b, 0, b) BY <1>1 DEF HoldsAt
<1>3. HoldsAt(a \o b, 0, a) BY <1>2, HoldsInLeft
<1>4. HoldsAt(a \o b, Len(a) + 0, b) BY <1>2, HoldsInRight
<1>5. QED BY <1>1, <1>3, <1>4, ConcatProperties

\* Two parts one behind the other are their concatenation.
LEMMA HoldsBoth ==
  ASSUME NEW S, NEW s \in Seq(S), NEW a \in Seq(S), NEW b \in Seq(S), NEW off \in Nat,
         HoldsAt(s, off, a), HoldsAt(s, off + Len(a), b)
  PROVE  HoldsAt(s, off, a \o b)
<1>1. /\ Len(a \o b) = Len(a) + Len(b) /\ Len(a) \in Nat /\ Len(b) \in Nat
      /\ Len(s) \in Nat
      /\ \A i \in 1..Len(a) + Len(b) :
           (a \o b)[i] = IF i <= Len(a) THEN a[i] ELSE b[i - Len(a)]
  BY ConcatProperties, LenProperties
<1>2. ASSUME NEW i \in 1..Len(a) + Len(b) PROVE s[off + i] = (a \o b)[i]
  <2>1. CASE i <= Len(a)
    <3>1. i \in 1..Len(a) BY <1>1, <2>1
    <3>2. QED BY <1>1, <2>1, <3>1 DEF HoldsAt
  <2>2. CASE ~(i <= Len(a))
    <3> DEFINE k == i - Len(a)
    <3>1. k \in 1..Len(b) /\ off + Len(a) + k = off + i BY <1>1, <2>2
    <3>2. (a \o b)[i] = b[k] BY <1>1, <2>2
    <3> HIDE DEF k
    <3>3. s[off + Len(a) + k] = b[k] BY <3>1 DEF HoldsAt
    <3>4. QED BY <3>1, <3>2, <3>3
  <2>3. QED BY <2>1, <2>2
<1>3. QED BY <1>1, <1>2 DEF HoldsAt

\* A part is the slice from its offset to its end.
LEMMA HoldsSlice ==
  ASSUME NEW S, NEW s \in Seq(S), NEW t \in Seq(S), NEW off \in Nat, HoldsAt(s, off, t)
  PROVE  SubSeq(s, off + 1, off + Len(t)) = t
<1> DEFINE u == SubSeq(s, off + 1, off + Len(t))
<1>1. Len(t) \in Nat /\ Len(s) \in Nat BY LenProperties
<1>2. \A i \in off + 1 .. off + Len(t) : s[i] \in S
  BY <1>1, ElementOfSeq DEF HoldsAt
<1>3. /\ u \in Seq(S) /\ Len(u) = Len(t)
      /\ \A i \in 1..Len(t) : u[i] = s[off + i]
  <2>1. /\ u \in Seq(S)
        /\ Len(u) = IF off + 1 <= off + Len(t) THEN off + Len(t) - (off + 1) + 1 ELSE 0
        /\ \A i \in 1..(off + Len(t)) - (off + 1) + 1 : u[i] = s[off + 1 + i - 1]
    <3> HIDE DEF u
    <3>1. off + 1 \in Int /\ off + Len(t) \in Int BY <1>1
    <3>2. QED BY <1>2, <3>1, SubSeqProperties DEF u
  <2>2. QED BY <1>1, <2>1
<1>4. \A i \in 1..Len(u) : u[i] = t[i] BY <1>3 DEF HoldsAt
<1> HIDE DEF u
<1>5. u = t BY <1>3, <1>4, SeqEqual
<1>6. QED BY <1>5 DEF u

\* A function on 1..n is a sequence of length n.
LEMMA FunctionIsSeq ==
  ASSUME NEW S, NEW n \in Nat, NEW f \in [1..n -> S]
  PROVE  f \in Seq(S) /\ Len(f) = n
<1>1. f \in Seq(S) BY SeqDef
<1>2. DOMAIN f = 1..n /\ DOMAIN f = 1..Len(f) /\ Len(f) \in Nat BY <1>1, LenProperties
<1>3. QED BY <1>1, <1>2

\* A MAC address is six bytes.
LEMMA XboxIsSeq ==
  ASSUME NEW x \in Xbox PROVE x \in Seq(Byte) /\ Len(x) = 6
BY FunctionIsSeq DEF Xbox

\* A uint16 is two bytes, which give it back.
LEMMA LengthBytes ==
  ASSUME NEW n \in Nat
  PROVE  /\ BigEndian16(n) \in Seq(Byte) /\ Len(BigEndian16(n)) = 2
         /\ n < Word => 256 * BigEndian16(n)[1] + BigEndian16(n)[2] = n
BY DEF BigEndian16, Byte, Word

\* A short sequence of bytes, with its length.
LEMMA ShortSeqs ==
  /\ <<8, 0>> \in Seq(Byte) /\ <<69, 0>> \in Seq(Byte) /\ <<12, 2, 12, 2>> \in Seq(Byte)
  /\ <<0, 0, 0, 0, 64, 17>> \in Seq(Byte) /\ SrcIp \in Seq(Byte)
  /\ Len(<<8, 0>>) = 2 /\ Len(<<69, 0>>) = 2 /\ Len(<<12, 2, 12, 2>>) = 4
  /\ Len(<<0, 0, 0, 0, 64, 17>>) = 6 /\ Len(SrcIp) = 4
  /\ \A p : DstIp(p) \in Seq(Byte) /\ Len(DstIp(p)) = 4
<1>1. {0, 1, 2, 8, 12, 17, 64, 69, 255} \subseteq Byte BY DEF Byte
<1>2. QED BY <1>1 DEF SrcIp, DstIp

-----------------------------------------------------------------------------
(* Induction                                                               *)

\* Every set of naturals with a member has a least one.
LEMMA LeastMember ==
  ASSUME NEW T, T \subseteq Nat, T # {}
  PROVE  \E x \in T : \A y \in T : x <= y
<1> DEFINE R == OpToRel(<, Nat)
<1>1. IsWellFoundedOn(R, Nat) BY NatLessThanWellFounded
<1>2. \A x, y \in Nat : y < x => <<y, x>> \in R BY DEF OpToRel
<1> HIDE DEF R
<1>3. PICK x \in T : \A y \in T : ~(<<y, x>> \in R) BY <1>1, WFMin
<1>4. \A y \in T : x \in Nat /\ y \in Nat /\ ~(y < x) BY <1>2, <1>3
<1>5. QED BY <1>4, SMT

\* A set that has a natural whenever it has all smaller ones has them all.
LEMMA CourseOfValues ==
  ASSUME NEW S, \A n \in Nat : (\A m \in 0..n - 1 : m \in S) => n \in S
  PROVE  Nat \subseteq S
<1> SUFFICES ASSUME Nat \ S # {} PROVE FALSE OBVIOUS
<1>1. PICK n \in Nat \ S : \A m \in Nat \ S : n <= m BY LeastMember
<1>2. \A m \in 0..n - 1 : m \in S BY <1>1
<1>3. QED BY <1>1, <1>2

\* ... and so has one that has 0 and the successor of each of its members.
LEMMA Induction ==
  ASSUME NEW S, 0 \in S, \A n \in Nat : n \in S => n + 1 \in S
  PROVE  Nat \subseteq S
<1>1. ASSUME NEW n \in Nat, \A m \in 0..n - 1 : m \in S PROVE n \in S
  <2>1. CASE n = 0 BY <2>1
  <2>2. CASE n # 0
    <3>1. n - 1 \in 0..n - 1 /\ n - 1 \in Nat /\ (n - 1) + 1 = n BY <2>2
    <3>2. QED BY <1>1, <3>1
  <2>3. QED BY <2>1, <2>2
<1>2. QED BY <1>1, CourseOfValues

-----------------------------------------------------------------------------
(* Folded: the carry goes back in at the low end                           *)

\* What 0..Word - 1 gives the provers.
LEMMA WordRange == \A x \in 0..Word - 1 : x \in Nat /\ x < 65536
<1>1. Word \in Nat BY DEF Word
<1>2. \A x \in 0..Word - 1 : x \in Nat /\ x < Word BY <1>1
<1>3. \A x \in Nat : x < Word => x < 65536 BY DEF Word
<1>4. QED BY <1>2, <1>3

\* One turn of the loop takes a positive multiple of 2^16 - 1 away.
LEMMA Fold16 ==
  ASSUME NEW k \in Nat, k >= Word
  PROVE  /\ (k % Word) + k \div Word \in 1..k - 1
         /\ k - ((k % Word) + k \div Word) = (Word - 1) * (k \div Word)
<1> DEFINE q == k \div Word
           r == k % Word
<1>1. k >= 65536 BY DEF Word
<1>2. q \in Nat /\ r \in Nat BY DEF Word
<1>3. k = 65536 * q + r /\ r < 65536 BY DEF Word
<1> HIDE DEF q, r
<1>4. r + q \in 1..k - 1 /\ k - (r + q) = 65535 * q BY <1>1, <1>2, <1>3
<1>5. QED BY <1>4 DEF q, r, Word

\* What the function of the loop is defined to satisfy.
FoldEq(f) == f = [k \in Nat |-> IF k < Word THEN k ELSE f[(k % Word) + k \div Word]]

\* There is one: a positive number folds to its remainder by 2^16 - 1, in
\* 1..2^16 - 1.
LEMMA FoldExists == \E f : FoldEq(f)
<1> DEFINE g == [k \in Nat |-> IF k = 0 THEN 0 ELSE 1 + ((k - 1) % (Word - 1))]
<1>1. ASSUME NEW k \in Nat, k < Word PROVE g[k] = k
  BY <1>1 DEF Word
<1>2. ASSUME NEW k \in Nat, k >= Word PROVE g[k] = g[(k % Word) + k \div Word]
  <2> DEFINE j == (k % Word) + k \div Word
             q == k \div Word
  <2>1. j \in 1..k - 1 /\ k - j = 65535 * q /\ q \in Nat BY <1>2, Fold16 DEF Word
  <2> HIDE DEF j, q
  <2>2. (k - 1) % 65535 = (j - 1) % 65535
    BY <2>1
  <2>3. QED BY <1>2, <2>1, <2>2 DEF Word, j
<1>3. \A k \in Nat : k >= Word => (k % Word) + k \div Word \in Nat BY Fold16
<1> HIDE DEF g
<1>4. \A k \in Nat : g[k] = IF k < Word THEN k ELSE g[(k % Word) + k \div Word]
  BY <1>1, <1>2 DEF Word
<1>5. FoldEq(g) 
  <2>1. g = [k \in Nat |-> g[k]] BY DEF g
  <2>2. QED BY <2>1, <1>4, Zenon DEF FoldEq
<1>6. QED BY <1>5

\* Folded is the value of such a function.
LEMMA FoldedEq ==
  ASSUME NEW n \in Nat
  PROVE  \E f : FoldEq(f) /\ Folded(n) = f[n]
<1> DEFINE fold[k \in Nat] == IF k < Word THEN k ELSE fold[(k % Word) + k \div Word]
<1>1. FoldEq(fold) BY FoldExists, Zenon DEF FoldEq
<1>2. Folded(n) = fold[n] BY Zenon DEF Folded
<1>3. QED BY <1>1, <1>2

\* What is left has 16 bits and differs by a multiple of 2^16 - 1.
LEMMA FoldedProperties ==
  ASSUME NEW n \in Nat
  PROVE  /\ Folded(n) \in 0..Word - 1 /\ Folded(n) <= n
         /\ \E c \in Nat : n - Folded(n) = (Word - 1) * c
<1>1. PICK f : FoldEq(f) /\ Folded(n) = f[n] BY FoldedEq
<1> DEFINE Good(k) == /\ f[k] \in 0..Word - 1 /\ f[k] <= k
                      /\ \E c \in Nat : k - f[k] = (Word - 1) * c
           S == {k \in Nat : Good(k)}
<1>2. ASSUME NEW k \in Nat, \A m \in 0..k - 1 : m \in S PROVE k \in S
  <2>1. f[k] = IF k < Word THEN k ELSE f[(k % Word) + k \div Word]
    BY <1>1 DEF FoldEq
  <2>2. ASSUME k < Word PROVE Good(k)
    <3>1. f[k] = k BY <2>1, <2>2
    <3>2. \E c \in Nat : k - f[k] = (Word - 1) * c
      <4>1. k - f[k] = (Word - 1) * 0 BY <3>1 DEF Word
      <4>2. QED BY <4>1
    <3>3. f[k] \in 0..Word - 1 /\ f[k] <= k
      <4>1. Word \in Nat BY DEF Word
      <4>2. QED BY <2>2, <3>1, <4>1
    <3>4. QED BY <3>2, <3>3
  <2>3. ASSUME k >= Word PROVE Good(k)
    <3> DEFINE j == (k % Word) + k \div Word
               q == k \div Word
    <3>1. j \in 1..k - 1 /\ k - j = (Word - 1) * q /\ q \in Nat BY <2>3, Fold16 DEF Word
    <3>2. f[k] = f[j] BY <2>1, <2>3 DEF Word
    <3> HIDE DEF j, q
    <3>3. Good(j) BY <1>2, <3>1
    <3>4. f[j] \in 0..Word - 1 /\ f[j] <= j BY <3>3
    <3>5. PICK c \in Nat : j - f[j] = (Word - 1) * c BY <3>3
    <3>6. f[j] \in Nat /\ j \in Nat /\ j < k
      <4>1. j \in 1..k - 1 /\ f[j] \in 0..Word - 1 BY <3>1, <3>4
      <4>2. f[j] \in Nat BY <4>1, WordRange
      <4>3. QED BY <4>1, <4>2
    <3>7. f[k] \in 0..Word - 1 /\ f[k] <= k
      <4>1. f[j] <= k BY <3>4, <3>6
      <4>2. QED BY <4>1, <3>2, <3>4
    <3>8. k - f[k] = (Word - 1) * (q + c)
      <4>1. j - f[j] = 65535 * c /\ k - j = 65535 * q BY <3>1, <3>5 DEF Word
      <4>2. k - f[j] = 65535 * (q + c) BY <4>1, <3>6, <3>1
      <4>3. QED BY <3>2, <4>2 DEF Word
    <3>9. q + c \in Nat BY <3>1
    <3>10. QED BY <3>7, <3>8, <3>9
  <2> HIDE DEF Good
  <2>4. Good(k) BY <2>2, <2>3 DEF Word
  <2>5. QED BY <2>4
<1> HIDE DEF S
<1>3. Nat \subseteq S BY <1>2, CourseOfValues
<1>4. QED BY <1>1, <1>3 DEF S

-----------------------------------------------------------------------------
(* WordSum: the sum of the 16-bit words                                    *)

\* w[1] + ... + w[i], for i up to h.
PartialSums(h, w, f) ==
  f \in [0..h -> Nat] /\ f[0] = 0 /\ \A i \in 1..h : f[i] = f[i - 1] + w[i]

\* The partial sums exist ...
LEMMA SumsExist ==
  ASSUME NEW h \in Nat, NEW w \in [1..h -> Nat]
  PROVE  \E f : PartialSums(h, w, f)
<1> DEFINE S == {n \in Nat : n <= h => \E f : PartialSums(n, w, f)}
<1>1. 0 \in S
  <2>1. PartialSums(0, w, [i \in 0..0 |-> 0]) BY DEF PartialSums
  <2>2. QED BY <2>1
<1>2. ASSUME NEW n \in Nat, n \in S PROVE n + 1 \in S
  <2> SUFFICES ASSUME n + 1 <= h PROVE \E f : PartialSums(n + 1, w, f) OBVIOUS
  <2>1. PICK f : PartialSums(n, w, f) BY <1>2
  <2> DEFINE g == [i \in 0..n + 1 |-> IF i <= n THEN f[i] ELSE f[n] + w[n + 1]]
  <2>2. w[n + 1] \in Nat /\ f \in [0..n -> Nat] BY <2>1 DEF PartialSums
  <2>3. g \in [0..n + 1 -> Nat] /\ g[0] = 0 BY <2>1, <2>2 DEF PartialSums
  <2>4. ASSUME NEW i \in 1..n + 1 PROVE g[i] = g[i - 1] + w[i]
    <3>1. i - 1 \in 0..n /\ i \in 0..n + 1 BY <2>4
    <3>2. g[i - 1] = f[i - 1] BY <3>1
    <3>3. CASE i <= n BY <3>1, <3>2, <3>3, <2>1 DEF PartialSums
    <3>4. CASE i = n + 1 BY <3>1, <3>2, <3>4
    <3>5. QED BY <3>3, <3>4
  <2> HIDE DEF g
  <2>5. PartialSums(n + 1, w, g) BY <2>3, <2>4 DEF PartialSums
  <2>6. QED BY <2>5
<1> HIDE DEF S
<1>3. Nat \subseteq S BY <1>1, <1>2, Induction
<1>4. QED BY <1>3 DEF S

\* ... and are what their recursion makes them.
LEMMA SumsUnique ==
  ASSUME NEW h \in Nat, NEW w, NEW f, NEW g, PartialSums(h, w, f), PartialSums(h, w, g)
  PROVE  f = g
<1> DEFINE S == {n \in Nat : n <= h => f[n] = g[n]}
<1>1. 0 \in S BY DEF PartialSums
<1>2. ASSUME NEW n \in Nat, n \in S PROVE n + 1 \in S
  <2>1. n + 1 <= h => n + 1 \in 1..h /\ (n + 1) - 1 = n OBVIOUS
  <2>2. QED BY <1>2, <2>1 DEF PartialSums
<1> HIDE DEF S
<1>3. Nat \subseteq S BY <1>1, <1>2, Induction
<1>4. \A n \in 0..h : f[n] = g[n] BY <1>3 DEF S
<1>5. QED BY <1>4 DEF PartialSums

\* The words the sum is of, but for an odd last byte.
Halves(bs) == Len(bs) \div 2
Words(bs) == [i \in 1..Halves(bs) |-> 256 * bs[2 * i - 1] + bs[2 * i]]
Odd(bs) == IF Len(bs) % 2 = 1 THEN 256 * bs[Len(bs)] ELSE 0

\* Words and odd byte of a byte sequence are naturals.
LEMMA WordsTyped ==
  ASSUME NEW bs \in Seq(Byte)
  PROVE  /\ Halves(bs) \in Nat /\ Words(bs) \in [1..Halves(bs) -> Nat] /\ Odd(bs) \in Nat
<1>1. Len(bs) \in Nat BY LenProperties
<1>2. \A i \in 1..Len(bs) : bs[i] \in Nat
  <2>1. Byte \subseteq Nat BY DEF Byte
  <2>2. QED BY <2>1, ElementOfSeq
<1>3. Halves(bs) \in Nat /\ 2 * Halves(bs) <= Len(bs) BY <1>1 DEF Halves
<1>4. \A i \in 1..Halves(bs) : 2 * i - 1 \in 1..Len(bs) /\ 2 * i \in 1..Len(bs)
  BY <1>1, <1>3
<1>5. \A i \in 1..Halves(bs) : 256 * bs[2 * i - 1] + bs[2 * i] \in Nat BY <1>2, <1>4
<1>6. Words(bs) \in [1..Halves(bs) -> Nat] BY <1>5 DEF Words
<1>7. Len(bs) % 2 = 1 => Len(bs) \in 1..Len(bs) BY <1>1
<1>8. QED BY <1>2, <1>3, <1>6, <1>7 DEF Odd

\* WordSum is the last of the partial sums and the odd byte.
LEMMA WordSumIs ==
  ASSUME NEW bs \in Seq(Byte), NEW f, PartialSums(Halves(bs), Words(bs), f)
  PROVE  WordSum(bs) = f[Halves(bs)] + Odd(bs)
<1> DEFINE sum[i \in 0..(Len(bs) \div 2)] ==
             IF i = 0 THEN 0 ELSE sum[i - 1] + 256 * bs[2 * i - 1] + bs[2 * i]
           Eq(g) == g = [i \in 0..(Len(bs) \div 2) |->
                          IF i = 0 THEN 0 ELSE g[i - 1] + 256 * bs[2 * i - 1] + bs[2 * i]]
<1>1. WordSum(bs) = sum[Len(bs) \div 2] + IF Len(bs) % 2 = 1 THEN 256 * bs[Len(bs)] ELSE 0
  BY Zenon DEF WordSum
<1>2. Len(bs) \in Nat /\ Halves(bs) \in Nat /\ \A i \in 1..Len(bs) : bs[i] \in Nat
  <2> HIDE DEF sum
  <2>1. Byte \subseteq Nat BY DEF Byte
  <2>2. \A i \in 1..Len(bs) : bs[i] \in Nat BY <2>1, ElementOfSeq
  <2>3. QED BY <2>2, LenProperties, WordsTyped
<1>3. \A i \in 1..Halves(bs) : 2 * i - 1 \in 1..Len(bs) /\ 2 * i \in 1..Len(bs)
  BY <1>2 DEF Halves
<1>4. Eq(f)
  <2>1. ASSUME NEW i \in 0..Halves(bs)
        PROVE  f[i] = IF i = 0 THEN 0 ELSE f[i - 1] + 256 * bs[2 * i - 1] + bs[2 * i]
    <3>1. CASE i = 0 BY <3>1 DEF PartialSums
    <3>2. CASE i # 0
      <4>1. i \in 1..Halves(bs) /\ i - 1 \in 0..Halves(bs) BY <1>2, <3>2
      <4>2. f[i] = f[i - 1] + Words(bs)[i] /\ f[i - 1] \in Nat BY <4>1 DEF PartialSums
      <4>3. Words(bs)[i] = 256 * bs[2 * i - 1] + bs[2 * i] BY <4>1 DEF Words
      <4>4. bs[2 * i - 1] \in Nat /\ bs[2 * i] \in Nat BY <1>2, <1>3, <4>1
      <4>5. QED BY <3>2, <4>2, <4>3, <4>4
    <3>3. QED BY <3>1, <3>2
  <2>2. f = [i \in 0..Halves(bs) |-> f[i]] BY DEF PartialSums
  <2>3. QED BY <2>1, <2>2, Zenon DEF Halves
<1>5. Eq(sum) BY <1>4, Zenon
<1> HIDE DEF sum
<1>6. PartialSums(Halves(bs), Words(bs), sum)
  <2> DEFINE S == {n \in Nat : n <= Halves(bs) => sum[n] \in Nat}
  <2>1. \A i \in 0..Halves(bs) :
          sum[i] = IF i = 0 THEN 0 ELSE sum[i - 1] + 256 * bs[2 * i - 1] + bs[2 * i]
    BY <1>5 DEF Halves
  <2>2. 0 \in S BY <2>1
  <2>3. ASSUME NEW n \in Nat, n \in S PROVE n + 1 \in S
    <3> SUFFICES ASSUME n + 1 <= Halves(bs) PROVE sum[n + 1] \in Nat OBVIOUS
    <3>1. n + 1 \in 1..Halves(bs) /\ n + 1 \in 0..Halves(bs) /\ (n + 1) - 1 = n BY <1>2
    <3>2. sum[n + 1] = sum[n] + 256 * bs[2 * (n + 1) - 1] + bs[2 * (n + 1)]
      BY <2>1, <3>1
    <3>3. bs[2 * (n + 1) - 1] \in Nat /\ bs[2 * (n + 1)] \in Nat /\ sum[n] \in Nat
      BY <1>2, <1>3, <3>1, <2>3
    <3>4. QED BY <3>2, <3>3
  <2> HIDE DEF S
  <2>4. Nat \subseteq S BY <2>2, <2>3, Induction
  <2>5. \A n \in 0..Halves(bs) : sum[n] \in Nat BY <2>4, <1>2 DEF S
  <2>6. sum \in [0..Halves(bs) -> Nat]
    <3>1. sum = [i \in 0..Halves(bs) |-> sum[i]] BY <1>5 DEF Halves
    <3>2. QED BY <2>5, <3>1
  <2>7. ASSUME NEW i \in 1..Halves(bs) PROVE sum[i] = sum[i - 1] + Words(bs)[i]
    <3>1. i \in 0..Halves(bs) /\ i - 1 \in 0..Halves(bs) /\ i # 0 BY <1>2
    <3>2. sum[i] = sum[i - 1] + 256 * bs[2 * i - 1] + bs[2 * i] /\ sum[i - 1] \in Nat
      BY <2>1, <2>5, <3>1
    <3>3. bs[2 * i - 1] \in Nat /\ bs[2 * i] \in Nat BY <1>2, <1>3
    <3>4. QED BY <3>2, <3>3 DEF Words
  <2>8. QED BY <1>2, <2>1, <2>6, <2>7 DEF PartialSums
<1>7. sum = f BY <1>2, <1>6, SumsUnique
<1>8. QED BY <1>1, <1>7 DEF Halves, Odd

\* The sum of bytes is a natural.
LEMMA WordSumTyped ==
  ASSUME NEW bs \in Seq(Byte) PROVE WordSum(bs) \in Nat
<1>1. PICK f : PartialSums(Halves(bs), Words(bs), f) BY WordsTyped, SumsExist
<1>2. f[Halves(bs)] \in Nat BY <1>1, WordsTyped DEF PartialSums
<1>3. QED BY <1>1, <1>2, WordsTyped, WordSumIs

\* The sum of a concatenation whose left part has no odd byte is that of its parts.
LEMMA WordSumConcat ==
  ASSUME NEW a \in Seq(Byte), NEW b \in Seq(Byte), Len(a) % 2 = 0
  PROVE  WordSum(a \o b) = WordSum(a) + WordSum(b)
<1> DEFINE c == a \o b
           m == Halves(a)
           n == Halves(b)
<1>1. /\ c \in Seq(Byte) /\ Len(c) = Len(a) + Len(b) /\ Len(a) \in Nat /\ Len(b) \in Nat
      /\ \A i \in 1..Len(c) : c[i] = IF i <= Len(a) THEN a[i] ELSE b[i - Len(a)]
  BY ConcatProperties, LenProperties
<1> HIDE DEF c
<1>2. /\ m \in Nat /\ n \in Nat /\ Len(a) = 2 * m /\ Halves(c) = m + n
      /\ 2 * n <= Len(b)
  <2>1. /\ m = Len(a) \div 2 /\ n = Len(b) \div 2 /\ Halves(c) = (Len(a) + Len(b)) \div 2
        /\ Len(a) \in Nat /\ Len(b) \in Nat
    BY <1>1 DEF Halves
  <2>2. m \in Nat /\ Len(a) = 2 * m
    <3> HIDE DEF m, n
    <3>1. QED BY <2>1
  <2>3. n \in Nat /\ 2 * n <= Len(b) /\ Len(b) < 2 * n + 2
    <3> HIDE DEF m, n
    <3>1. QED BY <2>1
  <2> HIDE DEF m, n
  <2>4. (2 * m + Len(b)) \div 2 = m + n BY <2>1, <2>2, <2>3
  <2>5. QED BY <2>1, <2>2, <2>3, <2>4
<1>3. Odd(a) = 0 /\ Odd(c) = Odd(b)
  <2>1. Len(c) % 2 = Len(b) % 2 BY <1>1
  <2>2. ASSUME Len(b) % 2 = 1 PROVE c[Len(c)] = b[Len(b)]
    <3>1. Len(c) \in 1..Len(c) /\ ~(Len(c) <= Len(a)) /\ Len(c) - Len(a) = Len(b)
      BY <1>1, <2>2
    <3>2. QED BY <1>1, <3>1
  <2>3. QED BY <2>1, <2>2 DEF Odd
<1>4. PICK f : PartialSums(m, Words(a), f) BY WordsTyped, SumsExist
<1>5. PICK g : PartialSums(n, Words(b), g) BY WordsTyped, SumsExist
<1> DEFINE h == [i \in 0..m + n |-> IF i <= m THEN f[i] ELSE f[m] + g[i - m]]
<1>6. \A i \in 1..m : Words(c)[i] = Words(a)[i]
  <2> TAKE i \in 1..m
  <2>1. /\ 2 * i - 1 \in 1..Len(c) /\ 2 * i \in 1..Len(c) /\ i \in 1..Halves(c)
        /\ 2 * i - 1 <= Len(a) /\ 2 * i <= Len(a)
    BY <1>1, <1>2
  <2>2. c[2 * i - 1] = a[2 * i - 1] /\ c[2 * i] = a[2 * i] BY <1>1, <2>1
  <2>3. QED BY <2>1, <2>2 DEF Words
<1>7. \A i \in 1..n : Words(c)[m + i] = Words(b)[i]
  <2> TAKE i \in 1..n
  <2> HIDE DEF m, n
  <2>1. /\ i \in Nat /\ 1 <= i /\ i <= n /\ m \in Nat /\ n \in Nat /\ Len(c) \in Nat
        /\ 2 * m + 2 * n <= Len(c) /\ Len(a) = 2 * m
    BY <1>1, <1>2
  <2>2. 2 * (m + i) - 1 \in 1..Len(c) /\ 2 * (m + i) \in 1..Len(c)
    <3> DEFINE k == m + i
    <3>1. k \in Nat /\ 1 <= k /\ 2 * k <= Len(c) BY <2>1
    <3> HIDE DEF k
    <3>2. 2 * k - 1 \in 1..Len(c) /\ 2 * k \in 1..Len(c) BY <2>1, <3>1
    <3>3. QED BY <3>2 DEF k
  <2>3. /\ ~(2 * (m + i) - 1 <= Len(a)) /\ ~(2 * (m + i) <= Len(a))
        /\ 2 * (m + i) - 1 - Len(a) = 2 * i - 1 /\ 2 * (m + i) - Len(a) = 2 * i
    BY <2>1
  <2>4. m + i \in 1..Halves(c) BY <1>2, <2>1
  <2>5. c[2 * (m + i) - 1] = b[2 * i - 1] /\ c[2 * (m + i)] = b[2 * i]
    BY <1>1, <2>2, <2>3
  <2>6. i \in 1..Halves(b) BY DEF n
  <2>7. QED BY <2>4, <2>5, <2>6 DEF Words
<1>8. Words(b) \in [1..n -> Nat] BY WordsTyped
<1> HIDE DEF m, n
<1>9. /\ f \in [0..m -> Nat] /\ f[0] = 0 /\ g \in [0..n -> Nat] /\ g[0] = 0
      /\ \A i \in 1..m : f[i] = f[i - 1] + Words(a)[i]
      /\ \A i \in 1..n : g[i] = g[i - 1] + Words(b)[i]
  BY <1>4, <1>5 DEF PartialSums
<1>10. PartialSums(m + n, Words(c), h)
  <2>1. h \in [0..m + n -> Nat] /\ h[0] = 0
    <3>1. ASSUME NEW i \in 0..m + n PROVE (IF i <= m THEN f[i] ELSE f[m] + g[i - m]) \in Nat
      <4>1. f[m] \in Nat BY <1>2, <1>9
      <4>2. CASE i <= m
        <5>1. i \in 0..m BY <1>2, <4>2
        <5>2. QED BY <1>9, <4>2, <5>1
      <4>3. CASE ~(i <= m)
        <5>1. i - m \in 0..n BY <1>2, <4>3
        <5>2. g[i - m] \in Nat BY <1>9, <5>1
        <5>3. QED BY <4>1, <4>3, <5>2
      <4>4. QED BY <4>2, <4>3
    <3>2. h \in [0..m + n -> Nat] BY <3>1
    <3>3. 0 \in 0..m + n /\ 0 <= m BY <1>2
    <3>4. h[0] = f[0] BY <3>3
    <3>5. QED BY <1>9, <3>2, <3>4
  <2>2. ASSUME NEW i \in 1..m + n PROVE h[i] = h[i - 1] + Words(c)[i]
    <3>1. i \in 0..m + n /\ i - 1 \in 0..m + n BY <1>2
    <3>2. CASE i <= m
      <4>1. i \in 1..m /\ i - 1 <= m BY <1>2, <3>2
      <4>2. h[i] = f[i] /\ h[i - 1] = f[i - 1] BY <3>1, <3>2, <4>1
      <4>3. QED BY <1>6, <1>9, <4>1, <4>2
    <3>3. CASE ~(i <= m)
      <4> DEFINE k == i - m
      <4>1. k \in 1..n /\ m + k = i /\ i - 1 - m = k - 1 /\ k - 1 \in 0..n BY <1>2, <3>3
      <4>2. h[i] = f[m] + g[k] BY <3>1, <3>3
      <4>3. h[i - 1] = f[m] + g[k - 1]
        <5>1. CASE i - 1 <= m
          <6>1. i - 1 = m /\ k - 1 = 0 BY <1>2, <3>3, <5>1
          <6>2. h[i - 1] = f[m] BY <3>1, <6>1
          <6>3. g[k - 1] = 0 BY <1>9, <6>1
          <6>4. f[m] \in Nat BY <1>2, <1>9
          <6>5. QED BY <6>2, <6>3, <6>4
        <5>2. CASE ~(i - 1 <= m) BY <3>1, <4>1, <5>2
        <5>3. QED BY <5>1, <5>2
      <4> HIDE DEF k, h
      <4>4. g[k] = g[k - 1] + Words(b)[k] /\ Words(c)[i] = Words(b)[k] BY <1>7, <1>9, <4>1
      <4>5. f[m] \in Nat /\ g[k - 1] \in Nat /\ Words(b)[k] \in Nat
        BY <1>2, <1>8, <1>9, <4>1
      <4>6. QED BY <4>2, <4>3, <4>4, <4>5
    <3>4. QED BY <3>2, <3>3
  <2>3. QED BY <2>1, <2>2 DEF PartialSums
<1>11. h[m + n] = f[m] + g[n]
  <2>1. CASE n = 0
    <3>1. m + n = m BY <1>2, <2>1
    <3>2. h[m + n] = f[m] BY <1>2, <3>1
    <3>3. g[n] = 0 /\ f[m] \in Nat BY <1>2, <1>9, <2>1
    <3>4. QED BY <3>2, <3>3
  <2>2. CASE n # 0 BY <1>2, <2>2
  <2>3. QED BY <2>1, <2>2
<1> HIDE DEF h
<1>12. WordSum(c) = h[m + n] + Odd(c) BY <1>1, <1>2, <1>10, WordSumIs
<1>13. WordSum(a) = f[m] + Odd(a) /\ WordSum(b) = g[n] + Odd(b)
  BY <1>4, <1>5, WordSumIs DEF m, n
<1>14. f[m] \in Nat /\ g[n] \in Nat /\ Odd(b) \in Nat BY <1>2, <1>9, WordsTyped
<1>15. QED BY <1>3, <1>11, <1>12, <1>13, <1>14 DEF c

\* A number of sixteen bits, written as two bytes, adds itself.
LEMMA WordSumBytes ==
  ASSUME NEW s \in 0..Word - 1
  PROVE  BigEndian16(s) \in Seq(Byte) /\ Len(BigEndian16(s)) = 2 /\ WordSum(BigEndian16(s)) = s
<1> DEFINE bs == BigEndian16(s)
           f == [i \in 0..1 |-> IF i = 0 THEN 0 ELSE s]
<1>1. s \in Nat /\ s < 65536 BY WordRange
<1>2. /\ bs \in Seq(Byte) /\ Len(bs) = 2 /\ 256 * bs[1] + bs[2] = s
  <2>1. Word \in Nat BY DEF Word
  <2>2. s < Word BY <2>1
  <2>3. QED BY <1>1, <2>2, LengthBytes
<1> HIDE DEF bs
<1>3. Halves(bs) = 1 /\ Odd(bs) = 0 BY <1>2 DEF Halves, Odd
<1>4. Words(bs)[1] = s BY <1>2, <1>3 DEF Words
<1>5. PartialSums(1, Words(bs), f) BY <1>1, <1>4 DEF PartialSums
<1>6. WordSum(bs) = f[1] + 0
  <2> HIDE DEF f
  <2>1. QED BY <1>2, <1>3, <1>5, WordSumIs
<1>7. QED BY <1>1, <1>2, <1>6 DEF bs

\* The checksum of bytes whose sum is n makes their sum a positive multiple of
\* 2^16 - 1.
LEMMA ChecksumCompletes ==
  ASSUME NEW bs, WordSum(bs) \in Nat
  PROVE  /\ OneAdd(bs) \in 0..Word - 1
         /\ \E c \in Nat : WordSum(bs) + OneAdd(bs) = (Word - 1) * (c + 1)
<1> DEFINE n == WordSum(bs)
           r == Folded(n)
<1>1. n \in Nat OBVIOUS
<1>2. OneAdd(bs) = (-1 - r) % 65536 BY DEF OneAdd, Word
<1> HIDE DEF n
<1>3. r \in 0..Word - 1 /\ \E c \in Nat : n - r = (Word - 1) * c
  BY <1>1, FoldedProperties
<1> HIDE DEF r
<1>4. r \in Nat /\ r < 65536 BY <1>3, WordRange
<1>5. OneAdd(bs) = 65535 - r BY <1>2, <1>4
<1>6. PICK c \in Nat : n - r = (Word - 1) * c BY <1>3
<1>7. n + OneAdd(bs) = (Word - 1) * (c + 1) BY <1>1, <1>4, <1>5, <1>6 DEF Word
<1>8. OneAdd(bs) \in 0..Word - 1
  <2>1. OneAdd(bs) = Word - 1 - r BY <1>5 DEF Word
  <2>2. Word \in Nat BY DEF Word
  <2>3. QED BY <1>3, <2>1, <2>2
<1>9. QED BY <1>7, <1>8 DEF n

-----------------------------------------------------------------------------
(* The two checksums of a frame (udp.go:84-143)                            *)

\* The length of a concatenation of bytes.
LEMMA BytesConcat ==
  ASSUME NEW a \in Seq(Byte), NEW b \in Seq(Byte)
  PROVE  a \o b \in Seq(Byte) /\ Len(a \o b) = Len(a) + Len(b)
BY HoldsParts

\* The lengths in the headers are 16-bit numbers.
LEMMA LengthsTyped ==
  ASSUME NEW p, Len(p.payload) \in Nat
  PROVE  IpLength(p) \in Nat /\ UdpLength(p) \in Nat
<1> DEFINE n == Len(p.payload)
<1>1. /\ IpLength(p) = (n + 8 + 20) % 65536 /\ UdpLength(p) = (n + 8) % 65536
      /\ n \in Nat
  BY DEF IpLength, UdpLength, Word
<1> HIDE DEF n
<1>2. QED BY <1>1

\* A checksum field at an even offset adds the checksum to the rest's sum.
LEMMA SumOfField ==
  ASSUME NEW a \in Seq(Byte), Len(a) % 2 = 0, NEW b \in Seq(Byte), NEW s \in 0..Word - 1
  PROVE  LET c == a \o BigEndian16(s) \o b IN
         /\ c \in Seq(Byte) /\ Len(c) = Len(a) + 2 + Len(b)
         /\ WordSum(c) = WordSum(a) + s + WordSum(b)
<1> DEFINE w == BigEndian16(s)
           e == a \o w
<1>1. w \in Seq(Byte) /\ Len(w) = 2 /\ WordSum(w) = s BY WordSumBytes
<1>2. Len(a) \in Nat /\ Len(b) \in Nat BY LenProperties
<1> HIDE DEF w
<1>3. e \in Seq(Byte) /\ Len(e) = Len(a) + 2 /\ WordSum(e) = WordSum(a) + s
  <2>1. e \in Seq(Byte) /\ Len(e) = Len(a) + Len(w) BY <1>1, BytesConcat
  <2>2. WordSum(e) = WordSum(a) + WordSum(w) BY <1>1, WordSumConcat
  <2>3. QED BY <1>1, <2>1, <2>2
<1>4. Len(e) % 2 = 0 /\ Len(e) \in Nat BY <1>2, <1>3
<1> HIDE DEF e
<1>5. /\ e \o b \in Seq(Byte) /\ Len(e \o b) = Len(a) + 2 + Len(b)
      /\ WordSum(e \o b) = WordSum(a) + s + WordSum(b)
  <2>1. e \o b \in Seq(Byte) /\ Len(e \o b) = Len(e) + Len(b)
    BY <1>3, BytesConcat
  <2>2. WordSum(e \o b) = WordSum(e) + WordSum(b) BY <1>3, <1>4, WordSumConcat
  <2>3. QED BY <1>3, <2>1, <2>2
<1>6. QED BY <1>5 DEF e, w

\* The IP header's length and sum, whatever its checksum is.
LEMMA HeaderSum ==
  ASSUME NEW p, Len(p.payload) \in Nat
  PROVE  \E k \in Nat : \A s \in 0..Word - 1 :
           /\ IpHeader(p, s) \in Seq(Byte) /\ Len(IpHeader(p, s)) = 20
           /\ WordSum(IpHeader(p, s)) = k + s
<1> DEFINE l == BigEndian16(IpLength(p))
           v == <<69, 0>>
           m == <<0, 0, 0, 0, 64, 17>>
           a == v \o l
           b == a \o m
           d == DstIp(p)
           k == WordSum(b) + WordSum(SrcIp) + WordSum(d)
<1>1. /\ v \in Seq(Byte) /\ m \in Seq(Byte) /\ SrcIp \in Seq(Byte) /\ d \in Seq(Byte)
      /\ Len(v) = 2 /\ Len(m) = 6 /\ Len(SrcIp) = 4 /\ Len(d) = 4
  BY ShortSeqs
<1>2. l \in Seq(Byte) /\ Len(l) = 2
  <2>1. IpLength(p) \in Nat BY LengthsTyped
  <2>2. QED BY <2>1, LengthBytes
<1>3. \A s : IpHeader(p, s) = (b \o BigEndian16(s) \o SrcIp) \o d BY DEF IpHeader
<1> HIDE DEF l, v, m, d
<1>4. a \in Seq(Byte) /\ Len(a) = 4
  <2>1. a \in Seq(Byte) /\ Len(a) = Len(v) + Len(l) BY <1>1, <1>2, BytesConcat
  <2>2. QED BY <1>1, <1>2, <2>1
<1> HIDE DEF a
<1>5. b \in Seq(Byte) /\ Len(b) = 10
  <2>1. b \in Seq(Byte) /\ Len(b) = Len(a) + Len(m) BY <1>1, <1>4, BytesConcat
  <2>2. QED BY <1>1, <1>4, <2>1
<1> HIDE DEF b
<1>6. WordSum(b) \in Nat /\ WordSum(SrcIp) \in Nat /\ WordSum(d) \in Nat
  BY <1>1, <1>5, WordSumTyped
<1>7. ASSUME NEW s \in 0..Word - 1
      PROVE  /\ IpHeader(p, s) \in Seq(Byte) /\ Len(IpHeader(p, s)) = 20
             /\ WordSum(IpHeader(p, s)) = k + s
  <2> DEFINE c == b \o BigEndian16(s) \o SrcIp
  <2>1. /\ c \in Seq(Byte) /\ Len(c) = 16
        /\ WordSum(c) = WordSum(b) + s + WordSum(SrcIp)
    <3>1. 10 % 2 = 0 OBVIOUS
    <3>2. /\ c \in Seq(Byte) /\ Len(c) = Len(b) + 2 + Len(SrcIp)
          /\ WordSum(c) = WordSum(b) + s + WordSum(SrcIp)
      BY <1>1, <1>5, <3>1, SumOfField, Zenon
    <3>3. QED BY <1>1, <1>5, <3>2
  <2>2. IpHeader(p, s) = c \o d BY <1>3
  <2> HIDE DEF c
  <2>3. /\ c \o d \in Seq(Byte) /\ Len(c \o d) = 20
        /\ WordSum(c \o d) = WordSum(c) + WordSum(d)
    <3>1. c \o d \in Seq(Byte) /\ Len(c \o d) = Len(c) + Len(d)
      BY <1>1, <2>1, BytesConcat
    <3>2. Len(c) % 2 = 0 BY <2>1
    <3>3. WordSum(c \o d) = WordSum(c) + WordSum(d) BY <1>1, <2>1, <3>2, WordSumConcat
    <3>4. QED BY <1>1, <2>1, <3>1, <3>3
  <2>4. s \in Nat BY WordRange
  <2>5. QED BY <1>6, <2>1, <2>2, <2>3, <2>4
<1>8. k \in Nat BY <1>6
<1> HIDE DEF k
<1>9. QED BY <1>7, <1>8

\* The sum of the UDP segment behind its pseudo header, whatever its checksum is.
LEMMA SegmentSum ==
  ASSUME NEW p, p.payload \in Seq(Byte)
  PROVE  \E k \in Nat : \A s \in 0..Word - 1 :
           WordSum(PseudoHeader(p) \o UdpSegment(p, s)) = k + s
<1> DEFINE t == p.payload
           z == <<0, 17>>
           ports == <<12, 2, 12, 2>>
           d == DstIp(p)
           l1 == BigEndian16(Len(t) + 8)
           l2 == BigEndian16(UdpLength(p))
           x == SrcIp \o d
           y == x \o z
           h == y \o l1
           a == ports \o l2
           k == WordSum(h) + WordSum(a) + WordSum(t)
<1>1. /\ SrcIp \in Seq(Byte) /\ d \in Seq(Byte) /\ ports \in Seq(Byte) /\ z \in Seq(Byte)
      /\ Len(SrcIp) = 4 /\ Len(d) = 4 /\ Len(ports) = 4 /\ Len(z) = 2
  <2>1. z \in Seq(Byte) /\ Len(z) = 2 BY DEF Byte
  <2>2. QED BY <2>1, ShortSeqs
<1>2. Len(t) \in Nat BY LenProperties
<1>3. l1 \in Seq(Byte) /\ Len(l1) = 2 /\ l2 \in Seq(Byte) /\ Len(l2) = 2
  <2>1. UdpLength(p) \in Nat /\ Len(t) + 8 \in Nat BY <1>2, LengthsTyped
  <2>2. QED BY <2>1, LengthBytes
<1>4. /\ PseudoHeader(p) = h
      /\ \A s : UdpSegment(p, s) = a \o BigEndian16(s) \o t
  BY DEF PseudoHeader, UdpSegment
<1>5. t \in Seq(Byte) OBVIOUS
<1> HIDE DEF l1, l2, d, z, ports, t
<1>6. x \in Seq(Byte) /\ Len(x) = 8
  <2>1. x \in Seq(Byte) /\ Len(x) = Len(SrcIp) + Len(d) BY <1>1, BytesConcat
  <2>2. QED BY <1>1, <2>1
<1> HIDE DEF x
<1>7. y \in Seq(Byte) /\ Len(y) = 10
  <2>1. y \in Seq(Byte) /\ Len(y) = Len(x) + Len(z) BY <1>1, <1>6, BytesConcat
  <2>2. QED BY <1>1, <1>6, <2>1
<1> HIDE DEF y
<1>8. h \in Seq(Byte) /\ Len(h) = 12
  <2>1. h \in Seq(Byte) /\ Len(h) = Len(y) + Len(l1) BY <1>3, <1>7, BytesConcat
  <2>2. QED BY <1>3, <1>7, <2>1
<1>9. a \in Seq(Byte) /\ Len(a) = 6
  <2>1. a \in Seq(Byte) /\ Len(a) = Len(ports) + Len(l2) BY <1>1, <1>3, BytesConcat
  <2>2. QED BY <1>1, <1>3, <2>1
<1> HIDE DEF h, a
<1>10. WordSum(h) \in Nat /\ WordSum(a) \in Nat /\ WordSum(t) \in Nat
  BY <1>5, <1>8, <1>9, WordSumTyped
<1>11. ASSUME NEW s \in 0..Word - 1
       PROVE  WordSum(PseudoHeader(p) \o UdpSegment(p, s)) = k + s
  <2> DEFINE c == a \o BigEndian16(s) \o t
  <2>1. c \in Seq(Byte) /\ WordSum(c) = WordSum(a) + s + WordSum(t)
    <3>1. Len(a) % 2 = 0 BY <1>9
    <3>2. QED BY <1>5, <1>9, <3>1, SumOfField, Zenon
  <2>2. UdpSegment(p, s) = c BY <1>4
  <2> HIDE DEF c
  <2>3. WordSum(h \o c) = WordSum(h) + WordSum(c)
    <3>1. Len(h) % 2 = 0 BY <1>8
    <3>2. QED BY <1>8, <2>1, <3>1, WordSumConcat
  <2>4. s \in Nat BY WordRange
  <2>5. QED BY <1>4, <1>10, <2>1, <2>2, <2>3, <2>4
<1>12. k \in Nat BY <1>10
<1> HIDE DEF k
<1>13. QED BY <1>11, <1>12

\* With the checksums AsTransmittablePcap computes, the IP header and the UDP
\* segment behind its pseudo header both add up to a positive multiple of
\* 2^16 - 1, for a payload of any bytes and any length.
THEOREM ChecksumsComplete ==
  ASSUME NEW p, p.payload \in Seq(Byte)
  PROVE  LET s1 == OneAdd(IpHeader(p, 0))
             s2 == OneAdd(PseudoHeader(p) \o UdpSegment(p, 0))
         IN  /\ s1 \in 0..Word - 1 /\ s2 \in 0..Word - 1
             /\ IpHeader(p, s1) \in Seq(Byte) /\ Len(IpHeader(p, s1)) = 20
             /\ \E c \in Nat : WordSum(IpHeader(p, s1)) = (Word - 1) * (c + 1)
             /\ \E c \in Nat :
                  WordSum(PseudoHeader(p) \o UdpSegment(p, s2)) = (Word - 1) * (c + 1)
<1> DEFINE h(s) == IpHeader(p, s)
           u(s) == PseudoHeader(p) \o UdpSegment(p, s)
           s1 == OneAdd(h(0))
           s2 == OneAdd(u(0))
<1>1. Len(p.payload) \in Nat BY LenProperties
<1>2. PICK k \in Nat : \A s \in 0..Word - 1 :
        h(s) \in Seq(Byte) /\ Len(h(s)) = 20 /\ WordSum(h(s)) = k + s
  BY <1>1, HeaderSum
<1>3. PICK j \in Nat : \A s \in 0..Word - 1 : WordSum(u(s)) = j + s BY SegmentSum
<1>4. 0 \in 0..Word - 1 BY DEF Word
<1> HIDE DEF h, u
<1>5. WordSum(h(0)) = k /\ WordSum(u(0)) = j BY <1>2, <1>3, <1>4
<1>6. /\ s1 \in 0..Word - 1 /\ \E c \in Nat : k + s1 = (Word - 1) * (c + 1)
      /\ s2 \in 0..Word - 1 /\ \E c \in Nat : j + s2 = (Word - 1) * (c + 1)
  BY <1>5, ChecksumCompletes
<1> HIDE DEF s1, s2
<1>7. /\ h(s1) \in Seq(Byte) /\ Len(h(s1)) = 20 /\ WordSum(h(s1)) = k + s1
      /\ WordSum(u(s2)) = j + s2
  BY <1>2, <1>3, <1>6
<1>8. QED BY <1>6, <1>7 DEF h, u, s1, s2
=============================================================================
