--------------------------- MODULE CoapPdu_proofs ---------------------------
(***************************************************************************)
(* Proofs about CoapPdu, for every set of numbers, lengths and payloads,   *)
(* and any number of options.  A walk that lies in a message is shown to   *)
(* be the one computed (WalkIs); each step of the sender and each cut of   *)
(* the receiver then only has to say which walk lies in the new message.   *)
(* WalkIs counts steps; its induction is the library's on a set of numbers *)
(* (EveryNumber).                                                          *)
(***************************************************************************)
EXTENDS CoapPdu, TLAPS, FunctionTheorems, FiniteSetTheorems, WellFoundedInduction

Byte == 0 .. 255
Uint16 == 0 .. Word - 1

-----------------------------------------------------------------------------
(* Numbers.                                                                *)

\* A set of numbers that is not empty has a least one.
LEMMA LeastNumber ==
  ASSUME NEW T \in SUBSET Nat, T # {}
  PROVE  \E x \in T : \A y \in T : x <= y
<1> DEFINE less == {p \in Nat \X Nat : p[1] < p[2]}
<1>1. less = OpToRel(<, Nat)
  BY DEF OpToRel
<1>2. IsWellFoundedOn(less, Nat)
  BY <1>1, NatLessThanWellFounded
<1>3. PICK x \in T : \A y \in T : <<y, x>> \notin less
  BY <1>2, WFMin
<1>4. ASSUME NEW y \in T
      PROVE  x <= y
  <2>1. x \in Nat /\ y \in Nat /\ <<y, x>> \notin less
    BY <1>3
  <2> QED BY <2>1
<1> QED BY <1>3, <1>4

\* What holds of 0, and of n + 1 if of n, holds of every number.
LEMMA EveryNumber ==
  ASSUME NEW T \in SUBSET Nat, 0 \in T, \A n \in T : n + 1 \in T
  PROVE  T = Nat
<1> SUFFICES ASSUME Nat \ T # {}
             PROVE  FALSE
  OBVIOUS
<1>1. PICK x \in Nat \ T : \A y \in Nat \ T : x <= y
  BY LeastNumber
<1>2. x - 1 \in Nat /\ x - 1 \notin Nat \ T
  BY <1>1
<1> QED BY <1>1, <1>2

-----------------------------------------------------------------------------
(* Sequences.                                                              *)

\* Cat hides how two sequences are joined from proofs that need only this.
Cat(s, t) == s \o t

\* What two sequences joined hold.
LEMMA Joined ==
  ASSUME NEW s \in Seq(Byte), NEW t \in Seq(Byte)
  PROVE  /\ Cat(s, t) \in Seq(Byte) /\ Len(Cat(s, t)) = Len(s) + Len(t)
         /\ \A i \in 1 .. Len(s) : Cat(s, t)[i] = s[i]
         /\ \A i \in 1 .. Len(t) : Cat(s, t)[i + Len(s)] = t[i]
BY DEF Cat

\* What a part of a sequence holds.
LEMMA Slice ==
  ASSUME NEW X, NEW s \in Seq(X), NEW m \in Nat \ {0}, NEW n \in Nat, n <= Len(s), m <= n + 1
  PROVE  /\ SubSeq(s, m, n) \in Seq(X) /\ Len(SubSeq(s, m, n)) = n - m + 1
         /\ \A i \in 1 .. n - m + 1 : SubSeq(s, m, n)[i] = s[m + i - 1]
OBVIOUS

\* What a sequence with one element more holds.
LEMMA OneMore ==
  ASSUME NEW X, NEW s \in Seq(X), NEW x \in X
  PROVE  /\ Append(s, x) \in Seq(X) /\ Len(Append(s, x)) = Len(s) + 1
         /\ Append(s, x)[Len(s) + 1] = x
         /\ \A i \in 1 .. Len(s) : Append(s, x)[i] = s[i]
OBVIOUS

\* Sequences that hold the same are the same.
LEMMA SameSequence ==
  ASSUME NEW s \in Seq(Byte), NEW t \in Seq(Byte), Len(s) = Len(t),
         \A i \in 1 .. Len(t) : s[i] = t[i]
  PROVE  s = t
OBVIOUS

\* t lies in s from p on.
LiesAt(s, p, t) ==
  /\ p + Len(t) - 1 <= Len(s)
  /\ \A k \in 1 .. Len(t) : s[p + k - 1] = t[k]

\* A sequence lies in itself.
LEMMA LiesSelf ==
  ASSUME NEW t \in Seq(Byte)
  PROVE  LiesAt(t, 1, t)
BY DEF LiesAt

\* What lies in the first of two lies in the two joined.
LEMMA LiesLeft ==
  ASSUME NEW s \in Seq(Byte), NEW u \in Seq(Byte), NEW t \in Seq(Byte), NEW p \in Nat \ {0},
         LiesAt(s, p, t)
  PROVE  LiesAt(Cat(s, u), p, t)
<1>1. Len(Cat(s, u)) = Len(s) + Len(u) /\ \A i \in 1 .. Len(s) : Cat(s, u)[i] = s[i]
  BY Joined
<1>2. PICK n \in Nat, m \in Nat, l \in Nat : n = Len(s) /\ m = Len(u) /\ l = Len(t)
  OBVIOUS
<1> QED BY <1>1, <1>2 DEF LiesAt

\* What lies in the second of two lies in the two joined, further behind.
LEMMA LiesRight ==
  ASSUME NEW s \in Seq(Byte), NEW u \in Seq(Byte), NEW t \in Seq(Byte), NEW p \in Nat \ {0},
         LiesAt(s, p, t)
  PROVE  LiesAt(Cat(u, s), Len(u) + p, t)
<1>1. Len(Cat(u, s)) = Len(u) + Len(s) /\ \A i \in 1 .. Len(s) : Cat(u, s)[i + Len(u)] = s[i]
  BY Joined
<1>2. PICK n \in Nat, m \in Nat, l \in Nat : n = Len(s) /\ m = Len(u) /\ l = Len(t)
  OBVIOUS
<1>3. ASSUME NEW k \in 1 .. l
      PROVE  Cat(u, s)[m + p + k - 1] = t[k]
  <2>1. p + k - 1 \in 1 .. n /\ s[p + k - 1] = t[k]
    BY <1>2 DEF LiesAt
  <2>2. Cat(u, s)[(p + k - 1) + m] = s[p + k - 1]
    BY <1>1, <1>2, <2>1
  <2>3. (p + k - 1) + m = m + p + k - 1
    BY <1>2
  <2> QED BY <2>1, <2>2, <2>3
<1> QED BY <1>1, <1>2, <1>3 DEF LiesAt

\* What lies within a part lies in the part.
LEMMA LiesSlice ==
  ASSUME NEW s \in Seq(Byte), NEW t \in Seq(Byte), NEW p \in Nat \ {0},
         NEW m \in Nat \ {0}, NEW n \in Nat, n <= Len(s), m <= n + 1,
         LiesAt(s, p, t), m <= p, p + Len(t) - 1 <= n
  PROVE  LiesAt(SubSeq(s, m, n), p - m + 1, t)
<1>1. PICK l \in Nat, h \in Nat : l = Len(t) /\ h = Len(s)
  OBVIOUS
<1> DEFINE u == SubSeq(s, m, n)
<1>2. /\ u \in Seq(Byte) /\ Len(u) = n - m + 1
      /\ \A i \in 1 .. n - m + 1 : u[i] = s[m + i - 1]
  BY Slice
<1> HIDE DEF u
<1>3. ASSUME NEW k \in 1 .. l
      PROVE  u[(p - m + 1) + k - 1] = t[k]
  <2>1. (p - m + 1) + k - 1 \in 1 .. n - m + 1 /\ m + ((p - m + 1) + k - 1) - 1 = p + k - 1
    BY <1>1
  <2>2. s[p + k - 1] = t[k]
    BY <1>1 DEF LiesAt
  <2> QED BY <1>2, <2>1, <2>2
<1>4. LiesAt(u, p - m + 1, t)
  BY <1>1, <1>2, <1>3 DEF LiesAt
<1> QED BY <1>4 DEF u

\* Two sequences joined lie where the one lies and then the other.
LEMMA LiesJoined ==
  ASSUME NEW s \in Seq(Byte), NEW u \in Seq(Byte), NEW v \in Seq(Byte), NEW p \in Nat \ {0}
  PROVE  LiesAt(s, p, Cat(u, v)) <=> LiesAt(s, p, u) /\ LiesAt(s, p + Len(u), v)
<1>1. /\ Len(Cat(u, v)) = Len(u) + Len(v)
      /\ \A i \in 1 .. Len(u) : Cat(u, v)[i] = u[i]
      /\ \A i \in 1 .. Len(v) : Cat(u, v)[i + Len(u)] = v[i]
  BY Joined
<1>2. PICK n \in Nat, m \in Nat, l \in Nat : n = Len(u) /\ m = Len(v) /\ l = Len(s)
  OBVIOUS
<1>3. ASSUME LiesAt(s, p, Cat(u, v))
      PROVE  LiesAt(s, p, u) /\ LiesAt(s, p + Len(u), v)
  <2>1. LiesAt(s, p, u)
    BY <1>1, <1>2, <1>3 DEF LiesAt
  <2>2. ASSUME NEW k \in 1 .. m
        PROVE  s[p + n + k - 1] = v[k]
    <3>1. k + n \in 1 .. n + m /\ p + (k + n) - 1 = p + n + k - 1
      BY <1>2
    <3>2. s[p + (k + n) - 1] = Cat(u, v)[k + n]
      BY <1>1, <1>2, <1>3, <3>1 DEF LiesAt
    <3> QED BY <1>1, <1>2, <3>1, <3>2
  <2> QED BY <1>1, <1>2, <1>3, <2>1, <2>2 DEF LiesAt
<1>4. ASSUME LiesAt(s, p, u), LiesAt(s, p + Len(u), v)
      PROVE  LiesAt(s, p, Cat(u, v))
  <2>1. ASSUME NEW k \in 1 .. n + m
        PROVE  s[p + k - 1] = Cat(u, v)[k]
    <3>1. CASE k <= n
      BY <1>1, <1>2, <1>4, <3>1 DEF LiesAt
    <3>2. CASE k > n
      <4>1. k - n \in 1 .. m /\ (k - n) + n = k /\ p + n + (k - n) - 1 = p + k - 1
        BY <1>2, <3>2
      <4>2. s[p + n + (k - n) - 1] = v[k - n]
        BY <1>2, <1>4, <4>1 DEF LiesAt
      <4>3. Cat(u, v)[(k - n) + n] = v[k - n]
        BY <1>1, <1>2, <4>1
      <4> QED BY <4>1, <4>2, <4>3
    <3> QED BY <1>2, <3>1, <3>2
  <2> QED BY <1>1, <1>2, <1>4, <2>1 DEF LiesAt
<1> QED BY <1>3, <1>4

-----------------------------------------------------------------------------
(* How a number and an option are coded.                                   *)

\* Taken in two steps: 0 .. 65535 is too large to be written out.
LEMMA NumberIs ==
  ASSUME NEW d \in Uint16
  PROVE  d \in Nat /\ d < 65536
<1>1. Word \in Nat
  BY DEF Word
<1>2. d \in Nat /\ d < Word
  BY <1>1 DEF Uint16
<1> QED BY <1>2 DEF Word

\* The two bytes of a number.
LEMMA TwoBytes ==
  ASSUME NEW n \in Nat, n < 65536
  PROVE  /\ n % 256 \in Byte /\ n \div 256 \in Byte
         /\ n % 256 \in Nat /\ n \div 256 \in Nat /\ (n % 256) + 256 * (n \div 256) = n
<1>1. n % 256 \in 0 .. 255 /\ n \div 256 \in 0 .. 255
  OBVIOUS
<1> QED BY <1>1 DEF Byte

\* The nibble of a number and the bytes behind it.
LEMMA NumberCoded ==
  ASSUME NEW d \in Uint16
  PROVE  /\ ExtraBytes(d) \in 0 .. 2 /\ Nibble(d) \in 0 .. 14
         /\ Extension(d) \in Seq(Byte) /\ Len(Extension(d)) = ExtraBytes(d)
         /\ ExtraBytes(Nibble(d)) = IF d < 13 THEN 0 ELSE 1
         /\ d < 13 => Nibble(d) = d
         /\ (d >= 13 /\ d < 269) => Nibble(d) = 13 /\ ExtraBytes(d) = 1
         /\ d >= 269 => Nibble(d) = 14 /\ ExtraBytes(d) = 2
<1>0. d \in Nat
  BY DEF Uint16
<1>1. CASE d < 13
  <2>1. ExtraBytes(d) = 0 /\ Nibble(d) = d
    BY <1>0, <1>1 DEF ExtraBytes, Nibble
  <2>2. Extension(d) = <<>>
    BY <2>1 DEF Extension
  <2> QED BY <1>0, <1>1, <2>1, <2>2
<1>2. CASE d >= 13 /\ d < 269
  <2>1. ExtraBytes(d) = 1 /\ Nibble(d) = 13
    BY <1>0, <1>2 DEF ExtraBytes, Nibble
  <2>2. Extension(d) = <<d - 13>> /\ d - 13 \in Byte
    BY <1>0, <1>2, <2>1 DEF Extension, Byte
  <2>3. ExtraBytes(13) = 1
    BY DEF ExtraBytes
  <2> QED BY <1>0, <1>2, <2>1, <2>2, <2>3
<1>3. CASE d >= 269
  <2>1. ExtraBytes(d) = 2 /\ Nibble(d) = 14
    BY <1>0, <1>3 DEF ExtraBytes, Nibble
  <2>2. (d - 269) % 256 \in Byte /\ (d - 269) \div 256 \in Byte
    <3>1. PICK n \in Nat : n = d - 269 /\ n < 65536
      BY <1>0, <1>3, NumberIs
    <3> QED BY <3>1, TwoBytes
  <2>3. Extension(d) = <<(d - 269) % 256, (d - 269) \div 256>>
    BY <2>1 DEF Extension
  <2>4. ExtraBytes(14) = 1
    BY DEF ExtraBytes
  <2>5. Extension(d) \in Seq(Byte) /\ Len(Extension(d)) = 2
    BY <2>2, <2>3
  <2> QED BY <1>0, <1>3, <2>1, <2>4, <2>5
<1> QED BY <1>0, <1>1, <1>2, <1>3

\* A number is read as it was written.
LEMMA NumberRead ==
  ASSUME NEW d \in Uint16, NEW s \in Seq(Byte), NEW q \in Nat \ {0}, LiesAt(s, q, Extension(d))
  PROVE  Extended(Nibble(d), s, q) = d
<1>1. CASE d < 13
  BY <1>1, NumberCoded DEF Extended, Uint16
<1>2. CASE d >= 13 /\ d < 269
  <2>1. Nibble(d) = 13 /\ Extension(d) = <<d - 13>>
    BY <1>2, NumberCoded DEF Extension
  <2>2. q <= Len(s) /\ s[q] = d - 13
    BY <2>1 DEF LiesAt, Uint16
  <2>3. At(s, q) = d - 13
    BY <2>2 DEF At
  <2> QED BY <1>2, <2>1, <2>3 DEF Extended, Uint16
<1>3. CASE d >= 269
  <2>1. Nibble(d) = 14 /\ Extension(d) = <<(d - 269) % 256, (d - 269) \div 256>>
    BY <1>3, NumberCoded DEF Extension
  <2>2. q + 1 <= Len(s) /\ s[q] = (d - 269) % 256 /\ s[q + 1] = (d - 269) \div 256
    BY <2>1 DEF LiesAt
  <2>3. At(s, q) = (d - 269) % 256 /\ At(s, q + 1) = (d - 269) \div 256
    BY <2>2 DEF At
  <2>4. (((d - 269) % 256) + 256 * ((d - 269) \div 256) + 269) % Word = d
    <3>0. d \in Nat /\ d < 65536
      BY NumberIs
    <3>1. PICK n \in Nat : n = d - 269 /\ d = n + 269 /\ n + 269 < 65536 /\ n < 65536
      BY <1>3, <3>0
    <3>2. (n % 256) + 256 * (n \div 256) = n
      BY <3>1, TwoBytes
    <3>3. (n + 269) % Word = n + 269
      BY <3>1 DEF Word
    <3> QED BY <3>1, <3>2, <3>3
  <2>5. Extended(14, s, q) = (At(s, q) + 256 * At(s, q + 1) + 269) % Word
    BY DEF Extended
  <2> QED BY <2>1, <2>3, <2>4, <2>5
<1> QED BY <1>1, <1>2, <1>3 DEF Uint16

Header(d, l) == 16 * Nibble(d) + Nibble(l)

\* The two nibbles of a header are read back, and none makes it a marker.
LEMMA HeaderRead ==
  ASSUME NEW d \in Uint16, NEW l \in Uint16
  PROVE  /\ Header(d, l) \in Byte /\ Header(d, l) # Marker
         /\ Header(d, l) \div 16 = Nibble(d) /\ Header(d, l) % 16 = Nibble(l)
<1>1. Nibble(d) \in 0 .. 14 /\ Nibble(l) \in 0 .. 14
  BY NumberCoded
<1>2. ASSUME NEW a \in 0 .. 14, NEW b \in 0 .. 14
      PROVE  /\ 16 * a + b \in Byte /\ 16 * a + b # Marker
             /\ (16 * a + b) \div 16 = a /\ (16 * a + b) % 16 = b
  BY DEF Byte, Marker
<1> QED BY <1>1, <1>2 DEF Header

\* An option as it is written.
Values == {v \in Seq(Byte) : Len(v) \in Uint16}

\* An encoded option lies where its four parts lie, one behind the other.
LEMMA OptionCoded ==
  ASSUME NEW d \in Uint16, NEW v \in Values
  PROVE  /\ Encoded(d, v) \in Seq(Byte)
         /\ Len(Encoded(d, v)) = 1 + ExtraBytes(d) + ExtraBytes(Len(v)) + Len(v)
         /\ \A s \in Seq(Byte), p \in Nat \ {0} :
              LiesAt(s, p, Encoded(d, v)) <=>
                /\ LiesAt(s, p, <<Header(d, Len(v))>>)
                /\ LiesAt(s, p + 1, Extension(d))
                /\ LiesAt(s, p + 1 + ExtraBytes(d), Extension(Len(v)))
                /\ LiesAt(s, p + 1 + ExtraBytes(d) + ExtraBytes(Len(v)), v)
<1> DEFINE h == <<Header(d, Len(v))>>
           x == Extension(d)
           y == Extension(Len(v))
<1>1. /\ v \in Seq(Byte) /\ Len(v) \in Nat
      /\ h \in Seq(Byte) /\ Len(h) = 1
      /\ x \in Seq(Byte) /\ Len(x) = ExtraBytes(d) /\ ExtraBytes(d) \in Nat
      /\ y \in Seq(Byte) /\ Len(y) = ExtraBytes(Len(v)) /\ ExtraBytes(Len(v)) \in Nat
  <2>1. Len(v) \in Uint16 /\ v \in Seq(Byte)
    BY DEF Values
  <2>2. Header(d, Len(v)) \in Byte
    BY <2>1, HeaderRead
  <2> QED BY <2>1, <2>2, NumberCoded
<1>2. Encoded(d, v) = Cat(Cat(Cat(h, x), y), v)
  BY DEF Encoded, Cat, Header
<1> HIDE DEF h, x, y
<1>3. Cat(h, x) \in Seq(Byte) /\ Len(Cat(h, x)) = 1 + ExtraBytes(d)
  <2>1. Cat(h, x) \in Seq(Byte) /\ Len(Cat(h, x)) = Len(h) + Len(x)
    BY ONLY <1>1, Joined
  <2> QED BY Zenon, <1>1, <2>1
<1>4. Cat(Cat(h, x), y) \in Seq(Byte)
      /\ Len(Cat(Cat(h, x), y)) = 1 + ExtraBytes(d) + ExtraBytes(Len(v))
  <2>1. Cat(Cat(h, x), y) \in Seq(Byte) /\ Len(Cat(Cat(h, x), y)) = Len(Cat(h, x)) + Len(y)
    BY ONLY <1>1, <1>3, Joined
  <2> QED BY Zenon, <1>1, <1>3, <2>1
<1>5. Encoded(d, v) \in Seq(Byte)
      /\ Len(Encoded(d, v)) = 1 + ExtraBytes(d) + ExtraBytes(Len(v)) + Len(v)
  <2>1. /\ Cat(Cat(Cat(h, x), y), v) \in Seq(Byte)
        /\ Len(Cat(Cat(Cat(h, x), y), v)) = Len(Cat(Cat(h, x), y)) + Len(v)
    BY ONLY <1>1, <1>4, Joined
  <2> QED BY Zenon, <1>2, <1>4, <2>1
<1>6. ASSUME NEW s \in Seq(Byte), NEW p \in Nat \ {0}
      PROVE  LiesAt(s, p, Encoded(d, v)) <=>
               /\ LiesAt(s, p, h)
               /\ LiesAt(s, p + 1, x)
               /\ LiesAt(s, p + 1 + ExtraBytes(d), y)
               /\ LiesAt(s, p + 1 + ExtraBytes(d) + ExtraBytes(Len(v)), v)
  <2>1. LiesAt(s, p, Encoded(d, v)) <=>
          /\ LiesAt(s, p, Cat(Cat(h, x), y))
          /\ LiesAt(s, p + (1 + ExtraBytes(d) + ExtraBytes(Len(v))), v)
    <3>1. LiesAt(s, p, Cat(Cat(Cat(h, x), y), v)) <=>
            /\ LiesAt(s, p, Cat(Cat(h, x), y))
            /\ LiesAt(s, p + Len(Cat(Cat(h, x), y)), v)
      BY ONLY <1>1, <1>4, LiesJoined
    <3> QED BY Zenon, <1>2, <1>4, <3>1
  <2>2. LiesAt(s, p, Cat(Cat(h, x), y)) <=>
          LiesAt(s, p, Cat(h, x)) /\ LiesAt(s, p + (1 + ExtraBytes(d)), y)
    BY <1>1, <1>3, LiesJoined
  <2>3. LiesAt(s, p, Cat(h, x)) <=> LiesAt(s, p, h) /\ LiesAt(s, p + 1, x)
    BY <1>1, LiesJoined
  <2>4. /\ p + (1 + ExtraBytes(d)) = p + 1 + ExtraBytes(d)
        /\ p + (1 + ExtraBytes(d) + ExtraBytes(Len(v))) = p + 1 + ExtraBytes(d) + ExtraBytes(Len(v))
    BY <1>1
  <2> QED BY <2>1, <2>2, <2>3, <2>4
<1> QED BY <1>5, <1>6 DEF h, x, y

\* How many bytes the length is behind the delta.
LEMMA LengthIsBehind ==
  ASSUME NEW d \in Uint16, NEW s \in Seq(Byte), NEW p \in Nat \ {0}, Upper(s, p) = Nibble(d)
  PROVE  LengthAt(s, p) = Extended(Lower(s, p), s, p + 1 + ExtraBytes(d))
<1>1. (CASE Upper(s, p) = 13 -> 1 [] Upper(s, p) = 14 -> 2 [] OTHER -> 0) = ExtraBytes(d)
  <2>1. CASE d < 13
    <3>1. Upper(s, p) = d /\ ExtraBytes(d) = 0
      BY <2>1 DEF Uint16, ExtraBytes, Nibble
    <3> QED BY <2>1, <3>1 DEF Uint16
  <2>2. CASE d >= 13 /\ d < 269
    <3>1. Upper(s, p) = 13 /\ ExtraBytes(d) = 1
      BY <2>2, NumberCoded
    <3> QED BY <3>1
  <2>3. CASE d >= 269
    <3>1. Upper(s, p) = 14 /\ ExtraBytes(d) = 2
      BY <2>3, NumberCoded
    <3> QED BY <3>1
  <2> QED BY <2>1, <2>2, <2>3 DEF Uint16
<1> QED BY Zenon, <1>1 DEF LengthAt

\* An option that lies in a message is read as it was written.
LEMMA OptionRead ==
  ASSUME NEW d \in Uint16, NEW v \in Values, NEW s \in Seq(Byte), NEW p \in Nat \ {0},
         LiesAt(s, p, Encoded(d, v))
  PROVE  /\ p <= Len(s) /\ s[p] = Header(d, Len(v))
         /\ Upper(s, p) = Nibble(d) /\ Lower(s, p) = Nibble(Len(v))
         /\ DeltaAt(s, p) = d /\ LengthAt(s, p) = Len(v)
         /\ TotalAt(s, p) = Len(Encoded(d, v))
         /\ ~Stops(s, p)
         /\ Stored(s, (p + TotalAt(s, p)) - Len(v), Len(v)) = v
<1>1. PICK l \in Uint16 : l = Len(v)
  BY DEF Values
<1>2. PICK e \in 0 .. 2, f \in 0 .. 2 : e = ExtraBytes(d) /\ f = ExtraBytes(l)
  BY NumberCoded
<1>3. l \in Nat /\ v \in Seq(Byte)
  <2>1. l \in Nat
    BY DEF Uint16
  <2> QED BY <2>1 DEF Values
<1>4. /\ LiesAt(s, p, <<Header(d, l)>>) /\ LiesAt(s, p + 1, Extension(d))
      /\ LiesAt(s, p + 1 + e, Extension(l)) /\ LiesAt(s, p + 1 + e + f, v)
      /\ Len(Encoded(d, v)) = 1 + e + f + l
  BY <1>1, <1>2, OptionCoded
<1>5. p <= Len(s) /\ s[p] = Header(d, l)
  BY <1>4 DEF LiesAt
<1>6. Upper(s, p) = Nibble(d) /\ Lower(s, p) = Nibble(l) /\ At(s, p) # Marker
  <2>1. At(s, p) = Header(d, l)
    BY <1>5 DEF At
  <2> QED BY <2>1, HeaderRead DEF Upper, Lower
<1>7. DeltaAt(s, p) = d
  BY <1>4, <1>6, NumberRead DEF DeltaAt
<1>8. LengthAt(s, p) = l
  <2>1. p + 1 + e \in Nat \ {0}
    OBVIOUS
  <2>2. Extended(Nibble(l), s, p + 1 + e) = l
    BY <1>4, <2>1, NumberRead
  <2> QED BY <1>2, <1>6, <2>2, LengthIsBehind
<1>9. TotalAt(s, p) = 1 + e + f + l
  BY <1>2, <1>7, <1>8 DEF TotalAt
<1>10. p + 1 + e + f + l - 1 <= Len(s)
  BY <1>1, <1>3, <1>4 DEF LiesAt
<1>11. Fits(s, p)
  <2>1. Nibble(d) \in 0 .. 14 /\ Nibble(l) \in 0 .. 14
    BY NumberCoded
  <2>2. ExtraBytes(Nibble(d)) \in Nat /\ ExtraBytes(Nibble(d)) <= e
    BY <1>2, NumberCoded DEF Uint16
  <2>3. ExtraBytes(Nibble(l)) \in Nat /\ ExtraBytes(Nibble(l)) <= f
    BY <1>2, NumberCoded DEF Uint16
  <2>4. p + ExtraBytes(Nibble(d)) + ExtraBytes(Nibble(l)) <= Len(s)
    BY <1>3, <1>10, <2>2, <2>3
  <2>5. p + TotalAt(s, p) - 1 <= Len(s)
    BY <1>3, <1>9, <1>10
  <2> QED BY <1>6, <2>1, <2>4, <2>5 DEF Fits
<1>12. ~Stops(s, p)
  BY <1>5, <1>6, <1>11 DEF Stops
<1>13. Stored(s, p + 1 + e + f, l) = v
  <2>1. PICK q \in Nat \ {0} : q = p + 1 + e + f
    OBVIOUS
  <2>2. ASSUME NEW k \in 1 .. l
        PROVE  At(s, q + k - 1) = v[k]
    <3>1. s[q + k - 1] = v[k]
      BY <1>1, <1>4, <2>1 DEF LiesAt
    <3>2. q + k - 1 \in 1 .. Len(s)
      BY <1>3, <1>10, <2>1
    <3> QED BY <3>1, <3>2 DEF At
  <2>3. v = [k \in 1 .. l |-> v[k]]
    BY <1>1, <1>3
  <2>4. Stored(s, q, l) = [k \in 1 .. l |-> v[k]]
    BY <2>2 DEF Stored
  <2> QED BY <2>1, <2>3, <2>4
<1>14. p + TotalAt(s, p) - l = p + 1 + e + f
  BY <1>3, <1>9
<1> QED BY <1>1, <1>4, <1>5, <1>6, <1>7, <1>8, <1>9, <1>12, <1>13, <1>14

\* Of a number that is cut no more is read than there was, and its nibble still
\* says how many bytes it has.
LEMMA NumberCut ==
  ASSUME NEW d \in Uint16, NEW s \in Seq(Byte), NEW t \in Seq(Byte), NEW q \in Nat \ {0},
         LiesAt(s, q, Extension(d)),
         \A i \in Nat \ {0} : At(t, i) = At(s, i) \/ At(t, i) = 0
  PROVE  /\ Extended(Nibble(d), t, q) \in 0 .. d
         /\ ExtraBytes(Extended(Nibble(d), t, q)) = ExtraBytes(d)
<1>1. CASE d < 13
  BY <1>1, NumberCoded DEF Extended, Uint16
<1>2. CASE d >= 13 /\ d < 269
  <2>1. Nibble(d) = 13 /\ Extension(d) = <<d - 13>> /\ ExtraBytes(d) = 1
    BY <1>2, NumberCoded DEF Extension
  <2>2. At(s, q) = d - 13
    BY <2>1 DEF At, LiesAt, Uint16
  <2>3. PICK x \in 0 .. d - 13 : At(t, q) = x
    BY <1>2, <2>2 DEF Uint16
  <2>4. Extended(13, t, q) = x + 13
    BY <2>3 DEF Extended
  <2>5. ExtraBytes(x + 13) = 1 /\ x + 13 \in 0 .. d
    BY <1>2, <2>3 DEF ExtraBytes, Uint16
  <2> QED BY <2>1, <2>4, <2>5
<1>3. CASE d >= 269
  <2>1. /\ Nibble(d) = 14 /\ Extension(d) = <<(d - 269) % 256, (d - 269) \div 256>>
        /\ ExtraBytes(d) = 2
    BY <1>3, NumberCoded DEF Extension
  <2>2. At(s, q) = (d - 269) % 256 /\ At(s, q + 1) = (d - 269) \div 256
    BY <2>1 DEF At, LiesAt
  <2>3. PICK n \in Nat : n = d - 269 /\ d = n + 269 /\ n + 269 < 65536 /\ n < 65536
    <3>1. d \in Nat /\ d < 65536
      BY NumberIs
    <3> QED BY <1>3, <3>1
  <2>4. /\ n % 256 \in Nat /\ n \div 256 \in Nat /\ (n % 256) + 256 * (n \div 256) = n
    BY <2>3, TwoBytes
  <2>5. PICK x \in Nat, y \in Nat :
          At(t, q) = x /\ At(t, q + 1) = y /\ x <= n % 256 /\ y <= n \div 256
    BY <2>2, <2>3, <2>4
  <2>6. PICK z \in Nat : z = x + 256 * y + 269
    BY <2>5
  <2>7. z <= d /\ z >= 269
    BY <2>3, <2>4, <2>5, <2>6
  <2>8. Extended(14, t, q) = z % Word
    BY <2>5, <2>6 DEF Extended
  <2>9. z % Word = z
    BY <2>3, <2>7 DEF Word
  <2>10. ExtraBytes(z) = 2
    BY <2>7 DEF ExtraBytes
  <2> QED BY <2>1, <2>7, <2>8, <2>9, <2>10 DEF Uint16
<1> QED BY <1>1, <1>2, <1>3 DEF Uint16

\* An option that is cut is none, nor the end.
LEMMA OptionCut ==
  ASSUME NEW d \in Uint16, NEW v \in Values, NEW s \in Seq(Byte), NEW p \in Nat \ {0},
         LiesAt(s, p, Encoded(d, v)),
         NEW cut \in p .. p + Len(Encoded(d, v)) - 2
  PROVE  /\ SubSeq(s, 1, cut)[p] # Marker
         /\ ~Fits(SubSeq(s, 1, cut), p)
<1> DEFINE t == SubSeq(s, 1, cut)
<1>1. PICK l \in Uint16 : l = Len(v)
  BY DEF Values
<1>2. PICK e \in 0 .. 2, f \in 0 .. 2 : e = ExtraBytes(d) /\ f = ExtraBytes(l)
  BY NumberCoded
<1>3. l \in Nat /\ v \in Seq(Byte)
  <2>1. l \in Nat
    BY DEF Uint16
  <2> QED BY <2>1 DEF Values
<1>4. /\ LiesAt(s, p + 1, Extension(d)) /\ LiesAt(s, p + 1 + e, Extension(l))
      /\ LiesAt(s, p + 1 + e + f, v) /\ Len(Encoded(d, v)) = 1 + e + f + l
  BY <1>1, <1>2, OptionCoded
<1>5. p + e + f + l <= Len(s) /\ cut \in Nat /\ p <= cut /\ cut < p + e + f + l
  <2>1. PICK k \in Nat : k = Len(s)
    OBVIOUS
  <2>2. (p + 1 + e + f) + Len(v) - 1 <= Len(s)
    BY <1>4 DEF LiesAt
  <2>3. (p + 1 + e + f) + l - 1 <= k /\ cut \in p .. p + (1 + e + f + l) - 2
    BY Zenon, <1>1, <1>4, <2>1, <2>2
  <2>4. p \in Nat /\ e \in Nat /\ f \in Nat
    BY <1>2
  <2>5. p + e + f + l <= k /\ cut \in Nat /\ p <= cut /\ cut < p + e + f + l
    BY <1>3, <2>3, <2>4
  <2> QED BY Zenon, <2>1, <2>5
<1>6. /\ t \in Seq(Byte) /\ Len(t) = cut
      /\ \A i \in 1 .. cut : t[i] = s[i]
  <2>1. 1 \in Nat \ {0} /\ cut \in Nat /\ cut <= Len(s) /\ 1 <= cut + 1
    BY <1>3, <1>5
  <2>2. /\ t \in Seq(Byte) /\ Len(t) = cut - 1 + 1
        /\ \A i \in 1 .. cut - 1 + 1 : t[i] = s[1 + i - 1]
    BY ONLY <2>1, Slice, s \in Seq(Byte)
  <2> QED BY <1>5, <2>2
<1> HIDE DEF t
<1>7. s[p] = Header(d, l) /\ Upper(s, p) = Nibble(d) /\ Lower(s, p) = Nibble(l)
  BY <1>1, OptionRead
<1>8. t[p] = s[p] /\ At(t, p) = At(s, p)
  BY <1>3, <1>5, <1>6 DEF At
<1>9. Upper(t, p) = Nibble(d) /\ Lower(t, p) = Nibble(l)
  BY <1>7, <1>8 DEF Upper, Lower
<1>10. \A i \in Nat \ {0} : At(t, i) = At(s, i) \/ At(t, i) = 0
  BY <1>3, <1>5, <1>6 DEF At
<1>11. ExtraBytes(DeltaAt(t, p)) = e
  BY <1>2, <1>4, <1>6, <1>9, <1>10, NumberCut DEF DeltaAt
<1>12. LengthAt(t, p) = Extended(Nibble(l), t, p + 1 + e)
  BY <1>2, <1>6, <1>9, LengthIsBehind
<1>13. ExtraBytes(LengthAt(t, p)) = f /\ LengthAt(t, p) \in 0 .. l
  <2>1. p + 1 + e \in Nat \ {0}
    OBVIOUS
  <2> QED BY SMTT(30), <1>2, <1>4, <1>6, <1>10, <1>12, <2>1, NumberCut
<1>14. TotalAt(t, p) = 1 + e + f + LengthAt(t, p)
  BY <1>11, <1>13 DEF TotalAt
<1>15. ASSUME Fits(t, p)
       PROVE  FALSE
  <2>1. p + e + f + LengthAt(t, p) <= cut
    <3>1. p + TotalAt(t, p) - 1 <= Len(t)
      BY <1>15 DEF Fits
    <3>2. PICK x \in 0 .. l : x = LengthAt(t, p)
      BY <1>13
    <3>3. p + (1 + e + f + x) - 1 <= cut
      BY Zenon, <1>6, <1>14, <3>1, <3>2
    <3>4. x \in Nat /\ e \in Nat /\ f \in Nat
      BY <1>2, <1>3, <3>2
    <3>5. p + e + f + x <= cut
      BY <1>5, <3>3, <3>4
    <3> QED BY Zenon, <3>2, <3>5
  <2>2. p + e + f <= cut
    BY <1>3, <1>5, <1>13, <2>1
  <2>3. Extension(l) \in Seq(Byte) /\ Len(Extension(l)) = f
    BY <1>2, NumberCoded
  <2>4. LiesAt(t, (p + 1 + e) - 1 + 1, Extension(l))
    <3>1. /\ p + 1 + e \in Nat \ {0} /\ 1 \in Nat \ {0} /\ cut \in Nat /\ cut <= Len(s)
          /\ 1 <= cut + 1 /\ 1 <= p + 1 + e /\ (p + 1 + e) + f - 1 <= cut
      BY <1>3, <1>5, <2>2
    <3>2. (p + 1 + e) + Len(Extension(l)) - 1 <= cut
      BY <2>3, <3>1
    <3> QED BY ONLY <1>4, <2>3, <3>1, <3>2, LiesSlice, s \in Seq(Byte) DEF t
  <2>5. (p + 1 + e) - 1 + 1 = p + 1 + e /\ p + 1 + e \in Nat \ {0}
    OBVIOUS
  <2>6. LengthAt(t, p) = l
    BY <1>6, <1>12, <2>4, <2>5, NumberRead
  <2> QED BY <1>3, <1>5, <2>1, <2>6
<1>16. t[p] # Marker
  BY <1>7, <1>8, HeaderRead
<1> QED BY <1>15, <1>16 DEF t

-----------------------------------------------------------------------------
(* The walk over a message.                                                *)

Steps == [at : Nat \ {0}, next : Nat \ {0}, number : Uint16, value : Values]

PlaceOf(w, i) == IF i = 1 THEN 1 ELSE w[i - 1].next
DeltaOf(w, i) == (w[i].number - NumberBefore(w, i)) % Word
CodeOf(w, i) == Encoded(DeltaOf(w, i), w[i].value)

\* The options of w lie in s, from its front on and one behind the other.
Laid(s, w) ==
  /\ w \in Seq(Steps)
  /\ \A i \in 1 .. Len(w) :
       /\ w[i].at = PlaceOf(w, i)
       /\ w[i].next = w[i].at + Len(CodeOf(w, i))
       /\ LiesAt(s, w[i].at, CodeOf(w, i))

\* Differences modulo Word.
LEMMA WordIs == Word \in Nat /\ Word > 0
BY DEF Word

\* Remainders are 16-bit numbers.
LEMMA Remainders ==
  ASSUME NEW a \in Int
  PROVE  a % Word \in Uint16 /\ (a \in Uint16 => a % Word = a)
<1>1. a % 65536 \in Int /\ 0 <= a % 65536 /\ a % 65536 < 65536
  OBVIOUS
<1>2. a >= 0 /\ a < 65536 => a % 65536 = a
  OBVIOUS
<1>3. a % Word \in Int /\ 0 <= a % Word /\ a % Word < Word
  BY <1>1 DEF Word
<1>4. a >= 0 /\ a < Word => a % Word = a
  BY <1>2 DEF Word
<1>5. PICK r \in Int : r = a % Word
  BY <1>3
<1>6. r \in Uint16
  BY <1>3, <1>5, WordIs DEF Uint16
<1>7. a \in Uint16 => a >= 0 /\ a < Word
  BY WordIs DEF Uint16
<1> QED BY Zenon, <1>4, <1>5, <1>6, <1>7

\* A number is got back from its difference, which is taken modulo 2^16.
LEMMA Differences ==
  ASSUME NEW a \in Uint16, NEW b \in Uint16
  PROVE  /\ (a - b) % Word \in Uint16 /\ (b + ((a - b) % Word)) % Word = a
         /\ (a + b) % Word \in Uint16 /\ (((a + b) % Word) - a) % Word = b
<1>0. a \in Int /\ b \in Int /\ a >= 0 /\ b >= 0 /\ a < Word /\ b < Word
  BY WordIs DEF Uint16
<1>1. (a - b) % Word \in Uint16
  BY <1>0, Remainders
<1>2. ASSUME a >= b
      PROVE  (b + ((a - b) % Word)) % Word = a
  <2>1. (a - b) % Word = a - b
    BY <1>0, <1>2 DEF Word
  <2>2. a % Word = a
    BY <1>0 DEF Word
  <2>3. b + (a - b) = a
    BY <1>0
  <2> QED BY Zenon, <1>1, <2>1, <2>2, <2>3
<1>3. ASSUME a < b
      PROVE  (b + ((a - b) % Word)) % Word = a
  <2>1. (a - b) % Word = a - b + Word
    BY <1>0, <1>3 DEF Word
  <2>2. (a + Word) % Word = a
    BY <1>0 DEF Word
  <2>3. b + (a - b + Word) = a + Word
    BY <1>0, WordIs
  <2> QED BY Zenon, <1>1, <2>1, <2>2, <2>3
<1>4. (b + ((a - b) % Word)) % Word = a
  BY <1>0, <1>2, <1>3
<1>5. (a + b) % Word \in Uint16
  BY <1>0, Remainders
<1>6. (((a + b) % Word) - a) % Word = b
  BY <1>0 DEF Word
<1> QED BY <1>1, <1>4, <1>5, <1>6

\* The parts of a step have their types.
LEMMA StepTypes ==
  ASSUME NEW w \in Seq(Steps), NEW i \in 1 .. Len(w)
  PROVE  /\ w[i] \in Steps /\ w[i].at \in Nat \ {0} /\ w[i].next \in Nat \ {0}
         /\ w[i].number \in Uint16 /\ w[i].value \in Values
         /\ NumberBefore(w, i) \in Uint16 /\ PlaceOf(w, i) \in Nat \ {0}
         /\ DeltaOf(w, i) \in Uint16
         /\ CodeOf(w, i) \in Seq(Byte) /\ Len(CodeOf(w, i)) \in Nat \ {0}
<1>1. w[i] \in Steps
  OBVIOUS
<1>2. i # 1 => w[i - 1] \in Steps
  OBVIOUS
<1>3. w[i].number \in Uint16 /\ w[i].value \in Values
  BY <1>1 DEF Steps
<1>4. 0 \in Uint16
  BY WordIs DEF Uint16
<1>5. NumberBefore(w, i) \in Uint16 /\ PlaceOf(w, i) \in Nat \ {0}
  BY <1>2, <1>4 DEF NumberBefore, PlaceOf, Steps
<1>6. DeltaOf(w, i) \in Uint16
  BY <1>3, <1>5, Differences DEF DeltaOf
<1>7. CodeOf(w, i) \in Seq(Byte) /\ Len(CodeOf(w, i)) \in Nat \ {0}
  <2>1. PICK d \in Uint16, v \in Values : d = DeltaOf(w, i) /\ v = w[i].value
    BY <1>3, <1>6
  <2>2. PICK l \in Nat : l = Len(v)
    BY DEF Values, Uint16
  <2>3. l \in Uint16
    BY <2>2 DEF Values
  <2>4. PICK e \in 0 .. 2, f \in 0 .. 2 : e = ExtraBytes(d) /\ f = ExtraBytes(l)
    BY <2>3, NumberCoded
  <2>5. Encoded(d, v) \in Seq(Byte) /\ Len(Encoded(d, v)) = 1 + e + f + l
    BY <2>2, <2>4, OptionCoded
  <2> QED BY <2>1, <2>5 DEF CodeOf
<1> QED BY <1>1, <1>3, <1>5, <1>6, <1>7 DEF Steps

\* The first n options of a walk.
Front(w, n) == SubSeq(w, 1, n)

\* The first steps of a walk, and where they end.
LEMMA FrontOf ==
  ASSUME NEW w \in Seq(Steps), NEW n \in 0 .. Len(w)
  PROVE  /\ Front(w, n) \in Seq(Steps) /\ Len(Front(w, n)) = n
         /\ \A i \in 1 .. n : Front(w, n)[i] = w[i]
         /\ EndOf(Front(w, n)) = PlaceOf(w, n + 1)
         /\ NumberBefore(Front(w, n), n + 1) = NumberBefore(w, n + 1)
<1>1. /\ Front(w, n) \in Seq(Steps) /\ Len(Front(w, n)) = n
      /\ \A i \in 1 .. n : Front(w, n)[i] = w[i]
  BY DEF Front
<1>2. Front(w, n) = <<>> <=> n = 0
  BY <1>1
<1>3. EndOf(Front(w, n)) = PlaceOf(w, n + 1)
  BY <1>1, <1>2 DEF EndOf, PlaceOf
<1>4. NumberBefore(Front(w, n), n + 1) = NumberBefore(w, n + 1)
  BY <1>1 DEF NumberBefore
<1> QED BY <1>1, <1>3, <1>4

\* One step more.
LEMMA FrontGrows ==
  ASSUME NEW w \in Seq(Steps), NEW n \in 0 .. Len(w) - 1
  PROVE  Append(Front(w, n), w[n + 1]) = Front(w, n + 1)
BY DEF Front

\* All the steps of a walk are the walk.
LEMMA FrontWhole ==
  ASSUME NEW w \in Seq(Steps)
  PROVE  Front(w, Len(w)) = w
BY DEF Front

\* OptionBehind, written out.
LEMMA BehindIs ==
  ASSUME NEW s, NEW walk
  PROVE  OptionBehind(s, walk) =
           [at |-> EndOf(walk), next |-> EndOf(walk) + TotalAt(s, EndOf(walk)),
            number |-> (NumberBefore(walk, Len(walk) + 1) + DeltaAt(s, EndOf(walk))) % Word,
            value |-> Stored(s, (EndOf(walk) + TotalAt(s, EndOf(walk))) - LengthAt(s, EndOf(walk)),
                             LengthAt(s, EndOf(walk)))]
BY Zenon DEF OptionBehind, OptionAt

\* Each option of a walk is found behind those before it.
LEMMA NextOption ==
  ASSUME NEW s \in Seq(Byte), NEW w, Laid(s, w), NEW n \in 0 .. Len(w) - 1
  PROVE  /\ ~Stops(s, EndOf(Front(w, n)))
         /\ OptionBehind(s, Front(w, n)) = w[n + 1]
<1>0. w \in Seq(Steps) /\ Len(w) \in Nat /\ n + 1 \in 1 .. Len(w) /\ n \in 0 .. Len(w)
  BY DEF Laid
<1>1. PICK o \in Steps : o = w[n + 1]
  BY <1>0
<1>2. PICK p \in Nat \ {0}, b \in Uint16, d \in Uint16, v \in Values :
        /\ p = PlaceOf(w, n + 1) /\ b = NumberBefore(w, n + 1)
        /\ d = DeltaOf(w, n + 1) /\ v = o.value
  BY <1>0, <1>1, StepTypes
<1>3. o.at = p /\ o.next = p + Len(Encoded(d, v)) /\ LiesAt(s, p, Encoded(d, v))
  BY <1>0, <1>1, <1>2 DEF Laid, CodeOf
<1>4. EndOf(Front(w, n)) = p /\ Len(Front(w, n)) = n /\ NumberBefore(Front(w, n), n + 1) = b
  BY <1>0, <1>2, FrontOf
<1>5. /\ DeltaAt(s, p) = d /\ LengthAt(s, p) = Len(v)
      /\ TotalAt(s, p) = Len(Encoded(d, v)) /\ ~Stops(s, p)
      /\ Stored(s, (p + TotalAt(s, p)) - Len(v), Len(v)) = v
  BY <1>3, OptionRead
<1>6. (b + d) % Word = o.number
  <2>1. d = (o.number - b) % Word /\ o.number \in Uint16
    BY <1>1, <1>2 DEF DeltaOf, Steps
  <2> QED BY <2>1, Differences
<1>7. OptionBehind(s, Front(w, n)) =
        [at |-> p, next |-> p + TotalAt(s, p), number |-> (b + d) % Word,
         value |-> Stored(s, (p + TotalAt(s, p)) - LengthAt(s, p), LengthAt(s, p))]
  <2>0. PICK f : f = Front(w, n)
    OBVIOUS
  <2>1. OptionBehind(s, f) =
          [at |-> EndOf(f), next |-> EndOf(f) + TotalAt(s, EndOf(f)),
           number |-> (NumberBefore(f, Len(f) + 1) + DeltaAt(s, EndOf(f))) % Word,
           value |-> Stored(s, (EndOf(f) + TotalAt(s, EndOf(f))) - LengthAt(s, EndOf(f)),
                            LengthAt(s, EndOf(f)))]
    BY Zenon, BehindIs
  <2>2. NumberBefore(f, Len(f) + 1) = b
    BY Zenon, <1>4, <2>0
  <2> QED BY Zenon, <1>4, <1>5, <2>0, <2>1, <2>2
<1>8. OptionBehind(s, Front(w, n)) =
        [at |-> o.at, next |-> o.next, number |-> o.number, value |-> o.value]
  BY Zenon, <1>2, <1>3, <1>5, <1>6, <1>7
<1>9. o = [at |-> o.at, next |-> o.next, number |-> o.number, value |-> o.value]
  BY DEF Steps
<1> QED BY Zenon, <1>1, <1>4, <1>5, <1>8, <1>9

\* Every option takes a byte at least.
LEMMA WalkIsShort ==
  ASSUME NEW s \in Seq(Byte), NEW w, Laid(s, w)
  PROVE  /\ Len(w) <= Len(s) /\ EndOf(w) \in 1 .. Len(s) + 1
         /\ \A n \in 0 .. Len(w) : n + 1 <= PlaceOf(w, n + 1)
<1>0. w \in Seq(Steps) /\ Len(w) \in Nat
  BY DEF Laid
<1> DEFINE T == {n \in Nat : n <= Len(w) => n + 1 <= PlaceOf(w, n + 1)}
<1>1. 0 \in T
  BY DEF PlaceOf
<1>2. ASSUME NEW n \in T
      PROVE  n + 1 \in T
  <2> SUFFICES ASSUME n + 1 <= Len(w)
               PROVE  n + 2 <= PlaceOf(w, n + 2)
    OBVIOUS
  <2>1. n + 1 <= PlaceOf(w, n + 1) /\ n + 1 \in 1 .. Len(w)
    BY <1>0
  <2>2. PICK a \in Nat, l \in Nat \ {0} :
          a = PlaceOf(w, n + 1) /\ l = Len(CodeOf(w, n + 1)) /\ w[n + 1].next = a + l
    BY <1>0, <2>1, StepTypes DEF Laid
  <2>3. PlaceOf(w, n + 2) = w[n + 1].next
    BY DEF PlaceOf
  <2> QED BY <2>1, <2>2, <2>3
<1>3. T = Nat
  <2> HIDE DEF T
  <2>1. T \in SUBSET Nat
    BY DEF T
  <2> QED BY <1>1, <1>2, <2>1, EveryNumber
<1>4. \A n \in 0 .. Len(w) : n + 1 <= PlaceOf(w, n + 1)
  BY <1>0, <1>3
<1>5. EndOf(w) = PlaceOf(w, Len(w) + 1)
  BY <1>0 DEF EndOf, PlaceOf
<1>6. EndOf(w) \in 1 .. Len(s) + 1
  <2>1. CASE Len(w) = 0
    BY <1>0, <2>1 DEF EndOf
  <2>2. CASE Len(w) > 0
    <3>1. Len(w) \in 1 .. Len(w) /\ w # <<>>
      BY <1>0, <2>2
    <3>2. PICK a \in Nat \ {0}, l \in Nat \ {0} :
            /\ a = w[Len(w)].at /\ l = Len(CodeOf(w, Len(w)))
            /\ w[Len(w)].next = a + l
      BY <1>0, <3>1, StepTypes DEF Laid
    <3>3. a + l - 1 <= Len(s)
      BY <1>0, <3>1, <3>2 DEF Laid, LiesAt
    <3> QED BY <3>1, <3>2, <3>3 DEF EndOf
  <2> QED BY <1>0, <2>1, <2>2
<1> QED BY <1>0, <1>4, <1>5, <1>6

\* A walk that lies in a message up to where it stops is the one computed.
LEMMA WalkIs ==
  ASSUME NEW s \in Seq(Byte), NEW w, Laid(s, w), Stops(s, EndOf(w))
  PROVE  Walk(s) = w
<1> DEFINE After(walk, n) == GoOn(s, walk, n)
           Is(f) == f = [n \in Nat |-> IF n = 0 THEN <<>> ELSE After(f[n - 1], n - 1)]
           g == [n \in Nat |-> Front(w, IF n <= Len(w) THEN n ELSE Len(w))]
           F == FirstOptions(s)
<1>0. w \in Seq(Steps) /\ Len(w) \in Nat
  BY DEF Laid
<1>1. ASSUME NEW n \in Nat
      PROVE  g[n + 1] = After(g[n], n)
  <2>1. CASE n < Len(w)
    <3>1. n \in 0 .. Len(w) - 1 /\ g[n] = Front(w, n) /\ g[n + 1] = Front(w, n + 1)
      BY <1>0, <2>1
    <3>2. ~Stops(s, EndOf(Front(w, n))) /\ OptionBehind(s, Front(w, n)) = w[n + 1]
      BY <3>1, NextOption
    <3>3. Append(Front(w, n), w[n + 1]) = Front(w, n + 1)
      BY <1>0, <3>1, FrontGrows
    <3>4. ~(Len(Front(w, n)) < n)
      <4>1. Len(Front(w, n)) = n /\ n \in Nat
        BY <1>0, <3>1, FrontOf
      <4> QED BY <4>1
    <3> QED BY Zenon, <3>1, <3>2, <3>3, <3>4 DEF GoOn
  <2>2. CASE n >= Len(w)
    <3>1. g[n] = Front(w, Len(w)) /\ g[n + 1] = Front(w, Len(w))
      BY <1>0, <2>2
    <3>2. Front(w, Len(w)) = w
      BY <1>0, FrontWhole
    <3> QED BY Zenon, <3>1, <3>2 DEF GoOn
  <2> QED BY <1>0, <2>1, <2>2
<1>2. g[0] = <<>>
  BY <1>0 DEF Front
<1>3. Is(g)
  <2>1. ASSUME NEW n \in Nat
        PROVE  g[n] = IF n = 0 THEN <<>> ELSE After(g[n - 1], n - 1)
    <3>1. CASE n = 0
      BY <1>2, <3>1
    <3>2. CASE n # 0
      <4>1. n - 1 \in Nat /\ (n - 1) + 1 = n
        BY <3>2
      <4> HIDE DEF g, After
      <4>2. g[(n - 1) + 1] = After(g[n - 1], n - 1)
        BY <1>1, <4>1
      <4> QED BY Zenon, <3>2, <4>1, <4>2
    <3> QED BY <3>1, <3>2
  <2>2. g = [n \in Nat |-> g[n]]
    OBVIOUS
  <2> HIDE DEF g, After
  <2>3. g = [n \in Nat |-> IF n = 0 THEN <<>> ELSE After(g[n - 1], n - 1)]
    BY <2>1, <2>2
  <2> QED BY <2>3
<1>4. F = CHOOSE f : Is(f)
  BY Zenon DEF FirstOptions
<1>5. Is(F)
  <2> HIDE DEF Is, g, F
  <2>1. Is(CHOOSE f : Is(f))
    BY <1>3
  <2> QED BY <1>4, <2>1
<1> HIDE DEF F
<1>6. \A n \in Nat : F[n] = g[n]
  <2> DEFINE T == {n \in Nat : F[n] = g[n]}
  <2> HIDE DEF g, After
  <2>1. F[0] = <<>> /\ \A n \in Nat : F[n + 1] = After(F[n], n)
    <3>1. \A n \in Nat : F[n] = IF n = 0 THEN <<>> ELSE After(F[n - 1], n - 1)
      BY <1>5
    <3>2. ASSUME NEW n \in Nat
          PROVE  F[n + 1] = After(F[n], n)
      <4>1. n + 1 \in Nat /\ n + 1 # 0 /\ (n + 1) - 1 = n
        OBVIOUS
      <4> QED BY Zenon, <3>1, <4>1
    <3> QED BY <3>1, <3>2
  <2>2. 0 \in T
    BY <1>2, <2>1
  <2>3. ASSUME NEW n \in T
        PROVE  n + 1 \in T
    <3>1. F[n + 1] = After(F[n], n) /\ g[n + 1] = After(g[n], n) /\ F[n] = g[n]
      BY <1>1, <2>1
    <3> QED BY <3>1
  <2>4. T \in SUBSET Nat
    OBVIOUS
  <2> HIDE DEF T
  <2>5. T = Nat
    BY <2>2, <2>3, <2>4, EveryNumber
  <2> QED BY <2>5 DEF T
<1>7. Walk(s) = F[Len(s)]
  BY Zenon DEF Walk, F
<1>8. F[Len(s)] = Front(w, Len(w))
  BY <1>0, <1>6, WalkIsShort
<1> QED BY <1>0, <1>7, <1>8, FrontWhole

-----------------------------------------------------------------------------
(* Messages made of options and a payload.                                 *)

\* s is the options of w and then, behind a marker, the payload.
Framed(s, w, load) ==
  /\ Laid(s, w)
  /\ load = <<>> => EndOf(w) = Len(s) + 1
  /\ load # <<>> =>
       /\ EndOf(w) + Len(load) = Len(s) /\ s[EndOf(w)] = Marker
       /\ LiesAt(s, EndOf(w) + 1, load)

\* The walk over a message made of options and a payload is theirs.
LEMMA FramedWalk ==
  ASSUME NEW s \in Seq(Byte), NEW w, NEW load \in Seq(Byte), Framed(s, w, load)
  PROVE  Walk(s) = w
<1>1. Laid(s, w)
  BY DEF Framed
<1>2. PICK e \in Nat \ {0} : e = EndOf(w)
  BY <1>1, WalkIsShort
<1>3. CASE load = <<>>
  <2>1. e > Len(s)
    BY <1>2, <1>3 DEF Framed
  <2>2. Stops(s, EndOf(w))
    BY <1>2, <2>1 DEF Stops
  <2> QED BY <1>1, <2>2, WalkIs
<1>4. CASE load # <<>>
  <2>1. PICK l \in Nat : l = Len(load)
    OBVIOUS
  <2>2. e <= Len(s) /\ s[e] = Marker
    BY <1>2, <1>4, <2>1 DEF Framed
  <2>3. At(s, e) = Marker
    BY <1>2, <2>2 DEF At
  <2>4. Stops(s, EndOf(w))
    BY Zenon, <1>2, <2>3 DEF Stops
  <2> QED BY <1>1, <2>4, WalkIs
<1> QED BY <1>3, <1>4

\* Putting the marker and a payload behind the options leaves them as they are.
LEMMA FramedPayload ==
  ASSUME NEW s \in Seq(Byte), NEW w, NEW load \in Seq(Byte), load # <<>>, Framed(s, w, <<>>)
  PROVE  Framed(Cat(Cat(s, <<Marker>>), load), w, load)
<1> DEFINE m == Cat(s, <<Marker>>)
           t == Cat(m, load)
<1>1. Laid(s, w) /\ EndOf(w) = Len(s) + 1
  BY DEF Framed
<1>2. <<Marker>> \in Seq(Byte) /\ Len(<<Marker>>) = 1 /\ <<Marker>>[1] = Marker
  BY DEF Marker, Byte
<1>3. /\ m \in Seq(Byte) /\ Len(m) = Len(s) + 1
      /\ m[1 + Len(s)] = Marker
  <2>1. 1 \in 1 .. Len(<<Marker>>)
    BY <1>2
  <2>2. /\ m \in Seq(Byte) /\ Len(m) = Len(s) + Len(<<Marker>>)
        /\ m[1 + Len(s)] = <<Marker>>[1]
    BY ONLY <1>2, <2>1, Joined, s \in Seq(Byte)
  <2> QED BY <1>2, <2>2
<1> HIDE DEF m
<1>4. /\ t \in Seq(Byte) /\ Len(t) = Len(m) + Len(load)
      /\ \A i \in 1 .. Len(m) : t[i] = m[i]
  BY ONLY <1>3, Joined, load \in Seq(Byte)
<1>5. t[EndOf(w)] = Marker /\ EndOf(w) + Len(load) = Len(t)
  <2>1. PICK n \in Nat, l \in Nat : n = Len(s) /\ l = Len(load)
    OBVIOUS
  <2> QED BY <1>1, <1>3, <1>4, <2>1
<1>6. LiesAt(t, EndOf(w) + 1, load)
  <2>1. 1 \in Nat \ {0} /\ LiesAt(load, 1, load)
    BY LiesSelf
  <2>2. LiesAt(t, Len(m) + 1, load)
    BY ONLY <1>3, <2>1, LiesRight, load \in Seq(Byte)
  <2> QED BY <1>1, <1>3, <2>2
<1>7. ASSUME NEW q \in Nat \ {0}, NEW c \in Seq(Byte), LiesAt(s, q, c)
      PROVE  LiesAt(t, q, c)
  <2>1. LiesAt(m, q, c)
    BY ONLY <1>2, <1>7, LiesLeft, s \in Seq(Byte) DEF m
  <2> QED BY ONLY <1>3, <1>7, <2>1, LiesLeft, load \in Seq(Byte)
<1>8. Laid(t, w)
  <2>1. \A i \in 1 .. Len(w) : w[i].at \in Nat \ {0} /\ CodeOf(w, i) \in Seq(Byte)
    BY <1>1, StepTypes DEF Laid
  <2> HIDE DEF t
  <2> QED BY <1>1, <1>7, <2>1 DEF Laid
<1> QED BY <1>5, <1>6, <1>8 DEF Framed, m

\* An option behind the last one.
LEMMA FramedAppended ==
  ASSUME NEW s \in Seq(Byte), NEW w, Framed(s, w, <<>>),
         NEW d \in Uint16, NEW v \in Values, NEW o \in Steps,
         o.at = EndOf(w), o.next = EndOf(w) + Len(Encoded(d, v)), o.value = v,
         o.number = (NumberBefore(w, Len(w) + 1) + d) % Word
  PROVE  Framed(Cat(s, Encoded(d, v)), Append(w, o), <<>>)
<1> DEFINE c == Encoded(d, v)
           t == Cat(s, c)
           u == Append(w, o)
<1>1. Laid(s, w) /\ EndOf(w) = Len(s) + 1 /\ w \in Seq(Steps)
  BY DEF Framed, Laid
<1>2. PICK n \in Nat : n = Len(w)
  BY <1>1
<1>3. /\ u \in Seq(Steps) /\ Len(u) = n + 1 /\ u[n + 1] = o
      /\ \A i \in 1 .. n : u[i] = w[i]
  BY <1>1, <1>2
<1>4. c \in Seq(Byte)
  BY OptionCoded
<1> HIDE DEF u, c
<1>5. t \in Seq(Byte) /\ Len(t) = Len(s) + Len(c)
  BY ONLY <1>4, Joined, s \in Seq(Byte)
<1>6. \A i \in 1 .. n : /\ PlaceOf(u, i) = PlaceOf(w, i) /\ CodeOf(u, i) = CodeOf(w, i)
  <2>1. \A i \in 1 .. n : NumberBefore(u, i) = NumberBefore(w, i)
    BY <1>3 DEF NumberBefore
  <2>2. \A i \in 1 .. n : PlaceOf(u, i) = PlaceOf(w, i)
    BY <1>3 DEF PlaceOf
  <2> QED BY <1>3, <2>1, <2>2 DEF CodeOf, DeltaOf
<1>7. PlaceOf(u, n + 1) = EndOf(w) /\ EndOf(u) = o.next
  <2>1. PlaceOf(u, n + 1) = EndOf(w)
    BY <1>1, <1>2, <1>3 DEF PlaceOf, EndOf
  <2>2. EndOf(u) = o.next
    BY <1>3 DEF EndOf
  <2> QED BY <2>1, <2>2
<1>8. CodeOf(u, n + 1) = c
  <2>1. NumberBefore(u, n + 1) = NumberBefore(w, n + 1)
    BY <1>3 DEF NumberBefore
  <2>2. PICK b \in Uint16 : b = NumberBefore(w, n + 1)
    <3>1. 0 \in Uint16 /\ (n # 0 => w[n] \in Steps)
      BY <1>1, <1>2, WordIs DEF Uint16
    <3> QED BY <3>1 DEF NumberBefore, Steps
  <2>3. (((b + d) % Word) - b) % Word = d
    BY Differences
  <2>4. DeltaOf(u, n + 1) = d
    BY <1>2, <1>3, <2>1, <2>2, <2>3 DEF DeltaOf
  <2> QED BY <1>3, <2>4 DEF CodeOf, c
<1>9. LiesAt(t, EndOf(w), c)
  <2>1. 1 \in Nat \ {0} /\ LiesAt(c, 1, c)
    BY <1>4, LiesSelf
  <2>2. LiesAt(t, Len(s) + 1, c)
    BY ONLY <1>4, <2>1, LiesRight, s \in Seq(Byte)
  <2> QED BY <1>1, <2>2
<1>10. \A i \in 1 .. n : LiesAt(t, w[i].at, CodeOf(w, i))
  <2>1. \A i \in 1 .. n : w[i].at \in Nat \ {0} /\ CodeOf(w, i) \in Seq(Byte)
    BY <1>1, <1>2, StepTypes
  <2> HIDE DEF t
  <2>2. ASSUME NEW q \in Nat \ {0}, NEW x \in Seq(Byte), LiesAt(s, q, x)
        PROVE  LiesAt(t, q, x)
    BY ONLY <1>4, <2>2, LiesLeft, s \in Seq(Byte) DEF t
  <2> QED BY <1>1, <1>2, <2>1, <2>2 DEF Laid
<1>11. Laid(t, u)
  <2> HIDE DEF t
  <2> SUFFICES ASSUME NEW i \in 1 .. n + 1
               PROVE  /\ u[i].at = PlaceOf(u, i)
                      /\ u[i].next = u[i].at + Len(CodeOf(u, i))
                      /\ LiesAt(t, u[i].at, CodeOf(u, i))
    BY <1>3 DEF Laid
  <2>1. CASE i = n + 1
    <3>1. o.next = EndOf(w) + Len(c)
      BY DEF c
    <3> QED BY <1>3, <1>7, <1>8, <1>9, <2>1, <3>1
  <2>2. CASE i \in 1 .. n
    BY <1>1, <1>2, <1>3, <1>6, <1>10, <2>2 DEF Laid
  <2> QED BY <2>1, <2>2
<1>12. EndOf(u) = Len(t) + 1
  <2>1. PICK a \in Nat, b \in Nat : a = Len(s) /\ b = Len(c)
    BY <1>4
  <2> QED BY <1>1, <1>5, <1>7, <2>1 DEF c
<1> QED BY <1>11, <1>12 DEF Framed, u, c

\* The bytes from p to q - 1 of s give way to b and then h.
Splice(s, p, q, b, h) == Cat(Cat(SubSeq(s, 1, p - 1), b), Cat(h, SubSeq(s, q, Len(s))))
Shift(p, q, b, h) == (p + Len(b) + Len(h)) - q

\* What lies before and behind the bytes replaced is kept, moved by Shift.
LEMMA Spliced ==
  ASSUME NEW s \in Seq(Byte), NEW p \in 1 .. Len(s), NEW q \in 1 .. Len(s) + 1,
         NEW b \in Seq(Byte), NEW h \in Seq(Byte), p < q
  PROVE  /\ Splice(s, p, q, b, h) \in Seq(Byte)
         /\ Len(Splice(s, p, q, b, h)) = Len(s) + Shift(p, q, b, h)
         /\ LiesAt(Splice(s, p, q, b, h), p, b)
         /\ LiesAt(Splice(s, p, q, b, h), p + Len(b), h)
         /\ \A j \in Nat \ {0}, c \in Seq(Byte) : LiesAt(s, j, c) =>
              /\ j + Len(c) <= p => LiesAt(Splice(s, p, q, b, h), j, c)
              /\ j >= q => LiesAt(Splice(s, p, q, b, h), j + Shift(p, q, b, h), c)
<1> DEFINE x == SubSeq(s, 1, p - 1)
           y == SubSeq(s, q, Len(s))
           l == Cat(x, b)
           r == Cat(h, y)
           t == Splice(s, p, q, b, h)
<1>1. PICK n \in Nat, m \in Nat, k \in Nat : n = Len(s) /\ m = Len(b) /\ k = Len(h)
  OBVIOUS
<1>2. p - 1 \in Nat /\ p \in Nat /\ q \in Nat \ {0} /\ p <= n /\ q <= n + 1 /\ p >= 1
  BY <1>1
<1>3. x \in Seq(Byte) /\ Len(x) = p - 1
  <2>1. 1 \in Nat \ {0} /\ p - 1 \in Nat /\ p - 1 <= Len(s) /\ 1 <= (p - 1) + 1
    BY <1>1, <1>2
  <2>2. x \in Seq(Byte) /\ Len(x) = (p - 1) - 1 + 1
    BY ONLY <2>1, Slice, s \in Seq(Byte)
  <2> QED BY <1>2, <2>2
<1>4. y \in Seq(Byte) /\ Len(y) = (n - q) + 1
  <2>1. n <= Len(s) /\ q <= n + 1
    BY <1>1, <1>2
  <2>2. SubSeq(s, q, n) \in Seq(Byte) /\ Len(SubSeq(s, q, n)) = n - q + 1
    BY ONLY <1>2, <2>1, Slice, s \in Seq(Byte), n \in Nat
  <2> QED BY <1>1, <2>2
<1> HIDE DEF x, y
<1>5. l \in Seq(Byte) /\ Len(l) = (p - 1) + m
  BY <1>1, <1>3, Joined
<1>6. r \in Seq(Byte) /\ Len(r) = k + (n - q) + 1
  <2>1. r \in Seq(Byte) /\ Len(r) = Len(h) + Len(y)
    BY ONLY <1>4, Joined, h \in Seq(Byte)
  <2> QED BY <1>1, <1>2, <1>4, <2>1
<1> HIDE DEF l, r
<1>7. t = Cat(l, r)
  BY DEF Splice, x, y, l, r
<1> HIDE DEF t
<1>8. t \in Seq(Byte) /\ Len(t) = Len(s) + Shift(p, q, b, h)
  <2>1. t \in Seq(Byte) /\ Len(t) = Len(l) + Len(r)
    BY ONLY <1>5, <1>6, <1>7, Joined
  <2> QED BY <1>1, <1>2, <1>5, <1>6, <2>1 DEF Shift
<1>9. LiesAt(t, p, b)
  <2>1. 1 \in Nat \ {0} /\ LiesAt(b, 1, b)
    BY LiesSelf
  <2>2. LiesAt(l, Len(x) + 1, b)
    BY ONLY <1>3, <2>1, LiesRight, b \in Seq(Byte) DEF l
  <2>3. LiesAt(l, p, b) /\ p \in Nat \ {0}
    BY <1>2, <1>3, <2>2
  <2> QED BY ONLY <1>5, <1>6, <1>7, <2>3, LiesLeft, b \in Seq(Byte)
<1>10. LiesAt(t, p + Len(b), h)
  <2>1. 1 \in Nat \ {0} /\ LiesAt(h, 1, h)
    BY LiesSelf
  <2>2. LiesAt(r, 1, h)
    BY ONLY <1>4, <2>1, LiesLeft, h \in Seq(Byte) DEF r
  <2>3. LiesAt(t, Len(l) + 1, h)
    BY ONLY <1>5, <1>6, <1>7, <2>1, <2>2, LiesRight, h \in Seq(Byte)
  <2>4. Len(l) + 1 = p + Len(b)
    BY <1>1, <1>2, <1>5
  <2> QED BY <2>3, <2>4
<1>11. ASSUME NEW j \in Nat \ {0}, NEW c \in Seq(Byte), LiesAt(s, j, c), j + Len(c) <= p
       PROVE  LiesAt(t, j, c)
  <2>1. PICK g \in Nat : g = Len(c)
    OBVIOUS
  <2>2. /\ 1 \in Nat \ {0} /\ p - 1 \in Nat /\ p - 1 <= Len(s) /\ 1 <= (p - 1) + 1
        /\ 1 <= j /\ j + Len(c) - 1 <= p - 1
    BY <1>1, <1>2, <1>11, <2>1
  <2>3. LiesAt(x, j - 1 + 1, c)
    BY ONLY <1>11, <2>2, LiesSlice, s \in Seq(Byte) DEF x
  <2>4. j - 1 + 1 = j
    OBVIOUS
  <2>5. LiesAt(x, j, c)
    BY <2>3, <2>4
  <2>6. LiesAt(l, j, c)
    BY ONLY <1>3, <1>11, <2>5, LiesLeft, b \in Seq(Byte) DEF l
  <2> QED BY ONLY <1>5, <1>6, <1>7, <1>11, <2>6, LiesLeft
<1>12. ASSUME NEW j \in Nat \ {0}, NEW c \in Seq(Byte), LiesAt(s, j, c), j >= q
       PROVE  LiesAt(t, j + Shift(p, q, b, h), c)
  <2>1. PICK g \in Nat : g = Len(c)
    OBVIOUS
  <2>2. /\ n <= Len(s) /\ q <= n + 1 /\ q <= j /\ j + Len(c) - 1 <= n
        /\ j - q + 1 \in Nat \ {0}
    BY <1>1, <1>2, <1>12, <2>1 DEF LiesAt
  <2>3. LiesAt(SubSeq(s, q, n), j - q + 1, c)
    BY ONLY <1>2, <1>12, <2>2, LiesSlice, s \in Seq(Byte), n \in Nat
  <2>4. LiesAt(y, j - q + 1, c)
    BY <1>1, <2>3 DEF y
  <2>5. LiesAt(r, Len(h) + (j - q + 1), c) /\ Len(h) + (j - q + 1) \in Nat \ {0}
    <3>1. LiesAt(r, Len(h) + (j - q + 1), c)
      BY ONLY <1>4, <1>12, <2>2, <2>4, LiesRight, h \in Seq(Byte) DEF r
    <3> QED BY <1>1, <2>2, <3>1
  <2>6. LiesAt(t, Len(l) + (Len(h) + (j - q + 1)), c)
    BY ONLY <1>5, <1>6, <1>7, <1>12, <2>5, LiesRight
  <2>7. Len(l) + (Len(h) + (j - q + 1)) = j + Shift(p, q, b, h)
    BY <1>1, <1>2, <1>5 DEF Shift
  <2> QED BY <2>6, <2>7
<1> QED BY <1>8, <1>9, <1>10, <1>11, <1>12 DEF t

\* Of two options of a walk the later one begins behind the earlier one.
LEMMA WalkGrows ==
  ASSUME NEW s \in Seq(Byte), NEW w, Laid(s, w),
         NEW i \in 1 .. Len(w), NEW j \in 1 .. Len(w), i < j
  PROVE  w[i].next <= w[j].at
<1> DEFINE T == {k \in Nat : i + k + 1 <= Len(w) => w[i].next <= w[i + k + 1].at}
<1>0. w \in Seq(Steps) /\ Len(w) \in Nat
  BY DEF Laid
<1>1. 0 \in T
  <2> SUFFICES ASSUME i + 1 <= Len(w)
               PROVE  w[i].next <= w[i + 1].at
    OBVIOUS
  <2>1. i + 1 \in 1 .. Len(w) /\ i + 1 # 1 /\ (i + 1) - 1 = i
    BY <1>0
  <2>2. w[i + 1].at = w[i].next
    BY <2>1 DEF Laid, PlaceOf
  <2>3. w[i].next \in Nat
    BY <1>0, StepTypes
  <2> QED BY <2>2, <2>3
<1>2. ASSUME NEW k \in T
      PROVE  k + 1 \in T
  <2> SUFFICES ASSUME i + (k + 1) + 1 <= Len(w)
               PROVE  w[i].next <= w[i + (k + 1) + 1].at
    OBVIOUS
  <2>1. PICK h \in 1 .. Len(w) - 1 : h = i + k + 1
    BY <1>0
  <2>2. w[i].next <= w[h].at
    BY <1>0, <2>1
  <2>3. h + 1 \in 1 .. Len(w) /\ i + (k + 1) + 1 = h + 1 /\ h \in 1 .. Len(w)
    BY <1>0, <2>1
  <2>4. w[h + 1].at = w[h].next
    <3>1. w[h + 1].at = PlaceOf(w, h + 1)
      BY <2>3 DEF Laid
    <3>2. h + 1 # 1 /\ (h + 1) - 1 = h
      BY <2>1
    <3> QED BY <3>1, <3>2 DEF PlaceOf
  <2>5. PICK a \in Nat, l \in Nat, e \in Nat :
          a = w[h].at /\ l = Len(CodeOf(w, h)) /\ w[h].next = a + l /\ e = w[i].next
    BY <1>0, <2>3, StepTypes DEF Laid
  <2>6. e <= a
    BY Zenon, <2>2, <2>5
  <2>7. e <= a + l
    BY <2>5, <2>6
  <2> QED BY Zenon, <2>3, <2>4, <2>5, <2>7
<1> HIDE DEF T
<1>3. T = Nat
  <2>1. T \in SUBSET Nat
    BY DEF T
  <2> QED BY <1>1, <1>2, <2>1, EveryNumber
<1>4. j - i - 1 \in T /\ i + (j - i - 1) + 1 = j
  BY <1>3
<1> QED BY <1>0, <1>4 DEF T

\* The difference to a number put in between.
LEMMA Rebasing ==
  ASSUME NEW a \in Uint16, NEW b \in Uint16, NEW c \in Uint16
  PROVE  (b + ((a - b) % Word) - c) % Word = (a - c) % Word
<1>0. a \in Int /\ b \in Int /\ c \in Int /\ a >= 0 /\ b >= 0 /\ c >= 0
      /\ a < Word /\ b < Word /\ c < Word
  BY WordIs DEF Uint16
<1>1. CASE a >= b
  <2>1. (a - b) % Word = a - b
    BY <1>0, <1>1 DEF Word
  <2>2. b + (a - b) - c = a - c
    BY <1>0
  <2> QED BY Zenon, <2>1, <2>2
<1>2. CASE a < b
  <2>1. (a - b) % Word = a - b + Word
    BY <1>0, <1>2 DEF Word
  <2>2. b + (a - b + Word) - c = (a - c) + Word
    BY <1>0, WordIs
  <2>3. ((a - c) + Word) % Word = (a - c) % Word
    BY <1>0 DEF Word
  <2> QED BY Zenon, <2>1, <2>2, <2>3
<1> QED BY <1>0, <1>1, <1>2

\* Two steps of walks for the same option.
SameOption(x, y) == x.number = y.number /\ x.value = y.value

\* t is s with another option before the one at f: the header behind it is
\* written anew.
Inserts(s, w, f, num, v, t) ==
  \E p \in Nat, d \in Uint16, new \in Uint16 :
    /\ p = w[f].at
    /\ d = (num - NumberBefore(w, f)) % Word
    /\ new = (NumberBefore(w, f) + DeltaOf(w, f) - num) % Word
    /\ t = Splice(s, p, p + 1 + ExtraBytes(DeltaOf(w, f)), Encoded(d, v),
                  Cat(<<16 * Nibble(new) + Lower(s, p)>>, Extension(new)))

\* t has the options of w and one more at f.
WalkOneMore(t, w, f, num, v) ==
  \E u \in Seq(Steps) :
    /\ Framed(t, u, <<>>) /\ Len(u) = Len(w) + 1
    /\ \A i \in 1 .. f - 1 : SameOption(u[i], w[i])
    /\ u[f].number = num /\ u[f].value = v
    /\ \A i \in f .. Len(w) : SameOption(u[i + 1], w[i])

\* This moves the other bytes and leaves every option what it was.
LEMMA FramedInserted ==
  ASSUME NEW s \in Seq(Byte), NEW w, Framed(s, w, <<>>), NEW f \in 1 .. Len(w),
         NEW num \in Uint16, NEW v \in Values, NEW t, Inserts(s, w, f, num, v, t)
  PROVE  WalkOneMore(t, w, f, num, v)
<1>1. Laid(s, w) /\ EndOf(w) = Len(s) + 1 /\ w \in Seq(Steps)
  BY DEF Framed, Laid
<1>2. PICK n \in Nat, k \in Nat : n = Len(w) /\ k = Len(s) /\ EndOf(w) = k + 1
  BY <1>1
<1>3. PICK p \in Nat \ {0}, z \in Nat \ {0}, a \in Uint16, x \in Values, old \in Uint16, prev \in Uint16 :
        /\ p = w[f].at /\ z = w[f].next /\ a = w[f].number /\ x = w[f].value
        /\ old = DeltaOf(w, f) /\ prev = NumberBefore(w, f)
  BY <1>1, StepTypes
<1>put. PICK d \in Uint16, new \in Uint16, q \in Int :
        /\ d = (num - prev) % Word /\ new = (prev + old - num) % Word
        /\ q = p + 1 + ExtraBytes(old)
        /\ t = Splice(s, p, q, Encoded(d, v),
                      Cat(<<16 * Nibble(new) + Lower(s, p)>>, Extension(new)))
  <2>1. p + 1 + ExtraBytes(old) \in Int
    BY <1>3, NumberCoded
  <2> QED BY Zenon, <1>3, <2>1 DEF Inserts
<1>4. PICK l \in Uint16, el \in 0 .. 2, eo \in 0 .. 2, en \in 0 .. 2 :
        /\ l = Len(x) /\ el = ExtraBytes(l) /\ eo = ExtraBytes(old) /\ en = ExtraBytes(new)
  <2>1. PICK l \in Uint16 : l = Len(x)
    BY DEF Values
  <2> QED BY <2>1, NumberCoded
<1>5. l \in Nat /\ x \in Seq(Byte)
  <2>1. l \in Nat
    BY DEF Uint16
  <2> QED BY <2>1 DEF Values
<1>places. p \in Nat /\ p > 0 /\ z \in Nat /\ z > 0
  BY <1>3
<1>extras. /\ el \in Nat /\ eo \in Nat /\ en \in Nat /\ el <= 2 /\ eo <= 2 /\ en <= 2
  BY <1>4
<1>6. new = (a - num) % Word /\ old = (a - prev) % Word
  <2>1. old = (a - prev) % Word
    BY <1>3 DEF DeltaOf
  <2>2. (prev + ((a - prev) % Word) - num) % Word = (a - num) % Word
    BY <1>3, Rebasing
  <2> QED BY Zenon, <1>put, <2>1, <2>2
\* What lies at the place.
<1>7. LiesAt(s, p, Encoded(old, x)) /\ z = p + 1 + eo + el + l
  <2>1. LiesAt(s, p, Encoded(old, x)) /\ z = p + Len(Encoded(old, x))
    BY <1>1, <1>3 DEF Laid, CodeOf
  <2>2. Len(Encoded(old, x)) = 1 + eo + el + l
    BY <1>4, OptionCoded
  <2> QED BY <1>places, <1>extras, <1>5, <2>1, <2>2
<1>8. /\ p <= k /\ q = p + 1 + eo /\ q <= k + 1 /\ z <= k + 1 /\ z >= q
      /\ Lower(s, p) = Nibble(l)
      /\ LiesAt(s, q, Extension(l)) /\ LiesAt(s, q + el, x)
  <2>1. LiesAt(s, p + 1 + eo, Extension(l)) /\ LiesAt(s, p + 1 + eo + el, x)
        /\ Len(Encoded(old, x)) = 1 + eo + el + l
    BY <1>4, <1>7, OptionCoded
  <2>2. Lower(s, p) = Nibble(l) /\ p <= k
    BY <1>2, <1>4, <1>7, OptionRead
  <2>3. q = p + 1 + eo
    BY <1>put, <1>4
  <2>4. z <= k + 1
    BY <1>2, <1>5, <1>7, <2>1 DEF LiesAt
  <2> QED BY <1>5, <1>7, <2>1, <2>2, <2>3, <2>4
\* The new message.
<1> DEFINE b == Encoded(d, v)
           g == <<16 * Nibble(new) + Lower(s, p)>>
           h == Cat(g, Extension(new))
<1>9. b \in Seq(Byte) /\ Len(b) \in Nat \ {0}
  <2>1. PICK m \in Uint16 : m = Len(v)
    BY DEF Values
  <2>2. m \in Nat
    BY DEF Uint16
  <2>3. PICK e1 \in 0 .. 2, e2 \in 0 .. 2 : e1 = ExtraBytes(d) /\ e2 = ExtraBytes(m)
    BY <2>1, NumberCoded
  <2>4. b \in Seq(Byte) /\ Len(b) = 1 + e1 + e2 + m
    BY <2>1, <2>3, OptionCoded
  <2>5. e1 \in Nat /\ e2 \in Nat
    BY <2>3
  <2> QED BY <2>2, <2>4, <2>5
<1>10. /\ g = <<Header(new, l)>> /\ g \in Seq(Byte) /\ Len(g) = 1
       /\ Extension(new) \in Seq(Byte) /\ Len(Extension(new)) = en
  <2>1. g = <<Header(new, l)>>
    BY <1>8 DEF Header
  <2>2. Header(new, l) \in Byte
    BY HeaderRead
  <2> QED BY <1>4, <2>1, <2>2, NumberCoded
<1> HIDE DEF b, g
<1>11. h \in Seq(Byte) /\ Len(h) = 1 + en
  <2>1. h \in Seq(Byte) /\ Len(h) = Len(g) + Len(Extension(new))
    BY ONLY <1>10, Joined
  <2> QED BY Zenon, <1>10, <2>1
<1> HIDE DEF h
<1>12. t = Splice(s, p, q, b, h)
  BY Zenon, <1>put DEF h, b, g
<1>13. PICK m \in Nat \ {0} : m = Len(b)
  BY <1>9
<1>14. PICK c \in Int : c = Shift(p, q, b, h) /\ c = m + en - eo
  <2>1. Shift(p, q, b, h) = (p + m + (1 + en)) - q
    BY Zenon, <1>11, <1>13 DEF Shift
  <2>2. q = p + 1 + eo
    BY <1>8
  <2>3. (p + m + (1 + en)) - q = m + (en - eo) /\ m + (en - eo) \in Int
    BY <1>places, <1>extras, <1>13, <2>2
  <2> QED BY Zenon, <2>1, <2>3
<1>moved. \A e \in Nat : z <= e => q <= e /\ e + c \in Nat \ {0}
  <2>1. z = p + 1 + eo + el + l /\ q = p + 1 + eo
    BY <1>7, <1>8
  <2>2. c = m + (en - eo)
    BY <1>14
  <2> QED BY <1>places, <1>extras, <1>5, <1>13, <2>1, <2>2
<1>15. /\ t \in Seq(Byte) /\ Len(t) = k + c
       /\ LiesAt(t, p, b) /\ LiesAt(t, p + m, h)
       /\ \A j \in Nat \ {0}, code \in Seq(Byte) : LiesAt(s, j, code) =>
            /\ j + Len(code) <= p => LiesAt(t, j, code)
            /\ j >= q => LiesAt(t, j + c, code)
  <2>1. p \in 1 .. Len(s) /\ q \in 1 .. Len(s) + 1 /\ p < q
    BY <1>2, <1>8
  <2>2. /\ Splice(s, p, q, b, h) \in Seq(Byte)
        /\ Len(Splice(s, p, q, b, h)) = Len(s) + Shift(p, q, b, h)
        /\ LiesAt(Splice(s, p, q, b, h), p, b)
        /\ LiesAt(Splice(s, p, q, b, h), p + Len(b), h)
        /\ \A j \in Nat \ {0}, code \in Seq(Byte) : LiesAt(s, j, code) =>
             /\ j + Len(code) <= p => LiesAt(Splice(s, p, q, b, h), j, code)
             /\ j >= q => LiesAt(Splice(s, p, q, b, h), j + Shift(p, q, b, h), code)
    BY ONLY <2>1, <1>9, <1>11, Spliced, s \in Seq(Byte)
  <2> QED BY Zenon, <1>2, <1>12, <1>13, <1>14, <2>2
\* The option behind, read anew.
<1>16. LiesAt(t, p + m, Encoded(new, x)) /\ Len(Encoded(new, x)) = 1 + en + el + l
  <2>1. LiesAt(t, p + m, g) /\ LiesAt(t, p + m + 1, Extension(new))
    <3>1. p + m \in Nat \ {0}
      BY <1>13
    <3>2. LiesAt(t, p + m, Cat(g, Extension(new)))
      BY <1>15 DEF h
    <3>3. LiesAt(t, p + m, g) /\ LiesAt(t, (p + m) + Len(g), Extension(new))
      BY ONLY <1>10, <1>15, <3>1, <3>2, LiesJoined
    <3> QED BY <1>10, <3>3
  <2>2. LiesAt(t, q + c, Extension(l)) /\ LiesAt(t, (q + el) + c, x)
    <3>1. Extension(l) \in Seq(Byte) /\ q \in Nat \ {0} /\ q + el \in Nat \ {0} /\ q + el >= q
      BY <1>places, <1>extras, <1>8, NumberCoded
    <3> QED BY <1>5, <1>8, <1>15, <3>1
  <2>3. q + c = p + m + 1 + en /\ (q + el) + c = p + m + 1 + en + el
    BY SMTT(30), <1>places, <1>extras, <1>8, <1>13, <1>14
  <2>4. LiesAt(t, p + m, <<Header(new, l)>>)
    BY <1>10, <2>1
  <2>5. p + m \in Nat \ {0} /\ l = Len(x) /\ el = ExtraBytes(Len(x)) /\ en = ExtraBytes(new)
    BY <1>4
  <2>6. LiesAt(t, p + m, Encoded(new, x))
    <3>1. LiesAt(t, p + m, Encoded(new, x)) <=>
            /\ LiesAt(t, p + m, <<Header(new, Len(x))>>)
            /\ LiesAt(t, p + m + 1, Extension(new))
            /\ LiesAt(t, p + m + 1 + ExtraBytes(new), Extension(Len(x)))
            /\ LiesAt(t, p + m + 1 + ExtraBytes(new) + ExtraBytes(Len(x)), x)
      BY <1>15, <2>5, OptionCoded
    <3> QED BY <2>1, <2>2, <2>3, <2>4, <2>5, <3>1
  <2> QED BY <2>5, <2>6, OptionCoded
\* The walk over it.
<1> DEFINE u == [i \in 1 .. n + 1 |->
                   IF i < f THEN w[i]
                   ELSE IF i = f THEN [at |-> p, next |-> p + m, number |-> num, value |-> v]
                   ELSE [at |-> IF i = f + 1 THEN p + m ELSE w[i - 1].at + c,
                         next |-> w[i - 1].next + c,
                         number |-> w[i - 1].number, value |-> w[i - 1].value]]
<1>17. /\ \A i \in 1 .. f - 1 : w[i].next <= p
       /\ \A i \in f + 1 .. n : w[i].at >= z
  <2>1. \A i \in 1 .. f - 1 : i \in 1 .. Len(w) /\ i < f
    BY <1>2
  <2>2. \A i \in f + 1 .. n : i \in 1 .. Len(w) /\ f < i
    BY <1>2
  <2>3. \A i \in f + 1 .. n : z <= w[i].at
    BY <1>1, <1>3, <2>2, WalkGrows
  <2>4. \A i \in 1 .. f - 1 : w[i].next <= p
    BY <1>1, <1>3, <2>1, WalkGrows
  <2>5. \A i \in f + 1 .. n : w[i].at \in Nat
    BY <1>1, <2>2, StepTypes
  <2> QED BY <2>3, <2>4, <2>5
<1>18. /\ \A i \in 1 .. f - 1 : u[i] = w[i]
       /\ u[f] = [at |-> p, next |-> p + m, number |-> num, value |-> v]
       /\ u[f + 1] = [at |-> p + m, next |-> z + c, number |-> a, value |-> x]
       /\ \A i \in f + 1 .. n : u[i + 1] = [at |-> w[i].at + c, next |-> w[i].next + c,
                                            number |-> w[i].number, value |-> w[i].value]
  <2>1. \A i \in 1 .. f - 1 : u[i] = w[i]
    BY <1>2
  <2>2. u[f] = [at |-> p, next |-> p + m, number |-> num, value |-> v]
    BY <1>2
  <2>3. u[f + 1] = [at |-> p + m, next |-> z + c, number |-> a, value |-> x]
    BY <1>2, <1>3
  <2>4. ASSUME NEW i \in f + 1 .. n
        PROVE  u[i + 1] = [at |-> w[i].at + c, next |-> w[i].next + c,
                           number |-> w[i].number, value |-> w[i].value]
    <3>1. /\ i + 1 \in 1 .. n + 1 /\ ~(i + 1 < f) /\ i + 1 # f /\ i + 1 # f + 1
          /\ (i + 1) - 1 = i
      BY <1>2
    <3> QED BY <3>1
  <2> QED BY <2>1, <2>2, <2>3, <2>4
<1>fields. /\ u[f].at = p /\ u[f].next = p + m /\ u[f].number = num /\ u[f].value = v
           /\ \A i \in f + 1 .. n :
                /\ u[i + 1].at = w[i].at + c /\ u[i + 1].next = w[i].next + c
                /\ u[i + 1].number = w[i].number /\ u[i + 1].value = w[i].value
  <2> HIDE DEF u
  <2>1. ASSUME NEW i \in f + 1 .. n
        PROVE  /\ u[i + 1].at = w[i].at + c /\ u[i + 1].next = w[i].next + c
               /\ u[i + 1].number = w[i].number /\ u[i + 1].value = w[i].value
    <3> DEFINE e == [at |-> w[i].at + c, next |-> w[i].next + c,
                     number |-> w[i].number, value |-> w[i].value]
    <3>1. u[i + 1] = e
      BY Zenon, <1>18
    <3>2. /\ e.at = w[i].at + c /\ e.next = w[i].next + c
          /\ e.number = w[i].number /\ e.value = w[i].value
      OBVIOUS
    <3> HIDE DEF e
    <3> QED BY Zenon, <3>1, <3>2
  <2>2. u[f].at = p /\ u[f].next = p + m /\ u[f].number = num /\ u[f].value = v
    BY <1>18
  <2> QED BY Zenon, <2>1, <2>2
<1>19. u \in Seq(Steps) /\ Len(u) = n + 1
  <2>1. ASSUME NEW i \in 1 .. n + 1
        PROVE  u[i] \in Steps
    <3>1. CASE i < f
      <4>1. i \in 1 .. f - 1 /\ i \in 1 .. Len(w)
        BY <1>2, <3>1
      <4> QED BY <1>1, <1>18, <4>1
    <3>2. CASE i = f
      BY <1>18, <3>2 DEF Steps
    <3>3. CASE i = f + 1
      <4>1. z \in Nat /\ z <= z
        BY <1>places
      <4>2. z + c \in Nat \ {0}
        BY Zenon, <1>moved, <4>1
      <4>3. p + m \in Nat \ {0}
        BY <1>places, <1>13
      <4> QED BY <1>18, <3>3, <4>2, <4>3 DEF Steps
    <3>4. CASE i > f + 1
      <4>1. PICK j \in f + 1 .. n : i = j + 1
        BY <1>2, <3>4
      <4>2. j \in 1 .. Len(w)
        BY <1>2
      <4>3. PICK e1 \in Nat \ {0}, e2 \in Nat \ {0}, y \in Nat \ {0} :
              e1 = w[j].at /\ e2 = w[j].next /\ y = Len(CodeOf(w, j)) /\ e2 = e1 + y
        BY <1>1, <4>2, StepTypes DEF Laid
      <4>4. w[j].number \in Uint16 /\ w[j].value \in Values
        BY <1>1, <4>2, StepTypes
      <4>5. e1 + c \in Nat \ {0} /\ e2 + c \in Nat \ {0}
        <5>1. z <= e1
          BY <1>places, <1>17, <4>1, <4>3
        <5>2. e1 + c \in Nat \ {0}
          BY <1>moved, <4>3, <5>1
        <5>3. e2 + c = (e1 + c) + y
          BY <1>14, <4>3
        <5>4. y \in Nat
          BY <4>3
        <5>5. PICK r \in Nat \ {0} : r = e1 + c
          BY <5>2
        <5>6. r + y \in Nat \ {0}
          BY SMTT(30), <5>4, <5>5
        <5> QED BY Zenon, <5>2, <5>3, <5>5, <5>6
      <4> HIDE DEF u
      <4>6. u[i] = [at |-> e1 + c, next |-> e2 + c, number |-> w[j].number, value |-> w[j].value]
        BY Zenon, <1>18, <4>1, <4>3
      <4> QED BY <4>4, <4>5, <4>6 DEF Steps
    <3> QED BY <1>2, <3>1, <3>2, <3>3, <3>4
  <2>2. u = [i \in 1 .. n + 1 |-> u[i]] /\ n + 1 \in Nat
    OBVIOUS
  <2> HIDE DEF u
  <2> QED BY <2>1, <2>2
<1> HIDE DEF u
<1>20. /\ \A i \in 1 .. f : NumberBefore(u, i) = NumberBefore(w, i) /\ PlaceOf(u, i) = PlaceOf(w, i)
       /\ NumberBefore(u, f + 1) = num /\ PlaceOf(u, f + 1) = p + m
       /\ \A i \in f + 1 .. n : /\ NumberBefore(u, i + 1) = NumberBefore(w, i)
                                /\ PlaceOf(u, i + 1) = PlaceOf(w, i) + c
  <2>1. ASSUME NEW i \in 1 .. f
        PROVE  NumberBefore(u, i) = NumberBefore(w, i) /\ PlaceOf(u, i) = PlaceOf(w, i)
    <3>1. i # 1 => i - 1 \in 1 .. f - 1
      BY <1>2
    <3>2. i # 1 => u[i - 1] = w[i - 1]
      BY <1>18, <3>1
    <3> QED BY Zenon, <3>2 DEF NumberBefore, PlaceOf
  <2>2. NumberBefore(u, f + 1) = num /\ PlaceOf(u, f + 1) = p + m
    <3>1. f + 1 # 1 /\ (f + 1) - 1 = f
      BY <1>2
    <3> QED BY <1>18, <3>1 DEF NumberBefore, PlaceOf
  <2>3. ASSUME NEW i \in f + 1 .. n
        PROVE  NumberBefore(u, i + 1) = NumberBefore(w, i) /\ PlaceOf(u, i + 1) = PlaceOf(w, i) + c
    <3>1. i + 1 # 1 /\ (i + 1) - 1 = i /\ i # 1
      BY <1>2
    <3>2. NumberBefore(u, i + 1) = u[i].number /\ PlaceOf(u, i + 1) = u[i].next
      BY <3>1 DEF NumberBefore, PlaceOf
    <3>3. NumberBefore(w, i) = w[i - 1].number /\ PlaceOf(w, i) = w[i - 1].next
      BY <3>1 DEF NumberBefore, PlaceOf
    <3>4. u[i].number = w[i - 1].number /\ u[i].next = w[i - 1].next + c
      <4>1. CASE i = f + 1
        BY <1>3, <1>18, <4>1
      <4>2. CASE i # f + 1
        <5>1. i - 1 \in f + 1 .. n /\ (i - 1) + 1 = i
          BY <1>2, <4>2
        <5>2. u[(i - 1) + 1] = [at |-> w[i - 1].at + c, next |-> w[i - 1].next + c,
                                number |-> w[i - 1].number, value |-> w[i - 1].value]
          BY <1>18, <5>1
        <5> QED BY <5>1, <5>2
      <4> QED BY <4>1, <4>2
    <3> QED BY <3>2, <3>3, <3>4
  <2> QED BY <2>1, <2>2, <2>3
<1>21. /\ \A i \in 1 .. f - 1 : CodeOf(u, i) = CodeOf(w, i)
       /\ CodeOf(u, f) = b /\ CodeOf(u, f + 1) = Encoded(new, x)
       /\ \A i \in f + 1 .. n : CodeOf(u, i + 1) = CodeOf(w, i)
  <2>1. ASSUME NEW i \in 1 .. f - 1
        PROVE  CodeOf(u, i) = CodeOf(w, i)
    <3>1. i \in 1 .. f
      OBVIOUS
    <3> QED BY <1>18, <1>20, <3>1 DEF CodeOf, DeltaOf
  <2>2. CodeOf(u, f) = b
    <3>1. f \in 1 .. f
      OBVIOUS
    <3>2. NumberBefore(u, f) = prev
      BY <1>3, <1>20, <3>1
    <3>3. DeltaOf(u, f) = d
      BY Zenon, <1>put, <1>fields, <3>2 DEF DeltaOf
    <3> QED BY <1>18, <3>3 DEF CodeOf, b
  <2>3. CodeOf(u, f + 1) = Encoded(new, x)
    BY <1>6, <1>18, <1>20 DEF CodeOf, DeltaOf
  <2>4. ASSUME NEW i \in f + 1 .. n
        PROVE  CodeOf(u, i + 1) = CodeOf(w, i)
    <3>1. u[i + 1].number = w[i].number /\ u[i + 1].value = w[i].value
      BY Zenon, <1>fields
    <3>2. DeltaOf(u, i + 1) = DeltaOf(w, i)
      BY Zenon, <1>20, <3>1 DEF DeltaOf
    <3> QED BY Zenon, <3>1, <3>2 DEF CodeOf
  <2> QED BY <2>1, <2>2, <2>3, <2>4
<1>22. Laid(t, u)
  <2> SUFFICES ASSUME NEW i \in 1 .. n + 1
               PROVE  /\ u[i].at = PlaceOf(u, i)
                      /\ u[i].next = u[i].at + Len(CodeOf(u, i))
                      /\ LiesAt(t, u[i].at, CodeOf(u, i))
    BY <1>19 DEF Laid
  <2>1. CASE i \in 1 .. f - 1
    <3>1. i \in 1 .. f /\ i \in 1 .. Len(w)
      BY <1>2, <2>1
    <3>2. /\ w[i].at = PlaceOf(w, i) /\ w[i].next = w[i].at + Len(CodeOf(w, i))
          /\ LiesAt(s, w[i].at, CodeOf(w, i))
      BY <1>1, <3>1 DEF Laid
    <3>3. w[i].at \in Nat \ {0} /\ CodeOf(w, i) \in Seq(Byte)
      BY <1>1, <3>1, StepTypes
    <3>4. w[i].at + Len(CodeOf(w, i)) <= p
      BY <1>17, <2>1, <3>2
    <3>5. LiesAt(t, w[i].at, CodeOf(w, i))
      BY <1>15, <3>2, <3>3, <3>4
    <3> QED BY <1>18, <1>20, <1>21, <2>1, <3>1, <3>2, <3>5
  <2>2. CASE i = f
    <3>1. f \in 1 .. f
      OBVIOUS
    <3>2. PlaceOf(u, f) = p
      BY <1>1, <1>3, <1>20, <3>1 DEF Laid
    <3> QED BY <1>13, <1>15, <1>fields, <1>21, <2>2, <3>2
  <2>3. CASE i = f + 1
    <3>1. z + c = (p + m) + (1 + en + el + l)
      BY <1>places, <1>extras, <1>5, <1>7, <1>13, <1>14
    <3> QED BY <1>16, <1>18, <1>20, <1>21, <2>3, <3>1
  <2>4. CASE i > f + 1
    <3>1. PICK j \in f + 1 .. n : i = j + 1
      BY <1>2, <2>4
    <3>2. j \in 1 .. Len(w)
      BY <1>2
    <3>3. /\ w[j].at = PlaceOf(w, j) /\ w[j].next = w[j].at + Len(CodeOf(w, j))
          /\ LiesAt(s, w[j].at, CodeOf(w, j))
      BY <1>1, <3>2 DEF Laid
    <3>4. w[j].at \in Nat \ {0} /\ CodeOf(w, j) \in Seq(Byte)
      BY <1>1, <3>2, StepTypes
    <3>5. LiesAt(t, w[j].at + c, CodeOf(w, j))
      <4>1. w[j].at >= q
        <5>1. PICK e1 \in Nat : e1 = w[j].at
          BY <3>4
        <5>2. z <= e1
          BY <1>places, <1>17, <3>1, <5>1
        <5>3. q <= e1
          BY <1>moved, <5>1, <5>2
        <5> QED BY <5>1, <5>3
      <4> QED BY <1>15, <3>3, <3>4, <4>1
    <3>6. w[j].next + c = (w[j].at + c) + Len(CodeOf(w, j))
      <4>1. PICK e1 \in Nat, y \in Nat : e1 = w[j].at /\ y = Len(CodeOf(w, j))
        BY <3>4
      <4> QED BY <1>14, <3>3, <4>1
    <3> QED BY Zenon, <1>fields, <1>20, <1>21, <3>1, <3>3, <3>5, <3>6
  <2> QED BY <2>1, <2>2, <2>3, <2>4
<1>23. EndOf(u) = Len(t) + 1
  <2>1. u # <<>> /\ EndOf(u) = u[n + 1].next
    BY <1>19 DEF EndOf
  <2>2. EndOf(w) = w[n].next
    BY <1>1, <1>2 DEF EndOf
  <2>3. u[n + 1].next = w[n].next + c
    <3>1. CASE f = n
      BY <1>3, <1>18, <3>1
    <3>2. CASE f # n
      <4>1. n \in f + 1 .. n
        BY <1>2, <3>2
      <4> QED BY Zenon, <1>fields, <4>1
    <3> QED BY <3>1, <3>2
  <2> QED BY <1>2, <1>15, <2>1, <2>2, <2>3
<1>24. \A i \in f .. n : SameOption(u[i + 1], w[i])
  <2> SUFFICES ASSUME NEW i \in f .. n
               PROVE  SameOption(u[i + 1], w[i])
    OBVIOUS
  <2>1. CASE i = f
    BY <1>3, <1>18, <2>1 DEF SameOption
  <2>2. CASE i # f
    <3>1. i \in f + 1 .. n
      BY <1>2, <2>2
    <3> QED BY Zenon, <1>fields, <3>1 DEF SameOption
  <2> QED BY <2>1, <2>2
<1>25. u[f].number = num /\ u[f].value = v /\ \A i \in 1 .. f - 1 : SameOption(u[i], w[i])
  BY <1>18 DEF SameOption
<1> QED BY <1>2, <1>19, <1>22, <1>23, <1>24, <1>25 DEF Framed, WalkOneMore

-----------------------------------------------------------------------------
(* What a receiver makes of a message that is cut.                         *)

\* The three verdicts of validate.
LEMMA ValidateIs ==
  ASSUME NEW t \in Seq(Byte), NEW walk \in Seq(Steps), walk = Walk(t),
         NEW e \in Nat \ {0}, e = EndOf(walk)
  PROVE  /\ e > Len(t) => Validate(t) =
              [verdict |-> "valid", numOptions |-> Len(walk), payload |-> <<>>]
         /\ e < Len(t) /\ t[e] = Marker => Validate(t) =
              [verdict |-> "valid", numOptions |-> Len(walk), payload |-> SubSeq(t, e + 1, Len(t))]
         /\ e <= Len(t) /\ (t[e] # Marker \/ e = Len(t)) => Validate(t) = [verdict |-> "invalid"]
<1> DEFINE a == [verdict |-> "valid", numOptions |-> Len(walk), payload |-> <<>>]
           b == [verdict |-> "valid", numOptions |-> Len(walk), payload |-> SubSeq(t, e + 1, Len(t))]
           c == [verdict |-> "invalid"]
<1>1. Validate(t) = CASE e > Len(t) -> a
                      [] e < Len(t) /\ t[e] = Marker -> b
                      [] e <= Len(t) /\ (t[e] # Marker \/ e = Len(t)) -> c
  BY Zenon DEF Validate
<1>2. PICK n \in Nat : n = Len(t)
  OBVIOUS
<1> HIDE DEF a, b, c
<1>3. e > n => Validate(t) = a
  BY <1>1, <1>2
<1>4. e < n /\ t[e] = Marker => Validate(t) = b
  BY <1>1, <1>2
<1>5. e <= n /\ (t[e] # Marker \/ e = n) => Validate(t) = c
  BY <1>1, <1>2
<1> QED BY Zenon, <1>2, <1>3, <1>4, <1>5 DEF a, b, c

\* The options that are not cut are laid in what is left.
LEMMA LaidFront ==
  ASSUME NEW s \in Seq(Byte), NEW w, Laid(s, w), NEW k \in 0 .. Len(w),
         NEW cut \in 0 .. Len(s), PlaceOf(w, k + 1) <= cut + 1
  PROVE  Laid(SubSeq(s, 1, cut), Front(w, k))
<1>1. w \in Seq(Steps) /\ Len(w) \in Nat
  BY DEF Laid
<1>2. PICK n \in Nat, m \in Nat : n = Len(w) /\ m = Len(s)
  BY <1>1
<1>3. k \in Nat /\ k <= n /\ cut \in Nat /\ cut <= m
  BY <1>2
<1> DEFINE t == SubSeq(s, 1, cut)
           u == Front(w, k)
<1>4. u \in Seq(Steps) /\ Len(u) = k /\ \A i \in 1 .. k : u[i] = w[i]
  BY <1>1, FrontOf
<1> HIDE DEF t, u
<1> SUFFICES ASSUME NEW i \in 1 .. k
             PROVE  /\ u[i].at = PlaceOf(u, i)
                    /\ u[i].next = u[i].at + Len(CodeOf(u, i))
                    /\ LiesAt(t, u[i].at, CodeOf(u, i))
  BY <1>4 DEF Laid, t, u
<1>5. i \in 1 .. Len(w) /\ k \in 1 .. Len(w) /\ i # 1 => i - 1 \in 1 .. k
  BY <1>2, <1>3
<1>6. PlaceOf(u, i) = PlaceOf(w, i) /\ NumberBefore(u, i) = NumberBefore(w, i)
  BY <1>4, <1>5 DEF PlaceOf, NumberBefore
<1>7. CodeOf(u, i) = CodeOf(w, i)
  BY <1>4, <1>6 DEF CodeOf, DeltaOf
<1>8. i \in 1 .. Len(w) /\ k \in 1 .. Len(w)
  BY <1>2, <1>3
<1>9. /\ w[i].at = PlaceOf(w, i) /\ w[i].next = w[i].at + Len(CodeOf(w, i))
      /\ LiesAt(s, w[i].at, CodeOf(w, i))
  BY <1>8 DEF Laid
<1>10. PICK p \in Nat \ {0}, c \in Seq(Byte) : p = w[i].at /\ c = CodeOf(w, i)
  BY <1>1, <1>8, StepTypes
<1>11. PICK l \in Nat : l = Len(c)
  BY <1>10
<1>12. p + l <= cut + 1
  <2>1. w[i].next = p + l
    BY <1>9, <1>10, <1>11
  <2>2. PlaceOf(w, k + 1) = w[k].next
    BY <1>3, <1>8 DEF PlaceOf
  <2>3. CASE i = k
    BY <2>1, <2>2, <2>3
  <2>4. CASE i # k
    <3>1. i < k
      BY <1>3, <2>4
    <3>2. w[i].next <= w[k].at
      BY <1>8, <3>1, WalkGrows
    <3>3. PICK a \in Nat, b \in Nat : a = w[k].at /\ b = Len(CodeOf(w, k)) /\ w[k].next = a + b
      BY <1>1, <1>8, StepTypes DEF Laid
    <3>4. p + l <= a + b /\ a + b <= cut + 1
      <4>1. p + l <= a /\ a + b <= cut + 1
        BY Zenon, <2>1, <2>2, <3>2, <3>3
      <4> QED BY ONLY <4>1, p \in Nat \ {0}, l \in Nat, a \in Nat, b \in Nat
    <3>5. p \in Int /\ l \in Int /\ a \in Int /\ b \in Int /\ cut \in Int
      BY ONLY <1>3, p \in Nat \ {0}, l \in Nat, a \in Nat, b \in Nat
    <3> QED BY ONLY <3>4, <3>5
  <2> QED BY <2>3, <2>4
<1>13. LiesAt(t, p, c)
  <2>1. /\ 1 \in Nat \ {0} /\ cut \in Nat /\ cut <= Len(s) /\ 1 <= cut + 1 /\ LiesAt(s, p, c)
        /\ 1 <= p /\ p + Len(c) - 1 <= cut
    BY <1>2, <1>3, <1>9, <1>10, <1>11, <1>12
  <2>2. LiesAt(t, p - 1 + 1, c)
    BY ONLY <1>10, <2>1, LiesSlice, s \in Seq(Byte) DEF t
  <2>3. p - 1 + 1 = p
    BY <1>10
  <2> QED BY <2>2, <2>3
<1> QED BY <1>4, <1>6, <1>7, <1>9, <1>10, <1>13

\* t holds the first options of w and the first bytes of the payload.
PartOf(t, w, load, whole) ==
  \/ Validate(t) = [verdict |-> "invalid"] /\ ~whole
  \/ \E k \in 0 .. Len(w), rest \in Seq(Byte) :
       /\ Validate(t) = [verdict |-> "valid", numOptions |-> k, payload |-> rest]
       /\ Walk(t) = Front(w, k) /\ IsPrefixOf(rest, load)
       /\ rest # <<>> => k = Len(w)
       /\ whole => k = Len(w) /\ rest = load

\* A message cut anywhere is valid with the first options and the first bytes of
\* the payload, of which there are none before all the options, or invalid,
\* which the whole message is not.
LEMMA CutMessage ==
  ASSUME NEW s \in Seq(Byte), NEW w, NEW load \in Seq(Byte), Framed(s, w, load),
         NEW cut \in 0 .. Len(s), NEW t, t = SubSeq(s, 1, cut)
  PROVE  PartOf(t, w, load, cut = Len(s))
<1> SUFFICES \/ Validate(t) = [verdict |-> "invalid"] /\ cut # Len(s)
             \/ \E k \in 0 .. Len(w), rest \in Seq(Byte) :
                  /\ Validate(t) = [verdict |-> "valid", numOptions |-> k, payload |-> rest]
                  /\ Walk(t) = Front(w, k) /\ IsPrefixOf(rest, load)
                  /\ rest # <<>> => k = Len(w)
                  /\ cut = Len(s) => k = Len(w) /\ rest = load
  BY Zenon DEF PartOf
<1>1. Laid(s, w) /\ w \in Seq(Steps)
  BY DEF Framed, Laid
<1>2. PICK n \in Nat, m \in Nat, l \in Nat : n = Len(w) /\ m = Len(s) /\ l = Len(load)
  BY <1>1
<1>3. cut \in Nat /\ cut <= m
  BY <1>2
<1>4. t \in Seq(Byte) /\ Len(t) = cut /\ \A i \in 1 .. cut : t[i] = s[i]
  <2>1. 1 \in Nat \ {0} /\ cut \in Nat /\ cut <= Len(s) /\ 1 <= cut + 1
    BY <1>2, <1>3
  <2>2. /\ SubSeq(s, 1, cut) \in Seq(Byte) /\ Len(SubSeq(s, 1, cut)) = cut - 1 + 1
        /\ \A i \in 1 .. cut - 1 + 1 : SubSeq(s, 1, cut)[i] = s[1 + i - 1]
    BY ONLY <2>1, Slice, s \in Seq(Byte)
  <2> QED BY <1>3, <2>2
\* Where the first k options end there is nothing more, or no option.
<1>5. ASSUME NEW k \in 0 .. n, NEW e \in Nat \ {0}, e = PlaceOf(w, k + 1), e <= cut + 1,
             e > cut \/ t[e] = Marker \/ ~Fits(t, e)
      PROVE  /\ Front(w, k) \in Seq(Steps) /\ Len(Front(w, k)) = k
             /\ Walk(t) = Front(w, k) /\ e = EndOf(Front(w, k))
  <2>1. k \in 0 .. Len(w)
    BY <1>2
  <2>2. Front(w, k) \in Seq(Steps) /\ Len(Front(w, k)) = k /\ EndOf(Front(w, k)) = e
    BY Zenon, <1>1, <1>5, <2>1, FrontOf
  <2>3. Laid(t, Front(w, k))
    BY <1>1, <1>5, <2>1, LaidFront
  <2>4. Stops(t, e)
    <3>1. e <= cut => At(t, e) = t[e]
      BY <1>3, <1>4 DEF At
    <3> QED BY <1>3, <1>4, <1>5, <3>1 DEF Stops
  <2>5. Walk(t) = Front(w, k)
    BY <1>4, <2>2, <2>3, <2>4, WalkIs
  <2> QED BY <2>2, <2>5
<1>6. ASSUME NEW k \in 0 .. n, NEW e \in Nat \ {0}, e = PlaceOf(w, k + 1), e = cut + 1
      PROVE  /\ Validate(t) = [verdict |-> "valid", numOptions |-> k, payload |-> <<>>]
             /\ Walk(t) = Front(w, k)
  <2>1. e <= cut + 1 /\ e > cut
    BY <1>3, <1>6
  <2>2. /\ Front(w, k) \in Seq(Steps) /\ Len(Front(w, k)) = k
        /\ Walk(t) = Front(w, k) /\ e = EndOf(Front(w, k))
    BY Zenon, <1>5, <1>6, <2>1
  <2>3. e > Len(t)
    BY <1>4, <2>1
  <2> QED BY Zenon, <1>4, <2>2, <2>3, ValidateIs
<1>7. <<>> \in Seq(Byte) /\ IsPrefixOf(<<>>, load)
  BY <1>2 DEF IsPrefixOf
<1>8. PICK e \in Nat \ {0} : e = PlaceOf(w, n + 1) /\ e = EndOf(w) /\ e <= m + 1
  <2>1. EndOf(w) \in 1 .. Len(s) + 1
    BY <1>1, WalkIsShort
  <2>2. EndOf(w) = PlaceOf(w, n + 1)
    BY <1>1, <1>2 DEF EndOf, PlaceOf
  <2> QED BY <1>2, <2>1, <2>2
<1>9. /\ load = <<>> => e = m + 1
      /\ load # <<>> => e + l = m /\ s[e] = Marker /\ LiesAt(s, e + 1, load) /\ l > 0
  BY <1>2, <1>8 DEF Framed
\* All the options are there.
<1>10. CASE e <= cut + 1
  <2>1. n \in 0 .. n /\ n = Len(w)
    BY <1>2
  <2>2. CASE e = cut + 1
    <3>1. Validate(t) = [verdict |-> "valid", numOptions |-> n, payload |-> <<>>] /\ Walk(t) = Front(w, n)
      BY Zenon, <1>6, <1>8, <2>1, <2>2
    <3>2. cut = m => <<>> = load
      BY <1>3, <1>8, <1>9, <2>2
    <3> QED BY <1>2, <1>7, <2>1, <3>1, <3>2
  <2>3. CASE e <= cut
    <3>1. load # <<>> /\ s[e] = Marker /\ e + l = m /\ LiesAt(s, e + 1, load) /\ l > 0
      BY <1>3, <1>8, <1>9, <2>3
    <3>2. t[e] = Marker
      BY <1>3, <1>4, <1>8, <2>3, <3>1
    <3>3. /\ Front(w, n) \in Seq(Steps) /\ Len(Front(w, n)) = n
          /\ Walk(t) = Front(w, n) /\ e = EndOf(Front(w, n))
      BY <1>5, <1>8, <1>10, <2>1, <3>2
    <3>4. CASE e = cut
      <4>1. Validate(t) = [verdict |-> "invalid"]
        <5>1. e <= Len(t) /\ e = Len(t)
          BY <1>4, <1>8, <3>4
        <5> QED BY Zenon, <1>4, <1>8, <3>3, <5>1, ValidateIs
      <4>2. cut # Len(s)
        BY <1>2, <1>3, <3>1, <3>4
      <4> QED BY <4>1, <4>2
    <3>5. CASE e < cut
      <4> DEFINE rest == SubSeq(t, e + 1, cut)
      <4>1. Validate(t) = [verdict |-> "valid", numOptions |-> n, payload |-> rest]
        <5>1. e < Len(t) /\ Len(t) = cut
          BY <1>4, <3>5
        <5> QED BY ZenonT(40), <1>4, <1>8, <3>2, <3>3, <5>1, ValidateIs
      <4>2. /\ rest \in Seq(Byte) /\ Len(rest) = cut - e
            /\ \A i \in 1 .. cut - e : rest[i] = load[i]
        <5>1. e + 1 \in Nat \ {0} /\ cut \in Nat /\ cut <= Len(t) /\ e + 1 <= cut + 1
          BY <1>3, <1>4, <1>8, <3>5
        <5>2. /\ rest \in Seq(Byte) /\ Len(rest) = cut - (e + 1) + 1
              /\ \A i \in 1 .. cut - (e + 1) + 1 : rest[i] = t[(e + 1) + i - 1]
          BY ONLY <1>4, <5>1, Slice
        <5>3. cut - (e + 1) + 1 = cut - e
          BY <1>3, <1>8
        <5> HIDE DEF rest
        <5>4. ASSUME NEW i \in 1 .. cut - e
              PROVE  rest[i] = load[i]
          <6>1. (e + 1) + i - 1 \in 1 .. cut /\ i \in 1 .. l
            BY SMTT(30), <1>3, <1>8, <3>1, <3>5
          <6>2. s[(e + 1) + i - 1] = load[i]
            BY <1>2, <3>1, <6>1 DEF LiesAt
          <6> QED BY <1>4, <5>2, <5>3, <6>1, <6>2
        <5> QED BY <5>2, <5>3, <5>4
      <4> HIDE DEF rest
      <4>3. PICK r \in Nat : r = cut - e /\ r <= l /\ (cut = m => r = l)
        BY <1>3, <1>8, <3>1, <3>5
      <4>4. IsPrefixOf(rest, load)
        <5>1. SubSeq(load, 1, r) \in Seq(Byte) /\ Len(SubSeq(load, 1, r)) = r
              /\ \A i \in 1 .. r : SubSeq(load, 1, r)[i] = load[i]
          <6>1. 1 \in Nat \ {0} /\ r \in Nat /\ r <= Len(load) /\ 1 <= r + 1
            BY <1>2, <4>3
          <6>2. /\ SubSeq(load, 1, r) \in Seq(Byte) /\ Len(SubSeq(load, 1, r)) = r - 1 + 1
                /\ \A i \in 1 .. r - 1 + 1 : SubSeq(load, 1, r)[i] = load[1 + i - 1]
            BY ONLY <6>1, Slice, load \in Seq(Byte)
          <6> QED BY <4>3, <6>2
        <5>2. Len(rest) = r /\ \A i \in 1 .. r : rest[i] = SubSeq(load, 1, r)[i]
          BY <4>2, <4>3, <5>1
        <5>3. rest = SubSeq(load, 1, r)
          BY ONLY <4>2, <5>1, <5>2, SameSequence
        <5> QED BY <1>2, <4>3, <5>2, <5>3 DEF IsPrefixOf
      <4>5. cut = m => rest = load
        <5> SUFFICES ASSUME cut = m
                     PROVE  rest = load
          OBVIOUS
        <5>1. Len(rest) = Len(load) /\ \A i \in 1 .. Len(load) : rest[i] = load[i]
          BY <1>2, <4>2, <4>3
        <5> QED BY ONLY <4>2, <5>1, SameSequence, load \in Seq(Byte)
      <4> QED BY <1>2, <2>1, <3>3, <4>1, <4>2, <4>4, <4>5
    <3>6. e = cut \/ e < cut
      BY <1>3, <1>8, <2>3
    <3> QED BY Zenon, <3>4, <3>5, <3>6
  <2>4. e = cut + 1 \/ e <= cut
    BY <1>3, <1>8, <1>10
  <2> QED BY Zenon, <2>2, <2>3, <2>4
\* Some option is not.
<1>11. CASE e > cut + 1
  <2> DEFINE C == {i \in Nat : i <= n /\ PlaceOf(w, i + 1) > cut + 1}
  <2>1. n \in C
    BY <1>2, <1>8, <1>11
  <2>2. PICK i \in C : \A j \in C : i <= j
    <3>1. C \in SUBSET Nat /\ C # {}
      BY <2>1
    <3> HIDE DEF C
    <3> QED BY <3>1, LeastNumber
  <2>3. i \in Nat /\ i <= n /\ PlaceOf(w, i + 1) > cut + 1
    OBVIOUS
  <2>4. i # 0
    BY <1>3, <2>3 DEF PlaceOf
  <2>5. i \in 1 .. Len(w) /\ i - 1 \in 0 .. n /\ i - 1 \notin C /\ i - 1 # n
    <3>1. i \in 1 .. n /\ i - 1 \in 0 .. n /\ i - 1 # n /\ ~(i <= i - 1)
      BY <1>2, <2>3, <2>4
    <3>2. i - 1 \notin C
      BY Zenon, <2>2, <3>1
    <3> QED BY <1>2, <3>1, <3>2
  <2>6. PICK p \in Nat \ {0}, d \in Uint16, v \in Values :
          p = PlaceOf(w, i) /\ d = DeltaOf(w, i) /\ v = w[i].value
    BY <1>1, <2>5, StepTypes
  <2>7. /\ w[i].next = p + Len(Encoded(d, v)) /\ LiesAt(s, p, Encoded(d, v))
        /\ w[i].next > cut + 1
    <3>1. w[i].next = p + Len(Encoded(d, v)) /\ LiesAt(s, p, Encoded(d, v))
      BY <1>1, <2>5, <2>6 DEF Laid, CodeOf
    <3>2. PlaceOf(w, i + 1) = w[i].next
      <4>1. i + 1 # 1 /\ (i + 1) - 1 = i
        BY <2>3, <2>4
      <4> QED BY Zenon, <4>1 DEF PlaceOf
    <3> QED BY <2>3, <3>1, <3>2
  <2>8. p <= cut + 1 /\ p = PlaceOf(w, (i - 1) + 1)
    <3>1. (i - 1) + 1 = i /\ i - 1 \in Nat /\ i - 1 <= n
      BY <2>3, <2>4
    <3>2. ~(PlaceOf(w, (i - 1) + 1) > cut + 1)
      BY <2>5, <3>1
    <3> QED BY <1>3, <2>6, <3>1, <3>2
  <2>9. PICK c \in Nat : c = Len(Encoded(d, v)) /\ p + c - 1 <= m /\ p + c > cut + 1
    <3>1. Len(Encoded(d, v)) \in Nat
      <4>1. Encoded(d, v) \in Seq(Byte)
        BY <2>6, OptionCoded
      <4> QED BY <4>1
    <3> QED BY <1>2, <2>7, <3>1 DEF LiesAt
  <2>10. cut # Len(s)
    BY <1>2, <1>3, <2>6, <2>9
  <2>11. CASE p = cut + 1
    <3>1. /\ Validate(t) = [verdict |-> "valid", numOptions |-> i - 1, payload |-> <<>>]
          /\ Walk(t) = Front(w, i - 1)
      BY Zenon, <1>6, <2>5, <2>6, <2>8, <2>11
    <3>2. i - 1 \in 0 .. Len(w)
      BY <1>2, <2>5
    <3> QED BY <1>7, <2>10, <3>1, <3>2
  <2>12. CASE p <= cut
    <3>1. cut \in p .. p + Len(Encoded(d, v)) - 2
      BY <1>3, <2>6, <2>9, <2>12
    <3>2. t[p] # Marker /\ ~Fits(t, p)
      BY <2>6, <2>7, <3>1, OptionCut
    <3>3. /\ Front(w, i - 1) \in Seq(Steps) /\ Walk(t) = Front(w, i - 1)
          /\ p = EndOf(Front(w, i - 1))
      BY Zenon, <1>5, <2>5, <2>6, <2>8, <3>2
    <3>4. p <= Len(t)
      BY <1>4, <2>12
    <3>5. Validate(t) = [verdict |-> "invalid"]
      BY Zenon, <1>4, <2>6, <3>2, <3>3, <3>4, ValidateIs
    <3> QED BY <2>10, <3>5
  <2>13. p = cut + 1 \/ p <= cut
    BY <1>3, <2>6, <2>8
  <2> QED BY Zenon, <2>11, <2>12, <2>13
<1>12. e <= cut + 1 \/ e > cut + 1
  BY <1>3, <1>8
<1> QED BY Zenon, <1>10, <1>11, <1>12

-----------------------------------------------------------------------------
(* The order of the options.                                               *)

Entries == [number : Uint16, value : Values]

Precedes(a, i, j) ==
  a[i].number < a[j].number \/ (a[i].number = a[j].number /\ i < j)

\* order lists the places of a from the least option to the greatest.
IsOrder(a, order) ==
  /\ order \in [1 .. Len(a) -> 1 .. Len(a)]
  /\ \A j \in 1 .. Len(a) : \E k \in 1 .. Len(a) : order[k] = j
  /\ \A k, m \in 1 .. Len(a) : k < m => Precedes(a, order[k], order[m])

UpTo(a, i) == {j \in DOMAIN a : \/ a[j].number < a[i].number
                                \/ a[j].number = a[i].number /\ j <= i}

\* An option has as many options up to it as its place says.
LEMMA UpToIs ==
  ASSUME NEW a \in Seq(Entries), NEW order, IsOrder(a, order), NEW k \in 1 .. Len(a)
  PROVE  Cardinality(UpTo(a, order[k])) = k
<1>1. PICK n \in Nat : n = Len(a) /\ DOMAIN a = 1 .. n
  OBVIOUS
<1>2. order \in [1 .. n -> 1 .. n] /\ k \in 1 .. n
  BY <1>1 DEF IsOrder
<1>3. \A i \in 1 .. n : a[i].number \in Int
  <2>1. \A i \in 1 .. n : a[i] \in Entries
    BY <1>1
  <2> QED BY <2>1, WordIs DEF Entries, Uint16
<1>4. ASSUME NEW i \in 1 .. n, NEW m \in 1 .. n, i < m
      PROVE  Precedes(a, order[i], order[m])
  BY <1>1, <1>4 DEF IsOrder
<1>5. ASSUME NEW i \in 1 .. n, NEW m \in 1 .. n
      PROVE  order[i] \in UpTo(a, order[m]) <=> i <= m
  <2>1. order[i] \in 1 .. n /\ order[m] \in 1 .. n
    BY <1>2
  <2>2. PICK x \in 1 .. n, y \in 1 .. n : x = order[i] /\ y = order[m]
    BY <2>1
  <2>3. x \in UpTo(a, y) <=> a[x].number < a[y].number \/ (a[x].number = a[y].number /\ x <= y)
    BY <1>1 DEF UpTo
  <2>4. CASE i = m
    BY <1>3, <2>2, <2>3, <2>4
  <2>5. CASE i < m
    BY <1>3, <1>4, <2>2, <2>3, <2>5 DEF Precedes
  <2>6. CASE m < i
    <3>1. Precedes(a, y, x)
      BY <1>4, <2>2, <2>6
    <3>2. ~(x \in UpTo(a, y))
      BY <1>3, <2>3, <3>1 DEF Precedes
    <3> QED BY <2>2, <2>6, <3>2
  <2> QED BY <2>4, <2>5, <2>6
<1> DEFINE g == [i \in 1 .. k |-> order[i]]
           T == UpTo(a, order[k])
<1>6. \A i \in 1 .. k : i \in 1 .. n /\ g[i] = order[i]
  BY <1>2
<1>7. g \in [1 .. k -> T]
  <2>1. \A i \in 1 .. k : order[i] \in T
    BY <1>2, <1>5, <1>6
  <2> HIDE DEF T
  <2> QED BY <2>1
<1>8. \A i, m \in 1 .. k : g[i] = g[m] => i = m
  <2> SUFFICES ASSUME NEW i \in 1 .. k, NEW m \in 1 .. k, g[i] = g[m]
               PROVE  i = m
    OBVIOUS
  <2>1. i <= m <=> m <= m
    BY <1>5, <1>6
  <2>2. m <= i <=> i <= i
    BY <1>5, <1>6
  <2> QED BY <2>1, <2>2
<1>9. \A t \in T : \E i \in 1 .. k : g[i] = t
  <2> SUFFICES ASSUME NEW t \in T
               PROVE  \E i \in 1 .. k : g[i] = t
    OBVIOUS
  <2>1. t \in 1 .. n
    BY <1>1 DEF UpTo
  <2>2. PICK i \in 1 .. n : order[i] = t
    BY <1>1, <2>1 DEF IsOrder
  <2>3. i <= k
    BY <1>2, <1>5, <2>2
  <2>4. i \in 1 .. k
    BY <1>2, <2>3
  <2> QED BY <1>6, <2>2, <2>4
<1> HIDE DEF g, T
<1>10. g \in Bijection(1 .. k, T)
  BY <1>7, <1>8, <1>9, Fun_IsBij
<1>11. ExistsBijection(1 .. k, T)
  BY <1>10 DEF ExistsBijection
<1>12. Cardinality(T) = k
  BY <1>2, <1>11, FS_CountingElements
<1> QED BY <1>12 DEF T

\* Options put in order are the sorted ones.
LEMMA SortedIs ==
  ASSUME NEW a \in Seq(Entries), NEW order, IsOrder(a, order)
  PROVE  Sorted(a) = [k \in 1 .. Len(a) |-> a[order[k]]]
<1>1. Sorted(a) = [k \in DOMAIN a |->
                     a[CHOOSE i \in DOMAIN a : Cardinality(UpTo(a, i)) = k]]
  BY DEF Sorted, UpTo
<1>2. DOMAIN a = 1 .. Len(a)
  OBVIOUS
<1>3. ASSUME NEW k \in 1 .. Len(a)
      PROVE  (CHOOSE i \in DOMAIN a : Cardinality(UpTo(a, i)) = k) = order[k]
  <2>1. order[k] \in DOMAIN a /\ Cardinality(UpTo(a, order[k])) = k
    BY <1>2, UpToIs DEF IsOrder
  <2>2. ASSUME NEW i \in DOMAIN a, Cardinality(UpTo(a, i)) = k
        PROVE  i = order[k]
    <3>1. PICK m \in 1 .. Len(a) : order[m] = i
      BY <1>2 DEF IsOrder
    <3>2. Cardinality(UpTo(a, order[m])) = m
      BY UpToIs
    <3> QED BY <2>2, <3>1, <3>2
  <2> HIDE <1>2
  <2> QED BY <2>1, <2>2
<1> QED BY Zenon, <1>1, <1>2, <1>3

\* The options of a walk are those added, in order.
Sorts(w, a) ==
  /\ Len(w) = Len(a)
  /\ \E order : /\ IsOrder(a, order)
                /\ \A k \in 1 .. Len(a) : SameOption(w[k], a[order[k]])

\* A walk over the options in order has the sorted ones.
LEMMA SortsIs ==
  ASSUME NEW a \in Seq(Entries), NEW w \in Seq(Steps), Sorts(w, a)
  PROVE  Plain(w) = Sorted(a)
<1>1. PICK order : IsOrder(a, order) /\ \A k \in 1 .. Len(a) : SameOption(w[k], a[order[k]])
  BY DEF Sorts
<1>2. DOMAIN w = 1 .. Len(a)
  BY DEF Sorts
<1>3. ASSUME NEW k \in 1 .. Len(a)
      PROVE  [number |-> w[k].number, value |-> w[k].value] = a[order[k]]
  <2>1. order[k] \in 1 .. Len(a)
    BY <1>1 DEF IsOrder
  <2>2. PICK e \in Entries : e = a[order[k]]
    BY <2>1
  <2>3. e = [number |-> e.number, value |-> e.value]
    BY DEF Entries
  <2> QED BY Zenon, <1>1, <2>2, <2>3 DEF SameOption
<1>4. Plain(w) = [k \in 1 .. Len(a) |-> [number |-> w[k].number, value |-> w[k].value]]
  BY Zenon, <1>2 DEF Plain
<1>5. Plain(w) = [k \in 1 .. Len(a) |-> a[order[k]]]
  BY <1>3, <1>4
<1>6. Sorted(a) = [k \in 1 .. Len(a) |-> a[order[k]]]
  BY <1>1, SortedIs
<1> QED BY Zenon, <1>5, <1>6

\* One more option, behind those with its number or a lesser one.
LEMMA SortsOneMore ==
  ASSUME NEW a \in Seq(Entries), NEW w \in Seq(Steps), Sorts(w, a),
         NEW e \in Entries, NEW u \in Seq(Steps), Len(u) = Len(w) + 1,
         NEW f \in 1 .. Len(u), SameOption(u[f], e),
         \A i \in 1 .. f - 1 : SameOption(u[i], w[i]) /\ w[i].number <= e.number,
         \A i \in f .. Len(w) : SameOption(u[i + 1], w[i]) /\ w[i].number > e.number
  PROVE  Sorts(u, Append(a, e))
<1>1. PICK order : IsOrder(a, order) /\ \A k \in 1 .. Len(a) : SameOption(w[k], a[order[k]])
  BY DEF Sorts
<1>2. PICK n \in Nat : n = Len(a) /\ n = Len(w) /\ Len(u) = n + 1 /\ f \in 1 .. n + 1
  BY DEF Sorts
<1>3. /\ order \in [1 .. n -> 1 .. n]
      /\ \A j \in 1 .. n : \E k \in 1 .. n : order[k] = j
      /\ \A k, m \in 1 .. n : k < m => Precedes(a, order[k], order[m])
  BY <1>1, <1>2 DEF IsOrder
<1> DEFINE c == Append(a, e)
           g == [i \in 1 .. n + 1 |-> IF i < f THEN order[i]
                                      ELSE IF i = f THEN n + 1 ELSE order[i - 1]]
<1>4. Len(c) = n + 1 /\ c[n + 1] = e /\ \A i \in 1 .. n : c[i] = a[i]
  <2>1. Len(c) = Len(a) + 1 /\ c[Len(a) + 1] = e /\ \A i \in 1 .. Len(a) : c[i] = a[i]
    BY ONLY a \in Seq(Entries), e \in Entries, OneMore
  <2> QED BY Zenon, <1>2, <2>1
<1> HIDE DEF c
<1>5. /\ \A i \in 1 .. f - 1 : i \in 1 .. n /\ g[i] = order[i]
      /\ g[f] = n + 1
      /\ \A i \in f .. n : i \in 1 .. n /\ i + 1 \in 1 .. n + 1 /\ g[i + 1] = order[i]
  <2>1. ASSUME NEW i \in f .. n
        PROVE  i \in 1 .. n /\ i + 1 \in 1 .. n + 1 /\ g[i + 1] = order[i]
    <3>1. i \in 1 .. n /\ i + 1 \in 1 .. n + 1 /\ ~(i + 1 < f) /\ i + 1 # f /\ (i + 1) - 1 = i
      BY <1>2
    <3> QED BY <3>1
  <2>2. ASSUME NEW i \in 1 .. f - 1
        PROVE  i \in 1 .. n /\ g[i] = order[i]
    BY <1>2
  <2> QED BY <1>2, <2>1, <2>2
<1> HIDE DEF g
\* An old place is before f or moves one on.
<1>6. \A i \in 1 .. n + 1 :
        i = f \/ i \in 1 .. f - 1 \/ \E j \in f .. n : i = j + 1
  <2> SUFFICES ASSUME NEW i \in 1 .. n + 1, i # f, ~(i \in 1 .. f - 1)
               PROVE  \E j \in f .. n : i = j + 1
    OBVIOUS
  <2>1. i - 1 \in f .. n /\ i = (i - 1) + 1
    BY <1>2
  <2> QED BY <2>1
<1>7. ASSUME NEW i \in 1 .. n
      PROVE  /\ order[i] \in 1 .. n /\ c[order[i]] = a[order[i]]
             /\ c[order[i]].number \in Int /\ c[order[i]].number = w[i].number
  <2>1. order[i] \in 1 .. n
    BY <1>3
  <2>2. c[order[i]] = a[order[i]]
    BY <1>4, <2>1
  <2>3. a[order[i]] \in Entries
    <3>1. order[i] \in 1 .. Len(a)
      BY <1>2, <2>1
    <3> QED BY ONLY <3>1, a \in Seq(Entries)
  <2>4. a[order[i]].number \in Int
    BY <2>3, WordIs DEF Entries, Uint16
  <2>5. a[order[i]].number = w[i].number
    BY Zenon, <1>1, <1>2 DEF SameOption
  <2> QED BY <2>1, <2>2, <2>4, <2>5
<1>8. e.number \in Int
  BY WordIs DEF Entries, Uint16
<1>9. g \in [1 .. n + 1 -> 1 .. n + 1]
  <2>1. \A i \in 1 .. n + 1 : g[i] \in 1 .. n + 1
    <3> SUFFICES ASSUME NEW i \in 1 .. n + 1
                 PROVE  g[i] \in 1 .. n + 1
      OBVIOUS
    <3>1. CASE i = f
      BY <1>2, <1>5, <3>1
    <3>2. CASE i \in 1 .. f - 1
      <4>1. g[i] \in 1 .. n
        BY <1>5, <1>7, <3>2
      <4> QED BY <1>2, <4>1
    <3>3. ASSUME NEW j \in f .. n, i = j + 1
          PROVE  g[i] \in 1 .. n + 1
      <4>1. g[i] \in 1 .. n
        BY <1>5, <1>7, <3>3
      <4> QED BY <1>2, <4>1
    <3> QED BY <1>6, <3>1, <3>2, <3>3
  <2> QED BY <2>1 DEF g
<1>10. \A j \in 1 .. n + 1 : \E k \in 1 .. n + 1 : g[k] = j
  <2> SUFFICES ASSUME NEW j \in 1 .. n + 1
               PROVE  \E k \in 1 .. n + 1 : g[k] = j
    OBVIOUS
  <2>1. CASE j = n + 1
    BY <1>2, <1>5, <2>1
  <2>2. CASE j \in 1 .. n
    <3>1. PICK k \in 1 .. n : order[k] = j
      BY <1>3, <2>2
    <3>2. CASE k \in 1 .. f - 1
      <4>1. g[k] = j
        BY Zenon, <1>5, <3>1, <3>2
      <4>2. k \in 1 .. n + 1
        BY <1>2
      <4> QED BY Zenon, <4>1, <4>2
    <3>3. CASE k \in f .. n
      <4>1. g[k + 1] = j
        BY Zenon, <1>5, <3>1, <3>3
      <4>2. k + 1 \in 1 .. n + 1
        BY <1>2
      <4> QED BY Zenon, <4>1, <4>2
    <3>4. k \in 1 .. f - 1 \/ k \in f .. n
      BY <1>2
    <3> QED BY <3>2, <3>3, <3>4
  <2>3. j = n + 1 \/ j \in 1 .. n
    BY <1>2
  <2> QED BY <2>1, <2>2, <2>3
<1>11. ASSUME NEW i \in 1 .. n, NEW j \in 1 .. n, i < j
       PROVE  Precedes(c, order[i], order[j])
  <2>1. Precedes(a, order[i], order[j])
    BY <1>3, <1>11
  <2>2. c[order[i]] = a[order[i]] /\ c[order[j]] = a[order[j]]
    BY <1>7
  <2> QED BY Zenon, <2>1, <2>2 DEF Precedes
<1>12. ASSUME NEW i \in 1 .. f - 1
       PROVE  Precedes(c, order[i], n + 1)
  <2>1. i \in 1 .. n /\ w[i].number <= e.number
    BY <1>5
  <2>2. PICK x \in 1 .. n, y \in Int, z \in Int :
          x = order[i] /\ y = c[x].number /\ y = w[i].number /\ z = e.number
    BY <1>7, <1>8, <2>1
  <2>3. x < n + 1
    BY <1>2, <2>2
  <2>4. y <= z
    BY <2>1, <2>2
  <2>5. y < z \/ y = z
    BY <2>2, <2>4
  <2> QED BY Zenon, <1>4, <2>2, <2>3, <2>5 DEF Precedes
<1>13. ASSUME NEW i \in f .. n
       PROVE  Precedes(c, n + 1, order[i])
  <2>1. i \in 1 .. n /\ w[i].number > e.number
    BY <1>2, <1>5
  <2>2. PICK x \in 1 .. n, y \in Int, z \in Int :
          x = order[i] /\ y = c[x].number /\ y = w[i].number /\ z = e.number
    BY <1>7, <1>8, <2>1
  <2>3. z < y
    BY <2>1, <2>2
  <2> QED BY Zenon, <1>4, <2>2, <2>3 DEF Precedes
<1>14. \A k, m \in 1 .. n + 1 : k < m => Precedes(c, g[k], g[m])
  <2> SUFFICES ASSUME NEW k \in 1 .. n + 1, NEW m \in 1 .. n + 1, k < m
               PROVE  Precedes(c, g[k], g[m])
    OBVIOUS
  <2>1. CASE k = f
    <3>1. PICK j \in f .. n : m = j + 1
      <4>1. m # f /\ ~(m \in 1 .. f - 1)
        BY <1>2, <2>1
      <4> QED BY <1>6, <4>1
    <3> QED BY Zenon, <1>5, <1>13, <2>1, <3>1
  <2>2. CASE k \in 1 .. f - 1
    <3>1. CASE m = f
      BY Zenon, <1>5, <1>12, <2>2, <3>1
    <3>2. CASE m \in 1 .. f - 1
      BY Zenon, <1>5, <1>11, <2>2, <3>2
    <3>3. ASSUME NEW j \in f .. n, m = j + 1
          PROVE  Precedes(c, g[k], g[m])
      <4>1. k \in 1 .. n /\ j \in 1 .. n /\ k < j
        BY <1>2, <2>2
      <4> QED BY Zenon, <1>5, <1>11, <2>2, <3>3, <4>1
    <3> QED BY <1>6, <3>1, <3>2, <3>3
  <2>3. ASSUME NEW i \in f .. n, k = i + 1
        PROVE  Precedes(c, g[k], g[m])
    <3>1. PICK j \in f .. n : m = j + 1
      <4>1. m # f /\ ~(m \in 1 .. f - 1)
        BY <1>2, <2>3
      <4> QED BY <1>6, <4>1
    <3>2. i \in 1 .. n /\ j \in 1 .. n /\ i < j
      BY <1>2, <2>3, <3>1
    <3> QED BY Zenon, <1>5, <1>11, <2>3, <3>1, <3>2
  <2> QED BY <1>6, <2>1, <2>2, <2>3
<1>15. IsOrder(c, g)
  BY Zenon, <1>4, <1>9, <1>10, <1>14 DEF IsOrder
<1>16. ASSUME NEW k \in 1 .. n + 1
       PROVE  SameOption(u[k], c[g[k]])
  <2>1. CASE k = f
    BY Zenon, <1>4, <1>5, <2>1
  <2>2. CASE k \in 1 .. f - 1
    <3>1. k \in 1 .. n /\ SameOption(u[k], w[k]) /\ SameOption(w[k], a[order[k]])
      BY Zenon, <1>1, <1>2, <1>5, <2>2
    <3>2. c[g[k]] = a[order[k]]
      BY Zenon, <1>5, <1>7, <2>2, <3>1
    <3> QED BY Zenon, <3>1, <3>2 DEF SameOption
  <2>3. ASSUME NEW j \in f .. n, k = j + 1
        PROVE  SameOption(u[k], c[g[k]])
    <3>1. j \in 1 .. n /\ SameOption(u[k], w[j]) /\ SameOption(w[j], a[order[j]])
      BY Zenon, <1>1, <1>2, <1>5, <2>3
    <3>2. c[g[k]] = a[order[j]]
      BY Zenon, <1>5, <1>7, <2>3, <3>1
    <3> QED BY Zenon, <3>1, <3>2 DEF SameOption
  <2> QED BY <1>6, <2>1, <2>2, <2>3
<1> QED BY Zenon, <1>2, <1>4, <1>15, <1>16 DEF Sorts, c

-----------------------------------------------------------------------------
(* The message being built.                                                *)

\* A value is as many bytes as its length says.
LEMMA ValueTypes ==
  ASSUME NEW b \in Byte, NEW n \in Nat
  PROVE  Value(b, n) \in Seq(Byte) /\ Len(Value(b, n)) = n
<1>1. \A i \in 1 .. n : (IF i = n THEN b ELSE 255 - b) \in Byte
  BY DEF Byte
<1> QED BY <1>1 DEF Value

\* An option has a 16-bit number, and its value a 16-bit length.
LEMMA OptionTypes ==
  ASSUME NEW option \in Options
  PROVE  /\ option \in Entries /\ option.number \in Numbers
         /\ option.number \in Uint16 /\ option.value \in Values
<1>1. PICK b \in Bytes, n \in Lengths : option.value = Value(b, n)
  BY DEF Options
<1>2. option.number \in Numbers /\ option = [number |-> option.number, value |-> option.value]
  BY DEF Options
<1>3. Numbers \subseteq Uint16 /\ n \in Uint16 /\ b \in Byte
  BY <1>1, PduAssumption DEF Uint16, Byte
<1>4. n \in Nat
  BY <1>3, WordIs DEF Uint16
<1>5. option.value \in Seq(Byte) /\ Len(option.value) = n
  BY <1>1, <1>3, <1>4, ValueTypes
<1>6. option.value \in Values
  BY <1>3, <1>5 DEF Values
<1> QED BY <1>2, <1>3, <1>6 DEF Entries

\* Where an option goes: behind all of them, or before the first one with a
\* greater number.
Behind(w, number) == {i \in DOMAIN w : w[i].number > number}

\* The place found is the end, or the first option with a greater number.
LEMMA Positions ==
  ASSUME pdu \in Seq(Byte), NEW w, w = Walk(pdu), Framed(pdu, w, <<>>),
         maxAdded \in Uint16, NEW number \in Uint16,
         NEW place, place = FindInsertionPosition(number)
  PROVE  \/ /\ AtEnd(number) /\ place.prev = maxAdded
            /\ number >= maxAdded \/ pdu = <<>>
         \/ /\ AtEnd(number) /\ place.prev = NumberBefore(w, Len(w) + 1)
            /\ \A j \in 1 .. Len(w) : w[j].number <= number
         \/ /\ ~AtEnd(number) /\ number < maxAdded
            /\ \E f \in 1 .. Len(w) :
                 /\ place.at = w[f].at /\ place.prev = NumberBefore(w, f)
                 /\ w[f].number > number
                 /\ \A j \in 1 .. f - 1 : w[j].number <= number
<1> DEFINE C == Behind(w, number)
           first == CHOOSE i \in C : \A j \in C : i <= j
           a == [at |-> Len(pdu) + 1, prev |-> maxAdded]
           b == [at |-> EndOf(w), prev |-> NumberBefore(w, Len(w) + 1)]
           c == [at |-> w[first].at, prev |-> NumberBefore(w, first)]
<1>1. Laid(pdu, w) /\ EndOf(w) = Len(pdu) + 1 /\ w \in Seq(Steps)
  BY DEF Framed, Laid
<1>2. PICK n \in Nat, m \in Nat : n = Len(w) /\ m = Len(pdu) /\ DOMAIN w = 1 .. n
  BY <1>1
<1>3. number \in Int /\ maxAdded \in Int /\ \A i \in 1 .. n : w[i].number \in Int
  <2>1. \A i \in 1 .. n : w[i] \in Steps
    BY <1>1, <1>2
  <2> QED BY <2>1, WordIs DEF Steps, Uint16
<1>4. place = CASE number >= maxAdded \/ pdu = <<>> -> a
                [] number < maxAdded /\ pdu # <<>> /\ C = {} -> b
                [] number < maxAdded /\ pdu # <<>> /\ C # {} -> c
  BY Zenon DEF FindInsertionPosition, PositionIn, Behind
<1>5. AtEnd(number) <=> place.at = Len(pdu) + 1
  BY Zenon DEF AtEnd
<1>6. \A i \in 1 .. n : i \in C <=> w[i].number > number
  BY <1>2 DEF Behind
<1>7. C \in SUBSET (1 .. n)
  BY <1>2 DEF Behind
<1> HIDE DEF a, b, c, C
<1>8. CASE number >= maxAdded \/ pdu = <<>>
  <2>1. place = a
    BY <1>3, <1>4, <1>8
  <2>2. a.at = Len(pdu) + 1 /\ a.prev = maxAdded
    BY DEF a
  <2> QED BY Zenon, <1>5, <1>8, <2>1, <2>2
<1>9. CASE ~(number >= maxAdded \/ pdu = <<>>) /\ C = {}
  <2>1. place = b
    BY <1>3, <1>4, <1>9
  <2>2. b.at = Len(pdu) + 1 /\ b.prev = NumberBefore(w, Len(w) + 1)
    BY <1>1 DEF b
  <2>3. \A j \in 1 .. Len(w) : w[j].number <= number
    BY <1>2, <1>3, <1>6, <1>9
  <2> QED BY Zenon, <1>5, <2>1, <2>2, <2>3
<1>10. CASE ~(number >= maxAdded \/ pdu = <<>>) /\ C # {}
  <2>1. place = c
    BY <1>3, <1>4, <1>10
  <2>2. number < maxAdded
    BY <1>3, <1>10
  <2>3. first \in C /\ \A j \in C : first <= j
    <3>1. C \in SUBSET Nat
      BY <1>7
    <3>2. \E i \in C : \A j \in C : i <= j
      BY <1>10, <3>1, LeastNumber
    <3> QED BY <3>2
  <2> HIDE DEF first
  <2>4. first \in 1 .. n /\ w[first].number > number
    BY <1>6, <1>7, <2>3
  <2>5. ASSUME NEW j \in 1 .. first - 1
        PROVE  w[j].number <= number
    <3>1. j \in 1 .. n /\ ~(first <= j)
      BY <2>4
    <3>2. j \notin C
      BY Zenon, <2>3, <3>1
    <3> QED BY <1>3, <1>6, <3>1, <3>2
  <2>6. c.at = w[first].at /\ c.prev = NumberBefore(w, first)
    BY DEF c
  <2>7. ~AtEnd(number)
    <3>1. first \in 1 .. Len(w)
      BY <1>2, <2>4
    <3>2. LiesAt(pdu, w[first].at, CodeOf(w, first))
      BY <1>1, <3>1 DEF Laid
    <3>3. PICK p \in Nat \ {0}, l \in Nat \ {0} : p = w[first].at /\ l = Len(CodeOf(w, first))
      BY <1>1, <3>1, StepTypes
    <3>4. p + l - 1 <= m
      BY <1>2, <3>2, <3>3 DEF LiesAt
    <3>5. p # m + 1
      BY <1>2, <3>3, <3>4
    <3> QED BY Zenon, <1>2, <1>5, <2>1, <2>6, <3>3, <3>5
  <2>8. first \in 1 .. Len(w)
    BY <1>2, <2>4
  <2> QED BY Zenon, <2>1, <2>2, <2>4, <2>5, <2>6, <2>7, <2>8
<1> QED BY Zenon, <1>8, <1>9, <1>10

\* An option put behind all the others.
LEMMA PutFramed ==
  ASSUME pdu \in Seq(Byte), NEW w, w = Walk(pdu), Framed(pdu, w, <<>>),
         maxAdded \in Uint16, NEW option \in Options, AtEnd(option.number),
         NEW t, t = pdu \o Encoded(Delta(option.number), option.value)
  PROVE  \E o \in Steps :
           /\ t \in Seq(Byte) /\ Framed(t, Append(w, o), <<>>)
           /\ o.value = option.value
           /\ maxAdded = NumberBefore(w, Len(w) + 1) => o.number = option.number
<1>1. Laid(pdu, w) /\ EndOf(w) = Len(pdu) + 1 /\ w \in Seq(Steps)
  BY DEF Framed, Laid
<1>2. PICK x \in Uint16, v \in Values : x = option.number /\ v = option.value
  BY OptionTypes
<1>3. PICK b \in Uint16 : b = NumberBefore(w, Len(w) + 1)
  <2>1. 0 \in Uint16
    BY WordIs DEF Uint16
  <2>2. PICK n \in Nat : n = Len(w)
    BY <1>1
  <2>3. n + 1 # 1 => w[(n + 1) - 1] \in Steps
    BY <1>1, <2>2
  <2>4. CASE n = 0
    BY <2>1, <2>2, <2>4 DEF NumberBefore
  <2>5. CASE n # 0
    BY <2>2, <2>3, <2>5 DEF NumberBefore, Steps
  <2> QED BY <2>4, <2>5
<1>4. PICK place : place = FindInsertionPosition(x)
  OBVIOUS
<1>5. place.prev \in Uint16 /\ (maxAdded = b => place.prev = b)
  BY Zenon, <1>2, <1>3, <1>4, Positions
<1>6. PICK d \in Uint16 : d = Delta(x) /\ d = (x - place.prev) % Word
  <2>1. (x - place.prev) % Word \in Uint16
    BY <1>5, Differences
  <2> QED BY Zenon, <1>4, <2>1 DEF Delta
<1>7. PICK c \in Seq(Byte), l \in Nat \ {0} : c = Encoded(d, v) /\ l = Len(c)
  <2>1. PICK k \in Uint16 : k = Len(v)
    BY DEF Values
  <2>2. k \in Nat
    BY WordIs DEF Uint16
  <2>3. PICK e1 \in 0 .. 2, e2 \in 0 .. 2 : e1 = ExtraBytes(d) /\ e2 = ExtraBytes(k)
    BY <2>1, NumberCoded
  <2>4. e1 \in Nat /\ e2 \in Nat
    BY <2>3
  <2>5. Encoded(d, v) \in Seq(Byte) /\ Len(Encoded(d, v)) = 1 + e1 + e2 + k
    BY <2>1, <2>3, OptionCoded
  <2> QED BY <2>2, <2>4, <2>5
<1> DEFINE o == [at |-> EndOf(w), next |-> EndOf(w) + Len(Encoded(d, v)),
                 number |-> (b + d) % Word, value |-> v]
<1>8. o \in Steps
  <2>1. PICK m \in Nat : m = Len(pdu)
    OBVIOUS
  <2>2. EndOf(w) \in Nat \ {0} /\ EndOf(w) + Len(Encoded(d, v)) \in Nat \ {0}
    BY <1>1, <1>7, <2>1
  <2>3. (b + d) % Word \in Uint16
    BY Differences
  <2> QED BY <2>2, <2>3 DEF Steps
<1>9. o.at = EndOf(w) /\ o.next = EndOf(w) + Len(Encoded(d, v)) /\ o.value = v
      /\ o.number = (NumberBefore(w, Len(w) + 1) + d) % Word
  BY <1>3
<1>10. maxAdded = b => o.number = x
  <2>1. (b + ((x - b) % Word)) % Word = x
    BY Differences
  <2> QED BY Zenon, <1>3, <1>5, <1>6, <1>9, <2>1
<1> HIDE DEF o
<1>11. t = Cat(pdu, Encoded(d, v))
  BY Zenon, <1>2, <1>6 DEF Cat
<1>12. Framed(t, Append(w, o), <<>>)
  BY Zenon, <1>8, <1>9, <1>11, FramedAppended
<1>13. t \in Seq(Byte)
  BY <1>7, <1>11, Joined
<1> QED BY Zenon, <1>2, <1>3, <1>8, <1>9, <1>10, <1>12, <1>13

\* An option put before another one.
LEMMA InsertFramed ==
  ASSUME pdu \in Seq(Byte), NEW w, w = Walk(pdu), Framed(pdu, w, <<>>),
         NEW option \in Options, NEW place, place = FindInsertionPosition(option.number),
         NEW f \in 1 .. Len(w), place.at = w[f].at, place.prev = NumberBefore(w, f),
         NEW t, t = SubSeq(pdu, 1, place.at - 1)
                      \o Encoded(Delta(option.number), option.value)
                      \o Rebased(place.at, option.number, place.prev)
  PROVE  /\ t \in Seq(Byte)
         /\ Inserts(pdu, w, f, option.number, option.value, t)
<1>1. Laid(pdu, w) /\ w \in Seq(Steps)
  BY DEF Framed, Laid
<1>2. PICK x \in Uint16, v \in Values : x = option.number /\ v = option.value
  BY OptionTypes
<1>3. PICK p \in Nat \ {0}, b \in Uint16, old \in Uint16, y \in Values :
        p = w[f].at /\ b = NumberBefore(w, f) /\ old = DeltaOf(w, f) /\ y = w[f].value
  BY <1>1, StepTypes
<1>4. PICK d \in Uint16 : d = (x - b) % Word /\ d = Delta(x)
  <2>1. (x - b) % Word \in Uint16
    BY Differences
  <2> QED BY Zenon, <1>2, <1>3, <2>1 DEF Delta
<1>5. LiesAt(pdu, p, Encoded(old, y))
  BY <1>1, <1>3 DEF Laid, CodeOf
<1>6. DeltaAt(pdu, p) = old /\ p <= Len(pdu) /\ Lower(pdu, p) = Nibble(Len(y))
  BY <1>5, OptionRead
<1>7. PICK new \in Uint16 : new = (b + old - x) % Word
  <2>1. b + old - x \in Int
    BY WordIs DEF Uint16
  <2> QED BY <2>1, Remainders
<1> DEFINE g == <<16 * Nibble(new) + Lower(pdu, p)>>
           h == Cat(g, Extension(new))
           q == p + 1 + ExtraBytes(old)
<1>8. Rebased(p, x, b) = Cat(h, SubSeq(pdu, q, Len(pdu)))
  BY Zenon, <1>6, <1>7 DEF Rebased, Cat
<1>9. t = Splice(pdu, p, q, Encoded(d, v), h)
  BY Zenon, <1>2, <1>3, <1>4, <1>8 DEF Splice, Cat
<1>10. Inserts(pdu, w, f, option.number, option.value, t)
  <2>1. p \in Nat
    OBVIOUS
  <2> QED BY ZenonT(40), <1>2, <1>3, <1>4, <1>7, <1>9, <2>1 DEF Inserts
<1>11. t \in Seq(Byte)
  <2>1. PICK l \in Uint16 : l = Len(y)
    BY DEF Values
  <2>2. PICK e \in 0 .. 2 : e = ExtraBytes(old)
    BY NumberCoded
  <2>3. q \in 1 .. Len(pdu) + 1 /\ p \in 1 .. Len(pdu) /\ p < q
    <3>1. LiesAt(pdu, p + 1 + e, Extension(l))
      BY <1>5, <2>1, <2>2, OptionCoded
    <3>2. PICK z \in Nat, m \in Nat : z = Len(Extension(l)) /\ m = Len(pdu)
      <4>1. Len(Extension(l)) \in Nat
        BY NumberCoded
      <4>2. Len(pdu) \in Nat
        OBVIOUS
      <4> QED BY Zenon, <4>1, <4>2
    <3>3. (p + 1 + e) + z - 1 <= m
      BY <3>1, <3>2 DEF LiesAt
    <3>4. p + 1 + ExtraBytes(old) = p + 1 + e
      BY ONLY <2>2
    <3>5. p + 1 + e \in 1 .. m + 1 /\ p \in 1 .. m /\ p < p + 1 + e
      <4>1. p <= m
        BY ONLY <1>6, <3>2
      <4> QED BY ONLY <3>3, <4>1, p \in Nat \ {0}, e \in 0 .. 2, z \in Nat, m \in Nat
    <3> QED BY ONLY <3>2, <3>4, <3>5
  <2>4. Encoded(d, v) \in Seq(Byte)
    BY OptionCoded
  <2>5. h \in Seq(Byte)
    <3>1. 16 * Nibble(new) + Lower(pdu, p) = Header(new, l) /\ Header(new, l) \in Byte
      BY <1>6, <2>1, HeaderRead DEF Header
    <3>2. g \in Seq(Byte) /\ Extension(new) \in Seq(Byte)
      BY <3>1, NumberCoded
    <3> HIDE DEF g
    <3> QED BY <3>2, Joined
  <2> HIDE DEF h, q
  <2>6. Splice(pdu, p, q, Encoded(d, v), h) \in Seq(Byte)
    BY <2>3, <2>4, <2>5, Spliced
  <2> QED BY <1>9, <2>6
<1> QED BY <1>10, <1>11

\* The numbers in the message ascend, and are those of the options added.
LEMMA SortsFacts ==
  ASSUME NEW a \in Seq(Entries), NEW w \in Seq(Steps), Sorts(w, a)
  PROVE  /\ Len(w) = Len(a)
         /\ \A i, j \in 1 .. Len(w) : i <= j => w[i].number <= w[j].number
         /\ \A j \in 1 .. Len(a) : \E k \in 1 .. Len(w) : a[j].number = w[k].number
         /\ \A k \in 1 .. Len(w) : \E j \in 1 .. Len(a) : a[j].number = w[k].number
<1>1. PICK order : IsOrder(a, order) /\ \A k \in 1 .. Len(a) : SameOption(w[k], a[order[k]])
  BY DEF Sorts
<1>2. PICK n \in Nat : n = Len(a) /\ n = Len(w)
  BY DEF Sorts
<1>3. \A k \in 1 .. n : order[k] \in 1 .. n /\ w[k].number = a[order[k]].number
  BY <1>1, <1>2 DEF IsOrder, SameOption
<1>4. \A k \in 1 .. n : w[k].number \in Int
  <2>1. \A k \in 1 .. n : w[k] \in Steps
    BY <1>2
  <2> QED BY <2>1, WordIs DEF Steps, Uint16
<1>5. ASSUME NEW i \in 1 .. n, NEW j \in 1 .. n, i <= j
      PROVE  w[i].number <= w[j].number
  <2>1. CASE i = j
    BY <1>4, <2>1
  <2>2. CASE i # j
    <3>1. Precedes(a, order[i], order[j])
      <4>1. i < j
        BY <1>5, <2>2
      <4> QED BY <1>1, <1>2, <4>1 DEF IsOrder
    <3>2. w[i].number < w[j].number \/ w[i].number = w[j].number
      BY Zenon, <1>3, <3>1 DEF Precedes
    <3> QED BY <1>4, <3>2
  <2> QED BY <2>1, <2>2
<1>6. \A j \in 1 .. n : \E k \in 1 .. n : order[k] = j
  BY <1>1, <1>2 DEF IsOrder
<1>7. \A j \in 1 .. n : \E k \in 1 .. n : a[j].number = w[k].number
  <2> SUFFICES ASSUME NEW j \in 1 .. n
               PROVE  \E k \in 1 .. n : a[j].number = w[k].number
    OBVIOUS
  <2>1. PICK k \in 1 .. n : order[k] = j
    BY <1>6
  <2> QED BY Zenon, <1>3, <2>1
<1>8. \A k \in 1 .. n : \E j \in 1 .. n : a[j].number = w[k].number
  BY Zenon, <1>3
<1> QED BY Zenon, <1>2, <1>5, <1>7, <1>8

\* What addOption puts at the end belongs there, as long as the greatest number
\* is that of the last option.
LEMMA PutLast ==
  ASSUME pdu \in Seq(Byte), NEW w, w = Walk(pdu), Framed(pdu, w, <<>>),
         maxAdded \in Uint16, NEW a \in Seq(Entries), Sorts(w, a),
         maxAdded = NumberBefore(w, Len(w) + 1),
         NEW number \in Uint16, AtEnd(number)
  PROVE  \A j \in 1 .. Len(w) : w[j].number <= number
<1>1. Laid(pdu, w) /\ w \in Seq(Steps)
  BY DEF Framed, Laid
<1>2. PICK n \in Nat : n = Len(w)
  BY <1>1
<1>3. \/ number >= maxAdded \/ pdu = <<>>
      \/ \A j \in 1 .. Len(w) : w[j].number <= number
  BY Zenon, Positions
<1>4. CASE pdu = <<>>
  <2>1. Len(w) <= Len(pdu) /\ Len(pdu) = 0
    BY <1>1, <1>4, WalkIsShort
  <2> QED BY <1>2, <2>1
<1>5. CASE number >= maxAdded
  <2> SUFFICES ASSUME NEW j \in 1 .. n
               PROVE  w[j].number <= number
    BY <1>2
  <2>1. n \in 1 .. n /\ j <= n /\ n + 1 # 1 /\ (n + 1) - 1 = n
    BY <1>2
  <2>2. maxAdded = w[n].number
    BY Zenon, <1>2, <2>1 DEF NumberBefore
  <2>3. w[j].number <= w[n].number
    BY <1>1, <1>2, <2>1, SortsFacts
  <2>4. w[j] \in Steps /\ w[n] \in Steps
    BY <1>1, <1>2, <2>1
  <2>5. PICK x \in Int, y \in Int, z \in Int : x = w[j].number /\ y = w[n].number /\ z = number
    BY <2>4, WordIs DEF Steps, Uint16
  <2> QED BY <1>5, <2>2, <2>3, <2>5
<1> QED BY <1>3, <1>4, <1>5

-----------------------------------------------------------------------------
(* The inductive invariant.                                                *)

\* The message is the options of a walk, and the payload behind them.
Wired == Framed(pdu, Walk(pdu), payload)

\* What the receiver has made of it.
HasRead ==
  \/ received = Unread
  \/ received.verdict = "invalid" /\ ~received.whole
  \/ /\ received.verdict = "valid"
     /\ \E k \in 0 .. Len(Walk(pdu)) :
          /\ received.options = Plain(Front(Walk(pdu), k))
          /\ IsPrefixOf(received.payload, payload)
          /\ received.payload # <<>> => k = Len(Walk(pdu))
          /\ received.whole => k = Len(Walk(pdu)) /\ received.payload = payload
          /\ received.more = GetOptionsBlock2Next(received.options)

InOrder == ~spoiled =>
  /\ Sorts(Walk(pdu), added)
  /\ maxAdded = NumberBefore(Walk(pdu), Len(Walk(pdu)) + 1)

Counted == numOptions <= Len(added)

PduInv == TypeOK /\ Wired /\ HasRead /\ InOrder /\ Counted

\* The types that the proofs below need.
LEMMA InvTypes ==
  ASSUME TypeOK
  PROVE  /\ pdu \in Seq(Byte) /\ payload \in Seq(Byte) /\ maxAdded \in Uint16
         /\ added \in Seq(Entries) /\ numOptions \in Nat /\ MaxAdds \in Nat
         /\ Len(added) \in Nat
<1>1. 0 \in Uint16 /\ Numbers \subseteq Uint16 /\ MaxAdds \in Nat
  BY PduAssumption, WordIs DEF Uint16
<1>2. Options \subseteq Entries
  BY OptionTypes
<1>3. added \in Seq(Entries)
  BY <1>2 DEF TypeOK
<1> QED BY <1>1, <1>3 DEF TypeOK, Byte

\* An empty message keeps the invariant.
LEMMA InitInv == Init => PduInv
<1> SUFFICES ASSUME Init
             PROVE  PduInv
  OBVIOUS
<1>1. pdu = <<>> /\ payload = <<>> /\ added = <<>> /\ numOptions = 0 /\ maxAdded = 0
      /\ received = Unread /\ failures = 0 /\ spoiled = FALSE
  BY DEF Init
<1>2. TypeOK
  <2>1. received.verdict = "none"
    BY <1>1 DEF Unread
  <2>2. pdu \in Seq(0 .. 255) /\ payload \in Seq(0 .. 255) /\ Len(payload) = 0
    BY <1>1
  <2>3. added \in Seq(Options) /\ Len(added) = 0
    BY <1>1
  <2>4. 0 \in 0 .. MaxAdds /\ 0 \in 0 .. MaxFailures /\ 0 <= MaxAdds
    BY PduAssumption
  <2> QED BY <1>1, <2>1, <2>2, <2>3, <2>4 DEF TypeOK
<1>3. Framed(pdu, <<>>, payload)
  BY <1>1 DEF Framed, Laid, EndOf
<1>4. Walk(pdu) = <<>>
  <2>1. pdu \in Seq(Byte) /\ payload \in Seq(Byte)
    BY <1>2, InvTypes
  <2> QED BY <1>3, <2>1, FramedWalk
<1>5. Wired
  BY <1>3, <1>4 DEF Wired
<1>6. InOrder
  <2>1. IsOrder(<<>>, <<>>)
    BY DEF IsOrder
  <2>2. Sorts(<<>>, <<>>)
    BY <2>1 DEF Sorts
  <2>3. NumberBefore(<<>>, Len(<<>>) + 1) = 0
    BY DEF NumberBefore
  <2> QED BY Zenon, <1>1, <1>4, <2>2, <2>3 DEF InOrder
<1>7. Counted
  BY <1>1 DEF Counted
<1> QED BY <1>1, <1>2, <1>5, <1>6, <1>7 DEF PduInv, HasRead

\* What every step of the building does: the new message is a walk, its receiver
\* has read nothing.
LEMMA AppendedTypes ==
  ASSUME TypeOK, Building, NEW option \in Options, added' = added \o <<option>>
  PROVE  /\ added' = Append(added, option) /\ added' \in Seq(Options)
         /\ Len(added') = Len(added) + 1 /\ Len(added') <= MaxAdds
<1>1. added \in Seq(Options)
  BY DEF TypeOK
<1>2. added \o <<option>> = Append(added, option)
  BY <1>1
<1>3. Append(added, option) \in Seq(Options) /\ Len(Append(added, option)) = Len(added) + 1
  BY ONLY <1>1, option \in Options, OneMore
<1>4. PICK n \in Nat, m \in Nat : n = Len(added) /\ m = MaxAdds
  BY InvTypes
<1>5. n + 1 <= m
  BY <1>4 DEF Building
<1> QED BY Zenon, <1>2, <1>3, <1>4, <1>5

\* An option put at the end keeps the invariant.
LEMMA PutKeeps ==
  ASSUME PduInv, Building, NEW option \in Options, PutAtEnd(option),
         added' = added \o <<option>>, UNCHANGED <<payload, received, failures, spoiled>>
  PROVE  PduInv'
<1>0. /\ pdu \in Seq(Byte) /\ payload \in Seq(Byte) /\ maxAdded \in Uint16
      /\ added \in Seq(Entries) /\ numOptions \in Nat /\ MaxAdds \in Nat /\ Len(added) \in Nat
  BY InvTypes DEF PduInv
<1>1. /\ payload = <<>> /\ received = Unread
      /\ payload' = payload /\ received' = received /\ failures' = failures /\ spoiled' = spoiled
      /\ AtEnd(option.number) /\ maxAdded' = option.number /\ numOptions' = numOptions + 1
      /\ pdu' = pdu \o Encoded(Delta(option.number), option.value)
  BY DEF Building, PutAtEnd
<1>2. /\ option \in Entries /\ option.number \in Numbers
      /\ option.number \in Uint16 /\ option.value \in Values
  BY OptionTypes
<1>3. /\ added' = Append(added, option) /\ added' \in Seq(Options)
      /\ Len(added') = Len(added) + 1 /\ Len(added') <= MaxAdds
  BY AppendedTypes DEF PduInv
<1>4. PICK w : w = Walk(pdu)
  OBVIOUS
<1>5. Framed(pdu, w, <<>>) /\ w \in Seq(Steps)
  BY <1>1, <1>4 DEF PduInv, Wired, Framed, Laid
<1>6. PICK o \in Steps :
        /\ pdu' \in Seq(Byte) /\ Framed(pdu', Append(w, o), <<>>) /\ o.value = option.value
        /\ maxAdded = NumberBefore(w, Len(w) + 1) => o.number = option.number
  BY Zenon, <1>0, <1>1, <1>4, <1>5, PutFramed
<1>7. PICK u : u = Append(w, o)
  OBVIOUS
<1>8. Walk(pdu') = u /\ Framed(pdu', u, <<>>)
  <2>1. <<>> \in Seq(Byte)
    OBVIOUS
  <2> QED BY <1>6, <1>7, <2>1, FramedWalk
<1>9. /\ u \in Seq(Steps) /\ Len(u) = Len(w) + 1 /\ u[Len(w) + 1] = o
      /\ \A i \in 1 .. Len(w) : u[i] = w[i]
  BY ONLY <1>5, <1>7, o \in Steps, OneMore
<1>10. TypeOK'
  <2>1. numOptions + 1 \in 0 .. MaxAdds
    BY <1>0, <1>3 DEF PduInv, Counted
  <2>2. pdu' \in Seq(0 .. 255)
    BY <1>6 DEF Byte
  <2> QED BY <1>1, <1>2, <1>3, <2>1, <2>2 DEF PduInv, TypeOK
<1>11. Wired'
  BY Zenon, <1>1, <1>8 DEF Wired
<1>12. HasRead'
  BY Zenon, <1>1 DEF HasRead
<1>13. ASSUME ~spoiled
       PROVE  Sorts(u, added') /\ maxAdded' = NumberBefore(u, Len(u) + 1)
  <2>1. Sorts(w, added) /\ maxAdded = NumberBefore(w, Len(w) + 1)
    BY Zenon, <1>4, <1>13 DEF PduInv, InOrder
  <2>2. o.number = option.number
    BY <1>6, <2>1
  <2>3. \A j \in 1 .. Len(w) : w[j].number <= option.number
    BY Zenon, <1>0, <1>1, <1>2, <1>4, <1>5, <2>1, PutLast
  <2>4. PICK n \in Nat : n = Len(w)
    BY <1>5
  <2>5. /\ Len(u) = n + 1 /\ n + 1 \in 1 .. Len(u) /\ (n + 1) - 1 = n
        /\ \A i \in n + 1 .. n : FALSE
    BY <1>9, <2>4
  <2>6. SameOption(u[n + 1], option) /\ \A i \in 1 .. n : SameOption(u[i], w[i])
    BY Zenon, <1>6, <1>9, <2>2, <2>4 DEF SameOption
  <2>7. Sorts(u, Append(added, option))
    BY Zenon, <1>0, <1>2, <1>5, <1>9, <2>1, <2>3, <2>4, <2>5, <2>6, SortsOneMore
  <2>8. maxAdded' = NumberBefore(u, Len(u) + 1)
    <3>1. Len(u) + 1 # 1 /\ (Len(u) + 1) - 1 = n + 1
      BY <2>4, <2>5
    <3> QED BY Zenon, <1>1, <1>9, <2>2, <2>4, <3>1 DEF NumberBefore
  <2> QED BY Zenon, <1>3, <2>7, <2>8
<1>14. InOrder'
  <2>1. ~spoiled' => ~spoiled
    BY <1>1
  <2> QED BY Zenon, <1>8, <1>13, <2>1 DEF InOrder
<1>15. Counted'
  <2>1. numOptions + 1 <= Len(added) + 1
    BY <1>0 DEF PduInv, Counted
  <2> QED BY Zenon, <1>1, <1>3, <2>1 DEF Counted
<1> QED BY <1>10, <1>11, <1>12, <1>14, <1>15 DEF PduInv

\* An option put before another one keeps it.
LEMMA InsertKeeps ==
  ASSUME PduInv, Building, NEW option \in Options, InsertBefore(option),
         added' = added \o <<option>>, UNCHANGED <<payload, received, failures, spoiled>>
  PROVE  PduInv'
<1>0. /\ pdu \in Seq(Byte) /\ payload \in Seq(Byte) /\ maxAdded \in Uint16
      /\ added \in Seq(Entries) /\ numOptions \in Nat /\ MaxAdds \in Nat /\ Len(added) \in Nat
  BY InvTypes DEF PduInv
<1>1. PICK place : place = FindInsertionPosition(option.number)
  OBVIOUS
<1>2. /\ payload = <<>> /\ received = Unread
      /\ payload' = payload /\ received' = received /\ failures' = failures /\ spoiled' = spoiled
      /\ ~AtEnd(option.number) /\ maxAdded' = maxAdded /\ numOptions' = numOptions
      /\ pdu' = SubSeq(pdu, 1, place.at - 1)
                  \o Encoded(Delta(option.number), option.value)
                  \o Rebased(place.at, option.number, place.prev)
  <2>1. payload = <<>> /\ received = Unread
    BY DEF Building
  <2>2. /\ ~AtEnd(option.number) /\ maxAdded' = maxAdded /\ numOptions' = numOptions
        /\ pdu' = SubSeq(pdu, 1, place.at - 1)
                    \o Encoded(Delta(option.number), option.value)
                    \o Rebased(place.at, option.number, place.prev)
    BY Zenon, <1>1 DEF InsertBefore
  <2> QED BY <2>1, <2>2
<1>3. /\ option \in Entries /\ option.number \in Uint16 /\ option.value \in Values
  BY OptionTypes
<1>4. /\ added' = Append(added, option) /\ added' \in Seq(Options)
      /\ Len(added') = Len(added) + 1 /\ Len(added') <= MaxAdds
  BY AppendedTypes DEF PduInv
<1>5. PICK w : w = Walk(pdu)
  OBVIOUS
<1>6. Framed(pdu, w, <<>>) /\ w \in Seq(Steps)
  BY <1>2, <1>5 DEF PduInv, Wired, Framed, Laid
<1>7. PICK f \in 1 .. Len(w) :
        /\ place.at = w[f].at /\ place.prev = NumberBefore(w, f)
        /\ w[f].number > option.number
        /\ \A j \in 1 .. f - 1 : w[j].number <= option.number
  <2>1. \/ AtEnd(option.number)
        \/ \E f \in 1 .. Len(w) :
             /\ place.at = w[f].at /\ place.prev = NumberBefore(w, f)
             /\ w[f].number > option.number
             /\ \A j \in 1 .. f - 1 : w[j].number <= option.number
    <3>1. PICK x \in Uint16 : x = option.number
      BY <1>3
    <3>2. place = FindInsertionPosition(x)
      BY Zenon, <1>1, <3>1
    <3>3. \/ AtEnd(x)
          \/ \E f \in 1 .. Len(w) :
               /\ place.at = w[f].at /\ place.prev = NumberBefore(w, f)
               /\ w[f].number > x /\ \A j \in 1 .. f - 1 : w[j].number <= x
      BY Zenon, <1>0, <1>5, <1>6, <3>2, Positions
    <3> QED BY Zenon, <3>1, <3>3
  <2> QED BY <1>2, <2>1
<1>8. /\ pdu' \in Seq(Byte)
      /\ Inserts(pdu, w, f, option.number, option.value, pdu')
  BY Zenon, <1>0, <1>1, <1>2, <1>5, <1>6, <1>7, InsertFramed
<1>9. PICK u \in Seq(Steps) :
        /\ Framed(pdu', u, <<>>) /\ Len(u) = Len(w) + 1
        /\ \A i \in 1 .. f - 1 : SameOption(u[i], w[i])
        /\ u[f].number = option.number /\ u[f].value = option.value
        /\ \A i \in f .. Len(w) : SameOption(u[i + 1], w[i])
  <2>1. WalkOneMore(pdu', w, f, option.number, option.value)
    BY Zenon, <1>0, <1>3, <1>6, <1>7, <1>8, FramedInserted
  <2> QED BY Zenon, <2>1 DEF WalkOneMore
<1>10. Walk(pdu') = u
  <2>1. <<>> \in Seq(Byte)
    OBVIOUS
  <2> QED BY <1>8, <1>9, <2>1, FramedWalk
<1>11. TypeOK'
  <2>1. pdu' \in Seq(0 .. 255)
    BY <1>8 DEF Byte
  <2> QED BY <1>2, <1>4, <2>1 DEF PduInv, TypeOK
<1>12. Wired'
  BY Zenon, <1>2, <1>9, <1>10 DEF Wired
<1>13. HasRead'
  BY Zenon, <1>2 DEF HasRead
<1>14. PICK n \in Nat : n = Len(w) /\ f \in 1 .. n /\ n \in 1 .. n
  BY <1>6
<1>15. ASSUME ~spoiled
       PROVE  Sorts(u, added') /\ maxAdded' = NumberBefore(u, Len(u) + 1)
  <2>1. Sorts(w, added) /\ maxAdded = NumberBefore(w, Len(w) + 1)
    BY Zenon, <1>5, <1>15 DEF PduInv, InOrder
  <2>2. \A i, j \in 1 .. Len(w) : i <= j => w[i].number <= w[j].number
    BY <1>0, <1>6, <2>1, SortsFacts
  <2>3. \A i \in 1 .. n : w[i].number \in Int
    <3>1. \A i \in 1 .. n : w[i] \in Steps
      BY <1>6, <1>14
    <3> QED BY <3>1, WordIs DEF Steps, Uint16
  <2>4. option.number \in Int
    BY <1>3, WordIs DEF Uint16
  <2>5. \A i \in f .. n : w[i].number > option.number
    <3> SUFFICES ASSUME NEW i \in f .. n
                 PROVE  w[i].number > option.number
      OBVIOUS
    <3>1. i \in 1 .. n /\ f <= i
      BY <1>14
    <3>2. w[f].number <= w[i].number
      BY Zenon, <1>14, <2>2, <3>1
    <3>3. PICK x \in Int, y \in Int, z \in Int :
            x = w[f].number /\ y = w[i].number /\ z = option.number
      BY <1>14, <2>3, <2>4, <3>1
    <3> QED BY <1>7, <3>2, <3>3
  <2>6. f \in 1 .. Len(u) /\ SameOption(u[f], option)
    <3>1. f \in 1 .. Len(u)
      BY <1>9, <1>14
    <3> QED BY <1>9, <3>1 DEF SameOption
  <2>7. Sorts(u, Append(added, option))
    BY Zenon, <1>0, <1>3, <1>6, <1>7, <1>9, <1>14, <2>1, <2>5, <2>6, SortsOneMore
  <2>8. maxAdded' = NumberBefore(u, Len(u) + 1)
    <3>1. /\ Len(u) + 1 # 1 /\ (Len(u) + 1) - 1 = n + 1
          /\ Len(w) + 1 # 1 /\ (Len(w) + 1) - 1 = n /\ n \in f .. n
      BY <1>9, <1>14
    <3>2. u[n + 1].number = w[n].number
      BY Zenon, <1>9, <1>14, <3>1 DEF SameOption
    <3> QED BY Zenon, <1>2, <2>1, <3>1, <3>2 DEF NumberBefore
  <2> QED BY Zenon, <1>4, <2>7, <2>8
<1>16. InOrder'
  <2>1. ~spoiled' => ~spoiled
    BY <1>2
  <2> QED BY Zenon, <1>10, <1>15, <2>1 DEF InOrder
<1>17. Counted'
  <2>1. numOptions <= Len(added) + 1
    BY <1>0 DEF PduInv, Counted
  <2> QED BY Zenon, <1>2, <1>4, <2>1 DEF Counted
<1> QED BY <1>11, <1>12, <1>13, <1>16, <1>17 DEF PduInv

\* So does an allocation that fails.
LEMMA FailKeeps ==
  ASSUME PduInv, Building, NEW option \in Options, AddOptionFails(option)
  PROVE  PduInv'
<1>1. /\ pdu' = pdu /\ numOptions' = numOptions /\ payload' = payload
      /\ received' = received /\ added' = added
      /\ failures < MaxFailures /\ failures' = failures + 1
      /\ maxAdded' = (IF AtEnd(option.number) THEN option.number ELSE maxAdded)
      /\ spoiled' = (spoiled \/ AtEnd(option.number))
  BY DEF AddOptionFails
<1>2. TypeOK'
  <2>1. failures + 1 \in 0 .. MaxFailures
    BY <1>1, PduAssumption DEF PduInv, TypeOK
  <2>2. maxAdded' \in {0} \cup Numbers
    BY <1>1, OptionTypes DEF PduInv, TypeOK
  <2>3. spoiled' \in BOOLEAN
    BY <1>1
  <2> QED BY <1>1, <2>1, <2>2, <2>3 DEF PduInv, TypeOK
<1>3. Wired' /\ HasRead'
  BY Zenon, <1>1 DEF PduInv, Wired, HasRead
<1>4. ~spoiled' => ~spoiled /\ maxAdded' = maxAdded
  BY <1>1
<1>5. InOrder'
  BY Zenon, <1>1, <1>4 DEF PduInv, InOrder
<1>6. Counted'
  BY Zenon, <1>1 DEF PduInv, Counted
<1> QED BY <1>2, <1>3, <1>5, <1>6 DEF PduInv

\* So does a payload.
LEMMA PayloadKeeps ==
  ASSUME PduInv, NEW length \in Payloads, SetPayload(length)
  PROVE  PduInv'
<1>0. pdu \in Seq(Byte)
  BY InvTypes DEF PduInv
<1>1. /\ payload = <<>> /\ received = Unread /\ length > 0
      /\ payload' = Value(Marker, length) /\ pdu' = pdu \o <<Marker>> \o payload'
      /\ numOptions' = numOptions /\ maxAdded' = maxAdded /\ received' = received
      /\ added' = added /\ failures' = failures /\ spoiled' = spoiled
  BY DEF SetPayload
<1>2. length \in Nat /\ Marker \in Byte /\ <<Marker>> \in Seq(Byte)
  BY PduAssumption DEF Marker, Byte
<1>3. payload' \in Seq(Byte) /\ Len(payload') = length /\ payload' # <<>>
  <2>1. Value(Marker, length) \in Seq(Byte) /\ Len(Value(Marker, length)) = length
    BY <1>2, ValueTypes
  <2> QED BY <1>1, <1>2, <2>1
<1>4. PICK w, load : w = Walk(pdu) /\ load = payload'
  OBVIOUS
<1>5. Framed(pdu, w, <<>>)
  BY Zenon, <1>1, <1>4 DEF PduInv, Wired
<1>6. pdu' = Cat(Cat(pdu, <<Marker>>), load)
  BY Zenon, <1>1, <1>4 DEF Cat
<1>7. load \in Seq(Byte) /\ load # <<>>
  BY <1>3, <1>4
<1>8. Framed(pdu', w, load)
  BY Zenon, <1>0, <1>5, <1>6, <1>7, FramedPayload
<1>9. pdu' \in Seq(Byte)
  <2>1. Cat(pdu, <<Marker>>) \in Seq(Byte)
    BY ONLY <1>0, <1>2, Joined
  <2>2. Cat(Cat(pdu, <<Marker>>), load) \in Seq(Byte)
    BY ONLY <1>7, <2>1, Joined
  <2> QED BY <1>6, <2>2
<1>10. Walk(pdu') = w
  BY <1>7, <1>8, <1>9, FramedWalk
<1>11. TypeOK'
  BY <1>1, <1>3, <1>9 DEF PduInv, TypeOK, Byte
<1>12. Wired'
  BY Zenon, <1>4, <1>8, <1>10 DEF Wired
<1>13. HasRead'
  BY Zenon, <1>1 DEF HasRead
<1>14. ~spoiled' => ~spoiled
  BY <1>1
<1>15. InOrder'
  BY Zenon, <1>1, <1>4, <1>10, <1>14 DEF PduInv, InOrder
<1>16. Counted'
  BY Zenon, <1>1 DEF PduInv, Counted
<1> QED BY <1>11, <1>12, <1>13, <1>15, <1>16 DEF PduInv

\* The options that are read are the first ones of the walk.
LEMMA ReadOptions ==
  ASSUME NEW t, NEW w \in Seq(Steps), NEW k \in 0 .. Len(w), Walk(t) = Front(w, k)
  PROVE  GetOptions(t, k) = Plain(Front(w, k))
<1>1. Front(w, k) \in Seq(Steps) /\ Len(Front(w, k)) = k
  BY FrontOf
<1>2. SubSeq(Front(w, k), 1, k) = Front(w, k)
  BY Zenon, <1>1, FrontWhole DEF Front
<1> QED BY Zenon, <1>2 DEF GetOptions

\* So does a receiver, wherever the message is cut.
LEMMA ReceiveKeeps ==
  ASSUME PduInv, NEW cut \in 0 .. Len(pdu), Receive(cut)
  PROVE  PduInv'
<1>0. pdu \in Seq(Byte) /\ payload \in Seq(Byte)
  BY InvTypes DEF PduInv
<1>1. /\ pdu' = pdu /\ numOptions' = numOptions /\ maxAdded' = maxAdded /\ payload' = payload
      /\ added' = added /\ failures' = failures /\ spoiled' = spoiled
  BY DEF Receive, message
<1>2. PICK t : t = SubSeq(pdu, 1, cut)
  OBVIOUS
<1>3. received' =
        IF Validate(t).verdict = "invalid"
        THEN [verdict |-> "invalid", whole |-> cut = Len(pdu)]
        ELSE [verdict |-> "valid", options |-> GetOptions(t, Validate(t).numOptions),
              payload |-> Validate(t).payload, whole |-> cut = Len(pdu),
              more |-> GetOptionsBlock2Next(GetOptions(t, Validate(t).numOptions))]
  BY Zenon, <1>2 DEF Receive
<1>4. PICK w : w = Walk(pdu)
  OBVIOUS
<1>5. Framed(pdu, w, payload) /\ w \in Seq(Steps)
  BY <1>4 DEF PduInv, Wired, Framed, Laid
<1>6. ASSUME Validate(t) = [verdict |-> "invalid"], cut # Len(pdu)
      PROVE  received'.verdict \in {"valid", "invalid"} /\ HasRead'
  <2>1. Validate(t).verdict = "invalid"
    BY <1>6
  <2>2. received' = [verdict |-> "invalid", whole |-> cut = Len(pdu)]
    BY Zenon, <1>3, <2>1
  <2>3. received'.verdict = "invalid" /\ (received'.whole <=> cut = Len(pdu))
    BY <2>2
  <2> QED BY Zenon, <1>6, <2>3 DEF HasRead
<1>7. ASSUME NEW k \in 0 .. Len(w), NEW rest \in Seq(Byte),
             Validate(t) = [verdict |-> "valid", numOptions |-> k, payload |-> rest],
             Walk(t) = Front(w, k), IsPrefixOf(rest, payload),
             rest # <<>> => k = Len(w),
             cut = Len(pdu) => k = Len(w) /\ rest = payload
      PROVE  received'.verdict \in {"valid", "invalid"} /\ HasRead'
  <2>1. GetOptions(t, k) = Plain(Front(w, k))
    BY <1>5, <1>7, ReadOptions
  <2>2. Validate(t).verdict = "valid" /\ Validate(t).numOptions = k /\ Validate(t).payload = rest
    BY <1>7
  <2>3. received' = [verdict |-> "valid", options |-> Plain(Front(w, k)),
                     payload |-> rest, whole |-> cut = Len(pdu),
                     more |-> GetOptionsBlock2Next(Plain(Front(w, k)))]
    BY Zenon, <1>3, <2>1, <2>2
  <2>4. /\ received'.verdict = "valid" /\ received'.options = Plain(Front(w, k))
        /\ received'.payload = rest /\ (received'.whole <=> cut = Len(pdu))
        /\ received'.more = GetOptionsBlock2Next(Plain(Front(w, k)))
    BY <2>3
  <2> QED BY Zenon, <1>1, <1>4, <1>7, <2>4 DEF HasRead
<1>8. received'.verdict \in {"valid", "invalid"} /\ HasRead'
  <2>1. \/ Validate(t) = [verdict |-> "invalid"] /\ cut # Len(pdu)
        \/ \E k \in 0 .. Len(w), rest \in Seq(Byte) :
             /\ Validate(t) = [verdict |-> "valid", numOptions |-> k, payload |-> rest]
             /\ Walk(t) = Front(w, k) /\ IsPrefixOf(rest, payload)
             /\ rest # <<>> => k = Len(w)
             /\ cut = Len(pdu) => k = Len(w) /\ rest = payload
    <3>1. PartOf(t, w, payload, cut = Len(pdu))
      BY Zenon, <1>0, <1>2, <1>5, CutMessage
    <3> QED BY Zenon, <3>1 DEF PartOf
  <2> QED BY Zenon, <1>6, <1>7, <2>1
<1>9. TypeOK'
  BY <1>1, <1>8 DEF PduInv, TypeOK
<1>10. Wired' /\ InOrder' /\ Counted'
  BY Zenon, <1>1 DEF PduInv, Wired, InOrder, Counted
<1> QED BY <1>8, <1>9, <1>10 DEF PduInv

\* Every step keeps the invariant.
LEMMA NextInv == PduInv /\ [Next]_vars => PduInv'
<1> SUFFICES ASSUME PduInv, [Next]_vars
             PROVE  PduInv'
  OBVIOUS
<1>1. ASSUME Building, NEW option \in Options, AddOption(option)
      PROVE  PduInv'
  <2>1. /\ PutAtEnd(option) \/ InsertBefore(option)
        /\ added' = added \o <<option>>
        /\ UNCHANGED <<payload, received, failures, spoiled>>
    BY <1>1 DEF AddOption
  <2>2. CASE PutAtEnd(option)
    BY <1>1, <2>1, <2>2, PutKeeps
  <2>3. CASE InsertBefore(option)
    BY <1>1, <2>1, <2>3, InsertKeeps
  <2> QED BY <2>1, <2>2, <2>3
<1>2. ASSUME Building, NEW option \in Options, AddOptionFails(option)
      PROVE  PduInv'
  BY <1>2, FailKeeps
<1>3. ASSUME NEW length \in Payloads, SetPayload(length)
      PROVE  PduInv'
  BY <1>3, PayloadKeeps
<1>4. ASSUME NEW cut \in 0 .. Len(pdu), Receive(cut)
      PROVE  PduInv'
  BY <1>4, ReceiveKeeps
<1>5. CASE UNCHANGED vars
  <2>1. /\ pdu' = pdu /\ numOptions' = numOptions /\ maxAdded' = maxAdded
        /\ payload' = payload /\ received' = received /\ added' = added
        /\ failures' = failures /\ spoiled' = spoiled
    BY <1>5 DEF vars, message
  <2>2. TypeOK'
    BY Zenon, <2>1 DEF PduInv, TypeOK
  <2> QED BY Zenon, <2>1, <2>2 DEF PduInv, Wired, HasRead, InOrder, Counted
<1> QED BY Zenon, <1>1, <1>2, <1>3, <1>4, <1>5 DEF Next

\* Hence it holds always.
LEMMA PduInvariant == Spec => []PduInv
<1>1. Init => PduInv
  BY InitInv
<1>2. PduInv /\ [Next]_vars => PduInv'
  BY NextInv
<1> QED BY <1>1, <1>2, PTL DEF Spec

-----------------------------------------------------------------------------
(* What the invariant says.                                                *)

\* Whatever options are added, every byte is one, the count does not exceed the
\* options there are, and what is noted as the greatest number is one in use.
THEOREM BytesStayBytes == Spec => []TypeOK
<1>1. PduInv => TypeOK
  BY DEF PduInv
<1> QED BY <1>1, PduInvariant, PTL

\* The first options are a prefix of all.
LEMMA PlainFront ==
  ASSUME NEW w \in Seq(Steps), NEW k \in 0 .. Len(w)
  PROVE  /\ Plain(w) \in Seq(Entries) /\ Len(Plain(w)) = Len(w)
         /\ Len(Plain(Front(w, k))) = k /\ DOMAIN Plain(Front(w, k)) = 1 .. k
         /\ \A i \in 1 .. k : Plain(Front(w, k))[i] = Plain(w)[i]
         /\ IsPrefixOf(Plain(Front(w, k)), Plain(w))
         /\ k = Len(w) => Plain(Front(w, k)) = Plain(w)
<1>1. PICK n \in Nat : n = Len(w) /\ DOMAIN w = 1 .. n
  OBVIOUS
<1>2. ASSUME NEW u \in Seq(Steps)
      PROVE  /\ Plain(u) \in Seq(Entries) /\ Len(Plain(u)) = Len(u)
             /\ DOMAIN Plain(u) = 1 .. Len(u)
             /\ \A i \in 1 .. Len(u) :
                  Plain(u)[i] = [number |-> u[i].number, value |-> u[i].value]
  <2>1. Plain(u) = [i \in 1 .. Len(u) |-> [number |-> u[i].number, value |-> u[i].value]]
    BY DEF Plain
  <2>2. \A i \in 1 .. Len(u) : [number |-> u[i].number, value |-> u[i].value] \in Entries
    <3>1. \A i \in 1 .. Len(u) : u[i] \in Steps
      OBVIOUS
    <3> QED BY <3>1 DEF Steps, Entries
  <2> QED BY <2>1, <2>2
<1>3. Front(w, k) \in Seq(Steps) /\ Len(Front(w, k)) = k /\ \A i \in 1 .. k : Front(w, k)[i] = w[i]
  BY FrontOf
<1>4. PICK f \in Seq(Entries), g \in Seq(Entries) : f = Plain(Front(w, k)) /\ g = Plain(w)
  BY <1>2, <1>3
<1>5. Len(g) = n /\ Len(f) = k /\ DOMAIN f = 1 .. k
  BY <1>1, <1>2, <1>3, <1>4
<1>6. \A i \in 1 .. k : f[i] = g[i]
  <2> SUFFICES ASSUME NEW i \in 1 .. k
               PROVE  f[i] = g[i]
    OBVIOUS
  <2>1. i \in 1 .. Len(w)
    BY <1>1
  <2>2. f[i] = [number |-> Front(w, k)[i].number, value |-> Front(w, k)[i].value]
    BY Zenon, <1>2, <1>3, <1>4
  <2>3. g[i] = [number |-> w[i].number, value |-> w[i].value]
    BY Zenon, <1>2, <1>4, <2>1
  <2> QED BY Zenon, <1>3, <2>2, <2>3
<1>7. IsPrefixOf(f, g)
  <2>1. /\ SubSeq(g, 1, k) \in Seq(Entries) /\ Len(SubSeq(g, 1, k)) = k
        /\ \A i \in 1 .. k : SubSeq(g, 1, k)[i] = g[i]
    <3>1. 1 \in Nat \ {0} /\ k \in Nat /\ k <= Len(g) /\ 1 <= k + 1
      BY <1>1, <1>5
    <3>2. /\ SubSeq(g, 1, k) \in Seq(Entries) /\ Len(SubSeq(g, 1, k)) = k - 1 + 1
          /\ \A i \in 1 .. k - 1 + 1 : SubSeq(g, 1, k)[i] = g[1 + i - 1]
      BY ONLY <3>1, Slice, g \in Seq(Entries)
    <3> QED BY <3>1, <3>2
  <2>2. f = SubSeq(g, 1, k)
    BY <1>5, <1>6, <2>1
  <2>3. k <= n
    BY <1>1
  <2> QED BY <1>5, <2>2, <2>3 DEF IsPrefixOf
<1>8. k = Len(w) => f = g
  BY Zenon, <1>4, FrontWhole
<1> QED BY Zenon, <1>1, <1>4, <1>5, <1>6, <1>7, <1>8

\* The invariant says which options the message has.
LEMMA InvFacts ==
  ASSUME PduInv
  PROVE  /\ Walk(pdu) \in Seq(Steps) /\ added \in Seq(Entries)
         /\ ~spoiled => Plain(Walk(pdu)) = Sorted(added)
<1>1. Walk(pdu) \in Seq(Steps) /\ added \in Seq(Entries)
  BY InvTypes DEF PduInv, Wired, Framed, Laid
<1>2. ~spoiled => Plain(Walk(pdu)) = Sorted(added)
  BY <1>1, SortsIs DEF PduInv, InOrder
<1> QED BY <1>1, <1>2

\* addOption keeps the message sorted by option number, and stably, whatever is
\* added in whatever order: re-encoding the option behind loses nothing.
THEOREM OptionsAreInOrder == Spec => []OptionsInOrder
<1>1. PduInv => OptionsInOrder
  BY InvFacts DEF OptionsInOrder
<1> QED BY <1>1, PduInvariant, PTL

\* A receiver that takes a message has the options and the payload that were
\* sent, or the first of them when it was cut.
THEOREM ReceiverReadsTheSent == Spec => []ReceiverReadsWhatWasSent
<1>1. ASSUME PduInv
      PROVE  ReceiverReadsWhatWasSent
  <2>1. PICK w \in Seq(Steps) : w = Walk(pdu) /\ (~spoiled => Plain(w) = Sorted(added))
    BY <1>1, InvFacts
  <2>2. HasRead
    BY <1>1 DEF PduInv
  <2>3. received.verdict = "invalid" => ~received.whole
    BY <2>2 DEF HasRead, Unread
  <2>4. ASSUME received.verdict = "valid", ~spoiled
        PROVE  /\ IsPrefixOf(received.options, Sorted(added))
               /\ IsPrefixOf(received.payload, payload)
               /\ received.payload # <<>> => received.options = Sorted(added)
               /\ received.whole => received.options = Sorted(added) /\ received.payload = payload
    <3>1. PICK k \in 0 .. Len(w) :
            /\ received.options = Plain(Front(w, k)) /\ IsPrefixOf(received.payload, payload)
            /\ received.payload # <<>> => k = Len(w)
            /\ received.whole => k = Len(w) /\ received.payload = payload
      BY <2>1, <2>2, <2>4 DEF HasRead, Unread
    <3>2. IsPrefixOf(received.options, Sorted(added))
          /\ (k = Len(w) => received.options = Sorted(added))
      BY Zenon, <2>1, <2>4, <3>1, PlainFront
    <3> QED BY Zenon, <3>1, <3>2
  <2> QED BY Zenon, <2>3, <2>4 DEF ReceiverReadsWhatWasSent
<1> QED BY <1>1, PduInvariant, PTL

\* The more bit of a value of one or two bytes is in its last byte.
LEMMA MoreOfBytes ==
  ASSUME NEW v \in Seq(Byte)
  PROVE  Len(v) <= 2 /\ (UintOf(v) \div MoreBit) % 2 = 1
         <=> Len(v) \in {1, 2} /\ (v[Len(v)] \div MoreBit) % 2 = 1
<1>1. Len(v) \in Nat
  OBVIOUS
<1>2. CASE Len(v) = 0
  <2>1. v = <<>>
    BY <1>2
  <2>2. UintOf(v) = 0
    BY <2>1 DEF UintOf
  <2>3. (0 \div MoreBit) % 2 # 1
    BY DEF MoreBit
  <2>4. Len(v) \notin {1, 2}
    BY <1>2
  <2> QED BY Zenon, <2>2, <2>3, <2>4
<1>3. CASE Len(v) = 1
  <2>1. v # <<>>
    BY <1>3
  <2>2. UintOf(v) = v[1]
    BY <1>3, <2>1 DEF UintOf
  <2>3. Len(v) <= 2 /\ Len(v) \in {1, 2}
    BY <1>3
  <2> QED BY Zenon, <1>3, <2>2, <2>3
<1>4. CASE Len(v) = 2
  <2>1. v # <<>> /\ Len(v) # 1
    BY <1>4
  <2>2. UintOf(v) = 256 * v[1] + v[2]
    BY <1>4, <2>1 DEF UintOf
  <2>3. PICK a \in Byte, b \in Byte : a = v[1] /\ b = v[2]
    BY <1>4
  <2>4. a \in Nat /\ b \in Nat
    BY DEF Byte
  <2>5. ((256 * a + b) \div MoreBit) % 2 = (b \div MoreBit) % 2
    BY <2>4 DEF MoreBit
  <2>6. Len(v) <= 2 /\ Len(v) \in {1, 2}
    BY <1>4
  <2> QED BY Zenon, <1>4, <2>2, <2>3, <2>5, <2>6
<1>5. CASE Len(v) > 2
  <2>1. ASSUME NEW l \in Nat, l > 2
        PROVE  ~(l <= 2) /\ l \notin {1, 2}
    BY <2>1
  <2> QED BY Zenon, <1>1, <1>5, <2>1
<1>6. ASSUME NEW l \in Nat
      PROVE  l = 0 \/ l = 1 \/ l = 2 \/ l > 2
  OBVIOUS
<1> QED BY Zenon, <1>1, <1>2, <1>3, <1>4, <1>5, <1>6

\* An option says that more follows exactly when its last byte does.
LEMMA MoreOfValue ==
  ASSUME NEW option \in Entries
  PROVE  BlockSaysMore(option) <=>
           /\ option.number = BLOCK2 /\ Len(option.value) \in {1, 2}
           /\ (option.value[Len(option.value)] \div MoreBit) % 2 = 1
<1>1. PICK v \in Seq(Byte) : v = option.value
  BY DEF Entries, Values
<1> QED BY Zenon, <1>1, MoreOfBytes DEF BlockSaysMore

\* A receiver asks for the next block exactly when a Block2 option of at most two
\* bytes that was sent, and not cut, says so.
THEOREM MoreIsAsSent == Spec => []MoreIsWhatWasSent
<1>1. ASSUME PduInv
      PROVE  MoreIsWhatWasSent
  <2>1. PICK w \in Seq(Steps) : w = Walk(pdu) /\ (~spoiled => Plain(w) = Sorted(added))
    BY <1>1, InvFacts
  <2>2. HasRead
    BY <1>1 DEF PduInv
  <2>3. ASSUME received.verdict = "valid", ~spoiled
        PROVE  received.more <=>
                 \E i \in 1 .. Len(received.options) : BlockSaysMore(Sorted(added)[i])
    <3>1. PICK k \in 0 .. Len(w) :
            /\ received.options = Plain(Front(w, k))
            /\ received.more = GetOptionsBlock2Next(received.options)
      BY <2>1, <2>2, <2>3 DEF HasRead, Unread
    <3>2. PICK sent \in Seq(Entries) : sent = Sorted(added) /\ sent = Plain(w) /\ Len(sent) = Len(w)
      BY <2>1, <2>3, PlainFront
    <3>3. PICK options : options = received.options
      OBVIOUS
    <3>4. /\ Len(options) = k /\ DOMAIN options = 1 .. k
          /\ \A i \in 1 .. k : options[i] = sent[i]
      BY Zenon, <3>1, <3>2, <3>3, PlainFront
    <3>5. ASSUME NEW i \in 1 .. k
          PROVE  BlockSaysMore(sent[i]) <=>
                   /\ options[i].number = BLOCK2 /\ Len(options[i].value) \in {1, 2}
                   /\ (options[i].value[Len(options[i].value)] \div MoreBit) % 2 = 1
      <4>1. i \in 1 .. Len(sent)
        BY <3>2
      <4>2. sent[i] \in Entries
        BY <4>1
      <4> QED BY Zenon, <3>4, <4>2, MoreOfValue
    <3>6. GetOptionsBlock2Next(options) <=>
            \E i \in 1 .. k :
              /\ options[i].number = BLOCK2 /\ Len(options[i].value) \in {1, 2}
              /\ (options[i].value[Len(options[i].value)] \div MoreBit) % 2 = 1
      BY Zenon, <3>4 DEF GetOptionsBlock2Next
    <3>7. GetOptionsBlock2Next(options) <=> \E i \in 1 .. k : BlockSaysMore(sent[i])
      BY Zenon, <3>5, <3>6
    <3>8. received.more <=> GetOptionsBlock2Next(options)
      BY <3>1, <3>3
    <3> QED BY Zenon, <3>2, <3>3, <3>4, <3>7, <3>8
  <2> QED BY Zenon, <2>3 DEF MoreIsWhatWasSent
<1> QED BY <1>1, PduInvariant, PTL

=============================================================================
