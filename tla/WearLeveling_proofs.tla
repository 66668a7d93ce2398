------------------------- MODULE WearLeveling_proofs -------------------------
(***************************************************************************)
(* Proofs about the wear-leveled EEPROM, for every size of the store and   *)
(* of the EEPROM and all writes.                                           *)
(***************************************************************************)
EXTENDS WearLeveling, SequenceTheorems, WellFoundedInduction, TLAPS

Bytes == 0 .. 255
Halfword == Bytes \X Bytes

(* Induction from n down to 1, over a set.                                  *)
LEMMA Downward ==
    ASSUME NEW n \in Nat, NEW S,
           \A i \in 1 .. n : (\A j \in i + 1 .. n : j \in S) => i \in S
    PROVE  1 .. n \subseteq S
  <1> DEFINE T == {m \in Nat : m < n /\ n - m \notin S}
  <1>1. SUFFICES ASSUME NEW i \in 1 .. n, i \notin S PROVE FALSE
    OBVIOUS
  <1>2. n - i \in T
    BY <1>1
  <1>3. IsWellFoundedOn(OpToRel(<, Nat), Nat)
    BY NatLessThanWellFounded
  <1>4. PICK m \in T : \A k \in T : ~ (<<k, m>> \in OpToRel(<, Nat))
    BY <1>2, <1>3, WFMin
  <1>5. \A k \in T : ~ (k < m)
    BY <1>4 DEF OpToRel
  <1>6. \A j \in (n - m) + 1 .. n : j \in S
    <2> SUFFICES ASSUME NEW j \in (n - m) + 1 .. n, j \notin S PROVE FALSE
      OBVIOUS
    <2>1. n - j \in T /\ n - j < m
      OBVIOUS
    <2> QED BY <2>1, <1>5
  <1>7. n - m \in 1 .. n
    OBVIOUS
  <1> QED BY <1>6, <1>7

-----------------------------------------------------------------------------
\* Playback.

(* What the assumptions say.                                                *)
LEMMA Sizes ==
    /\ Logical \in Nat \ {0} /\ Slots \in Nat \ {0} /\ Lengths \subseteq Nat \ {0}
    /\ ByteAddresses \in 0 .. 64
  BY WearAssumption

Halves == [1 .. Slots + 4 -> Halfword]

\* One step of the recursion of Play.
Round(play, half, i) ==
    IF i > Slots \/ half[i] = EMPTY THEN [bytes |-> <<>>, next |-> i, ok |-> TRUE]
    ELSE LET d == Decode(half, i)
             p == play[i + d.read]
         IN  IF d.ok THEN [bytes |-> Over(d.bytes, p.bytes), next |-> p.next, ok |-> p.ok]
             ELSE [bytes |-> <<>>, next |-> i + d.read, ok |-> FALSE]

Type(half, i) == half[i][1] \div 64

(* The cases of Decode.                                                     *)
LEMMA DecodeCases ==
    ASSUME NEW half, NEW i
    PROVE  /\ Type(half, i) = MULTIBYTE => Decode(half, i) = DecodeMultibyte(half, i)
           /\ Type(half, i) = OPTIMIZED_64 => Decode(half, i) = DecodeOptimized64(half, i)
           /\ Type(half, i) = WORD_01 => Decode(half, i) = DecodeWord01(half, i)
           /\ Type(half, i) \notin {MULTIBYTE, OPTIMIZED_64, WORD_01} =>
                Decode(half, i) = [read |-> 1, bytes |-> <<>>, ok |-> FALSE]
  BY DEF Decode, Type, MULTIBYTE, OPTIMIZED_64, WORD_01

(* A round reads one to four slots.                                         *)
LEMMA ReadRange ==
    ASSUME NEW half, NEW i
    PROVE  Decode(half, i).read \in 1 .. 4
  <1>1. /\ DecodeMultibyte(half, i).read \in 1 .. 4
        /\ DecodeOptimized64(half, i).read \in 1 .. 4
        /\ DecodeWord01(half, i).read \in 1 .. 4
    BY DEF DecodeMultibyte, DecodeOptimized64, DecodeWord01
  <1> QED BY <1>1, DecodeCases

(* The rounds from i on do not depend on those before.                      *)
LEMMA RoundLocal ==
    ASSUME NEW half, NEW i \in 1 .. Slots + 4, NEW f, NEW g,
           \A j \in i + 1 .. Slots + 4 : f[j] = g[j]
    PROVE  Round(f, half, i) = Round(g, half, i)
  <1>1. CASE i > Slots \/ half[i] = EMPTY
    BY <1>1 DEF Round
  <1>2. CASE ~(i > Slots \/ half[i] = EMPTY)
    <2>1. i + Decode(half, i).read \in i + 1 .. Slots + 4
      BY <1>2, ReadRange, Sizes
    <2>2. f[i + Decode(half, i).read] = g[i + Decode(half, i).read]
      BY <2>1
    <2> QED BY <2>2 DEF Round
  <1> QED BY <1>1, <1>2

(* The recursion of Play has a solution, built from the last slot on: what  *)
(* it says of the slots behind i is kept when slot i is added.              *)
LEMMA PlayExists ==
    ASSUME NEW half
    PROVE  \E f : f = [i \in 1 .. Slots + 4 |-> Round(f, half, i)]
  <1> DEFINE N == Slots + 4
             From(k, f) == \A i \in k .. N : f[i] = Round(f, half, i)
             S == {k \in 1 .. N : \E f : From(k, f)}
  <1>1. N \in Nat /\ N >= 1
    BY Sizes
  <1>2. ASSUME NEW k \in 1 .. N, \A j \in k + 1 .. N : j \in S
        PROVE  k \in S
    <2>1. \E f : \A i \in k + 1 .. N : f[i] = Round(f, half, i)
      <3>1. CASE k = N
        <4>1. \A i \in k + 1 .. N : <<>>[i] = Round(<<>>, half, i)
          BY <3>1, <1>1
        <4> QED BY <4>1
      <3>2. CASE k < N
        <4>1. k + 1 \in S
          BY <3>2, <1>2, <1>1
        <4> QED BY <4>1
      <3> QED BY <3>1, <3>2, <1>1
    <2>2. PICK f : \A i \in k + 1 .. N : f[i] = Round(f, half, i)
      BY <2>1
    <2> DEFINE g == [i \in k .. N |-> IF i = k THEN Round(f, half, k) ELSE f[i]]
    <2>3. \A j \in k + 1 .. N : g[j] = f[j]
      BY <1>1
    <2>4. ASSUME NEW i \in k .. N
          PROVE  Round(g, half, i) = Round(f, half, i)
      <3>1. \A j \in i + 1 .. N : g[j] = f[j]
        BY <2>3, <1>1
      <3>2. i \in 1 .. N
        BY <1>1
      <3> HIDE DEF g
      <3> QED BY <3>1, <3>2, RoundLocal
    <2>5. \A i \in k .. N : g[i] = Round(g, half, i)
      <3>1. \A i \in k .. N : g[i] = Round(f, half, i)
        <4>1. g[k] = Round(f, half, k)
          BY <1>1
        <4>2. \A i \in k .. N : i # k => i \in k + 1 .. N
          BY <1>1
        <4> HIDE DEF g
        <4> QED BY <4>1, <4>2, <2>2, <2>3
      <3> HIDE DEF g
      <3> QED BY <3>1, <2>4
    <2> HIDE DEF g
    <2> QED BY <2>5
  <1>3. 1 .. N \subseteq S
    <2> HIDE DEF S, N
    <2> QED BY <1>1, <1>2, Downward
  <1>4. 1 \in S
    BY <1>1, <1>3
  <1>5. PICK f : \A i \in 1 .. N : f[i] = Round(f, half, i)
    BY <1>4
  <1> DEFINE g == [i \in 1 .. N |-> f[i]]
  <1>6. ASSUME NEW i \in 1 .. N
        PROVE  Round(g, half, i) = Round(f, half, i)
    <2>1. \A j \in i + 1 .. N : g[j] = f[j]
      BY <1>1
    <2> HIDE DEF g
    <2> QED BY <2>1, RoundLocal
  <1>7. g = [i \in 1 .. N |-> Round(g, half, i)]
    <2>1. \A i \in 1 .. N : f[i] = Round(g, half, i)
      <3> HIDE DEF g
      <3> QED BY <1>5, <1>6
    <2>2. [i \in 1 .. N |-> f[i]] = [i \in 1 .. N |-> Round(g, half, i)]
      <3> HIDE DEF g
      <3> QED BY <2>1
    <2> QED BY <2>2
  <1> QED BY <1>7

(* So Play does what its recursion says.                                    *)
LEMMA PlayRounds ==
    ASSUME NEW half
    PROVE  Play(half) = [i \in 1 .. Slots + 4 |-> Round(Play(half), half, i)]
  BY PlayExists DEF Play, Round

(* Slot by slot. *)
LEMMA PlayRound ==
    ASSUME NEW half, NEW i \in 1 .. Slots + 4
    PROVE  Play(half)[i] = Round(Play(half), half, i)
  BY PlayRounds

-----------------------------------------------------------------------------
\* What a round decodes, by the type of the entry.

(* Bytes of a halfword. *)
LEMMA HalfwordBytes ==
    ASSUME NEW h \in Halfword
    PROVE  /\ h[1] \in 0 .. 255 /\ h[2] \in 0 .. 255
           /\ h[1] \div 64 \in 0 .. 3 /\ (h[1] \div 8) % 8 \in 0 .. 7
           /\ h[1] % 8 \in 0 .. 7 /\ h[1] % 64 \in 0 .. 63 /\ h[1] % 32 \in 0 .. 31
           /\ (h[1] \div 32) % 2 \in 0 .. 1
  <1>1. h[1] \in 0 .. 255 /\ h[2] \in 0 .. 255
    BY DEF Halfword, Bytes
  <1> QED BY <1>1

(* Two bytes are a halfword. *)
LEMMA HalfwordOf ==
    ASSUME NEW x \in 0 .. 255, NEW y \in 0 .. 255
    PROVE  <<x, y>> \in Halfword /\ (x # 0 => <<x, y>> # EMPTY)
  <1>1. <<x, y>> \in Halfword
    BY DEF Halfword, Bytes
  <1>2. <<x, y>> = EMPTY => x = 0
    BY DEF EMPTY
  <1> QED BY <1>1, <1>2

(* The addresses of an entry of several halfwords, and of a word.           *)
LEMMA PlaceInNat ==
    ASSUME NEW p \in Nat, NEW q \in Nat, NEW r \in Nat
    PROVE  p * 65536 + q * 256 + r \in Nat /\ p * 512 + q * 2 \in Nat
  OBVIOUS

\* Bytes that may be written to the cache
Writable(bytes) == DOMAIN bytes \subseteq Address /\ bytes \in [DOMAIN bytes -> Bytes]

(* What At writes: as many bytes as it is told, of those it is given.       *)
LEMMA AtTypes ==
    ASSUME NEW a \in Nat, NEW n \in Nat, NEW vs, a + n <= Logical,
           \A k \in 1 .. n : vs[k] \in Bytes
    PROVE  Writable(At(a, vs, n))
  <1>1. DOMAIN At(a, vs, n) = a .. a + n - 1
    BY DEF At
  <1>2. a .. a + n - 1 \subseteq Address
    BY Sizes DEF Address
  <1>3. ASSUME NEW x \in a .. a + n - 1
        PROVE  At(a, vs, n)[x] \in Bytes
    <2>1. x - a + 1 \in 1 .. n
      OBVIOUS
    <2>2. At(a, vs, n)[x] = vs[x - a + 1]
      BY DEF At
    <2> QED BY <2>1, <2>2
  <1>4. At(a, vs, n) \in [a .. a + n - 1 -> Bytes]
    <2>1. At(a, vs, n) = [x \in a .. a + n - 1 |-> At(a, vs, n)[x]]
      BY DEF At
    <2> QED BY <1>3, <2>1
  <1> QED BY <1>1, <1>2, <1>4 DEF Writable

(* Nothing is within every EEPROM. *)
LEMMA NothingWritable == Writable(<<>>)
  BY DEF Writable

\* A round that goes on writes within the EEPROM.
Sane(d) == d.ok \in BOOLEAN /\ (d.ok => Writable(d.bytes))

(* So it is whatever the slots read as: entry by entry.                     *)
LEMMA DecodeTypes ==
    ASSUME NEW half \in Halves, NEW i \in 1 .. Slots
    PROVE  Sane(Decode(half, i))
  <1>1. /\ half[i] \in Halfword /\ half[i + 1] \in Halfword
        /\ half[i + 2] \in Halfword /\ half[i + 3] \in Halfword
    BY Sizes DEF Halves
  <1>2. Sane(DecodeMultibyte(half, i))
    <2> DEFINE len == (half[i][1] \div 8) % 8
               a   == (half[i][1] % 8) * 65536 + half[i][2] * 256 + half[i + 1][1]
               vs  == <<half[i + 1][2], half[i + 2][1], half[i + 2][2],
                        half[i + 3][1], half[i + 3][2], 0, 0>>
    <2>1. len \in 0 .. 7 /\ a \in Nat
      <3>1. half[i][1] % 8 \in 0 .. 7 /\ half[i][2] \in 0 .. 255 /\ half[i + 1][1] \in 0 .. 255
        BY <1>1, HalfwordBytes
      <3>2. half[i][1] % 8 \in Nat /\ half[i][2] \in Nat /\ half[i + 1][1] \in Nat
        BY <3>1
      <3>3. a \in Nat
        BY <3>2, PlaceInNat
      <3> QED BY <3>3, <1>1, HalfwordBytes
    <2>2. \A k \in 1 .. 7 : vs[k] \in Bytes
      <3>1. /\ half[i + 1][2] \in Bytes
            /\ half[i + 2][1] \in Bytes /\ half[i + 2][2] \in Bytes
            /\ half[i + 3][1] \in Bytes /\ half[i + 3][2] \in Bytes /\ 0 \in Bytes
        BY <1>1, HalfwordBytes DEF Bytes
      <3> QED BY <3>1
    <2>3. /\ DecodeMultibyte(half, i).ok = (a + len <= Logical)
          /\ DecodeMultibyte(half, i).bytes = At(a, vs, len)
      BY DEF DecodeMultibyte
    <2> HIDE DEF len, a, vs
    <2>4. a + len <= Logical => Writable(At(a, vs, len))
      <3>1. len \in Nat /\ \A k \in 1 .. len : vs[k] \in Bytes
        BY <2>1, <2>2
      <3> QED BY <2>1, <3>1, AtTypes
    <2>5. (a + len <= Logical) \in BOOLEAN
      BY <2>1, Sizes
    <2> QED BY <2>3, <2>4, <2>5 DEF Sane
  <1>3. Sane(DecodeOptimized64(half, i))
    <2> DEFINE a == half[i][1] % 64
    <2>1. a \in Nat /\ half[i][2] \in Bytes
      BY <1>1, HalfwordBytes DEF Bytes
    <2>2. /\ DecodeOptimized64(half, i).ok = (a < Logical)
          /\ DecodeOptimized64(half, i).bytes = At(a, <<half[i][2]>>, 1)
      BY DEF DecodeOptimized64
    <2> HIDE DEF a
    <2>3. a < Logical => Writable(At(a, <<half[i][2]>>, 1))
      BY <2>1, AtTypes, Sizes
    <2>4. (a < Logical) \in BOOLEAN
      BY <2>1, Sizes
    <2> QED BY <2>2, <2>3, <2>4 DEF Sane
  <1>4. Sane(DecodeWord01(half, i))
    <2> DEFINE a  == (half[i][1] % 32) * 512 + half[i][2] * 2
               vs == <<(half[i][1] \div 32) % 2, 0>>
    <2>1. a \in Nat
      <3>1. half[i][1] % 32 \in 0 .. 31 /\ half[i][2] \in 0 .. 255
        BY <1>1, HalfwordBytes
      <3>2. half[i][1] % 32 \in Nat /\ half[i][2] \in Nat
        BY <3>1
      <3> QED BY <3>2, PlaceInNat
    <2>2. \A k \in 1 .. 2 : vs[k] \in Bytes
      <3>1. (half[i][1] \div 32) % 2 \in Bytes /\ 0 \in Bytes
        BY <1>1, HalfwordBytes DEF Bytes
      <3> QED BY <3>1
    <2>3. /\ DecodeWord01(half, i).ok = (a + 1 < Logical)
          /\ DecodeWord01(half, i).bytes = At(a, vs, 2)
      BY DEF DecodeWord01
    <2> HIDE DEF a, vs
    <2>4. a + 1 < Logical => Writable(At(a, vs, 2))
      BY <2>1, <2>2, AtTypes, Sizes
    <2>5. (a + 1 < Logical) \in BOOLEAN
      BY <2>1, Sizes
    <2> QED BY <2>3, <2>4, <2>5 DEF Sane
  <1>5. Sane([read |-> 1, bytes |-> <<>>, ok |-> FALSE])
    BY NothingWritable DEF Sane
  <1> QED BY <1>2, <1>3, <1>4, <1>5, DecodeCases

(* What At writes depends on the bytes it is told of only.                  *)
LEMMA AtSame ==
    ASSUME NEW a \in Nat, NEW n \in Nat, NEW vs, NEW ws, \A k \in 1 .. n : vs[k] = ws[k]
    PROVE  At(a, vs, n) = At(a, ws, n)
  <1>1. \A x \in a .. a + n - 1 : vs[x - a + 1] = ws[x - a + 1]
    <2> TAKE x \in a .. a + n - 1
    <2>1. x - a + 1 \in 1 .. n
      OBVIOUS
    <2> QED BY <2>1
  <1> QED BY <1>1 DEF At

(* A round that goes on depends on the slots it reads only.                 *)
LEMMA DecodeLocal ==
    ASSUME NEW half \in Halves, NEW other, NEW i \in 1 .. Slots, Decode(half, i).ok,
           \A k \in i .. i + Decode(half, i).read - 1 : other[k] = half[k]
    PROVE  Decode(other, i) = Decode(half, i)
  <1>1. other[i] = half[i] /\ Type(other, i) = Type(half, i)
    BY ReadRange, Sizes DEF Type
  <1>2. CASE Type(half, i) = MULTIBYTE
    <2> DEFINE len    == (half[i][1] \div 8) % 8
               a      == (half[i][1] % 8) * 65536 + half[i][2] * 256 + half[i + 1][1]
               vs(h)  == <<h[i + 1][2], h[i + 2][1], h[i + 2][2],
                           h[i + 3][1], h[i + 3][2], 0, 0>>
               read   == IF len > 3 THEN 4 ELSE IF len > 1 THEN 3 ELSE 2
    <2>1. Decode(half, i) = DecodeMultibyte(half, i) /\ Decode(other, i) = DecodeMultibyte(other, i)
      BY <1>1, <1>2, DecodeCases
    <2>2. /\ half[i] \in Halfword /\ half[i + 1] \in Halfword
      BY Sizes DEF Halves
    <2>3. len \in 0 .. 7 /\ a \in Nat
      <3>1. half[i][1] % 8 \in 0 .. 7 /\ half[i][2] \in 0 .. 255 /\ half[i + 1][1] \in 0 .. 255
        BY <2>2, HalfwordBytes
      <3>2. half[i][1] % 8 \in Nat /\ half[i][2] \in Nat /\ half[i + 1][1] \in Nat
        BY <3>1
      <3>3. a \in Nat
        BY <3>2, PlaceInNat
      <3> QED BY <3>3, <2>2, HalfwordBytes
    <2>4. DecodeMultibyte(half, i).ok /\ a + len <= Logical
      <3>1. DecodeMultibyte(half, i).ok = (a + len <= Logical)
        BY DEF DecodeMultibyte
      <3> HIDE DEF a, len
      <3> QED BY <2>1, <3>1
    <2>5. DecodeMultibyte(half, i) = [read |-> read, bytes |-> At(a, vs(half), len), ok |-> a + len <= Logical]
      BY <2>4 DEF DecodeMultibyte
    <2>6. Decode(half, i).read = read
      BY <2>1, <2>5
    <2>7. other[i + 1] = half[i + 1]
      BY <2>6
    <2>8. DecodeMultibyte(other, i) = [read |-> read, bytes |-> At(a, vs(other), len), ok |-> a + len <= Logical]
      BY <1>1, <2>4, <2>7 DEF DecodeMultibyte
    <2>9. \A k \in 1 .. len : vs(half)[k] = vs(other)[k]
      <3>1. len > 1 => other[i + 2] = half[i + 2]
        BY <2>3, <2>6
      <3>2. len > 3 => other[i + 3] = half[i + 3]
        BY <2>3, <2>6
      <3> HIDE DEF len
      <3>3. ASSUME NEW k \in 1 .. len PROVE vs(half)[k] = vs(other)[k]
        <4>1. k \in 1 .. 7 /\ (k \in {2, 3} => len > 1) /\ (k \in {4, 5} => len > 3)
          BY <2>3
        <4>2. CASE k = 1
          BY <4>2, <2>7
        <4>3. CASE k \in {2, 3}
          BY <4>1, <4>3, <3>1
        <4>4. CASE k \in {4, 5}
          BY <4>1, <4>4, <3>2
        <4>5. CASE k \in {6, 7}
          BY <4>5
        <4> QED BY <4>1, <4>2, <4>3, <4>4, <4>5
      <3> QED BY <3>3
    <2>10. At(a, vs(half), len) = At(a, vs(other), len)
      <3> HIDE DEF a, len, vs
      <3>1. len \in Nat
        BY <2>3
      <3> QED BY <2>3, <2>9, <3>1, AtSame
    <2> HIDE DEF a, len, vs, read
    <2> QED BY <2>1, <2>5, <2>8, <2>10
  <1>3. CASE Type(half, i) # MULTIBYTE
    <2>1. DecodeOptimized64(other, i) = DecodeOptimized64(half, i)
      BY <1>1 DEF DecodeOptimized64
    <2>2. DecodeWord01(other, i) = DecodeWord01(half, i)
      BY <1>1 DEF DecodeWord01
    <2> QED BY <1>1, <1>3, <2>1, <2>2, DecodeCases
  <1> QED BY <1>2, <1>3

-----------------------------------------------------------------------------
\* Whole playbacks.

(* Copying more bytes. *)
LEMMA OverTypes ==
    ASSUME NEW f, NEW g, Writable(f)
    PROVE  /\ Writable(g) => Writable(Over(g, f))
           /\ g \in [Address -> Bytes] => Over(g, f) \in [Address -> Bytes]
  <1>1. ASSUME Writable(g) PROVE Writable(Over(g, f))
    BY <1>1 DEF Writable, Over
  <1>2. ASSUME g \in [Address -> Bytes] PROVE Over(g, f) \in [Address -> Bytes]
    <2>1. DOMAIN f \cup DOMAIN g = Address
      BY <1>2 DEF Writable
    <2>2. \A x \in Address : (IF x \in DOMAIN f THEN f[x] ELSE g[x]) \in Bytes
      BY <1>2 DEF Writable
    <2> QED BY <2>1, <2>2 DEF Over
  <1> QED BY <1>1, <1>2

(* Copying is associative. *)
LEMMA OverAssociative ==
    ASSUME NEW f, NEW g, NEW h
    PROVE  Over(h, Over(g, f)) = Over(Over(h, g), f)
  BY DEF Over

(* Nothing copied changes nothing. *)
LEMMA OverNothing ==
    ASSUME NEW g, NEW S, NEW T, g \in [S -> T]
    PROVE  Over(g, <<>>) = g
  BY DEF Over

\* What a playback from slot i on gives
PlayOf(r, i) == Writable(r.bytes) /\ r.next \in i .. Slots + 4 /\ r.ok \in BOOLEAN

(* It writes within the EEPROM and ends at or behind the slot it began at.  *)
LEMMA PlayTypes ==
    ASSUME NEW half \in Halves, NEW i \in 1 .. Slots + 4
    PROVE  PlayOf(Play(half)[i], i)
  <1> DEFINE N == Slots + 4
             S == {j \in 1 .. N : PlayOf(Play(half)[j], j)}
  <1>1. Writable(<<>>)
    BY NothingWritable
  <1>2. ASSUME NEW j \in 1 .. N, \A k \in j + 1 .. N : k \in S
        PROVE  j \in S
    <2>1. CASE j > Slots \/ half[j] = EMPTY
      <3>1. Play(half)[j] = [bytes |-> <<>>, next |-> j, ok |-> TRUE]
        BY <2>1, PlayRound DEF Round
      <3>2. Play(half)[j].bytes = <<>> /\ Play(half)[j].next = j
        BY <3>1
      <3>3. Play(half)[j].ok \in BOOLEAN
        BY <3>1
      <3>4. j \in j .. Slots + 4
        BY Sizes
      <3>5. PlayOf(Play(half)[j], j)
        BY <3>2, <3>3, <3>4, <1>1, Zenon DEF PlayOf
      <3> QED BY <3>5
    <2>2. CASE ~(j > Slots \/ half[j] = EMPTY)
      <3> DEFINE d == Decode(half, j)
                 p == Play(half)[j + d.read]
      <3>1. j \in 1 .. Slots /\ d.read \in 1 .. 4 /\ j + d.read \in j + 1 .. N
        BY <2>2, ReadRange, Sizes
      <3>2. Play(half)[j] =
              IF d.ok THEN [bytes |-> Over(d.bytes, p.bytes), next |-> p.next, ok |-> p.ok]
              ELSE [bytes |-> <<>>, next |-> j + d.read, ok |-> FALSE]
        BY <2>2, PlayRound DEF Round
      <3>3. Sane(d)
        BY <3>1, DecodeTypes
      <3>4. PlayOf(p, j + d.read)
        BY <3>1, <1>2
      <3> HIDE DEF d, p
      <3>5. CASE d.ok
        <4>1. Play(half)[j] = [bytes |-> Over(d.bytes, p.bytes), next |-> p.next, ok |-> p.ok]
          BY <3>2, <3>5
        <4>2. Writable(Over(d.bytes, p.bytes))
          BY <3>3, <3>4, <3>5, OverTypes DEF Sane, PlayOf
        <4>3. p.next \in j .. N /\ p.ok \in BOOLEAN
          BY <3>1, <3>4, Sizes DEF PlayOf
        <4> QED BY <4>1, <4>2, <4>3 DEF PlayOf
      <3>6. CASE ~d.ok
        <4>1. Play(half)[j] = [bytes |-> <<>>, next |-> j + d.read, ok |-> FALSE]
          BY <3>2, <3>6
        <4>2. Play(half)[j].bytes = <<>> /\ Play(half)[j].next = j + d.read
          BY <4>1
        <4>3. Play(half)[j].ok \in BOOLEAN
          BY <4>1
        <4>4. j + d.read \in j .. Slots + 4
          BY <3>1, Sizes
        <4>5. PlayOf(Play(half)[j], j)
          BY <4>2, <4>3, <4>4, <1>1, Zenon DEF PlayOf
        <4> QED BY <4>5
      <3> QED BY <3>5, <3>6
    <2> QED BY <2>1, <2>2
  <1>3. 1 .. N \subseteq S
    <2>1. N \in Nat
      BY Sizes
    <2> HIDE DEF S, N
    <2> QED BY <1>2, <2>1, Downward
  <1> QED BY <1>3

\* r is what q goes on with behind the bytes p wrote.
Extends(r, p, q) ==
    r.bytes = Over(p.bytes, q.bytes) /\ r.next = q.next /\ r.ok = q.ok

(* A playback that got to slot w does not depend on the slots from w on, and *)
(* with others there it goes on with what they hold.                        *)
LEMMA PlayExtends ==
    ASSUME NEW half \in Halves, NEW other \in Halves, NEW w \in 1 .. Slots + 4,
           \A k \in 1 .. w - 1 : other[k] = half[k],
           NEW i \in 1 .. w, Play(half)[i].ok, Play(half)[i].next = w
    PROVE  Extends(Play(other)[i], Play(half)[i], Play(other)[w])
  <1> DEFINE N    == Slots + 4
             E(j) == Extends(Play(other)[j], Play(half)[j], Play(other)[w])
             S    == {j \in 1 .. N : j <= w /\ Play(half)[j].ok /\ Play(half)[j].next = w => E(j)}
  <1>1. ASSUME NEW j \in 1 .. N, \A k \in j + 1 .. N : k \in S
        PROVE  j \in S
    <2> SUFFICES ASSUME j <= w, Play(half)[j].ok, Play(half)[j].next = w
                 PROVE  E(j)
      OBVIOUS
    <2>1. CASE j > Slots \/ half[j] = EMPTY
      <3>1. Play(half)[j] = [bytes |-> <<>>, next |-> j, ok |-> TRUE]
        BY <2>1, PlayRound DEF Round
      <3>2. j = w /\ Play(half)[j].bytes = <<>>
        BY <3>1
      <3>3. Over(<<>>, Play(other)[w].bytes) = Play(other)[w].bytes
        <4>1. Writable(Play(other)[w].bytes)
          BY PlayTypes DEF PlayOf
        <4> QED BY <4>1 DEF Over, Writable
      <3> QED BY <3>2, <3>3 DEF Extends
    <2>2. CASE ~(j > Slots \/ half[j] = EMPTY)
      <3> DEFINE d == Decode(half, j)
                 m == j + d.read
      <3>1. j \in 1 .. Slots /\ d.read \in 1 .. 4 /\ m \in j + 1 .. N
        BY <2>2, ReadRange, Sizes
      <3>2. Play(half)[j] =
              IF d.ok THEN [bytes |-> Over(d.bytes, Play(half)[m].bytes),
                            next |-> Play(half)[m].next, ok |-> Play(half)[m].ok]
              ELSE [bytes |-> <<>>, next |-> m, ok |-> FALSE]
        BY <2>2, PlayRound DEF Round
      <3>3. /\ d.ok /\ Play(half)[m].ok /\ Play(half)[m].next = w
            /\ Play(half)[j].bytes = Over(d.bytes, Play(half)[m].bytes)
        <4> HIDE DEF d, m
        <4> QED BY <3>2
      <3>4. m <= w
        BY <3>1, <3>3, PlayTypes DEF PlayOf
      <3>5. E(m)
        BY <3>1, <3>3, <3>4, <1>1
      <3>6. Decode(other, j) = d
        <4>1. \A k \in j .. m - 1 : other[k] = half[k]
          BY <3>1, <3>4
        <4> QED BY <4>1, <3>1, <3>3, DecodeLocal
      <3>7. other[j] # EMPTY /\ ~(j > Slots)
        BY <2>2, <3>1, <3>4
      <3>8. Play(other)[j] =
              [bytes |-> Over(d.bytes, Play(other)[m].bytes),
               next |-> Play(other)[m].next, ok |-> Play(other)[m].ok]
        BY <3>3, <3>6, <3>7, PlayRound DEF Round
      <3> HIDE DEF d, m
      <3> QED BY <3>3, <3>5, <3>8, OverAssociative DEF Extends
    <2> QED BY <2>1, <2>2
  <1>2. 1 .. N \subseteq S
    <2>1. N \in Nat
      BY Sizes
    <2> HIDE DEF S, N
    <2> QED BY <1>1, <2>1, Downward
  <1>3. i \in 1 .. N
    BY Sizes
  <1> QED BY <1>2, <1>3

-----------------------------------------------------------------------------
\* The entries of a write.

(* The kinds of entry, and the bytes each takes.                            *)
LEMMA EntryCases ==
    ASSUME NEW a, NEW vs, NEW i
    PROVE  /\ IsWord(a, vs, i) =>
                Takes(a, vs, i) = 2 /\ Entry(a, vs, i) = <<Word01(a + i - 1, vs[i])>>
           /\ ~IsWord(a, vs, i) /\ a + i - 1 < ByteAddresses =>
                Takes(a, vs, i) = 1 /\ Entry(a, vs, i) = <<Optimized64(a + i - 1, vs[i])>>
           /\ ~IsWord(a, vs, i) /\ ~(a + i - 1 < ByteAddresses) =>
                /\ Takes(a, vs, i) = IF Len(vs) - i + 1 >= 5 THEN 5 ELSE Len(vs) - i + 1
                /\ Entry(a, vs, i) =
                     Multibyte(a + i - 1, SubSeq(vs, i, i + Takes(a, vs, i) - 1))
  BY DEF Takes, Entry, MULTIBYTE_MAX_BYTES

(* An entry takes up to five bytes, and no more than there are.             *)
LEMMA TakesRange ==
    ASSUME NEW a, NEW vs \in Seq(Bytes), NEW i \in 1 .. Len(vs)
    PROVE  Takes(a, vs, i) \in 1 .. 5 /\ i + Takes(a, vs, i) \in i + 1 .. Len(vs) + 1
  <1>1. Len(vs) \in Nat
    BY LenProperties
  <1>2. CASE IsWord(a, vs, i)
    <2>1. i < Len(vs) /\ Takes(a, vs, i) = 2
      BY <1>2, EntryCases DEF IsWord
    <2> QED BY <1>1, <2>1
  <1>3. CASE ~IsWord(a, vs, i)
    <2>1. \/ Takes(a, vs, i) = 1
          \/ Takes(a, vs, i) = IF Len(vs) - i + 1 >= 5 THEN 5 ELSE Len(vs) - i + 1
      BY <1>3, EntryCases
    <2> QED BY <1>1, <2>1
  <1> QED BY <1>2, <1>3

(* The parts of an address that an entry of several halfwords has.          *)
LEMMA AddressParts ==
    ASSUME NEW a \in Nat
    PROVE  /\ (a \div 65536) % 8 \in 0 .. 7 /\ (a \div 256) % 256 \in 0 .. 255
           /\ a % 256 \in 0 .. 255 /\ a % 64 \in 0 .. 63
           /\ (a \div 512) % 32 \in 0 .. 31 /\ (a \div 2) % 256 \in 0 .. 255
  OBVIOUS

\* The halfwords of an entry for n bytes
Halfwords(n) == IF n > 3 THEN 4 ELSE IF n > 1 THEN 3 ELSE 2

\* e is the entry of the bytes ws for address a, halfword by halfword.
IsEntryFor(e, a, ws) ==
    /\ e \in Seq(Halfword) /\ Len(e) = Halfwords(Len(ws))
    /\ e[1] = <<Len(ws) * 8 + ((a \div 65536) % 8), (a \div 256) % 256>>
    /\ e[2] = <<a % 256, ws[1]>>
    /\ Len(ws) > 1 => e[3] = <<ws[2], Byte(ws, 3)>>
    /\ Len(ws) > 3 => e[4] = <<ws[4], Byte(ws, 5)>>

(* That is what Multibyte makes. *)
LEMMA MultibyteIs ==
    ASSUME NEW a \in Nat, NEW ws \in Seq(Bytes), Len(ws) \in 1 .. 5
    PROVE  IsEntryFor(Multibyte(a, ws), a, ws)
  <1> DEFINE n == Halfwords(Len(ws))
             four == <<<<MULTIBYTE * 64 + Len(ws) * 8 + ((a \div 65536) % 8), (a \div 256) % 256>>,
                       <<a % 256, ws[1]>>, <<Byte(ws, 2), Byte(ws, 3)>>,
                       <<Byte(ws, 4), Byte(ws, 5)>>>>
  <1>1. Multibyte(a, ws) = SubSeq(four, 1, n)
    BY DEF Multibyte, Halfwords
  <1>2. MULTIBYTE * 64 + Len(ws) * 8 + ((a \div 65536) % 8) =
          Len(ws) * 8 + ((a \div 65536) % 8)
    <2>1. Len(ws) * 8 \in Nat /\ (a \div 65536) % 8 \in Nat
      BY AddressParts
    <2> QED BY <2>1 DEF MULTIBYTE
  <1>3. Len(ws) * 8 + ((a \div 65536) % 8) \in 0 .. 255
    <2>1. \A l \in 1 .. 5, k \in 0 .. 7 : l * 8 + k \in 0 .. 255
      OBVIOUS
    <2> DEFINE k == (a \div 65536) % 8
               l == Len(ws)
    <2>2. k \in 0 .. 7 /\ l \in 1 .. 5
      BY AddressParts
    <2> HIDE DEF k, l
    <2>3. l * 8 + k \in 0 .. 255
      BY <2>1, <2>2
    <2> QED BY <2>3 DEF k, l
  <1>4. \A k \in 1 .. 5 : Byte(ws, k) \in Bytes
    <2>1. \A k \in 1 .. Len(ws) : ws[k] \in Bytes
      BY ElementOfSeq
    <2>2. 0 \in Bytes
      BY DEF Bytes
    <2>3. ASSUME NEW k \in 1 .. 5 PROVE Byte(ws, k) \in Bytes
      <3>1. CASE k <= Len(ws)
        <4>1. ws[k] \in Bytes
          BY <2>1, <3>1
        <4> QED BY <3>1, <4>1 DEF Byte
      <3>2. CASE ~(k <= Len(ws))
        BY <2>2, <3>2 DEF Byte
      <3> QED BY <3>1, <3>2
    <2> QED BY <2>3
  <1>5. ws[1] \in Bytes /\ (Len(ws) > 1 => Byte(ws, 2) = ws[2]) /\ (Len(ws) > 3 => Byte(ws, 4) = ws[4])
    BY ElementOfSeq DEF Byte
  <1>6. n \in 2 .. 4 /\ (Len(ws) > 1 => n >= 3) /\ (Len(ws) > 3 => n = 4)
    BY DEF Halfwords
  <1>7. /\ four[1] = <<Len(ws) * 8 + ((a \div 65536) % 8), (a \div 256) % 256>>
        /\ four[2] = <<a % 256, ws[1]>>
        /\ four[3] = <<Byte(ws, 2), Byte(ws, 3)>>
        /\ four[4] = <<Byte(ws, 4), Byte(ws, 5)>>
    BY <1>2
  <1>0. n = Halfwords(Len(ws))
    OBVIOUS
  <1> HIDE DEF four, n
  <1>8. \A k \in 1 .. 4 : four[k] \in Halfword
    <2>1. four[1] \in Halfword
      <3>1. (a \div 256) % 256 \in 0 .. 255
        BY AddressParts
      <3>2. <<Len(ws) * 8 + ((a \div 65536) % 8), (a \div 256) % 256>> \in Halfword
        <4> DEFINE x == Len(ws) * 8 + ((a \div 65536) % 8)
                   y == (a \div 256) % 256
        <4>1. x \in 0 .. 255 /\ y \in 0 .. 255
          BY <1>3, <3>1
        <4> HIDE DEF x, y
        <4>2. <<x, y>> \in Halfword
          BY <4>1, HalfwordOf
        <4> QED BY <4>2 DEF x, y
      <3> QED BY <1>7, <3>2
    <2>2. four[2] \in Halfword
      <3>1. a % 256 \in 0 .. 255 /\ ws[1] \in 0 .. 255
        BY <1>5, AddressParts DEF Bytes
      <3>2. <<a % 256, ws[1]>> \in Halfword
        BY <3>1, HalfwordOf
      <3> QED BY <1>7, <3>2
    <2>3. four[3] \in Halfword /\ four[4] \in Halfword
      BY <1>4, <1>7 DEF Halfword
    <2> QED BY <2>1, <2>2, <2>3
  <1>9. /\ SubSeq(four, 1, n) \in Seq(Halfword)
        /\ Len(SubSeq(four, 1, n)) = n
        /\ \A k \in 1 .. n : SubSeq(four, 1, n)[k] = four[k]
    <2>1. \A k \in 1 .. n : four[k] \in Halfword
      BY <1>6, <1>8
    <2> QED BY <1>6, <2>1, SubSeqProperties
  <1>10. \A k \in 1 .. n : Multibyte(a, ws)[k] = four[k]
    BY <1>1, <1>9
  <1>11. /\ Multibyte(a, ws)[1] = four[1] /\ Multibyte(a, ws)[2] = four[2]
         /\ Len(ws) > 1 => Multibyte(a, ws)[3] = four[3]
         /\ Len(ws) > 3 => Multibyte(a, ws)[4] = four[4]
    BY <1>6, <1>10
  <1>12. Len(ws) > 1 => Multibyte(a, ws)[3] = <<ws[2], Byte(ws, 3)>>
    BY <1>5, <1>7, <1>11
  <1>13. Len(ws) > 3 => Multibyte(a, ws)[4] = <<ws[4], Byte(ws, 5)>>
    BY <1>5, <1>7, <1>11
  <1>14. Multibyte(a, ws) \in Seq(Halfword) /\ Len(Multibyte(a, ws)) = Halfwords(Len(ws))
    BY <1>0, <1>1, <1>9
  <1>15. /\ Multibyte(a, ws)[1] =
              <<Len(ws) * 8 + ((a \div 65536) % 8), (a \div 256) % 256>>
         /\ Multibyte(a, ws)[2] = <<a % 256, ws[1]>>
    BY <1>7, <1>11
  <1> QED BY <1>12, <1>13, <1>14, <1>15 DEF IsEntryFor

(* What the encodings keep: an address of 19 bits in three parts, one that  *)
(* is even and of 14 bits in two, and the fields of the first byte.         *)
LEMMA JoinedAddress ==
    ASSUME NEW a \in Nat, a < AddressLimit
    PROVE  ((a \div 65536) % 8) * 65536 + ((a \div 256) % 256) * 256 + (a % 256) = a
  <1>1. a <= 524287
    BY SMT DEF AddressLimit
  <1>2. a = (a \div 65536) * 65536 + (a % 65536)
    BY <1>1, SMT
  <1>3. a \div 65536 <= 7
    BY <1>1, SMT
  <1>4. a = (a \div 256) * 256 + (a % 256)
    BY <1>1, SMT
  <1>5. (a \div 256) % 256 = (a \div 256) - (a \div 65536) * 256
    BY <1>1, SMT
  <1>6. (a \div 65536) % 8 = a \div 65536
    BY <1>3, SMT
  <1> QED BY <1>2, <1>3, <1>4, <1>5, <1>6, SMT

\* The addresses of words
WordAddress == {a \in Nat : a < 16384 /\ a % 2 = 0}

(* The same for a word. *)
LEMMA JoinedWordAddress ==
    ASSUME NEW a \in WordAddress
    PROVE  ((a \div 512) % 32) * 512 + ((a \div 2) % 256) * 2 = a
  BY SMT DEF WordAddress

(* The fields of the first byte of an entry of several halfwords.           *)
LEMMA MultibyteFields ==
    ASSUME NEW n \in 1 .. 5, NEW k \in 0 .. 7
    PROVE  /\ (n * 8 + k) \div 64 = 0 /\ ((n * 8 + k) \div 8) % 8 = n /\ (n * 8 + k) % 8 = k
           /\ n * 8 + k # 0
  OBVIOUS

(* The fields of the first byte of a word. *)
LEMMA WordFields ==
    ASSUME NEW v \in {0, 1}, NEW q \in 0 .. 31
    PROVE  /\ (2 * 64 + v * 32 + q) \div 64 = 2 /\ (2 * 64 + v * 32 + q) % 32 = q
           /\ ((2 * 64 + v * 32 + q) \div 32) % 2 = v /\ 2 * 64 + v * 32 + q \in 1 .. 255
  OBVIOUS

(* The fields of a byte below address 64. *)
LEMMA OptimizedFields ==
    ASSUME NEW b \in 0 .. 63
    PROVE  (1 * 64 + b) \div 64 = 1 /\ (1 * 64 + b) % 64 = b /\ 1 * 64 + b \in 1 .. 255
  OBVIOUS

(* The encodings of a word and of a byte, with their fields decoded.        *)
LEMMA Word01Is ==
    ASSUME NEW a \in WordAddress, NEW v \in {0, 1}
    PROVE  /\ Word01(a, v) \in Halfword /\ Word01(a, v) # EMPTY
           /\ Word01(a, v)[1] \div 64 = WORD_01 /\ (Word01(a, v)[1] \div 32) % 2 = v
           /\ (Word01(a, v)[1] % 32) * 512 + Word01(a, v)[2] * 2 = a
  <1> DEFINE q == (a \div 512) % 32
             r == (a \div 2) % 256
  <1>1. Word01(a, v) = <<2 * 64 + v * 32 + q, r>>
    BY DEF Word01, WORD_01
  <1>2. q \in 0 .. 31 /\ r \in 0 .. 255 /\ q * 512 + r * 2 = a
    <2>1. a \in Nat
      BY DEF WordAddress
    <2>2. q \in 0 .. 31 /\ r \in 0 .. 255
      BY <2>1
    <2> QED BY <2>2, JoinedWordAddress
  <1> HIDE DEF q, r
  <1> DEFINE h == 2 * 64 + v * 32 + q
  <1>3. h \div 64 = 2 /\ h % 32 = q /\ (h \div 32) % 2 = v /\ h \in 1 .. 255
    BY <1>2, WordFields
  <1> HIDE DEF h
  <1>4. Word01(a, v) = <<h, r>>
    BY <1>1 DEF h
  <1>5. Word01(a, v)[1] = h /\ Word01(a, v)[2] = r
    BY <1>4
  <1>6. <<h, r>> \in Halfword /\ <<h, r>> # EMPTY
    <2>1. h \in 0 .. 255 /\ h # 0 /\ r \in 0 .. 255
      BY <1>2, <1>3
    <2> QED BY <2>1, HalfwordOf
  <1> QED BY <1>2, <1>3, <1>4, <1>5, <1>6 DEF WORD_01

(* The same for a byte. *)
LEMMA Optimized64Is ==
    ASSUME NEW a \in 0 .. 63, NEW v \in Bytes
    PROVE  /\ Optimized64(a, v) \in Halfword /\ Optimized64(a, v) # EMPTY
           /\ Optimized64(a, v)[1] \div 64 = OPTIMIZED_64
           /\ Optimized64(a, v)[1] % 64 = a /\ Optimized64(a, v)[2] = v
  <1> DEFINE h == 1 * 64 + a
  <1>1. a % 64 = a
    OBVIOUS
  <1>2. h \div 64 = 1 /\ h % 64 = a /\ h \in 1 .. 255
    BY OptimizedFields
  <1>3. Optimized64(a, v) = <<h, v>>
    BY <1>1 DEF Optimized64, OPTIMIZED_64
  <1> HIDE DEF h
  <1>4. Optimized64(a, v)[1] = h /\ Optimized64(a, v)[2] = v
    BY <1>3
  <1>5. <<h, v>> \in Halfword /\ <<h, v>> # EMPTY
    <2>1. h \in 0 .. 255 /\ h # 0 /\ v \in 0 .. 255
      BY <1>2 DEF Bytes
    <2> QED BY <2>1, HalfwordOf
  <1> QED BY <1>2, <1>3, <1>4, <1>5 DEF OPTIMIZED_64

(* The addresses of a write, and which entry they may have.                 *)
LEMMA EntryAddress ==
    ASSUME NEW a \in Nat, NEW vs \in Seq(Bytes), NEW i \in 1 .. Len(vs)
    PROVE  /\ a + i - 1 \in Nat /\ vs[i] \in Bytes
           /\ IsWord(a, vs, i) => /\ a + i - 1 \in WordAddress /\ vs[i] \in {0, 1}
                                  /\ i + 1 \in 1 .. Len(vs) /\ vs[i + 1] = 0
           /\ a + i - 1 < ByteAddresses => a + i - 1 \in 0 .. 63
           /\ ~IsWord(a, vs, i) /\ ~(a + i - 1 < ByteAddresses) =>
                LET n  == Takes(a, vs, i)
                    ws == SubSeq(vs, i, i + n - 1)
                IN  ws \in Seq(Bytes) /\ Len(ws) = n /\ \A k \in 1 .. n : ws[k] = vs[i + k - 1]
  <1>1. Len(vs) \in Nat /\ vs[i] \in Bytes
    BY LenProperties, ElementOfSeq
  <1>2. ASSUME IsWord(a, vs, i)
        PROVE  /\ a + i - 1 \in WordAddress /\ vs[i] \in {0, 1}
               /\ i + 1 \in 1 .. Len(vs) /\ vs[i + 1] = 0
    BY <1>1, <1>2 DEF IsWord, WordAddress
  <1>3. a + i - 1 < ByteAddresses => a + i - 1 \in 0 .. 63
    BY <1>1, Sizes
  <1> DEFINE n  == Takes(a, vs, i)
             ws == SubSeq(vs, i, i + n - 1)
  <1>4. n \in 1 .. 5 /\ i + n \in i + 1 .. Len(vs) + 1
    BY TakesRange
  <1>5. ws \in Seq(Bytes) /\ Len(ws) = n /\ \A k \in 1 .. n : ws[k] = vs[i + k - 1]
    <2> HIDE DEF n
    <2>1. \A k \in i .. i + n - 1 : vs[k] \in Bytes
      <3>1. \A k \in i .. i + n - 1 : k \in 1 .. Len(vs)
        BY <1>1, <1>4
      <3> QED BY <3>1, ElementOfSeq
    <2>2. i \in Int /\ i + n - 1 \in Int /\ i <= i + n - 1 /\ (i + n - 1) - i + 1 = n
      BY <1>4
    <2> QED BY <2>1, <2>2, SubSeqProperties
  <1>6. a + i - 1 \in Nat
    BY <1>1
  <1> QED BY <1>1, <1>2, <1>3, <1>5, <1>6

(* An entry is one to four halfwords, and never looks like an empty slot.   *)
LEMMA EntryTypes ==
    ASSUME NEW a \in Nat, NEW vs \in Seq(Bytes), NEW i \in 1 .. Len(vs)
    PROVE  /\ Entry(a, vs, i) \in Seq(Halfword)
           /\ Len(Entry(a, vs, i)) \in 1 .. 4
           /\ Entry(a, vs, i)[1] # EMPTY
  <1>1. \A h \in Halfword : <<h>> \in Seq(Halfword) /\ Len(<<h>>) = 1 /\ <<h>>[1] = h
    OBVIOUS
  <1>2. CASE IsWord(a, vs, i)
    <2>1. a + i - 1 \in WordAddress /\ vs[i] \in {0, 1}
      BY <1>2, EntryAddress
    <2>2. Word01(a + i - 1, vs[i]) \in Halfword /\ Word01(a + i - 1, vs[i]) # EMPTY
      BY <2>1, Word01Is
    <2>3. Entry(a, vs, i) = <<Word01(a + i - 1, vs[i])>>
      BY <1>2, EntryCases
    <2> QED BY <1>1, <2>2, <2>3
  <1>3. CASE ~IsWord(a, vs, i) /\ a + i - 1 < ByteAddresses
    <2>1. a + i - 1 \in 0 .. 63 /\ vs[i] \in Bytes
      BY <1>3, EntryAddress
    <2>2. Optimized64(a + i - 1, vs[i]) \in Halfword /\ Optimized64(a + i - 1, vs[i]) # EMPTY
      BY <2>1, Optimized64Is
    <2>3. Entry(a, vs, i) = <<Optimized64(a + i - 1, vs[i])>>
      BY <1>3, EntryCases
    <2> QED BY <1>1, <2>2, <2>3
  <1>4. CASE ~IsWord(a, vs, i) /\ ~(a + i - 1 < ByteAddresses)
    <2> DEFINE n  == Takes(a, vs, i)
               ws == SubSeq(vs, i, i + n - 1)
               b  == a + i - 1
    <2>1. ws \in Seq(Bytes) /\ Len(ws) = n /\ b \in Nat
      BY <1>4, EntryAddress
    <2>2. n \in 1 .. 5
      BY TakesRange
    <2>3. Entry(a, vs, i) = Multibyte(b, ws)
      BY <1>4, EntryCases
    <2> HIDE DEF n, ws, b
    <2>4. /\ Multibyte(b, ws) \in Seq(Halfword)
          /\ Len(Multibyte(b, ws)) = Halfwords(n)
          /\ Multibyte(b, ws)[1] = <<n * 8 + ((b \div 65536) % 8), (b \div 256) % 256>>
      <3>1. Len(ws) \in 1 .. 5
        BY <2>1, <2>2
      <3>2. IsEntryFor(Multibyte(b, ws), b, ws)
        BY <2>1, <3>1, MultibyteIs
      <3> QED BY <2>1, <3>2 DEF IsEntryFor
    <2>5. Halfwords(n) \in 1 .. 4
      BY <2>2 DEF Halfwords
    <2>6. Multibyte(b, ws)[1] # EMPTY
      <3> DEFINE k == (b \div 65536) % 8
                 r == (b \div 256) % 256
                 h == n * 8 + k
      <3>1. k \in 0 .. 7 /\ r \in 0 .. 255
        BY <2>1, AddressParts
      <3> HIDE DEF k, r
      <3>2. h # 0 /\ h \in 0 .. 255
        BY <2>2, <3>1
      <3>3. Multibyte(b, ws)[1] = <<h, r>>
        BY <2>4 DEF k, r
      <3> HIDE DEF h
      <3> QED BY <3>1, <3>2, <3>3, HalfwordOf
    <2> QED BY <2>3, <2>4, <2>5, <2>6
  <1> QED BY <1>2, <1>3, <1>4

\* One step of the recursion of EntriesFrom.
From(f, a, vs, i) ==
    IF i > Len(vs) THEN <<>> ELSE Entry(a, vs, i) \o f[i + Takes(a, vs, i)]

(* The entries from i on do not depend on those before.                     *)
LEMMA FromLocal ==
    ASSUME NEW a, NEW vs \in Seq(Bytes), NEW i \in 1 .. Len(vs) + 1, NEW f, NEW g,
           \A j \in i + 1 .. Len(vs) + 1 : f[j] = g[j]
    PROVE  From(f, a, vs, i) = From(g, a, vs, i)
  <1>0. Len(vs) \in Nat
    BY LenProperties
  <1>1. CASE i > Len(vs)
    BY <1>1 DEF From
  <1>2. CASE ~(i > Len(vs))
    <2>1. i \in 1 .. Len(vs)
      BY <1>0, <1>2
    <2>2. i + Takes(a, vs, i) \in i + 1 .. Len(vs) + 1
      BY <2>1, TakesRange
    <2>3. f[i + Takes(a, vs, i)] = g[i + Takes(a, vs, i)]
      BY <2>2
    <2> QED BY <2>3 DEF From
  <1> QED BY <1>1, <1>2

(* The recursion of EntriesFrom has a solution, built from the end.         *)
LEMMA EntriesExist ==
    ASSUME NEW a, NEW vs \in Seq(Bytes)
    PROVE  \E f : f = [i \in 1 .. Len(vs) + 1 |-> From(f, a, vs, i)]
  <1> DEFINE N == Len(vs) + 1
             Tail_(k, f) == \A i \in k .. N : f[i] = From(f, a, vs, i)
             S == {k \in 1 .. N : \E f : Tail_(k, f)}
  <1>1. N \in Nat /\ N >= 1
    BY LenProperties
  <1>2. ASSUME NEW k \in 1 .. N, \A j \in k + 1 .. N : j \in S
        PROVE  k \in S
    <2>1. \E f : \A i \in k + 1 .. N : f[i] = From(f, a, vs, i)
      <3>1. CASE k = N
        <4>1. \A i \in k + 1 .. N : <<>>[i] = From(<<>>, a, vs, i)
          BY <3>1, <1>1
        <4> QED BY <4>1
      <3>2. CASE k < N
        <4>1. k + 1 \in k + 1 .. N
          <5> HIDE DEF N
          <5> QED BY <3>2, <1>1
        <4>2. k + 1 \in S
          BY <4>1, <1>2
        <4> QED BY <4>2
      <3> QED BY <3>1, <3>2, <1>1
    <2>2. PICK f : \A i \in k + 1 .. N : f[i] = From(f, a, vs, i)
      BY <2>1
    <2> DEFINE g == [i \in k .. N |-> IF i = k THEN From(f, a, vs, k) ELSE f[i]]
    <2>3. \A j \in k + 1 .. N : g[j] = f[j]
      BY <1>1
    <2>4. ASSUME NEW i \in k .. N
          PROVE  From(g, a, vs, i) = From(f, a, vs, i)
      <3>1. \A j \in i + 1 .. N : g[j] = f[j]
        BY <2>3, <1>1
      <3>2. i \in 1 .. N
        BY <1>1
      <3> HIDE DEF g
      <3> QED BY <3>1, <3>2, FromLocal
    <2>5. \A i \in k .. N : g[i] = From(g, a, vs, i)
      <3>1. \A i \in k .. N : g[i] = From(f, a, vs, i)
        <4>1. g[k] = From(f, a, vs, k)
          BY <1>1
        <4>2. \A i \in k .. N : i # k => i \in k + 1 .. N
          BY <1>1
        <4> HIDE DEF g
        <4> QED BY <4>1, <4>2, <2>2, <2>3
      <3> HIDE DEF g
      <3> QED BY <3>1, <2>4
    <2> HIDE DEF g
    <2> QED BY <2>5
  <1>3. 1 .. N \subseteq S
    <2> HIDE DEF S, N
    <2> QED BY <1>1, <1>2, Downward
  <1>4. 1 \in S
    BY <1>1, <1>3
  <1>5. PICK f : \A i \in 1 .. N : f[i] = From(f, a, vs, i)
    BY <1>4
  <1> DEFINE g == [i \in 1 .. N |-> f[i]]
  <1>6. ASSUME NEW i \in 1 .. N
        PROVE  From(g, a, vs, i) = From(f, a, vs, i)
    <2>1. \A j \in i + 1 .. N : g[j] = f[j]
      BY <1>1
    <2> HIDE DEF g
    <2> QED BY <2>1, FromLocal
  <1>7. g = [i \in 1 .. N |-> From(g, a, vs, i)]
    <2>1. \A i \in 1 .. N : f[i] = From(g, a, vs, i)
      <3> HIDE DEF g
      <3> QED BY <1>5, <1>6
    <2>2. [i \in 1 .. N |-> f[i]] = [i \in 1 .. N |-> From(g, a, vs, i)]
      <3> HIDE DEF g
      <3> QED BY <2>1
    <2> QED BY <2>2
  <1> QED BY <1>7

(* So EntriesFrom does what its recursion says.                             *)
LEMMA EntriesFollow ==
    ASSUME NEW a, NEW vs \in Seq(Bytes)
    PROVE  EntriesFrom(a, vs) =
             [i \in 1 .. Len(vs) + 1 |-> From(EntriesFrom(a, vs), a, vs, i)]
  BY EntriesExist DEF EntriesFrom, From

(* Position by position: halfwords, and some unless it is the end.          *)
LEMMA EntriesTypes ==
    ASSUME NEW a \in Nat, NEW vs \in Seq(Bytes), NEW i \in 1 .. Len(vs) + 1
    PROVE  /\ EntriesFrom(a, vs)[i] \in Seq(Halfword)
           /\ i > Len(vs) => EntriesFrom(a, vs)[i] = <<>>
           /\ i <= Len(vs) => /\ EntriesFrom(a, vs)[i] =
                                   Entry(a, vs, i) \o EntriesFrom(a, vs)[i + Takes(a, vs, i)]
                              /\ i + Takes(a, vs, i) \in 1 .. Len(vs) + 1
                              /\ EntriesFrom(a, vs)[i] # <<>>
  <1> DEFINE N == Len(vs) + 1
             F == EntriesFrom(a, vs)
             S == {j \in 1 .. N : F[j] \in Seq(Halfword)}
  <1>1. N \in Nat /\ Len(vs) \in Nat
    BY LenProperties
  <1>2. \A j \in 1 .. N : F[j] = From(F, a, vs, j)
    BY EntriesFollow
  <1>3. \A j \in 1 .. N : j > Len(vs) => F[j] = <<>>
    BY <1>2 DEF From
  <1>4. ASSUME NEW j \in 1 .. N, ~(j > Len(vs))
        PROVE  /\ F[j] = Entry(a, vs, j) \o F[j + Takes(a, vs, j)]
               /\ j \in 1 .. Len(vs) /\ j + Takes(a, vs, j) \in j + 1 .. N
    <2>1. j \in 1 .. Len(vs)
      BY <1>1, <1>4
    <2> QED BY <1>2, <1>4, <2>1, TakesRange DEF From
  <1> HIDE DEF F
  <1>5. ASSUME NEW j \in 1 .. N, \A k \in j + 1 .. N : k \in S
        PROVE  j \in S
    <2>1. CASE j > Len(vs)
      <3>1. <<>> \in Seq(Halfword)
        OBVIOUS
      <3> QED BY <1>3, <2>1, <3>1
    <2>2. CASE ~(j > Len(vs))
      <3>1. F[j + Takes(a, vs, j)] \in Seq(Halfword) /\ Entry(a, vs, j) \in Seq(Halfword)
        BY <1>4, <1>5, <2>2, EntryTypes
      <3>2. F[j] \in Seq(Halfword)
        BY <1>4, <2>2, <3>1, ConcatProperties
      <3> QED BY <3>2
    <2> QED BY <2>1, <2>2
  <1>6. 1 .. N \subseteq S
    <2> HIDE DEF S, N
    <2> QED BY <1>1, <1>5, Downward
  <1>7. ASSUME ~(i > Len(vs)) PROVE F[i] # <<>>
    <2>1. /\ Entry(a, vs, i) \in Seq(Halfword) /\ Len(Entry(a, vs, i)) \in 1 .. 4
          /\ F[i + Takes(a, vs, i)] \in Seq(Halfword)
      <3>1. i \in 1 .. Len(vs) /\ i + Takes(a, vs, i) \in 1 .. N
        BY <1>1, <1>4, <1>7
      <3> QED BY <1>6, <3>1, EntryTypes
    <2>2. Entry(a, vs, i) # <<>>
      <3>1. Len(<<>>) = 0
        OBVIOUS
      <3>2. Entry(a, vs, i) = <<>> => Len(Entry(a, vs, i)) = 0
        BY <3>1, Zenon
      <3>3. Len(Entry(a, vs, i)) # 0
        <4>1. \A n \in 1 .. 4 : n # 0
          OBVIOUS
        <4> QED BY <2>1, <4>1, Zenon
      <3> QED BY <3>2, <3>3
    <2> QED BY <1>4, <1>7, <2>1, <2>2, ConcatEqualIffEmpty
  <1>8. ~(i > Len(vs)) => i + Takes(a, vs, i) \in 1 .. N
    BY <1>1, <1>4
  <1>9. i <= Len(vs) <=> ~(i > Len(vs))
    BY <1>1
  <1> QED BY <1>3, <1>4, <1>6, <1>7, <1>8, <1>9 DEF F

-----------------------------------------------------------------------------
\* Entries are decoded as they were encoded.

\* The n bytes of vs from the i-th on
Part(vs, i, n) == [k \in 1 .. n |-> vs[i + k - 1]]

\* Slot s of half begins the entry e, of which the first j halfwords are there and
\* the others are still empty.
Begun(half, s, e, j) ==
    /\ \A k \in 1 .. j : half[s + k - 1] = e[k]
    /\ \A k \in j + 1 .. Len(e) : half[s + k - 1] = EMPTY

\* The round d goes on with as many slots as e has.
Reads(d, e) == d.ok /\ d.read = Len(e)

\* Slot s of half has the word v, 0, or the byte v, for address b.
WordAt(half, s, b, v) ==
    b \in WordAddress /\ b + 1 < Logical /\ v \in {0, 1} /\ half[s] = Word01(b, v)
ByteAt(half, s, b, v) ==
    b \in 0 .. 63 /\ b < Logical /\ v \in Bytes /\ half[s] = Optimized64(b, v)

(* A word, read back. *)
LEMMA WordDecodes ==
    ASSUME NEW half, NEW s, NEW b, NEW v, WordAt(half, s, b, v)
    PROVE  /\ Decode(half, s).ok /\ Decode(half, s).read = 1
           /\ Decode(half, s).bytes = At(b, <<v, 0>>, 2)
  <1>1. /\ half[s][1] \div 64 = WORD_01 /\ (half[s][1] \div 32) % 2 = v
        /\ (half[s][1] % 32) * 512 + half[s][2] * 2 = b
    BY Word01Is DEF WordAt
  <1>2. Decode(half, s) = DecodeWord01(half, s)
    BY <1>1, DecodeCases DEF Type
  <1>3. DecodeWord01(half, s).read = 1 /\ DecodeWord01(half, s).bytes = At(b, <<v, 0>>, 2)
    BY <1>1 DEF DecodeWord01
  <1>4. DecodeWord01(half, s).ok
    BY <1>1 DEF DecodeWord01, WordAt
  <1> QED BY <1>2, <1>3, <1>4, Zenon

(* A byte below address 64, read back. *)
LEMMA OptimizedDecodes ==
    ASSUME NEW half, NEW s, NEW b, NEW v, ByteAt(half, s, b, v)
    PROVE  /\ Decode(half, s).ok /\ Decode(half, s).read = 1
           /\ Decode(half, s).bytes = At(b, <<v>>, 1)
  <1>1. /\ half[s][1] \div 64 = OPTIMIZED_64
        /\ half[s][1] % 64 = b /\ half[s][2] = v
    BY Optimized64Is DEF ByteAt
  <1>2. Decode(half, s) = DecodeOptimized64(half, s)
    BY <1>1, DecodeCases DEF Type
  <1>3. DecodeOptimized64(half, s).read = 1 /\ DecodeOptimized64(half, s).bytes = At(b, <<v>>, 1)
    BY <1>1 DEF DecodeOptimized64
  <1>4. DecodeOptimized64(half, s).ok
    BY <1>1 DEF DecodeOptimized64, ByteAt
  <1> QED BY <1>2, <1>3, <1>4, Zenon

\* The first halfword of n bytes for address b, and the address as it is read
First(n, b) == <<n * 8 + ((b \div 65536) % 8), (b \div 256) % 256>>
AddressRead(half, s) == (half[s][1] % 8) * 65536 + half[s][2] * 256 + half[s + 1][1]

\* Slot s has the first halfword of an entry of several, which may lack the low byte
\* of its address.
FirstAt(half, s, n, b) ==
    /\ b \in Nat /\ b < AddressLimit /\ n \in 1 .. 5
    /\ half[s] = First(n, b) /\ half[s + 1][1] \in {0, b % 256}

(* Its fields. *)
LEMMA MultibyteFieldsRead ==
    ASSUME NEW half, NEW s, NEW b, NEW n, FirstAt(half, s, n, b)
    PROVE  /\ half[s][1] \div 64 = MULTIBYTE /\ (half[s][1] \div 8) % 8 = n
           /\ AddressRead(half, s) \in 0 .. b
           /\ half[s + 1][1] = b % 256 => AddressRead(half, s) = b
  <1> DEFINE k == (b \div 65536) % 8
             r == (b \div 256) % 256
             q == b % 256
  <1>0. b \in Nat /\ b < AddressLimit /\ n \in 1 .. 5
    BY Zenon DEF FirstAt
  <1>1. k \in 0 .. 7 /\ r \in 0 .. 255 /\ q \in 0 .. 255
    BY <1>0, AddressParts
  <1>2. k * 65536 + r * 256 + q = b
    BY <1>0, JoinedAddress, SMT
  <1>3. half[s][1] = n * 8 + k /\ half[s][2] = r /\ half[s + 1][1] \in {0, q}
    BY SMT DEF First, FirstAt
  <1> HIDE DEF k, r, q
  <1>4. (n * 8 + k) \div 64 = 0 /\ ((n * 8 + k) \div 8) % 8 = n /\ (n * 8 + k) % 8 = k
    BY <1>0, <1>1, MultibyteFields
  <1>5. k * 65536 + r * 256 + 0 \in 0 .. b
    BY <1>0, <1>1, <1>2, SMT
  <1>6. k * 65536 + r * 256 + q \in 0 .. b
    BY <1>0, <1>2, SMT
  <1>7. half[s][1] \div 64 = MULTIBYTE /\ (half[s][1] \div 8) % 8 = n /\ half[s][1] % 8 = k
    BY <1>3, <1>4, SMT DEF MULTIBYTE
  <1> QED BY <1>2, <1>3, <1>5, <1>6, <1>7, SMT DEF q, AddressRead

\* Slot s begins an entry e for the bytes ws and address b, of which j halfwords are
\* there.
SeveralAt(half, s, b, ws, e, j) ==
    /\ s \in 1 .. Slots /\ b \in Nat /\ ws \in Seq(Bytes) /\ Len(ws) \in 1 .. 5
    /\ b + Len(ws) <= Logical /\ IsEntryFor(e, b, ws)
    /\ j \in 1 .. Len(e) /\ Begun(half, s, e, j)

(* An entry of several halfwords, read back.  While some are still missing  *)
(* it has the slots it will have, though other bytes or another address.    *)
LEMMA MultibyteDecodes ==
    ASSUME NEW half, NEW s, NEW b, NEW ws, NEW e, NEW j, SeveralAt(half, s, b, ws, e, j)
    PROVE  /\ Reads(Decode(half, s), e)
           /\ j = Len(e) => Decode(half, s).bytes = At(b, ws, Len(ws))
  <1> DEFINE n  == Len(ws)
             a  == AddressRead(half, s)
             vs == <<half[s + 1][2], half[s + 2][1], half[s + 2][2],
                     half[s + 3][1], half[s + 3][2], 0, 0>>
  <1>0. n \in 1 .. 5 /\ b + n <= Logical
    BY DEF SeveralAt
  <1> USE DEF SeveralAt
  <1>1. /\ Len(e) = Halfwords(n) /\ Halfwords(n) \in 2 .. 4
        /\ n > 1 => Halfwords(n) \in 3 .. 4
        /\ n > 3 => Halfwords(n) = 4
    BY DEF IsEntryFor, Halfwords
  <1>2. b < AddressLimit
    <2> HIDE DEF n
    <2> QED BY <1>0, Sizes, AddressAssumption, SMT DEF AddressLimit
  <1>3. \A k \in 1 .. j : half[s + k - 1] = e[k]
    BY DEF Begun
  <1>4. half[s] = e[1]
    <2>1. half[s + 1 - 1] = e[1]
      BY <1>3
    <2> QED BY <2>1
  <1>5. half[s + 1] = e[2] \/ half[s + 1] = EMPTY
    <2>1. CASE j >= 2
      <3>1. half[s + 2 - 1] = e[2]
        BY <1>1, <1>3, <2>1
      <3> QED BY <3>1
    <2>2. CASE ~(j >= 2)
      <3>1. half[s + 2 - 1] = EMPTY
        BY <1>1, <2>2 DEF Begun
      <3> QED BY <3>1
    <2> QED BY <2>1, <2>2
  <1>6. half[s + 1][1] \in {0, b % 256}
    <2>1. e[2][1] = b % 256
      BY DEF IsEntryFor
    <2>2. EMPTY[1] = 0
      BY DEF EMPTY
    <2> QED BY <1>5, <2>1, <2>2
  <1>7. half[s] = First(n, b)
    BY <1>4 DEF IsEntryFor, First
  <1>8. /\ half[s][1] \div 64 = MULTIBYTE /\ (half[s][1] \div 8) % 8 = n
        /\ a \in 0 .. b
        /\ half[s + 1][1] = b % 256 => a = b
    <2> HIDE DEF n
    <2>1. FirstAt(half, s, n, b)
      BY <1>0, <1>2, <1>6, <1>7, Zenon DEF FirstAt
    <2> QED BY <2>1, MultibyteFieldsRead
  <1>9. Decode(half, s) = DecodeMultibyte(half, s)
    BY <1>8, DecodeCases DEF Type
  <1>10. a + n <= Logical
    <2> HIDE DEF a
    <2> QED BY <1>8, Sizes
  <1>11. /\ DecodeMultibyte(half, s).ok
         /\ DecodeMultibyte(half, s).bytes = At(a, vs, n)
    <2>1. DecodeMultibyte(half, s).ok = (a + n <= Logical)
      BY <1>8 DEF DecodeMultibyte, AddressRead
    <2>2. DecodeMultibyte(half, s).bytes = At(a, vs, n)
      BY <1>8 DEF DecodeMultibyte, AddressRead
    <2> HIDE DEF a, vs, n
    <2> QED BY <1>10, <2>1, <2>2
  <1>12. DecodeMultibyte(half, s).read = Halfwords(n)
    <2>1. DecodeMultibyte(half, s).read =
            IF n > 3 /\ a + n <= Logical THEN 4 ELSE IF n > 1 /\ a + n <= Logical THEN 3 ELSE 2
      BY <1>8 DEF DecodeMultibyte, AddressRead
    <2> HIDE DEF a, n
    <2> QED BY <1>10, <2>1 DEF Halfwords
  <1>13. Reads(Decode(half, s), e)
    <2>1. DecodeMultibyte(half, s).read = Len(e)
      BY <1>1, <1>12
    <2>2. DecodeMultibyte(half, s).ok
      BY <1>11
    <2> QED BY <1>9, <2>1, <2>2 DEF Reads
  <1>14. ASSUME j = Len(e) PROVE Decode(half, s).bytes = At(b, ws, n)
    <2>1. half[s + 1] = <<b % 256, ws[1]>>
      <3>1. half[s + 2 - 1] = e[2]
        BY <1>1, <1>3, <1>14
      <3>2. half[s + 1] = e[2]
        BY <3>1
      <3> QED BY <3>2 DEF IsEntryFor
    <2>2. n > 1 => half[s + 2] = <<ws[2], Byte(ws, 3)>>
      <3>1. n > 1 => half[s + 3 - 1] = e[3]
        BY <1>1, <1>3, <1>14
      <3>2. n > 1 => half[s + 2] = e[3]
        BY <3>1
      <3> QED BY <3>2 DEF IsEntryFor
    <2>3. n > 3 => half[s + 3] = <<ws[4], Byte(ws, 5)>>
      <3>1. n > 3 => half[s + 4 - 1] = e[4]
        BY <1>1, <1>3, <1>14
      <3>2. n > 3 => half[s + 3] = e[4]
        BY <3>1
      <3> QED BY <3>2 DEF IsEntryFor
    <2>4. a = b
      BY <1>8, <2>1
    <2>5. /\ vs[1] = ws[1]
          /\ n > 1 => vs[2] = ws[2] /\ vs[3] = Byte(ws, 3)
          /\ n > 3 => vs[4] = ws[4] /\ vs[5] = Byte(ws, 5)
      BY <2>1, <2>2, <2>3
    <2> HIDE DEF vs, a
    <2>6. /\ n > 2 => vs[3] = ws[3]
          /\ n > 4 => vs[5] = ws[5]
      BY <2>5 DEF Byte
    <2>7. \A k \in 1 .. n : vs[k] = ws[k]
      <3> TAKE k \in 1 .. n
      <3> HIDE DEF n
      <3>1. n \in 1 .. 5
        BY DEF n
      <3> QED BY <2>5, <2>6, <3>1
    <2>8. At(b, vs, n) = At(b, ws, n)
      <3>1. n \in Nat
        OBVIOUS
      <3> HIDE DEF n
      <3> QED BY <2>7, <3>1, AtSame
    <2> QED BY <1>9, <1>11, <2>4, <2>8
  <1> QED BY <1>13, <1>14

(* Whatever entry it is: once its first halfword is there the slot is not   *)
(* empty and has the slots of the entry, and with the last it is read back  *)
(* as it was written.                                                       *)
LEMMA EntryDecodes ==
    ASSUME NEW half, NEW s \in 1 .. Slots, NEW a \in Nat, NEW vs \in Seq(Bytes),
           a + Len(vs) <= Logical, NEW i \in 1 .. Len(vs),
           NEW j \in 1 .. Len(Entry(a, vs, i)), Begun(half, s, Entry(a, vs, i), j)
    PROVE  /\ half[s] # EMPTY
           /\ Reads(Decode(half, s), Entry(a, vs, i))
           /\ j = Len(Entry(a, vs, i)) =>
                Decode(half, s).bytes =
                  At(a + i - 1, Part(vs, i, Takes(a, vs, i)), Takes(a, vs, i))
  <1> DEFINE e == Entry(a, vs, i)
             n == Takes(a, vs, i)
             b == a + i - 1
  <1>1. Len(e) \in 1 .. 4 /\ e[1] # EMPTY
    BY EntryTypes
  <1>2. half[s] = e[1]
    <2>1. half[s + 1 - 1] = e[1]
      BY <1>1 DEF Begun
    <2> QED BY <2>1
  <1>3. n \in 1 .. 5 /\ i + n \in i + 1 .. Len(vs) + 1 /\ b \in Nat /\ Len(vs) \in Nat
    BY TakesRange, EntryAddress, LenProperties
  <1>4. b + n <= Logical
    <2> HIDE DEF n
    <2> QED BY <1>3, Sizes
  <1>5. CASE IsWord(a, vs, i)
    <2>1. b \in WordAddress /\ vs[i] \in {0, 1} /\ vs[i + 1] = 0
      BY <1>5, EntryAddress
    <2>2. n = 2 /\ e = <<Word01(b, vs[i])>>
      BY <1>5, EntryCases
    <2>3. Len(e) = 1 /\ half[s] = Word01(b, vs[i])
      BY <1>2, <2>2
    <2>4. b + 1 < Logical
      BY <1>3, <1>4, <2>2, Sizes
    <2>5. /\ Decode(half, s).ok /\ Decode(half, s).read = 1
          /\ Decode(half, s).bytes = At(b, <<vs[i], 0>>, 2)
      <3> HIDE DEF b, e, n
      <3>1. WordAt(half, s, b, vs[i])
        BY <2>1, <2>3, <2>4 DEF WordAt
      <3> QED BY <3>1, WordDecodes
    <2>6. \A k \in 1 .. 2 : <<vs[i], 0>>[k] = Part(vs, i, 2)[k]
      <3>1. Part(vs, i, 2)[1] = vs[i] /\ Part(vs, i, 2)[2] = vs[i + 1]
        BY DEF Part
      <3> QED BY <2>1, <3>1
    <2>7. At(b, <<vs[i], 0>>, 2) = At(b, Part(vs, i, 2), 2)
      <3> HIDE DEF b
      <3> QED BY <1>3, <2>6, AtSame
    <2>8. Reads(Decode(half, s), e)
      BY <2>3, <2>5 DEF Reads
    <2> HIDE DEF e, n, b
    <2>9. Decode(half, s).bytes = At(b, Part(vs, i, n), n)
      BY <2>2, <2>5, <2>7
    <2> QED BY <1>1, <1>2, <2>8, <2>9 DEF e, n, b
  <1>6. CASE ~IsWord(a, vs, i) /\ a + i - 1 < ByteAddresses
    <2>1. b \in 0 .. 63 /\ vs[i] \in Bytes
      BY <1>6, EntryAddress
    <2>2. n = 1 /\ e = <<Optimized64(b, vs[i])>>
      BY <1>6, EntryCases
    <2>3. Len(e) = 1 /\ half[s] = Optimized64(b, vs[i])
      BY <1>2, <2>2
    <2>4. b < Logical
      BY <1>3, <1>4, <2>2, Sizes
    <2>5. /\ Decode(half, s).ok /\ Decode(half, s).read = 1
          /\ Decode(half, s).bytes = At(b, <<vs[i]>>, 1)
      <3> HIDE DEF b, e, n
      <3>1. ByteAt(half, s, b, vs[i])
        BY <2>1, <2>3, <2>4 DEF ByteAt
      <3> QED BY <3>1, OptimizedDecodes
    <2>6. \A k \in 1 .. 1 : <<vs[i]>>[k] = Part(vs, i, 1)[k]
      BY DEF Part
    <2>7. At(b, <<vs[i]>>, 1) = At(b, Part(vs, i, 1), 1)
      <3> HIDE DEF b
      <3> QED BY <1>3, <2>6, AtSame
    <2>8. Reads(Decode(half, s), e)
      BY <2>3, <2>5 DEF Reads
    <2> HIDE DEF e, n, b
    <2>9. Decode(half, s).bytes = At(b, Part(vs, i, n), n)
      BY <2>2, <2>5, <2>7
    <2> QED BY <1>1, <1>2, <2>8, <2>9 DEF e, n, b
  <1>7. CASE ~IsWord(a, vs, i) /\ ~(a + i - 1 < ByteAddresses)
    <2> DEFINE ws == SubSeq(vs, i, i + n - 1)
    <2>1. ws \in Seq(Bytes) /\ Len(ws) = n /\ \A k \in 1 .. n : ws[k] = vs[i + k - 1]
      BY <1>7, EntryAddress
    <2>2. e = Multibyte(b, ws)
      BY <1>7, EntryCases
    <2> HIDE DEF e, n, b, ws
    <2>3. IsEntryFor(e, b, ws)
      BY <1>3, <2>1, <2>2, MultibyteIs
    <2>4. Begun(half, s, e, j) /\ j \in 1 .. Len(e)
      BY DEF e
    <2>5. /\ Reads(Decode(half, s), e)
          /\ j = Len(e) => Decode(half, s).bytes = At(b, ws, n)
      <3>1. Len(ws) \in 1 .. 5 /\ b + Len(ws) <= Logical /\ b \in Nat
        BY <1>3, <1>4, <2>1
      <3>2. SeveralAt(half, s, b, ws, e, j)
        BY <2>1, <2>3, <2>4, <3>1 DEF SeveralAt
      <3>3. /\ Reads(Decode(half, s), e)
            /\ j = Len(e) => Decode(half, s).bytes = At(b, ws, Len(ws))
        BY <3>2, MultibyteDecodes
      <3>4. Len(ws) = n
        BY <2>1
      <3> QED BY <3>3, <3>4, Zenon
    <2>6. \A k \in 1 .. n : ws[k] = Part(vs, i, n)[k]
      BY <2>1 DEF Part
    <2>7. At(b, ws, n) = At(b, Part(vs, i, n), n)
      <3>1. n \in Nat
        BY <1>3
      <3> QED BY <1>3, <2>6, <3>1, AtSame
    <2> QED BY <1>1, <1>2, <2>5, <2>7 DEF e, n, b
  <1> QED BY <1>5, <1>6, <1>7

-----------------------------------------------------------------------------
\* Types.

Image == [Address -> Bytes]

StoreTypes ==
    /\ data \in Image /\ hash \in Image \cup {None}
    /\ log \in [1 .. Slots -> Halfword]

CallTypes ==
    /\ pc \in {"idle", "append", "erase", "eraseLog", "unlock", "data", "hash", "wipe",
               "wipeLog", "off"}
    /\ todo \in Seq(Halfword)
    /\ pc = "append" <=> todo # <<>>
    /\ unlocked \in BOOLEAN /\ relock \in BOOLEAN /\ starting \in BOOLEAN /\ failed \in BOOLEAN

CacheTypes == cache \in Image /\ before \in Image /\ write_address \in 1 .. Slots + 4

\* Also during a write, there is a slot for what is appended next.
SlotLeft == pc \in {"idle", "append"} /\ ~failed => write_address <= Slots

Types == StoreTypes /\ CallTypes /\ CacheTypes /\ SlotLeft

(* What is empty has its type. *)
LEMMA EmptyTypes ==
    /\ Zeros \in Image /\ EMPTY \in Halfword /\ EmptyLog \in [1 .. Slots -> Halfword]
    /\ None \notin Image
  <1>1. 0 \in Bytes
    BY DEF Bytes
  <1>2. EMPTY \in Halfword
    BY DEF EMPTY, Halfword, Bytes
  <1>3. None \notin Image
    BY WearAssumption DEF Image, Address, Bytes
  <1> QED BY <1>1, <1>2, <1>3 DEF Zeros, Image, EmptyLog

(* What a log reads as. *)
LEMMA HalfTypes ==
    ASSUME NEW l \in [1 .. Slots -> Halfword], NEW b \in Halfword
    PROVE  Half(l, b) \in Halves
  <1>1. \A i \in 1 .. Slots + 4 : (IF i <= Slots THEN l[i] ELSE b) \in Halfword
    BY Sizes
  <1> QED BY <1>1 DEF Half, Halves

(* The end of a call. *)
LEMMA ReturnTypes ==
    ASSUME CallTypes, NEW ok \in BOOLEAN, NEW c \in Image, NEW w \in 1 .. Slots + 4,
           ok => w <= Slots, Return(ok, c, w)
    PROVE  CallTypes' /\ CacheTypes' /\ SlotLeft'
  <1>1. cache' \in Image /\ before' \in Image /\ write_address' \in 1 .. Slots + 4
    <2>1. 1 \in 1 .. Slots + 4 /\ Zeros \in Image
      BY Sizes, EmptyTypes
    <2> QED BY <2>1 DEF Return
  <1>2. pc' = "idle" /\ todo' = <<>> /\ todo' \in Seq(Halfword)
    BY DEF Return
  <1>3. /\ unlocked' \in BOOLEAN /\ relock' \in BOOLEAN /\ starting' \in BOOLEAN
        /\ failed' \in BOOLEAN
    BY Zenon DEF Return, CallTypes
  <1>4. SlotLeft'
    <2>1. CASE ok
      <3>1. write_address' = w
        BY <2>1 DEF Return
      <3> QED BY <2>1, <3>1 DEF SlotLeft
    <2>2. CASE ~ok
      <3>1. failed'
        BY <2>2 DEF Return
      <3> QED BY <3>1 DEF SlotLeft
    <2> QED BY <2>1, <2>2
  <1> QED BY <1>1, <1>2, <1>3, <1>4 DEF CallTypes, CacheTypes

(* What is written are bytes. *)
LEMMA WriteTypes ==
    ASSUME NEW n \in Lengths, NEW vs \in [1 .. n -> Value]
    PROVE  vs \in Seq(Bytes) /\ Len(vs) = n /\ n \in Nat \ {0}
  <1>1. n \in Nat \ {0} /\ Value \subseteq Bytes
    BY WearAssumption DEF Bytes
  <1>2. vs \in [1 .. n -> Bytes]
    BY <1>1
  <1>3. vs \in Seq(Bytes)
    BY <1>1, <1>2, SeqDef
  <1>4. Len(vs) = n
    <2>1. DOMAIN vs = 1 .. Len(vs) /\ Len(vs) \in Nat
      BY <1>3, LenProperties
    <2>2. 1 .. n = 1 .. Len(vs)
      BY <1>2, <2>1
    <2> QED BY <1>1, <2>1, <2>2
  <1> QED BY <1>1, <1>3, <1>4

(* The cache after a write, and what is appended. *)
LEMMA WrittenTypes ==
    ASSUME NEW a \in Address, NEW vs \in Seq(Bytes), Len(vs) # 0, a + Len(vs) <= Logical,
           NEW c \in Image
    PROVE  /\ Over(c, At(a, vs, Len(vs))) \in Image
           /\ Entries(a, vs) \in Seq(Halfword) /\ Entries(a, vs) # <<>>
  <1>1. Len(vs) \in Nat /\ a \in Nat /\ \A k \in 1 .. Len(vs) : vs[k] \in Bytes
    BY LenProperties, ElementOfSeq, Sizes DEF Address
  <1>2. Writable(At(a, vs, Len(vs)))
    BY <1>1, AtTypes
  <1>3. 1 \in 1 .. Len(vs) + 1 /\ 1 <= Len(vs)
    BY <1>1
  <1> QED BY <1>1, <1>2, <1>3, OverTypes, EntriesTypes DEF Image, Entries

(* The cache after a playback. *)
LEMMA PlaybackTypes ==
    ASSUME StoreTypes, NEW b \in Halfword
    PROVE  /\ Consolidated \in Image
           /\ Playback(Consolidated, b).cache \in Image
           /\ Playback(Consolidated, b).next \in 1 .. Slots + 4
           /\ Playback(Consolidated, b).ok \in BOOLEAN
  <1>1. Consolidated \in Image
    BY EmptyTypes DEF StoreTypes, Consolidated
  <1> DEFINE p == Play(Half(log, b))[1]
  <1>2. PlayOf(p, 1)
    <2>1. Half(log, b) \in Halves
      BY HalfTypes DEF StoreTypes
    <2>2. 1 \in 1 .. Slots + 4
      BY Sizes
    <2> QED BY <2>1, <2>2, PlayTypes
  <1>3. /\ Playback(Consolidated, b).cache = Over(Consolidated, p.bytes)
        /\ Playback(Consolidated, b).next = p.next
        /\ Playback(Consolidated, b).ok = p.ok
    BY DEF Playback
  <1> HIDE DEF p
  <1> QED BY <1>1, <1>2, <1>3, OverTypes DEF PlayOf, Image

(* Every step keeps the types. *)
LEMMA TypesStep ==
    ASSUME Types, [Next]_vars
    PROVE  Types'
  <1> USE DEF Types
  <1>0. 1 \in 1 .. Slots + 4 /\ 1 <= Slots /\ Zeros \in Image
    BY Sizes, EmptyTypes
  <1>1. ASSUME NEW n \in Lengths, NEW vs \in [1 .. n -> Value], NEW a \in Address, Write(a, vs)
        PROVE  Types'
    <2>1. vs \in Seq(Bytes) /\ Len(vs) = n /\ n \in Nat \ {0} /\ a + Len(vs) <= Logical
      BY <1>1, WriteTypes DEF Write
    <2>2. /\ Over(cache, At(a, vs, Len(vs))) \in Image
          /\ Entries(a, vs) \in Seq(Halfword) /\ Entries(a, vs) # <<>>
      BY <2>1, WrittenTypes DEF CacheTypes
    <2>3. StoreTypes' /\ CacheTypes'
      BY <1>1, <2>2 DEF Write, store, StoreTypes, CacheTypes
    <2>4. CallTypes'
      BY <1>1, <2>2 DEF Write, CallTypes
    <2>5. SlotLeft'
      BY <1>1 DEF Write, SlotLeft
    <2> QED BY <2>3, <2>4, <2>5
  <1>2. ASSUME AppendRaw PROVE Types'
    <2>1. todo \in Seq(Halfword) /\ todo # <<>> /\ pc = "append"
      BY <1>2 DEF AppendRaw, CallTypes
    <2>2. Head(todo) \in Halfword /\ Tail(todo) \in Seq(Halfword) /\ Len(Tail(todo)) = Len(todo) - 1
      BY <2>1, HeadTailProperties
    <2>3. StoreTypes'
      <3>1. log' \in [1 .. Slots -> Halfword]
        BY <1>2, <2>2 DEF AppendRaw, StoreTypes
      <3> QED BY <1>2, <3>1 DEF AppendRaw, StoreTypes
    <2>4. /\ NextAddress \in 1 .. Slots + 4
          /\ write_address < Slots => NextAddress <= Slots
      BY Sizes DEF NextAddress, CacheTypes
    <2>5. CASE /\ write_address >= Slots
               /\ pc' = "erase" /\ todo' = <<>>
               /\ write_address' = NextAddress
               /\ UNCHANGED <<cache, unlocked, relock, starting, before, failed>>
      <3>1. CallTypes'
        <4>1. <<>> \in Seq(Halfword)
          OBVIOUS
        <4> QED BY <2>5, <4>1 DEF CallTypes
      <3>2. CacheTypes' /\ SlotLeft'
        BY <2>4, <2>5 DEF CacheTypes, SlotLeft
      <3> QED BY <2>3, <3>1, <3>2
    <2>6. CASE /\ write_address < Slots /\ Len(todo) > 1
               /\ todo' = Tail(todo)
               /\ write_address' = NextAddress
               /\ UNCHANGED <<cache, unlocked, pc, relock, starting, before, failed>>
      <3>1. Tail(todo) # <<>>
        <4>1. Len(Tail(todo)) # 0
          BY <2>1, <2>2, <2>6, LenProperties
        <4>2. Len(<<>>) = 0
          OBVIOUS
        <4> QED BY <4>1, <4>2, Zenon
      <3>2. CallTypes'
        BY <2>1, <2>2, <2>6, <3>1 DEF CallTypes
      <3>3. CacheTypes' /\ SlotLeft'
        BY <2>4, <2>6 DEF CacheTypes, SlotLeft
      <3> QED BY <2>3, <3>2, <3>3
    <2>7. CASE write_address < Slots /\ Return(TRUE, cache, NextAddress)
      BY <2>3, <2>4, <2>7, ReturnTypes DEF CacheTypes
    <2>8. CASE Return(FALSE, cache, write_address)
      BY <2>3, <2>8, ReturnTypes DEF CacheTypes
    <2> QED BY <1>2, <2>5, <2>6, <2>7, <2>8 DEF AppendRaw
  <1>3. ASSUME Erase PROVE Types'
    <2>1. StoreTypes' /\ CacheTypes'
      BY <1>3 DEF Erase, store, StoreTypes, CacheTypes
    <2>2. CallTypes' /\ SlotLeft'
      BY <1>3 DEF Erase, CallTypes, SlotLeft
    <2> QED BY <2>1, <2>2
  <1>4. ASSUME NEW slots PROVE log \in [1 .. Slots -> Halfword] => Erased(slots, log) \in [1 .. Slots -> Halfword]
    BY EmptyTypes DEF Erased
  <1>5. ASSUME EraseData PROVE Types'
    <2>1. StoreTypes'
      BY <1>0, <1>4, <1>5 DEF EraseData, StoreTypes
    <2>2. CallTypes'
      BY <1>5 DEF EraseData, CallTypes
    <2>3. CacheTypes' /\ SlotLeft'
      BY <1>5 DEF EraseData, CacheTypes, SlotLeft
    <2> QED BY <2>1, <2>2, <2>3
  <1>6. ASSUME EraseLog PROVE Types'
    <2>1. StoreTypes'
      BY <1>4, <1>6 DEF EraseLog, StoreTypes
    <2>2. CASE Return(TRUE, Zeros, 1)
      BY <1>0, <2>1, <2>2, ReturnTypes
    <2>3. CASE /\ pc = "eraseLog"
               /\ pc' = IF unlocked THEN "data" ELSE "unlock"
               /\ UNCHANGED <<cache, write_address, unlocked, todo, relock, starting, before,
                              failed>>
      <3>1. CallTypes'
        BY <2>3 DEF CallTypes
      <3>2. CacheTypes' /\ SlotLeft'
        BY <2>3 DEF CacheTypes, SlotLeft
      <3> QED BY <2>1, <3>1, <3>2
    <2> QED BY <1>6, <2>2, <2>3 DEF EraseLog
  <1>7. ASSUME EraseFails PROVE Types'
    <2>1. StoreTypes'
      BY <1>4, <1>7 DEF EraseFails, StoreTypes
    <2>2. Return(FALSE, Zeros, 1) \/ Return(FALSE, cache, write_address)
      BY <1>7 DEF EraseFails
    <2> QED BY <1>0, <2>1, <2>2, ReturnTypes DEF CacheTypes
  <1>8. ASSUME Unlock PROVE Types'
    <2>1. StoreTypes' /\ CacheTypes' /\ SlotLeft'
      BY <1>8 DEF Unlock, store, StoreTypes, CacheTypes, SlotLeft
    <2>2. CallTypes'
      BY <1>8 DEF Unlock, CallTypes
    <2> QED BY <2>1, <2>2
  <1>9. ASSUME WriteData PROVE Types'
    <2>1. StoreTypes'
      BY <1>9 DEF WriteData, StoreTypes, CacheTypes
    <2>2. CacheTypes' /\ SlotLeft'
      BY <1>9 DEF WriteData, CacheTypes, SlotLeft
    <2>3. CallTypes'
      BY <1>9 DEF WriteData, CallTypes
    <2> QED BY <2>1, <2>2, <2>3
  <1>10. ASSUME WriteHash PROVE Types'
    <2>1. StoreTypes'
      BY <1>10 DEF WriteHash, StoreTypes, CacheTypes
    <2>2. Return(TRUE, cache, 1)
      BY <1>10 DEF WriteHash
    <2> QED BY <1>0, <2>1, <2>2, ReturnTypes DEF CacheTypes
  <1>11. ASSUME ConsolidateFails PROVE Types'
    <2>1. StoreTypes'
      BY <1>11 DEF ConsolidateFails, store, StoreTypes
    <2>2. Return(FALSE, cache, 1)
      BY <1>11 DEF ConsolidateFails
    <2> QED BY <1>0, <2>1, <2>2, ReturnTypes DEF CacheTypes
  <1>12. ASSUME PowerLoss PROVE Types'
    <2>1. StoreTypes' /\ CacheTypes' /\ SlotLeft'
      BY <1>0, <1>12 DEF PowerLoss, store, StoreTypes, CacheTypes, SlotLeft
    <2>2. CallTypes'
      <3>1. <<>> \in Seq(Halfword)
        OBVIOUS
      <3> QED BY <1>12, <3>1 DEF PowerLoss, CallTypes
    <2> QED BY <2>1, <2>2
  <1>13. ASSUME Restart PROVE Types'
    <2>1. PICK b \in Beyond : Start(Playback(Consolidated, b))
      BY <1>13 DEF Restart
    <2> DEFINE p == Playback(Consolidated, b)
    <2>2. b \in Halfword
      BY WearAssumption DEF Halfword, Bytes
    <2>3. p.cache \in Image /\ p.next \in 1 .. Slots + 4 /\ p.ok \in BOOLEAN
      BY <2>2, PlaybackTypes
    <2>4. Start(p)
      BY <2>1
    <2> HIDE DEF p
    <2>5. StoreTypes' /\ CacheTypes'
      BY <1>13, <2>3, <2>4 DEF Restart, Start, store, StoreTypes, CacheTypes
    <2>6. pc' \in {"idle", "erase"} /\ starting' \in BOOLEAN /\ (pc' = "idle" => p.next <= Slots)
      BY <2>4 DEF Start
    <2>7. todo = <<>>
      BY <1>13 DEF Restart, CallTypes
    <2>8. CallTypes'
      BY <1>13, <2>6, <2>7 DEF Restart, CallTypes
    <2>9. SlotLeft'
      BY <2>4, <2>6 DEF Start, SlotLeft
    <2> QED BY <2>5, <2>8, <2>9
  <1>14. ASSUME UNCHANGED vars PROVE Types'
    BY <1>14 DEF vars, store, StoreTypes, CallTypes, CacheTypes, SlotLeft
  <1> QED BY <1>1, <1>2, <1>3, <1>5, <1>6, <1>7, <1>8, <1>9, <1>10, <1>11, <1>12, <1>13, <1>14
          DEF Next

(* They hold at the start. *)
LEMMA TypesInit ==
    ASSUME Init
    PROVE  Types
  <1>1. 1 \in 1 .. Slots + 4 /\ 1 <= Slots
    BY Sizes
  <1>2. <<>> \in Seq(Halfword)
    OBVIOUS
  <1> QED BY <1>1, <1>2, EmptyTypes
          DEF Init, Types, StoreTypes, CallTypes, CacheTypes, SlotLeft

(* They are what TypeOK says. *)
LEMMA TypesOK ==
    ASSUME Types
    PROVE  TypeOK
  <1>1. ASSUME NEW f \in {data, cache, before} \cup ({hash} \ {None})
        PROVE  DOMAIN f = Address /\ \A a \in Address : f[a] \in 0 .. 255
    <2>1. f \in Image
      BY DEF Types, StoreTypes, CacheTypes
    <2> QED BY <2>1 DEF Image, Bytes
  <1>2. \A i \in 1 .. Slots : log[i] \in (0 .. 255) \X (0 .. 255)
    BY DEF Types, StoreTypes, Halfword, Bytes
  <1>3. write_address \in 1 .. Slots + 4 /\ (pc = "idle" /\ ~failed => write_address <= Slots)
    BY DEF Types, CacheTypes, SlotLeft
  <1>4. /\ pc \in {"idle", "append", "erase", "eraseLog", "unlock", "data", "hash", "wipe",
                   "wipeLog", "off"}
        /\ pc = "append" <=> todo # <<>>
        /\ {unlocked, relock, starting, failed} \subseteq BOOLEAN
    BY DEF Types, CallTypes
  <1> QED BY <1>1, <1>2, <1>3, <1>4 DEF TypeOK

(* Whatever is written and whatever fails, all variables have their types,  *)
(* what is played back stays within the EEPROM, and an idle store of which  *)
(* no call has failed has a slot left for the next entry (wear_leveling.c   *)
(* 475-612 and 414-470).                                                    *)
THEOREM WearTypes == Spec => []TypeOK
  <1>1. Spec => []Types
    BY TypesInit, TypesStep, PTL DEF Spec
  <1>2. Types => TypeOK
    BY TypesOK
  <1> QED BY <1>1, <1>2, PTL

-----------------------------------------------------------------------------
\* Playing back a log to which an entry was appended.

\* The playback r ends at once at slot i.
Stops(r, i) == r.bytes = <<>> /\ r.next = i /\ r.ok

(* It does at the end of the log, and at an empty slot. *)
LEMMA PlayStops ==
    ASSUME NEW half, NEW i \in 1 .. Slots + 4, i > Slots \/ half[i] = EMPTY
    PROVE  Stops(Play(half)[i], i)
  <1>1. Play(half)[i] = [bytes |-> <<>>, next |-> i, ok |-> TRUE]
    BY PlayRound DEF Round
  <1> QED BY <1>1 DEF Stops

(* And nowhere else does a playback end that finds no fault.                *)
LEMMA PlayEnds ==
    ASSUME NEW half \in Halves, NEW i \in 1 .. Slots + 4, Play(half)[i].ok
    PROVE  Play(half)[i].next > Slots \/ half[Play(half)[i].next] = EMPTY
  <1> DEFINE N == Slots + 4
             E(j) == Play(half)[j].next > Slots \/ half[Play(half)[j].next] = EMPTY
             S == {j \in 1 .. N : Play(half)[j].ok => E(j)}
  <1>1. ASSUME NEW j \in 1 .. N, \A k \in j + 1 .. N : k \in S
        PROVE  j \in S
    <2> SUFFICES ASSUME Play(half)[j].ok PROVE E(j)
      OBVIOUS
    <2>1. CASE j > Slots \/ half[j] = EMPTY
      <3>1. Play(half)[j].next = j
        BY <2>1, PlayStops DEF Stops
      <3> QED BY <2>1, <3>1
    <2>2. CASE ~(j > Slots \/ half[j] = EMPTY)
      <3> DEFINE d == Decode(half, j)
                 m == j + d.read
      <3>1. m \in j + 1 .. N
        BY <2>2, ReadRange, Sizes
      <3>2. Play(half)[j] =
              IF d.ok THEN [bytes |-> Over(d.bytes, Play(half)[m].bytes),
                            next |-> Play(half)[m].next, ok |-> Play(half)[m].ok]
              ELSE [bytes |-> <<>>, next |-> m, ok |-> FALSE]
        BY <2>2, PlayRound DEF Round
      <3>3. Play(half)[m].ok /\ Play(half)[j].next = Play(half)[m].next
        <4> HIDE DEF d, m
        <4> QED BY <3>2
      <3>4. E(m)
        BY <1>1, <3>1, <3>3
      <3> QED BY <3>3, <3>4
    <2> QED BY <2>1, <2>2
  <1>2. 1 .. N \subseteq S
    <2>1. N \in Nat
      BY Sizes
    <2> HIDE DEF S, N
    <2> QED BY <1>1, <2>1, Downward
  <1> QED BY <1>2

\* The playbacks r and q give the same.
Same(r, q) == r.bytes = q.bytes /\ r.next = q.next /\ r.ok = q.ok

(* What lies behind the store makes no difference to a playback that finds  *)
(* no fault and ends within the store.                                      *)
LEMMA PlaySame ==
    ASSUME NEW half \in Halves, NEW other \in Halves, \A k \in 1 .. Slots : other[k] = half[k],
           Play(half)[1].ok, Play(half)[1].next <= Slots + 1
    PROVE  Same(Play(other)[1], Play(half)[1])
  <1> DEFINE w == Play(half)[1].next
  <1>1. 1 \in 1 .. Slots + 4
    BY Sizes
  <1>2. w \in 1 .. Slots + 4 /\ w <= Slots + 1
    BY <1>1, PlayTypes DEF PlayOf
  <1>3. w > Slots \/ half[w] = EMPTY
    BY <1>1, PlayEnds
  <1> HIDE DEF w
  <1>4. w > Slots \/ other[w] = EMPTY
    BY <1>2, <1>3, Sizes
  <1>5. Stops(Play(other)[w], w)
    BY <1>2, <1>4, PlayStops
  <1>6. \A k \in 1 .. w - 1 : other[k] = half[k]
    BY <1>2, Sizes
  <1>7. Extends(Play(other)[1], Play(half)[1], Play(other)[w])
    <2>1. 1 \in 1 .. w
      BY <1>2
    <2>2. Play(half)[1].next = w
      BY DEF w
    <2> QED BY <1>2, <1>6, <2>1, <2>2, PlayExtends
  <1>8. Over(Play(half)[1].bytes, <<>>) = Play(half)[1].bytes
    <2>1. Writable(Play(half)[1].bytes)
      BY <1>1, PlayTypes DEF PlayOf
    <2> QED BY <2>1, OverNothing DEF Writable
  <1> QED BY <1>5, <1>7, <1>8 DEF Extends, Stops, Same, w

\* The log l, played back if power fails now
Rounds(l) == Play(Half(l, EMPTY))[1]

\* The log l before slot s
Truncated(l, s) == [k \in 1 .. Slots |-> IF k < s THEN l[k] ELSE EMPTY]

\* The log l is empty from slot w on.
EmptyFrom(l, w) == \A k \in 1 .. Slots : k >= w => l[k] = EMPTY

(* A log of which nothing is left out. *)
LEMMA TruncatedSame ==
    ASSUME NEW l \in [1 .. Slots -> Halfword], NEW s \in Nat, EmptyFrom(l, s)
    PROVE  Truncated(l, s) = l
  <1>1. \A k \in 1 .. Slots : (IF k < s THEN l[k] ELSE EMPTY) = l[k]
    BY Sizes DEF EmptyFrom
  <1> QED BY <1>1 DEF Truncated

(* Types of the playback of a log. *)
LEMMA RoundsTypes ==
    ASSUME NEW l \in [1 .. Slots -> Halfword]
    PROVE  PlayOf(Rounds(l), 1)
  <1>1. Half(l, EMPTY) \in Halves
    BY HalfTypes, EmptyTypes
  <1>2. 1 \in 1 .. Slots + 4
    BY Sizes
  <1> QED BY <1>1, <1>2, PlayTypes DEF Rounds

(* An empty log plays back to nothing. *)
LEMMA EmptyRounds == Stops(Rounds(EmptyLog), 1)
  <1>1. 1 \in 1 .. Slots + 4 /\ 1 \in 1 .. Slots /\ 1 <= Slots
    BY Sizes
  <1>2. Half(EmptyLog, EMPTY)[1] = EMPTY
    BY <1>1 DEF Half, EmptyLog
  <1> QED BY <1>1, <1>2, PlayStops DEF Rounds

\* In the log l, slot s begins the entry at the i-th byte of vs, written to a.  The
\* first j halfwords of it are there, and nothing behind them; what lies before s is
\* played back.
Appended(l, s, a, vs, i, j) ==
    /\ l \in [1 .. Slots -> Halfword] /\ s \in 1 .. Slots
    /\ a \in Nat /\ vs \in Seq(Bytes) /\ a + Len(vs) <= Logical /\ i \in 1 .. Len(vs)
    /\ j \in 1 .. Len(Entry(a, vs, i)) /\ s + j <= Slots + 1
    /\ \A k \in 1 .. j : l[s + k - 1] = Entry(a, vs, i)[k]
    /\ EmptyFrom(l, s + j)
    /\ Rounds(Truncated(l, s)).ok /\ Rounds(Truncated(l, s)).next = s

(* Its playback ends behind the entry, of which the last halfword may still *)
(* be missing.  With all of them it adds the bytes of the entry.            *)
LEMMA EntryPlayed ==
    ASSUME NEW l, NEW s, NEW a, NEW vs, NEW i, NEW j, Appended(l, s, a, vs, i, j)
    PROVE  /\ Rounds(l).ok
           /\ Rounds(l).next = s + Len(Entry(a, vs, i))
           /\ j = Len(Entry(a, vs, i)) =>
                Rounds(l).bytes =
                  Over(Rounds(Truncated(l, s)).bytes,
                       At(a + i - 1, Part(vs, i, Takes(a, vs, i)), Takes(a, vs, i)))
  <1> DEFINE e    == Entry(a, vs, i)
             half == Half(l, EMPTY)
             trunc == Half(Truncated(l, s), EMPTY)
             d    == Decode(half, s)
             n    == Len(e)
             m    == s + n
             p    == Rounds(Truncated(l, s))
  <1>1. /\ l \in [1 .. Slots -> Halfword] /\ s \in 1 .. Slots
        /\ a \in Nat /\ vs \in Seq(Bytes) /\ a + Len(vs) <= Logical /\ i \in 1 .. Len(vs)
        /\ j \in 1 .. Len(e) /\ s + j <= Slots + 1
        /\ \A k \in 1 .. j : l[s + k - 1] = e[k]
        /\ EmptyFrom(l, s + j)
        /\ p.ok /\ p.next = s
    BY DEF Appended
  <1>2. Len(e) \in 1 .. 4
    BY <1>1, EntryTypes
  <1> HIDE DEF e
  <1>0. /\ s \in 1 .. Slots /\ j \in 1 .. n /\ s + j <= Slots + 1
        /\ n \in 1 .. 4 /\ Slots \in Nat
    BY <1>1, <1>2, Sizes
  <1>3. half \in Halves /\ trunc \in Halves
    <2>1. Truncated(l, s) \in [1 .. Slots -> Halfword]
      BY <1>1, EmptyTypes DEF Truncated
    <2> QED BY <1>1, <2>1, HalfTypes, EmptyTypes
  <1>4. \A k \in 1 .. s - 1 : half[k] = trunc[k]
    BY <1>1, Sizes DEF Half, Truncated
  <1>5. Begun(half, s, e, j)
    <2>1. ASSUME NEW k \in 1 .. j PROVE half[s + k - 1] = e[k]
      <3>1. s + k - 1 \in 1 .. Slots
        BY <1>0, <1>2, Sizes
      <3> QED BY <1>1, <3>1, Sizes DEF Half
    <2>2. ASSUME NEW k \in j + 1 .. Len(e) PROVE half[s + k - 1] = EMPTY
      <3>1. s + k - 1 \in 1 .. Slots + 4 /\ s + k - 1 >= s + j
        <4> k \in j + 1 .. n
          OBVIOUS
        <4> HIDE DEF n
        <4> QED BY <1>0
      <3>2. s + k - 1 \in 1 .. Slots => l[s + k - 1] = EMPTY
        BY <1>1, <3>1 DEF EmptyFrom
      <3> QED BY <3>1, <3>2, Sizes DEF Half
    <2> HIDE DEF half
    <2> QED BY <2>1, <2>2 DEF Begun
  <1>6. m \in 1 .. Slots + 4 /\ (m > Slots \/ half[m] = EMPTY)
    <2>1. m \in 1 .. Slots + 4 /\ m >= s + j
      <3> HIDE DEF n
      <3> QED BY <1>0
    <2> HIDE DEF m
    <2>2. m \in 1 .. Slots => l[m] = EMPTY
      BY <1>1, <2>1 DEF EmptyFrom
    <2> QED BY <2>1, <2>2, Sizes DEF Half
  <1> HIDE DEF half, trunc
  <1>7. /\ half[s] # EMPTY /\ Reads(d, e)
        /\ j = Len(e) => d.bytes = At(a + i - 1, Part(vs, i, Takes(a, vs, i)), Takes(a, vs, i))
    BY <1>1, <1>5, EntryDecodes DEF e
  <1>8. Stops(Play(half)[m], m)
    BY <1>6, PlayStops
  <1>9. Over(d.bytes, <<>>) = d.bytes
    <2>1. Sane(d)
      BY <1>1, <1>3, DecodeTypes
    <2>2. Writable(d.bytes)
      BY <1>7, <2>1 DEF Sane, Reads
    <2> HIDE DEF d
    <2> QED BY <2>2, OverNothing DEF Writable
  <1>10. /\ Play(half)[s].bytes = d.bytes /\ Play(half)[s].next = m /\ Play(half)[s].ok
    <2>1. s \in 1 .. Slots + 4 /\ ~(s > Slots)
      BY <1>1, Sizes
    <2>2. Play(half)[s] =
            IF d.ok THEN [bytes |-> Over(d.bytes, Play(half)[s + d.read].bytes),
                          next |-> Play(half)[s + d.read].next,
                          ok |-> Play(half)[s + d.read].ok]
            ELSE [bytes |-> <<>>, next |-> s + d.read, ok |-> FALSE]
      BY <1>7, <2>1, PlayRound DEF Round
    <2>3. d.ok /\ s + d.read = m
      BY <1>7 DEF Reads
    <2> HIDE DEF d, m
    <2>4. Play(half)[s] = [bytes |-> Over(d.bytes, Play(half)[m].bytes),
                           next |-> Play(half)[m].next, ok |-> Play(half)[m].ok]
      BY <2>2, <2>3, Zenon
    <2>5. /\ Play(half)[s].bytes = Over(d.bytes, Play(half)[m].bytes)
          /\ Play(half)[s].next = Play(half)[m].next
          /\ Play(half)[s].ok = Play(half)[m].ok
      BY <2>4
    <2>6. Play(half)[m].bytes = <<>> /\ Play(half)[m].next = m /\ Play(half)[m].ok
      BY <1>8 DEF Stops
    <2> QED BY <1>9, <2>5, <2>6, Zenon
  <1>11. Extends(Play(half)[1], Play(trunc)[1], Play(half)[s])
    <2>1. 1 \in 1 .. s /\ s \in 1 .. Slots + 4
      BY <1>1, Sizes
    <2>2. Play(trunc)[1].ok /\ Play(trunc)[1].next = s
      BY <1>1 DEF Rounds, trunc
    <2> QED BY <1>3, <1>4, <2>1, <2>2, PlayExtends
  <1>12. /\ Rounds(l) = Play(half)[1] /\ Rounds(Truncated(l, s)) = Play(trunc)[1]
    BY DEF Rounds, half, trunc
  <1> HIDE DEF d, m
  <1>13. /\ Rounds(l).ok /\ Rounds(l).next = m
         /\ Rounds(l).bytes = Over(Rounds(Truncated(l, s)).bytes, d.bytes)
    BY <1>10, <1>11, <1>12, Zenon DEF Extends
  <1> QED BY <1>7, <1>13, Zenon DEF m, e

(* Copied one after the other, the parts of what is written are one copy.   *)
LEMMA OverGrows ==
    ASSUME NEW g \in Image, NEW a \in Nat, NEW vs, NEW i \in Nat \ {0}, NEW n \in Nat,
           a + i + n - 1 <= Logical
    PROVE  Over(Over(g, At(a, vs, i - 1)), At(a + i - 1, Part(vs, i, n), n)) =
             Over(g, At(a, vs, i + n - 1))
  <1> DEFINE f1 == At(a, vs, i - 1)
             f2 == At(a + i - 1, Part(vs, i, n), n)
             f3 == At(a, vs, i + n - 1)
  <1>1. /\ DOMAIN f1 = a .. a + i - 2 /\ DOMAIN f2 = a + i - 1 .. a + i + n - 2
        /\ DOMAIN f3 = a .. a + i + n - 2
    <2>1. /\ DOMAIN f1 = a .. a + (i - 1) - 1
          /\ DOMAIN f2 = a + i - 1 .. (a + i - 1) + n - 1
          /\ DOMAIN f3 = a .. a + (i + n - 1) - 1
      BY DEF At
    <2> HIDE DEF f1, f2, f3
    <2> QED BY <2>1
  <1>2. \A x \in DOMAIN f1 : f1[x] = vs[x - a + 1]
    BY DEF At
  <1>3. \A x \in DOMAIN f3 : f3[x] = vs[x - a + 1]
    BY DEF At
  <1>4. \A x \in DOMAIN f2 : f2[x] = vs[x - a + 1]
    <2> TAKE x \in DOMAIN f2
    <2> DEFINE k == x - (a + i - 1) + 1
    <2>1. f2[x] = Part(vs, i, n)[k]
      BY DEF At
    <2>2. k \in 1 .. n /\ i + k - 1 = x - a + 1
      BY <1>1
    <2>3. Part(vs, i, n)[k] = vs[i + k - 1]
      <3> HIDE DEF k
      <3> QED BY <2>2 DEF Part
    <2> HIDE DEF k, f2
    <2> QED BY <2>1, <2>2, <2>3
  <1>5. DOMAIN g = Address /\ DOMAIN f3 \subseteq Address
    BY <1>1, Sizes DEF Image, Address
  <1>6. DOMAIN f1 \cup DOMAIN f2 = DOMAIN f3
    <2> HIDE DEF f1, f2, f3
    <2> QED BY <1>1
  <1> HIDE DEF f1, f2, f3
  <1>7. Over(g, f3) = [x \in Address |-> IF x \in DOMAIN f3 THEN f3[x] ELSE g[x]]
    BY <1>5 DEF Over
  <1>8. DOMAIN f1 \cup Address = Address /\ DOMAIN f2 \cup Address = Address
    BY <1>5, <1>6
  <1>9. Over(g, f1) = [x \in Address |-> IF x \in DOMAIN f1 THEN f1[x] ELSE g[x]]
    BY <1>5, <1>8 DEF Over
  <1>10. Over(Over(g, f1), f2) =
           [x \in Address |-> IF x \in DOMAIN f2 THEN f2[x] ELSE Over(g, f1)[x]]
    BY <1>8, <1>9 DEF Over
  <1>11. \A x \in Address :
           (IF x \in DOMAIN f2 THEN f2[x] ELSE Over(g, f1)[x]) =
             (IF x \in DOMAIN f3 THEN f3[x] ELSE g[x])
    BY <1>2, <1>3, <1>4, <1>6, <1>9
  <1>12. Over(Over(g, f1), f2) = Over(g, f3)
    BY <1>7, <1>10, <1>11
  <1> QED BY <1>12 DEF f1, f2, f3

(* What is left to append when the first halfword of it has been.           *)
LEMMA LeftToAppend ==
    ASSUME NEW S, NEW e \in Seq(S), NEW rest \in Seq(S), NEW j \in Nat, j < Len(e)
    PROVE  LET left == SubSeq(e, j + 1, Len(e)) \o rest
           IN  /\ left # <<>> /\ Head(left) = e[j + 1]
               /\ Tail(left) = SubSeq(e, j + 2, Len(e)) \o rest
               /\ Len(left) = Len(e) - j + Len(rest)
  <1> DEFINE n    == Len(e)
             m    == Len(rest)
             u    == SubSeq(e, j + 1, n)
             v    == SubSeq(e, j + 2, n)
             left == u \o rest
  <1>1. n \in Nat /\ m \in Nat /\ \A k \in 1 .. n : e[k] \in S
    BY LenProperties, ElementOfSeq
  <1>0. j + 1 \in Int /\ j + 2 \in Int /\ j < n
    OBVIOUS
  <1> HIDE DEF n, m
  <1>2. u \in Seq(S) /\ Len(u) = n - j /\ \A k \in 1 .. n - j : u[k] = e[j + k]
    <2>1. \A k \in j + 1 .. n : e[k] \in S
      BY <1>0, <1>1
    <2>2. /\ u \in Seq(S) /\ Len(u) = IF j + 1 <= n THEN n - (j + 1) + 1 ELSE 0
          /\ \A k \in 1 .. n - (j + 1) + 1 : u[k] = e[(j + 1) + k - 1]
      BY <1>0, <1>1, <2>1, SubSeqProperties
    <2> HIDE DEF u
    <2>3. n - (j + 1) + 1 = n - j /\ \A k \in 1 .. n - j : (j + 1) + k - 1 = j + k
      BY <1>0, <1>1
    <2> QED BY <1>0, <1>1, <2>2, <2>3
  <1>3. v \in Seq(S) /\ Len(v) = n - j - 1 /\ \A k \in 1 .. n - j - 1 : v[k] = e[j + 1 + k]
    <2>1. \A k \in j + 2 .. n : e[k] \in S
      BY <1>0, <1>1
    <2>2. /\ v \in Seq(S) /\ Len(v) = IF j + 2 <= n THEN n - (j + 2) + 1 ELSE 0
          /\ \A k \in 1 .. n - (j + 2) + 1 : v[k] = e[(j + 2) + k - 1]
      BY <1>0, <1>1, <2>1, SubSeqProperties
    <2> HIDE DEF v
    <2>3. /\ n - (j + 2) + 1 = n - j - 1
          /\ \A k \in 1 .. n - j - 1 : (j + 2) + k - 1 = j + 1 + k
      BY <1>0, <1>1
    <2> QED BY <1>0, <1>1, <2>2, <2>3
  <1> HIDE DEF u, v
  <1>4. /\ left \in Seq(S) /\ Len(left) = n - j + m
        /\ \A k \in 1 .. n - j + m : left[k] = IF k <= n - j THEN u[k] ELSE rest[k - (n - j)]
    <2>1. /\ u \o rest \in Seq(S) /\ Len(u \o rest) = Len(u) + Len(rest)
          /\ \A k \in 1 .. Len(u) + Len(rest) :
               (u \o rest)[k] = IF k <= Len(u) THEN u[k] ELSE rest[k - Len(u)]
      BY <1>2, ConcatProperties
    <2>2. Len(u) = n - j /\ Len(rest) = m
      BY <1>2 DEF m
    <2> QED BY <2>1, <2>2, Zenon
  <1>5. /\ v \o rest \in Seq(S) /\ Len(v \o rest) = n - j - 1 + m
        /\ \A k \in 1 .. n - j - 1 + m :
             (v \o rest)[k] = IF k <= n - j - 1 THEN v[k] ELSE rest[k - (n - j - 1)]
    <2>1. /\ v \o rest \in Seq(S) /\ Len(v \o rest) = Len(v) + Len(rest)
          /\ \A k \in 1 .. Len(v) + Len(rest) :
               (v \o rest)[k] = IF k <= Len(v) THEN v[k] ELSE rest[k - Len(v)]
      BY <1>3, ConcatProperties
    <2>2. Len(v) = n - j - 1 /\ Len(rest) = m
      BY <1>3 DEF m
    <2> QED BY <2>1, <2>2, Zenon
  <1> HIDE DEF left
  <1>6. left # <<>>
    <2>1. Len(left) # 0
      BY <1>0, <1>1, <1>4
    <2>2. Len(<<>>) = 0
      OBVIOUS
    <2> QED BY <2>1, <2>2, Zenon
  <1>7. Head(left) = e[j + 1]
    <2>1. Head(left) = left[1]
      BY <1>4, <1>6
    <2>2. 1 \in 1 .. n - j /\ 1 \in 1 .. n - j + m /\ 1 <= n - j
      BY <1>0, <1>1
    <2> QED BY <1>2, <1>4, <2>1, <2>2
  <1>8. Tail(left) = v \o rest
    <2>1. /\ Tail(left) \in Seq(S) /\ Len(Tail(left)) = (n - j + m) - 1
          /\ \A k \in 1 .. Len(Tail(left)) : Tail(left)[k] = left[k + 1]
      <3>1. left \in Seq(S) /\ left # <<>> /\ Len(left) = n - j + m
        BY <1>4, <1>6
      <3>2. /\ Tail(left) \in Seq(S) /\ Len(Tail(left)) = Len(left) - 1
            /\ \A k \in 1 .. Len(Tail(left)) : Tail(left)[k] = left[k + 1]
        BY <3>1, HeadTailProperties
      <3> QED BY <3>1, <3>2, Zenon
    <2>2. Len(Tail(left)) = Len(v \o rest)
      BY <1>0, <1>1, <1>5, <2>1
    <2>3. ASSUME NEW k \in 1 .. Len(Tail(left)) PROVE Tail(left)[k] = (v \o rest)[k]
      <3>0. k \in 1 .. n - j - 1 + m
        BY <1>0, <1>1, <2>1
      <3>1. Tail(left)[k] = left[k + 1]
        BY <2>1
      <3>2. k + 1 \in 1 .. n - j + m
        BY <1>0, <1>1, <3>0
      <3>3. left[k + 1] = IF k + 1 <= n - j THEN u[k + 1] ELSE rest[(k + 1) - (n - j)]
        <4> DEFINE q == k + 1
        <4>1. q \in 1 .. n - j + m
          BY <3>2
        <4> HIDE DEF q
        <4>2. left[q] = IF q <= n - j THEN u[q] ELSE rest[q - (n - j)]
          BY <1>4, <4>1
        <4> QED BY <4>2 DEF q
      <3>4. (v \o rest)[k] = IF k <= n - j - 1 THEN v[k] ELSE rest[k - (n - j - 1)]
        BY <1>5, <3>0
      <3>5. CASE k <= n - j - 1
        <4>1. k + 1 \in 1 .. n - j /\ k \in 1 .. n - j - 1 /\ j + (k + 1) = j + 1 + k
          BY <1>0, <1>1, <3>0, <3>5
        <4>2. u[k + 1] = e[j + 1 + k] /\ v[k] = e[j + 1 + k]
          BY <1>2, <1>3, <4>1
        <4>3. k + 1 <= n - j
          BY <4>1
        <4> QED BY <3>1, <3>3, <3>4, <3>5, <4>2, <4>3, Zenon
      <3>6. CASE ~(k <= n - j - 1)
        <4>1. ~(k + 1 <= n - j) /\ (k + 1) - (n - j) = k - (n - j - 1)
          BY <1>0, <1>1, <3>0, <3>6
        <4> QED BY <3>1, <3>3, <3>4, <3>6, <4>1, Zenon
      <3> QED BY <3>5, <3>6
    <2> QED BY <1>5, <2>1, <2>2, <2>3, SeqEqual
  <1> QED BY <1>4, <1>6, <1>7, <1>8 DEF left, u, v, n, m

-----------------------------------------------------------------------------
\* The invariant: what the store holds at every call, as long as none has failed.

\* Slot s begins the entry at the i-th byte of vs, written to a, of which j halfwords
\* are there.  The rest is still to be appended, and what lies before s plays back to
\* the bytes from before the call with those of vs before i.
Writing(a, vs, i, s, j) ==
    /\ write_address = s + j
    /\ a + Len(vs) <= Logical
    /\ cache = Over(before, At(a, vs, Len(vs)))
    /\ j < Len(Entry(a, vs, i))
    /\ todo = SubSeq(Entry(a, vs, i), j + 1, Len(Entry(a, vs, i)))
                \o EntriesFrom(a, vs)[i + Takes(a, vs, i)]
    /\ \A k \in 1 .. j : log[s + k - 1] = Entry(a, vs, i)[k]
    /\ EmptyFrom(log, write_address)
    /\ Rounds(Truncated(log, s)).ok /\ Rounds(Truncated(log, s)).next = s
    /\ Over(Consolidated, Rounds(Truncated(log, s)).bytes) = Over(before, At(a, vs, i - 1))

\* Each byte of f is from before the call or as the call leaves it.
OldOrNew(f) == \A x \in DOMAIN f : f[x] \in {before[x], cache[x]}

\* The log has no fault, and is empty from where its playback ends.
LogKept == Rounds(log).ok /\ EmptyFrom(log, Rounds(log).next)

IdleKept ==
    /\ pc = "idle" => Rounds(log).next = write_address
    /\ pc \in {"idle", "wipe"} => cache = before /\ Stored = cache

AppendKept ==
    pc = "append" =>
        \E a \in Nat, vs \in Seq(Bytes) : \E i \in 1 .. Len(vs), s \in 1 .. Slots, j \in Nat :
            Writing(a, vs, i, s, j)

EraseKept ==
    /\ pc = "erase" /\ ~CutOff => OldOrNew(Stored)
    /\ pc \in {"eraseLog", "wipeLog"} /\ ~CutOff => OldOrNew(Rounds(log).bytes)

ConsolidateKept ==
    /\ pc \in {"eraseLog", "wipeLog", "unlock", "data"} => data = Zeros /\ hash = None
    /\ pc \in {"unlock", "data", "hash"} => log = EmptyLog
    /\ pc = "hash" => data = cache /\ hash = None

Kept == LogKept /\ IdleKept /\ AppendKept /\ EraseKept /\ ConsolidateKept

(* Stored and CutOff in terms of the playback. *)
LEMMA StoredIs ==
    /\ Stored = Over(Consolidated, Rounds(log).bytes)
    /\ CutOff <=> Rounds(log).next > write_address \/ Rounds(log).next > Slots + 1
  BY DEF Stored, CutOff, Playback, Rounds

(* The same after a step. *)
LEMMA StoredWillBe ==
    /\ Stored' = Over(Consolidated', Rounds(log').bytes)
    /\ CutOff' <=> Rounds(log').next > write_address' \/ Rounds(log').next > Slots + 1
  BY DEF Stored, CutOff, Playback, Rounds

(* No bytes, copied, change nothing. *)
LEMMA OverNone ==
    ASSUME NEW g \in Image, NEW f, DOMAIN f = {}
    PROVE  Over(g, f) = g
  BY DEF Over, Image

(* They hold at the start. *)
LEMMA KeptInit ==
    ASSUME Init
    PROVE  Kept
  <1>1. Stops(Rounds(log), 1)
    BY EmptyRounds DEF Init
  <1>2. Rounds(log).bytes = <<>> /\ Rounds(log).next = 1 /\ Rounds(log).ok
    BY <1>1 DEF Stops
  <1>3. Consolidated = Zeros
    BY EmptyTypes DEF Init, Consolidated
  <1>4. Stored = Zeros
    BY <1>2, <1>3, StoredIs, EmptyTypes, OverNone
  <1>5. LogKept
    BY <1>2 DEF LogKept, EmptyFrom, EmptyLog, Init
  <1> QED BY <1>2, <1>4, <1>5 DEF Init, Kept, IdleKept, AppendKept, EraseKept, ConsolidateKept

(* A write begins with its first entry. *)
LEMMA WriteKept ==
    ASSUME Types, Kept, ~failed, NEW n \in Lengths, NEW vs \in [1 .. n -> Value],
           NEW a \in Address, Write(a, vs)
    PROVE  failed' \/ Kept'
  <1> SUFFICES ASSUME ~failed' PROVE Kept'
    OBVIOUS
  <1>1. /\ pc = "idle" /\ pc' = "append" /\ todo' = Entries(a, vs)
        /\ cache' = Over(cache, At(a, vs, Len(vs))) /\ before' = cache
        /\ a + Len(vs) <= Logical
        /\ data' = data /\ hash' = hash /\ log' = log /\ write_address' = write_address
    BY DEF Write, store
  <1>2. vs \in Seq(Bytes) /\ Len(vs) = n /\ n \in Nat \ {0}
    BY WriteTypes
  <1>3. a \in Nat /\ 1 \in 1 .. Len(vs) /\ 1 \in 1 .. Len(vs) + 1 /\ 1 <= Len(vs)
    BY <1>2, Sizes DEF Address
  <1>4. /\ Rounds(log).ok /\ Rounds(log).next = write_address
        /\ EmptyFrom(log, write_address) /\ Stored = cache
    BY <1>1 DEF Kept, LogKept, IdleKept
  <1>5. write_address \in 1 .. Slots /\ write_address \in Nat
    BY <1>1, Sizes DEF Types, CacheTypes, SlotLeft
  <1>14. PICK s \in 1 .. Slots : s = write_address
    BY <1>5
  <1>6. Truncated(log, s) = log
    BY <1>14, <1>4, <1>5, TruncatedSame DEF Types, StoreTypes
  <1>7. /\ Entry(a, vs, 1) \in Seq(Halfword) /\ Len(Entry(a, vs, 1)) \in 1 .. 4
        /\ Entries(a, vs) = Entry(a, vs, 1) \o EntriesFrom(a, vs)[1 + Takes(a, vs, 1)]
    BY <1>2, <1>3, EntryTypes, EntriesTypes DEF Entries
  <1>8. todo' = SubSeq(Entry(a, vs, 1), 0 + 1, Len(Entry(a, vs, 1)))
                  \o EntriesFrom(a, vs)[1 + Takes(a, vs, 1)]
    <2>1. SubSeq(Entry(a, vs, 1), 1, Len(Entry(a, vs, 1))) = Entry(a, vs, 1)
      BY <1>7, SubSeqFull
    <2>2. 0 + 1 = 1
      OBVIOUS
    <2> QED BY <1>1, <1>7, <2>1, <2>2, Zenon
  <1>9. Over(Consolidated', Rounds(Truncated(log', s)).bytes) =
          Over(before', At(a, vs, 1 - 1))
    <2>1. Consolidated' = Consolidated
      BY <1>1 DEF Consolidated
    <2>2. Over(cache, At(a, vs, 1 - 1)) = cache
      <3>1. DOMAIN At(a, vs, 1 - 1) = {}
        BY <1>3 DEF At
      <3> QED BY <3>1, OverNone DEF Types, CacheTypes
    <2>3. Stored = Over(Consolidated, Rounds(log).bytes)
      BY StoredIs
    <2> QED BY <1>1, <1>4, <1>6, <2>1, <2>2, <2>3, Zenon
  <1>10. Writing(a, vs, 1, s, 0)'
    <2>1. write_address' = s + 0 /\ 0 < Len(Entry(a, vs, 1))
      <3>1. write_address' = s + 0
        BY <1>1, <1>14, Sizes
      <3>2. 0 < Len(Entry(a, vs, 1))
        <4>1. \A m \in 1 .. 4 : 0 < m
          OBVIOUS
        <4> QED BY <1>7, <4>1, Zenon
      <3> QED BY <3>1, <3>2
    <2>2. \A k \in 1 .. 0 : log'[s + k - 1] = Entry(a, vs, 1)[k]
      OBVIOUS
    <2>3. /\ EmptyFrom(log', write_address')
          /\ Rounds(Truncated(log', s)).ok
          /\ Rounds(Truncated(log', s)).next = s
      BY <1>1, <1>4, <1>6, <1>14
    <2>4. cache' = Over(before', At(a, vs, Len(vs)))
      BY <1>1
    <2> QED BY <1>1, <1>8, <1>9, <2>1, <2>2, <2>3, <2>4, Zenon DEF Writing
  <1>11. AppendKept'
    <2>1. 0 \in Nat
      OBVIOUS
    <2> QED BY <1>2, <1>3, <1>10, <2>1, Zenon DEF AppendKept
  <1>12. LogKept'
    BY <1>1 DEF Kept, LogKept
  <1>13. IdleKept' /\ EraseKept' /\ ConsolidateKept'
    BY <1>1 DEF IdleKept, EraseKept, ConsolidateKept
  <1> QED BY <1>11, <1>12, <1>13 DEF Kept

(* Of what is written, the first bytes are new and the others old.          *)
LEMMA PartlyWritten ==
    ASSUME NEW g \in Image, NEW a \in Nat, NEW vs, NEW m \in Nat, NEW n \in Nat, m <= n,
           a + n <= Logical
    PROVE  /\ DOMAIN Over(g, At(a, vs, m)) = Address
           /\ \A x \in Address :
                Over(g, At(a, vs, m))[x] \in {g[x], Over(g, At(a, vs, n))[x]}
  <1> DEFINE f == At(a, vs, m)
             h == At(a, vs, n)
  <1>1. DOMAIN f = a .. a + m - 1 /\ DOMAIN h = a .. a + n - 1
    BY DEF At
  <1>2. \A x \in DOMAIN f : f[x] = vs[x - a + 1]
    BY DEF At
  <1>3. \A x \in DOMAIN h : h[x] = vs[x - a + 1]
    BY DEF At
  <1> HIDE DEF f, h
  <1>4. DOMAIN f \subseteq DOMAIN h /\ DOMAIN h \subseteq Address
    BY <1>1, Sizes DEF Address
  <1>5. DOMAIN g = Address
    BY DEF Image
  <1>6. /\ Over(g, f) = [x \in Address |-> IF x \in DOMAIN f THEN f[x] ELSE g[x]]
        /\ Over(g, h) = [x \in Address |-> IF x \in DOMAIN h THEN h[x] ELSE g[x]]
    <2>1. DOMAIN f \cup DOMAIN g = Address /\ DOMAIN h \cup DOMAIN g = Address
      BY <1>4, <1>5
    <2> QED BY <2>1 DEF Over
  <1>7. \A x \in Address : Over(g, f)[x] \in {g[x], Over(g, h)[x]}
    BY <1>2, <1>3, <1>4, <1>6
  <1> QED BY <1>6, <1>7 DEF f, h

\* What wear_leveling_append_raw leaves behind halfword j of the entry at slot s, when
\* it does not fail
AppendedRaw(s, j) ==
    /\ log' = [k \in 1 .. Slots |-> IF k = s + j THEN Head(todo) ELSE log[k]]
    /\ data' = data /\ hash' = hash
    /\ write_address' = s + (j + 1)
    /\ \/ /\ pc' = "erase" /\ s + j = Slots
          /\ cache' = cache /\ before' = before
       \/ /\ pc' = "append" /\ s + j < Slots /\ Len(todo) > 1 /\ todo' = Tail(todo)
          /\ cache' = cache /\ before' = before
       \/ pc' = "idle" /\ Len(todo) = 1 /\ cache' = cache /\ before' = cache

(* That is what it leaves. *)
LEMMA AppendRawLeaves ==
    ASSUME Types, AppendRaw, ~failed, ~failed', NEW s \in 1 .. Slots, NEW j \in Nat,
           write_address = s + j
    PROVE  AppendedRaw(s, j)
  <1>1. pc = "append" /\ write_address <= Slots
    BY DEF AppendRaw, Types, SlotLeft
  <1>2. NextAddress = s + (j + 1)
    BY <1>1, Sizes DEF NextAddress
  <1>3. ~Return(FALSE, cache, write_address)
    BY DEF Return
  <1>4. /\ log' = [k \in 1 .. Slots |-> IF k = s + j THEN Head(todo) ELSE log[k]]
        /\ data' = data /\ hash' = hash
    BY <1>3 DEF AppendRaw
  <1>5. \/ /\ write_address >= Slots /\ pc' = "erase" /\ write_address' = NextAddress
           /\ cache' = cache /\ before' = before
        \/ /\ write_address < Slots /\ Len(todo) > 1 /\ todo' = Tail(todo)
           /\ write_address' = NextAddress /\ pc' = pc /\ cache' = cache /\ before' = before
        \/ /\ Len(todo) = 1 /\ Return(TRUE, cache, NextAddress)
    BY <1>3 DEF AppendRaw
  <1>6. Return(TRUE, cache, NextAddress) =>
          pc' = "idle" /\ cache' = cache /\ before' = cache /\ write_address' = NextAddress
    BY DEF Return
  <1>7. (s + j >= Slots /\ s + j <= Slots => s + j = Slots)
    BY Sizes
  <1> QED BY <1>1, <1>2, <1>4, <1>5, <1>6, <1>7 DEF AppendedRaw

\* Facts of Writing that a step of it needs
Entering(a, vs, i, s, j) ==
    /\ a \in Nat /\ vs \in Seq(Bytes) /\ i \in 1 .. Len(vs) /\ s \in 1 .. Slots /\ j \in Nat
    /\ Writing(a, vs, i, s, j)

(* The entry in question, and what follows it. *)
LEMMA EnteringTypes ==
    ASSUME NEW a, NEW vs, NEW i, NEW s, NEW j, Entering(a, vs, i, s, j)
    PROVE  /\ Entry(a, vs, i) \in Seq(Halfword) /\ Len(Entry(a, vs, i)) \in 1 .. 4
           /\ i + Takes(a, vs, i) \in i + 1 .. Len(vs) + 1 /\ Takes(a, vs, i) \in 1 .. 5
           /\ EntriesFrom(a, vs)[i + Takes(a, vs, i)] \in Seq(Halfword)
           /\ Len(vs) \in Nat
  <1>1. a \in Nat /\ vs \in Seq(Bytes) /\ i \in 1 .. Len(vs) /\ Len(vs) \in Nat
    BY LenProperties DEF Entering
  <1>2. Takes(a, vs, i) \in 1 .. 5 /\ i + Takes(a, vs, i) \in i + 1 .. Len(vs) + 1
    BY <1>1, TakesRange
  <1>3. i + Takes(a, vs, i) \in 1 .. Len(vs) + 1
    BY <1>1, <1>2
  <1> QED BY <1>1, <1>2, <1>3, EntryTypes, EntriesTypes

(* What is appended next, and what is left then. *)
LEMMA EnteringLeft ==
    ASSUME NEW a, NEW vs, NEW i, NEW s, NEW j, Entering(a, vs, i, s, j)
    PROVE  /\ Head(todo) = Entry(a, vs, i)[j + 1]
           /\ Tail(todo) = SubSeq(Entry(a, vs, i), j + 2, Len(Entry(a, vs, i)))
                             \o EntriesFrom(a, vs)[i + Takes(a, vs, i)]
           /\ Len(todo) = Len(Entry(a, vs, i)) - j
                            + Len(EntriesFrom(a, vs)[i + Takes(a, vs, i)])
  <1> DEFINE e    == Entry(a, vs, i)
             rest == EntriesFrom(a, vs)[i + Takes(a, vs, i)]
  <1>1. e \in Seq(Halfword) /\ rest \in Seq(Halfword)
    BY EnteringTypes
  <1>2. j \in Nat /\ j < Len(e) /\ todo = SubSeq(e, j + 1, Len(e)) \o rest
    BY DEF Entering, Writing
  <1> HIDE DEF e, rest
  <1>3. /\ Head(todo) = e[j + 1]
        /\ Tail(todo) = SubSeq(e, j + 2, Len(e)) \o rest
        /\ Len(todo) = Len(e) - j + Len(rest)
    BY <1>1, <1>2, LeftToAppend
  <1> QED BY <1>3 DEF e, rest

(* With the next halfword of the entry, the log is one with more of it.     *)
LEMMA EnteringAppends ==
    ASSUME Types, NEW a, NEW vs, NEW i, NEW s, NEW j, Entering(a, vs, i, s, j),
           s + j <= Slots, AppendedRaw(s, j)
    PROVE  /\ Appended(log', s, a, vs, i, j + 1)
           /\ Truncated(log', s) = Truncated(log, s)
           /\ EmptyFrom(log', s + (j + 1))
           /\ log' \in [1 .. Slots -> Halfword]
  <1> DEFINE e == Entry(a, vs, i)
  <1>1. /\ a \in Nat /\ vs \in Seq(Bytes) /\ i \in 1 .. Len(vs) /\ s \in 1 .. Slots
        /\ j \in Nat /\ a + Len(vs) <= Logical /\ j < Len(e)
        /\ \A k \in 1 .. j : log[s + k - 1] = e[k]
        /\ EmptyFrom(log, s + j)
        /\ Rounds(Truncated(log, s)).ok /\ Rounds(Truncated(log, s)).next = s
    <2>1. write_address = s + j
      BY DEF Entering, Writing
    <2> QED BY <2>1, Zenon DEF Entering, Writing
  <1>2. Len(e) \in 1 .. 4 /\ e \in Seq(Halfword)
    BY EnteringTypes
  <1>3. e[j + 1] \in Halfword
    <2>1. j + 1 \in 1 .. Len(e)
      BY <1>1, <1>2
    <2> QED BY <1>2, <2>1, ElementOfSeq
  <1>4. Head(todo) = e[j + 1]
    BY EnteringLeft
  <1> HIDE DEF e
  <1>5. log' = [k \in 1 .. Slots |-> IF k = s + j THEN e[j + 1] ELSE log[k]]
    BY <1>4 DEF AppendedRaw
  <1>6. log' \in [1 .. Slots -> Halfword]
    BY <1>3, <1>5 DEF Types, StoreTypes
  <1>7. Truncated(log', s) = Truncated(log, s)
    <2>1. \A k \in 1 .. Slots :
            (IF k < s THEN log'[k] ELSE EMPTY) = (IF k < s THEN log[k] ELSE EMPTY)
      BY <1>1, <1>5, Sizes
    <2> QED BY <2>1 DEF Truncated
  <1>8. EmptyFrom(log', s + (j + 1))
    <2>1. ASSUME NEW k \in 1 .. Slots, k >= s + (j + 1)
          PROVE  log'[k] = EMPTY
      <3>1. k # s + j /\ k >= s + j
        BY <1>1, <2>1, Sizes
      <3>2. log[k] = EMPTY
        BY <1>1, <3>1 DEF EmptyFrom
      <3> QED BY <1>5, <3>1, <3>2
    <2> QED BY <2>1 DEF EmptyFrom
  <1>9. ASSUME NEW k \in 1 .. j + 1
        PROVE  log'[s + k - 1] = e[k]
    <2> DEFINE q == s + k - 1
    <2>1. q \in 1 .. Slots /\ (k = j + 1 <=> q = s + j) /\ (k # j + 1 => k \in 1 .. j)
      BY <1>1, Sizes
    <2>2. k \in 1 .. j => log[q] = e[k]
      BY <1>1
    <2> HIDE DEF q
    <2>3. log'[q] = e[k]
      BY <1>5, <2>1, <2>2
    <2> QED BY <2>3 DEF q
  <1>10. j + 1 \in 1 .. Len(e) /\ s + (j + 1) <= Slots + 1
    <2> DEFINE n == Len(e)
    <2>1. n \in 1 .. 4 /\ j < n
      BY <1>1, <1>2
    <2> HIDE DEF n
    <2>2. j + 1 \in 1 .. n /\ s + (j + 1) <= Slots + 1
      BY <1>1, <2>1, Sizes
    <2> QED BY <2>2 DEF n
  <1>11. Appended(log', s, a, vs, i, j + 1)
    BY <1>1, <1>6, <1>7, <1>8, <1>9, <1>10, Zenon DEF Appended, e
  <1> QED BY <1>6, <1>7, <1>8, <1>11

(* While the entry is not complete, the log is cut off: its playback ends   *)
(* behind the next slot.                                                    *)
LEMMA EntryCutOff ==
    ASSUME Types, NEW a, NEW vs, NEW i, NEW s, NEW j, Entering(a, vs, i, s, j),
           s + j <= Slots, AppendedRaw(s, j), j + 1 < Len(Entry(a, vs, i))
    PROVE  Kept'
  <1> DEFINE e    == Entry(a, vs, i)
             n    == Len(e)
             rest == EntriesFrom(a, vs)[i + Takes(a, vs, i)]
  <1>1. /\ a \in Nat /\ vs \in Seq(Bytes) /\ i \in 1 .. Len(vs) /\ s \in 1 .. Slots
        /\ j \in Nat /\ n \in 1 .. 4 /\ j + 1 < n
    BY EnteringTypes DEF Entering
  <1>2. /\ Appended(log', s, a, vs, i, j + 1)
        /\ Truncated(log', s) = Truncated(log, s) /\ EmptyFrom(log', s + (j + 1))
    BY EnteringAppends
  <1>3. /\ Rounds(log').ok /\ Rounds(log').next = s + n
    BY <1>2, EntryPlayed
  <1>4. /\ Tail(todo) = SubSeq(e, j + 2, n) \o rest
        /\ Len(todo) = n - j + Len(rest) /\ Len(rest) \in Nat
    <2>1. Len(rest) \in Nat
      BY EnteringTypes, LenProperties
    <2> QED BY <2>1, EnteringLeft
  <1>5. write_address' = s + (j + 1) /\ data' = data /\ hash' = hash
    BY DEF AppendedRaw
  <1>6. LogKept'
    <2>1. EmptyFrom(log', s + n)
      <3> HIDE DEF n
      <3> QED BY <1>1, <1>2, Sizes DEF EmptyFrom
    <2> HIDE DEF n
    <2> QED BY <1>3, <2>1 DEF LogKept
  <1> HIDE DEF n, rest
  <1>7. CutOff'
    <2>1. s + n > s + (j + 1)
      BY <1>1, Sizes
    <2> QED BY <1>3, <1>5, <2>1, StoredWillBe, Zenon
  <1>8. CASE pc' = "erase"
    BY <1>6, <1>7, <1>8 DEF Kept, IdleKept, AppendKept, EraseKept, ConsolidateKept
  <1>9. CASE /\ pc' = "append" /\ todo' = Tail(todo) /\ cache' = cache /\ before' = before
    <2>1. /\ a + Len(vs) <= Logical /\ cache = Over(before, At(a, vs, Len(vs)))
          /\ Rounds(Truncated(log, s)).ok /\ Rounds(Truncated(log, s)).next = s
          /\ Over(Consolidated, Rounds(Truncated(log, s)).bytes) = Over(before, At(a, vs, i - 1))
      BY Zenon DEF Entering, Writing
    <2>2. Consolidated' = Consolidated
      BY <1>5 DEF Consolidated
    <2>3. \A k \in 1 .. j + 1 : log'[s + k - 1] = e[k]
      BY <1>2, Zenon DEF Appended, e
    <2>4. todo' = SubSeq(e, (j + 1) + 1, n) \o rest
      <3>1. (j + 1) + 1 = j + 2
        BY <1>1
      <3> QED BY <1>4, <1>9, <3>1, Zenon
    <2>5. Writing(a, vs, i, s, j + 1)'
      <3>1. /\ a + Len(vs) <= Logical /\ cache' = Over(before', At(a, vs, Len(vs)))
            /\ Rounds(Truncated(log', s)).ok /\ Rounds(Truncated(log', s)).next = s
            /\ Over(Consolidated', Rounds(Truncated(log', s)).bytes) =
                 Over(before', At(a, vs, i - 1))
        BY <1>2, <1>9, <2>1, <2>2, Zenon
      <3>2. EmptyFrom(log', write_address')
        BY <1>2, <1>5, Zenon
      <3> QED BY <1>1, <1>5, <2>3, <2>4, <3>1, <3>2, Zenon DEF Writing, e, n, rest
    <2>6. AppendKept'
      <3>1. j + 1 \in Nat
        BY <1>1
      <3> QED BY <1>1, <2>5, <3>1, Zenon DEF AppendKept
    <2> QED BY <1>6, <1>9, <2>6 DEF Kept, IdleKept, EraseKept, ConsolidateKept
  <1>10. ~(Len(todo) = 1)
    BY <1>1, <1>4
  <1> QED BY <1>8, <1>9, <1>10 DEF AppendedRaw

(* When it is complete, its bytes are read back with those before it, and   *)
(* what is left to append begins the next entry, if there is one.           *)
LEMMA EntryComplete ==
    ASSUME Types, NEW a, NEW vs, NEW i, NEW s, NEW j, Entering(a, vs, i, s, j),
           s + j <= Slots, AppendedRaw(s, j), j + 1 = Len(Entry(a, vs, i))
    PROVE  Kept'
  <1> DEFINE e    == Entry(a, vs, i)
             n    == Takes(a, vs, i)
             next == i + n
             rest == EntriesFrom(a, vs)[next]
             w    == s + (j + 1)
  <1>1. /\ a \in Nat /\ vs \in Seq(Bytes) /\ i \in 1 .. Len(vs) /\ s \in 1 .. Slots
        /\ j \in Nat /\ e \in Seq(Halfword) /\ Len(e) \in 1 .. 4
        /\ n \in 1 .. 5 /\ next \in i + 1 .. Len(vs) + 1
        /\ Len(vs) \in Nat /\ rest \in Seq(Halfword)
    BY EnteringTypes DEF Entering
  <1>2. /\ a + Len(vs) <= Logical /\ cache = Over(before, At(a, vs, Len(vs)))
        /\ Over(Consolidated, Rounds(Truncated(log, s)).bytes) = Over(before, At(a, vs, i - 1))
    BY Zenon DEF Entering, Writing
  <1>3. /\ Appended(log', s, a, vs, i, j + 1)
        /\ Truncated(log', s) = Truncated(log, s) /\ EmptyFrom(log', w)
        /\ log' \in [1 .. Slots -> Halfword]
    BY EnteringAppends
  <1>4. write_address' = w /\ Consolidated' = Consolidated
    BY DEF AppendedRaw, Consolidated
  <1>5. /\ Rounds(log').ok /\ Rounds(log').next = w
        /\ Rounds(log').bytes =
             Over(Rounds(Truncated(log, s)).bytes, At(a + i - 1, Part(vs, i, n), n))
    <2>1. /\ Rounds(log').ok /\ Rounds(log').next = s + Len(e)
          /\ j + 1 = Len(e) =>
               Rounds(log').bytes =
                 Over(Rounds(Truncated(log', s)).bytes, At(a + i - 1, Part(vs, i, n), n))
      BY <1>3, EntryPlayed
    <2> QED BY <1>3, <2>1, Zenon
  <1>6. /\ Tail(todo) = rest /\ Len(todo) = 1 + Len(rest) /\ Len(rest) \in Nat
    <2>1. SubSeq(e, j + 2, Len(e)) = <<>>
      <3>1. j + 2 \in Int /\ Len(e) \in Int /\ Len(e) < j + 2
        BY <1>1
      <3> QED BY <3>1, SubSeqEmpty
    <2>2. /\ Tail(todo) = SubSeq(e, j + 2, Len(e)) \o rest
          /\ Len(todo) = Len(e) - j + Len(rest)
      BY EnteringLeft
    <2>3. <<>> \o rest = rest /\ Len(rest) \in Nat
      BY <1>1, ConcatEmptySeq, LenProperties
    <2>4. Len(e) - j = 1
      BY <1>1
    <2> QED BY <2>1, <2>2, <2>3, <2>4, Zenon
  <1>7. rest = <<>> <=> next = Len(vs) + 1
    <2>1. next \in 1 .. Len(vs) + 1
      BY <1>1
    <2>2. (next > Len(vs) => rest = <<>>) /\ (next <= Len(vs) => rest # <<>>)
      BY <1>1, <2>1, EntriesTypes
    <2>3. next > Len(vs) \/ next <= Len(vs)
      BY <1>1
    <2>4. next > Len(vs) <=> next = Len(vs) + 1
      BY <1>1
    <2> QED BY <2>2, <2>3, <2>4, Zenon
  <1>8. before \in Image
    BY DEF Types, CacheTypes
  <1> HIDE DEF e, n, rest
  <1>9. Over(Consolidated, Rounds(log').bytes) = Over(before, At(a, vs, next - 1))
    <2>1. Over(Consolidated, Rounds(log').bytes) =
            Over(Over(before, At(a, vs, i - 1)), At(a + i - 1, Part(vs, i, n), n))
      <3> DEFINE f == Rounds(Truncated(log, s)).bytes
                 g == At(a + i - 1, Part(vs, i, n), n)
      <3>1. Over(Consolidated, Over(f, g)) = Over(Over(Consolidated, f), g)
        BY OverAssociative
      <3> QED BY <1>2, <1>5, <3>1, Zenon
    <2>2. i \in Nat \ {0} /\ n \in Nat /\ a + i + n - 1 <= Logical
      BY <1>1, <1>2, Sizes
    <2>3. Over(Over(before, At(a, vs, i - 1)), At(a + i - 1, Part(vs, i, n), n)) =
            Over(before, At(a, vs, i + n - 1))
      BY <1>1, <1>8, <2>2, OverGrows
    <2>4. i + n - 1 = next - 1
      BY <1>1
    <2> QED BY <2>1, <2>3, <2>4, Zenon
  <1>10. Stored' = Over(before, At(a, vs, next - 1))
    BY <1>4, <1>9, StoredWillBe, Zenon
  <1> HIDE DEF next
  <1>11. next - 1 \in Nat /\ next - 1 <= Len(vs)
    BY <1>1
  <1>12. LogKept'
    BY <1>3, <1>5 DEF LogKept
  <1>13. CASE pc' = "erase" /\ cache' = cache /\ before' = before
    <2>1. /\ DOMAIN Stored' = Address
          /\ \A x \in Address : Stored'[x] \in {before[x], cache[x]}
      BY <1>1, <1>2, <1>8, <1>10, <1>11, PartlyWritten
    <2>2. EraseKept'
      BY <1>13, <2>1 DEF EraseKept, OldOrNew
    <2> QED BY <1>12, <1>13, <2>2 DEF Kept, IdleKept, AppendKept, ConsolidateKept
  <1>14. CASE /\ pc' = "append" /\ s + j < Slots /\ Len(todo) > 1 /\ todo' = Tail(todo)
              /\ cache' = cache /\ before' = before
    <2>1. next \in 1 .. Len(vs)
      <3>1. Len(rest) # 0
        BY <1>6, <1>14
      <3>2. Len(<<>>) = 0
        OBVIOUS
      <3>3. rest # <<>>
        BY <3>1, <3>2, Zenon
      <3>4. next # Len(vs) + 1
        BY <1>7, <3>3
      <3>5. /\ i \in 1 .. Len(vs) /\ next \in i + 1 .. Len(vs) + 1 /\ Len(vs) \in Nat
        BY <1>1
      <3> DEFINE l == Len(vs)
      <3> HIDE DEF l
      <3>6. next \in 1 .. l
        BY <3>4, <3>5 DEF l
      <3> QED BY <3>6 DEF l
    <2> DEFINE f == Entry(a, vs, next)
    <2>2. /\ f \in Seq(Halfword) /\ Len(f) \in 1 .. 4
          /\ rest = f \o EntriesFrom(a, vs)[next + Takes(a, vs, next)]
      <3>1. next \in 1 .. Len(vs) + 1 /\ next <= Len(vs)
        BY <1>1, <2>1
      <3> QED BY <1>1, <2>1, <3>1, EntryTypes, EntriesTypes DEF rest
    <2>3. todo' = SubSeq(f, 0 + 1, Len(f)) \o EntriesFrom(a, vs)[next + Takes(a, vs, next)]
      <3>1. SubSeq(f, 1, Len(f)) = f
        BY <2>2, SubSeqFull
      <3>2. 0 + 1 = 1
        OBVIOUS
      <3> QED BY <1>6, <1>14, <2>2, <3>1, <3>2, Zenon
    <2>4. w \in 1 .. Slots /\ w \in Nat
      BY <1>1, <1>14, Sizes
    <2>5. Truncated(log', w) = log'
      BY <1>3, <2>4, TruncatedSame
    <2>6. Writing(a, vs, next, w, 0)'
      <3>1. write_address' = w + 0
        BY <1>4, <2>4
      <3>2. 0 < Len(f)
        <4>1. \A m \in 1 .. 4 : 0 < m
          OBVIOUS
        <4> QED BY <2>2, <4>1, Zenon
      <3>3. \A k \in 1 .. 0 : log'[w + k - 1] = f[k]
        OBVIOUS
      <3> HIDE DEF w
      <3>4. /\ EmptyFrom(log', write_address')
            /\ Rounds(Truncated(log', w)).ok /\ Rounds(Truncated(log', w)).next = w
            /\ Over(Consolidated', Rounds(Truncated(log', w)).bytes) =
                 Over(before', At(a, vs, next - 1))
        BY <1>3, <1>4, <1>5, <1>9, <1>14, <2>5, Zenon
      <3>5. a + Len(vs) <= Logical /\ cache' = Over(before', At(a, vs, Len(vs)))
        BY <1>2, <1>14, Zenon
      <3> QED BY <2>3, <3>1, <3>2, <3>3, <3>4, <3>5, Zenon DEF Writing
    <2>7. AppendKept'
      <3>1. 0 \in Nat
        OBVIOUS
      <3> HIDE DEF w
      <3> QED BY <1>1, <2>1, <2>4, <2>6, <3>1, Zenon DEF AppendKept
    <2> QED BY <1>12, <1>14, <2>7 DEF Kept, IdleKept, EraseKept, ConsolidateKept
  <1>15. CASE pc' = "idle" /\ Len(todo) = 1 /\ cache' = cache /\ before' = cache
    <2>1. rest = <<>>
      <3>1. Len(rest) = 0
        <4> DEFINE l == Len(rest)
        <4>1. 1 = 1 + l /\ l \in Nat
          BY <1>6, <1>15, Zenon
        <4> HIDE DEF l
        <4>2. l = 0
          BY <4>1
        <4> QED BY <4>2 DEF l
      <3> QED BY <1>1, <3>1, EmptySeq
    <2>2. next - 1 = Len(vs)
      BY <1>1, <1>7, <2>1
    <2>3. Stored' = cache'
      BY <1>2, <1>10, <1>15, <2>2, Zenon
    <2>4. IdleKept'
      BY <1>4, <1>5, <1>15, <2>3 DEF IdleKept
    <2> QED BY <1>12, <1>15, <2>4 DEF Kept, AppendKept, EraseKept, ConsolidateKept
  <1> QED BY <1>13, <1>14, <1>15 DEF AppendedRaw

(* So appending keeps the invariant. *)
LEMMA AppendRawKept ==
    ASSUME Types, Kept, ~failed, AppendRaw
    PROVE  failed' \/ Kept'
  <1> SUFFICES ASSUME ~failed' PROVE Kept'
    OBVIOUS
  <1>1. pc = "append" /\ write_address <= Slots
    BY DEF AppendRaw, Types, SlotLeft
  <1>2. PICK a \in Nat, vs \in Seq(Bytes) : \E i \in 1 .. Len(vs), s \in 1 .. Slots, j \in Nat :
            Writing(a, vs, i, s, j)
    BY <1>1 DEF Kept, AppendKept
  <1>3. PICK i \in 1 .. Len(vs), s \in 1 .. Slots, j \in Nat : Writing(a, vs, i, s, j)
    BY <1>2
  <1>4. Entering(a, vs, i, s, j) /\ write_address = s + j /\ j < Len(Entry(a, vs, i))
    BY <1>3, Zenon DEF Entering, Writing
  <1>5. AppendedRaw(s, j) /\ s + j <= Slots
    BY <1>1, <1>4, AppendRawLeaves
  <1>6. j + 1 < Len(Entry(a, vs, i)) \/ j + 1 = Len(Entry(a, vs, i))
    <2> DEFINE n == Len(Entry(a, vs, i))
    <2>1. n \in 1 .. 4 /\ j < n
      BY <1>4, EnteringTypes
    <2> HIDE DEF n
    <2>2. j + 1 < n \/ j + 1 = n
      BY <2>1
    <2> QED BY <2>2 DEF n
  <1> QED BY <1>4, <1>5, <1>6, EntryCutOff, EntryComplete

(* Erasing, in a store of one sector, first takes the data, and what the log *)
(* has is from before the call or as the call leaves it; then it takes the  *)
(* log at once.                                                             *)
LEMMA EraseDataKept ==
    ASSUME Earlier = 0, Types, Kept, EraseData
    PROVE  Kept'
  <1>1. /\ pc \in {"erase", "wipe"} /\ pc' = IF pc = "wipe" THEN "wipeLog" ELSE "eraseLog"
        /\ data' = Zeros /\ hash' = None
        /\ cache' = cache /\ before' = before /\ write_address' = write_address
    BY DEF EraseData
  <1>2. log' = log
    <2>1. log' = [k \in 1 .. Slots |-> IF k \in 1 .. 0 THEN EMPTY ELSE log[k]]
      BY DEF EraseData, Erased
    <2>2. \A k \in 1 .. Slots : k \notin 1 .. 0
      BY Sizes
    <2> QED BY <2>1, <2>2 DEF Types, StoreTypes
  <1>3. CutOff' <=> CutOff
    BY <1>1, <1>2, StoredIs, StoredWillBe
  <1>4. ASSUME ~CutOff PROVE OldOrNew(Rounds(log).bytes)
    <2>1. Writable(Rounds(log).bytes)
      BY RoundsTypes DEF Types, StoreTypes, PlayOf
    <2>2. Consolidated \in Image
      BY EmptyTypes DEF Consolidated, Types, StoreTypes
    <2>3. Stored = Over(Consolidated, Rounds(log).bytes)
      BY StoredIs
    <2>4. /\ DOMAIN Rounds(log).bytes \subseteq DOMAIN Stored
          /\ \A x \in DOMAIN Rounds(log).bytes : Stored[x] = Rounds(log).bytes[x]
      BY <2>1, <2>2, <2>3 DEF Over, Writable, Image
    <2>5. OldOrNew(Stored)
      <3>1. CASE pc = "erase"
        BY <1>4, <3>1 DEF Kept, EraseKept
      <3>2. CASE pc = "wipe"
        <4>1. cache = before /\ Stored = cache
          BY <3>2 DEF Kept, IdleKept
        <4> QED BY <4>1 DEF OldOrNew
      <3> QED BY <1>1, <3>1, <3>2
    <2> QED BY <2>4, <2>5 DEF OldOrNew
  <1>5. EraseKept'
    BY <1>1, <1>2, <1>3, <1>4 DEF EraseKept, OldOrNew
  <1>6. LogKept'
    BY <1>2 DEF Kept, LogKept
  <1>7. IdleKept' /\ AppendKept' /\ ConsolidateKept'
    BY <1>1 DEF IdleKept, AppendKept, ConsolidateKept
  <1> QED BY <1>5, <1>6, <1>7 DEF Kept

(* The store without data and log. *)
LEMMA EmptyStored ==
    ASSUME data' \in Image, hash' = None \/ hash' = data', log' = EmptyLog
    PROVE  /\ LogKept' /\ Rounds(log').next = 1
           /\ Stored' = IF hash' = None THEN Zeros ELSE data'
  <1>1. Stops(Rounds(log'), 1)
    BY EmptyRounds
  <1>2. Rounds(log').bytes = <<>> /\ Rounds(log').next = 1 /\ Rounds(log').ok
    BY <1>1 DEF Stops
  <1>3. LogKept'
    BY <1>2 DEF LogKept, EmptyFrom, EmptyLog
  <1>4. Consolidated' = IF hash' = None THEN Zeros ELSE data'
    BY EmptyTypes DEF Consolidated
  <1>5. Consolidated' \in Image
    BY <1>4, EmptyTypes
  <1>6. Stored' = Consolidated'
    BY <1>2, <1>5, StoredWillBe, OverNone
  <1> QED BY <1>2, <1>3, <1>4, <1>6

(* The log goes at once. *)
LEMMA EraseLogKept ==
    ASSUME Earlier = 0, Types, Kept, EraseLog
    PROVE  Kept'
  <1>1. /\ pc \in {"eraseLog", "wipeLog"} /\ data' = data /\ hash' = hash
        /\ data = Zeros /\ hash = None
    BY DEF EraseLog, Kept, ConsolidateKept
  <1>2. log' = EmptyLog
    <2>1. log' = [k \in 1 .. Slots |-> IF k \in 0 + 1 .. Slots THEN EMPTY ELSE log[k]]
      BY DEF EraseLog, Erased
    <2> QED BY <2>1, Sizes DEF EmptyLog
  <1>3. LogKept' /\ Rounds(log').next = 1 /\ Stored' = Zeros
    BY <1>1, <1>2, EmptyTypes, EmptyStored
  <1>4. CASE Return(TRUE, Zeros, 1)
    <2>1. pc' = "idle" /\ cache' = Zeros /\ before' = Zeros /\ write_address' = 1
      BY <1>4 DEF Return
    <2> QED BY <1>3, <2>1 DEF Kept, IdleKept, AppendKept, EraseKept, ConsolidateKept
  <1>5. CASE pc' = IF unlocked THEN "data" ELSE "unlock"
    BY <1>1, <1>2, <1>3, <1>5 DEF Kept, IdleKept, AppendKept, EraseKept, ConsolidateKept
  <1> QED BY <1>4, <1>5 DEF EraseLog

(* Then the data are written, and their hash. *)
LEMMA ConsolidatingKept ==
    ASSUME Types, Kept, Unlock \/ WriteData \/ WriteHash
    PROVE  Kept'
  <1> USE DEF Kept, ConsolidateKept
  <1>1. ASSUME Unlock PROVE Kept'
    <2>1. /\ pc = "unlock" /\ pc' = "data" /\ data' = data /\ hash' = hash /\ log' = log
      BY <1>1 DEF Unlock, store
    <2> QED BY <2>1 DEF LogKept, IdleKept, AppendKept, EraseKept
  <1>2. ASSUME WriteData PROVE Kept'
    <2>1. /\ pc = "data" /\ pc' = "hash" /\ data' = cache /\ hash' = hash /\ log' = log
          /\ cache' = cache
      BY <1>2 DEF WriteData
    <2> QED BY <2>1 DEF LogKept, IdleKept, AppendKept, EraseKept
  <1>3. ASSUME WriteHash PROVE Kept'
    <2>1. /\ pc = "hash" /\ data' = data /\ log' = log /\ hash' = cache
          /\ Return(TRUE, cache, 1)
      BY <1>3 DEF WriteHash
    <2>2. pc' = "idle" /\ cache' = cache /\ before' = cache /\ write_address' = 1
      BY <2>1 DEF Return
    <2>3. data = cache /\ log = EmptyLog
      BY <2>1
    <2>4. data' \in Image /\ hash' = data' /\ hash' # None
      BY <2>1, <2>3, EmptyTypes DEF Types, CacheTypes
    <2>5. LogKept' /\ Rounds(log').next = 1 /\ Stored' = data'
      BY <2>1, <2>3, <2>4, EmptyStored
    <2> QED BY <2>1, <2>2, <2>3, <2>5 DEF IdleKept, AppendKept, EraseKept
  <1> QED BY <1>1, <1>2, <1>3

(* A start plays back what is found as long as it is not cut off, whatever  *)
(* lies behind the store.                                                   *)
LEMMA RestartKept ==
    ASSUME Types, Kept, Restart
    PROVE  Kept'
  <1>1. PICK b \in Beyond : Start(Playback(Consolidated, b))
    BY DEF Restart
  <1>2. b \in Halfword /\ EMPTY \in Halfword
    BY WearAssumption, EmptyTypes DEF Halfword, Bytes
  <1> DEFINE q == Play(Half(log, b))[1]
             r == Rounds(log)
  <1>3. Half(log, b) \in Halves /\ Half(log, EMPTY) \in Halves
    BY <1>2, HalfTypes DEF Types, StoreTypes
  <1>4. \A k \in 1 .. Slots : Half(log, b)[k] = log[k] /\ Half(log, EMPTY)[k] = log[k]
    BY Sizes DEF Half
  <1>5. q.ok /\ q.next <= Slots + 1 => Same(r, q)
    BY <1>3, <1>4, PlaySame DEF Rounds
  <1>6. r.next <= Slots + 1 => Same(q, r)
    <2>1. r.ok
      BY DEF Kept, LogKept
    <2> QED BY <1>3, <1>4, <2>1, PlaySame DEF Rounds
  <1>7. q.next \in 1 .. Slots + 4 /\ r.next \in 1 .. Slots + 4
    <2>1. 1 \in 1 .. Slots + 4
      BY Sizes
    <2> QED BY <1>3, <2>1, PlayTypes DEF PlayOf, Rounds
  <1> HIDE DEF q, r
  <1>8. /\ cache' = Over(Consolidated, q.bytes) /\ before' = cache' /\ write_address' = q.next
        /\ pc' = IF q.ok /\ q.next <= Slots THEN "idle" ELSE "erase"
    BY <1>1 DEF Start, Playback, q
  <1>9. log' = log /\ Consolidated' = Consolidated
    BY DEF Restart, store, Consolidated
  <1>10. Stored' = Over(Consolidated, r.bytes)
    BY <1>9, StoredWillBe DEF r
  <1>11. LogKept'
    BY <1>9 DEF Kept, LogKept
  <1>12. IdleKept'
    <2>1. ASSUME pc' = "idle" PROVE Same(r, q)
      BY <1>5, <1>7, <1>8, <2>1, Sizes
    <2>2. ASSUME pc' = "idle" PROVE Rounds(log').next = write_address' /\ Stored' = cache'
      BY <1>8, <1>9, <1>10, <2>1, <2>2 DEF Same, r
    <2>3. pc' # "wipe"
      BY <1>8
    <2> QED BY <1>8, <2>2, <2>3 DEF IdleKept
  <1>13. EraseKept'
    <2>1. ASSUME ~CutOff' PROVE Stored' = cache'
      <3>1. ~(r.next > Slots + 1)
        BY <1>9, <2>1, StoredWillBe DEF r
      <3>2. Same(q, r)
        BY <1>6, <1>7, <3>1, Sizes
      <3> QED BY <1>8, <1>10, <3>2 DEF Same
    <2>2. pc' \notin {"eraseLog", "wipeLog"}
      BY <1>8
    <2> QED BY <2>1, <2>2 DEF EraseKept, OldOrNew
  <1>14. AppendKept' /\ ConsolidateKept'
    BY <1>8 DEF AppendKept, ConsolidateKept
  <1> QED BY <1>11, <1>12, <1>13, <1>14 DEF Kept

(* As long as no call fails, every step keeps the invariant.                *)
LEMMA KeptStep ==
    ASSUME Earlier = 0, Types, Kept, ~failed, [Next]_vars
    PROVE  failed' \/ Kept'
  <1>1. ASSUME NEW n \in Lengths, NEW vs \in [1 .. n -> Value], NEW a \in Address, Write(a, vs)
        PROVE  failed' \/ Kept'
    BY <1>1, WriteKept
  <1>2. ASSUME AppendRaw PROVE failed' \/ Kept'
    BY <1>2, AppendRawKept
  <1>3. ASSUME Erase PROVE failed' \/ Kept'
    <2> SUFFICES ASSUME ~failed' PROVE Kept'
      OBVIOUS
    <2>1. /\ pc = "idle" /\ pc' = "wipe" /\ data' = data /\ hash' = hash /\ log' = log
          /\ cache' = cache /\ before' = before
      BY <1>3 DEF Erase, store
    <2>2. LogKept' /\ IdleKept'
      <3>1. Stored' = Stored
        BY <2>1 DEF Stored, Playback, Consolidated
      <3> QED BY <2>1, <3>1 DEF Kept, LogKept, IdleKept
    <2> QED BY <2>1, <2>2 DEF Kept, AppendKept, EraseKept, ConsolidateKept
  <1>4. ASSUME EraseFails \/ ConsolidateFails PROVE failed'
    BY <1>4 DEF EraseFails, ConsolidateFails, Return
  <1>5. ASSUME PowerLoss PROVE Kept'
    <2>1. pc' = "off" /\ log' = log
      BY <1>5 DEF PowerLoss, store
    <2> QED BY <2>1 DEF Kept, LogKept, IdleKept, AppendKept, EraseKept, ConsolidateKept
  <1>6. ASSUME UNCHANGED vars PROVE Kept'
    <2>1. /\ data' = data /\ hash' = hash /\ log' = log /\ cache' = cache /\ before' = before
          /\ write_address' = write_address /\ pc' = pc /\ todo' = todo
      BY <1>6 DEF vars, store
    <2>2. Consolidated' = Consolidated /\ Stored' = Stored /\ (CutOff' <=> CutOff)
      BY <2>1 DEF Consolidated, Stored, CutOff, Playback
    <2>3. LogKept' /\ IdleKept' /\ EraseKept' /\ ConsolidateKept'
      BY <2>1, <2>2 DEF Kept, LogKept, IdleKept, EraseKept, ConsolidateKept, OldOrNew
    <2>4. AppendKept'
      <3>1. ASSUME NEW a, NEW vs, NEW i, NEW s, NEW j, Writing(a, vs, i, s, j)
            PROVE  Writing(a, vs, i, s, j)'
        BY <2>1, <2>2, <3>1, Zenon DEF Writing
      <3>2. ASSUME pc = "append"
            PROVE  \E a \in Nat, vs \in Seq(Bytes) :
                     \E i \in 1 .. Len(vs), s \in 1 .. Slots, j \in Nat :
                         Writing(a, vs, i, s, j)'
        <4>1. PICK a \in Nat, vs \in Seq(Bytes) :
                \E i \in 1 .. Len(vs), s \in 1 .. Slots, j \in Nat : Writing(a, vs, i, s, j)
          BY <3>2 DEF Kept, AppendKept
        <4>2. PICK i \in 1 .. Len(vs), s \in 1 .. Slots, j \in Nat : Writing(a, vs, i, s, j)
          BY <4>1
        <4>3. Writing(a, vs, i, s, j)'
          BY <3>1, <4>2
        <4> QED BY <4>3
      <3> QED BY <2>1, <3>2 DEF AppendKept
    <2> QED BY <2>3, <2>4 DEF Kept
  <1> QED BY <1>1, <1>2, <1>3, <1>4, <1>5, <1>6, EraseDataKept, EraseLogKept,
             ConsolidatingKept, RestartKept DEF Next

\* The invariant holds unless a call has failed.
KeptUnlessFailed == failed \/ Kept

(* It is inductive, with the types. *)
LEMMA Inductive ==
    ASSUME Earlier = 0
    PROVE  Spec => [](Types /\ KeptUnlessFailed)
  <1>1. Init => Types /\ KeptUnlessFailed
    BY TypesInit, KeptInit DEF KeptUnlessFailed
  <1>2. Types /\ KeptUnlessFailed /\ [Next]_vars => (Types /\ KeptUnlessFailed)'
    <2> SUFFICES ASSUME Types, KeptUnlessFailed, [Next]_vars
                 PROVE  Types' /\ KeptUnlessFailed'
      OBVIOUS
    <2>1. CASE failed
      <3>1. failed'
        BY <2>1 DEF Next, vars, store, Write, AppendRaw, Erase, EraseData, EraseLog, EraseFails,
                    Unlock, WriteData, WriteHash, ConsolidateFails, PowerLoss, Restart, Return
      <3> QED BY <3>1, TypesStep DEF KeptUnlessFailed
    <2>2. CASE ~failed
      BY <2>2, TypesStep, KeptStep DEF KeptUnlessFailed
    <2> QED BY <2>1, <2>2
  <1> QED BY <1>1, <1>2, PTL DEF Spec

(* As long as no call has reported a failure, an idle store that lies in one *)
(* sector holds what a read returns: every entry is read back as it was     *)
(* written, whatever its length and also behind one that a loss of power    *)
(* has cut off, and a full log is consolidated with the write that filled   *)
(* it (wear_leveling.c 340-470, 475-612 and 244-338).                       *)
THEOREM NothingLost ==
    ASSUME Earlier = 0
    PROVE  Spec => []KeptUnlessReported
  <1>1. KeptUnlessFailed => KeptUnlessReported
    BY DEF KeptUnlessFailed, Kept, IdleKept, KeptUnlessReported
  <1> QED BY <1>1, Inductive, PTL

(* If power fails now, each byte has its value from before the call or its  *)
(* new one, and is 0 at worst while the store is erased and written again;  *)
(* unless the loss cuts an entry of several halfwords, none is older than   *)
(* the call (wear_leveling.c 340-470 and 244-338).                          *)
THEOREM NothingOlder ==
    ASSUME Earlier = 0
    PROVE  Spec => []NothingStale
  <1>1. Types /\ KeptUnlessFailed => NothingStale
    <2> SUFFICES ASSUME Types, Kept, pc # "off", ~failed, ~CutOff, NEW x \in Address
                 PROVE  \/ Stored[x] \in {before[x], cache[x]}
                        \/ pc \in Erasing /\ Stored[x] = 0
      BY DEF KeptUnlessFailed, NothingStale
    <2>1. CASE pc \in {"idle", "wipe"}
      BY <2>1 DEF Kept, IdleKept
    <2>2. Writable(Rounds(log).bytes) /\ Consolidated \in Image
      BY RoundsTypes, EmptyTypes DEF Types, StoreTypes, PlayOf, Consolidated
    <2>3. Stored = Over(Consolidated, Rounds(log).bytes)
      BY StoredIs
    <2>4. Stored[x] = IF x \in DOMAIN Rounds(log).bytes THEN Rounds(log).bytes[x]
                                                         ELSE Consolidated[x]
      BY <2>2, <2>3 DEF Over, Writable, Image
    <2>5. CASE pc = "append"
      <3>1. write_address <= Slots
        BY <2>5 DEF Types, SlotLeft
      <3>2. PICK a \in Nat, vs \in Seq(Bytes) :
              \E i \in 1 .. Len(vs), s \in 1 .. Slots, j \in Nat : Writing(a, vs, i, s, j)
        BY <2>5 DEF Kept, AppendKept
      <3>3. PICK i \in 1 .. Len(vs), s \in 1 .. Slots, j \in Nat : Writing(a, vs, i, s, j)
        BY <3>2
      <3>4. Entering(a, vs, i, s, j)
        BY <3>3, Zenon DEF Entering
      <3>5. /\ write_address = s + j /\ j < Len(Entry(a, vs, i)) /\ a + Len(vs) <= Logical
            /\ cache = Over(before, At(a, vs, Len(vs)))
            /\ Over(Consolidated, Rounds(Truncated(log, s)).bytes) =
                 Over(before, At(a, vs, i - 1))
            /\ \A k \in 1 .. j : log[s + k - 1] = Entry(a, vs, i)[k]
            /\ EmptyFrom(log, write_address)
            /\ Rounds(Truncated(log, s)).ok /\ Rounds(Truncated(log, s)).next = s
        BY <3>3, Zenon DEF Writing
      <3>6. j = 0
        <4> SUFFICES ASSUME j # 0 PROVE FALSE
          OBVIOUS
        <4> DEFINE n == Len(Entry(a, vs, i))
        <4>1. n \in 1 .. 4
          BY <3>4, EnteringTypes
        <4>2. j \in 1 .. n /\ s + j <= Slots + 1 /\ s + n > s + j
          <5>1. j < n /\ s + j <= Slots
            BY <3>1, <3>5
          <5> HIDE DEF n
          <5> QED BY <4>1, <5>1, Sizes
        <4>3. Appended(log, s, a, vs, i, j)
          BY <3>5, <4>2, Zenon DEF Appended, Types, StoreTypes
        <4>4. Rounds(log).next = s + n
          BY <4>3, EntryPlayed
        <4> HIDE DEF n
        <4>5. CutOff
          BY <3>5, <4>2, <4>4, StoredIs
        <4> QED BY <4>5
      <3>7. Truncated(log, s) = log
        <4>1. write_address = s /\ s \in Nat
          BY <3>5, <3>6, Sizes
        <4> QED BY <3>5, <4>1, TruncatedSame DEF Types, StoreTypes
      <3>8. Stored = Over(before, At(a, vs, i - 1))
        BY <2>3, <3>5, <3>7
      <3>9. Stored[x] \in {before[x], Over(before, At(a, vs, Len(vs)))[x]}
        <4>1. i - 1 \in Nat /\ Len(vs) \in Nat /\ i - 1 <= Len(vs)
          BY LenProperties
        <4> QED BY <3>5, <3>8, <4>1, PartlyWritten DEF Types, CacheTypes
      <3> QED BY <3>5, <3>9
    <2>6. CASE pc = "erase"
      <3>1. DOMAIN Stored = Address
        BY <2>2, <2>3 DEF Over, Writable, Image
      <3> QED BY <2>6, <3>1 DEF Kept, EraseKept, OldOrNew
    <2>7. CASE pc \in Erasing
      <3>1. hash = None \/ (log = EmptyLog /\ hash = None)
        BY <2>7 DEF Kept, ConsolidateKept, Erasing
      <3>2. Consolidated = Zeros
        BY <3>1, EmptyTypes DEF Types, StoreTypes, Consolidated
      <3>3. Consolidated[x] = 0
        BY <3>2 DEF Zeros
      <3>4. CASE pc \in {"eraseLog", "wipeLog"}
        <4>1. OldOrNew(Rounds(log).bytes)
          BY <3>4 DEF Kept, EraseKept
        <4> QED BY <2>4, <2>7, <3>3, <4>1 DEF OldOrNew
      <3>5. CASE pc \in {"unlock", "data", "hash"}
        <4>1. Rounds(log).bytes = <<>>
          BY <3>5, EmptyRounds DEF Kept, ConsolidateKept, Stops
        <4>2. x \notin DOMAIN <<>>
          OBVIOUS
        <4> QED BY <2>4, <2>7, <3>3, <4>1, <4>2
      <3> QED BY <2>7, <3>4, <3>5 DEF Erasing
    <2> QED BY <2>1, <2>5, <2>6, <2>7 DEF Types, CallTypes, Erasing
  <1> QED BY <1>1, Inductive, PTL
=============================================================================
