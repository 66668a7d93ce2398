-------------------------- MODULE Indicator_proofs --------------------------
(***************************************************************************)
(* Proofs about Indicator: what is shown is the connection.                *)
(*                                                                         *)
(* The events not yet handled followed by the frames not yet read are one  *)
(* stream.  The module puts frames last, handling an event takes the first *)
(* one away, and reading a frame leaves the stream as it is, except that   *)
(* it repeats a frame when the acknowledgement is lost and loses the first *)
(* one when the event queue is full.                                       *)
(***************************************************************************)
EXTENDS Wireless_proofs, Indicator

USE HostAssumption

\* The statuses whose handlers call indicator_set, and those of them that end
\* the indication of a connection.
Setters  == {"CONNECTED", "RECONNECTING", "DISCOVERABLE", "DISCONNECTED"}
Breakers == {"RECONNECTING", "DISCOVERABLE", "DISCONNECTED"}

Stream == events \o radio.frames

\* A status of B is in s, in s behind place i, in s between places i and j.
Has(s, B)           == \E i \in 1 .. Len(s) : s[i].type \in B
Later(s, i, B)      == \E j \in i + 1 .. Len(s) : s[j].type \in B
Between(s, i, j, B) == \E k \in i + 1 .. j - 1 : s[k].type \in B

-----------------------------------------------------------------------------
\* What reading and handling do to a stream.

\* The place in the old stream of what is now at place i, when the first d are gone
\* and the one at place c is repeated; c is behind the end if none is.
From(i, d, c) == IF i <= c THEN i + d ELSE i + d - 1

Thinned(s, t, d, c) ==
    /\ s \in Seq(Frames) /\ t \in Seq(Frames)
    /\ d \in {0, 1} /\ c \in Nat \ {0}
    /\ From(Len(t), d, c) = Len(s)
    /\ \A i \in 1 .. Len(t) : t[i] = s[From(i, d, c)]

(* Every place behind the first d is the place of something that is left,   *)
(* and the order is kept.                                                   *)
LEMMA Places ==
  ASSUME NEW s, NEW t, NEW d, NEW c, Thinned(s, t, d, c)
  PROVE  /\ \A i \in 1 .. Len(t) : From(i, d, c) \in 1 .. Len(s)
         /\ \A i, j \in 1 .. Len(t) : i < j => From(i, d, c) <= From(j, d, c)
         /\ \A k \in d + 1 .. Len(s) : \E l \in 1 .. Len(t) :
                /\ From(l, d, c) = k
                /\ \A i \in 1 .. Len(t) : /\ From(i, d, c) < k => i < l
                                          /\ k < From(i, d, c) => l < i
  <1>1. /\ Len(s) \in Nat /\ Len(t) \in Nat /\ d \in {0, 1} /\ c \in Nat /\ c >= 1
        /\ From(Len(t), d, c) = Len(s)
    BY DEF Thinned
  <1>2. \A i \in 1 .. Len(t) : From(i, d, c) \in 1 .. Len(s)
    BY <1>1 DEF From
  <1>3. \A i, j \in 1 .. Len(t) : i < j => From(i, d, c) <= From(j, d, c)
    BY <1>1 DEF From
  <1>4. ASSUME NEW k \in d + 1 .. Len(s)
        PROVE  \E l \in 1 .. Len(t) :
                /\ From(l, d, c) = k
                /\ \A i \in 1 .. Len(t) : /\ From(i, d, c) < k => i < l
                                          /\ k < From(i, d, c) => l < i
    <2> DEFINE l == IF k - d <= c THEN k - d ELSE k - d + 1
    <2>1. l \in 1 .. Len(t) /\ From(l, d, c) = k
      BY <1>1 DEF From
    <2>2. ASSUME NEW i \in 1 .. Len(t)
          PROVE  (From(i, d, c) < k => i < l) /\ (k < From(i, d, c) => l < i)
      BY <1>1 DEF From
    <2> HIDE DEF l
    <2> QED BY <2>1, <2>2
  <1> QED BY <1>2, <1>3, <1>4

(* What is at the places that are left.                                     *)
LEMMA ThinnedPlaces ==
  ASSUME NEW s, NEW t, NEW d, NEW c, Thinned(s, t, d, c)
  PROVE  /\ Len(s) \in Nat /\ Len(t) \in Nat /\ d \in {0, 1}
         /\ \A i \in 1 .. Len(t) : t[i] = s[From(i, d, c)] /\ From(i, d, c) \in 1 .. Len(s)
         /\ \A i, j \in 1 .. Len(t) : i < j => From(i, d, c) <= From(j, d, c)
  <1>1. \A i \in 1 .. Len(t) : From(i, d, c) \in 1 .. Len(s)
    BY Places
  <1>2. \A i, j \in 1 .. Len(t) : i < j => From(i, d, c) <= From(j, d, c)
    BY Places
  <1> QED BY <1>1, <1>2 DEF Thinned

(* What was told of a place that is left is still told.                     *)
LEMMA ThinnedKeeps ==
  ASSUME NEW s, NEW t, NEW d, NEW c, Thinned(s, t, d, c), NEW B
  PROVE  /\ \A i \in 1 .. Len(t) : Later(s, From(i, d, c), B) => Later(t, i, B)
         /\ \A i, j \in 1 .. Len(t) :
                Between(s, From(i, d, c), From(j, d, c), B) => Between(t, i, j, B)
         /\ \A j \in 1 .. Len(t) :
                (d = 1 => s[1].type \notin B) /\ Between(s, 0, From(j, d, c), B)
                => Between(t, 0, j, B)
         /\ (d = 1 => s[1].type \notin B) /\ Has(s, B) => Has(t, B)
  <1>1. /\ Len(s) \in Nat /\ Len(t) \in Nat /\ d \in {0, 1}
        /\ \A i \in 1 .. Len(t) : t[i] = s[From(i, d, c)] /\ From(i, d, c) \in 1 .. Len(s)
    BY ThinnedPlaces
  <1>2. ASSUME NEW k \in d + 1 .. Len(s)
        PROVE  \E l \in 1 .. Len(t) :
                 /\ t[l] = s[k]
                 /\ \A i \in 1 .. Len(t) : /\ From(i, d, c) < k => i < l
                                           /\ k < From(i, d, c) => l < i
    <2>1. PICK l \in 1 .. Len(t) :
                /\ From(l, d, c) = k
                /\ \A i \in 1 .. Len(t) : /\ From(i, d, c) < k => i < l
                                          /\ k < From(i, d, c) => l < i
      BY Places
    <2> QED BY <1>1, <2>1
  <1>3. ASSUME NEW i \in 1 .. Len(t), Later(s, From(i, d, c), B) PROVE Later(t, i, B)
    <2>1. PICK k \in From(i, d, c) + 1 .. Len(s) : s[k].type \in B
      BY <1>3 DEF Later
    <2>2. k \in d + 1 .. Len(s) /\ From(i, d, c) < k
      BY <1>1, <2>1 DEF From, Thinned
    <2>3. PICK l \in 1 .. Len(t) : t[l] = s[k] /\ i < l
      BY <1>2, <2>2
    <2>4. l \in i + 1 .. Len(t)
      BY <1>1, <2>3
    <2> QED BY <2>1, <2>3, <2>4 DEF Later
  <1>4. ASSUME NEW i \in 1 .. Len(t), NEW j \in 1 .. Len(t),
               Between(s, From(i, d, c), From(j, d, c), B)
        PROVE  Between(t, i, j, B)
    <2>1. PICK k \in From(i, d, c) + 1 .. From(j, d, c) - 1 : s[k].type \in B
      BY <1>4 DEF Between
    <2>2. k \in d + 1 .. Len(s) /\ From(i, d, c) < k /\ k < From(j, d, c)
      BY <1>1, <2>1 DEF From, Thinned
    <2>3. PICK l \in 1 .. Len(t) : t[l] = s[k] /\ i < l /\ l < j
      BY <1>2, <2>2
    <2>4. l \in i + 1 .. j - 1
      BY <1>1, <2>3
    <2> QED BY <2>1, <2>3, <2>4 DEF Between
  <1>5. ASSUME NEW j \in 1 .. Len(t), d = 1 => s[1].type \notin B,
               Between(s, 0, From(j, d, c), B)
        PROVE  Between(t, 0, j, B)
    <2>1. PICK k \in 0 + 1 .. From(j, d, c) - 1 : s[k].type \in B
      BY <1>5 DEF Between
    <2>2. From(j, d, c) \in 1 .. Len(s)
      BY <1>1
    <2>3. k \in d + 1 .. Len(s) /\ k < From(j, d, c)
      BY <1>1, <1>5, <2>1, <2>2
    <2>4. PICK l \in 1 .. Len(t) : t[l] = s[k] /\ l < j
      BY <1>2, <2>3
    <2>5. l \in 0 + 1 .. j - 1
      BY <1>1, <2>4
    <2> QED BY <2>1, <2>4, <2>5 DEF Between
  <1>6. ASSUME d = 1 => s[1].type \notin B, Has(s, B) PROVE Has(t, B)
    <2>1. PICK k \in 1 .. Len(s) : s[k].type \in B
      BY <1>6 DEF Has
    <2>2. k \in d + 1 .. Len(s)
      BY <1>1, <1>6, <2>1
    <2>3. PICK l \in 1 .. Len(t) : t[l] = s[k]
      BY <1>2, <2>2
    <2> QED BY <2>1, <2>3 DEF Has
  <1> QED BY <1>3, <1>4, <1>5, <1>6

(* Nothing new is told, except that a repeated status is told again.        *)
LEMMA ThinnedAdds ==
  ASSUME NEW s, NEW t, NEW d, NEW c, Thinned(s, t, d, c), NEW B
  PROVE  /\ \A i \in 1 .. Len(t) :
                Later(t, i, B) => Later(s, From(i, d, c), B) \/ t[i].type \in B
         /\ \A i, j \in 1 .. Len(t) : Between(t, i, j, B) =>
                \/ Between(s, From(i, d, c), From(j, d, c), B)
                \/ t[i].type \in B \/ t[j].type \in B
         /\ \A j \in 1 .. Len(t) : Between(t, 0, j, B) =>
                Between(s, 0, From(j, d, c), B) \/ t[j].type \in B
         /\ Has(t, B) => Has(s, B)
  <1>1. /\ Len(s) \in Nat /\ Len(t) \in Nat /\ d \in {0, 1}
        /\ \A i \in 1 .. Len(t) : t[i] = s[From(i, d, c)] /\ From(i, d, c) \in 1 .. Len(s)
        /\ \A i, j \in 1 .. Len(t) : i < j => From(i, d, c) <= From(j, d, c)
    BY ThinnedPlaces
  <1>2. ASSUME NEW i \in 1 .. Len(t), Later(t, i, B)
        PROVE  Later(s, From(i, d, c), B) \/ t[i].type \in B
    <2>1. PICK k \in i + 1 .. Len(t) : t[k].type \in B
      BY <1>2 DEF Later
    <2>2. k \in 1 .. Len(t) /\ i < k
      BY <1>1, <2>1
    <2>3. /\ From(i, d, c) <= From(k, d, c) /\ s[From(k, d, c)].type \in B
          /\ From(i, d, c) \in 1 .. Len(s) /\ From(k, d, c) \in 1 .. Len(s)
          /\ t[i] = s[From(i, d, c)]
      BY <1>1, <2>1, <2>2
    <2>4. CASE From(i, d, c) = From(k, d, c)
      BY <2>3, <2>4
    <2>5. CASE From(i, d, c) # From(k, d, c)
      <3>1. From(k, d, c) \in From(i, d, c) + 1 .. Len(s)
        BY <1>1, <2>3, <2>5
      <3> QED BY <2>3, <3>1 DEF Later
    <2> QED BY <2>4, <2>5
  <1>3. ASSUME NEW i \in 1 .. Len(t), NEW j \in 1 .. Len(t), Between(t, i, j, B)
        PROVE  \/ Between(s, From(i, d, c), From(j, d, c), B)
               \/ t[i].type \in B \/ t[j].type \in B
    <2>1. PICK k \in i + 1 .. j - 1 : t[k].type \in B
      BY <1>3 DEF Between
    <2>2. k \in 1 .. Len(t) /\ i < k /\ k < j
      BY <1>1, <2>1
    <2>3. /\ From(i, d, c) <= From(k, d, c) /\ From(k, d, c) <= From(j, d, c)
          /\ s[From(k, d, c)].type \in B
          /\ From(i, d, c) \in 1 .. Len(s) /\ From(k, d, c) \in 1 .. Len(s)
          /\ From(j, d, c) \in 1 .. Len(s)
          /\ t[i] = s[From(i, d, c)] /\ t[j] = s[From(j, d, c)]
      BY <1>1, <2>1, <2>2
    <2>4. CASE From(i, d, c) = From(k, d, c) \/ From(j, d, c) = From(k, d, c)
      BY <2>3, <2>4
    <2>5. CASE From(i, d, c) # From(k, d, c) /\ From(j, d, c) # From(k, d, c)
      <3>1. \A x, y, z \in 1 .. Len(s) : x <= y /\ y <= z /\ x # y /\ z # y => y \in x + 1 .. z - 1
        BY <1>1
      <3>2. From(k, d, c) \in From(i, d, c) + 1 .. From(j, d, c) - 1
        BY <2>3, <2>5, <3>1
      <3> QED BY <2>3, <3>2 DEF Between
    <2> QED BY <2>4, <2>5
  <1>4. ASSUME NEW j \in 1 .. Len(t), Between(t, 0, j, B)
        PROVE  Between(s, 0, From(j, d, c), B) \/ t[j].type \in B
    <2>1. PICK k \in 0 + 1 .. j - 1 : t[k].type \in B
      BY <1>4 DEF Between
    <2>2. k \in 1 .. Len(t) /\ k < j
      BY <1>1, <2>1
    <2>3. /\ From(k, d, c) <= From(j, d, c) /\ s[From(k, d, c)].type \in B
          /\ From(k, d, c) \in 1 .. Len(s) /\ From(j, d, c) \in 1 .. Len(s)
          /\ t[j] = s[From(j, d, c)]
      BY <1>1, <2>1, <2>2
    <2>4. CASE From(j, d, c) = From(k, d, c)
      BY <2>3, <2>4
    <2>5. CASE From(j, d, c) # From(k, d, c)
      <3>1. From(k, d, c) \in 0 + 1 .. From(j, d, c) - 1
        BY <1>1, <2>3, <2>5
      <3> QED BY <2>3, <3>1 DEF Between
    <2> QED BY <2>4, <2>5
  <1>5. ASSUME Has(t, B) PROVE Has(s, B)
    <2>1. PICK k \in 1 .. Len(t) : t[k].type \in B
      BY <1>5 DEF Has
    <2> QED BY <1>1, <2>1 DEF Has
  <1> QED BY <1>2, <1>3, <1>4, <1>5

-----------------------------------------------------------------------------
\* The stream.

(* The places of the stream.                                                *)
LEMMA StreamPlaces ==
  ASSUME TypeOK
  PROVE  /\ events \in Seq(Frames) /\ radio.frames \in Seq(Frames)
         /\ Len(events) \in Nat /\ Len(radio.frames) \in Nat
         /\ Stream \in Seq(Frames) /\ Len(Stream) = Len(events) + Len(radio.frames)
         /\ \A i \in 1 .. Len(events) : Stream[i] = events[i]
         /\ \A i \in Len(events) + 1 .. Len(Stream) :
                Stream[i] = radio.frames[i - Len(events)]
         /\ \A i \in 1 .. Len(radio.frames) : Stream[Len(events) + i] = radio.frames[i]
  <1>1. events \in Seq(Frames) /\ radio.frames \in Seq(Frames)
    BY DEF TypeOK, Radios
  <1> QED BY <1>1 DEF Stream

(* The last status in the stream that tells a link state fits the module.   *)
LEMMA StreamTells ==
  ASSUME TypeOK, AInv
  PROVE  \/ \E i \in 1 .. Len(Stream) :
                Fits(Stream[i], radio) /\ ~Later(Stream, i, LinkTypes)
         \/ ~Has(Stream, LinkTypes) /\ Knows(radio)
  <1> DEFINE q == events  f == radio.frames  n == Len(events)
  <1>1. /\ n \in Nat /\ Len(f) \in Nat /\ Len(Stream) = n + Len(f)
        /\ \A i \in 1 .. n : Stream[i] = q[i]
        /\ \A i \in n + 1 .. Len(Stream) : Stream[i] = f[i - n]
        /\ \A i \in 1 .. Len(f) : Stream[n + i] = f[i]
    BY StreamPlaces
  <1> HIDE DEF q, f, n
  <1>2. CASE Says(f, radio)
    <2>1. PICK i \in 1 .. Len(f) :
              Fits(f[i], radio) /\ \A j \in i + 1 .. Len(f) : f[j].type \notin LinkTypes
      BY <1>2 DEF Says
    <2>2. n + i \in 1 .. Len(Stream) /\ Stream[n + i] = f[i]
      BY <1>1, <2>1
    <2>3. ~Later(Stream, n + i, LinkTypes)
      <3> SUFFICES ASSUME NEW j \in (n + i) + 1 .. Len(Stream)
                   PROVE  Stream[j].type \notin LinkTypes
        BY DEF Later
      <3>1. j - n \in i + 1 .. Len(f) /\ j \in n + 1 .. Len(Stream)
        BY <1>1, <2>1
      <3> QED BY <1>1, <2>1, <3>1
    <2> QED BY <2>1, <2>2, <2>3
  <1>3. CASE Mute(f) /\ Says(q, radio)
    <2>1. PICK i \in 1 .. n :
              Fits(q[i], radio) /\ \A j \in i + 1 .. n : q[j].type \notin LinkTypes
      BY <1>3 DEF Says, n, q
    <2>2. i \in 1 .. Len(Stream) /\ Stream[i] = q[i]
      BY <1>1, <2>1
    <2>3. ~Later(Stream, i, LinkTypes)
      <3> SUFFICES ASSUME NEW j \in i + 1 .. Len(Stream)
                   PROVE  Stream[j].type \notin LinkTypes
        BY DEF Later
      <3>1. CASE j <= n
        <4>1. j \in i + 1 .. n /\ j \in 1 .. n
          BY <1>1, <2>1, <3>1
        <4> QED BY <1>1, <2>1, <4>1
      <3>2. CASE ~(j <= n)
        <4>1. j - n \in 1 .. Len(f) /\ j \in n + 1 .. Len(Stream)
          BY <1>1, <2>1, <3>2
        <4> QED BY <1>1, <1>3, <4>1 DEF Mute
      <3> QED BY <3>1, <3>2
    <2> QED BY <2>1, <2>2, <2>3
  <1>4. CASE Mute(f) /\ Mute(q) /\ Knows(radio)
    <2>1. ASSUME NEW j \in 1 .. Len(Stream) PROVE Stream[j].type \notin LinkTypes
      <3>1. CASE j <= n
        <4>1. j \in 1 .. n
          BY <1>1, <3>1
        <4> QED BY <1>1, <1>4, <4>1 DEF Mute, n, q
      <3>2. CASE ~(j <= n)
        <4>1. j - n \in 1 .. Len(f) /\ j \in n + 1 .. Len(Stream)
          BY <1>1, <3>2
        <4> QED BY <1>1, <1>4, <4>1 DEF Mute
      <3> QED BY <3>1, <3>2
    <2> QED BY <1>4, <2>1 DEF Has
  <1> QED BY <1>2, <1>3, <1>4 DEF AInv, StatusKnown, q, f

(* Reading a frame may repeat it, and loses the first event only if the     *)
(* queue is full.                                                           *)
LEMMA ReadThins ==
  ASSUME TypeOK, TypeOK', ReadFrame
  PROVE  \E d \in {0, 1}, c \in Nat \ {0} :
             Thinned(Stream, Stream', d, c) /\ (d = 1 => events # <<>>)
  <1> DEFINE q == events  p == events'  f == radio.frames  g == radio'.frames
             S == Stream  T == Stream'  n == Len(events)
  <1>1. /\ f # <<>> /\ Head(f) = f[1] /\ g \in {f, Tail(f)} /\ p = Queue!Push(q, f[1])
        /\ f[1] \in Frames
    BY ReadFields DEF TypeOK, Radios
  <1>2. /\ S \in Seq(Frames) /\ n \in Nat /\ Len(f) \in Nat /\ Len(S) = n + Len(f)
        /\ \A i \in 1 .. n : S[i] = q[i]
        /\ \A i \in 1 .. Len(f) : S[n + i] = f[i]
    BY StreamPlaces
  <1>3. /\ T \in Seq(Frames) /\ Len(p) \in Nat /\ Len(g) \in Nat /\ Len(T) = Len(p) + Len(g)
        /\ \A i \in 1 .. Len(p) : T[i] = p[i]
        /\ \A i \in Len(p) + 1 .. Len(T) : T[i] = g[i - Len(p)]
    <2>1. p \in Seq(Frames) /\ g \in Seq(Frames)
      BY DEF TypeOK, Radios
    <2> QED BY <2>1 DEF Stream
  <1>4. q \in Seq(Frames) /\ n <= Capacity /\ Capacity \in Nat \ {0} /\ f \in Seq(Frames)
    BY StreamPlaces DEF TypeOK
  <1>5. Pushed(q, f[1], p)
    BY <1>1, <1>4, PushFacts
  <1>6. PICK d \in {0, 1} : /\ Len(p) = n + 1 - d /\ (d = 1 => n = Capacity)
                            /\ \A i \in 1 .. Len(p) - 1 : p[i] = q[i + d]
    BY <1>5 DEF Pushed
  <1>7. p[Len(p)] = f[1] /\ Len(p) >= 1 /\ Len(f) >= 1
    BY <1>1, <1>4, <1>5 DEF Pushed
  <1>8. \A i \in 1 .. Len(f) - 1 : Tail(f)[i] = f[i + 1]
    BY <1>1, <1>4
  <1>9. Len(Tail(f)) = Len(f) - 1
    BY <1>1, <1>4
  <1> HIDE DEF q, p, f, g, S, T, n
  <1>10. ASSUME NEW i \in 1 .. Len(p) PROVE T[i] = S[i + d]
    <2>1. CASE i = Len(p)
      <3>1. i + d = n + 1 /\ 1 \in 1 .. Len(f)
        BY <1>2, <1>6, <1>7, <2>1
      <3> QED BY <1>2, <1>3, <1>7, <2>1, <3>1
    <2>2. CASE i # Len(p)
      <3>1. i \in 1 .. Len(p) - 1 /\ i + d \in 1 .. n
        BY <1>2, <1>3, <1>6, <2>2
      <3> QED BY <1>2, <1>3, <1>6, <3>1
    <2> QED BY <2>1, <2>2
  <1>11. CASE g = Tail(f)
    <2> DEFINE c == Len(S) + 1
    <2>0. Len(g) = Len(f) - 1
      BY <1>9, <1>11
    <2>1. c \in Nat \ {0} /\ Len(T) + d = Len(S) /\ Len(T) \in Nat /\ Len(T) <= c
      <3> HIDE <1>11
      <3> QED BY <1>2, <1>3, <1>6, <2>0
    <2>2. ASSUME NEW i \in 1 .. Len(T) PROVE T[i] = S[i + d]
      <3>1. CASE i <= Len(p)
        BY <1>3, <1>10, <3>1
      <3>2. CASE ~(i <= Len(p))
        <4>1. /\ i \in Len(p) + 1 .. Len(T) /\ i - Len(p) \in 1 .. Len(f) - 1
              /\ (i - Len(p)) + 1 \in 1 .. Len(f) /\ i + d = n + ((i - Len(p)) + 1)
          <5> HIDE <1>11
          <5> QED BY <1>2, <1>3, <1>6, <2>0, <3>2
        <4>2. T[i] = f[(i - Len(p)) + 1]
          BY <1>3, <1>8, <1>11, <4>1
        <4>3. S[n + ((i - Len(p)) + 1)] = f[(i - Len(p)) + 1]
          BY <1>2, <4>1
        <4> QED BY <4>1, <4>2, <4>3
      <3> QED BY <3>1, <3>2
    <2>3. From(Len(T), d, c) = Len(S) /\ \A i \in 1 .. Len(T) : From(i, d, c) = i + d
      BY <2>1 DEF From
    <2> HIDE DEF c
    <2>4. Thinned(S, T, d, c)
      BY <1>2, <1>3, <2>1, <2>2, <2>3 DEF Thinned
    <2> QED BY <1>4, <1>6, <2>1, <2>4 DEF S, T, q, n
  <1>12. CASE g = f
    <2> DEFINE c == Len(p)
    <2>0. Len(g) = Len(f)
      BY <1>12
    <2>1. /\ c \in Nat \ {0} /\ Len(T) + d - 1 = Len(S) /\ Len(T) \in Nat /\ ~(Len(T) <= c)
      <3>1. /\ Len(T) = Len(p) + Len(g) /\ Len(p) = n + 1 - d /\ Len(S) = n + Len(f)
            /\ n \in Nat /\ Len(f) \in Nat /\ Len(p) >= 1 /\ Len(f) >= 1
        BY <1>2, <1>3, <1>6, <1>7
      <3> HIDE <1>12
      <3> QED BY <2>0, <3>1
    <2>2. ASSUME NEW i \in 1 .. Len(T), ~(i <= c) PROVE T[i] = S[i + d - 1]
      <3>1. /\ i \in Len(p) + 1 .. Len(T) /\ i - Len(p) \in 1 .. Len(f)
            /\ i + d - 1 = n + (i - Len(p))
        BY <1>2, <1>3, <1>6, <1>12, <2>2
      <3>2. T[i] = f[i - Len(p)]
        BY <1>3, <1>12, <3>1
      <3>3. S[n + (i - Len(p))] = f[i - Len(p)]
        BY <1>2, <3>1
      <3> QED BY <3>1, <3>2, <3>3
    <2>3. ASSUME NEW i \in 1 .. Len(T), i <= c PROVE T[i] = S[i + d]
      BY <1>3, <1>10, <2>3
    <2>4. /\ From(Len(T), d, c) = Len(S)
          /\ \A i \in 1 .. Len(T) : /\ i <= c => From(i, d, c) = i + d
                                    /\ ~(i <= c) => From(i, d, c) = i + d - 1
      BY <2>1 DEF From
    <2> HIDE DEF c
    <2>5. Thinned(S, T, d, c)
      BY <1>2, <1>3, <2>1, <2>2, <2>3, <2>4 DEF Thinned
    <2> QED BY <1>4, <1>6, <2>1, <2>5 DEF S, T, q, n
  <1> QED BY <1>1, <1>11, <1>12

(* Handling an event takes the first one away.                              *)
LEMMA HandlingThins ==
  ASSUME TypeOK, events # <<>>
  PROVE  /\ Thinned(Stream, Tail(events) \o radio.frames, 1, Len(Stream) + 1)
         /\ Len(Stream) >= 1 /\ Stream[1] = Head(events)
         /\ \A i \in 1 .. Len(Tail(events) \o radio.frames) :
                From(i, 1, Len(Stream) + 1) = i + 1
  <1> DEFINE q == events  f == radio.frames  S == Stream  T == Tail(events) \o radio.frames
             n == Len(events)  c == Len(Stream) + 1
  <1>1. /\ S \in Seq(Frames) /\ n \in Nat /\ Len(f) \in Nat /\ Len(S) = n + Len(f)
        /\ \A i \in 1 .. n : S[i] = q[i]
        /\ \A i \in n + 1 .. Len(S) : S[i] = f[i - n]
        /\ q \in Seq(Frames) /\ f \in Seq(Frames)
    BY StreamPlaces
  <1>2. /\ n >= 1 /\ Len(Tail(q)) = n - 1 /\ Head(q) = q[1]
        /\ \A i \in 1 .. n - 1 : Tail(q)[i] = q[i + 1]
        /\ Tail(q) \in Seq(Frames)
    BY <1>1
  <1>3. /\ T \in Seq(Frames) /\ Len(T) = (n - 1) + Len(f)
        /\ \A i \in 1 .. n - 1 : T[i] = Tail(q)[i]
        /\ \A i \in n .. Len(T) : T[i] = f[i - (n - 1)]
    BY <1>1, <1>2
  <1>4. S[1] = Head(events)
    BY <1>1, <1>2
  <1> HIDE DEF q, f, S, T, n
  <1>5. ASSUME NEW i \in 1 .. Len(T) PROVE T[i] = S[i + 1]
    <2>1. CASE i <= n - 1
      <3>1. i \in 1 .. n - 1 /\ i + 1 \in 1 .. n
        BY <1>1, <1>3, <2>1
      <3> QED BY <1>1, <1>2, <1>3, <3>1
    <2>2. CASE ~(i <= n - 1)
      <3>1. i \in n .. Len(T) /\ i + 1 \in n + 1 .. Len(S) /\ (i + 1) - n = i - (n - 1)
        BY <1>1, <1>3, <2>2
      <3> QED BY <1>1, <1>3, <3>1
    <2> QED BY <2>1, <2>2
  <1>6. /\ c \in Nat \ {0} /\ From(Len(T), 1, c) = Len(S)
        /\ \A i \in 1 .. Len(T) : From(i, 1, c) = i + 1
    BY <1>1, <1>2, <1>3 DEF From, S
  <1> HIDE DEF c
  <1>7. Thinned(S, T, 1, c)
    BY <1>1, <1>3, <1>5, <1>6 DEF Thinned
  <1> QED BY <1>1, <1>2, <1>4, <1>6, <1>7 DEF S, T, c

-----------------------------------------------------------------------------
(***************************************************************************)
(* The invariant of the stream.                                            *)
(***************************************************************************)

\* A module that restarts says that it is disconnected.
ResetsEnd(s) ==
    \A i \in 1 .. Len(s) : s[i].type = "RESET" => Later(s, i, {"DISCONNECTED"})

\* Between the connections to two hosts there is the end of the first one.
HostsApart(s) ==
    \A i, j \in 1 .. Len(s) :
        i < j /\ s[i].type = "CONNECTED" /\ s[j].type = "CONNECTED"
        => s[i].host = s[j].host \/ Between(s, i, j, Breakers)

\* That the module is reconnecting is the last it tells of the link, or known.
OtherLinks == LinkTypes \ {"RECONNECTING"}
ReconnectingKnown ==
    radio.st = "RECONNECTING" =>
        \/ \E i \in 1 .. Len(Stream) :
               Stream[i].type = "RECONNECTING" /\ ~Later(Stream, i, OtherLinks)
        \/ ~Has(Stream, LinkTypes) /\ wireless_state = "RECONNECTING"

\* Behind events that a transport switch collected comes the end of the connection.
FramesBreak ==
    phase = "keys" /\ events # <<>> => radio.frames = <<>> \/ Has(radio.frames, Breakers)

\* The module goes to sleep from pairing, so no connection is the last status
\* handled before that, unless the next thing handled ends it.
SleepKnown(s, last) ==
    \A i \in 1 .. Len(s) : s[i].type = "SLEEP" =>
        \/ \E k \in 1 .. i - 1 : s[k].type \in Breakers /\ ~Between(s, k, i, {"CONNECTED"})
        \/ last # "CONNECTED" /\ ~Between(s, 0, i, {"CONNECTED"})
        \/ Later(s, i, Breakers)

\* A connection handled last, with no other status to come, still is one.
ReportKnown == ~Has(Stream, LinkTypes) /\ reported = "CONNECTED" => radio.st = "CONNECTED"

TellInv ==
    /\ ResetsEnd(Stream) /\ HostsApart(Stream) /\ ReconnectingKnown /\ FramesBreak
    /\ SleepKnown(Stream, reported) /\ ReportKnown

(* What the sets of statuses have to do with each other.                    *)
LEMMA StatusSets ==
  /\ Breakers \subseteq LinkTypes /\ Breakers \subseteq Setters /\ Setters \subseteq LinkTypes
  /\ LinkTypes = Breakers \cup {"RESET", "CONNECTED"}
  /\ OtherLinks = LinkTypes \ {"RECONNECTING"}
  /\ "RESET" \notin Breakers /\ "CONNECTED" \notin Breakers /\ "SLEEP" \notin LinkTypes
  /\ "DISCONNECTED" \in Breakers /\ "RECONNECTING" \in Breakers /\ "CONNECTED" \in Setters
  BY DEF Breakers, LinkTypes, Setters, OtherLinks

\* s with more put behind it.
Longer(s, t) ==
    /\ s \in Seq(Frames) /\ t \in Seq(Frames) /\ Len(s) <= Len(t)
    /\ \A i \in 1 .. Len(s) : t[i] = s[i]

(* What is told of a place is told when more is said.                       *)
LEMMA LongerKeeps ==
  ASSUME NEW s, NEW t, Longer(s, t), NEW B
  PROVE  /\ Has(s, B) => Has(t, B)
         /\ \A i \in Nat : Later(s, i, B) => Later(t, i, B)
         /\ \A i \in Nat : \A j \in 1 .. Len(s) + 1 : Between(s, i, j, B) <=> Between(t, i, j, B)
  <1>1. /\ Len(s) \in Nat /\ Len(t) \in Nat /\ Len(s) <= Len(t)
        /\ \A i \in 1 .. Len(s) : t[i] = s[i]
    BY DEF Longer
  <1>2. Has(s, B) => Has(t, B)
    BY <1>1 DEF Has
  <1>3. ASSUME NEW i \in Nat, Later(s, i, B) PROVE Later(t, i, B)
    <2>1. PICK j \in i + 1 .. Len(s) : s[j].type \in B
      BY <1>3 DEF Later
    <2>2. j \in 1 .. Len(s) /\ j \in i + 1 .. Len(t)
      BY <1>1, <2>1
    <2> QED BY <1>1, <2>1, <2>2 DEF Later
  <1>4. ASSUME NEW i \in Nat, NEW j \in 1 .. Len(s) + 1
        PROVE  Between(s, i, j, B) <=> Between(t, i, j, B)
    <2>1. \A k \in i + 1 .. j - 1 : k \in 1 .. Len(s)
      BY <1>1
    <2>2. \A k \in i + 1 .. j - 1 : t[k] = s[k]
      BY <1>1, <2>1
    <2> QED BY <2>2 DEF Between
  <1> QED BY <1>2, <1>3, <1>4

(* Resets and hosts are as they should be in what is left of a stream.      *)
LEMMA ThinnedParts ==
  ASSUME NEW s, NEW t, NEW d, NEW c, Thinned(s, t, d, c), ResetsEnd(s), HostsApart(s)
  PROVE  ResetsEnd(t) /\ HostsApart(t)
  <1>1. /\ \A i \in 1 .. Len(t) : t[i] = s[From(i, d, c)] /\ From(i, d, c) \in 1 .. Len(s)
        /\ Len(s) \in Nat /\ Len(t) \in Nat
    BY ThinnedPlaces
  <1>2. \A i, j \in 1 .. Len(t) : i < j => From(i, d, c) <= From(j, d, c)
    BY ThinnedPlaces
  <1>3. ASSUME NEW i \in 1 .. Len(t), t[i].type = "RESET" PROVE Later(t, i, {"DISCONNECTED"})
    <2>1. Later(s, From(i, d, c), {"DISCONNECTED"})
      BY <1>1, <1>3 DEF ResetsEnd
    <2> QED BY <2>1, ThinnedKeeps
  <1>4. ASSUME NEW i \in 1 .. Len(t), NEW j \in 1 .. Len(t), i < j,
               t[i].type = "CONNECTED", t[j].type = "CONNECTED"
        PROVE  t[i].host = t[j].host \/ Between(t, i, j, Breakers)
    <2>1. /\ From(i, d, c) \in 1 .. Len(s) /\ From(j, d, c) \in 1 .. Len(s)
          /\ t[i] = s[From(i, d, c)] /\ t[j] = s[From(j, d, c)]
          /\ From(i, d, c) <= From(j, d, c)
      BY <1>1, <1>2, <1>4
    <2>2. CASE From(i, d, c) = From(j, d, c)
      BY <2>1, <2>2
    <2>3. CASE From(i, d, c) # From(j, d, c)
      <3>1. From(i, d, c) < From(j, d, c)
        BY <1>1, <2>1, <2>3
      <3>2. s[From(i, d, c)].host = s[From(j, d, c)].host
            \/ Between(s, From(i, d, c), From(j, d, c), Breakers)
        BY <1>4, <2>1, <3>1 DEF HostsApart
      <3> QED BY <2>1, <3>2, ThinnedKeeps
    <2> QED BY <2>2, <2>3
  <1>5. ResetsEnd(t)
    BY <1>3 DEF ResetsEnd
  <1>6. HostsApart(t)
    BY <1>4 DEF HostsApart
  <1> QED BY <1>5, <1>6

-----------------------------------------------------------------------------
\* What the module says when it is told something.

\* r went to t and said only what ends the indication of a connection.
Broke(r, t) ==
    /\ r \in Radios /\ t \in Radios
    /\ Extends(r, t) /\ Len(r.frames) < Len(t.frames)
    /\ \A i \in Len(r.frames) + 1 .. Len(t.frames) : t.frames[i].type \in Breakers
    /\ t.st = "RECONNECTING" => t.frames[Len(t.frames)].type = "RECONNECTING"

(* A module that moves says so.                                             *)
LEMMA MovedBroke ==
  ASSUME NEW r \in Radios, NEW st \in ModuleStates, NEW host \in Hosts,
         NEW status \in Breakers, st = "RECONNECTING" => status = "RECONNECTING"
  PROVE  Broke(r, Moved(r, st, host, status))
  <1> DEFINE m == Moved(r, st, host, status)  f == Status(status, host)
  <1>1. status \in Statuses
    BY DEF Breakers, Statuses
  <1>2. /\ m \in Radios /\ m.st = st
        /\ r.frames \in Seq(Frames) /\ f \in Frames /\ m.frames = Append(r.frames, f)
    <2>1. m = Moved(r, st, host, status) /\ f = Status(status, host)
      OBVIOUS
    <2> HIDE DEF m, f
    <2> QED BY <1>1, <2>1, MovedFields
  <1>3. f.type = status
    BY DEF Status
  <1> HIDE DEF m, f
  <1>4. /\ Len(m.frames) = Len(r.frames) + 1 /\ Len(r.frames) \in Nat
        /\ m.frames[Len(r.frames) + 1] = f
        /\ \A i \in 1 .. Len(r.frames) : m.frames[i] = r.frames[i]
    BY <1>2
  <1>5. Broke(r, m)
    BY <1>2, <1>3, <1>4 DEF Broke, Extends
  <1> QED BY <1>5 DEF m

(* Saying one thing and then another.                                       *)
LEMMA BrokeAgain ==
  ASSUME NEW r, NEW s, NEW t, Broke(r, s), Broke(s, t)
  PROVE  Broke(r, t)
  <1>1. Len(r.frames) \in Nat /\ Len(s.frames) \in Nat /\ Len(t.frames) \in Nat
    BY DEF Broke, Radios
  <1>2. Extends(r, t) /\ Len(r.frames) < Len(t.frames)
    BY <1>1 DEF Broke, Extends
  <1>3. ASSUME NEW i \in Len(r.frames) + 1 .. Len(t.frames)
        PROVE  t.frames[i].type \in Breakers
    <2>1. CASE i <= Len(s.frames)
      <3>1. i \in Len(r.frames) + 1 .. Len(s.frames) /\ i \in 1 .. Len(s.frames)
        BY <1>1, <2>1
      <3>2. t.frames[i] = s.frames[i] /\ s.frames[i].type \in Breakers
        BY <3>1 DEF Broke, Extends
      <3> QED BY <3>2
    <2>2. CASE ~(i <= Len(s.frames))
      <3>1. i \in Len(s.frames) + 1 .. Len(t.frames)
        BY <1>1, <2>2
      <3> QED BY <3>1 DEF Broke
    <2> QED BY <2>1, <2>2
  <1> QED BY <1>2, <1>3 DEF Broke

(* The commands of the firmware.                                            *)
LEMMA CommandsBreak ==
  ASSUME NEW r \in Radios
  PROVE  /\ Broke(r, Disconnected(r)) /\ Broke(r, Pairing(r))
         /\ \A h \in Hosts \cup {0, LastHost} :
                \/ /\ Connecting(r, h) = r /\ r.st \in {"RECONNECTING", "CONNECTED"}
                   /\ r.host = SlotOf(r, h)
                \/ Broke(r, Connecting(r, h))
  <1>1. r.host \in Hosts
    BY DEF Radios
  <1>2. Broke(r, Disconnected(r))
    BY <1>1, MovedBroke DEF Disconnected, ModuleStates, Breakers
  <1>3. ASSUME NEW st \in {"RECONNECTING", "DISCOVERABLE"}, NEW host \in Hosts
        PROVE  Broke(r, Moved(Released(r), st, host, st))
    <2>1. Released(r) \in Radios
      BY ReleasedType
    <2>2. Broke(Released(r), Moved(Released(r), st, host, st))
      BY <2>1, MovedBroke DEF ModuleStates, Breakers
    <2>3. Released(r) = r \/ Broke(r, Released(r))
      BY <1>2 DEF Released
    <2> QED BY <2>2, <2>3, BrokeAgain
  <1>4. Broke(r, Pairing(r))
    BY <1>1, <1>3 DEF Pairing
  <1>5. ASSUME NEW h \in Hosts \cup {0, LastHost}
        PROVE  \/ /\ Connecting(r, h) = r /\ r.st \in {"RECONNECTING", "CONNECTED"}
                  /\ r.host = SlotOf(r, h)
               \/ Broke(r, Connecting(r, h))
    <2>1. SlotOf(r, h) \in Hosts
      BY DEF SlotOf, Radios, Hosts
    <2>2. CASE r.st \in {"RECONNECTING", "CONNECTED"} /\ r.host = SlotOf(r, h)
      BY <2>2 DEF Connecting, SlotOf
    <2>3. CASE ~(r.st \in {"RECONNECTING", "CONNECTED"} /\ r.host = SlotOf(r, h))
      <3>1. Connecting(r, h) = Moved(Released(r), "RECONNECTING", SlotOf(r, h), "RECONNECTING")
        BY <2>3 DEF Connecting, SlotOf
      <3> QED BY <1>3, <2>1, <3>1
    <2> QED BY <2>2, <2>3
  <1> QED BY <1>2, <1>4, <1>5

\* What is left of the stream before the module says more.
Left == events' \o radio.frames

(* A stream that gets longer.                                               *)
LEMMA StreamGrows ==
  ASSUME TypeOK, TypeOK', Extends(radio, radio')
  PROVE  /\ Longer(Left, Stream') /\ Len(Left) \in Nat /\ Len(Stream') \in Nat
         /\ Len(events') \in Nat /\ Len(radio.frames) \in Nat
         /\ Len(Left) = Len(events') + Len(radio.frames)
         /\ Len(Stream') = Len(events') + Len(radio'.frames)
         /\ \A i \in Len(Left) + 1 .. Len(Stream') :
                /\ Stream'[i] = radio'.frames[i - Len(events')]
                /\ i - Len(events') \in Len(radio.frames) + 1 .. Len(radio'.frames)
  <1> DEFINE q == events'  f == radio.frames  g == radio'.frames  S == Left  T == Stream'
  <1>1. /\ S \in Seq(Frames) /\ Len(q) \in Nat /\ Len(f) \in Nat /\ Len(S) = Len(q) + Len(f)
        /\ \A i \in 1 .. Len(q) : S[i] = q[i]
        /\ \A i \in Len(q) + 1 .. Len(S) : S[i] = f[i - Len(q)]
    <2>1. q \in Seq(Frames) /\ f \in Seq(Frames) /\ S = q \o f
      BY DEF TypeOK, Radios, Left
    <2> HIDE DEF q, f, S
    <2> QED BY <2>1
  <1>2. /\ T \in Seq(Frames) /\ Len(g) \in Nat /\ Len(T) = Len(q) + Len(g)
        /\ \A i \in 1 .. Len(q) : T[i] = q[i]
        /\ \A i \in Len(q) + 1 .. Len(T) : T[i] = g[i - Len(q)]
    <2>1. q \in Seq(Frames) /\ g \in Seq(Frames) /\ T = q \o g
      BY DEF TypeOK, Radios, Stream
    <2> HIDE DEF q, g, T
    <2> QED BY <2>1
  <1>3. Len(f) <= Len(g) /\ \A i \in 1 .. Len(f) : g[i] = f[i]
    BY DEF Extends
  <1> HIDE DEF q, f, g, S, T
  <1>4. ASSUME NEW i \in 1 .. Len(S) PROVE T[i] = S[i]
    <2>1. CASE i <= Len(q)
      BY <1>1, <1>2, <2>1
    <2>2. CASE ~(i <= Len(q))
      <3>1. i \in Len(q) + 1 .. Len(S) /\ i \in Len(q) + 1 .. Len(T) /\ i - Len(q) \in 1 .. Len(f)
        BY <1>1, <1>2, <1>3, <2>2
      <3> QED BY <1>1, <1>2, <1>3, <3>1
    <2> QED BY <2>1, <2>2
  <1>5. Longer(S, T)
    BY <1>1, <1>2, <1>3, <1>4 DEF Longer
  <1>6. ASSUME NEW i \in Len(S) + 1 .. Len(T)
        PROVE  T[i] = g[i - Len(q)] /\ i - Len(q) \in Len(f) + 1 .. Len(g)
    BY <1>1, <1>2
  <1> QED BY <1>1, <1>2, <1>5, <1>6 DEF q, f, g, S, T

(* A connection that is told to end, whatever was told before.              *)
LEMMA BrokeTell ==
  ASSUME TypeOK, TypeOK', Broke(radio, radio'), ResetsEnd(Left), HostsApart(Left)
  PROVE  TellInv' /\ Has(Stream', Breakers)
  <1> DEFINE S == Left  T == Stream'  n == Len(Left)  m == Len(Stream')
             f == radio.frames  g == radio'.frames
  <1>1. /\ Longer(S, T) /\ n \in Nat /\ m \in Nat /\ m = Len(events') + Len(g)
        /\ \A i \in n + 1 .. m : /\ T[i] = g[i - Len(events')]
                                 /\ i - Len(events') \in Len(f) + 1 .. Len(g)
    BY StreamGrows DEF Broke
  <1>2. /\ Len(events') \in Nat /\ Len(f) \in Nat /\ n = Len(events') + Len(f)
    BY StreamGrows DEF Broke
  <1>3. /\ Len(f) < Len(g) /\ Len(g) \in Nat
        /\ \A i \in Len(f) + 1 .. Len(g) : g[i].type \in Breakers
        /\ radio'.st = "RECONNECTING" => g[Len(g)].type = "RECONNECTING"
    BY DEF Broke, Radios
  <1> HIDE DEF S, T, n, m, f, g
  <1>4. /\ n < m /\ m \in n + 1 .. m /\ m \in 1 .. m /\ m - Len(events') = Len(g)
        /\ \A i \in 1 .. n : T[i] = S[i]
        /\ \A i \in n + 1 .. m : T[i].type \in Breakers
    <2>1. n < m /\ m \in n + 1 .. m /\ m \in 1 .. m /\ m - Len(events') = Len(g)
      BY <1>1, <1>2, <1>3
    <2>2. \A i \in 1 .. n : T[i] = S[i]
      BY <1>1 DEF Longer, n, S
    <2> QED BY <1>1, <1>3, <2>1, <2>2
  <1>5. Has(T, Breakers) /\ Has(T, LinkTypes)
    BY <1>4, StatusSets DEF Has, m, T
  <1>6. Has(g, Breakers)
    <2>1. Len(g) \in Len(f) + 1 .. Len(g) /\ Len(g) \in 1 .. Len(g)
      BY <1>2, <1>3
    <2> QED BY <1>3, <2>1 DEF Has
  <1>7. ASSUME NEW i \in 1 .. m, T[i].type \notin Breakers PROVE i \in 1 .. n /\ T[i] = S[i]
    BY <1>1, <1>4, <1>7
  <1>8. ResetsEnd(T)
    <2> SUFFICES ASSUME NEW i \in 1 .. m, T[i].type = "RESET"
                 PROVE  Later(T, i, {"DISCONNECTED"})
      BY DEF ResetsEnd, m, T
    <2>1. i \in 1 .. n /\ S[i].type = "RESET"
      BY <1>7, StatusSets
    <2>2. Later(S, i, {"DISCONNECTED"}) /\ i \in Nat
      BY <2>1 DEF ResetsEnd, S, n
    <2> QED BY <1>1, <2>2, LongerKeeps
  <1>9. HostsApart(T)
    <2> SUFFICES ASSUME NEW i \in 1 .. m, NEW j \in 1 .. m, i < j,
                        T[i].type = "CONNECTED", T[j].type = "CONNECTED"
                 PROVE  T[i].host = T[j].host \/ Between(T, i, j, Breakers)
      BY DEF HostsApart, m, T
    <2>1. i \in 1 .. n /\ T[i] = S[i] /\ j \in 1 .. n /\ T[j] = S[j]
      BY <1>7, StatusSets
    <2>2. S[i].host = S[j].host \/ Between(S, i, j, Breakers)
      BY <2>1 DEF HostsApart, S, n
    <2>3. i \in Nat /\ j \in 1 .. Len(S) + 1
      BY <1>1, <2>1 DEF n, S
    <2> QED BY <1>1, <2>1, <2>2, <2>3, LongerKeeps
  <1>10. ReconnectingKnown'
    <2> SUFFICES ASSUME radio'.st = "RECONNECTING"
                 PROVE  \E i \in 1 .. m : T[i].type = "RECONNECTING" /\ ~Later(T, i, OtherLinks)
      BY DEF ReconnectingKnown, m, T
    <2>1. T[m].type = "RECONNECTING"
      BY <1>1, <1>3, <1>4
    <2>2. ~Later(T, m, OtherLinks)
      BY <1>4 DEF Later, m, T
    <2> QED BY <1>4, <2>1, <2>2
  <1>11. FramesBreak'
    BY <1>6 DEF FramesBreak, g
  <1>12. SleepKnown(T, reported')
    <2> SUFFICES ASSUME NEW i \in 1 .. m, T[i].type = "SLEEP" PROVE Later(T, i, Breakers)
      BY DEF SleepKnown, m, T
    <2>1. i \in 1 .. n
      BY <1>7, StatusSets
    <2>2. m \in i + 1 .. m /\ T[m].type \in Breakers
      BY <1>1, <1>4, <2>1
    <2> QED BY <2>2 DEF Later, m, T
  <1>13. ReportKnown'
    BY <1>5 DEF ReportKnown, T
  <1> QED BY <1>5, <1>8, <1>9, <1>10, <1>11, <1>12, <1>13 DEF TellInv, T

-----------------------------------------------------------------------------
\* The steps that preserve the invariant of the stream.

(* Without a connection, what the module told last ended one.               *)
LEMMA BrokenLast ==
  ASSUME TypeOK, AInv, ResetsEnd(Stream), radio.st # "CONNECTED"
  PROVE  \/ \E l \in 1 .. Len(Stream) :
                Stream[l].type \in Breakers /\ ~Later(Stream, l, LinkTypes)
         \/ ~Has(Stream, LinkTypes)
  <1>1. CASE \E i \in 1 .. Len(Stream) :
                Fits(Stream[i], radio) /\ ~Later(Stream, i, LinkTypes)
    <2>1. PICK i \in 1 .. Len(Stream) : Fits(Stream[i], radio) /\ ~Later(Stream, i, LinkTypes)
      BY <1>1
    <2>2. Stream[i].type \in LinkTypes /\ Stream[i].type # "CONNECTED"
      BY <2>1 DEF Fits
    <2>3. Stream[i].type # "RESET"
      <3> SUFFICES ASSUME Stream[i].type = "RESET" PROVE FALSE
        OBVIOUS
      <3>1. Later(Stream, i, {"DISCONNECTED"})
        BY DEF ResetsEnd
      <3>2. Later(Stream, i, LinkTypes)
        BY <3>1 DEF Later, LinkTypes
      <3> QED BY <2>1, <3>2
    <2> QED BY <2>1, <2>2, <2>3, StatusSets
  <1> QED BY <1>1, StreamTells

(* The module says one thing more.                                          *)
LEMMA SaidStream ==
  ASSUME TypeOK, TypeOK', events' = events, NEW st \in ModuleStates, NEW status \in Statuses,
         radio' = Moved(radio, st, radio.host, status)
  PROVE  /\ Longer(Stream, Stream') /\ Len(Stream') = Len(Stream) + 1
         /\ Len(Stream) \in Nat /\ Stream'[Len(Stream) + 1].type = status
         /\ Stream'[Len(Stream) + 1].host = radio.host
         /\ Longer(radio.frames, radio'.frames) /\ radio'.st = st
  <1> DEFINE f == Status(status, radio.host)
  <1>1. radio \in Radios /\ radio.host \in Hosts
    BY DEF TypeOK, Radios
  <1>2. /\ radio' \in Radios /\ radio'.st = st
        /\ radio.frames \in Seq(Frames) /\ f \in Frames /\ radio'.frames = Append(radio.frames, f)
    <2>1. f = Status(status, radio.host)
      OBVIOUS
    <2> HIDE DEF f
    <2> QED BY <1>1, <2>1, MovedFields
  <1>3. f.type = status /\ f.host = radio.host
    BY DEF Status
  <1> HIDE DEF f
  <1>4. /\ Len(radio'.frames) = Len(radio.frames) + 1 /\ Len(radio.frames) \in Nat
        /\ radio'.frames \in Seq(Frames) /\ radio'.frames[Len(radio.frames) + 1] = f
        /\ \A i \in 1 .. Len(radio.frames) : radio'.frames[i] = radio.frames[i]
    BY <1>2
  <1>5. Extends(radio, radio') /\ Longer(radio.frames, radio'.frames)
    BY <1>2, <1>4 DEF Extends, Longer
  <1>6. Left = Stream
    BY DEF Left, Stream
  <1>7. /\ Longer(Stream, Stream') /\ Len(Stream) \in Nat /\ Len(events') \in Nat
        /\ Len(Stream) = Len(events') + Len(radio.frames)
        /\ Len(Stream') = Len(events') + Len(radio'.frames)
        /\ \A i \in Len(Stream) + 1 .. Len(Stream') :
               Stream'[i] = radio'.frames[i - Len(events')]
    BY <1>5, <1>6, StreamGrows
  <1>8. /\ Len(Stream') = Len(Stream) + 1
        /\ Len(Stream) + 1 \in Len(Stream) + 1 .. Len(Stream')
        /\ (Len(Stream) + 1) - Len(events') = Len(radio.frames) + 1
    BY <1>4, <1>7
  <1>9. Stream'[Len(Stream) + 1] = f
    BY <1>4, <1>7, <1>8
  <1> QED BY <1>2, <1>3, <1>5, <1>7, <1>8, <1>9

(* What saying one thing more keeps of the invariant, whatever it is.       *)
LEMMA SaidTell ==
  ASSUME TypeOK, TypeOK', AInv, TellInv, UNCHANGED <<events, phase, reported>>,
         radio.st # "IDLE", NEW st \in ModuleStates, NEW status \in Statuses,
         status # "RESET", radio' = Moved(radio, st, radio.host, status)
  PROVE  /\ ResetsEnd(Stream') /\ FramesBreak'
         /\ status # "CONNECTED" => HostsApart(Stream')
         /\ status # "SLEEP" => SleepKnown(Stream', reported)
         /\ \A i \in 1 .. Len(Stream) : Stream[i].type = "SLEEP" =>
               \/ \E k \in 1 .. i - 1 : /\ Stream'[k].type \in Breakers
                                        /\ ~Between(Stream', k, i, {"CONNECTED"})
               \/ reported # "CONNECTED" /\ ~Between(Stream', 0, i, {"CONNECTED"})
               \/ Later(Stream', i, Breakers)
  <1> DEFINE S == Stream  T == Stream'  n == Len(Stream)
  <1>1. /\ Longer(S, T) /\ Len(T) = n + 1 /\ n \in Nat /\ n = Len(S) /\ T[n + 1].type = status
        /\ \A i \in 1 .. n : T[i] = S[i]
        /\ Longer(radio.frames, radio'.frames)
    BY SaidStream DEF Longer
  <1>2. ResetsEnd(S) /\ HostsApart(S) /\ SleepKnown(S, reported) /\ FramesBreak
    BY DEF TellInv
  <1> HIDE DEF S, T, n
  <1>3. ASSUME NEW i \in 1 .. n + 1, T[i].type # status
        PROVE  i \in 1 .. n /\ T[i] = S[i] /\ i \in Nat /\ i \in 1 .. Len(S) + 1
    <2>1. i # n + 1
      BY <1>1, <1>3
    <2> QED BY <1>1, <2>1
  <1>4. ResetsEnd(T)
    <2> SUFFICES ASSUME NEW i \in 1 .. n + 1, T[i].type = "RESET"
                 PROVE  Later(T, i, {"DISCONNECTED"})
      BY <1>1 DEF ResetsEnd
    <2>1. i \in 1 .. n /\ T[i] = S[i] /\ i \in Nat
      BY <1>3
    <2>2. Later(S, i, {"DISCONNECTED"})
      BY <1>1, <1>2, <2>1 DEF ResetsEnd
    <2> QED BY <1>1, <2>1, <2>2, LongerKeeps
  <1>5. ASSUME status # "CONNECTED" PROVE HostsApart(T)
    <2> SUFFICES ASSUME NEW i \in 1 .. n + 1, NEW j \in 1 .. n + 1, i < j,
                        T[i].type = "CONNECTED", T[j].type = "CONNECTED"
                 PROVE  T[i].host = T[j].host \/ Between(T, i, j, Breakers)
      BY <1>1 DEF HostsApart
    <2>1. i \in 1 .. n /\ T[i] = S[i] /\ i \in Nat
      BY <1>3, <1>5
    <2>2. j \in 1 .. n /\ T[j] = S[j] /\ j \in 1 .. Len(S) + 1
      BY <1>3, <1>5
    <2>3. S[i].host = S[j].host \/ Between(S, i, j, Breakers)
      BY <1>1, <1>2, <2>1, <2>2 DEF HostsApart
    <2> QED BY <1>1, <2>1, <2>2, <2>3, LongerKeeps
  <1>6. FramesBreak'
    <2> SUFFICES ASSUME phase = "keys", events # <<>> PROVE Has(radio'.frames, Breakers)
      BY DEF FramesBreak
    <2>1. ~Mute(radio.frames)
      BY NotIdle
    <2>2. radio.frames # <<>>
      BY <2>1 DEF Mute
    <2>3. Has(radio.frames, Breakers)
      BY <1>2, <2>2 DEF FramesBreak
    <2> QED BY <1>1, <2>3, LongerKeeps
  <1>7. ASSUME NEW i \in 1 .. n, S[i].type = "SLEEP"
        PROVE  \/ \E k \in 1 .. i - 1 : /\ T[k].type \in Breakers
                                        /\ ~Between(T, k, i, {"CONNECTED"})
               \/ reported # "CONNECTED" /\ ~Between(T, 0, i, {"CONNECTED"})
               \/ Later(T, i, Breakers)
    <2>0. i \in Nat /\ i \in 1 .. Len(S) + 1 /\ i \in 1 .. Len(S) /\ 0 \in Nat
      BY <1>1
    <2>1. CASE \E k \in 1 .. i - 1 : S[k].type \in Breakers /\ ~Between(S, k, i, {"CONNECTED"})
      <3>1. PICK k \in 1 .. i - 1 : S[k].type \in Breakers /\ ~Between(S, k, i, {"CONNECTED"})
        BY <2>1
      <3>2. k \in 1 .. n /\ k \in Nat
        BY <1>1, <2>0
      <3>3. ~Between(T, k, i, {"CONNECTED"})
        BY <1>1, <2>0, <3>1, <3>2, LongerKeeps
      <3> QED BY <1>1, <3>1, <3>2, <3>3
    <2>2. CASE reported # "CONNECTED" /\ ~Between(S, 0, i, {"CONNECTED"})
      BY <1>1, <2>0, <2>2, LongerKeeps
    <2>3. CASE Later(S, i, Breakers)
      BY <1>1, <2>0, <2>3, LongerKeeps
    <2> QED BY <1>2, <1>7, <2>0, <2>1, <2>2, <2>3 DEF SleepKnown
  <1>8. ASSUME status # "SLEEP" PROVE SleepKnown(T, reported)
    <2> SUFFICES ASSUME NEW i \in 1 .. n + 1, T[i].type = "SLEEP"
                 PROVE  \/ \E k \in 1 .. i - 1 : /\ T[k].type \in Breakers
                                                 /\ ~Between(T, k, i, {"CONNECTED"})
                        \/ reported # "CONNECTED" /\ ~Between(T, 0, i, {"CONNECTED"})
                        \/ Later(T, i, Breakers)
      BY <1>1 DEF SleepKnown
    <2>1. i \in 1 .. n /\ S[i].type = "SLEEP"
      BY <1>3, <1>8
    <2> QED BY <1>7, <2>1
  <1> QED BY <1>4, <1>5, <1>6, <1>7, <1>8 DEF S, T, n

(* The module connects.                                                     *)
LEMMA ConnectedTell ==
  ASSUME TypeOK, TypeOK', AInv, TellInv, UNCHANGED <<events, phase, reported>>,
         radio.st \in {"RECONNECTING", "DISCOVERABLE"},
         radio' = Moved(radio, "CONNECTED", radio.host, "CONNECTED")
  PROVE  TellInv'
  <1> DEFINE S == Stream  T == Stream'  n == Len(Stream)
  <1>0. /\ "CONNECTED" \in Statuses /\ "CONNECTED" \in ModuleStates
        /\ radio.st # "IDLE" /\ radio.st # "CONNECTED"
    BY DEF Statuses, ModuleStates
  <1>1. /\ Longer(S, T) /\ Len(T) = n + 1 /\ n \in Nat /\ n = Len(S)
        /\ T[n + 1].type = "CONNECTED"
        /\ \A i \in 1 .. n : T[i] = S[i]
        /\ radio'.st = "CONNECTED"
    BY <1>0, SaidStream DEF Longer
  <1>2. ResetsEnd(T) /\ FramesBreak' /\ SleepKnown(T, reported)
    BY <1>0, SaidTell
  <1>3. HostsApart(S) /\ ResetsEnd(S)
    BY DEF TellInv
  <1>4. \/ \E l \in 1 .. n : S[l].type \in Breakers /\ ~Later(S, l, LinkTypes)
        \/ ~Has(S, LinkTypes)
    BY <1>0, <1>3, BrokenLast
  <1> HIDE DEF S, T, n
  <1>5. ASSUME NEW i \in 1 .. n, S[i].type = "CONNECTED"
        PROVE  Between(T, i, n + 1, Breakers)
    <2>1. S[i].type \in LinkTypes
      BY <1>5, StatusSets
    <2>2. Has(S, LinkTypes)
      BY <1>1, <2>1 DEF Has
    <2>3. PICK l \in 1 .. n : S[l].type \in Breakers /\ ~Later(S, l, LinkTypes)
      BY <1>4, <2>2
    <2>4. ~(i \in l + 1 .. n)
      BY <1>1, <2>1, <2>3 DEF Later
    <2>5. i # l
      BY <1>5, <2>3, StatusSets
    <2>6. l \in i + 1 .. (n + 1) - 1
      BY <1>1, <2>4, <2>5
    <2> QED BY <1>1, <2>3, <2>6 DEF Between
  <1>6. HostsApart(T)
    <2> SUFFICES ASSUME NEW i \in 1 .. n + 1, NEW j \in 1 .. n + 1, i < j,
                        T[i].type = "CONNECTED", T[j].type = "CONNECTED"
                 PROVE  T[i].host = T[j].host \/ Between(T, i, j, Breakers)
      BY <1>1 DEF HostsApart
    <2>1. i \in 1 .. n /\ i \in Nat
      BY <1>1
    <2>2. CASE j = n + 1
      BY <1>1, <1>5, <2>1, <2>2
    <2>3. CASE j # n + 1
      <3>1. j \in 1 .. n /\ j \in 1 .. Len(S) + 1
        BY <1>1, <2>3
      <3>2. S[i].host = S[j].host \/ Between(S, i, j, Breakers)
        BY <1>1, <1>3, <2>1, <3>1 DEF HostsApart
      <3> QED BY <1>1, <2>1, <3>1, <3>2, LongerKeeps
    <2> QED BY <2>2, <2>3
  <1>7. ReconnectingKnown' /\ ReportKnown'
    BY <1>1 DEF ReconnectingKnown, ReportKnown
  <1> QED BY <1>2, <1>6, <1>7 DEF TellInv, T

(* The module says what tells no link state.                                *)
LEMMA MutterTell ==
  ASSUME TypeOK, TypeOK', AInv, TellInv, UNCHANGED <<events, phase, reported>>,
         radio.st # "IDLE", NEW st \in {"IDLE", "DISCOVERABLE", "CONNECTED"},
         NEW status \in Statuses \ LinkTypes,
         radio' = Moved(radio, st, radio.host, status),
         radio.st = "CONNECTED" <=> st = "CONNECTED",
         status = "SLEEP" => radio.st = "DISCOVERABLE"
  PROVE  TellInv' /\ \A B : B \subseteq LinkTypes => (Has(Stream', B) <=> Has(Stream, B))
  <1> DEFINE S == Stream  T == Stream'  n == Len(Stream)
  <1>0. /\ status \in Statuses /\ st \in ModuleStates /\ status \notin LinkTypes
        /\ status # "RESET" /\ status # "CONNECTED"
    BY StatusSets DEF Statuses, ModuleStates, LinkTypes
  <1>1. /\ Longer(S, T) /\ Len(T) = n + 1 /\ n \in Nat /\ n = Len(S)
        /\ T[n + 1].type = status
        /\ \A i \in 1 .. n : T[i] = S[i]
        /\ radio'.st = st
    BY <1>0, SaidStream DEF Longer
  <1>2. /\ ResetsEnd(T) /\ FramesBreak' /\ HostsApart(T)
        /\ status # "SLEEP" => SleepKnown(T, reported)
        /\ \A i \in 1 .. n : S[i].type = "SLEEP" =>
               \/ \E k \in 1 .. i - 1 : /\ T[k].type \in Breakers
                                        /\ ~Between(T, k, i, {"CONNECTED"})
               \/ reported # "CONNECTED" /\ ~Between(T, 0, i, {"CONNECTED"})
               \/ Later(T, i, Breakers)
    BY <1>0, SaidTell
  <1>3. ResetsEnd(S) /\ ReportKnown
    BY DEF TellInv
  <1> HIDE DEF S, T, n
  <1>4. ASSUME NEW B, B \subseteq LinkTypes PROVE Has(T, B) <=> Has(S, B)
    <2>1. ASSUME Has(T, B) PROVE Has(S, B)
      <3>1. PICK i \in 1 .. n + 1 : T[i].type \in B
        BY <1>1, <2>1 DEF Has
      <3>2. i # n + 1
        BY <1>0, <1>1, <1>4, <3>1
      <3>3. i \in 1 .. n
        BY <1>1, <3>2
      <3> QED BY <1>1, <3>1, <3>3 DEF Has
    <2> QED BY <1>1, <2>1, LongerKeeps
  <1>5. ASSUME status = "SLEEP"
        PROVE  \/ \E k \in 1 .. n : /\ T[k].type \in Breakers
                                    /\ ~Between(T, k, n + 1, {"CONNECTED"})
               \/ reported # "CONNECTED" /\ ~Between(T, 0, n + 1, {"CONNECTED"})
    <2>1. CASE \E l \in 1 .. n : S[l].type \in Breakers /\ ~Later(S, l, LinkTypes)
      <3>1. PICK l \in 1 .. n : S[l].type \in Breakers /\ ~Later(S, l, LinkTypes)
        BY <2>1
      <3>2. ASSUME NEW k \in l + 1 .. (n + 1) - 1 PROVE T[k].type # "CONNECTED"
        <4>1. k \in l + 1 .. n /\ k \in 1 .. n
          BY <1>1
        <4>2. S[k].type \notin LinkTypes
          BY <1>1, <3>1, <4>1 DEF Later
        <4> QED BY <1>1, <4>1, <4>2, StatusSets
      <3>3. ~Between(T, l, n + 1, {"CONNECTED"})
        BY <3>2 DEF Between
      <3> QED BY <1>1, <3>1, <3>3
    <2>2. CASE ~Has(S, LinkTypes)
      <3>1. reported # "CONNECTED"
        BY <1>3, <1>5, <2>2 DEF ReportKnown, S
      <3>2. ASSUME NEW k \in 0 + 1 .. (n + 1) - 1 PROVE T[k].type # "CONNECTED"
        <4>1. k \in 1 .. n
          BY <1>1
        <4>2. S[k].type \notin LinkTypes
          BY <1>1, <2>2, <4>1 DEF Has
        <4> QED BY <1>1, <4>1, <4>2, StatusSets
      <3> QED BY <3>1, <3>2 DEF Between
    <2>3. radio.st # "CONNECTED"
      BY <1>5
    <2> QED BY <1>3, <2>1, <2>2, <2>3, BrokenLast DEF S, n
  <1>6. SleepKnown(T, reported)
    <2>1. CASE status = "SLEEP"
      <3> SUFFICES ASSUME NEW i \in 1 .. n + 1, T[i].type = "SLEEP"
                   PROVE  \/ \E k \in 1 .. i - 1 : /\ T[k].type \in Breakers
                                                   /\ ~Between(T, k, i, {"CONNECTED"})
                          \/ reported # "CONNECTED" /\ ~Between(T, 0, i, {"CONNECTED"})
                          \/ Later(T, i, Breakers)
        BY <1>1 DEF SleepKnown
      <3>1. CASE i = n + 1
        <4>1. (n + 1) - 1 = n
          BY <1>1
        <4> QED BY <1>5, <2>1, <3>1, <4>1
      <3>2. CASE i # n + 1
        <4>1. i \in 1 .. n /\ S[i].type = "SLEEP"
          BY <1>1, <3>2
        <4> QED BY <1>2, <4>1
      <3> QED BY <3>1, <3>2
    <2> QED BY <1>2, <2>1
  <1>7. ReconnectingKnown'
    BY <1>1 DEF ReconnectingKnown
  <1>8. Has(T, LinkTypes) <=> Has(S, LinkTypes)
    BY <1>4
  <1>9. ReportKnown'
    BY <1>1, <1>3, <1>8 DEF ReportKnown, S, T
  <1> QED BY <1>2, <1>4, <1>6, <1>7, <1>9 DEF TellInv, S, T

\* The connections told are those told before, or come behind the end of one.
HostsKept ==
    \A j \in 1 .. Len(Stream') : Stream'[j].type = "CONNECTED" =>
        \/ Between(Stream', 0, j, Breakers)
        \/ \E i \in 1 .. Len(Stream) :
               /\ Stream[i] = Stream'[j]
               /\ Between(Stream, 0, i, Breakers) => Between(Stream', 0, j, Breakers)

(* The module restarts.                                                     *)
LEMMA ResetTell ==
  ASSUME TypeOK, TypeOK', TellInv, ModuleReset, reported' = reported
  PROVE  TellInv' /\ Has(Stream', Breakers) /\ HostsKept
  <1> DEFINE q == events  n == Len(events)  S == Stream  T == Stream'  g == radio'.frames
             r == [radio EXCEPT !.frames = <<>>, !.reads = 0, !.resets = radio.resets + 1]
             s == Moved(r, "IDLE", radio.host, "RESET")
             a == Status("RESET", radio.host)  b == Status("DISCONNECTED", s.host)
  <1>1. radio \in Radios /\ radio.resets < MaxResets /\ events' = events
    BY DEF TypeOK, ModuleReset, mcu
  <1>2. 0 \in 0 .. Repeats /\ radio.resets + 1 \in 0 .. MaxResets /\ <<>> \in Seq(Frames)
    BY <1>1 DEF Radios
  <1>3. r \in Radios /\ r.frames = <<>> /\ radio.host \in Hosts
    BY <1>1, <1>2 DEF Radios
  <1>4. "RESET" \in Statuses /\ "DISCONNECTED" \in Statuses /\ "IDLE" \in ModuleStates
    BY DEF Statuses, ModuleStates
  <1> HIDE DEF r
  <1>5. s \in Radios /\ s.host \in Hosts /\ s.frames = Append(<<>>, a) /\ a \in Frames
    BY <1>3, <1>4, MovedFields
  <1>6. radio' = Moved(s, "IDLE", s.host, "DISCONNECTED")
    BY DEF ModuleReset, r, Disconnected
  <1> HIDE DEF s
  <1>7. radio'.st = "IDLE" /\ g = Append(s.frames, b) /\ b \in Frames
    <2>1. b = Status("DISCONNECTED", s.host)
      OBVIOUS
    <2> HIDE DEF b
    <2>2. ASSUME NEW t \in Radios, NEW h \in Hosts
          PROVE  /\ Moved(t, "IDLE", h, "DISCONNECTED").st = "IDLE"
                 /\ Moved(t, "IDLE", h, "DISCONNECTED").frames
                    = Append(t.frames, Status("DISCONNECTED", h))
                 /\ Status("DISCONNECTED", h) \in Frames
      BY <1>4, MovedFields
    <2> QED BY <1>5, <1>6, <2>1, <2>2
  <1>8. a.type = "RESET" /\ b.type = "DISCONNECTED"
    BY DEF Status
  <1> HIDE DEF a, b
  <1>9. Len(g) = 2 /\ g[1].type = "RESET" /\ g[2].type = "DISCONNECTED" /\ g \in Seq(Frames)
    BY <1>5, <1>7, <1>8
  <1>10. q \in Seq(Frames) /\ n \in Nat /\ n = Len(q) /\ T = q \o g
    BY <1>1, StreamPlaces DEF Stream
  <1>11. Longer(q, S)
    BY StreamPlaces DEF Longer
  <1> HIDE DEF q, n, S, T, g
  <1>12. /\ T \in Seq(Frames) /\ Len(T) = n + 2 /\ T[n + 1] = g[1] /\ T[n + 2] = g[2]
         /\ \A i \in 1 .. n : T[i] = q[i]
    <2>0. q \in Seq(Frames) /\ g \in Seq(Frames) /\ T = q \o g
      BY <1>9, <1>10
    <2>1. /\ T \in Seq(Frames) /\ Len(T) = Len(q) + Len(g)
          /\ \A i \in 1 .. Len(q) : T[i] = q[i]
          /\ \A i \in Len(q) + 1 .. Len(q) + Len(g) : T[i] = g[i - Len(q)]
      BY <2>0
    <2>2. \A m \in Nat : /\ m + 1 \in m + 1 .. m + 2 /\ m + 2 \in m + 1 .. m + 2
                          /\ (m + 1) - m = 1 /\ (m + 2) - m = 2
      OBVIOUS
    <2>3. T[n + 1] = g[(n + 1) - n] /\ T[n + 2] = g[(n + 2) - n] /\ Len(T) = n + 2
      BY <1>9, <1>10, <2>1, <2>2
    <2> QED BY <1>10, <2>1, <2>2, <2>3
  <1>13. Longer(q, T)
    BY <1>10, <1>12 DEF Longer
  <1>14. ASSUME NEW i \in 1 .. n + 1, NEW B, "DISCONNECTED" \in B PROVE Later(T, i, B)
    <2>1. n + 2 \in i + 1 .. Len(T)
      BY <1>10, <1>12
    <2> QED BY <1>9, <1>12, <1>14, <2>1 DEF Later
  <1>15. n + 2 \in 1 .. Len(T) /\ T[n + 2].type = "DISCONNECTED"
    BY <1>9, <1>10, <1>12
  <1>16. Has(T, Breakers) /\ Has(T, LinkTypes)
    BY <1>15, StatusSets DEF Has
  <1>17. ASSUME NEW i \in 1 .. Len(T), T[i].type # "DISCONNECTED" PROVE i \in 1 .. n + 1
    BY <1>10, <1>12, <1>15, <1>17
  <1>18. ResetsEnd(T)
    BY <1>14, <1>17 DEF ResetsEnd
  <1>19. SleepKnown(T, reported')
    BY <1>14, <1>17, StatusSets DEF SleepKnown
  <1>20. ASSUME NEW j \in 1 .. Len(T), T[j].type = "CONNECTED"
         PROVE  /\ j \in 1 .. Len(S) /\ T[j] = S[j]
                /\ \A i \in Nat : Between(S, i, j, Breakers) <=> Between(T, i, j, Breakers)
    <2>1. j \in 1 .. n + 1 /\ j # n + 1
      BY <1>9, <1>12, <1>17, <1>20
    <2>2. j \in 1 .. n /\ j \in 1 .. Len(q) + 1
      <3>1. \A m \in Nat : \A k \in 1 .. m + 1 : k # m + 1 => k \in 1 .. m
        OBVIOUS
      <3> QED BY <1>10, <2>1, <3>1
    <2>3. j \in 1 .. Len(S) /\ T[j] = S[j]
      BY <1>10, <1>11, <1>12, <2>2 DEF Longer
    <2>4. \A i \in Nat : Between(S, i, j, Breakers) <=> Between(q, i, j, Breakers)
      BY <1>11, <2>2, LongerKeeps
    <2>5. \A i \in Nat : Between(T, i, j, Breakers) <=> Between(q, i, j, Breakers)
      BY <1>13, <2>2, LongerKeeps
    <2> QED BY <2>3, <2>4, <2>5
  <1>21. HostsApart(T)
    <2> SUFFICES ASSUME NEW i \in 1 .. Len(T), NEW j \in 1 .. Len(T), i < j,
                        T[i].type = "CONNECTED", T[j].type = "CONNECTED"
                 PROVE  T[i].host = T[j].host \/ Between(T, i, j, Breakers)
      BY DEF HostsApart
    <2>1. i \in 1 .. Len(S) /\ j \in 1 .. Len(S) /\ T[i] = S[i] /\ T[j] = S[j] /\ i \in Nat
      BY <1>20
    <2>2. S[i].host = S[j].host \/ Between(S, i, j, Breakers)
      BY <2>1 DEF TellInv, HostsApart, S
    <2> QED BY <1>20, <2>1, <2>2
  <1>22. HostsKept
    <2>1. 0 \in Nat
      OBVIOUS
    <2> QED BY <1>20, <2>1 DEF HostsKept, S, T
  <1>23. FramesBreak'
    <2>1. Has(g, Breakers)
      BY <1>9, StatusSets DEF Has
    <2> QED BY <2>1 DEF FramesBreak, g
  <1>24. ReconnectingKnown' /\ ReportKnown'
    BY <1>7, <1>16 DEF ReconnectingKnown, ReportKnown, T
  <1> QED BY <1>16, <1>18, <1>19, <1>21, <1>22, <1>23, <1>24 DEF TellInv, T

(* Behind an event that a full queue may lose there is the end of the       *)
(* connection.                                                              *)
LEMMA LostBeforeBreak ==
  ASSUME TypeOK, AInv, FramesBreak, ReadFrame, phase \in {"keys", "polling"}, events # <<>>
  PROVE  \E m \in 2 .. Len(Stream) : Stream[m].type \in Breakers
  <1> DEFINE f == radio.frames  n == Len(events)
  <1>1. /\ events \in Seq(Frames) /\ f \in Seq(Frames) /\ n \in Nat /\ Len(f) \in Nat
        /\ Len(Stream) = n + Len(f)
        /\ \A i \in 1 .. Len(f) : Stream[n + i] = f[i]
    BY StreamPlaces
  <1>2. f # <<>> /\ n >= 1 /\ Len(f) \in 1 .. Len(f)
    <2>1. f # <<>>
      BY DEF ReadFrame
    <2> QED BY <1>1, <2>1
  <1>3. \E i \in 1 .. Len(f) : f[i].type \in Breakers
    <2>1. CASE phase = "keys"
      BY <1>2, <2>1 DEF FramesBreak, Has
    <2>2. CASE phase = "polling"
      <3>1. f[Len(f)].type = "DISCONNECTED"
        BY <1>2, <2>2 DEF AInv, WhilePolling
      <3> QED BY <1>2, <3>1, StatusSets
    <2> QED BY <2>1, <2>2
  <1> HIDE DEF f, n
  <1>4. PICK i \in 1 .. Len(f) : f[i].type \in Breakers
    BY <1>3
  <1>5. n + i \in 2 .. Len(Stream)
    BY <1>1, <1>2, <1>4
  <1> QED BY <1>1, <1>4, <1>5

(* A frame is read.                                                         *)
LEMMA ReadTell ==
  ASSUME TypeOK, TypeOK', AInv, TellInv, ReadFrame, phase \in {"keys", "polling"},
         phase' # "keys", UNCHANGED <<wireless_state, reported>>
  PROVE  TellInv'
  <1> DEFINE S == Stream  T == Stream'
  <1>0. /\ ResetsEnd(S) /\ HostsApart(S) /\ SleepKnown(S, reported) /\ ReconnectingKnown
        /\ FramesBreak /\ ReportKnown
    BY DEF TellInv
  <1>1. PICK d \in {0, 1}, c \in Nat \ {0} : Thinned(S, T, d, c) /\ (d = 1 => events # <<>>)
    BY ReadThins
  <1>2. d = 1 => \E m \in 2 .. Len(S) : S[m].type \in Breakers
    BY <1>0, <1>1, LostBeforeBreak
  <1>3. radio'.st = radio.st
    BY ReadFields
  <1> HIDE DEF S, T
  <1>4. /\ Len(S) \in Nat /\ Len(T) \in Nat
        /\ \A i \in 1 .. Len(T) : T[i] = S[From(i, d, c)] /\ From(i, d, c) \in 1 .. Len(S)
        /\ \A i, j \in 1 .. Len(T) : i < j => From(i, d, c) <= From(j, d, c)
    BY <1>1, ThinnedPlaces
  <1>5. ASSUME NEW k \in 1 .. Len(S), k > d
        PROVE  \E l \in 1 .. Len(T) : /\ From(l, d, c) = k /\ T[l] = S[k]
                                      /\ \A i \in 1 .. Len(T) : k < From(i, d, c) => l < i
    <2>1. k \in d + 1 .. Len(S)
      BY <1>4, <1>5
    <2>2. PICK l \in 1 .. Len(T) :
              From(l, d, c) = k /\ \A i \in 1 .. Len(T) : k < From(i, d, c) => l < i
      BY <1>1, <2>1, Places
    <2> QED BY <1>4, <2>2
  <1>6. ResetsEnd(T) /\ HostsApart(T)
    BY <1>0, <1>1, ThinnedParts
  <1>7. FramesBreak'
    BY DEF FramesBreak
  <1>8. Has(T, LinkTypes) <=> Has(S, LinkTypes)
    <2>1. Has(T, LinkTypes) => Has(S, LinkTypes)
      BY <1>1, ThinnedAdds
    <2>2. ASSUME Has(S, LinkTypes) PROVE Has(T, LinkTypes)
      <3>1. CASE d = 1
        <4>1. PICK m \in 2 .. Len(S) : S[m].type \in Breakers
          BY <1>2, <3>1
        <4>2. m \in 1 .. Len(S) /\ m > d
          BY <1>4, <3>1, <4>1
        <4>3. PICK l \in 1 .. Len(T) : T[l] = S[m]
          BY <1>5, <4>2
        <4> QED BY <4>1, <4>3, StatusSets DEF Has
      <3>2. CASE d # 1
        BY <1>1, <2>2, <3>2, ThinnedKeeps
      <3> QED BY <3>1, <3>2
    <2> QED BY <2>1, <2>2
  <1>9. ReportKnown'
    BY <1>0, <1>3, <1>8 DEF ReportKnown, S, T
  <1>10. ReconnectingKnown'
    <2> SUFFICES ASSUME radio.st = "RECONNECTING"
                 PROVE  \/ \E i \in 1 .. Len(T) :
                               T[i].type = "RECONNECTING" /\ ~Later(T, i, OtherLinks)
                        \/ ~Has(T, LinkTypes) /\ wireless_state = "RECONNECTING"
      BY <1>3 DEF ReconnectingKnown, T
    <2>1. CASE ~Has(S, LinkTypes) /\ wireless_state = "RECONNECTING"
      BY <1>8, <2>1
    <2>2. CASE \E k \in 1 .. Len(S) : S[k].type = "RECONNECTING" /\ ~Later(S, k, OtherLinks)
      <3>1. PICK k \in 1 .. Len(S) : S[k].type = "RECONNECTING" /\ ~Later(S, k, OtherLinks)
        BY <2>2
      <3>2. \E j \in 1 .. Len(S) : j > d /\ S[j].type = "RECONNECTING" /\ ~Later(S, j, OtherLinks)
        <4>1. CASE k > d
          BY <3>1, <4>1
        <4>2. CASE ~(k > d)
          <5>1. d = 1 /\ k = 1
            BY <1>1, <1>4, <4>2
          <5>2. PICK m \in 2 .. Len(S) : S[m].type \in Breakers
            BY <1>2, <5>1
          <5>3. m \in k + 1 .. Len(S) /\ m \in 1 .. Len(S) /\ m > d
            BY <1>4, <5>1, <5>2
          <5>4. S[m].type \notin OtherLinks
            BY <3>1, <5>3 DEF Later
          <5>5. S[m].type = "RECONNECTING"
            BY <5>2, <5>4, StatusSets
          <5>6. ~Later(S, m, OtherLinks)
            <6>1. \A j \in m + 1 .. Len(S) : j \in k + 1 .. Len(S)
              BY <1>4, <5>1, <5>3
            <6> QED BY <3>1, <6>1 DEF Later
          <5> QED BY <5>3, <5>5, <5>6
        <4> QED BY <4>1, <4>2
      <3>3. PICK j \in 1 .. Len(S) :
                j > d /\ S[j].type = "RECONNECTING" /\ ~Later(S, j, OtherLinks)
        BY <3>2
      <3>4. PICK l \in 1 .. Len(T) : From(l, d, c) = j /\ T[l] = S[j]
        BY <1>5, <3>3
      <3>5. ~Later(T, l, OtherLinks)
        <4>1. T[l].type \notin OtherLinks
          BY <3>3, <3>4, StatusSets
        <4> QED BY <1>1, <3>3, <3>4, <4>1, ThinnedAdds
      <3> QED BY <3>3, <3>4, <3>5
    <2> QED BY <1>0, <2>1, <2>2 DEF ReconnectingKnown, S
  <1>11. SleepKnown(T, reported)
    <2> SUFFICES ASSUME NEW i \in 1 .. Len(T), T[i].type = "SLEEP"
                 PROVE  \/ \E k \in 1 .. i - 1 : /\ T[k].type \in Breakers
                                                 /\ ~Between(T, k, i, {"CONNECTED"})
                        \/ reported # "CONNECTED" /\ ~Between(T, 0, i, {"CONNECTED"})
                        \/ Later(T, i, Breakers)
      BY DEF SleepKnown
    <2> DEFINE j == From(i, d, c)
    <2>1. j \in 1 .. Len(S) /\ S[j].type = "SLEEP" /\ T[i] = S[j]
      BY <1>4
    <2>2. CASE Later(S, j, Breakers)
      BY <1>1, <2>2, ThinnedKeeps
    <2>3. CASE reported # "CONNECTED" /\ ~Between(S, 0, j, {"CONNECTED"})
      <3>1. T[i].type \notin {"CONNECTED"}
        OBVIOUS
      <3> QED BY <1>1, <2>3, <3>1, ThinnedAdds
    <2>4. ASSUME NEW k \in 1 .. j - 1, k > d, S[k].type \in Breakers,
                 ~Between(S, k, j, {"CONNECTED"})
          PROVE  \E l \in 1 .. i - 1 : /\ T[l].type \in Breakers
                                       /\ ~Between(T, l, i, {"CONNECTED"})
      <3> HIDE DEF j
      <3>1. k \in 1 .. Len(S) /\ k < j
        BY <1>4, <2>1, <2>4
      <3>2. PICK l \in 1 .. Len(T) : /\ From(l, d, c) = k /\ T[l] = S[k] /\ l < i
        BY <1>5, <2>4, <3>1 DEF j
      <3>3. l \in 1 .. i - 1
        BY <1>4, <3>2
      <3>4. T[i].type \notin {"CONNECTED"} /\ T[l].type \notin {"CONNECTED"}
        BY <2>4, <3>2, StatusSets
      <3>5. ~Between(T, l, i, {"CONNECTED"})
        BY <1>1, <2>4, <3>2, <3>4, ThinnedAdds DEF j
      <3> QED BY <2>4, <3>2, <3>3, <3>5
    <2>5. CASE \E k \in 1 .. j - 1 : S[k].type \in Breakers /\ ~Between(S, k, j, {"CONNECTED"})
      <3>1. PICK k \in 1 .. j - 1 : S[k].type \in Breakers /\ ~Between(S, k, j, {"CONNECTED"})
        BY <2>5
      <3> HIDE DEF j
      <3>2. CASE k > d
        BY <2>4, <3>1, <3>2
      <3>3. CASE ~(k > d)
        <4>1. d = 1 /\ k = 1
          BY <1>1, <2>1, <3>1, <3>3
        <4>2. PICK m \in 2 .. Len(S) : S[m].type \in Breakers
          BY <1>2, <4>1
        <4>3. m # j
          BY <2>1, <4>2, StatusSets
        <4>4. CASE m < j
          <5>1. m \in 1 .. j - 1 /\ m > d
            BY <1>4, <2>1, <4>1, <4>2, <4>4
          <5>2. \A x \in m + 1 .. j - 1 : x \in k + 1 .. j - 1
            BY <2>1, <4>1, <4>2, <5>1
          <5>3. ~Between(S, m, j, {"CONNECTED"})
            BY <3>1, <5>2 DEF Between
          <5> QED BY <2>4, <4>2, <5>1, <5>3
        <4>5. CASE ~(m < j)
          <5>1. m \in j + 1 .. Len(S)
            BY <1>4, <2>1, <4>2, <4>3, <4>5
          <5>2. Later(S, j, Breakers)
            BY <4>2, <5>1 DEF Later
          <5> QED BY <2>2, <5>2
        <4> QED BY <4>4, <4>5
      <3> QED BY <3>2, <3>3
    <2> QED BY <1>0, <2>1, <2>2, <2>3, <2>5 DEF SleepKnown
  <1> QED BY <1>6, <1>7, <1>9, <1>10, <1>11 DEF TellInv, T

-----------------------------------------------------------------------------
\* Handling an event.

\* t is what is left of s when its first status is gone.
Behind(s, t) ==
    /\ s \in Seq(Frames) /\ t \in Seq(Frames) /\ Len(s) = Len(t) + 1
    /\ \A i \in 1 .. Len(t) : t[i] = s[i + 1]

(* What is left tells the same, without the first.                          *)
LEMMA BehindTells ==
  ASSUME NEW s, NEW t, Behind(s, t), NEW B
  PROVE  /\ \A i \in 0 .. Len(t) : Later(t, i, B) <=> Later(s, i + 1, B)
         /\ \A i \in 0 .. Len(t) : \A j \in 1 .. Len(t) :
                Between(t, i, j, B) <=> Between(s, i + 1, j + 1, B)
         /\ Has(s, B) <=> s[1].type \in B \/ Has(t, B)
         /\ Has(t, B) <=> Later(s, 1, B)
  <1>1. /\ Len(t) \in Nat /\ Len(s) = Len(t) + 1 /\ \A i \in 1 .. Len(t) : t[i] = s[i + 1]
    BY DEF Behind
  <1>2. ASSUME NEW i \in 0 .. Len(t) PROVE Later(t, i, B) <=> Later(s, i + 1, B)
    <2>1. ASSUME Later(t, i, B) PROVE Later(s, i + 1, B)
      <3>1. PICK k \in i + 1 .. Len(t) : t[k].type \in B
        BY <2>1 DEF Later
      <3>2. k \in 1 .. Len(t) /\ k + 1 \in (i + 1) + 1 .. Len(s)
        BY <1>1, <3>1
      <3> QED BY <1>1, <3>1, <3>2 DEF Later
    <2>2. ASSUME Later(s, i + 1, B) PROVE Later(t, i, B)
      <3>1. PICK k \in (i + 1) + 1 .. Len(s) : s[k].type \in B
        BY <2>2 DEF Later
      <3>2. k - 1 \in 1 .. Len(t) /\ k - 1 \in i + 1 .. Len(t) /\ (k - 1) + 1 = k
        BY <1>1, <3>1
      <3>3. t[k - 1] = s[k]
        BY <1>1, <3>2
      <3> QED BY <3>1, <3>2, <3>3 DEF Later
    <2> QED BY <2>1, <2>2
  <1>3. ASSUME NEW i \in 0 .. Len(t), NEW j \in 1 .. Len(t)
        PROVE  Between(t, i, j, B) <=> Between(s, i + 1, j + 1, B)
    <2>1. ASSUME Between(t, i, j, B) PROVE Between(s, i + 1, j + 1, B)
      <3>1. PICK k \in i + 1 .. j - 1 : t[k].type \in B
        BY <2>1 DEF Between
      <3>2. k \in 1 .. Len(t) /\ k + 1 \in (i + 1) + 1 .. (j + 1) - 1
        BY <1>1, <3>1
      <3> QED BY <1>1, <3>1, <3>2 DEF Between
    <2>2. ASSUME Between(s, i + 1, j + 1, B) PROVE Between(t, i, j, B)
      <3>1. PICK k \in (i + 1) + 1 .. (j + 1) - 1 : s[k].type \in B
        BY <2>2 DEF Between
      <3>2. k - 1 \in 1 .. Len(t) /\ k - 1 \in i + 1 .. j - 1 /\ (k - 1) + 1 = k
        BY <1>1, <3>1
      <3>3. t[k - 1] = s[k]
        BY <1>1, <3>2
      <3> QED BY <3>1, <3>2, <3>3 DEF Between
    <2> QED BY <2>1, <2>2
  <1>4. Has(t, B) <=> Later(t, 0, B)
    BY <1>1 DEF Has, Later
  <1>5. Has(t, B) <=> Later(s, 1, B)
    <2>1. 0 \in 0 .. Len(t) /\ 0 + 1 = 1
      BY <1>1
    <2> QED BY <1>2, <1>4, <2>1
  <1>6. Has(s, B) <=> s[1].type \in B \/ Later(s, 1, B)
    <2>1. ASSUME NEW k \in 1 .. Len(s) PROVE k = 1 \/ k \in 1 + 1 .. Len(s)
      BY <1>1
    <2>2. 1 \in 1 .. Len(s) /\ \A k \in 1 + 1 .. Len(s) : k \in 1 .. Len(s)
      BY <1>1
    <2> QED BY <2>1, <2>2 DEF Has, Later
  <1> QED BY <1>2, <1>3, <1>5, <1>6

(* What the handler of the first event does to the connection.              *)
LEMMA HandledFields ==
  ASSUME TypeOK, EventTask, NEW e, e = Head(events)
  PROVE  /\ events # <<>> /\ events' = Tail(events) /\ e \in Frames
         /\ phase' = "events" /\ transport' = transport
         /\ e.type = "CONNECTED" => wireless_state' = "CONNECTED" /\ host_index' = e.host
         /\ e.type = "RECONNECTING" => wireless_state' = "RECONNECTING"
         /\ e.type = "DISCOVERABLE" => wireless_state' = "PARING"
         /\ e.type \notin LinkTypes =>
                /\ host_index' = host_index
                /\ wireless_state' # wireless_state => e.type = "SLEEP" /\ wireless_state = "PARING"
         /\ \/ radio' = radio
            \/ e.type = "DISCONNECTED" /\ radio' = Connecting(radio, 0)
  <1>0. events \in Seq(Frames) /\ events # <<>>
    BY DEF TypeOK, EventTask
  <1>1. e \in Frames /\ e.type \in Statuses
    <2>1. e \in Frames
      BY <1>0
    <2> QED BY <2>1 DEF Frames
  <1>2. /\ events # <<>> /\ events' = Tail(events) /\ phase' = "events" /\ transport' = transport
    BY DEF EventTask
  <1>3. CASE e.type \in {"RESET", "CONNECTED", "DISCOVERABLE", "RECONNECTING"}
    BY <1>1, <1>2, <1>3 DEF EventTask, Enter, LinkTypes
  <1>4. CASE e.type = "DISCONNECTED"
    BY <1>1, <1>2, <1>4 DEF EventTask, EnterDisconnected, EnterDisconnectedKb, LinkTypes
  <1>5. CASE e.type = "SLEEP"
    BY <1>1, <1>2, <1>5 DEF EventTask, EnterSleep, LinkTypes
  <1>6. CASE e.type \in {"PINCODE_ENTRY", "EXIT_PINCODE_ENTRY", "HID_INDICATOR"}
    BY <1>1, <1>2, <1>6 DEF EventTask, LinkTypes
  <1> QED BY <1>1, <1>3, <1>4, <1>5, <1>6 DEF Statuses

(* Handling an event takes the first status away, before the module says    *)
(* more.                                                                    *)
LEMMA HandlingBehind ==
  ASSUME TypeOK, events # <<>>, events' = Tail(events)
  PROVE  /\ Behind(Stream, Left) /\ Stream[1] = Head(events) /\ Len(Stream) >= 1
         /\ Thinned(Stream, Left, 1, Len(Stream) + 1)
  <1>1. /\ Thinned(Stream, Left, 1, Len(Stream) + 1)
        /\ Len(Stream) >= 1 /\ Stream[1] = Head(events)
        /\ \A i \in 1 .. Len(Left) : From(i, 1, Len(Stream) + 1) = i + 1
    BY HandlingThins DEF Left
  <1>2. /\ Stream \in Seq(Frames) /\ Left \in Seq(Frames)
        /\ From(Len(Left), 1, Len(Stream) + 1) = Len(Stream)
        /\ \A i \in 1 .. Len(Left) : Left[i] = Stream[From(i, 1, Len(Stream) + 1)]
    BY <1>1 DEF Thinned
  <1>3. \A i \in 1 .. Len(Left) : Left[i] = Stream[i + 1]
    BY <1>1, <1>2
  <1>4. Len(Stream) \in Nat /\ Len(Left) \in Nat
    BY <1>2
  <1>5. Len(Stream) = Len(Left) + 1
    <2>1. \A m, n \in Nat : From(m, 1, n + 1) = n => n = m + 1 \/ (m = n + 2 /\ n = m + 1 - 1)
      BY DEF From
    <2>2. \A m, n \in Nat : ~(m = n + 2 /\ n = m + 1 - 1)
      OBVIOUS
    <2> QED BY <1>2, <1>4, <2>1, <2>2
  <1> QED BY <1>1, <1>2, <1>3, <1>5 DEF Behind

(* The first event is handled and the module says nothing.                  *)
LEMMA HandledTell ==
  ASSUME TypeOK, TypeOK', AInv, TellInv, EventTask, radio' = radio, NEW e, e = Head(events),
         reported' = IF e.type \in ConnectionStatuses THEN e.type ELSE reported
  PROVE  TellInv'
  <1> DEFINE S == Stream  T == Stream'  n == Len(Stream')
  <1>0. /\ ResetsEnd(S) /\ HostsApart(S) /\ SleepKnown(S, reported) /\ ReconnectingKnown
        /\ ReportKnown
    BY DEF TellInv
  <1>1. /\ events # <<>> /\ events' = Tail(events) /\ phase' = "events"
        /\ e.type = "RECONNECTING" => wireless_state' = "RECONNECTING"
        /\ e.type \notin LinkTypes /\ wireless_state = "RECONNECTING"
           => wireless_state' = "RECONNECTING"
    BY HandledFields
  <1>2. T = Left
    BY DEF Left, Stream
  <1>3. Behind(S, T) /\ S[1] = e /\ Thinned(S, T, 1, Len(S) + 1)
    BY <1>1, <1>2, HandlingBehind
  <1>4. LinkTypes \subseteq ConnectionStatuses
    BY DEF LinkTypes, ConnectionStatuses, Statuses
  <1> HIDE DEF S, T, n
  <1>5. /\ n \in Nat /\ n = Len(T) /\ Len(S) = n + 1 /\ \A i \in 1 .. n : T[i] = S[i + 1]
    BY <1>3 DEF Behind, n, T
  <1>6. ResetsEnd(T) /\ HostsApart(T)
    BY <1>0, <1>3, ThinnedParts
  <1>7. FramesBreak'
    BY <1>1 DEF FramesBreak
  <1>8. Has(S, LinkTypes) <=> e.type \in LinkTypes \/ Has(T, LinkTypes)
    BY <1>3, BehindTells
  <1>9. ASSUME NEW k \in 1 .. n + 1, k # 1
        PROVE  k - 1 \in 1 .. n /\ T[k - 1] = S[k] /\ (k - 1) + 1 = k /\ k - 1 \in 0 .. n
    <2>1. k - 1 \in 1 .. n /\ (k - 1) + 1 = k /\ k - 1 \in 0 .. n
      BY <1>5, <1>9
    <2> QED BY <1>5, <2>1
  <1>10. ReconnectingKnown'
    <2> SUFFICES ASSUME radio.st = "RECONNECTING"
                 PROVE  \/ \E i \in 1 .. n :
                               T[i].type = "RECONNECTING" /\ ~Later(T, i, OtherLinks)
                        \/ ~Has(T, LinkTypes) /\ wireless_state' = "RECONNECTING"
      BY DEF ReconnectingKnown, T, n
    <2>1. CASE ~Has(S, LinkTypes) /\ wireless_state = "RECONNECTING"
      BY <1>1, <1>8, <2>1
    <2>2. ASSUME NEW k \in 1 .. n + 1, k # 1, S[k].type = "RECONNECTING",
                 ~Later(S, k, OtherLinks)
          PROVE  T[k - 1].type = "RECONNECTING" /\ ~Later(T, k - 1, OtherLinks)
      <3>1. k - 1 \in 1 .. n /\ T[k - 1] = S[k] /\ (k - 1) + 1 = k /\ k - 1 \in 0 .. n
        BY <1>9, <2>2
      <3>2. Later(T, k - 1, OtherLinks) <=> Later(S, (k - 1) + 1, OtherLinks)
        BY <1>3, <1>5, <3>1, BehindTells
      <3> QED BY <2>2, <3>1, <3>2
    <2>3. CASE e.type = "RECONNECTING" /\ ~Later(S, 1, OtherLinks)
      <3>1. ~Has(T, OtherLinks)
        BY <1>3, <2>3, BehindTells
      <3>2. CASE Has(T, LinkTypes)
        <4>1. PICK i \in 1 .. n : T[i].type \in LinkTypes
          BY <1>5, <3>2 DEF Has
        <4>2. T[i].type = "RECONNECTING"
          BY <1>5, <3>1, <4>1, StatusSets DEF Has
        <4>3. ~Later(T, i, OtherLinks)
          <5>1. \A j \in i + 1 .. n : j \in 1 .. n
            BY <1>5
          <5> QED BY <1>5, <3>1, <5>1 DEF Later, Has
        <4> QED BY <4>2, <4>3
      <3> QED BY <1>1, <2>3, <3>2
    <2>4. CASE \E k \in 1 .. n + 1 : S[k].type = "RECONNECTING" /\ ~Later(S, k, OtherLinks)
      <3>1. PICK k \in 1 .. n + 1 : S[k].type = "RECONNECTING" /\ ~Later(S, k, OtherLinks)
        BY <2>4
      <3>2. CASE k = 1
        BY <1>3, <2>3, <3>1, <3>2
      <3>3. CASE k # 1
        BY <1>9, <2>2, <3>1, <3>3
      <3> QED BY <3>2, <3>3
    <2> QED BY <1>0, <1>5, <2>1, <2>4 DEF ReconnectingKnown, S
  <1>11. SleepKnown(T, reported')
    <2> SUFFICES ASSUME NEW i \in 1 .. n, T[i].type = "SLEEP"
                 PROVE  \/ \E k \in 1 .. i - 1 : /\ T[k].type \in Breakers
                                                 /\ ~Between(T, k, i, {"CONNECTED"})
                        \/ reported' # "CONNECTED" /\ ~Between(T, 0, i, {"CONNECTED"})
                        \/ Later(T, i, Breakers)
      BY <1>5 DEF SleepKnown
    <2> DEFINE C == {"CONNECTED"}
    <2>1. i + 1 \in 1 .. Len(S) /\ S[i + 1].type = "SLEEP" /\ i \in 0 .. n /\ 0 \in 0 .. n
      BY <1>5
    <2>2. /\ Later(T, i, Breakers) <=> Later(S, i + 1, Breakers)
          /\ \A k \in 0 .. n : Between(T, k, i, C) <=> Between(S, k + 1, i + 1, C)
      BY <1>3, <1>5, <2>1, BehindTells
    <2> HIDE DEF C
    <2>3. CASE Later(S, i + 1, Breakers)
      BY <2>2, <2>3
    <2>4. CASE reported # "CONNECTED" /\ ~Between(S, 0, i + 1, C)
      <3>1. 1 \in 0 + 1 .. (i + 1) - 1 /\ \A k \in (0 + 1) + 1 .. (i + 1) - 1 : k \in 0 + 1 .. (i + 1) - 1
        BY <1>5
      <3>2. e.type # "CONNECTED"
        BY <1>3, <2>4, <3>1 DEF Between, C
      <3>3. ~Between(S, 0 + 1, i + 1, C)
        BY <2>4, <3>1 DEF Between
      <3>4. ~Between(T, 0, i, C)
        BY <2>1, <2>2, <3>3
      <3> QED BY <2>4, <3>2, <3>4 DEF C
    <2>5. CASE \E k \in 1 .. (i + 1) - 1 : S[k].type \in Breakers /\ ~Between(S, k, i + 1, C)
      <3>1. PICK k \in 1 .. (i + 1) - 1 : S[k].type \in Breakers /\ ~Between(S, k, i + 1, C)
        BY <2>5
      <3>2. CASE k = 1
        <4>1. reported' # "CONNECTED"
          BY <1>3, <1>4, <3>1, <3>2, StatusSets
        <4>2. ~Between(T, 0, i, C)
          <5>1. 0 + 1 = k
            BY <3>2
          <5> QED BY <2>1, <2>2, <3>1, <5>1
        <4> QED BY <4>1, <4>2 DEF C
      <3>3. CASE k # 1
        <4>1. k \in 1 .. n + 1 /\ k - 1 \in 1 .. i - 1
          BY <1>5, <3>3
        <4>2. T[k - 1] = S[k] /\ (k - 1) + 1 = k /\ k - 1 \in 0 .. n
          BY <1>9, <3>3, <4>1
        <4>3. ~Between(T, k - 1, i, C)
          BY <2>2, <3>1, <4>2
        <4> QED BY <3>1, <4>1, <4>2, <4>3 DEF C
      <3> QED BY <3>2, <3>3
    <2> QED BY <1>0, <2>1, <2>3, <2>4, <2>5 DEF SleepKnown, C
  <1>12. ReportKnown'
    <2> SUFFICES ASSUME ~Has(T, LinkTypes), reported' = "CONNECTED"
                 PROVE  radio.st = "CONNECTED"
      BY DEF ReportKnown, T
    <2>1. CASE e.type \in ConnectionStatuses
      <3>1. e.type = "CONNECTED" /\ e.type \in LinkTypes
        BY <2>1, StatusSets
      <3>2. Has(S, LinkTypes)
        BY <1>8, <3>1
      <3>3. PICK i \in 1 .. Len(S) : Fits(S[i], radio)
        BY <3>2, StreamTells DEF S
      <3>4. i = 1
        <4> SUFFICES ASSUME i # 1 PROVE FALSE
          OBVIOUS
        <4>1. i - 1 \in 1 .. n /\ T[i - 1] = S[i]
          BY <1>5, <1>9
        <4> QED BY <1>5, <3>3, <4>1 DEF Has, Fits
      <3> QED BY <1>3, <3>1, <3>3, <3>4 DEF Fits
    <2>2. CASE e.type \notin ConnectionStatuses
      <3>1. e.type \notin LinkTypes /\ reported = "CONNECTED"
        BY <1>4, <2>2
      <3> QED BY <1>0, <1>8, <3>1 DEF ReportKnown, S
    <2> QED BY <2>1, <2>2
  <1> QED BY <1>6, <1>7, <1>10, <1>11, <1>12 DEF TellInv, T

(* An event is handled.                                                     *)
LEMMA HandleTell ==
  ASSUME TypeOK, TypeOK', AInv, TellInv, EventTask, NEW e, e = Head(events),
         reported' = IF e.type \in ConnectionStatuses THEN e.type ELSE reported
  PROVE  TellInv' /\ (radio' = radio \/ Has(Stream', Breakers))
  <1>1. CASE radio' = radio
    BY <1>1, HandledTell
  <1>2. CASE radio' # radio
    <2>1. /\ radio' = Connecting(radio, 0) /\ events # <<>> /\ events' = Tail(events)
          /\ radio \in Radios
      BY <1>2, HandledFields DEF TypeOK
    <2>2. Broke(radio, radio')
      BY <1>2, <2>1, CommandsBreak
    <2>3. Thinned(Stream, Left, 1, Len(Stream) + 1)
      BY <2>1, HandlingBehind
    <2>4. ResetsEnd(Left) /\ HostsApart(Left)
      BY <2>3, ThinnedParts DEF TellInv
    <2> QED BY <2>2, <2>4, BrokeTell
  <1> QED BY <1>1, <1>2

(* The module says nothing, and nothing is read or handled.                 *)
LEMMA SilentTell ==
  ASSUME TellInv, UNCHANGED <<radio, events, reported>>,
         wireless_state = "RECONNECTING" => wireless_state' = "RECONNECTING",
         phase' = "keys" /\ events # <<>> =>
             phase = "keys" \/ radio.frames = <<>> \/ Has(radio.frames, Breakers)
  PROVE  TellInv' /\ Stream' = Stream
  <1>1. Stream' = Stream
    BY DEF Stream
  <1>2. FramesBreak'
    BY DEF TellInv, FramesBreak
  <1>3. ReconnectingKnown' /\ ReportKnown'
    BY <1>1 DEF TellInv, ReconnectingKnown, ReportKnown
  <1> QED BY <1>1, <1>2, <1>3 DEF TellInv

-----------------------------------------------------------------------------
(***************************************************************************)
(* The invariant of what is shown.                                         *)
(***************************************************************************)

\* c has the fields of a configuration.
IsConfig(c) == c = [of |-> c.of, lit |-> c.lit, slot |-> c.slot, elapsed |-> c.elapsed]

\* c is the configuration that indicator_set starts for state.
Shows(c, state) ==
    \/ c.of = "pairing" /\ state = "PARING"
    \/ c.of = "reconnecting" /\ state = "RECONNECTING"
    \/ c.of = "connected" /\ state = "CONNECTED"

\* c shows the connection.
Matches(c) ==
    Shows(c, wireless_state) /\ (c.of = "connected" => c.slot = Slot(host_index))

\* The statics of indicator_set name what is running.
Named ==
    /\ IsConfig(indicator_config) /\ indicator_state = current_state
    /\ Running(indicator_config) => transport # "USB" /\ Shows(indicator_config, current_state)

\* What does not show the connection is about to be replaced.
ShownOrTold == Running(indicator_config) => Matches(indicator_config) \/ Has(Stream, Setters)

\* Nothing is shown while a transport switch polls, and only the reconnecting before
\* the events it collected are handled.
PollingDark == phase \in {"boot", "polling"} => ~Running(indicator_config)
KeysDark ==
    phase = "keys" /\ events # <<>> /\ Running(indicator_config)
    => indicator_config.of = "reconnecting" /\ wireless_state = "RECONNECTING"

\* A connection that is shown ends before one to another host is told.
HostShown(s, slot) ==
    \A j \in 1 .. Len(s) : s[j].type = "CONNECTED"
        => slot = Slot(s[j].host) \/ Between(s, 0, j, Breakers)
ShownHost ==
    Running(indicator_config) /\ indicator_config.of = "connected"
    => HostShown(Stream, indicator_config.slot)

\* The statics of indicator_set remember a connection only until its end is handled.
NotHidden ==
    transport # "USB" /\ current_state = "CONNECTED" /\ reported # "CONNECTED"
    => Has(Stream, Breakers)

ShownInv ==
    Named /\ ShownOrTold /\ PollingDark /\ KeysDark /\ ShownHost /\ NotHidden

(* Nothing runs when it is off.                                             *)
LEMMA OffDark == ~Running(Off) /\ IsConfig(Off)
  BY DEF Off, Running, IsConfig

(* A step of an indication goes on with it or ends it.                      *)
LEMMA TimerKeeps ==
  ASSUME NEW c, IsConfig(c)
  PROVE  /\ IsConfig(TimerCb(c))
         /\ TimerCb(c) = Off \/ (TimerCb(c).of = c.of /\ TimerCb(c).slot = c.slot)
  <1>1. PICK x, y : TimerCb(c) \in {Off, [c EXCEPT !.lit = x, !.elapsed = y]}
    BY DEF TimerCb
  <1>2. CASE TimerCb(c) = Off
    BY <1>2, OffDark
  <1>3. CASE TimerCb(c) = [c EXCEPT !.lit = x, !.elapsed = y]
    <2>1. PICK o, l, p, t : c = [of |-> o, lit |-> l, slot |-> p, elapsed |-> t]
      BY DEF IsConfig
    <2>2. [c EXCEPT !.lit = x, !.elapsed = y] = [of |-> o, lit |-> x, slot |-> p, elapsed |-> y]
      <3>1. c \in [of : {o}, lit : {l}, slot : {p}, elapsed : {t}]
        BY <2>1
      <3>2. [c EXCEPT !.lit = x, !.elapsed = y] \in [of : {o}, lit : {x}, slot : {p}, elapsed : {y}]
        BY <3>1
      <3>3. \A d \in [of : {o}, lit : {x}, slot : {p}, elapsed : {y}] :
                d = [of |-> o, lit |-> x, slot |-> p, elapsed |-> y]
        OBVIOUS
      <3> QED BY <3>2, <3>3
    <2>3. c.of = o /\ c.slot = p
      BY <2>1
    <2> QED BY <1>3, <2>2, <2>3 DEF IsConfig
  <1> QED BY <1>1, <1>2, <1>3

(* An indication that is started.                                           *)
LEMMA StartedKeeps ==
  ASSUME NEW of, NEW lit, NEW slot
  PROVE  /\ IsConfig(Started(of, lit, slot))
         /\ \/ Started(of, lit, slot) = Off
            \/ Started(of, lit, slot).of = of /\ Started(of, lit, slot).slot = slot
  <1> DEFINE c == [of |-> of, lit |-> lit, slot |-> slot, elapsed |-> 0]
  <1>1. IsConfig(c) /\ c.of = of /\ c.slot = slot
    BY DEF IsConfig
  <1>2. Started(of, lit, slot) = TimerCb(c)
    BY DEF Started
  <1> HIDE DEF c
  <1> QED BY <1>1, <1>2, TimerKeeps

(* A connection lights up the LED of its host.                              *)
LEMMA ConnectedStarted ==
  ASSUME NEW slot, slot # 0
  PROVE  /\ Started("connected", FALSE, slot).of = "connected"
         /\ Started("connected", FALSE, slot).slot = slot
  <1> DEFINE c == [of |-> "connected", lit |-> FALSE, slot |-> slot, elapsed |-> 0]
  <1>1. /\ c.of = "connected" /\ c.slot = slot /\ c.elapsed = 0
        /\ c = [of |-> "connected", lit |-> FALSE, slot |-> slot, elapsed |-> 0]
    OBVIOUS
  <1>2. Running(c)
    BY <1>1 DEF Running
  <1>3. /\ Config["connected"].type = ON_OFF /\ Config["connected"].on = 2000
        /\ Config["connected"].duration = 2000
    BY DEF Config
  <1>4. ON_OFF # BLINK /\ ON_OFF # NONE
    BY DEF ON_OFF, BLINK, NONE
  <1>5. Started("connected", FALSE, slot) = TimerCb(c)
    BY DEF Started
  <1>6. \E x, y : TimerCb(c) = [c EXCEPT !.lit = x, !.elapsed = y]
    <2>1. \A n \in Nat : n = 0 => n <= 2000
      OBVIOUS
    <2>2. c.elapsed <= 2000
      BY <1>1, <2>1
    <2> DEFINE k == Config[c.of]
               lit == IF k.type = BLINK THEN ~c.lit ELSE c.elapsed = 0
               period == IF lit THEN k.on
                         ELSE IF k.type = BLINK THEN k.off ELSE k.duration - k.on
               time == IF k.duration = 0 THEN 0 ELSE c.elapsed + period
    <2> HIDE DEF c
    <2>3. k.type = ON_OFF /\ k.on = 2000 /\ k.duration = 2000
      BY <1>1, <1>3
    <2>4. lit
      BY <1>1, <1>4, <2>3
    <2>5. period # 0 /\ c.elapsed <= k.duration /\ k.type # NONE
      BY <1>4, <2>2, <2>3, <2>4
    <2>6. TimerCb(c) = IF ~Running(c) \/ k.type = NONE THEN Off
                       ELSE IF (k.duration = 0 \/ c.elapsed <= k.duration) /\ period # 0
                       THEN [c EXCEPT !.lit = lit, !.elapsed = IF k.duration = 0 THEN 0 ELSE @ + period]
                       ELSE Off
      BY Zenon DEF TimerCb
    <2> HIDE DEF k, lit, period
    <2>7. TimerCb(c) = [c EXCEPT !.lit = lit, !.elapsed = IF k.duration = 0 THEN 0 ELSE @ + period]
      BY <1>2, <2>5, <2>6
    <2> QED BY <2>7
  <1>7. PICK x, y : TimerCb(c) = [c EXCEPT !.lit = x, !.elapsed = y]
    BY <1>6
  <1> QED BY <1>1, <1>5, <1>7

(* Nothing is shown for slot 0.                                             *)
LEMMA SlotNotNone == \A h \in Hosts : Slot(h) # 0
  BY DEF Slot, Hosts

(* What indicator_set starts for each state.                                *)
LEMMA ConfigForFacts ==
  ASSUME Named, NEW slot
  PROVE  /\ \A state \in {"DISCONNECTED", "SUSPEND"} : ConfigFor(state, slot) = Off
         /\ \A state \in {"PARING", "RECONNECTING"} :
                /\ IsConfig(ConfigFor(state, slot))
                /\ ConfigFor(state, slot) = Off \/ Shows(ConfigFor(state, slot), state)
         /\ current_state = "CONNECTED" => ConfigFor("CONNECTED", slot) = indicator_config
         /\ current_state # "CONNECTED" /\ slot # 0 =>
                /\ IsConfig(ConfigFor("CONNECTED", slot))
                /\ ConfigFor("CONNECTED", slot).of = "connected"
                /\ ConfigFor("CONNECTED", slot).slot = slot
  <1>1. \A state \in {"DISCONNECTED", "SUSPEND"} : ConfigFor(state, slot) = Off
    BY DEF ConfigFor
  <1>2. ConfigFor("PARING", slot) = Started("pairing", TRUE, slot)
    BY DEF ConfigFor
  <1>3. ConfigFor("RECONNECTING", slot) = Started("reconnecting", TRUE, slot)
    BY DEF ConfigFor
  <1>4. indicator_state = current_state
    BY DEF Named
  <1>5. current_state = "CONNECTED" => ConfigFor("CONNECTED", slot) = indicator_config
    BY <1>4 DEF ConfigFor
  <1>6. current_state # "CONNECTED"
        => ConfigFor("CONNECTED", slot) = Started("connected", FALSE, slot)
    BY <1>4 DEF ConfigFor
  <1>7. \A state \in {"PARING", "RECONNECTING"} :
                /\ IsConfig(ConfigFor(state, slot))
                /\ ConfigFor(state, slot) = Off \/ Shows(ConfigFor(state, slot), state)
    <2>1. /\ IsConfig(ConfigFor("PARING", slot))
          /\ ConfigFor("PARING", slot) = Off \/ ConfigFor("PARING", slot).of = "pairing"
      <3>1. /\ IsConfig(Started("pairing", TRUE, slot))
            /\ \/ Started("pairing", TRUE, slot) = Off
               \/ Started("pairing", TRUE, slot).of = "pairing"
        BY StartedKeeps
      <3> QED BY <1>2, <3>1
    <2>2. /\ IsConfig(ConfigFor("RECONNECTING", slot))
          /\ \/ ConfigFor("RECONNECTING", slot) = Off
             \/ ConfigFor("RECONNECTING", slot).of = "reconnecting"
      <3>1. /\ IsConfig(Started("reconnecting", TRUE, slot))
            /\ \/ Started("reconnecting", TRUE, slot) = Off
               \/ Started("reconnecting", TRUE, slot).of = "reconnecting"
        BY StartedKeeps
      <3> QED BY <1>3, <3>1
    <2> QED BY <2>1, <2>2 DEF Shows
  <1>8. ASSUME current_state # "CONNECTED", slot # 0
        PROVE  /\ IsConfig(ConfigFor("CONNECTED", slot))
               /\ ConfigFor("CONNECTED", slot).of = "connected"
               /\ ConfigFor("CONNECTED", slot).slot = slot
    <2>1. IsConfig(Started("connected", FALSE, slot))
      BY StartedKeeps
    <2>2. /\ Started("connected", FALSE, slot).of = "connected"
          /\ Started("connected", FALSE, slot).slot = slot
      BY <1>8, ConnectedStarted
    <2> QED BY <1>6, <1>8, <2>1, <2>2
  <1> QED BY <1>1, <1>5, <1>7, <1>8

-----------------------------------------------------------------------------
\* The steps that preserve it, except the handling of events.

(* Nothing is shown.                                                        *)
LEMMA DarkShown ==
  ASSUME IsConfig(indicator_config'), ~Running(indicator_config'),
         indicator_state' = current_state', NotHidden'
  PROVE  ShownInv'
  BY DEF ShownInv, Named, ShownOrTold, PollingDark, KeysDark, ShownHost

(* What is shown stays.                                                     *)
LEMMA StepShown ==
  ASSUME ShownInv, UNCHANGED <<indVars, transport, reported>>,
         Running(indicator_config) => Matches(indicator_config)' \/ Has(Stream', Setters),
         phase' \in {"boot", "polling"} => phase' = phase,
         phase' = "keys" /\ events' # <<>> /\ Running(indicator_config)
             => indicator_config.of = "reconnecting" /\ wireless_state' = "RECONNECTING",
         Running(indicator_config) /\ indicator_config.of = "connected" => HostsKept,
         Has(Stream, Breakers) => Has(Stream', Breakers)
  PROVE  ShownInv'
  <1>1. /\ indicator_config' = indicator_config /\ indicator_state' = indicator_state
        /\ current_state' = current_state /\ transport' = transport /\ reported' = reported
    BY DEF indVars
  <1>2. Running(indicator_config') <=> Running(indicator_config)
    BY <1>1
  <1>3. Named'
    BY <1>1, <1>2 DEF ShownInv, Named
  <1>4. ShownOrTold'
    BY <1>1, <1>2 DEF ShownOrTold
  <1>5. PollingDark'
    BY <1>2 DEF ShownInv, PollingDark
  <1>6. KeysDark'
    BY <1>1, <1>2 DEF KeysDark
  <1>7. ASSUME Running(indicator_config), indicator_config.of = "connected"
        PROVE  HostShown(Stream', indicator_config.slot)
    <2> DEFINE slot == indicator_config.slot
    <2>1. HostShown(Stream, slot)
      BY <1>7 DEF ShownInv, ShownHost
    <2>2. HostsKept
      BY <1>7
    <2> HIDE DEF slot
    <2>3. ASSUME NEW j \in 1 .. Len(Stream'), Stream'[j].type = "CONNECTED"
          PROVE  slot = Slot(Stream'[j].host) \/ Between(Stream', 0, j, Breakers)
      <3>1. CASE Between(Stream', 0, j, Breakers)
        BY <3>1
      <3>2. CASE \E i \in 1 .. Len(Stream) :
                   /\ Stream[i] = Stream'[j]
                   /\ Between(Stream, 0, i, Breakers) => Between(Stream', 0, j, Breakers)
        <4>1. PICK i \in 1 .. Len(Stream) :
                   /\ Stream[i] = Stream'[j]
                   /\ Between(Stream, 0, i, Breakers) => Between(Stream', 0, j, Breakers)
          BY <3>2
        <4>2. slot = Slot(Stream[i].host) \/ Between(Stream, 0, i, Breakers)
          BY <2>1, <2>3, <4>1 DEF HostShown
        <4> QED BY <4>1, <4>2
      <3> QED BY <2>2, <2>3, <3>1, <3>2 DEF HostsKept
    <2> QED BY <2>3 DEF HostShown, slot
  <1>8. ShownHost'
    BY <1>1, <1>2, <1>7 DEF ShownHost
  <1>9. NotHidden'
    BY <1>1 DEF ShownInv, NotHidden
  <1> QED BY <1>3, <1>4, <1>5, <1>6, <1>8, <1>9 DEF ShownInv

(* What a stream without connections behind it says of hosts.               *)
LEMMA LongerHosts ==
  ASSUME Longer(Stream, Stream'),
         \A i \in Len(Stream) + 1 .. Len(Stream') : Stream'[i].type # "CONNECTED"
  PROVE  HostsKept
  <1>1. /\ Len(Stream) \in Nat /\ Len(Stream') \in Nat
        /\ \A i \in 1 .. Len(Stream) : Stream'[i] = Stream[i]
    BY DEF Longer
  <1> SUFFICES ASSUME NEW j \in 1 .. Len(Stream'), Stream'[j].type = "CONNECTED"
               PROVE  \E i \in 1 .. Len(Stream) :
                        /\ Stream[i] = Stream'[j]
                        /\ Between(Stream, 0, i, Breakers) => Between(Stream', 0, j, Breakers)
    BY DEF HostsKept
  <1>2. j \in 1 .. Len(Stream)
    <2>1. j \notin Len(Stream) + 1 .. Len(Stream')
      OBVIOUS
    <2> QED BY <1>1, <2>1
  <1>3. 0 \in Nat /\ j \in 1 .. Len(Stream) + 1
    BY <1>1, <1>2
  <1>4. Between(Stream, 0, j, Breakers) <=> Between(Stream', 0, j, Breakers)
    BY <1>3, LongerKeeps
  <1> QED BY <1>1, <1>2, <1>4

(* The end of a connection is told.                                         *)
LEMMA BrokeShown ==
  ASSUME TypeOK, TypeOK', TellInv, ShownInv, Broke(radio, radio'), events' = events,
         UNCHANGED <<indVars, transport, reported>>,
         phase' \in {"boot", "polling"} => phase' = phase,
         phase' = "keys" /\ events # <<>> =>
             phase = "keys" /\ wireless_state' \in {wireless_state, "RECONNECTING"}
  PROVE  TellInv' /\ ShownInv'
  <1>1. Left = Stream
    BY DEF Left, Stream
  <1>2. TellInv' /\ Has(Stream', Breakers)
    BY <1>1, BrokeTell DEF TellInv
  <1>3. Has(Stream', Setters)
    BY <1>2, StatusSets DEF Has
  <1>4. /\ Longer(Stream, Stream')
        /\ \A i \in Len(Stream) + 1 .. Len(Stream') :
               /\ Stream'[i] = radio'.frames[i - Len(events')]
               /\ i - Len(events') \in Len(radio.frames) + 1 .. Len(radio'.frames)
    BY <1>1, StreamGrows DEF Broke
  <1>5. \A i \in Len(Stream) + 1 .. Len(Stream') : Stream'[i].type # "CONNECTED"
    <2> SUFFICES ASSUME NEW i \in Len(Stream) + 1 .. Len(Stream')
                 PROVE  Stream'[i].type # "CONNECTED"
      OBVIOUS
    <2>1. i - Len(events') \in Len(radio.frames) + 1 .. Len(radio'.frames)
      BY <1>4
    <2>2. radio'.frames[i - Len(events')].type \in Breakers
      BY <2>1 DEF Broke
    <2> QED BY <1>4, <2>2, StatusSets
  <1>6. HostsKept
    BY <1>4, <1>5, LongerHosts
  <1>7. phase' = "keys" /\ events' # <<>> /\ Running(indicator_config)
            => indicator_config.of = "reconnecting" /\ wireless_state' = "RECONNECTING"
    BY DEF ShownInv, KeysDark
  <1> QED BY <1>2, <1>3, <1>6, <1>7, StepShown

(* The stream and the connection stay.                                      *)
LEMMA StillShown ==
  ASSUME ShownInv, UNCHANGED <<indVars, transport, reported, wireless_state, host_index>>,
         events' = events, Stream' = Stream,
         phase' \in {"boot", "polling"} => phase' = phase,
         phase' = "keys" /\ events # <<>> => phase = "keys"
  PROVE  ShownInv'
  <1>1. Running(indicator_config) => Matches(indicator_config)' \/ Has(Stream', Setters)
    BY DEF ShownInv, ShownOrTold, Matches, indVars
  <1>2. phase' = "keys" /\ events' # <<>> /\ Running(indicator_config)
            => indicator_config.of = "reconnecting" /\ wireless_state' = "RECONNECTING"
    BY DEF ShownInv, KeysDark
  <1>3. HostsKept
    BY DEF HostsKept
  <1> QED BY <1>1, <1>2, <1>3, StepShown

(* A step of the indication.                                                *)
LEMMA IndicatorTaskShown ==
  ASSUME TellInv, ShownInv, IndicatorTask
  PROVE  TellInv' /\ ShownInv'
  <1>1. /\ UNCHANGED <<radio, events, phase, reported, wireless_state, host_index, transport>>
        /\ Running(indicator_config) /\ indicator_config' = TimerCb(indicator_config)
        /\ indicator_state' = indicator_state /\ current_state' = current_state
    BY DEF IndicatorTask, vars, mcu
  <1>2. TellInv' /\ Stream' = Stream
    BY <1>1, SilentTell
  <1>3. IsConfig(indicator_config) /\ indicator_state = current_state /\ NotHidden
    BY DEF ShownInv, Named
  <1>4. NotHidden'
    BY <1>1, <1>2, <1>3 DEF NotHidden
  <1>5. CASE indicator_config' = Off
    BY <1>1, <1>2, <1>3, <1>4, <1>5, OffDark, DarkShown
  <1>6. CASE indicator_config' # Off
    <2>1. /\ IsConfig(indicator_config') /\ indicator_config'.of = indicator_config.of
          /\ indicator_config'.slot = indicator_config.slot
      BY <1>1, <1>3, <1>6, TimerKeeps
    <2>2. Named'
      BY <1>1, <2>1 DEF ShownInv, Named, Shows
    <2>3. ShownOrTold'
      BY <1>1, <1>2, <2>1 DEF ShownInv, ShownOrTold, Matches, Shows
    <2>4. PollingDark' /\ KeysDark'
      BY <1>1, <2>1 DEF ShownInv, PollingDark, KeysDark
    <2>5. ShownHost'
      BY <1>1, <1>2, <2>1 DEF ShownInv, ShownHost
    <2> QED BY <1>2, <1>4, <2>2, <2>3, <2>4, <2>5 DEF ShownInv
  <1> QED BY <1>5, <1>6

(* A connection is told: if one is shown, its end is told before.           *)
LEMMA ConnectedShown ==
  ASSUME TypeOK, TypeOK', AInv, TellInv, ShownInv, Reconnected \/ Paired,
         UNCHANGED <<indVars, reported>>
  PROVE  TellInv' /\ ShownInv'
  <1> DEFINE S == Stream  T == Stream'  n == Len(Stream)
  <1>1. /\ UNCHANGED <<events, phase, transport, wireless_state, host_index>>
        /\ radio.st \in {"RECONNECTING", "DISCOVERABLE"}
        /\ radio' = Moved(radio, "CONNECTED", radio.host, "CONNECTED")
    BY DEF Reconnected, Paired, mcu
  <1>2. TellInv'
    BY <1>1, ConnectedTell
  <1>3. "CONNECTED" \in Statuses /\ "CONNECTED" \in ModuleStates
    BY DEF Statuses, ModuleStates
  <1>4. /\ Longer(S, T) /\ Len(T) = n + 1 /\ n \in Nat /\ n = Len(S)
        /\ T[n + 1].type = "CONNECTED"
    BY <1>1, <1>3, SaidStream
  <1> HIDE DEF S, T, n
  <1>5. \A i \in 1 .. n : T[i] = S[i]
    BY <1>4 DEF Longer
  <1>6. n + 1 \in 1 .. Len(T)
    BY <1>4
  <1>7. Has(T, Setters)
    BY <1>4, <1>6, StatusSets DEF Has
  <1>8. Has(S, Breakers) => Has(T, Breakers)
    BY <1>4, LongerKeeps
  <1>9. ASSUME Running(indicator_config), indicator_config.of = "connected" PROVE HostsKept
    <2>1. Has(S, LinkTypes)
      <3> SUFFICES ASSUME ~Has(S, LinkTypes) PROVE FALSE
        OBVIOUS
      <3>1. ~Has(S, Setters)
        BY StatusSets DEF Has
      <3>2. wireless_state = "CONNECTED"
        BY <1>9, <3>1 DEF ShownInv, ShownOrTold, Matches, Shows, S
      <3>3. ASSUME NEW i \in 1 .. Len(S), Fits(S[i], radio) PROVE FALSE
        BY <3>3 DEF Has, Fits
      <3>4. Knows(radio)
        BY <3>3, StreamTells DEF S
      <3> QED BY <1>1, <3>2, <3>4 DEF Knows
    <2>2. PICK l \in 1 .. n : S[l].type \in Breakers
      BY <1>1, <1>4, <2>1, BrokenLast DEF S, TellInv
    <2>3. Between(T, 0, n + 1, Breakers)
      <3>1. l \in 0 + 1 .. (n + 1) - 1
        BY <1>4, <2>2
      <3> QED BY <1>5, <2>2, <3>1 DEF Between
    <2>4. ASSUME NEW j \in 1 .. n
          PROVE  /\ j \in 1 .. Len(S) /\ S[j] = T[j]
                 /\ Between(S, 0, j, Breakers) => Between(T, 0, j, Breakers)
      <3>1. 0 \in Nat /\ j \in 1 .. Len(S) + 1
        BY <1>4
      <3> QED BY <1>4, <1>5, <3>1, LongerKeeps
    <2>5. ASSUME NEW j \in 1 .. Len(T) PROVE j \in 1 .. n \/ j = n + 1
      BY <1>4
    <2> QED BY <2>3, <2>4, <2>5 DEF HostsKept, S, T
  <1>10. phase' = "keys" /\ events' # <<>> /\ Running(indicator_config)
            => indicator_config.of = "reconnecting" /\ wireless_state' = "RECONNECTING"
    BY <1>1 DEF ShownInv, KeysDark
  <1> QED BY <1>1, <1>2, <1>7, <1>8, <1>9, <1>10, StepShown DEF S, T

(* The module says something else.                                          *)
LEMMA MutterShown ==
  ASSUME TypeOK, TypeOK', AInv, TellInv, ShownInv, PairingTimeout \/ PinCode \/ HostLeds,
         UNCHANGED <<indVars, reported>>
  PROVE  TellInv' /\ ShownInv'
  <1>1. /\ UNCHANGED <<events, phase, transport, wireless_state, host_index>>
        /\ radio.st # "IDLE"
    BY DEF PairingTimeout, PinCode, HostLeds, mcu
  <1>2. PICK st \in {"IDLE", "DISCOVERABLE", "CONNECTED"}, status \in Statuses \ LinkTypes :
            /\ radio' = Moved(radio, st, radio.host, status)
            /\ radio.st = "CONNECTED" <=> st = "CONNECTED"
            /\ status = "SLEEP" => radio.st = "DISCOVERABLE"
    <2>1. {"SLEEP", "PINCODE_ENTRY", "EXIT_PINCODE_ENTRY", "HID_INDICATOR"}
              \subseteq Statuses \ LinkTypes
      BY DEF Statuses, LinkTypes
    <2> QED BY <2>1 DEF PairingTimeout, PinCode, HostLeds
  <1>3. TellInv' /\ \A B : B \subseteq LinkTypes => (Has(Stream', B) <=> Has(Stream, B))
    BY <1>1, <1>2, MutterTell
  <1>4. st \in ModuleStates /\ status \in Statuses /\ status # "CONNECTED"
    BY DEF ModuleStates, LinkTypes
  <1>5. /\ Longer(Stream, Stream') /\ Len(Stream') = Len(Stream) + 1
        /\ Len(Stream) \in Nat /\ Stream'[Len(Stream) + 1].type = status
    BY <1>1, <1>2, <1>4, SaidStream
  <1>6. ASSUME NEW i \in Len(Stream) + 1 .. Len(Stream') PROVE Stream'[i].type # "CONNECTED"
    <2>1. i = Len(Stream) + 1
      BY <1>5
    <2> QED BY <1>4, <1>5, <2>1
  <1>7. HostsKept
    BY <1>5, <1>6, LongerHosts
  <1>8. Has(Stream, Breakers) <=> Has(Stream', Breakers)
    BY <1>3, StatusSets
  <1>9. Has(Stream, Setters) <=> Has(Stream', Setters)
    BY <1>3, StatusSets
  <1>10. Running(indicator_config) => Matches(indicator_config)' \/ Has(Stream', Setters)
    BY <1>1, <1>9 DEF ShownInv, ShownOrTold, Matches, indVars
  <1>11. phase' = "keys" /\ events' # <<>> /\ Running(indicator_config)
            => indicator_config.of = "reconnecting" /\ wireless_state' = "RECONNECTING"
    BY <1>1 DEF ShownInv, KeysDark
  <1> QED BY <1>1, <1>3, <1>7, <1>8, <1>10, <1>11, StepShown

(* The module restarts.                                                     *)
LEMMA ResetShown ==
  ASSUME TypeOK, TypeOK', TellInv, ShownInv, ModuleReset, UNCHANGED <<indVars, reported>>
  PROVE  TellInv' /\ ShownInv'
  <1>1. TellInv' /\ Has(Stream', Breakers) /\ HostsKept
    BY ResetTell
  <1>2. Has(Stream', Setters)
    BY <1>1, StatusSets DEF Has
  <1>3. UNCHANGED <<events, phase, transport, wireless_state, host_index>>
    BY DEF ModuleReset, mcu
  <1>4. phase' = "keys" /\ events' # <<>> /\ Running(indicator_config)
            => indicator_config.of = "reconnecting" /\ wireless_state' = "RECONNECTING"
    BY <1>3 DEF ShownInv, KeysDark
  <1> QED BY <1>1, <1>2, <1>3, <1>4, StepShown

(* A frame is read.                                                         *)
LEMMA ReadShown ==
  ASSUME TypeOK, TypeOK', AInv, TellInv, ShownInv, ReadFrame, phase \in {"keys", "polling"},
         phase' = "events" \/ (phase' = "polling" /\ phase = "polling"),
         UNCHANGED <<indVars, reported, transport, wireless_state, host_index>>
  PROVE  TellInv' /\ ShownInv'
  <1> DEFINE S == Stream  T == Stream'
  <1>1. TellInv'
    BY ReadTell
  <1>2. PICK d \in {0, 1}, c \in Nat \ {0} : Thinned(S, T, d, c) /\ (d = 1 => events # <<>>)
    BY ReadThins
  <1>3. /\ Len(S) \in Nat /\ Len(T) \in Nat
        /\ \A i \in 1 .. Len(T) : T[i] = S[From(i, d, c)] /\ From(i, d, c) \in 1 .. Len(S)
    BY <1>2, ThinnedPlaces
  <1>4. d = 1 => \E m \in 2 .. Len(S) : S[m].type \in Breakers
    BY <1>2, LostBeforeBreak DEF TellInv
  <1>5. d = 1 /\ Running(indicator_config)
        => indicator_config.of = "reconnecting" /\ wireless_state = "RECONNECTING"
    BY <1>2 DEF ShownInv, KeysDark, PollingDark
  <1> HIDE DEF S, T
  <1>6. Has(S, Breakers) => Has(T, Breakers)
    <2>1. CASE d = 0
      BY <1>2, <2>1, ThinnedKeeps
    <2>2. CASE d = 1
      <3>1. PICK m \in 2 .. Len(S) : S[m].type \in Breakers
        BY <1>4, <2>2
      <3>2. m \in d + 1 .. Len(S)
        BY <1>3, <2>2, <3>1
      <3>3. PICK l \in 1 .. Len(T) : From(l, d, c) = m
        BY <1>2, <3>2, Places
      <3> QED BY <1>3, <3>1, <3>3 DEF Has
    <2> QED BY <1>2, <2>1, <2>2
  <1>7. Matches(indicator_config) => Matches(indicator_config)'
    BY DEF Matches, indVars
  <1>8. Running(indicator_config) => Matches(indicator_config)' \/ Has(T, Setters)
    <2>1. CASE d = 1
      BY <1>5, <1>7, <2>1 DEF Matches, Shows
    <2>2. CASE d = 0
      <3>1. Has(S, Setters) => Has(T, Setters)
        BY <1>2, <2>2, ThinnedKeeps
      <3> QED BY <1>7, <3>1 DEF ShownInv, ShownOrTold, S
    <2> QED BY <1>2, <2>1, <2>2
  <1>9. ASSUME Running(indicator_config), indicator_config.of = "connected" PROVE HostsKept
    <2>1. d = 0
      BY <1>2, <1>5, <1>9
    <2>2. ASSUME NEW j \in 1 .. Len(T)
          PROVE  /\ From(j, d, c) \in 1 .. Len(S) /\ S[From(j, d, c)] = T[j]
                 /\ Between(S, 0, From(j, d, c), Breakers) => Between(T, 0, j, Breakers)
      <3>1. Between(S, 0, From(j, d, c), Breakers) => Between(T, 0, j, Breakers)
        BY <1>2, <2>1, ThinnedKeeps
      <3> QED BY <1>3, <3>1
    <2> QED BY <2>2 DEF HostsKept, S, T
  <1> QED BY <1>1, <1>6, <1>8, <1>9, StepShown DEF S, T

(* The module is asked to connect and says nothing: it told what it is      *)
(* doing, or the firmware knows.                                            *)
LEMMA AskedShown ==
  ASSUME AInv, TypeOK, TellInv, ShownInv, radio.st \in {"RECONNECTING", "CONNECTED"},
         UNCHANGED <<radio, events, phase, reported, transport, indVars>>,
         wireless_state' = "RECONNECTING",
         ~(wireless_state = "CONNECTED" /\ host_index = radio.host)
  PROVE  TellInv' /\ ShownInv'
  <1>1. TellInv' /\ Stream' = Stream
    BY SilentTell
  <1>2. ASSUME Running(indicator_config), ~Has(Stream, Setters) PROVE Matches(indicator_config)'
    <2>1. ~Has(Stream, LinkTypes)
      <3> SUFFICES ASSUME NEW i \in 1 .. Len(Stream), Stream[i].type \in LinkTypes PROVE FALSE
        BY DEF Has
      <3>1. Stream[i].type = "RESET"
        BY <1>2 DEF Has, LinkTypes, Setters
      <3>2. Later(Stream, i, {"DISCONNECTED"})
        BY <3>1 DEF TellInv, ResetsEnd
      <3>3. PICK j \in i + 1 .. Len(Stream) : Stream[j].type = "DISCONNECTED"
        BY <3>2 DEF Later
      <3>4. j \in 1 .. Len(Stream)
        BY StreamPlaces
      <3> QED BY <1>2, <3>3, <3>4 DEF Has, Setters
    <2>2. ASSUME NEW i \in 1 .. Len(Stream), Fits(Stream[i], radio) PROVE FALSE
      BY <2>1, <2>2 DEF Has, Fits
    <2>3. Knows(radio)
      BY <2>2, StreamTells
    <2>4. radio.st = "RECONNECTING"
      BY <2>3 DEF Knows
    <2>5. wireless_state = "RECONNECTING"
      <3>1. ASSUME NEW i \in 1 .. Len(Stream), Stream[i].type = "RECONNECTING" PROVE FALSE
        BY <2>1, <3>1 DEF Has, LinkTypes
      <3> QED BY <2>4, <3>1 DEF TellInv, ReconnectingKnown
    <2>6. Matches(indicator_config)
      BY <1>2 DEF ShownInv, ShownOrTold
    <2> QED BY <2>5, <2>6 DEF Matches, Shows, indVars
  <1>3. phase' = "keys" /\ events' # <<>> /\ Running(indicator_config)
            => indicator_config.of = "reconnecting" /\ wireless_state' = "RECONNECTING"
    BY DEF ShownInv, KeysDark
  <1>4. HostsKept
    BY <1>1 DEF HostsKept
  <1> QED BY <1>1, <1>2, <1>3, <1>4, StepShown

(* The module is asked to connect.                                          *)
LEMMA ConnectingShown ==
  ASSUME TypeOK, TypeOK', AInv, TellInv, ShownInv, NEW h \in Hosts \cup {0, LastHost},
         radio' = Connecting(radio, h), wireless_state' = "RECONNECTING", phase = "keys",
         UNCHANGED <<events, phase, reported, transport, indVars>>,
         ~(wireless_state = "CONNECTED" /\ host_index = SlotOf(radio, h))
  PROVE  TellInv' /\ ShownInv'
  <1>1. radio \in Radios
    BY DEF TypeOK
  <1>2. CASE Broke(radio, radio')
    BY <1>2, BrokeShown
  <1>3. CASE radio' = radio /\ radio.st \in {"RECONNECTING", "CONNECTED"}
             /\ radio.host = SlotOf(radio, h)
    BY <1>3, AskedShown
  <1> QED BY <1>1, <1>2, <1>3, CommandsBreak

(* The same for the stream alone.                                           *)
LEMMA ConnectingTell ==
  ASSUME TypeOK, TypeOK', TellInv, NEW h \in Hosts \cup {0, LastHost},
         radio' = Connecting(radio, h), wireless_state' = "RECONNECTING",
         UNCHANGED <<events, phase, reported>>
  PROVE  TellInv'
  <1>1. radio \in Radios
    BY DEF TypeOK
  <1>2. CASE Broke(radio, radio')
    <2>1. Left = Stream
      BY DEF Left, Stream
    <2> QED BY <1>2, <2>1, BrokeTell DEF TellInv
  <1>3. CASE radio' = radio
    BY <1>3, SilentTell
  <1> QED BY <1>1, <1>2, <1>3, CommandsBreak

(* Nothing is shown and nothing starts.                                     *)
LEMMA StillDark ==
  ASSUME TypeOK, TypeOK', TellInv, ShownInv, ~Running(indicator_config), events' = events,
         UNCHANGED <<indVars, transport, reported>>,
         \/ Broke(radio, radio')
         \/ radio' = radio /\ wireless_state' \in {wireless_state, "RECONNECTING"},
         phase' = "keys" /\ events # <<>> =>
             phase = "keys" \/ radio.frames = <<>> \/ Has(radio.frames, Breakers)
  PROVE  TellInv' /\ ShownInv'
  <1>1. /\ indicator_config' = indicator_config /\ indicator_state' = indicator_state
        /\ current_state' = current_state /\ ~Running(indicator_config')
    BY DEF indVars
  <1>2. IsConfig(indicator_config) /\ indicator_state = current_state /\ NotHidden
    BY DEF ShownInv, Named
  <1>3. Left = Stream
    BY DEF Left, Stream
  <1>4. CASE Broke(radio, radio')
    <2>1. TellInv' /\ Has(Stream', Breakers)
      BY <1>3, <1>4, BrokeTell DEF TellInv
    <2>2. NotHidden'
      BY <2>1 DEF NotHidden
    <2> QED BY <1>1, <1>2, <2>1, <2>2, DarkShown
  <1>5. CASE radio' = radio /\ wireless_state' \in {wireless_state, "RECONNECTING"}
    <2>1. TellInv' /\ Stream' = Stream
      BY <1>5, SilentTell
    <2>2. NotHidden'
      BY <1>1, <1>2, <2>1 DEF NotHidden
    <2> QED BY <1>1, <1>2, <2>1, <2>2, DarkShown
  <1> QED BY <1>4, <1>5

(* A transport switch goes on after polling.                                *)
LEMMA EndPollingShown ==
  ASSUME TypeOK, TypeOK', AInv, TellInv, ShownInv, EndPolling, UNCHANGED <<indVars, reported>>
  PROVE  TellInv' /\ ShownInv'
  <1>1. /\ events' = events /\ transport' = transport /\ phase = "polling"
        /\ radio \in Radios
    BY DEF EndPolling, TypeOK
  <1>2. ~Running(indicator_config)
    BY <1>1 DEF ShownInv, PollingDark
  <1>3. radio.frames = <<>> \/ Has(radio.frames, Breakers)
    <2> SUFFICES ASSUME radio.frames # <<>> PROVE Has(radio.frames, Breakers)
      OBVIOUS
    <2>1. radio.frames[Len(radio.frames)].type \in Breakers
      BY <1>1, StatusSets DEF AInv, WhilePolling
    <2>2. radio.frames \in Seq(Frames)
      BY <1>1 DEF Radios
    <2>3. Len(radio.frames) \in 1 .. Len(radio.frames)
      BY <2>2
    <2> QED BY <2>1, <2>3 DEF Has
  <1>4. ASSUME NEW r \in Radios, NEW h \in Hosts \cup {0, LastHost}
        PROVE  Connecting(r, h) = r \/ Broke(r, Connecting(r, h))
    BY CommandsBreak
  <1>5. \/ Broke(radio, radio')
        \/ radio' = radio /\ wireless_state' \in {wireless_state, "RECONNECTING"}
    <2>1. ASSUME NEW h \in Hosts \cup {0, LastHost}, ConnectEx(h)
          PROVE  \/ Broke(radio, radio')
                 \/ radio' = radio /\ wireless_state' \in {wireless_state, "RECONNECTING"}
      BY <1>1, <1>4, <2>1 DEF ConnectEx
    <2>2. {P24G_INDEX, LastHost, request} \subseteq Hosts \cup {0, LastHost}
      BY DEF TypeOK, Hosts
    <2>3. ASSUME radio' = Connecting(Connecting(radio, LastHost), request)
          PROVE  radio' = radio \/ Broke(radio, radio')
      <3> DEFINE c == Connecting(radio, LastHost)
      <3>1. c = radio \/ Broke(radio, c)
        BY <1>1, <1>4, <2>2
      <3>2. c \in Radios
        BY <1>1, <3>1 DEF Broke
      <3> HIDE DEF c
      <3>3. Connecting(c, request) = c \/ Broke(c, Connecting(c, request))
        BY <1>4, <2>2, <3>2
      <3>4. radio' = Connecting(c, request)
        BY <2>3 DEF c
      <3> QED BY <3>1, <3>3, <3>4, BrokeAgain
    <2> QED BY <2>1, <2>2, <2>3 DEF EndPolling
  <1> QED BY <1>1, <1>2, <1>3, <1>5, StillDark

(* A transport switch.                                                      *)
LEMMA SwitchShown ==
  ASSUME TypeOK, TypeOK', TellInv, ShownInv, Next, SwitchIndication, UNCHANGED reported
  PROVE  TellInv' /\ ShownInv'
  <1>1. radio' = Disconnected(radio) /\ events' = events
    <2>1. transport' # transport
      BY DEF SwitchIndication
    <2>2. PreTask \/ (\E h \in BtHosts : PressHost(h)) \/ PressP24g \/ PressUsb
      BY <2>1 DEF Next, PollModule, EndPolling, ReleaseHost, SendKeyboard, SendExtra,
            TransportTask, EventTask, EventsDone, CommonTask, BatteryTask, Reconnected,
            Paired, LinkLost, PairingTimeout, PinCode, HostLeds, ModuleReset, BootOver, mcu
    <2> QED BY <2>1, <2>2 DEF PreTask, PressHost, PressP24g, PressUsb, SwitchToUsb,
                              SwitchToWireless
  <1>2. radio \in Radios
    BY DEF TypeOK
  <1>3. Broke(radio, radio') /\ Left = Stream
    BY <1>1, <1>2, CommandsBreak DEF Left, Stream
  <1>4. TellInv' /\ Has(Stream', Breakers)
    BY <1>3, BrokeTell DEF TellInv
  <1>5. /\ indicator_config' = Off /\ indicator_state' = indicator_state
        /\ current_state' = current_state /\ indicator_state = current_state
    BY DEF SwitchIndication, ShownInv, Named
  <1>6. NotHidden'
    BY <1>4 DEF NotHidden
  <1> QED BY <1>4, <1>5, <1>6, OffDark, DarkShown

(* A host key is pressed without a transport switch.                        *)
LEMMA PressHostShown ==
  ASSUME TypeOK, TypeOK', AInv, TellInv, ShownInv, NEW h \in BtHosts, PressHost(h),
         transport' = transport, UNCHANGED <<indVars, reported>>
  PROVE  TellInv' /\ ShownInv'
  <1>1. /\ ConnectEx(h) /\ events' = events /\ phase = "keys" /\ phase' = phase
    BY DEF PressHost, SwitchToWireless
  <1>2. h \in Hosts \cup {0, LastHost} /\ SlotOf(radio, h) = h
    BY DEF Hosts, SlotOf
  <1>3. CASE UNCHANGED <<wireless_state, host_index, led_state, radio>>
    <2>1. TellInv' /\ Stream' = Stream
      BY <1>1, <1>3, SilentTell
    <2> QED BY <1>1, <1>3, <2>1, StillShown
  <1>4. CASE /\ ~(host_index = h /\ wireless_state = "CONNECTED")
             /\ radio' = Connecting(radio, h) /\ wireless_state' = "RECONNECTING"
    BY <1>1, <1>2, <1>4, ConnectingShown
  <1> QED BY <1>1, <1>3, <1>4 DEF ConnectEx

(* A report finds no connection.                                            *)
LEMMA SendShown ==
  ASSUME TypeOK, TypeOK', AInv, TellInv, ShownInv, SendKeyboard \/ SendExtra,
         ConnectIndication, UNCHANGED reported
  PROVE  TellInv' /\ ShownInv'
  <1>1. /\ Connect /\ phase = "keys" /\ transport # "USB" /\ wireless_state # "CONNECTED"
        /\ UNCHANGED <<events, phase, transport, host_index>>
    BY DEF SendKeyboard, SendExtra, TRANSPORT_WIRELESS
  <1>2. 0 \in Hosts \cup {0, LastHost}
    OBVIOUS
  <1>3. CASE UNCHANGED indVars
    <2>1. CASE UNCHANGED <<wireless_state, radio>>
      <3>1. TellInv' /\ Stream' = Stream
        BY <1>1, <2>1, SilentTell
      <3> QED BY <1>1, <1>3, <2>1, <3>1, StillShown
    <2>2. CASE radio' = Connecting(radio, 0) /\ wireless_state' = "RECONNECTING"
      BY <1>1, <1>2, <1>3, <2>2, ConnectingShown
    <2> QED BY <1>1, <2>1, <2>2 DEF Connect
  <1>4. CASE ~critical /\ IndicatorSet("RECONNECTING", host_index)
    <2>1. radio' = Connecting(radio, 0) /\ wireless_state' = "RECONNECTING"
      BY <1>1, <1>4 DEF Connect
    <2>2. TellInv'
      BY <1>1, <1>2, <2>1, ConnectingTell
    <2>3. /\ current_state' = "RECONNECTING" /\ indicator_state' = "RECONNECTING"
          /\ indicator_config' = ConfigFor("RECONNECTING", Slot(host_index))
      BY <1>1, <1>4 DEF IndicatorSet
    <2>4. /\ IsConfig(indicator_config')
          /\ indicator_config' = Off \/ Shows(indicator_config', "RECONNECTING")
      BY <2>3, ConfigForFacts DEF ShownInv
    <2>5. NotHidden'
      BY <2>3 DEF NotHidden
    <2>6. CASE indicator_config' = Off
      BY <2>2, <2>3, <2>4, <2>5, <2>6, OffDark, DarkShown
    <2>7. CASE Shows(indicator_config', "RECONNECTING")
      <3>1. indicator_config'.of = "reconnecting"
        BY <2>7 DEF Shows
      <3>2. Named' /\ ShownOrTold' /\ ShownHost' /\ KeysDark'
        BY <1>1, <2>1, <2>3, <2>4, <2>7, <3>1
           DEF Named, ShownOrTold, Matches, ShownHost, KeysDark
      <3>3. PollingDark'
        BY <1>1 DEF PollingDark
      <3> QED BY <2>2, <2>5, <3>2, <3>3 DEF ShownInv
    <2> QED BY <2>4, <2>6, <2>7
  <1> QED BY <1>3, <1>4 DEF ConnectIndication

(* The other steps of the connection, which show nothing.                   *)
LEMMA OtherShown ==
  ASSUME TypeOK, TypeOK', AInv, TellInv, ShownInv, Next, transport' = transport,
         ~EventTask, ~SendKeyboard, ~SendExtra, UNCHANGED <<indVars, reported>>
  PROVE  TellInv' /\ ShownInv'
  <1>0. radio \in Radios
    BY DEF TypeOK
  <1>1. ASSUME PreTask PROVE TellInv' /\ ShownInv'
    <2>1. /\ phase = "boot" /\ events = <<>> /\ events' = events
          /\ wireless_state' = wireless_state
      BY <1>1 DEF PreTask, AInv, Handled
    <2>2. ~Running(indicator_config)
      BY <2>1 DEF ShownInv, PollingDark
    <2>3. radio' = radio \/ radio' = Disconnected(radio)
      BY <1>1 DEF PreTask, SwitchToWireless, SwitchToUsb
    <2>4. radio' = radio \/ Broke(radio, radio')
      BY <1>0, <2>3, CommandsBreak
    <2> QED BY <2>1, <2>2, <2>4, StillDark
  <1>2. ASSUME PollModule PROVE TellInv' /\ ShownInv'
    BY <1>2, ReadShown DEF PollModule
  <1>3. ASSUME EndPolling PROVE TellInv' /\ ShownInv'
    BY <1>3, EndPollingShown
  <1>4. ASSUME NEW h \in BtHosts, PressHost(h) PROVE TellInv' /\ ShownInv'
    BY <1>4, PressHostShown
  <1>5. ASSUME UNCHANGED <<radio, events, wireless_state, host_index>>,
               phase' \in {"boot", "polling"} => phase' = phase,
               phase' = "keys" /\ events # <<>> => phase = "keys"
        PROVE  TellInv' /\ ShownInv'
    <2>1. TellInv' /\ Stream' = Stream
      BY <1>5, SilentTell
    <2> QED BY <1>5, <2>1, StillShown
  <1>6. ASSUME PressP24g \/ ReleaseHost \/ EventsDone \/ BootOver PROVE TellInv' /\ ShownInv'
    <2>1. UNCHANGED <<radio, events, wireless_state, host_index>>
      BY <1>6 DEF PressP24g, SwitchToWireless, ReleaseHost, EventsDone, BootOver
    <2>2. phase' \in {phase, "common"}
      BY <1>6 DEF PressP24g, SwitchToWireless, ReleaseHost, EventsDone, BootOver
    <2> QED BY <1>5, <2>1, <2>2
  <1>7. ~PressUsb
    BY DEF PressUsb, SwitchToUsb
  <1>8. ASSUME TransportTask PROVE TellInv' /\ ShownInv'
    <2>0. phase = "keys" /\ phase' = "events" /\ UNCHANGED <<wireless_state, host_index>>
      BY <1>8 DEF TransportTask
    <2>1. CASE ReadFrame
      <3>1. UNCHANGED <<indVars, reported, transport, wireless_state, host_index>>
        BY <2>0
      <3> QED BY <2>0, <2>1, <3>1, ReadShown
    <2>2. CASE UNCHANGED <<events, radio>>
      BY <1>5, <1>8, <2>2 DEF TransportTask
    <2> QED BY <1>8, <2>1, <2>2 DEF TransportTask
  <1>9. ASSUME CommonTask PROVE TellInv' /\ ShownInv'
    <2>1. phase' = "battery" /\ events' = events
      BY <1>9 DEF CommonTask
    <2>2. CASE UNCHANGED <<wireless_state, host_index, radio>>
      BY <1>5, <2>1, <2>2
    <2>3. CASE radio' = Pairing(radio)
      <3>1. Broke(radio, radio')
        BY <1>0, <2>3, CommandsBreak
      <3> QED BY <2>1, <3>1, BrokeShown
    <2> QED BY <1>9, <2>2, <2>3 DEF CommonTask, PairingEx
  <1>10. ASSUME BatteryTask PROVE TellInv' /\ ShownInv'
    <2>1. /\ phase = "battery" /\ phase' = "keys" /\ events = <<>> /\ events' = events
          /\ UNCHANGED <<wireless_state, host_index>>
      BY <1>10 DEF BatteryTask, AInv, Handled
    <2>2. CASE radio' = radio
      BY <1>5, <2>1, <2>2
    <2>3. CASE radio' = Disconnected(radio)
      <3>1. Broke(radio, radio')
        BY <1>0, <2>3, CommandsBreak
      <3> QED BY <2>1, <3>1, BrokeShown
    <2> QED BY <1>10, <2>2, <2>3 DEF BatteryTask, LowBatteryShutdown
  <1>11. ASSUME LinkLost PROVE TellInv' /\ ShownInv'
    <2>1. UNCHANGED <<events, phase, wireless_state>> /\ radio' = Disconnected(radio)
      BY <1>11 DEF LinkLost, mcu
    <2>2. Broke(radio, radio')
      BY <1>0, <2>1, CommandsBreak
    <2> QED BY <2>1, <2>2, BrokeShown
  <1>12. ASSUME Reconnected \/ Paired PROVE TellInv' /\ ShownInv'
    BY <1>12, ConnectedShown
  <1>13. ASSUME PairingTimeout \/ PinCode \/ HostLeds PROVE TellInv' /\ ShownInv'
    BY <1>13, MutterShown
  <1>14. ASSUME ModuleReset PROVE TellInv' /\ ShownInv'
    BY <1>14, ResetShown
  <1> QED BY <1>1, <1>2, <1>3, <1>4, <1>6, <1>7, <1>8, <1>9, <1>10, <1>11, <1>12, <1>13,
             <1>14 DEF Next

-----------------------------------------------------------------------------
\* The handling of events.

(* indicator_set for a state in which nothing is shown.                     *)
LEMMA SetDark ==
  ASSUME Named, NEW state \in {"DISCONNECTED", "SUSPEND"}, NEW h, IndicatorSet(state, h),
         transport' = transport
  PROVE  /\ IsConfig(indicator_config') /\ ~Running(indicator_config')
         /\ indicator_state' = current_state' /\ NotHidden'
  <1>1. CASE /\ current_state' = state /\ indicator_state' = state
             /\ indicator_config' = ConfigFor(state, Slot(h))
    <2>1. indicator_config' = Off
      BY <1>1, ConfigForFacts
    <2> QED BY <1>1, <2>1, OffDark DEF NotHidden
  <1>2. CASE UNCHANGED indVars /\ (transport = "USB" \/ current_state = state)
    <2>1. /\ indicator_config' = indicator_config /\ indicator_state' = indicator_state
          /\ current_state' = current_state
      BY <1>2 DEF indVars
    <2>2. ~Running(indicator_config)
      BY <1>2 DEF Named, Shows
    <2>3. NotHidden'
      BY <1>2, <2>1 DEF NotHidden
    <2> QED BY <2>1, <2>2, <2>3 DEF Named
  <1> QED BY <1>1, <1>2 DEF IndicatorSet

(* indicator_set for a state in which a LED blinks.                         *)
LEMMA SetBlinking ==
  ASSUME Named, NEW state \in {"PARING", "RECONNECTING"}, NEW h, IndicatorSet(state, h),
         transport' = transport
  PROVE  /\ IsConfig(indicator_config') /\ indicator_state' = current_state' /\ NotHidden'
         /\ \/ ~Running(indicator_config')
            \/ /\ Shows(indicator_config', state) /\ indicator_config'.of # "connected"
               /\ Named'
  <1>1. CASE /\ transport # "USB" /\ current_state' = state /\ indicator_state' = state
             /\ indicator_config' = ConfigFor(state, Slot(h))
    <2>1. /\ IsConfig(indicator_config')
          /\ indicator_config' = Off \/ Shows(indicator_config', state)
      BY <1>1, ConfigForFacts
    <2>2. NotHidden'
      BY <1>1 DEF NotHidden
    <2>3. Shows(indicator_config', state) => indicator_config'.of # "connected" /\ Named'
      BY <1>1, <2>1 DEF Shows, Named
    <2> QED BY <1>1, <2>1, <2>2, <2>3, OffDark
  <1>2. CASE UNCHANGED indVars /\ (transport = "USB" \/ current_state = state)
    <2>1. /\ indicator_config' = indicator_config /\ indicator_state' = indicator_state
          /\ current_state' = current_state
      BY <1>2 DEF indVars
    <2>2. NotHidden'
      BY <1>2, <2>1 DEF NotHidden
    <2>3. Running(indicator_config) => Shows(indicator_config, state)
      BY <1>2 DEF Named
    <2>4. Named'
      BY <2>1 DEF Named
    <2> QED BY <2>1, <2>2, <2>3, <2>4 DEF Named, Shows
  <1> QED BY <1>1, <1>2 DEF IndicatorSet

(* indicator_set for a connection.                                          *)
LEMMA SetConnected ==
  ASSUME Named, NEW h \in Hosts, IndicatorSet("CONNECTED", h), transport' = transport,
         Running(indicator_config) /\ indicator_config.of = "connected"
             => indicator_config.slot = Slot(h)
  PROVE  /\ IsConfig(indicator_config') /\ indicator_state' = current_state'
         /\ \/ ~Running(indicator_config')
            \/ /\ indicator_config'.of = "connected" /\ indicator_config'.slot = Slot(h)
               /\ Named'
  <1>1. Slot(h) # 0
    BY SlotNotNone
  <1>2. CASE UNCHANGED indVars /\ (transport = "USB" \/ current_state = "CONNECTED")
    <2>1. /\ indicator_config' = indicator_config /\ indicator_state' = indicator_state
          /\ current_state' = current_state
      BY <1>2 DEF indVars
    <2>2. Named'
      BY <2>1 DEF Named
    <2> QED BY <1>2, <2>1, <2>2 DEF Named, Shows
  <1>3. CASE /\ transport # "USB" /\ current_state' = "CONNECTED"
             /\ indicator_state' = "CONNECTED"
             /\ indicator_config' = ConfigFor("CONNECTED", Slot(h))
    <2>1. CASE current_state = "CONNECTED"
      <3>1. indicator_config' = indicator_config
        BY <1>3, <2>1, ConfigForFacts
      <3>2. Running(indicator_config) => indicator_config.of = "connected"
        BY <2>1 DEF Named, Shows
      <3> QED BY <1>3, <3>1, <3>2 DEF Named, Shows
    <2>2. CASE current_state # "CONNECTED"
      <3>1. /\ IsConfig(indicator_config') /\ indicator_config'.of = "connected"
            /\ indicator_config'.slot = Slot(h)
        BY <1>1, <1>3, <2>2, ConfigForFacts
      <3> QED BY <1>3, <3>1 DEF Named, Shows
    <2> QED BY <2>1, <2>2
  <1> QED BY <1>2, <1>3 DEF IndicatorSet

(* An event that shows nothing new leaves the rest of the stream to tell.   *)
LEMMA PassedShown ==
  ASSUME TypeOK, TellInv, ShownInv, EventTask, radio' = radio, UNCHANGED indVars,
         NEW e, e = Head(events), e.type \notin Setters,
         \/ UNCHANGED <<wireless_state, host_index>>
         \/ Has(Stream', Breakers),
         reported' = reported \/ Has(Stream', Breakers)
            \/ (reported # "CONNECTED" /\ reported' # "CONNECTED")
  PROVE  ShownInv'
  <1> DEFINE S == Stream  T == Stream'
  <1>1. /\ events # <<>> /\ events' = Tail(events) /\ phase' = "events"
        /\ transport' = transport
    BY HandledFields
  <1>2. T = Left
    BY DEF Left, Stream
  <1>3. Behind(S, T) /\ S[1] = e /\ Thinned(S, T, 1, Len(S) + 1)
    BY <1>1, <1>2, HandlingBehind
  <1>4. e.type \notin Breakers
    BY StatusSets
  <1>5. /\ indicator_config' = indicator_config /\ indicator_state' = indicator_state
        /\ current_state' = current_state
    BY DEF indVars
  <1> HIDE DEF S, T
  <1>6. Has(S, Breakers) => Has(T, Breakers)
    BY <1>3, <1>4, BehindTells
  <1>7. Has(S, Setters) => Has(T, Setters)
    BY <1>3, BehindTells
  <1>8. Named'
    BY <1>1, <1>5 DEF ShownInv, Named
  <1>9. ShownOrTold'
    <2>1. CASE Has(T, Breakers)
      <3>1. Has(T, Setters)
        BY <2>1, StatusSets DEF Has
      <3> QED BY <3>1 DEF ShownOrTold, T
    <2>2. CASE UNCHANGED <<wireless_state, host_index>>
      BY <1>5, <1>7, <2>2 DEF ShownInv, ShownOrTold, Matches, S, T
    <2> QED BY <2>1, <2>2 DEF T
  <1>10. PollingDark' /\ KeysDark'
    BY <1>1 DEF PollingDark, KeysDark
  <1>11. ASSUME NEW slot, HostShown(S, slot) PROVE HostShown(T, slot)
    <2> SUFFICES ASSUME NEW j \in 1 .. Len(T), T[j].type = "CONNECTED"
                 PROVE  slot = Slot(T[j].host) \/ Between(T, 0, j, Breakers)
      BY DEF HostShown
    <2> DEFINE i == From(j, 1, Len(S) + 1)
    <2>1. i \in 1 .. Len(S) /\ T[j] = S[i]
      BY <1>3, ThinnedPlaces
    <2>2. Between(S, 0, i, Breakers) => Between(T, 0, j, Breakers)
      BY <1>3, <1>4, ThinnedKeeps
    <2> HIDE DEF i
    <2>3. slot = Slot(S[i].host) \/ Between(S, 0, i, Breakers)
      BY <1>11, <2>1 DEF HostShown
    <2> QED BY <2>1, <2>2, <2>3
  <1>12. ShownHost'
    BY <1>5, <1>11 DEF ShownInv, ShownHost, S, T
  <1>13. NotHidden'
    BY <1>1, <1>5, <1>6 DEF ShownInv, NotHidden, S, T
  <1> QED BY <1>8, <1>9, <1>10, <1>12, <1>13 DEF ShownInv

(* An event is handled.                                                     *)
LEMMA HandleShown ==
  ASSUME TypeOK, TypeOK', AInv, TellInv, ShownInv, EventTask, NEW e, e = Head(events),
         EventIndication(e),
         reported' = IF e.type \in ConnectionStatuses THEN e.type ELSE reported
  PROVE  TellInv' /\ ShownInv'
  <1> DEFINE S == Stream  T == Stream'
  <1>1. /\ events # <<>> /\ events' = Tail(events) /\ e \in Frames
        /\ phase' = "events" /\ transport' = transport
        /\ e.type = "CONNECTED" => wireless_state' = "CONNECTED" /\ host_index' = e.host
        /\ e.type = "RECONNECTING" => wireless_state' = "RECONNECTING"
        /\ e.type = "DISCOVERABLE" => wireless_state' = "PARING"
        /\ e.type \notin LinkTypes =>
                /\ host_index' = host_index
                /\ wireless_state' # wireless_state => e.type = "SLEEP" /\ wireless_state = "PARING"
        /\ e.type # "DISCONNECTED" => radio' = radio
    BY HandledFields
  <1>2. e.type \in Statuses /\ e.host \in Hosts
    BY <1>1 DEF Frames
  <1>3. TellInv'
    BY HandleTell
  <1>4. Named
    BY DEF ShownInv
  <1>5. PollingDark' /\ KeysDark'
    BY <1>1 DEF PollingDark, KeysDark
  <1>6. ASSUME radio' = radio
        PROVE  T = Left /\ Behind(S, T) /\ S[1] = e
    <2>1. T = Left
      BY <1>6 DEF Left, Stream
    <2> QED BY <1>1, <2>1, HandlingBehind
  <1>7. ASSUME NEW state \in {"DISCONNECTED", "SUSPEND"}, NEW h, IndicatorSet(state, h)
        PROVE  ShownInv'
    BY <1>1, <1>4, <1>7, SetDark, DarkShown
  <1>8. ASSUME NEW state \in {"PARING", "RECONNECTING"}, NEW h, IndicatorSet(state, h),
               wireless_state' = state
        PROVE  ShownInv'
    <2>1. /\ IsConfig(indicator_config') /\ indicator_state' = current_state' /\ NotHidden'
          /\ \/ ~Running(indicator_config')
             \/ /\ Shows(indicator_config', state) /\ indicator_config'.of # "connected"
                /\ Named'
      BY <1>1, <1>4, <1>8, SetBlinking
    <2>2. CASE ~Running(indicator_config')
      BY <2>1, <2>2, DarkShown
    <2>3. CASE Shows(indicator_config', state) /\ indicator_config'.of # "connected" /\ Named'
      <3>1. ShownOrTold' /\ ShownHost'
        BY <1>8, <2>3 DEF ShownOrTold, Matches, ShownHost
      <3> QED BY <1>5, <2>1, <2>3, <3>1 DEF ShownInv
    <2> QED BY <2>1, <2>2, <2>3
  <1>9. CASE e.type = "DISCONNECTED"
    <2>1. PICK state \in {"DISCONNECTED", "SUSPEND"} : IndicatorSet(state, e.host)
      BY <1>9 DEF EventIndication
    <2> QED BY <1>3, <1>7, <2>1
  <1>10. CASE e.type = "RECONNECTING" \/ e.type = "DISCOVERABLE"
    <2>1. \/ IndicatorSet("RECONNECTING", e.host) /\ wireless_state' = "RECONNECTING"
          \/ IndicatorSet("PARING", e.host) /\ wireless_state' = "PARING"
      BY <1>1, <1>10 DEF EventIndication
    <2> QED BY <1>3, <1>8, <2>1
  <1>11. CASE e.type = "CONNECTED"
    <2>1. radio' = radio /\ reported' = "CONNECTED" /\ IndicatorSet("CONNECTED", e.host)
      BY <1>1, <1>11 DEF EventIndication, ConnectionStatuses, Statuses
    <2>2. Behind(S, T) /\ S[1] = e /\ HostsApart(S)
      BY <1>6, <2>1 DEF TellInv
    <2> HIDE DEF S, T
    <2>3. /\ Len(T) \in Nat /\ Len(S) = Len(T) + 1 /\ 1 \in 1 .. Len(S)
          /\ \A i \in 1 .. Len(T) : T[i] = S[i + 1]
      BY <2>2 DEF Behind
    <2>4. ~Between(S, 0, 1, Breakers)
      BY DEF Between
    <2>5. ASSUME Running(indicator_config), indicator_config.of = "connected"
          PROVE  indicator_config.slot = Slot(e.host)
      <3>1. HostShown(S, indicator_config.slot)
        BY <2>5 DEF ShownInv, ShownHost, S
      <3> QED BY <1>11, <2>2, <2>3, <2>4, <3>1 DEF HostShown
    <2>6. HostShown(T, Slot(e.host))
      <3> SUFFICES ASSUME NEW j \in 1 .. Len(T), T[j].type = "CONNECTED"
                   PROVE  Slot(e.host) = Slot(T[j].host) \/ Between(T, 0, j, Breakers)
        BY DEF HostShown
      <3>1. j + 1 \in 1 .. Len(S) /\ 1 < j + 1 /\ T[j] = S[j + 1] /\ 0 \in 0 .. Len(T) /\ 0 + 1 = 1
        BY <2>3
      <3>2. S[1].host = S[j + 1].host \/ Between(S, 1, j + 1, Breakers)
        BY <1>11, <2>2, <2>3, <3>1 DEF HostsApart
      <3>3. Between(T, 0, j, Breakers) <=> Between(S, 0 + 1, j + 1, Breakers)
        BY <2>2, <3>1, BehindTells
      <3> QED BY <2>2, <3>1, <3>2, <3>3
    <2>7. /\ IsConfig(indicator_config') /\ indicator_state' = current_state'
          /\ \/ ~Running(indicator_config')
             \/ /\ indicator_config'.of = "connected" /\ indicator_config'.slot = Slot(e.host)
                /\ Named'
      BY <1>1, <1>2, <1>4, <2>1, <2>5, SetConnected
    <2>8. NotHidden'
      BY <2>1 DEF NotHidden
    <2>9. CASE ~Running(indicator_config')
      BY <1>3, <2>7, <2>8, <2>9, DarkShown
    <2>10. CASE /\ indicator_config'.of = "connected" /\ indicator_config'.slot = Slot(e.host)
                /\ Named'
      <3>1. ShownOrTold'
        BY <1>1, <1>11, <2>10 DEF ShownOrTold, Matches, Shows
      <3>2. ShownHost'
        BY <2>6, <2>10 DEF ShownHost, T
      <3> QED BY <1>3, <1>5, <2>8, <2>10, <3>1, <3>2 DEF ShownInv
    <2> QED BY <2>7, <2>9, <2>10
  <1>12. CASE e.type = "SLEEP" /\ IndicatorSet("SUSPEND", 0)
    BY <1>3, <1>7, <1>12
  <1>13. CASE e.type = "SLEEP" /\ wireless_state # "PARING" /\ UNCHANGED indVars
    <2>1. /\ radio' = radio /\ UNCHANGED <<wireless_state, host_index>> /\ e.type \notin Setters
          /\ reported' = "SLEEP"
      BY <1>1, <1>13 DEF LinkTypes, Setters, ConnectionStatuses, Statuses
    <2>2. Behind(S, T) /\ S[1] = e /\ SleepKnown(S, reported)
      BY <1>6, <2>1 DEF TellInv
    <2> HIDE DEF S, T
    <2>3. reported # "CONNECTED" \/ Later(S, 1, Breakers)
      <3>1. 1 \in 1 .. Len(S) /\ 1 .. 1 - 1 = {}
        BY <2>2 DEF Behind
      <3> QED BY <1>13, <2>2, <3>1 DEF SleepKnown
    <2>4. reported # "CONNECTED" \/ Has(T, Breakers)
      BY <2>2, <2>3, BehindTells
    <2> QED BY <1>3, <1>13, <2>1, <2>4, PassedShown DEF T
  <1>14. CASE e.type = "RESET" /\ UNCHANGED indVars
    <2>1. radio' = radio /\ e.type \notin Setters
      BY <1>1, <1>14 DEF Setters
    <2>2. Behind(S, T) /\ S[1] = e /\ ResetsEnd(S)
      BY <1>6, <2>1 DEF TellInv
    <2> HIDE DEF S, T
    <2>3. Later(S, 1, {"DISCONNECTED"})
      <3>1. 1 \in 1 .. Len(S)
        BY <2>2 DEF Behind
      <3> QED BY <1>14, <2>2, <3>1 DEF ResetsEnd
    <2>4. Later(S, 1, Breakers)
      BY <2>3, StatusSets DEF Later
    <2>5. Has(T, Breakers)
      BY <2>2, <2>4, BehindTells
    <2> QED BY <1>3, <1>14, <2>1, <2>5, PassedShown DEF T
  <1>15. CASE e.type \in {"HID_INDICATOR", "PINCODE_ENTRY", "EXIT_PINCODE_ENTRY"}
              /\ UNCHANGED indVars
    <2>1. /\ radio' = radio /\ UNCHANGED <<wireless_state, host_index>> /\ e.type \notin Setters
          /\ reported' = reported
      BY <1>1, <1>15 DEF LinkTypes, Setters, ConnectionStatuses
    <2> QED BY <1>3, <1>15, <2>1, PassedShown
  <1>16. \/ e.type \in {"DISCONNECTED", "RECONNECTING", "DISCOVERABLE", "CONNECTED"}
         \/ e.type = "SLEEP" /\ IndicatorSet("SUSPEND", 0)
         \/ e.type = "SLEEP" /\ wireless_state # "PARING" /\ UNCHANGED indVars
         \/ e.type = "RESET" /\ UNCHANGED indVars
         \/ /\ e.type \in {"HID_INDICATOR", "PINCODE_ENTRY", "EXIT_PINCODE_ENTRY"}
            /\ UNCHANGED indVars
    BY DEF EventIndication
  <1> QED BY <1>9, <1>10, <1>11, <1>12, <1>13, <1>14, <1>15, <1>16

-----------------------------------------------------------------------------
\* The theorems.

IndInv == WInv /\ AInv /\ TellInv /\ ShownInv

(* What is shown changes nothing of the connection.                         *)
LEMMA IndStep == [IndNext]_allVars => [Next]_vars
  BY DEF IndNext, Next, IndicatorTask, allVars, vars

(* At boot the module has one thing to say and nothing is shown.            *)
LEMMA InitIndInv == IndInit => IndInv
  <1> SUFFICES ASSUME IndInit PROVE IndInv
    OBVIOUS
  <1>1. WInv /\ AInv /\ TypeOK
    BY InitWInv, InitAInv DEF IndInit, WInv
  <1>2. PICK h \in Hosts :
            radio.st = "IDLE" /\ radio.frames = <<Status("DISCONNECTED", h)>>
    BY DEF IndInit, Init
  <1>3. events = <<>> /\ phase = "boot" /\ indicator_config = Off /\ reported = "RESET"
        /\ indicator_state = "RESET" /\ current_state = "RESET"
    BY DEF IndInit, Init
  <1>4. Len(Stream) = 1 /\ Stream[1].type = "DISCONNECTED"
    <2>1. Len(radio.frames) = 1 /\ radio.frames[1].type = "DISCONNECTED"
      BY <1>2 DEF Status
    <2>2. Len(events) = 0
      BY <1>3
    <2>3. /\ Len(Stream) = Len(events) + Len(radio.frames)
          /\ \A i \in 1 .. Len(radio.frames) : Stream[Len(events) + i] = radio.frames[i]
      BY <1>1, StreamPlaces
    <2> QED BY <2>1, <2>2, <2>3
  <1>5. \A i \in 1 .. Len(Stream) : Stream[i].type = "DISCONNECTED"
    BY <1>4
  <1>6. Has(Stream, Breakers) /\ Has(Stream, LinkTypes)
    BY <1>4, StatusSets DEF Has
  <1>7. ResetsEnd(Stream) /\ HostsApart(Stream) /\ SleepKnown(Stream, reported)
    BY <1>5 DEF ResetsEnd, HostsApart, SleepKnown
  <1>8. TellInv
    BY <1>2, <1>3, <1>6, <1>7 DEF TellInv, ReconnectingKnown, FramesBreak, ReportKnown
  <1>9. ShownInv
    BY <1>3, OffDark
       DEF ShownInv, Named, ShownOrTold, PollingDark, KeysDark, ShownHost, NotHidden
  <1> QED BY <1>1, <1>8, <1>9 DEF IndInv

(* Every step keeps the four invariants.                                    *)
LEMMA NextIndInv == IndInv /\ [IndNext]_allVars => IndInv'
  <1> SUFFICES ASSUME IndInv, [IndNext]_allVars PROVE IndInv'
    OBVIOUS
  <1>1. /\ WInv /\ AInv /\ TypeOK /\ TellInv /\ ShownInv
    BY DEF IndInv, WInv
  <1>2. WInv' /\ TypeOK'
    BY <1>1, IndStep, NextWInv DEF WInv
  <1>3. AInv'
    BY <1>1, IndStep, NextAInv
  <1>4. CASE Next /\ SwitchIndication /\ UNCHANGED reported
    BY <1>1, <1>2, <1>3, <1>4, SwitchShown DEF IndInv
  <1>5. CASE /\ EventTask /\ EventIndication(Head(events))
             /\ reported' = IF Head(events).type \in ConnectionStatuses
                              THEN Head(events).type ELSE reported
    <2>1. TellInv' /\ ShownInv'
      BY <1>1, <1>2, <1>5, HandleShown
    <2> QED BY <1>2, <1>3, <2>1 DEF IndInv
  <1>6. CASE (SendKeyboard \/ SendExtra) /\ ConnectIndication /\ UNCHANGED reported
    BY <1>1, <1>2, <1>3, <1>6, SendShown DEF IndInv
  <1>7. CASE /\ Next /\ transport' = transport /\ ~EventTask /\ ~SendKeyboard /\ ~SendExtra
             /\ UNCHANGED <<indVars, reported>>
    BY <1>1, <1>2, <1>3, <1>7, OtherShown DEF IndInv
  <1>8. CASE IndicatorTask
    BY <1>1, <1>2, <1>3, <1>8, IndicatorTaskShown DEF IndInv
  <1>9. CASE UNCHANGED allVars
    <2>1. UNCHANGED <<indVars, transport, reported, wireless_state, host_index, radio, events,
                      phase>>
      BY <1>9 DEF allVars, vars, mcu
    <2>2. TellInv' /\ Stream' = Stream
      BY <1>1, <2>1, SilentTell
    <2>3. ShownInv'
      BY <1>1, <2>1, <2>2, StillShown
    <2> QED BY <1>2, <1>3, <2>2, <2>3 DEF IndInv
  <1> QED BY <1>4, <1>5, <1>6, <1>7, <1>8, <1>9 DEF IndNext

(* The invariant holds in every behaviour of the composition.               *)
LEMMA AlwaysIndInv == IndSpec => []IndInv
  BY InitIndInv, NextIndInv, PTL DEF IndSpec

(* An indication that is running shows the state and the host of the        *)
(* connection once all events are handled, for every number of hosts, every *)
(* length of the event queue and however often the module repeats a frame   *)
(* or restarts (indicator_set, the handlers of wireless.c, set_transport).  *)
THEOREM IndicationShowsConnection == IndSpec => []ShowsConnection
  <1>1. IndInv => ShowsConnection
    <2> SUFFICES ASSUME IndInv, Quiet, Running(indicator_config)
                 PROVE  CASE indicator_config.of = "pairing" -> wireless_state = "PARING"
                          [] indicator_config.of = "reconnecting" ->
                                 wireless_state = "RECONNECTING"
                          [] indicator_config.of = "connected" ->
                                 /\ wireless_state = "CONNECTED"
                                 /\ indicator_config.slot = Slot(host_index)
      BY DEF ShowsConnection
    <2>1. Len(Stream) = 0
      <3>1. Len(events) = 0 /\ Len(radio.frames) = 0
        BY DEF Quiet
      <3>2. Len(Stream) = Len(events) + Len(radio.frames)
        BY StreamPlaces DEF IndInv, WInv
      <3> QED BY <3>1, <3>2
    <2>2. ~Has(Stream, Setters)
      BY <2>1 DEF Has
    <2>3. Matches(indicator_config)
      BY <2>2 DEF IndInv, ShownInv, ShownOrTold
    <2>4. CASE indicator_config.of = "pairing"
      BY <2>3, <2>4 DEF Matches, Shows
    <2>5. CASE indicator_config.of = "reconnecting"
      BY <2>3, <2>5 DEF Matches, Shows
    <2>6. CASE indicator_config.of = "connected"
      BY <2>3, <2>6 DEF Matches, Shows
    <2> QED BY <2>3, <2>4, <2>5, <2>6 DEF Matches, Shows
  <1> QED BY <1>1, AlwaysIndInv, PTL

(* The last event of a series, if it reports a connection after any other   *)
(* status, lights up the LED of its host: the statics of indicator_set      *)
(* never take it for a repetition.                                          *)
THEOREM NewConnectionIsShown == IndSpec => ConnectionIsShown
  <1> DEFINE Lit == reported # "CONNECTED" /\ reported' = "CONNECTED" /\ Quiet' /\ transport # "USB"
                    => /\ indicator_config'.of = "connected"
                       /\ indicator_config'.slot = Slot(host_index')
  <1>1. IndInv /\ IndInv' /\ [IndNext]_allVars => [Lit]_allVars
    <2> SUFFICES ASSUME IndInv, IndInv', IndNext,
                        reported # "CONNECTED", reported' = "CONNECTED", Quiet', transport # "USB"
                 PROVE  /\ indicator_config'.of = "connected"
                        /\ indicator_config'.slot = Slot(host_index')
      OBVIOUS
    <2> DEFINE e == Head(events)
    <2>1. TypeOK /\ TypeOK' /\ NotHidden /\ Named
      BY DEF IndInv, WInv, ShownInv
    <2>2. EventTask /\ EventIndication(e) /\ e.type = "CONNECTED"
      BY DEF IndNext, IndicatorTask
    <2> HIDE DEF e
    <2>3. /\ events # <<>> /\ events' = Tail(events) /\ e \in Frames /\ radio' = radio
          /\ host_index' = e.host
      BY <2>1, <2>2, HandledFields DEF e
    <2>4. Behind(Stream, Left) /\ Stream[1] = e
      BY <2>1, <2>3, HandlingBehind DEF e
    <2>5. Len(Left) = 0
      <3>1. Left = Stream'
        BY <2>3 DEF Left, Stream
      <3>2. Len(events') = 0 /\ Len(radio'.frames) = 0
        BY DEF Quiet
      <3>3. events' \in Seq(Frames) /\ radio'.frames \in Seq(Frames)
        BY <2>1 DEF TypeOK, Radios
      <3>4. Len(Stream') = Len(events') + Len(radio'.frames)
        BY <3>3 DEF Stream
      <3> QED BY <3>1, <3>2, <3>4
    <2>6. ~Has(Stream, Breakers)
      <3>1. ~Has(Left, Breakers)
        BY <2>5 DEF Has
      <3> QED BY <2>2, <2>4, <3>1, BehindTells, StatusSets
    <2>7. current_state # "CONNECTED"
      BY <2>1, <2>6 DEF NotHidden
    <2>8. IndicatorSet("CONNECTED", e.host)
      BY <2>2 DEF EventIndication
    <2>9. indicator_config' = ConfigFor("CONNECTED", Slot(e.host))
      BY <2>7, <2>8 DEF IndicatorSet
    <2>10. e.host \in Hosts
      BY <2>3 DEF Frames
    <2>11. Slot(e.host) # 0
      BY <2>10, SlotNotNone
    <2> QED BY <2>1, <2>3, <2>7, <2>9, <2>11, ConfigForFacts
  <1> QED BY <1>1, AlwaysIndInv, PTL DEF IndSpec, ConnectionIsShown
=============================================================================
