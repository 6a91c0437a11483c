--------------------------- MODULE TimestampsProofs ---------------------------
(***************************************************************************)
(* Theorems about Timestamps, for any number of tasks on either core, any  *)
(* moments, any length of a tick and any wrap of the cycle counter.        *)
(***************************************************************************)
EXTENDS Timestamps, Sequences, RecursionTheorems

(***************************************************************************)
(* The times have a last one.                                              *)
(***************************************************************************)
LEMMA LastMomentIs == LastMoment \in Nat /\ \A m \in Moments : m <= LastMoment
<1>1. PICK seq \in Seq(Moments) : \A m \in Moments : \E n \in 1 .. Len(seq) : seq[n] = m
  BY TimestampsAssumption DEF IsFiniteSet
<1>2. Len(seq) \in Nat /\ \A n \in 1 .. Len(seq) : seq[n] \in Nat
  <2>1. Len(seq) \in Nat /\ \A n \in 1 .. Len(seq) : seq[n] \in Moments
    OBVIOUS
  <2> QED BY <2>1, TimestampsAssumption
<1> DEFINE l == Len(seq)
           open == {k \in 0 .. l : ~\E b \in Nat : \A n \in 1 .. k : seq[n] <= b}
<1> HIDE DEF l
<1>3. open = {}
  <2>1. SUFFICES ASSUME open # {} PROVE FALSE
    OBVIOUS
  <2>2. open \subseteq Nat
    BY <1>2 DEF l
  <2>3. PICK k \in open : \A j \in open : ~(<<j, k>> \in OpToRel(<, Nat))
    <3> HIDE DEF open
    <3> QED BY <2>1, <2>2, NatLessThanWellFounded, WFMin
  <2>4. k \in 0 .. l /\ k \in Nat /\ ~\E b \in Nat : \A n \in 1 .. k : seq[n] <= b
    BY <2>2
  <2>5. k # 0
    <3>1. \A n \in 1 .. 0 : seq[n] <= 0
      OBVIOUS
    <3> QED BY <2>4, <3>1
  <2>6. k - 1 \in 0 .. l /\ k - 1 \in Nat /\ k - 1 < k
    BY <1>2, <2>4, <2>5 DEF l
  <2>7. k - 1 \notin open
    BY <2>2, <2>3, <2>6 DEF OpToRel
  <2>8. PICK b \in Nat : \A n \in 1 .. k - 1 : seq[n] <= b
    BY <2>6, <2>7
  <2>9. seq[k] \in Nat
    BY <1>2, <2>4, <2>5 DEF l
  <2>10. \A n \in 1 .. k : n \in 1 .. k - 1 \/ n = k
    BY <2>4
  <2>11. \A n \in 1 .. k : seq[n] \in Nat
    BY <1>2, <2>4 DEF l
  <2> DEFINE top == seq[k]
  <2> HIDE DEF top
  <2>12. top \in Nat /\ b + top \in Nat
    <3>1. \A x, y \in Nat : x + y \in Nat
      OBVIOUS
    <3>2. top \in Nat
      BY <2>9 DEF top
    <3> QED BY <2>8, <3>1, <3>2
  <2>13. ASSUME NEW n \in 1 .. k
         PROVE  seq[n] <= b + top
    <3>1. seq[n] \in Nat
      BY <2>11
    <3>2. CASE n \in 1 .. k - 1
      <4>1. seq[n] <= b
        BY <2>8, <3>2
      <4>2. \A x, y, z \in Nat : x <= y => x <= y + z
        OBVIOUS
      <4> QED BY <2>8, <2>12, <3>1, <4>1, <4>2
    <3>3. CASE n = k
      <4>1. seq[n] = top
        BY <3>3 DEF top
      <4> QED BY <2>12, <4>1
    <3> QED BY <2>10, <3>2, <3>3
  <2> QED BY <2>4, <2>12, <2>13
<1>4. PICK b \in Nat : \A n \in 1 .. l : seq[n] <= b
  <2>1. l \in 0 .. l
    BY <1>2 DEF l
  <2> QED BY <1>3, <2>1
<1> DEFINE bounds == {c \in Nat : \A m \in Moments : m <= c}
<1>5. b \in bounds
  BY <1>1, <1>4 DEF l
<1>6. PICK c \in bounds : \A d \in bounds : ~(<<d, c>> \in OpToRel(<, Nat))
  <2>1. bounds \subseteq Nat /\ bounds # {}
    BY <1>5
  <2> HIDE DEF bounds
  <2> QED BY <2>1, NatLessThanWellFounded, WFMin
<1>7. c \in Nat /\ \A m \in Moments : m <= c
  OBVIOUS
<1>8. c \in Moments
  <2> SUFFICES ASSUME c \notin Moments PROVE FALSE
    OBVIOUS
  <2>1. \A m \in Moments : m \in Nat /\ m <= c - 1
    BY <1>7, TimestampsAssumption
  <2>2. c - 1 \in Nat
    BY <1>7, <2>1, TimestampsAssumption
  <2>3. c - 1 \in bounds /\ c - 1 < c
    BY <1>7, <2>1, <2>2
  <2> QED BY <1>6, <1>7, <2>2, <2>3 DEF OpToRel
<1> DEFINE last == CHOOSE x \in Moments : \A m \in Moments : x >= m
<1>9. \A m \in Moments : c >= m
  BY <1>7, TimestampsAssumption
<1>10. last \in Moments /\ \A m \in Moments : last >= m
  BY <1>8, <1>9
<1>11. LastMoment = last
  BY DEF LastMoment, Max
<1> HIDE DEF last
<1>12. \A m \in Moments : m \in Nat
  BY TimestampsAssumption
<1> QED BY <1>10, <1>11, <1>12

(***************************************************************************)
(* The numbers of the constants.                                           *)
(***************************************************************************)
LEMMA NumbersAre ==
  /\ MsPerTick \in Nat \ {0} /\ EarlyModulus \in Nat \ {0} /\ MaxCount \in Nat \ {0}
  /\ BufferSize \in Nat /\ BufferSize > 4
  /\ \A m \in Moments : m \in Nat
BY TimestampsAssumption, BufferAssumption

(***************************************************************************)
(* The early timestamp: the time, until the counter wraps.                 *)
(***************************************************************************)
LEMMA EarlyIs ==
  ASSUME now \in Nat
  PROVE  /\ log_early_timestamp \in 0 .. EarlyModulus - 1
         /\ ~CounterWrapped => log_early_timestamp = now
<1> DEFINE m == EarlyModulus
<1>1. m \in Nat \ {0}
  BY NumbersAre
<1>2. \A a \in Nat, b \in Nat \ {0} : a % b \in 0 .. b - 1
  OBVIOUS
<1>3. \A a \in Nat, b \in Nat \ {0} : ~(a >= b) => a % b = a
  OBVIOUS
<1> HIDE DEF m
<1>4. log_early_timestamp = now % m /\ (CounterWrapped <=> now >= m)
  BY DEF log_early_timestamp, CounterWrapped, m
<1>5. log_early_timestamp \in 0 .. m - 1
  BY <1>1, <1>2, <1>4
<1> QED BY <1>1, <1>3, <1>4, <1>5 DEF m

(***************************************************************************)
(* Whole ticks, in milliseconds: no more than the time, and never less     *)
(* when more time has passed.                                              *)
(***************************************************************************)
LEMMA TicksAre ==
  /\ \A x \in Nat : /\ x \div MsPerTick \in Nat /\ (x \div MsPerTick) * MsPerTick \in Nat
                    /\ (x \div MsPerTick) * MsPerTick <= x
  /\ \A x, y \in Nat : x <= y =>
       (x \div MsPerTick) * MsPerTick <= (y \div MsPerTick) * MsPerTick
<1> DEFINE m == MsPerTick
<1>1. m \in Nat \ {0}
  BY NumbersAre
<1> HIDE DEF m
<1>2. \A x \in Nat, d \in Nat \ {0} :
        x \div d \in Nat /\ (x \div d) * d \in Nat /\ (x \div d) * d <= x /\ x < (x \div d) * d + d
  OBVIOUS
<1>3. \A i, j \in Nat : i <= j => i * m <= j * m
  <2> SUFFICES ASSUME NEW i \in Nat, NEW j \in Nat, i <= j PROVE i * m <= j * m
    OBVIOUS
  <2>1. PICK d \in Nat : j = i + d
    <3>1. j - i \in Nat /\ j = i + (j - i)
      OBVIOUS
    <3> QED BY <3>1
  <2>2. j * m = i * m + d * m /\ d * m \in Nat /\ i * m \in Nat
    BY <1>1, <2>1
  <2> QED BY <2>2
<1>4. ASSUME NEW x \in Nat, NEW y \in Nat, x <= y
      PROVE  (x \div m) * m <= (y \div m) * m
  <2> DEFINE p == x \div m
             q == y \div m
  <2>1. /\ p \in Nat /\ p * m \in Nat /\ p * m <= x
        /\ q \in Nat /\ q * m \in Nat /\ y < q * m + m
    BY <1>1, <1>2
  <2> HIDE DEF p, q
  <2>2. ~(q < p)
    <3>1. q < p => q + 1 <= p
      BY <2>1
    <3>2. q < p => (q + 1) * m <= p * m
      BY <1>3, <2>1, <3>1
    <3>3. (q + 1) * m = q * m + m
      BY <1>1, <2>1
    <3> QED BY <1>1, <1>4, <2>1, <3>2, <3>3
  <2>3. p <= q
    BY <2>1, <2>2
  <2> QED BY <1>3, <2>1, <2>3 DEF p, q
<1> QED BY <1>1, <1>2, <1>4 DEF m

-----------------------------------------------------------------------------
(* The recursive functions *)

(***************************************************************************)
(* What the rounds leave of a number.                                      *)
(***************************************************************************)
LEMMA RestIs ==
  ASSUME NEW n \in Nat
  PROVE  /\ Rest(n) \in [0 .. BufferSize -> Nat] /\ Rest(n)[0] = n
         /\ \A k \in 1 .. BufferSize : Rest(n)[k] = Rest(n)[k - 1] \div 10
<1> DEFINE B == BufferSize
<1>1. B \in Nat
  BY NumbersAre
<1> HIDE DEF B
<1> DEFINE h == [x \in Nat \X Nat |-> x[2] \div 10]
<1>2. \A k \in Nat, r \in Nat : h[<<k, r>>] = r \div 10
  OBVIOUS
<1>3. h \in [Nat \X Nat -> Nat]
  <2>1. \A x \in Nat \X Nat : x[2] \in Nat
    OBVIOUS
  <2>2. \A r \in Nat : r \div 10 \in Nat
    OBVIOUS
  <2> QED BY <2>1, <2>2
<1> HIDE DEF h
<1>4. PICK f \in [0 .. B -> Nat] : f[0] = n /\ \A k \in 1 .. B : f[k] = h[<<k, f[k - 1]>>]
  <2>1. Recursion(B, Nat, n, h)
    BY <1>1, <1>3, RecursionIs
  <2> QED BY <2>1 DEF Recursion
<1>5. \A k \in 0 .. B : k = 0 \/ (k \in 1 .. B /\ k - 1 \in 0 .. B /\ k \in Nat)
  BY <1>1
<1>6. f = [k \in 0 .. B |-> IF k = 0 THEN n ELSE f[k - 1] \div 10]
  <2>1. ASSUME NEW k \in 0 .. B
        PROVE  f[k] = IF k = 0 THEN n ELSE f[k - 1] \div 10
    BY <1>2, <1>4, <1>5
  <2> QED BY <1>4, <2>1
<1> DEFINE g == CHOOSE g : g = [k \in 0 .. B |-> IF k = 0 THEN n ELSE g[k - 1] \div 10]
<1>7. Rest(n) = g
  BY DEF Rest, B
<1>8. g = [k \in 0 .. B |-> IF k = 0 THEN n ELSE g[k - 1] \div 10]
  BY <1>6
<1> HIDE DEF g
<1>9. DOMAIN g = 0 .. B /\ g[0] = n /\ \A k \in 1 .. B : g[k] = g[k - 1] \div 10
  <2>1. 0 \in 0 .. B /\ \A k \in 1 .. B : k \in 0 .. B /\ k # 0
    BY <1>1
  <2> QED BY <1>8, <2>1
<1> DEFINE other == {k \in 0 .. B : g[k] \notin Nat}
<1>10. other = {}
  <2> SUFFICES ASSUME other # {} PROVE FALSE
    OBVIOUS
  <2>1. PICK k \in other : \A j \in other : ~(<<j, k>> \in OpToRel(<, Nat))
    <3>1. other \subseteq Nat
      BY <1>1
    <3> HIDE DEF other
    <3> QED BY <3>1, NatLessThanWellFounded, WFMin
  <2>2. k \in 0 .. B /\ g[k] \notin Nat
    BY <2>1
  <2>3. k \in 1 .. B /\ k - 1 \in 0 .. B /\ k \in Nat /\ k - 1 \in Nat /\ k - 1 < k
    BY <1>1, <1>9, <2>2
  <2>4. g[k - 1] \in Nat
    BY <2>1, <2>3 DEF OpToRel
  <2>5. \A r \in Nat : r \div 10 \in Nat
    OBVIOUS
  <2> QED BY <1>9, <2>2, <2>3, <2>4, <2>5
<1> QED BY <1>7, <1>8, <1>9, <1>10 DEF B

(***************************************************************************)
(* The buffer after some rounds: the digits pushed so far, the last one in *)
(* front.                                                                  *)
(***************************************************************************)
LEMMA PushedIs ==
  ASSUME NEW n \in Nat, NEW S, NEW text \in [Cells -> S], NEW k \in 0 .. BufferSize,
         \A d \in 0 .. 9 : Digit(d) \in S
  PROVE  /\ Pushed(text, n)[k] \in [Cells -> S]
         /\ \A j \in Cells : j < k => Pushed(text, n)[k][j] = Digit(Rest(n)[k - 1 - j] % 10)
<1> DEFINE B == BufferSize
           R == Rest(n)
           C == [Cells -> S]
<1>1. B \in Nat /\ k \in 0 .. B /\ Cells = 0 .. B - 1
  BY NumbersAre DEF Cells
<1>2. R \in [0 .. B -> Nat]
  BY RestIs
<1> HIDE DEF R
<1>3. \A i \in 1 .. B : i - 1 \in 0 .. B /\ R[i - 1] % 10 \in 0 .. 9
  <2>1. \A r \in Nat : r % 10 \in 0 .. 9
    OBVIOUS
  <2>2. \A i \in 1 .. B : i - 1 \in 0 .. B
    BY <1>1
  <2> QED BY <1>2, <2>1, <2>2
<1> HIDE DEF B
<1> DEFINE h == [x \in Nat \X C |-> IF x[1] \in 1 .. B THEN PushedFront(x[2], R[x[1] - 1] % 10) ELSE x[2]]
<1>4. \A i \in 1 .. B, c \in C : h[<<i, c>>] = PushedFront(c, R[i - 1] % 10)
  <2>1. \A i \in 1 .. B : i \in Nat
    BY <1>1
  <2> QED BY <2>1
<1>5. ASSUME NEW c \in C, NEW d \in 0 .. 9
      PROVE  /\ PushedFront(c, d) \in C
             /\ \A j \in Cells : PushedFront(c, d)[j] = IF j = 0 THEN Digit(d) ELSE c[j - 1]
  <2>1. \A j \in Cells : j # 0 => j - 1 \in Cells
    BY <1>1
  <2> QED BY <2>1 DEF PushedFront
<1>6. h \in [Nat \X C -> C]
  <2>1. ASSUME NEW x \in Nat \X C
        PROVE  h[x] \in C
    <3>1. x[1] \in Nat /\ x[2] \in C
      OBVIOUS
    <3>2. x[1] \in 1 .. B => PushedFront(x[2], R[x[1] - 1] % 10) \in C
      BY <1>3, <1>5, <3>1
    <3> HIDE DEF C
    <3> QED BY <3>1, <3>2
  <2> QED BY <2>1
<1> HIDE DEF h
<1>7. PICK f \in [0 .. B -> C] : f[0] = text /\ \A i \in 1 .. B : f[i] = h[<<i, f[i - 1]>>]
  <2>1. text \in C
    OBVIOUS
  <2> HIDE DEF C
  <2>2. Recursion(B, C, text, h)
    BY <1>1, <1>6, <2>1, RecursionIs
  <2> QED BY <2>2 DEF Recursion
<1>8. \A i \in 0 .. B : i = 0 \/ (i \in 1 .. B /\ i - 1 \in 0 .. B)
  BY <1>1
<1>9. f = [i \in 0 .. B |-> IF i = 0 THEN text ELSE PushedFront(f[i - 1], R[i - 1] % 10)]
  <2>1. ASSUME NEW i \in 0 .. B
        PROVE  f[i] = IF i = 0 THEN text ELSE PushedFront(f[i - 1], R[i - 1] % 10)
    <3> HIDE DEF C
    <3>1. i = 0 => f[i] = text
      BY <1>7
    <3>2. i \in 1 .. B => f[i - 1] \in C /\ i # 0
      BY <1>1, <1>7, <1>8
    <3> QED BY <1>4, <1>7, <1>8, <3>1, <3>2
  <2> QED BY <1>7, <2>1
<1> DEFINE g == CHOOSE g : g = [i \in 0 .. B |-> IF i = 0 THEN text ELSE PushedFront(g[i - 1], R[i - 1] % 10)]
<1>10. Pushed(text, n) = g
  BY DEF Pushed, B, R
<1>11. g = [i \in 0 .. B |-> IF i = 0 THEN text ELSE PushedFront(g[i - 1], R[i - 1] % 10)]
  BY <1>9
<1> HIDE DEF g
<1>12. g[0] = text /\ \A i \in 1 .. B : g[i] = PushedFront(g[i - 1], R[i - 1] % 10)
  <2>1. 0 \in 0 .. B /\ \A i \in 1 .. B : i \in 0 .. B /\ i # 0
    BY <1>1
  <2> QED BY <1>11, <2>1
<1> DEFINE Good(i) == /\ g[i] \in C
                      /\ \A j \in Cells : j < i => g[i][j] = Digit(R[i - 1 - j] % 10)
           other == {i \in 0 .. B : ~Good(i)}
<1>13. other = {}
  <2> SUFFICES ASSUME other # {} PROVE FALSE
    OBVIOUS
  <2>1. PICK i \in other : \A j \in other : ~(<<j, i>> \in OpToRel(<, Nat))
    <3>1. other \subseteq Nat
      BY <1>1
    <3> HIDE DEF other
    <3> QED BY <3>1, NatLessThanWellFounded, WFMin
  <2>2. i \in 0 .. B /\ ~Good(i)
    BY <2>1
  <2>3. i # 0
    <3>1. \A j \in Cells : ~(j < 0)
      BY <1>1
    <3> QED BY <1>12, <2>2, <3>1
  <2>4. i \in 1 .. B /\ i - 1 \in 0 .. B /\ i \in Nat /\ i - 1 \in Nat /\ i - 1 < i
    BY <1>1, <2>2, <2>3
  <2>5. Good(i - 1)
    <3>1. <<i - 1, i>> \in OpToRel(<, Nat)
      BY <2>4 DEF OpToRel
    <3> HIDE DEF Good
    <3> QED BY <2>1, <2>4, <3>1
  <2>6. /\ g[i] \in C
        /\ \A j \in Cells : g[i][j] = IF j = 0 THEN Digit(R[i - 1] % 10) ELSE g[i - 1][j - 1]
    <3>1. g[i - 1] \in C /\ R[i - 1] % 10 \in 0 .. 9
      BY <1>3, <2>4, <2>5
    <3>2. g[i] = PushedFront(g[i - 1], R[i - 1] % 10)
      BY <1>12, <2>4
    <3> HIDE DEF C
    <3> QED BY <1>5, <3>1, <3>2
  <2>7. ASSUME NEW j \in Cells, j < i
        PROVE  g[i][j] = Digit(R[i - 1 - j] % 10)
    <3>1. CASE j = 0
      <4>1. i - 1 - j = i - 1
        BY <2>4, <3>1
      <4> QED BY <2>6, <3>1, <4>1
    <3>2. CASE j # 0
      <4>1. j - 1 \in Cells /\ j - 1 < i - 1 /\ (i - 1) - 1 - (j - 1) = i - 1 - j
        BY <1>1, <2>4, <2>7, <3>2
      <4>2. g[i - 1][j - 1] = Digit(R[(i - 1) - 1 - (j - 1)] % 10)
        BY <2>5, <4>1
      <4> QED BY <2>6, <3>2, <4>1, <4>2
    <3> QED BY <3>1, <3>2
  <2> QED BY <2>2, <2>6, <2>7
<1>14. Good(k)
  <2> HIDE DEF Good
  <2> QED BY <1>1, <1>13
<1> QED BY <1>10, <1>14 DEF R

(***************************************************************************)
(* A smaller number leaves less in every round.                            *)
(***************************************************************************)
LEMMA RestGrows ==
  ASSUME NEW n \in Nat, NEW m \in Nat, n <= m, NEW k \in 0 .. BufferSize
  PROVE  Rest(n)[k] <= Rest(m)[k]
<1> DEFINE B == BufferSize
           r == Rest(n)
           s == Rest(m)
           other == {i \in 0 .. B : ~(r[i] <= s[i])}
<1>1. B \in Nat
  BY NumbersAre
<1>2. /\ r \in [0 .. B -> Nat] /\ r[0] = n /\ \A i \in 1 .. B : r[i] = r[i - 1] \div 10
      /\ s \in [0 .. B -> Nat] /\ s[0] = m /\ \A i \in 1 .. B : s[i] = s[i - 1] \div 10
  BY RestIs
<1>3. k \in 0 .. B
  OBVIOUS
<1> HIDE DEF B, r, s
<1>4. other = {}
  <2> SUFFICES ASSUME other # {} PROVE FALSE
    OBVIOUS
  <2>1. PICK i \in other : \A j \in other : ~(<<j, i>> \in OpToRel(<, Nat))
    <3>1. other \subseteq Nat
      BY <1>1
    <3> HIDE DEF other
    <3> QED BY <3>1, NatLessThanWellFounded, WFMin
  <2>2. i \in 0 .. B /\ ~(r[i] <= s[i])
    BY <2>1
  <2>3. i # 0
    BY <1>2, <2>2
  <2>4. i \in 1 .. B /\ i - 1 \in 0 .. B /\ i \in Nat /\ i - 1 \in Nat /\ i - 1 < i
    BY <1>1, <2>2, <2>3
  <2>5. r[i - 1] <= s[i - 1]
    <3>1. <<i - 1, i>> \in OpToRel(<, Nat)
      BY <2>4 DEF OpToRel
    <3> QED BY <2>1, <2>4, <3>1
  <2>6. \A x, y \in Nat : x <= y => x \div 10 <= y \div 10
    OBVIOUS
  <2>7. r[i - 1] \in Nat /\ s[i - 1] \in Nat
    BY <1>2, <2>4
  <2> QED BY <1>2, <2>2, <2>4, <2>5, <2>6, <2>7
<1>5. r[k] <= s[k]
  BY <1>3, <1>4
<1> QED BY <1>5 DEF r, s

(***************************************************************************)
(* The rounds of a timestamp: one at least, and the NUL still fits.        *)
(***************************************************************************)
LEMMA RoundsAre ==
  ASSUME NEW n \in 0 .. EarlyModulus - 1
  PROVE  /\ Rounds(n) \in 1 .. BufferSize - 1 /\ Rest(n)[Rounds(n)] = 0
         /\ \A j \in 1 .. Rounds(n) - 1 : Rest(n)[j] # 0
<1> DEFINE B == BufferSize
           r == Rest(n)
           zero == {k \in 1 .. B : r[k] = 0}
<1>1. B \in Nat /\ B > 4 /\ EarlyModulus - 1 \in Nat /\ n \in Nat /\ n <= EarlyModulus - 1
  BY NumbersAre
<1>2. r \in [0 .. B -> Nat] /\ Rest(EarlyModulus - 1) \in [0 .. B -> Nat]
  BY <1>1, RestIs
<1>3. r[B - 1] <= Rest(EarlyModulus - 1)[B - 1]
  <2>1. B - 1 \in 0 .. B
    BY <1>1
  <2> QED BY <1>1, <2>1, RestGrows
<1>4. Rest(EarlyModulus - 1)[B - 1] = 0
  BY BufferAssumption
<1> HIDE DEF B, r
<1>5. B - 1 \in zero
  <2>1. B - 1 \in 0 .. B /\ B - 1 \in 1 .. B
    BY <1>1
  <2>2. r[B - 1] \in Nat
    BY <1>2, <2>1
  <2> QED BY <1>3, <1>4, <2>1, <2>2
<1>6. PICK k \in zero : \A j \in zero : ~(<<j, k>> \in OpToRel(<, Nat))
  <2>1. zero \subseteq Nat
    BY <1>1
  <2> HIDE DEF zero
  <2> QED BY <1>5, <2>1, NatLessThanWellFounded, WFMin
<1>7. k \in 1 .. B /\ r[k] = 0 /\ \A j \in 1 .. k - 1 : r[j] # 0
  <2>1. \A j \in 1 .. k - 1 : j \in 1 .. B /\ j \in Nat /\ k \in Nat /\ j < k
    <3>1. k \in 1 .. B
      BY <1>6
    <3> QED BY <1>1, <3>1
  <2>2. \A j \in 1 .. k - 1 : j \notin zero
    BY <1>6, <2>1 DEF OpToRel
  <2> QED BY <1>6, <2>1, <2>2
<1> DEFINE d == CHOOSE d \in 1 .. B : r[d] = 0 /\ \A j \in 1 .. d - 1 : r[j] # 0
<1>8. d \in 1 .. B /\ r[d] = 0 /\ \A j \in 1 .. d - 1 : r[j] # 0
  BY <1>7
<1>9. d = Rounds(n)
  BY DEF Rounds, B, r
<1> HIDE DEF d
<1>10. d \in 1 .. B - 1
  <2>1. d = B => B - 1 \in 1 .. d - 1
    BY <1>1, <1>8
  <2>2. d # B
    BY <1>5, <1>8, <2>1
  <2> QED BY <1>1, <1>8, <2>2
<1> QED BY <1>8, <1>9, <1>10 DEF B, r

\* The text is the number n and nothing else of an earlier call.
IsNumber(text, n) ==
  /\ \A j \in 0 .. Rounds(n) - 1 : text[j] = Digit(Rest(n)[Rounds(n) - 1 - j] % 10)
  /\ text[Rounds(n)] = NUL

(***************************************************************************)
(* What log_system_timestamp makes of its buffer before the scheduler runs.*)
(***************************************************************************)
LEMMA NumberTextIs ==
  ASSUME NEW n \in 0 .. EarlyModulus - 1, NEW text \in [Cells -> Chars]
  PROVE  NumberText(text, n) \in [Cells -> Chars] /\ IsNumber(NumberText(text, n), n)
<1> DEFINE d == Rounds(n)
           p == Pushed(text, n)[d]
<1>1. n \in Nat /\ d \in 1 .. BufferSize - 1 /\ d \in 0 .. BufferSize /\ d \in Nat
  BY NumbersAre, RoundsAre
<1>2. /\ d \in Cells /\ \A j \in 0 .. d - 1 : j \in Cells /\ j < d /\ j # d
      /\ NUL \in Chars /\ \A i \in 0 .. 9 : Digit(i) \in Chars
  BY <1>1, NumbersAre DEF Cells, Chars
<1> HIDE DEF d
<1>3. /\ p \in [Cells -> Chars]
      /\ \A j \in Cells : j < d => p[j] = Digit(Rest(n)[d - 1 - j] % 10)
  BY <1>1, <1>2, PushedIs
<1> HIDE DEF p
<1>4. NumberText(text, n) = [p EXCEPT ![d] = NUL]
  BY DEF NumberText, p, d
<1>5. [p EXCEPT ![d] = NUL] \in [Cells -> Chars]
  BY <1>2, <1>3
<1>6. [p EXCEPT ![d] = NUL][d] = NUL /\ \A j \in 0 .. d - 1 : [p EXCEPT ![d] = NUL][j] = p[j]
  BY <1>2, <1>3
<1>7. \A j \in 0 .. d - 1 : NumberText(text, n)[j] = Digit(Rest(n)[d - 1 - j] % 10)
  BY <1>2, <1>3, <1>4, <1>6
<1> QED BY <1>4, <1>5, <1>6, <1>7 DEF IsNumber, d

(***************************************************************************)
(* The number a reader makes of the characters in front.                   *)
(***************************************************************************)
LEMMA ValueIs ==
  ASSUME buffer \in [Cells -> Chars]
  PROVE  Value[0] = 0 /\ \A k \in 1 .. BufferSize - 1 : Value[k] = 10 * Value[k - 1] + buffer[k - 1][2]
<1> DEFINE B == BufferSize - 1
<1>1. B \in Nat /\ Cells = 0 .. B
  BY NumbersAre DEF Cells
<1>2. \A j \in Cells : buffer[j][2] \in Nat
  <2>1. \A c \in Chars : c[2] \in Nat
    BY NumbersAre DEF Chars, NUL, Digit, Piece
  <2> QED BY <2>1
<1> HIDE DEF B
<1> DEFINE h == [x \in Nat \X Nat |-> IF x[1] \in 1 .. B THEN 10 * x[2] + buffer[x[1] - 1][2] ELSE 0]
<1>3. \A k \in 1 .. B, v \in Nat : h[<<k, v>>] = 10 * v + buffer[k - 1][2]
  <2>1. \A k \in 1 .. B : k \in Nat
    BY <1>1
  <2> QED BY <2>1
<1>4. h \in [Nat \X Nat -> Nat]
  <2>1. ASSUME NEW x \in Nat \X Nat
        PROVE  h[x] \in Nat
    <3>1. x[1] \in Nat /\ x[2] \in Nat
      OBVIOUS
    <3>2. x[1] \in 1 .. B => x[1] - 1 \in Cells
      BY <1>1, <3>1
    <3>3. \A v, c \in Nat : 10 * v + c \in Nat
      OBVIOUS
    <3> QED BY <1>2, <3>1, <3>2, <3>3
  <2> QED BY <2>1
<1> HIDE DEF h
<1>5. PICK f \in [0 .. B -> Nat] : f[0] = 0 /\ \A k \in 1 .. B : f[k] = h[<<k, f[k - 1]>>]
  <2>1. Recursion(B, Nat, 0, h)
    BY <1>1, <1>4, RecursionIs
  <2> QED BY <2>1 DEF Recursion
<1>6. \A k \in 0 .. B : k = 0 \/ (k \in 1 .. B /\ k - 1 \in 0 .. B /\ k # 0)
  BY <1>1
<1>7. f = [k \in Cells |-> IF k = 0 THEN 0 ELSE 10 * f[k - 1] + buffer[k - 1][2]]
  <2>1. ASSUME NEW k \in 0 .. B
        PROVE  f[k] = IF k = 0 THEN 0 ELSE 10 * f[k - 1] + buffer[k - 1][2]
    <3>1. k \in 1 .. B => f[k - 1] \in Nat
      BY <1>5, <1>6
    <3> QED BY <1>3, <1>5, <1>6, <3>1
  <2> QED BY <1>1, <1>5, <2>1
<1> DEFINE g == CHOOSE g : g = [k \in Cells |-> IF k = 0 THEN 0 ELSE 10 * g[k - 1] + buffer[k - 1][2]]
<1>8. Value = g
  BY DEF Value
<1>9. g = [k \in Cells |-> IF k = 0 THEN 0 ELSE 10 * g[k - 1] + buffer[k - 1][2]]
  BY <1>7
<1> HIDE DEF g
<1>10. 0 \in Cells /\ \A k \in 1 .. B : k \in Cells /\ k # 0
  BY <1>1
<1> QED BY <1>8, <1>9, <1>10 DEF B

(***************************************************************************)
(* A reader of the number reads the number.                                *)
(***************************************************************************)
LEMMA NumberIsRead ==
  ASSUME buffer \in [Cells -> Chars], NEW n \in 0 .. EarlyModulus - 1, IsNumber(buffer, n)
  PROVE  /\ \E k \in Cells : buffer[k] = NUL
         /\ TextLength = Rounds(n) /\ TextLength \in 1 .. BufferSize - 1
         /\ \A j \in 0 .. TextLength - 1 : buffer[j][1] = "digit"
         /\ Value[TextLength] = n
         /\ TextLength > 1 => buffer[0] # Digit(0)
<1> DEFINE d == Rounds(n)
           r == Rest(n)
           B == BufferSize
<1>1. /\ n \in Nat /\ d \in 1 .. B - 1 /\ d \in Cells /\ d \in Nat /\ B \in Nat
      /\ r[d] = 0 /\ \A j \in 1 .. d - 1 : r[j] # 0
  BY NumbersAre, RoundsAre DEF Cells
<1>2. /\ r \in [0 .. B -> Nat] /\ r[0] = n
      /\ \A k \in 1 .. B : r[k] = r[k - 1] \div 10
  BY <1>1, RestIs
<1>3. buffer[d] = NUL /\ \A j \in 0 .. d - 1 : buffer[j] = Digit(r[d - 1 - j] % 10)
  BY DEF IsNumber
<1>4. Cells = 0 .. B - 1
  BY DEF Cells
<1>5. Value[0] = 0 /\ \A k \in 1 .. B - 1 : Value[k] = 10 * Value[k - 1] + buffer[k - 1][2]
  BY ValueIs
<1> HIDE DEF d, r, B
<1>6. \A j \in 0 .. d - 1 : buffer[j] # NUL /\ buffer[j][1] = "digit"
  BY <1>3 DEF NUL, Digit
<1>7. TextLength = d
  <2> DEFINE IsLength(k) == buffer[k] = NUL /\ \A j \in 0 .. k - 1 : buffer[j] # NUL
             l == CHOOSE k \in Cells : IsLength(k)
  <2>1. IsLength(d)
    BY <1>3, <1>6
  <2>2. l \in Cells /\ IsLength(l)
    <3> HIDE DEF IsLength
    <3> QED BY <1>1, <2>1
  <2>3. l = TextLength
    BY DEF TextLength
  <2> HIDE DEF l
  <2>4. l \in Nat
    BY <1>1, <1>4, <2>2
  <2>5. ~(l < d)
    <3>1. l < d => l \in 0 .. d - 1
      BY <1>1, <2>4
    <3> QED BY <1>6, <2>2, <3>1
  <2>6. ~(d < l)
    <3>1. d < l => d \in 0 .. l - 1
      BY <1>1, <2>4
    <3> QED BY <1>3, <2>2, <3>1
  <2>7. l = d
    BY <1>1, <2>4, <2>5, <2>6
  <2> QED BY <2>3, <2>7
<1> DEFINE other == {k \in 0 .. d : Value[k] # r[d - k]}
<1>8. other = {}
  <2> SUFFICES ASSUME other # {} PROVE FALSE
    OBVIOUS
  <2>1. PICK k \in other : \A j \in other : ~(<<j, k>> \in OpToRel(<, Nat))
    <3>1. other \subseteq Nat
      BY <1>1
    <3> HIDE DEF other
    <3> QED BY <3>1, NatLessThanWellFounded, WFMin
  <2>2. k \in 0 .. d /\ Value[k] # r[d - k]
    BY <2>1
  <2>3. k # 0
    <3>1. d - 0 = d
      BY <1>1
    <3> QED BY <1>1, <1>5, <2>2, <3>1
  <2>4. /\ k \in 1 .. d /\ k - 1 \in 0 .. d /\ k \in Nat /\ k - 1 \in Nat /\ k - 1 < k
        /\ k \in 1 .. B - 1 /\ k - 1 \in 0 .. d - 1 /\ d - 1 - (k - 1) = d - k
        /\ d - (k - 1) \in 1 .. B /\ (d - (k - 1)) - 1 = d - k /\ d - k \in 0 .. B
    BY <1>1, <2>2, <2>3
  <2>5. Value[k - 1] = r[d - (k - 1)]
    <3>1. <<k - 1, k>> \in OpToRel(<, Nat)
      BY <2>4 DEF OpToRel
    <3> QED BY <2>1, <2>4, <3>1
  <2>6. r[d - (k - 1)] = r[d - k] \div 10
    BY <1>2, <2>4
  <2>7. buffer[k - 1][2] = r[d - k] % 10
    <3>1. buffer[k - 1] = Digit(r[d - k] % 10)
      BY <1>3, <2>4
    <3> QED BY <3>1 DEF Digit
  <2>8. Value[k] = 10 * (r[d - k] \div 10) + (r[d - k] % 10)
    BY <1>5, <2>4, <2>5, <2>6, <2>7
  <2>9. ASSUME NEW x \in Nat, NEW q \in Nat, NEW m \in Nat, q = x \div 10, m = x % 10
        PROVE  x = 10 * q + m
    BY <2>9
  <2>10. \A x \in Nat : x \div 10 \in Nat /\ x % 10 \in Nat
    OBVIOUS
  <2>11. r[d - k] \in Nat
    BY <1>2, <2>4
  <2> QED BY <2>2, <2>8, <2>9, <2>10, <2>11
<1>9. Value[d] = n
  <2>1. d \in 0 .. d /\ d - d = 0
    BY <1>1
  <2> QED BY <1>2, <1>8, <2>1
<1>10. ASSUME d > 1
       PROVE  buffer[0] # Digit(0)
  <2>1. 0 \in 0 .. d - 1 /\ d - 1 - 0 = d - 1 /\ d - 1 \in 1 .. d - 1 /\ d \in 1 .. B /\ d - 1 \in 0 .. B
    BY <1>1, <1>10
  <2>2. r[d - 1] # 0 /\ r[d - 1] \in Nat /\ r[d - 1] \div 10 = 0
    BY <1>1, <1>2, <2>1
  <2>3. \A x \in Nat : x # 0 /\ x \div 10 = 0 => x % 10 # 0
    OBVIOUS
  <2>4. r[d - 1] % 10 # 0
    BY <2>2, <2>3
  <2>5. buffer[0] = Digit(r[d - 1] % 10)
    BY <1>3, <2>1
  <2> QED BY <2>4, <2>5 DEF Digit
<1> QED BY <1>1, <1>3, <1>6, <1>7, <1>9, <1>10 DEF d, B

-----------------------------------------------------------------------------
(* The phases of a call *)

Stages ==
  {"called", "unset", "read", "set", "ticks", "lock", "write", "release", "done"}

\* No stamp is larger.
Top == EarlyModulus + LastMoment + MaxCount

Calling ==
  [at : Stages, floor : Int, follows : BOOLEAN, since : Int, early : 0 .. EarlyModulus - 1,
   ticks : Nat, stamp : 0 .. Top, piece : 0 .. Pieces + 1]

Typed == TypeOK /\ call \in [Tasks -> {Idle} \cup Calling] /\ trusted \in BOOLEAN

\* A stage belongs to one of the two functions and to a phase of the program.
Fits(at, ticks, stamp, piece) ==
  /\ at \in {"unset", "read", "set", "ticks"} =>
       port = "freertos" /\ uses = "stamp" /\ Running
  /\ at \in {"lock", "write", "release"} => uses = "text" /\ Running /\ stamp \in Moments
  /\ at \in {"called", "lock"} => piece = 0
  /\ at = "write" => piece <= Pieces
  /\ at = "ticks" => ticks * MsPerTick <= LastMoment

Phases ==
  /\ uses = "text" => port = "freertos" /\ latest = -1
  /\ Running => port = "freertos" /\ started <= now
  /\ ~Running => base = 0
  /\ port = "freertos" /\ ~Running =>
       \A t, u \in Tasks : call[t] # Idle /\ call[u] # Idle => t = u
  /\ \A t \in Tasks : call[t] # Idle =>
       Fits(call[t].at, call[t].ticks, call[t].stamp, call[t].piece)

ClockInv == Typed /\ Phases

\* The call of t goes on, at another stage and with other locals.
Turns(t, at, early, ticks, stamp, piece) ==
  call' = [call EXCEPT ![t] =
    [at |-> at, floor |-> call[t].floor, follows |-> call[t].follows, since |-> call[t].since,
     early |-> early, ticks |-> ticks, stamp |-> stamp, piece |-> piece]]

(***************************************************************************)
(* The times: what has passed since the scheduler started is a number, and *)
(* a stamp has room for it.                                                *)
(***************************************************************************)
LEMMA TimesAre ==
  ASSUME ClockInv
  PROVE  /\ now \in Nat /\ now <= LastMoment /\ base \in Nat /\ timestamp \in Nat
         /\ Running => /\ started \in Nat /\ started <= now /\ now - started \in Nat
                       /\ now - started <= LastMoment
         /\ Top \in Nat /\ LastMoment <= Top /\ EarlyModulus <= Top /\ MaxCount <= Top
<1>1. /\ now \in Moments /\ started \in Moments \cup {Never}
      /\ base \in 0 .. EarlyModulus - 1 /\ timestamp \in 0 .. MaxCount
      /\ Running => started <= now
  BY DEF ClockInv, Typed, TypeOK, Phases
<1>2. now \in Nat /\ now <= LastMoment /\ (Running => started \in Nat)
  BY <1>1, LastMomentIs, NumbersAre DEF Running
<1>3. LastMoment \in Nat /\ Top \in Nat /\ LastMoment <= Top /\ EarlyModulus <= Top /\ MaxCount <= Top
  BY LastMomentIs, NumbersAre DEF Top
<1>4. Running => now - started \in Nat /\ now - started <= LastMoment
  BY <1>1, <1>2, <1>3
<1>5. base \in Nat /\ timestamp \in Nat
  BY <1>1, NumbersAre
<1> QED BY <1>1, <1>2, <1>3, <1>4, <1>5

(***************************************************************************)
(* A call that is not at rest has all its locals.                          *)
(***************************************************************************)
LEMMA CallIs ==
  ASSUME ClockInv, NEW t \in Tasks
  PROVE  /\ call[t] = Idle <=> call[t].at = "idle"
         /\ call[t] # Idle =>
              /\ call[t] \in Calling
              /\ Fits(call[t].at, call[t].ticks, call[t].stamp, call[t].piece)
<1>1. call[t] \in {Idle} \cup Calling
  BY DEF ClockInv, Typed
<1>2. Idle.at = "idle"
  BY DEF Idle
<1>3. \A c \in Calling : c.at # "idle"
  BY DEF Calling, Stages
<1> QED BY <1>1, <1>2, <1>3 DEF ClockInv, Phases

(***************************************************************************)
(* What a turn of one call leaves of the calls.                            *)
(***************************************************************************)
LEMMA TurnsIs ==
  ASSUME ClockInv, NEW t \in Tasks, call[t] # Idle,
         NEW at \in Stages, NEW early \in 0 .. EarlyModulus - 1, NEW ticks \in Nat,
         NEW stamp \in 0 .. Top, NEW piece \in 0 .. Pieces + 1,
         Turns(t, at, early, ticks, stamp, piece)
  PROVE  /\ call' \in [Tasks -> {Idle} \cup Calling] /\ call'[t] # Idle
         /\ call'[t].at = at /\ call'[t].floor = call[t].floor
         /\ call'[t].follows = call[t].follows /\ call'[t].since = call[t].since
         /\ call'[t].early = early
         /\ call'[t].ticks = ticks /\ call'[t].stamp = stamp /\ call'[t].piece = piece
         /\ call'[t] \in Calling
         /\ \A u \in Tasks : u # t => call'[u] = call[u]
<1> DEFINE c == [at |-> at, floor |-> call[t].floor, follows |-> call[t].follows, since |-> call[t].since,
                 early |-> early, ticks |-> ticks, stamp |-> stamp, piece |-> piece]
<1>1. call[t].floor \in Int /\ call[t].follows \in BOOLEAN /\ call[t].since \in Int
  BY CallIs DEF Calling
<1>2. c \in Calling
  BY <1>1 DEF Calling
<1>3. /\ c.at = at /\ c.floor = call[t].floor /\ c.follows = call[t].follows
      /\ c.since = call[t].since /\ c.early = early
      /\ c.ticks = ticks /\ c.stamp = stamp /\ c.piece = piece
  OBVIOUS
<1>4. c.at # "idle" /\ Idle.at = "idle"
  BY DEF Idle, Stages
<1>5. call \in [Tasks -> {Idle} \cup Calling]
  BY DEF ClockInv, Typed
<1>6. call' = [call EXCEPT ![t] = c]
  BY DEF Turns
<1> HIDE DEF c
<1>7. call' \in [Tasks -> {Idle} \cup Calling] /\ call'[t] = c /\ \A u \in Tasks : u # t => call'[u] = call[u]
  BY <1>2, <1>5, <1>6
<1> QED BY <1>2, <1>3, <1>4, <1>7

(***************************************************************************)
(* A turn to a stage that fits keeps the invariant, if what else the step  *)
(* changes keeps its type.                                                 *)
(***************************************************************************)
LEMMA TurnKeepsClock ==
  ASSUME ClockInv, NEW t \in Tasks, call[t] # Idle,
         NEW at \in Stages, NEW early \in 0 .. EarlyModulus - 1, NEW ticks \in Nat,
         NEW stamp \in 0 .. Top, NEW piece \in 0 .. Pieces + 1,
         Turns(t, at, early, ticks, stamp, piece), Fits(at, ticks, stamp, piece),
         UNCHANGED <<port, uses, now, started, latest, settledLatest>>,
         base' \in 0 .. EarlyModulus - 1, ~Running => base' = base,
         timestamp' \in 0 .. MaxCount, buffer' \in [Cells -> Chars],
         bufferLock' \in Tasks \cup {NoTask}, trusted' \in BOOLEAN
  PROVE  ClockInv'
<1>1. /\ call' \in [Tasks -> {Idle} \cup Calling] /\ call'[t] # Idle
      /\ call'[t].at = at /\ call'[t].ticks = ticks /\ call'[t].stamp = stamp
      /\ call'[t].piece = piece
      /\ \A u \in Tasks : u # t => call'[u] = call[u]
  BY TurnsIs
<1>2. Running' = Running
  BY DEF Running
<1>3. ASSUME NEW u \in Tasks, call'[u] # Idle
      PROVE  Fits(call[u].at, call[u].ticks, call[u].stamp, call[u].piece)'
  <2>1. CASE u = t
    BY <1>1, <1>2, <2>1 DEF Fits
  <2>2. CASE u # t
    <3>1. call'[u] = call[u]
      BY <1>1, <2>2
    <3>2. Fits(call[u].at, call[u].ticks, call[u].stamp, call[u].piece)
      BY <1>3, <3>1 DEF ClockInv, Phases
    <3> QED BY <1>2, <3>1, <3>2 DEF Fits
  <2> QED BY <2>1, <2>2
<1>4. Phases'
  <2>1. /\ uses = "text" => port = "freertos" /\ latest = -1
        /\ Running => port = "freertos" /\ started <= now
        /\ ~Running => base = 0
        /\ port = "freertos" /\ ~Running =>
             \A r, u \in Tasks : call[r] # Idle /\ call[u] # Idle => r = u
    BY DEF ClockInv, Phases
  <2>2. port = "freertos" /\ ~Running =>
          \A r, u \in Tasks : call'[r] # Idle /\ call'[u] # Idle => r = u
    BY <1>1, <2>1
  <2> QED BY <1>2, <1>3, <2>1, <2>2 DEF Phases
<1>5. Typed'
  <2>1. \A u \in Tasks : call'[u] = Idle \/ call'[u].piece \in 0 .. Pieces + 1
    BY <1>1 DEF Calling
  <2> QED BY <1>1, <2>1 DEF ClockInv, Typed, TypeOK
<1> QED BY <1>4, <1>5 DEF ClockInv

(***************************************************************************)
(* Every step inside a call is a turn of that call.                        *)
(***************************************************************************)
LEMMA StepsTurn ==
  ASSUME ClockInv, NEW t \in Tasks, call[t] # Idle
  PROVE  LET c == call[t]
         IN  /\ \A s \in Stages : GoesTo(t, s) => Turns(t, s, c.early, c.ticks, c.stamp, c.piece)
             /\ \A s \in 0 .. Top : Answers(t, s) => Turns(t, "done", c.early, 0, s, c.piece)
             /\ ReadEarly(t) => Turns(t, "read", log_early_timestamp, c.ticks, c.stamp, c.piece)
             /\ SetBase(t) => Turns(t, "set", 0, c.ticks, c.stamp, c.piece)
             /\ ReadTicks(t) =>
                  Turns(t, "ticks", c.early, (now - started) \div MsPerTick, c.stamp, c.piece)
             /\ ReadTime(t) => Turns(t, "lock", c.early, c.ticks, now, c.piece)
             /\ WritePiece(t) =>
                  Turns(t, IF c.piece < Pieces THEN "write" ELSE "release",
                        c.early, c.ticks, c.stamp, c.piece + 1)
<1> DEFINE c == call[t]
           Rec(at, early, ticks, stamp, piece) ==
             [at |-> at, floor |-> c.floor, follows |-> c.follows, since |-> c.since,
              early |-> early, ticks |-> ticks, stamp |-> stamp, piece |-> piece]
<1>1. c \in Calling /\ call \in [Tasks -> {Idle} \cup Calling]
  BY CallIs DEF ClockInv, Typed
<1>2. c = Rec(c.at, c.early, c.ticks, c.stamp, c.piece)
  BY <1>1 DEF Calling
<1>3. \A a, e, k, s, p, x :
        /\ [Rec(a, e, k, s, p) EXCEPT !.at = x] = Rec(x, e, k, s, p)
        /\ [Rec(a, e, k, s, p) EXCEPT !.early = x] = Rec(a, x, k, s, p)
        /\ [Rec(a, e, k, s, p) EXCEPT !.ticks = x] = Rec(a, e, x, s, p)
        /\ [Rec(a, e, k, s, p) EXCEPT !.stamp = x] = Rec(a, e, k, x, p)
        /\ [Rec(a, e, k, s, p) EXCEPT !.piece = x] = Rec(a, e, k, s, x)
  <2> SUFFICES ASSUME NEW a, NEW e, NEW k, NEW s, NEW p, NEW x
               PROVE  /\ [Rec(a, e, k, s, p) EXCEPT !.at = x] = Rec(x, e, k, s, p)
                      /\ [Rec(a, e, k, s, p) EXCEPT !.early = x] = Rec(a, x, k, s, p)
                      /\ [Rec(a, e, k, s, p) EXCEPT !.ticks = x] = Rec(a, e, x, s, p)
                      /\ [Rec(a, e, k, s, p) EXCEPT !.stamp = x] = Rec(a, e, k, x, p)
                      /\ [Rec(a, e, k, s, p) EXCEPT !.piece = x] = Rec(a, e, k, s, x)
    OBVIOUS
  <2>1. [Rec(a, e, k, s, p) EXCEPT !.at = x] = Rec(x, e, k, s, p)
    OBVIOUS
  <2>2. [Rec(a, e, k, s, p) EXCEPT !.early = x] = Rec(a, x, k, s, p)
    OBVIOUS
  <2>3. [Rec(a, e, k, s, p) EXCEPT !.ticks = x] = Rec(a, e, x, s, p)
    OBVIOUS
  <2>4. [Rec(a, e, k, s, p) EXCEPT !.stamp = x] = Rec(a, e, k, x, p)
    OBVIOUS
  <2>5. [Rec(a, e, k, s, p) EXCEPT !.piece = x] = Rec(a, e, k, s, x)
    OBVIOUS
  <2> QED BY <2>1, <2>2, <2>3, <2>4, <2>5
<1>4. \A a, e, k, s, p : call' = [call EXCEPT ![t] = Rec(a, e, k, s, p)] => Turns(t, a, e, k, s, p)
  BY DEF Turns
<1> HIDE DEF c, Rec
<1>5. ASSUME NEW s \in Stages, GoesTo(t, s)
      PROVE  Turns(t, s, c.early, c.ticks, c.stamp, c.piece)
  <2>1. call' = [call EXCEPT ![t] = [c EXCEPT !.at = s]]
    BY <1>1, <1>5 DEF GoesTo, c
  <2>2. [c EXCEPT !.at = s] = Rec(s, c.early, c.ticks, c.stamp, c.piece)
    BY <1>2, <1>3
  <2> QED BY <1>4, <2>1, <2>2
<1>6. ASSUME NEW s \in 0 .. Top, Answers(t, s)
      PROVE  Turns(t, "done", c.early, 0, s, c.piece)
  <2>1. call' = [call EXCEPT ![t] =
                   [[[c EXCEPT !.at = "done"] EXCEPT !.ticks = 0] EXCEPT !.stamp = s]]
    BY <1>1, <1>6 DEF Answers, c
  <2>2. [[[c EXCEPT !.at = "done"] EXCEPT !.ticks = 0] EXCEPT !.stamp = s]
          = Rec("done", c.early, 0, s, c.piece)
    <3>1. [c EXCEPT !.at = "done"] = Rec("done", c.early, c.ticks, c.stamp, c.piece)
      BY <1>2, <1>3
    <3>2. [Rec("done", c.early, c.ticks, c.stamp, c.piece) EXCEPT !.ticks = 0]
            = Rec("done", c.early, 0, c.stamp, c.piece)
      BY <1>3
    <3>3. [Rec("done", c.early, 0, c.stamp, c.piece) EXCEPT !.stamp = s]
            = Rec("done", c.early, 0, s, c.piece)
      BY <1>3
    <3> QED BY <3>1, <3>2, <3>3
  <2> QED BY <1>4, <2>1, <2>2
<1>7. ASSUME ReadEarly(t)
      PROVE  Turns(t, "read", log_early_timestamp, c.ticks, c.stamp, c.piece)
  <2> DEFINE early == log_early_timestamp
  <2>1. call' = [call EXCEPT ![t].early = early, ![t].at = "read"]
    BY <1>7 DEF ReadEarly
  <2> HIDE DEF early
  <2>2. call' = [call EXCEPT ![t] = [[c EXCEPT !.early = early] EXCEPT !.at = "read"]]
    BY <1>1, <2>1 DEF c
  <2>3. [[c EXCEPT !.early = early] EXCEPT !.at = "read"]
          = Rec("read", early, c.ticks, c.stamp, c.piece)
    <3>1. [c EXCEPT !.early = early] = Rec(c.at, early, c.ticks, c.stamp, c.piece)
      BY <1>2, <1>3
    <3>2. [Rec(c.at, early, c.ticks, c.stamp, c.piece) EXCEPT !.at = "read"]
            = Rec("read", early, c.ticks, c.stamp, c.piece)
      BY <1>3
    <3> QED BY <3>1, <3>2
  <2> QED BY <1>4, <2>2, <2>3 DEF early
<1>8. ASSUME SetBase(t)
      PROVE  Turns(t, "set", 0, c.ticks, c.stamp, c.piece)
  <2>1. call' = [call EXCEPT ![t].early = 0, ![t].at = "set"]
    BY <1>8 DEF SetBase
  <2>2. call' = [call EXCEPT ![t] = [[c EXCEPT !.early = 0] EXCEPT !.at = "set"]]
    BY <1>1, <2>1 DEF c
  <2>3. [[c EXCEPT !.early = 0] EXCEPT !.at = "set"]
          = Rec("set", 0, c.ticks, c.stamp, c.piece)
    <3>1. [c EXCEPT !.early = 0] = Rec(c.at, 0, c.ticks, c.stamp, c.piece)
      BY <1>2, <1>3
    <3>2. [Rec(c.at, 0, c.ticks, c.stamp, c.piece) EXCEPT !.at = "set"]
            = Rec("set", 0, c.ticks, c.stamp, c.piece)
      BY <1>3
    <3> QED BY <3>1, <3>2
  <2> QED BY <1>4, <2>2, <2>3
<1>9. ASSUME ReadTicks(t)
      PROVE  Turns(t, "ticks", c.early, (now - started) \div MsPerTick, c.stamp, c.piece)
  <2> DEFINE ticks == (now - started) \div MsPerTick
  <2>1. call' = [call EXCEPT ![t].ticks = ticks, ![t].at = "ticks"]
    BY <1>9 DEF ReadTicks
  <2> HIDE DEF ticks
  <2>2. call' = [call EXCEPT ![t] = [[c EXCEPT !.ticks = ticks] EXCEPT !.at = "ticks"]]
    BY <1>1, <2>1 DEF c
  <2>3. [[c EXCEPT !.ticks = ticks] EXCEPT !.at = "ticks"]
          = Rec("ticks", c.early, ticks, c.stamp, c.piece)
    <3>1. [c EXCEPT !.ticks = ticks] = Rec(c.at, c.early, ticks, c.stamp, c.piece)
      BY <1>2, <1>3
    <3>2. [Rec(c.at, c.early, ticks, c.stamp, c.piece) EXCEPT !.at = "ticks"]
            = Rec("ticks", c.early, ticks, c.stamp, c.piece)
      BY <1>3
    <3> QED BY <3>1, <3>2
  <2> QED BY <1>4, <2>2, <2>3 DEF ticks
<1>10. ASSUME ReadTime(t)
       PROVE  Turns(t, "lock", c.early, c.ticks, now, c.piece)
  <2>1. call' = [call EXCEPT ![t].stamp = now, ![t].at = "lock"]
    BY <1>10 DEF ReadTime
  <2>2. call' = [call EXCEPT ![t] = [[c EXCEPT !.stamp = now] EXCEPT !.at = "lock"]]
    BY <1>1, <2>1 DEF c
  <2>3. [[c EXCEPT !.stamp = now] EXCEPT !.at = "lock"]
          = Rec("lock", c.early, c.ticks, now, c.piece)
    <3>1. [c EXCEPT !.stamp = now] = Rec(c.at, c.early, c.ticks, now, c.piece)
      BY <1>2, <1>3
    <3>2. [Rec(c.at, c.early, c.ticks, now, c.piece) EXCEPT !.at = "lock"]
            = Rec("lock", c.early, c.ticks, now, c.piece)
      BY <1>3
    <3> QED BY <3>1, <3>2
  <2> QED BY <1>4, <2>2, <2>3
<1>11. ASSUME WritePiece(t)
       PROVE  Turns(t, IF c.piece < Pieces THEN "write" ELSE "release",
                    c.early, c.ticks, c.stamp, c.piece + 1)
  <2> DEFINE k    == c.piece + 1
             next == IF c.piece < Pieces THEN "write" ELSE "release"
  <2>1. call' = [call EXCEPT ![t].piece = k, ![t].at = next]
    BY <1>11 DEF WritePiece, c
  <2> HIDE DEF k, next
  <2>2. call' = [call EXCEPT ![t] = [[c EXCEPT !.piece = k] EXCEPT !.at = next]]
    BY <1>1, <2>1 DEF c
  <2>3. [[c EXCEPT !.piece = k] EXCEPT !.at = next] = Rec(next, c.early, c.ticks, c.stamp, k)
    <3>1. [c EXCEPT !.piece = k] = Rec(c.at, c.early, c.ticks, c.stamp, k)
      BY <1>2, <1>3
    <3>2. [Rec(c.at, c.early, c.ticks, c.stamp, k) EXCEPT !.at = next]
            = Rec(next, c.early, c.ticks, c.stamp, k)
      BY <1>3
    <3> QED BY <3>1, <3>2
  <2> QED BY <1>4, <2>2, <2>3 DEF k, next
<1> QED BY <1>5, <1>6, <1>7, <1>8, <1>9, <1>10, <1>11 DEF c

(***************************************************************************)
(* The locals of a call have their types.                                  *)
(***************************************************************************)
LEMMA LocalsAre ==
  ASSUME ClockInv, NEW t \in Tasks, call[t] # Idle
  PROVE  /\ call[t].at \in Stages /\ call[t].floor \in Int /\ call[t].follows \in BOOLEAN /\ call[t].since \in Int
         /\ call[t].early \in 0 .. EarlyModulus - 1 /\ call[t].ticks \in Nat
         /\ call[t].stamp \in 0 .. Top /\ call[t].piece \in 0 .. Pieces + 1
BY CallIs DEF Calling

(***************************************************************************)
(* A time is a stamp, and so is an early timestamp and a sum with base.    *)
(***************************************************************************)
LEMMA StampsAre ==
  ASSUME ClockInv
  PROVE  /\ now \in 0 .. Top /\ log_early_timestamp \in 0 .. Top
         /\ log_early_timestamp \in 0 .. EarlyModulus - 1
         /\ timestamp < MaxCount => timestamp \in 0 .. Top /\ timestamp + 1 \in 0 .. MaxCount
         /\ Running => /\ (now - started) \div MsPerTick \in Nat
                       /\ ((now - started) \div MsPerTick) * MsPerTick \in Nat
                       /\ ((now - started) \div MsPerTick) * MsPerTick <= now - started
                       /\ ((now - started) \div MsPerTick) * MsPerTick <= LastMoment
         /\ \A k \in Nat : k * MsPerTick \in Nat /\ (k * MsPerTick <= LastMoment =>
              base + k * MsPerTick \in 0 .. Top)
<1>1. /\ now \in Nat /\ now <= LastMoment /\ base \in Nat /\ timestamp \in Nat
      /\ Running => started \in Nat /\ now - started \in Nat /\ now - started <= LastMoment
      /\ Top \in Nat /\ LastMoment <= Top /\ EarlyModulus <= Top /\ MaxCount <= Top
      /\ LastMoment \in Nat /\ EarlyModulus \in Nat /\ MaxCount \in Nat
  BY TimesAre, LastMomentIs, NumbersAre
<1>2. log_early_timestamp \in 0 .. EarlyModulus - 1
  BY <1>1, EarlyIs
<1>3. timestamp < MaxCount => timestamp \in 0 .. Top /\ timestamp + 1 \in 0 .. MaxCount
  BY <1>1
<1>4. now \in 0 .. Top /\ log_early_timestamp \in 0 .. Top
  BY <1>1, <1>2
<1>5. ASSUME Running
      PROVE  /\ (now - started) \div MsPerTick \in Nat
             /\ ((now - started) \div MsPerTick) * MsPerTick \in Nat
             /\ ((now - started) \div MsPerTick) * MsPerTick <= now - started
             /\ ((now - started) \div MsPerTick) * MsPerTick <= LastMoment
  <2> DEFINE e == now - started
             m == (e \div MsPerTick) * MsPerTick
  <2>1. e \in Nat /\ e <= LastMoment
    BY <1>1, <1>5
  <2> HIDE DEF e
  <2>2. e \div MsPerTick \in Nat /\ m \in Nat /\ m <= e
    BY <2>1, TicksAre
  <2> HIDE DEF m
  <2>3. m <= LastMoment
    BY <1>1, <2>1, <2>2
  <2> QED BY <2>2, <2>3 DEF e, m
<1>6. ASSUME NEW k \in Nat
      PROVE  k * MsPerTick \in Nat /\ (k * MsPerTick <= LastMoment => base + k * MsPerTick \in 0 .. Top)
  <2> DEFINE m == k * MsPerTick
  <2>1. m \in Nat
    BY NumbersAre
  <2>2. base <= EarlyModulus
    BY <1>1 DEF ClockInv, Typed, TypeOK
  <2> HIDE DEF m
  <2>3. m <= LastMoment => base + m \in 0 .. Top
    BY <1>1, <2>1, <2>2, NumbersAre DEF Top
  <2> QED BY <2>1, <2>3 DEF m
<1> QED BY <1>2, <1>3, <1>4, <1>5, <1>6

(***************************************************************************)
(* The invariant holds at the start.                                       *)
(***************************************************************************)
LEMMA ClockInvInit == Init => ClockInv
<1> SUFFICES ASSUME Init PROVE ClockInv
  OBVIOUS
<1>1. /\ 0 \in Moments /\ EarlyModulus - 1 \in Nat /\ MaxCount \in Nat
      /\ -1 \in -1 .. EarlyModulus + LastMoment + MaxCount
      /\ 0 \in 0 .. EarlyModulus + LastMoment + MaxCount
  BY LastMomentIs, NumbersAre, TimestampsAssumption
<1>2. TypeOK
  BY <1>1, NumbersAre DEF Init, TypeOK, Chars
<1>3. Phases
  BY DEF Init, Phases, Running
<1> QED BY <1>2, <1>3 DEF Init, ClockInv, Typed

(***************************************************************************)
(* So it does when time passes, the scheduler starts, a call begins and a  *)
(* call returns.                                                           *)
(***************************************************************************)
LEMMA AroundKeepsClock ==
  ASSUME ClockInv, Passes \/ SchedulerStarts \/ \E t \in Tasks : Calls(t) \/ Returns(t)
  PROVE  ClockInv'
<1>1. TypeOK /\ call \in [Tasks -> {Idle} \cup Calling] /\ trusted \in BOOLEAN /\ Phases
  BY DEF ClockInv, Typed
<1>2. CASE Passes
  <2>1. /\ now' \in Moments /\ now' > now
        /\ UNCHANGED <<config, started, base, timestamp, textVars, call, latest, settledLatest, trusted>>
    BY <1>2 DEF Passes
  <2>2. \A m \in Moments : m \in Nat
    BY NumbersAre
  <2>3. Typed'
    BY <1>1, <2>1 DEF Typed, TypeOK, config, textVars
  <2>4. Running' = Running /\ (Running => started <= now')
    <3>1. now \in Nat /\ (Running => started \in Nat /\ started <= now)
      BY TimesAre
    <3> QED BY <2>1, <2>2, <3>1 DEF Running
  <2>5. Phases'
    BY <1>1, <2>1, <2>4 DEF Phases, Fits, config
  <2> QED BY <2>3, <2>5 DEF ClockInv
<1>3. CASE SchedulerStarts
  <2>1. /\ port = "freertos" /\ ~Running /\ \A t \in Tasks : call[t] = Idle
        /\ started' = now
        /\ UNCHANGED <<config, now, base, timestamp, textVars, call, latest, settledLatest, trusted>>
    BY <1>3 DEF SchedulerStarts
  <2>2. Typed'
    BY <1>1, <2>1 DEF Typed, TypeOK, config, textVars
  <2>3. now \in Nat /\ Running'
    BY <2>1, TimesAre DEF Running, Never
  <2>4. Phases'
    BY <1>1, <2>1, <2>3 DEF Phases, config
  <2> QED BY <2>2, <2>4 DEF ClockInv
<1>4. ASSUME NEW t \in Tasks, Calls(t)
      PROVE  ClockInv'
  <2> DEFINE c == [at |-> "called", floor |-> latest,
                   follows |-> port # "freertos" \/ Core[t] = 0 \/ base # 0,
                   since |-> IF BaseSettled THEN settledLatest ELSE Never,
                   early |-> 0, ticks |-> 0, stamp |-> 0, piece |-> 0]
  <2>1. /\ call[t] = Idle /\ (OneContext => \A u \in Tasks : call[u] = Idle)
        /\ call' = [call EXCEPT ![t] = c]
        /\ UNCHANGED <<config, clockVars, base, timestamp, textVars, latest, settledLatest, trusted>>
    BY <1>4 DEF Calls
  <2>2. c \in Calling
    <3>1. latest \in Int /\ 0 \in 0 .. EarlyModulus - 1 /\ 0 \in 0 .. Top
      BY <1>1, NumbersAre, TimesAre, LastMomentIs DEF TypeOK
    <3>2. (IF BaseSettled THEN settledLatest ELSE Never) \in Int
      <4>1. settledLatest \in Int /\ Never \in Int
        BY <1>1, NumbersAre, LastMomentIs DEF TypeOK, Never
      <4> QED BY <4>1
    <3> QED BY <3>1, <3>2 DEF Calling, Stages, Pieces
  <2>3. /\ c.at = "called" /\ c.piece = 0 /\ c # Idle
    BY DEF Idle
  <2> HIDE DEF c
  <2>4. /\ call' \in [Tasks -> {Idle} \cup Calling] /\ call'[t] = c
        /\ \A u \in Tasks : u # t => call'[u] = call[u]
    BY <1>1, <2>1, <2>2
  <2>5. \A u \in Tasks : call'[u] = Idle \/ call'[u].piece \in 0 .. Pieces + 1
    BY <2>4 DEF Calling
  <2>6. Typed'
    BY <1>1, <2>1, <2>4, <2>5 DEF Typed, TypeOK, config, clockVars, textVars
  <2>7. Running' = Running
    BY <2>1 DEF Running, clockVars
  <2>8. \A u \in Tasks : call'[u] # Idle =>
          Fits(call[u].at, call[u].ticks, call[u].stamp, call[u].piece)'
    <3> SUFFICES ASSUME NEW u \in Tasks, call'[u] # Idle
                 PROVE  Fits(call[u].at, call[u].ticks, call[u].stamp, call[u].piece)'
      OBVIOUS
    <3>1. CASE u = t
      BY <2>3, <2>4, <3>1 DEF Fits
    <3>2. CASE u # t
      BY <1>1, <2>1, <2>4, <2>7, <3>2 DEF Phases, Fits, config, clockVars
    <3> QED BY <3>1, <3>2
  <2>9. port = "freertos" /\ ~Running =>
          \A r, u \in Tasks : call'[r] # Idle /\ call'[u] # Idle => r = u
    BY <2>1, <2>4 DEF OneContext
  <2>10. Phases'
    BY <1>1, <2>1, <2>7, <2>8, <2>9 DEF Phases, config, clockVars
  <2> QED BY <2>6, <2>10 DEF ClockInv
<1>5. ASSUME NEW t \in Tasks, Returns(t)
      PROVE  ClockInv'
  <2>1. /\ call' = [call EXCEPT ![t] = Idle] /\ call[t].at = "done"
        /\ latest' = IF uses = "stamp" /\ call[t].stamp > latest THEN call[t].stamp ELSE latest
        /\ settledLatest' = IF call[t].since # Never /\ call[t].stamp > settledLatest
                            THEN call[t].stamp ELSE settledLatest
        /\ UNCHANGED <<config, clockVars, base, timestamp, textVars, trusted>>
    BY <1>5 DEF Returns, At
  <2>2. /\ call' \in [Tasks -> {Idle} \cup Calling] /\ call'[t] = Idle
        /\ \A u \in Tasks : u # t => call'[u] = call[u]
    BY <1>1, <2>1
  <2>3. latest' \in -1 .. Top
    <3>1. call[t].stamp \in 0 .. Top
      BY <2>1, CallIs, LocalsAre DEF Idle
    <3>2. latest \in -1 .. Top
      BY <1>1 DEF TypeOK, Top
    <3>3. 0 .. Top \subseteq -1 .. Top
      BY TimesAre
    <3> QED BY <2>1, <3>1, <3>2, <3>3
  <2>4. \A u \in Tasks : call'[u] = Idle \/ call'[u].piece \in 0 .. Pieces + 1
    BY <2>2 DEF Calling
  <2>5. settledLatest' \in 0 .. Top
    <3>1. call[t].stamp \in 0 .. Top
      BY <2>1, CallIs, LocalsAre DEF Idle
    <3>2. settledLatest \in 0 .. Top
      BY <1>1 DEF TypeOK, Top
    <3> QED BY <2>1, <3>1, <3>2
  <2>6. Typed'
    BY <1>1, <2>1, <2>2, <2>3, <2>4, <2>5 DEF Typed, TypeOK, config, clockVars, textVars, Top
  <2>7. Running' = Running
    BY <2>1 DEF Running, clockVars
  <2>8. \A u \in Tasks : call'[u] # Idle =>
          Fits(call[u].at, call[u].ticks, call[u].stamp, call[u].piece)'
    BY <1>1, <2>1, <2>2, <2>7 DEF Phases, Fits, config, clockVars
  <2>9. port = "freertos" /\ ~Running =>
          \A r, u \in Tasks : call'[r] # Idle /\ call'[u] # Idle => r = u
    BY <1>1, <2>2 DEF Phases
  <2>10. Phases'
    BY <1>1, <2>1, <2>7, <2>8, <2>9 DEF Phases, config, clockVars
  <2> QED BY <2>6, <2>10 DEF ClockInv
<1> QED BY <1>2, <1>3, <1>4, <1>5

\* A step inside the call of t.
Steps(t) ==
  \/ CounterStamp(t) \/ ClockStamp(t) \/ EarlyStamp(t)
  \/ TestBase(t) \/ ReadEarly(t) \/ SetBase(t) \/ ReadTicks(t) \/ AddBase(t)
  \/ EarlyText(t) \/ ReadTime(t) \/ AcquireBuffer(t)
  \/ WritePiece(t) \/ ReleaseBuffer(t)

(***************************************************************************)
(* The steps inside a call keep the invariant.                             *)
(***************************************************************************)
LEMMA StepsKeepClock ==
  ASSUME ClockInv, NEW t \in Tasks, Steps(t)
  PROVE  ClockInv' /\ call[t] # Idle
<1> DEFINE c == call[t]
<1>1. /\ base \in 0 .. EarlyModulus - 1 /\ timestamp \in 0 .. MaxCount
      /\ buffer \in [Cells -> Chars] /\ bufferLock \in Tasks \cup {NoTask} /\ trusted \in BOOLEAN
      /\ now \in Moments
  BY DEF ClockInv, Typed, TypeOK
<1>2. c # Idle
  <2>1. c.at \in {"called", "unset", "read", "set", "ticks", "lock", "write", "release"}
    BY DEF Steps, CounterStamp, ClockStamp, EarlyStamp, TestBase, ReadEarly, SetBase, ReadTicks,
           AddBase, EarlyText, ReadTime, AcquireBuffer, WritePiece, ReleaseBuffer, At
  <2> QED BY <2>1 DEF Idle
<1>3. /\ c.at \in Stages /\ c.early \in 0 .. EarlyModulus - 1 /\ c.ticks \in Nat
      /\ c.stamp \in 0 .. Top /\ c.piece \in 0 .. Pieces + 1
      /\ Fits(c.at, c.ticks, c.stamp, c.piece)
  BY <1>2, LocalsAre, CallIs
<1>4. 0 \in Nat /\ 0 \in 0 .. EarlyModulus - 1 /\ Pieces = 4
      /\ \A s \in {"unset", "read", "set", "ticks", "lock", "write", "release", "done"} : s \in Stages
  BY NumbersAre DEF Stages, Pieces
<1>5. /\ \A s \in Stages : GoesTo(t, s) => Turns(t, s, c.early, c.ticks, c.stamp, c.piece)
      /\ \A s \in 0 .. Top : Answers(t, s) => Turns(t, "done", c.early, 0, s, c.piece)
  BY <1>2, StepsTurn
<1>6. \A s, p : Fits("done", 0, s, p)
  BY DEF Fits
<1>7. ASSUME NEW s \in 0 .. Top, Answers(t, s),
             UNCHANGED <<port, uses, now, started, base, latest, settledLatest, bufferLock>>,
             timestamp' \in 0 .. MaxCount, buffer' \in [Cells -> Chars], trusted' \in BOOLEAN
      PROVE  ClockInv'
  <2>1. Turns(t, "done", c.early, 0, s, c.piece)
    BY <1>5, <1>7
  <2>2. base' = base /\ base' \in 0 .. EarlyModulus - 1 /\ bufferLock' \in Tasks \cup {NoTask}
        /\ "done" \in Stages
    BY <1>1, <1>4, <1>7
  <2> HIDE DEF c
  <2> QED BY <1>2, <1>3, <1>4, <1>6, <1>7, <2>1, <2>2, TurnKeepsClock DEF c
<1>8. CASE CounterStamp(t)
  <2>1. /\ Answers(t, timestamp) /\ timestamp < MaxCount /\ timestamp' = timestamp + 1
        /\ UNCHANGED <<config, clockVars, base, textVars, latest, settledLatest, trusted>>
    BY <1>8 DEF CounterStamp
  <2>2. timestamp \in 0 .. Top /\ timestamp' \in 0 .. MaxCount
    BY <2>1, StampsAre
  <2> QED BY <1>1, <1>2, <1>7, <2>1, <2>2 DEF config, clockVars, textVars
<1>9. CASE ClockStamp(t)
  <2>1. Answers(t, now) /\ UNCHANGED <<config, clockVars, base, timestamp, textVars, latest, settledLatest, trusted>>
    BY <1>9 DEF ClockStamp
  <2>2. now \in 0 .. Top
    BY StampsAre
  <2> QED BY <1>1, <1>2, <1>7, <2>1, <2>2 DEF config, clockVars, textVars
<1>10. CASE EarlyStamp(t)
  <2>1. /\ Answers(t, log_early_timestamp) /\ trusted' = (trusted /\ ~CounterWrapped)
        /\ UNCHANGED <<config, clockVars, base, timestamp, textVars, latest, settledLatest>>
    BY <1>10 DEF EarlyStamp
  <2>2. log_early_timestamp \in 0 .. Top
    BY StampsAre
  <2> QED BY <1>1, <1>2, <1>7, <2>1, <2>2 DEF config, clockVars, textVars
<1>11. CASE TestBase(t)
  <2>1. /\ port = "freertos" /\ uses = "stamp" /\ Running
        /\ UNCHANGED <<config, clockVars, base, timestamp, textVars, latest, settledLatest>>
        /\ trusted' \in BOOLEAN
        /\ GoesTo(t, "unset") \/ GoesTo(t, "set")
    BY <1>1, <1>11 DEF TestBase
  <2>2. PICK s \in {"unset", "set"} : Turns(t, s, c.early, c.ticks, c.stamp, c.piece)
    BY <1>4, <1>5, <2>1
  <2>3. s \in Stages /\ Fits(s, c.ticks, c.stamp, c.piece)
    BY <1>4, <2>1 DEF Fits
  <2>4. UNCHANGED <<port, uses, now, started, latest, settledLatest, base, timestamp, buffer, bufferLock>>
    BY <2>1 DEF config, clockVars, textVars
  <2> HIDE DEF c
  <2> QED BY <1>1, <1>2, <1>3, <2>1, <2>2, <2>3, <2>4, TurnKeepsClock DEF c
<1>12. CASE ReadEarly(t)
  <2>1. /\ c.at = "unset" /\ trusted' = (trusted /\ ~CounterWrapped)
        /\ UNCHANGED <<config, clockVars, base, timestamp, textVars, latest, settledLatest>>
    BY <1>12 DEF ReadEarly, At
  <2>2. Turns(t, "read", log_early_timestamp, c.ticks, c.stamp, c.piece)
    BY <1>2, <1>12, StepsTurn
  <2>3. Fits("read", c.ticks, c.stamp, c.piece)
    BY <1>3, <2>1 DEF Fits
  <2>4. UNCHANGED <<port, uses, now, started, latest, settledLatest, base, timestamp, buffer, bufferLock>>
    BY <2>1 DEF config, clockVars, textVars
  <2>5. log_early_timestamp \in 0 .. EarlyModulus - 1 /\ trusted' \in BOOLEAN /\ "read" \in Stages
    BY <1>1, <1>4, <2>1, StampsAre
  <2> HIDE DEF c
  <2> QED BY <1>1, <1>2, <1>3, <2>2, <2>3, <2>4, <2>5, TurnKeepsClock DEF c
<1>13. CASE SetBase(t)
  <2>1. /\ c.at = "read" /\ base' = c.early
        /\ UNCHANGED <<config, clockVars, timestamp, textVars, latest, settledLatest, trusted>>
    BY <1>13 DEF SetBase, At
  <2>2. Turns(t, "set", 0, c.ticks, c.stamp, c.piece)
    BY <1>2, <1>13, StepsTurn
  <2>3. Running /\ Fits("set", c.ticks, c.stamp, c.piece) /\ "set" \in Stages
    BY <1>3, <1>4, <2>1 DEF Fits
  <2>4. UNCHANGED <<port, uses, now, started, latest, settledLatest, timestamp, buffer, bufferLock, trusted>>
    BY <2>1 DEF config, clockVars, textVars
  <2>5. base' \in 0 .. EarlyModulus - 1
    BY <1>3, <2>1
  <2> HIDE DEF c
  <2> QED BY <1>1, <1>2, <1>3, <1>4, <2>2, <2>3, <2>4, <2>5, TurnKeepsClock DEF c
<1>14. CASE ReadTicks(t)
  <2> DEFINE k == (now - started) \div MsPerTick
  <2>1. c.at = "set" /\ UNCHANGED <<config, clockVars, base, timestamp, textVars, latest, settledLatest, trusted>>
    BY <1>14 DEF ReadTicks, At
  <2>2. Turns(t, "ticks", c.early, k, c.stamp, c.piece)
    BY <1>2, <1>14, StepsTurn
  <2>3. Running /\ port = "freertos" /\ uses = "stamp"
    BY <1>3, <2>1 DEF Fits
  <2>4. k \in Nat /\ k * MsPerTick <= LastMoment
    BY <2>3, StampsAre
  <2> HIDE DEF k
  <2>5. Fits("ticks", k, c.stamp, c.piece) /\ "ticks" \in Stages
    BY <1>4, <2>3, <2>4 DEF Fits
  <2>6. UNCHANGED <<port, uses, now, started, latest, settledLatest, base, timestamp, buffer, bufferLock, trusted>>
    BY <2>1 DEF config, clockVars, textVars
  <2> HIDE DEF c
  <2> QED BY <1>1, <1>2, <1>3, <2>2, <2>4, <2>5, <2>6, TurnKeepsClock DEF c
<1>15. CASE AddBase(t)
  <2> DEFINE s == base + c.ticks * MsPerTick
  <2>1. /\ c.at = "ticks" /\ Answers(t, s)
        /\ UNCHANGED <<config, clockVars, base, timestamp, textVars, latest, settledLatest, trusted>>
    BY <1>15 DEF AddBase, At
  <2>2. s \in 0 .. Top
    <3>1. c.ticks * MsPerTick <= LastMoment
      BY <1>3, <2>1 DEF Fits
    <3> QED BY <1>3, <3>1, StampsAre
  <2> HIDE DEF s
  <2> QED BY <1>1, <1>2, <1>7, <2>1, <2>2 DEF config, clockVars, textVars
<1>16. CASE EarlyText(t)
  <2> DEFINE n == log_early_timestamp
  <2>1. /\ Answers(t, n) /\ buffer' = NumberText(buffer, n)
        /\ UNCHANGED <<config, clockVars, base, timestamp, bufferLock, latest, settledLatest, trusted>>
    BY <1>16 DEF EarlyText
  <2>2. n \in 0 .. Top /\ n \in 0 .. EarlyModulus - 1
    BY StampsAre
  <2> HIDE DEF n
  <2>3. buffer' \in [Cells -> Chars]
    BY <1>1, <2>1, <2>2, NumberTextIs
  <2> QED BY <1>1, <1>2, <1>7, <2>1, <2>2, <2>3 DEF config, clockVars, textVars
<1>17. CASE ReadTime(t)
  <2>1. /\ c.at = "called" /\ uses = "text" /\ Running
        /\ UNCHANGED <<config, clockVars, base, timestamp, textVars, latest, settledLatest, trusted>>
    BY <1>17 DEF ReadTime, At
  <2>2. Turns(t, "lock", c.early, c.ticks, now, c.piece)
    BY <1>2, <1>17, StepsTurn
  <2>3. Fits("lock", c.ticks, now, c.piece) /\ "lock" \in Stages
    BY <1>1, <1>3, <1>4, <2>1 DEF Fits
  <2>4. UNCHANGED <<port, uses, now, started, latest, settledLatest, base, timestamp, buffer, bufferLock, trusted>>
    BY <2>1 DEF config, clockVars, textVars
  <2>5. now \in 0 .. Top
    BY StampsAre
  <2> HIDE DEF c
  <2> QED BY <1>1, <1>2, <1>3, <2>2, <2>3, <2>4, <2>5, TurnKeepsClock DEF c
<1>18. CASE AcquireBuffer(t)
  <2>1. /\ c.at = "lock" /\ bufferLock' = t /\ GoesTo(t, "write")
        /\ UNCHANGED <<config, clockVars, base, timestamp, buffer, latest, settledLatest, trusted>>
    BY <1>18 DEF AcquireBuffer, At
  <2>2. Turns(t, "write", c.early, c.ticks, c.stamp, c.piece) /\ "write" \in Stages
    BY <1>4, <1>5, <2>1
  <2>3. Fits("write", c.ticks, c.stamp, c.piece)
    BY <1>3, <1>4, <2>1 DEF Fits
  <2>4. UNCHANGED <<port, uses, now, started, latest, settledLatest, base, timestamp, buffer, trusted>>
    BY <2>1 DEF config, clockVars
  <2> HIDE DEF c
  <2> QED BY <1>1, <1>2, <1>3, <2>1, <2>2, <2>3, <2>4, TurnKeepsClock DEF c
<1>19. CASE WritePiece(t)
  <2> DEFINE next == IF c.piece < Pieces THEN "write" ELSE "release"
             cell == IF c.piece < Pieces THEN Piece(c.stamp) ELSE NUL
  <2>1. /\ c.at = "write" /\ buffer' = [buffer EXCEPT ![c.piece] = cell]
        /\ UNCHANGED <<config, clockVars, base, timestamp, bufferLock, latest, settledLatest, trusted>>
    BY <1>19 DEF WritePiece, At
  <2>2. Turns(t, next, c.early, c.ticks, c.stamp, c.piece + 1)
    BY <1>2, <1>19, StepsTurn
  <2>3. c.piece \in 0 .. 4 /\ uses = "text" /\ Running /\ c.stamp \in Moments
    BY <1>3, <1>4, <2>1 DEF Fits
  <2>4. Fits(next, c.ticks, c.stamp, c.piece + 1) /\ next \in Stages /\ c.piece + 1 \in 0 .. Pieces + 1
    BY <1>4, <2>3 DEF Fits
  <2>5. UNCHANGED <<port, uses, now, started, latest, settledLatest, base, timestamp, bufferLock, trusted>>
    BY <2>1 DEF config, clockVars
  <2>6. buffer' \in [Cells -> Chars]
    <3>1. cell \in Chars
      BY <2>3 DEF Chars
    <3> HIDE DEF cell
    <3> QED BY <1>1, <2>1, <3>1
  <2> HIDE DEF c, next
  <2> QED BY <1>1, <1>2, <1>3, <2>2, <2>4, <2>5, <2>6, TurnKeepsClock DEF c
<1>20. CASE ReleaseBuffer(t)
  <2>1. /\ bufferLock' = NoTask /\ GoesTo(t, "done")
        /\ UNCHANGED <<config, clockVars, base, timestamp, buffer, latest, settledLatest, trusted>>
    BY <1>20 DEF ReleaseBuffer
  <2>2. Turns(t, "done", c.early, c.ticks, c.stamp, c.piece) /\ "done" \in Stages
    BY <1>4, <1>5, <2>1
  <2>3. Fits("done", c.ticks, c.stamp, c.piece)
    BY DEF Fits
  <2>4. UNCHANGED <<port, uses, now, started, latest, settledLatest, base, timestamp, buffer, trusted>>
    BY <2>1 DEF config, clockVars
  <2> HIDE DEF c
  <2> QED BY <1>1, <1>2, <1>3, <2>1, <2>2, <2>3, <2>4, TurnKeepsClock DEF c
<1> QED BY <1>2, <1>8, <1>9, <1>10, <1>11, <1>12, <1>13, <1>14, <1>15, <1>16, <1>17, <1>18,
           <1>19, <1>20 DEF Steps

(***************************************************************************)
(* The invariant holds at all times.                                       *)
(***************************************************************************)
LEMMA ClockInvStep == ASSUME ClockInv, [Next]_vars PROVE ClockInv'
<1>1. CASE UNCHANGED vars
  <2>1. Running' = Running
    BY <1>1 DEF vars, clockVars, Running
  <2>2. Typed'
    BY <1>1 DEF ClockInv, Typed, TypeOK, vars, config, clockVars, textVars
  <2>3. Phases'
    BY <1>1, <2>1 DEF ClockInv, Phases, Fits, vars, config, clockVars
  <2> QED BY <2>2, <2>3 DEF ClockInv
<1>2. CASE Next
  <2>1. \/ Passes \/ SchedulerStarts
        \/ \E t \in Tasks : Calls(t) \/ Returns(t)
        \/ \E t \in Tasks : Steps(t)
    BY <1>2 DEF Next, Steps
  <2> QED BY <2>1, AroundKeepsClock, StepsKeepClock
<1> QED BY <1>1, <1>2

(***************************************************************************)
(* The invariant holds at all times.                                       *)
(***************************************************************************)
LEMMA ClockInvHolds == Spec => []ClockInv
BY ClockInvInit, ClockInvStep, PTL DEF Spec

(***************************************************************************)
(* The types of the variables: no stamp is larger than the wrap of the     *)
(* cycle counter and the last moment together, and the pieces of a text    *)
(* stay inside the static buffer.                                          *)
(***************************************************************************)
THEOREM TimestampTypes == Spec => []TypeOK
<1>1. ClockInv => TypeOK
  BY DEF ClockInv, Typed
<1> QED BY ClockInvHolds, <1>1, PTL

-----------------------------------------------------------------------------
(* Stamps do not go back *)

\* What log_timestamp has counted since the scheduler started.
Elapsed == ((now - started) \div MsPerTick) * MsPerTick

\* A stamp the clock may have given by now.
Given(stamp) ==
  /\ port = "noos" => stamp < timestamp
  /\ port # "noos" /\ ~Running => stamp <= now
  /\ Running /\ base = 0 => stamp <= started \/ stamp <= Elapsed
  /\ Running /\ base # 0 => stamp <= base + Elapsed

\* At this stage a call of t is on its way to a stamp not below floor.
Promised(t, at, floor, follows, early, ticks, stamp) ==
  /\ at \in {"called", "unset"} => Given(floor)
  /\ at = "called" /\ follows /\ Running => Core[t] = 0 \/ base # 0
  /\ at = "read" => floor <= early /\ started <= early
  /\ at = "set" /\ follows => floor <= base + Elapsed
  /\ at = "ticks" => ticks * MsPerTick <= Elapsed
  /\ at = "ticks" /\ follows => floor <= base + ticks * MsPerTick
  /\ at = "done" => Given(stamp)
  /\ at = "done" /\ follows => floor <= stamp /\ (port = "noos" => floor < stamp)

Following(t) ==
  call[t] # Idle => Promised(t, call[t].at, call[t].floor, call[t].follows,
                             call[t].early, call[t].ticks, call[t].stamp)

SettingBase(t) == call[t].at \in {"unset", "read"}

Ordered ==
  /\ Given(latest)
  /\ \A t \in Tasks : Following(t)
  /\ \A t, u \in Tasks : SettingBase(t) /\ SettingBase(u) => t = u
  /\ base # 0 => \A t \in Tasks : ~SettingBase(t)

StampInv == ClockInv /\ (uses = "stamp" /\ trusted => Ordered)

(***************************************************************************)
(* What log_timestamp has counted is a number and not more than the time.  *)
(***************************************************************************)
LEMMA ElapsedIs ==
  ASSUME ClockInv, Running
  PROVE  Elapsed \in Nat /\ started + Elapsed <= now /\ started \in Nat /\ now \in Nat /\ base \in Nat
<1> DEFINE e == now - started
           m == (e \div MsPerTick) * MsPerTick
<1>1. now \in Nat /\ base \in Nat /\ started \in Nat /\ e \in Nat
  BY TimesAre
<1>2. Elapsed = m
  BY DEF Elapsed
<1>3. m \in Nat /\ m <= e
  <2> HIDE DEF e
  <2> QED BY <1>1, TicksAre
<1> HIDE DEF m
<1> QED BY <1>1, <1>2, <1>3

(***************************************************************************)
(* As time passes log_timestamp counts on.                                 *)
(***************************************************************************)
LEMMA ElapsedGrows ==
  ASSUME ClockInv, Running, Passes
  PROVE  Elapsed' \in Nat /\ Elapsed <= Elapsed'
<1> DEFINE e == now - started
           d == now' - started
<1>1. now' \in Moments /\ now' > now /\ started' = started
  BY DEF Passes
<1>2. now' \in Nat /\ now \in Nat /\ started \in Nat /\ started <= now
  BY <1>1, NumbersAre, TimesAre
<1>3. e \in Nat /\ d \in Nat /\ e <= d
  <2>1. \A a, b, c \in Nat : a <= b /\ c > b => b - a \in Nat /\ c - a \in Nat /\ b - a <= c - a
    OBVIOUS
  <2> QED BY <1>1, <1>2, <2>1
<1>4. Elapsed = (e \div MsPerTick) * MsPerTick /\ Elapsed' = (d \div MsPerTick) * MsPerTick
  BY <1>1 DEF Elapsed
<1> HIDE DEF e, d
<1> QED BY <1>3, <1>4, TicksAre

(***************************************************************************)
(* The stamps that are compared are numbers.                               *)
(***************************************************************************)
LEMMA ComparedAre ==
  ASSUME ClockInv
  PROVE  /\ latest \in Int /\ latest >= -1 /\ timestamp \in Nat /\ now \in Nat
         /\ \A t \in Tasks : call[t] # Idle =>
              /\ call[t].at \in Stages /\ call[t].floor \in Int /\ call[t].early \in Nat
              /\ call[t].ticks \in Nat /\ call[t].ticks * MsPerTick \in Nat /\ call[t].stamp \in Nat
<1>1. latest \in -1 .. Top /\ Top \in Nat /\ timestamp \in Nat /\ now \in Nat
  BY TimesAre DEF ClockInv, Typed, TypeOK, Top
<1>2. ASSUME NEW t \in Tasks, call[t] # Idle
      PROVE  /\ call[t].at \in Stages /\ call[t].floor \in Int /\ call[t].early \in Nat
             /\ call[t].ticks \in Nat /\ call[t].ticks * MsPerTick \in Nat /\ call[t].stamp \in Nat
  <2>1. /\ call[t].at \in Stages /\ call[t].floor \in Int /\ call[t].early \in 0 .. EarlyModulus - 1
        /\ call[t].ticks \in Nat /\ call[t].stamp \in 0 .. Top
    BY <1>2, LocalsAre
  <2>2. call[t].ticks * MsPerTick \in Nat
    BY <2>1, StampsAre
  <2> QED BY <1>1, <2>1, <2>2, NumbersAre
<1> QED BY <1>1, <1>2

(***************************************************************************)
(* A turn that keeps the promise of its call, and does not set base beside *)
(* another, keeps the order, as long as the clocks stand.                  *)
(***************************************************************************)
LEMMA TurnKeepsOrder ==
  ASSUME ClockInv, Ordered, NEW t \in Tasks, call[t] # Idle,
         NEW at \in Stages, NEW early \in 0 .. EarlyModulus - 1, NEW ticks \in Nat,
         NEW stamp \in 0 .. Top, NEW piece \in 0 .. Pieces + 1,
         Turns(t, at, early, ticks, stamp, piece),
         UNCHANGED <<port, now, started, base, timestamp, latest>>,
         Promised(t, at, call[t].floor, call[t].follows, early, ticks, stamp),
         at \in {"unset", "read"} =>
           base = 0 /\ (SettingBase(t) \/ \A u \in Tasks : ~SettingBase(u))
  PROVE  Ordered'
<1>1. /\ call'[t] # Idle
      /\ call'[t].at = at /\ call'[t].floor = call[t].floor
      /\ call'[t].follows = call[t].follows /\ call'[t].early = early
      /\ call'[t].ticks = ticks /\ call'[t].stamp = stamp
      /\ \A u \in Tasks : u # t => call'[u] = call[u]
  BY TurnsIs
<1>2. Running' = Running /\ Elapsed' = Elapsed
  BY DEF Running, Elapsed
<1>3. ASSUME NEW u \in Tasks
      PROVE  Following(u)'
  <2>1. CASE u = t
    BY <1>1, <1>2, <2>1 DEF Following, Promised, Given
  <2>2. CASE u # t
    <3>1. call'[u] = call[u] /\ Following(u)
      BY <1>1, <2>2 DEF Ordered
    <3> QED BY <1>2, <3>1 DEF Following, Promised, Given
  <2> QED BY <2>1, <2>2
<1>4. Given(latest)'
  BY <1>2 DEF Ordered, Given
<1>5. \A r, u \in Tasks : SettingBase(r)' /\ SettingBase(u)' => r = u
  BY <1>1 DEF Ordered, SettingBase
<1>6. base' # 0 => \A u \in Tasks : ~SettingBase(u)'
  BY <1>1 DEF Ordered, SettingBase
<1> QED BY <1>3, <1>4, <1>5, <1>6 DEF Ordered

(***************************************************************************)
(* The steps inside a call keep the order, unless they end the trust.      *)
(***************************************************************************)
LEMMA StepsKeepOrder ==
  ASSUME ClockInv, Ordered, uses = "stamp", trusted', NEW t \in Tasks, Steps(t)
  PROVE  Ordered'
<1> DEFINE c == call[t]
           f == call[t].floor
<1>1. c # Idle
  BY StepsKeepClock
<1>2. /\ c.at \in Stages /\ c.early \in 0 .. EarlyModulus - 1 /\ c.ticks \in Nat
      /\ c.stamp \in 0 .. Top /\ c.piece \in 0 .. Pieces + 1
      /\ f \in Int /\ c.early \in Nat /\ c.ticks * MsPerTick \in Nat
      /\ Fits(c.at, c.ticks, c.stamp, c.piece)
  BY <1>1, LocalsAre, CallIs, ComparedAre
<1>3. Promised(t, c.at, f, c.follows, c.early, c.ticks, c.stamp)
  BY <1>1 DEF Ordered, Following
<1>4. /\ now \in Nat /\ timestamp \in Nat /\ base \in Nat /\ latest \in Int
      /\ Running => Elapsed \in Nat /\ started + Elapsed <= now /\ started \in Nat
      /\ ~Running => base = 0
      /\ Running => port = "freertos"
  BY ElapsedIs, ComparedAre, TimesAre DEF ClockInv, Phases
<1>5. /\ \A s \in Stages : GoesTo(t, s) => Turns(t, s, c.early, c.ticks, c.stamp, c.piece)
      /\ \A s \in 0 .. Top : Answers(t, s) => Turns(t, "done", c.early, 0, s, c.piece)
  BY <1>1, StepsTurn
<1>6. 0 \in Nat /\ {"unset", "read", "set", "ticks", "done"} \subseteq Stages
  BY DEF Stages
<1>7. ASSUME NEW s \in 0 .. Top, Answers(t, s), Given(s),
             c.follows => f <= s /\ (port = "noos" => f < s),
             UNCHANGED <<port, now, started, base, timestamp, latest>>
      PROVE  Ordered'
  <2>1. Turns(t, "done", c.early, 0, s, c.piece)
    BY <1>5, <1>7
  <2>2. Promised(t, "done", f, c.follows, c.early, 0, s)
    BY <1>7 DEF Promised
  <2> HIDE DEF c
  <2> QED BY <1>1, <1>2, <1>6, <1>7, <2>1, <2>2, TurnKeepsOrder DEF c
<1>8. CASE CounterStamp(t)
  <2>1. /\ port = "noos" /\ c.at = "called" /\ timestamp < MaxCount
        /\ timestamp' = timestamp + 1 /\ Answers(t, timestamp)
        /\ UNCHANGED <<config, clockVars, base, textVars, latest, settledLatest, trusted>>
    BY <1>8 DEF CounterStamp, At
  <2>2. timestamp \in 0 .. Top
    BY <2>1, StampsAre
  <2>3. f < timestamp /\ latest < timestamp /\ ~Running
    BY <1>3, <1>4, <2>1 DEF Promised, Given, Ordered
  <2>4. Turns(t, "done", c.early, 0, timestamp, c.piece)
    BY <1>5, <2>1, <2>2
  <2>5. /\ call'[t] # Idle /\ call'[t].at = "done" /\ call'[t].floor = f
        /\ call'[t].stamp = timestamp
        /\ \A u \in Tasks : u # t => call'[u] = call[u]
    <3> HIDE DEF c
    <3> QED BY <1>1, <1>2, <1>6, <2>2, <2>4, TurnsIs DEF c
  <2>6. /\ port' = "noos" /\ ~Running' /\ base' = base /\ latest' = latest
    BY <2>1, <2>3 DEF config, clockVars, Running
  <2>7. \A x \in Int : x <= timestamp => Given(x)'
    BY <1>4, <2>1, <2>6 DEF Given
  <2>8. ASSUME NEW u \in Tasks
        PROVE  Following(u)'
    <3>1. CASE u = t
      BY <1>2, <1>4, <2>1, <2>3, <2>5, <2>6, <2>7, <3>1 DEF Following, Promised
    <3>2. ASSUME u # t, call[u] # Idle
          PROVE  Following(u)'
      <4>1. /\ call'[u] = call[u] /\ call[u].floor \in Int /\ call[u].stamp \in Int
            /\ Fits(call[u].at, call[u].ticks, call[u].stamp, call[u].piece)
            /\ Promised(u, call[u].at, call[u].floor, call[u].follows,
                        call[u].early, call[u].ticks, call[u].stamp)
        BY <2>5, <3>2, ComparedAre, CallIs DEF Ordered, Following
      <4>2. call[u].at \notin {"unset", "read", "set", "ticks"}
        BY <2>1, <4>1 DEF Fits
      <4>3. call[u].at = "called" => Given(call[u].floor)'
        BY <1>4, <2>1, <2>7, <4>1 DEF Promised, Given
      <4>4. call[u].at = "done" => Given(call[u].stamp)'
        BY <1>4, <2>1, <2>7, <4>1 DEF Promised, Given
      <4> QED BY <2>1, <2>6, <4>1, <4>2, <4>3, <4>4 DEF Following, Promised
    <3>3. CASE u # t /\ call[u] = Idle
      BY <2>5, <3>3 DEF Following
    <3> QED BY <3>1, <3>2, <3>3
  <2>9. Given(latest)'
    BY <1>4, <2>3, <2>6, <2>7
  <2>10. \A u \in Tasks : ~SettingBase(u)'
    <3> SUFFICES ASSUME NEW u \in Tasks, SettingBase(u)' PROVE FALSE
      OBVIOUS
    <3>1. u # t /\ call'[u] = call[u]
      BY <2>5 DEF SettingBase
    <3>2. call[u] # Idle
      BY <3>1 DEF SettingBase, Idle
    <3>3. Fits(call[u].at, call[u].ticks, call[u].stamp, call[u].piece)
      BY <3>2, CallIs
    <3> QED BY <2>1, <3>1, <3>3 DEF Fits, SettingBase
  <2> QED BY <2>8, <2>9, <2>10 DEF Ordered
<1>9. CASE ClockStamp(t)
  <2>1. /\ port = "pthreads" /\ c.at = "called" /\ Answers(t, now)
        /\ UNCHANGED <<config, clockVars, base, timestamp, textVars, latest, settledLatest, trusted>>
    BY <1>9 DEF ClockStamp, At
  <2>2. now \in 0 .. Top /\ ~Running
    BY <1>4, <2>1, StampsAre
  <2>3. Given(now) /\ f <= now
    BY <1>3, <1>4, <2>1, <2>2 DEF Promised, Given
  <2> QED BY <1>7, <2>1, <2>2, <2>3 DEF config, clockVars
<1>10. CASE EarlyStamp(t)
  <2>1. /\ port = "freertos" /\ c.at = "called" /\ ~Running /\ Answers(t, log_early_timestamp)
        /\ ~CounterWrapped
        /\ UNCHANGED <<config, clockVars, base, timestamp, textVars, latest, settledLatest>>
    BY <1>10 DEF EarlyStamp, At
  <2>2. log_early_timestamp = now /\ now \in 0 .. Top
    BY <1>4, <2>1, EarlyIs, StampsAre
  <2>3. Given(now) /\ f <= now
    BY <1>3, <1>4, <2>1, <2>2 DEF Promised, Given
  <2> QED BY <1>7, <2>1, <2>2, <2>3 DEF config, clockVars
<1>11. CASE TestBase(t)
  <2> DEFINE unset == base = 0 /\ Core[t] = 0
  <2>1. /\ c.at = "called" /\ Running
        /\ GoesTo(t, IF unset THEN "unset" ELSE "set")
        /\ unset => \A u \in Tasks : ~SettingBase(u)
        /\ UNCHANGED <<config, clockVars, base, timestamp, textVars, latest, settledLatest>>
    BY <1>11 DEF TestBase, At, SettingBase
  <2>2. UNCHANGED <<port, now, started, base, timestamp, latest>>
    BY <2>1 DEF config, clockVars
  <2>3. CASE unset
    <3>1. Turns(t, "unset", c.early, c.ticks, c.stamp, c.piece)
      BY <1>5, <1>6, <2>1, <2>3
    <3>2. Promised(t, "unset", f, c.follows, c.early, c.ticks, c.stamp)
      BY <1>3, <2>1 DEF Promised
    <3>3. base = 0 /\ \A u \in Tasks : ~SettingBase(u)
      BY <2>1, <2>3
    <3> HIDE DEF c
    <3> QED BY <1>1, <1>2, <1>6, <2>2, <3>1, <3>2, <3>3, TurnKeepsOrder DEF c
  <2>4. CASE ~unset
    <3>1. Turns(t, "set", c.early, c.ticks, c.stamp, c.piece)
      BY <1>5, <1>6, <2>1, <2>4
    <3>2. Promised(t, "set", f, c.follows, c.early, c.ticks, c.stamp)
      BY <1>3, <2>1, <2>4 DEF Promised, Given
    <3> HIDE DEF c
    <3> QED BY <1>1, <1>2, <1>6, <2>2, <3>1, <3>2, TurnKeepsOrder DEF c
  <2> QED BY <2>3, <2>4
<1>12. CASE ReadEarly(t)
  <2> DEFINE early == log_early_timestamp
  <2>1. /\ c.at = "unset" /\ ~CounterWrapped
        /\ UNCHANGED <<config, clockVars, base, timestamp, textVars, latest, settledLatest>>
    BY <1>12 DEF ReadEarly, At
  <2>2. UNCHANGED <<port, now, started, base, timestamp, latest>>
    BY <2>1 DEF config, clockVars
  <2>3. Turns(t, "read", early, c.ticks, c.stamp, c.piece)
    BY <1>1, <1>12, StepsTurn
  <2>4. early = now /\ early \in 0 .. EarlyModulus - 1
    BY <1>4, <2>1, EarlyIs
  <2>5. Running /\ SettingBase(t) /\ base = 0
    BY <1>2, <2>1 DEF Fits, Ordered, SettingBase
  <2>6. f <= now /\ started <= now
    BY <1>2, <1>3, <1>4, <2>1, <2>5 DEF Promised, Given
  <2> HIDE DEF early
  <2>7. Promised(t, "read", f, c.follows, early, c.ticks, c.stamp)
    BY <2>4, <2>6 DEF Promised
  <2> HIDE DEF c
  <2> QED BY <1>1, <1>2, <1>6, <2>2, <2>3, <2>4, <2>5, <2>7, TurnKeepsOrder DEF c
<1>13. CASE SetBase(t)
  <2>1. /\ c.at = "read" /\ base' = c.early
        /\ UNCHANGED <<config, clockVars, timestamp, textVars, latest, settledLatest, trusted>>
    BY <1>13 DEF SetBase, At
  <2>2. Turns(t, "set", 0, c.ticks, c.stamp, c.piece) /\ 0 \in 0 .. EarlyModulus - 1
    BY <1>1, <1>13, StepsTurn, NumbersAre
  <2>3. /\ call'[t] # Idle /\ call'[t].at = "set" /\ call'[t].floor = f
        /\ call'[t].follows = c.follows
        /\ \A u \in Tasks : u # t => call'[u] = call[u]
    <3> HIDE DEF c
    <3> QED BY <1>1, <1>2, <1>6, <2>2, TurnsIs DEF c
  <2>4. /\ Running /\ port = "freertos" /\ base = 0
        /\ \A u \in Tasks : u # t => ~SettingBase(u)
    BY <1>2, <1>4, <2>1 DEF Fits, Ordered, SettingBase
  <2>5. f <= c.early /\ started <= c.early
    BY <1>3, <2>1 DEF Promised
  <2>6. /\ port' = "freertos" /\ Running' /\ Elapsed' = Elapsed /\ started' = started
        /\ latest' = latest
    BY <2>1, <2>4 DEF config, clockVars, Running, Elapsed
  <2>7. \A x \in Int : Given(x) => Given(x)'
    BY <1>2, <1>4, <2>1, <2>4, <2>5, <2>6 DEF Given
  <2>8. ASSUME NEW u \in Tasks
        PROVE  Following(u)'
    <3>1. CASE u = t
      BY <1>2, <1>4, <2>1, <2>3, <2>4, <2>5, <2>6, <3>1 DEF Following, Promised
    <3>2. ASSUME u # t, call[u] # Idle
          PROVE  Following(u)'
      <4>1. /\ call'[u] = call[u] /\ call[u].floor \in Int /\ call[u].stamp \in Int
            /\ call[u].ticks * MsPerTick \in Nat
            /\ Promised(u, call[u].at, call[u].floor, call[u].follows,
                        call[u].early, call[u].ticks, call[u].stamp)
        BY <2>3, <3>2, ComparedAre DEF Ordered, Following
      <4>2. call[u].at \notin {"unset", "read"}
        BY <2>4, <3>2 DEF SettingBase
      <4>3. call[u].at = "called" => Given(call[u].floor)'
        BY <2>7, <4>1 DEF Promised
      <4>4. call[u].at = "called" /\ call[u].follows => Core[u] = 0 \/ base' # 0
        BY <2>4, <4>1 DEF Promised
      <4>5. call[u].at = "set" /\ call[u].follows => call[u].floor <= base' + Elapsed
        BY <1>2, <1>4, <2>1, <2>4, <4>1 DEF Promised
      <4>6. call[u].at = "ticks" =>
              /\ call[u].ticks * MsPerTick <= Elapsed
              /\ call[u].follows => call[u].floor <= base' + call[u].ticks * MsPerTick
        <5> DEFINE k == call[u].ticks * MsPerTick
        <5>1. call[u].at = "ticks" => k <= Elapsed /\ (call[u].follows => call[u].floor <= base + k)
          BY <4>1 DEF Promised
        <5>2. k \in Nat
          BY <4>1
        <5> HIDE DEF k
        <5>3. call[u].at = "ticks" => k <= Elapsed /\ (call[u].follows => call[u].floor <= base' + k)
          BY <1>2, <1>4, <2>1, <2>4, <4>1, <5>1, <5>2
        <5> QED BY <5>3 DEF k
      <4>7. call[u].at = "done" =>
              /\ Given(call[u].stamp)'
              /\ call[u].follows => call[u].floor <= call[u].stamp
        BY <2>7, <4>1 DEF Promised
      <4> QED BY <2>6, <4>1, <4>2, <4>3, <4>4, <4>5, <4>6, <4>7 DEF Following, Promised
    <3>3. CASE u # t /\ call[u] = Idle
      BY <2>3, <3>3 DEF Following
    <3> QED BY <3>1, <3>2, <3>3
  <2>9. Given(latest)'
    BY <1>4, <2>6, <2>7 DEF Ordered, Given
  <2>10. \A u \in Tasks : ~SettingBase(u)'
    BY <2>3, <2>4 DEF SettingBase
  <2> QED BY <2>8, <2>9, <2>10 DEF Ordered
<1>14. CASE ReadTicks(t)
  <2> DEFINE k == (now - started) \div MsPerTick
  <2>1. c.at = "set" /\ UNCHANGED <<config, clockVars, base, timestamp, textVars, latest, settledLatest, trusted>>
    BY <1>14 DEF ReadTicks, At
  <2>2. Turns(t, "ticks", c.early, k, c.stamp, c.piece)
    BY <1>1, <1>14, StepsTurn
  <2>3. Running
    BY <1>2, <2>1 DEF Fits
  <2>4. k \in Nat /\ k * MsPerTick = Elapsed
    BY <2>3, StampsAre DEF Elapsed
  <2> HIDE DEF k
  <2>5. Promised(t, "ticks", f, c.follows, c.early, k, c.stamp)
    BY <1>3, <1>4, <2>1, <2>3, <2>4 DEF Promised
  <2>6. UNCHANGED <<port, now, started, base, timestamp, latest>>
    BY <2>1 DEF config, clockVars
  <2> HIDE DEF c
  <2> QED BY <1>1, <1>2, <1>6, <2>2, <2>4, <2>5, <2>6, TurnKeepsOrder DEF c
<1>15. CASE AddBase(t)
  <2> DEFINE m == c.ticks * MsPerTick
             s == base + m
  <2>1. /\ c.at = "ticks" /\ Answers(t, s)
        /\ UNCHANGED <<config, clockVars, base, timestamp, textVars, latest, settledLatest, trusted>>
    BY <1>15 DEF AddBase, At
  <2>2. m <= Elapsed /\ (c.follows => f <= s) /\ m \in Nat
    BY <1>2, <1>3, <2>1 DEF Promised
  <2>3. Running /\ m <= LastMoment
    BY <1>2, <2>1 DEF Fits
  <2>4. s \in 0 .. Top
    BY <1>2, <2>3, StampsAre
  <2> HIDE DEF m
  <2>5. Given(s)
    BY <1>4, <2>2, <2>3 DEF Given
  <2> HIDE DEF s
  <2> QED BY <1>4, <1>7, <2>1, <2>2, <2>3, <2>4, <2>5 DEF config, clockVars
<1>16. CASE EarlyText(t) \/ ReadTime(t)
  BY <1>16 DEF EarlyText, ReadTime
<1>17. CASE AcquireBuffer(t) \/ WritePiece(t) \/ ReleaseBuffer(t)
  BY <1>2, <1>17 DEF AcquireBuffer, WritePiece, ReleaseBuffer, At, Fits
<1> QED BY <1>8, <1>9, <1>10, <1>11, <1>12, <1>13, <1>14, <1>15, <1>16, <1>17 DEF Steps

(***************************************************************************)
(* Time, the start of the scheduler, a new call and a return keep the      *)
(* order.                                                                  *)
(***************************************************************************)
LEMMA AroundKeepsOrder ==
  ASSUME ClockInv, Ordered, uses = "stamp",
         Passes \/ SchedulerStarts \/ \E t \in Tasks : Calls(t) \/ Returns(t)
  PROVE  Ordered'
<1>1. /\ now \in Nat /\ timestamp \in Nat /\ base \in Nat /\ latest \in Int
      /\ Running => Elapsed \in Nat /\ started + Elapsed <= now /\ started \in Nat
      /\ ~Running => base = 0
      /\ Running => port = "freertos"
  BY ElapsedIs, ComparedAre, TimesAre DEF ClockInv, Phases
<1>2. CASE Passes
  <2>1. /\ now' \in Moments /\ now' > now
        /\ UNCHANGED <<config, started, base, timestamp, textVars, call, latest, settledLatest, trusted>>
    BY <1>2 DEF Passes
  <2>2. now' \in Nat
    BY <2>1, NumbersAre
  <2>3. Running' = Running
    BY <2>1 DEF Running
  <2>4. Running => Elapsed' \in Nat /\ Elapsed <= Elapsed'
    BY <1>2, ElapsedGrows
  <2>5. \A x \in Int : Given(x) => Given(x)'
    BY <1>1, <2>1, <2>2, <2>3, <2>4 DEF Given, config
  <2>6. ASSUME NEW u \in Tasks
        PROVE  Following(u)'
    <3>1. CASE call[u] = Idle
      BY <2>1, <3>1 DEF Following
    <3>2. CASE call[u] # Idle
      <4>1. /\ call'[u] = call[u] /\ call[u].floor \in Int /\ call[u].stamp \in Int
            /\ call[u].ticks * MsPerTick \in Nat
            /\ Fits(call[u].at, call[u].ticks, call[u].stamp, call[u].piece)
            /\ Promised(u, call[u].at, call[u].floor, call[u].follows,
                        call[u].early, call[u].ticks, call[u].stamp)
        BY <2>1, <3>2, ComparedAre, CallIs DEF Ordered, Following
      <4>2. call[u].at \in {"called", "unset"} => Given(call[u].floor)'
        BY <2>5, <4>1 DEF Promised
      <4>3. call[u].at = "done" => Given(call[u].stamp)'
        BY <2>5, <4>1 DEF Promised
      <4>4. call[u].at = "set" /\ call[u].follows => call[u].floor <= base + Elapsed'
        BY <1>1, <2>4, <4>1 DEF Promised, Fits
      <4>5. call[u].at = "ticks" => call[u].ticks * MsPerTick <= Elapsed'
        <5> DEFINE k == call[u].ticks * MsPerTick
        <5>1. k \in Nat /\ (call[u].at = "ticks" => Running /\ k <= Elapsed)
          BY <4>1 DEF Promised, Fits
        <5> HIDE DEF k
        <5>2. call[u].at = "ticks" => k <= Elapsed'
          BY <1>1, <2>4, <5>1
        <5> QED BY <5>2 DEF k
      <4> QED BY <2>1, <2>3, <4>1, <4>2, <4>3, <4>4, <4>5 DEF Following, Promised, config
    <3> QED BY <3>1, <3>2
  <2>7. Given(latest)'
    BY <1>1, <2>1, <2>5 DEF Ordered, Given
  <2> QED BY <2>1, <2>6, <2>7 DEF Ordered, SettingBase
<1>3. CASE SchedulerStarts
  <2>1. /\ port = "freertos" /\ ~Running /\ \A t \in Tasks : call[t] = Idle
        /\ started' = now
        /\ UNCHANGED <<config, now, base, timestamp, textVars, call, latest, settledLatest, trusted>>
    BY <1>3 DEF SchedulerStarts
  <2>2. latest <= now
    BY <2>1 DEF Ordered, Given
  <2>3. Given(latest)'
    BY <1>1, <2>1, <2>2 DEF Given, config
  <2>4. \A u \in Tasks : Following(u)' /\ ~SettingBase(u)'
    BY <2>1 DEF Following, SettingBase, Idle
  <2> QED BY <2>3, <2>4 DEF Ordered
<1>4. ASSUME NEW t \in Tasks, Calls(t)
      PROVE  Ordered'
  <2> DEFINE c == [at |-> "called", floor |-> latest,
                   follows |-> port # "freertos" \/ Core[t] = 0 \/ base # 0,
                   since |-> IF BaseSettled THEN settledLatest ELSE Never,
                   early |-> 0, ticks |-> 0, stamp |-> 0, piece |-> 0]
  <2>1. /\ call[t] = Idle
        /\ call' = [call EXCEPT ![t] = c]
        /\ UNCHANGED <<config, clockVars, base, timestamp, textVars, latest, settledLatest, trusted>>
    BY <1>4 DEF Calls
  <2>2. call \in [Tasks -> {Idle} \cup Calling]
    BY DEF ClockInv, Typed
  <2>3. /\ call'[t] = c /\ \A u \in Tasks : u # t => call'[u] = call[u]
    <3> HIDE DEF c
    <3> QED BY <2>1, <2>2
  <2>4. /\ c.at = "called" /\ c.floor = latest
        /\ c.follows <=> port # "freertos" \/ Core[t] = 0 \/ base # 0
    OBVIOUS
  <2> HIDE DEF c
  <2>5. UNCHANGED <<port, now, started, base, timestamp, latest>>
    BY <2>1 DEF config, clockVars
  <2>6. Running' = Running /\ Elapsed' = Elapsed
    BY <2>5 DEF Running, Elapsed
  <2>7. Given(latest) /\ Given(latest)'
    BY <2>5, <2>6 DEF Ordered, Given
  <2>8. ASSUME NEW u \in Tasks
        PROVE  Following(u)'
    <3>1. CASE u = t
      <4>1. call'[u].at = "called" /\ call'[u].floor = latest
        BY <2>3, <2>4, <3>1
      <4>2. call'[u].follows /\ Running => Core[u] = 0 \/ base # 0
        BY <1>1, <2>3, <2>4, <3>1
      <4> QED BY <2>5, <2>6, <2>7, <4>1, <4>2 DEF Following, Promised, Given
    <3>2. CASE u # t
      <4>1. call'[u] = call[u] /\ Following(u)
        BY <2>3, <3>2 DEF Ordered
      <4> QED BY <2>5, <2>6, <4>1 DEF Following, Promised, Given
    <3> QED BY <3>1, <3>2
  <2>9. \A u \in Tasks : SettingBase(u)' => SettingBase(u)
    BY <2>3, <2>4 DEF SettingBase
  <2> QED BY <2>5, <2>7, <2>8, <2>9 DEF Ordered
<1>5. ASSUME NEW t \in Tasks, Returns(t)
      PROVE  Ordered'
  <2>1. /\ call' = [call EXCEPT ![t] = Idle] /\ call[t].at = "done"
        /\ latest' = IF uses = "stamp" /\ call[t].stamp > latest THEN call[t].stamp ELSE latest
        /\ UNCHANGED <<config, clockVars, base, timestamp, textVars, trusted>>
    BY <1>5 DEF Returns, At
  <2>2. call \in [Tasks -> {Idle} \cup Calling]
    BY DEF ClockInv, Typed
  <2>3. /\ call'[t] = Idle /\ \A u \in Tasks : u # t => call'[u] = call[u]
    BY <2>1, <2>2
  <2>4. UNCHANGED <<port, now, started, base, timestamp>>
    BY <2>1 DEF config, clockVars
  <2>5. Running' = Running /\ Elapsed' = Elapsed
    BY <2>4 DEF Running, Elapsed
  <2>6. Given(call[t].stamp) /\ Given(latest)
    BY <2>1 DEF Ordered, Following, Promised, Idle
  <2>7. Given(latest)'
    BY <2>1, <2>4, <2>5, <2>6 DEF Given
  <2>8. ASSUME NEW u \in Tasks
        PROVE  Following(u)'
    <3>1. CASE u = t
      BY <2>3, <3>1 DEF Following
    <3>2. CASE u # t
      <4>1. call'[u] = call[u] /\ Following(u)
        BY <2>3, <3>2 DEF Ordered
      <4> QED BY <2>4, <2>5, <4>1 DEF Following, Promised, Given
    <3> QED BY <3>1, <3>2
  <2>9. \A u \in Tasks : SettingBase(u)' => SettingBase(u)
    BY <2>3 DEF SettingBase, Idle
  <2> QED BY <2>4, <2>7, <2>8, <2>9 DEF Ordered
<1> QED BY <1>2, <1>3, <1>4, <1>5

(***************************************************************************)
(* Every step keeps the order, and once trust is lost it stays lost.       *)
(***************************************************************************)
LEMMA StampInvStep == ASSUME StampInv, [Next]_vars PROVE StampInv'
<1>1. ClockInv /\ ClockInv' /\ (uses = "stamp" /\ trusted => Ordered)
  BY ClockInvStep DEF StampInv
<1>2. CASE UNCHANGED vars
  <2>1. Running' = Running /\ Elapsed' = Elapsed
    BY <1>2 DEF vars, clockVars, Running, Elapsed
  <2>2. Ordered => Ordered'
    BY <1>2, <2>1 DEF Ordered, Following, Promised, Given, SettingBase, vars, config, clockVars
  <2> QED BY <1>1, <1>2, <2>2 DEF StampInv, vars, config
<1>3. CASE Next
  <2>1. \/ Passes \/ SchedulerStarts
        \/ \E t \in Tasks : Calls(t) \/ Returns(t)
        \/ \E t \in Tasks : Steps(t)
    BY <1>3 DEF Next, Steps
  <2>2. uses' = uses /\ (trusted' => trusted)
    <3>1. CASE Passes \/ SchedulerStarts
      BY <3>1 DEF Passes, SchedulerStarts, config
    <3>2. ASSUME NEW t \in Tasks, Calls(t) \/ Returns(t)
          PROVE  uses' = uses /\ (trusted' => trusted)
      BY <3>2 DEF Calls, Returns, config
    <3>3. ASSUME NEW t \in Tasks,
                 \/ CounterStamp(t) \/ ClockStamp(t)
                 \/ SetBase(t) \/ ReadTicks(t) \/ AddBase(t)
          PROVE  uses' = uses /\ (trusted' => trusted)
      BY <3>3 DEF CounterStamp, ClockStamp, SetBase, ReadTicks, AddBase, config
    <3>4. ASSUME NEW t \in Tasks, EarlyStamp(t) \/ TestBase(t) \/ ReadEarly(t)
          PROVE  uses' = uses /\ (trusted' => trusted)
      <4>1. CASE EarlyStamp(t)
        BY <4>1 DEF EarlyStamp, config
      <4>2. CASE TestBase(t)
        <5> DEFINE alone == base = 0 /\ Core[t] = 0 =>
                              \A u \in Tasks : ~At(u, "unset") /\ ~At(u, "read")
        <5>1. trusted' = (trusted /\ alone) /\ uses' = uses
          BY <4>2 DEF TestBase, config
        <5> HIDE DEF alone
        <5> QED BY <5>1
      <4>3. CASE ReadEarly(t)
        BY <4>3 DEF ReadEarly, config
      <4> QED BY <3>4, <4>1, <4>2, <4>3
    <3>5. ASSUME NEW t \in Tasks,
                 \/ EarlyText(t) \/ ReadTime(t) \/ AcquireBuffer(t)
                 \/ WritePiece(t) \/ ReleaseBuffer(t)
          PROVE  uses' = uses /\ (trusted' => trusted)
      BY <3>5 DEF EarlyText, ReadTime, AcquireBuffer, WritePiece, ReleaseBuffer, config
    <3> QED BY <2>1, <3>1, <3>2, <3>3, <3>4, <3>5 DEF Steps
  <2>3. ASSUME uses' = "stamp", trusted'
        PROVE  Ordered'
    <3>1. uses = "stamp" /\ Ordered
      BY <1>1, <2>2, <2>3
    <3> QED BY <1>1, <2>1, <2>3, <3>1, AroundKeepsOrder, StepsKeepOrder
  <2> QED BY <1>1, <2>3 DEF StampInv
<1> QED BY <1>2, <1>3

(***************************************************************************)
(* The order holds at all times.                                           *)
(***************************************************************************)
LEMMA StampInvHolds == Spec => []StampInv
<1>1. Init => StampInv
  <2> SUFFICES ASSUME Init PROVE StampInv
    OBVIOUS
  <2>1. Ordered
    BY DEF Init, Ordered, Given, Following, SettingBase, Idle, Running, Never
  <2> QED BY <2>1, ClockInvInit DEF StampInv
<1> QED BY <1>1, StampInvStep, PTL DEF Spec

(***************************************************************************)
(* log_timestamp never answers less than what was returned before the call *)
(* began, on any number of tasks and across the start of the scheduler and *)
(* the setting of base, as long as the three conditions of StampsFollow    *)
(* hold: the call did not begin on core 1 before base was set, no two      *)
(* tasks raced for base, and the cycle counter was not read past its wrap. *)
(***************************************************************************)
THEOREM StampsDoNotGoBack == Spec => []StampsFollow
<1>1. StampInv => StampsFollow
  <2> SUFFICES ASSUME StampInv, NEW t \in Tasks,
                      At(t, "done") /\ uses = "stamp" /\ call[t].follows /\ trusted
               PROVE  IF port = "noos" THEN call[t].stamp > call[t].floor
                                       ELSE call[t].stamp >= call[t].floor
    BY DEF StampsFollow
  <2>1. call[t] # Idle
    BY DEF At, Idle
  <2>2. call[t].floor \in Int /\ call[t].stamp \in Nat
    BY <2>1, ComparedAre DEF StampInv
  <2>3. Following(t)
    BY DEF StampInv, Ordered
  <2> QED BY <2>1, <2>2, <2>3 DEF Following, Promised, At
<1> QED BY StampInvHolds, <1>1, PTL

-----------------------------------------------------------------------------
(* Stamps settle *)

\* At this stage a call that began settled is on its way to a stamp not below
\* since, and not above what the clock has counted.
Due(at, since, ticks, stamp) ==
  /\ since <= settledLatest
  /\ at = "ticks" => ticks * MsPerTick <= Elapsed /\ since <= base + ticks * MsPerTick
  /\ at = "done" => stamp <= base + Elapsed /\ since <= stamp

Settling ==
  /\ base # 0 => uses = "stamp"
  /\ ~BaseSettled => settledLatest = 0 /\ \A t \in Tasks : call[t] # Idle => call[t].since = Never
  /\ BaseSettled =>
       /\ settledLatest <= base + Elapsed
       /\ \A t \in Tasks : call[t] # Idle /\ call[t].since # Never =>
            Due(call[t].at, call[t].since, call[t].ticks, call[t].stamp)

SettleInv == ClockInv /\ Settling

(***************************************************************************)
(* The numbers that are compared once base is settled.                     *)
(***************************************************************************)
LEMMA SettledAre ==
  ASSUME ClockInv
  PROVE  /\ settledLatest \in Nat /\ base \in Nat
         /\ base # 0 => Running /\ port = "freertos" /\ Elapsed \in Nat
         /\ \A t \in Tasks : call[t] # Idle =>
              /\ call[t].since \in Int /\ call[t].stamp \in Nat
              /\ call[t].ticks * MsPerTick \in Nat
<1>1. settledLatest \in 0 .. Top /\ Top \in Nat /\ base \in Nat
  BY TimesAre DEF ClockInv, Typed, TypeOK, Top
<1>2. base # 0 => Running /\ port = "freertos" /\ Elapsed \in Nat
  BY ElapsedIs DEF ClockInv, Phases
<1>3. \A t \in Tasks : call[t] # Idle =>
        /\ call[t].since \in Int /\ call[t].stamp \in Nat /\ call[t].ticks * MsPerTick \in Nat
  BY ComparedAre, LocalsAre
<1> QED BY <1>1, <1>2, <1>3

(***************************************************************************)
(* A step inside a call leaves the clock alone, and what the call promises *)
(* to follow; it sets base only for a stamp.                               *)
(***************************************************************************)
LEMMA StepsKeepSince ==
  ASSUME ClockInv, NEW t \in Tasks, Steps(t)
  PROVE  /\ UNCHANGED <<port, uses, now, started, settledLatest>>
         /\ base' = base \/ (SetBase(t) /\ uses = "stamp")
         /\ call'[t].since = call[t].since
         /\ \A u \in Tasks : u # t => call'[u] = call[u]
<1> DEFINE c == call[t]
<1>1. /\ UNCHANGED <<port, uses, now, started, settledLatest>>
      /\ base' = base \/ SetBase(t)
  BY DEF Steps, CounterStamp, ClockStamp, EarlyStamp, TestBase, ReadEarly, SetBase, ReadTicks,
         AddBase, EarlyText, ReadTime, AcquireBuffer, WritePiece, ReleaseBuffer,
         config, clockVars
<1>2. c # Idle
  BY StepsKeepClock
<1>3. SetBase(t) => uses = "stamp"
  BY <1>2, CallIs DEF SetBase, At, Fits
<1>4. \E a, e, k, s, p : Turns(t, a, e, k, s, p)
  <2>1. \A s \in Stages : GoesTo(t, s) => Turns(t, s, c.early, c.ticks, c.stamp, c.piece)
    BY <1>2, StepsTurn
  <2>2. \A s \in 0 .. Top : Answers(t, s) => Turns(t, "done", c.early, 0, s, c.piece)
    BY <1>2, StepsTurn
  <2>3. CASE CounterStamp(t) \/ ClockStamp(t) \/ EarlyStamp(t) \/ EarlyText(t)
    <3>1. \E s \in 0 .. Top : Answers(t, s)
      BY <2>3, StampsAre DEF CounterStamp, ClockStamp, EarlyStamp, EarlyText
    <3> QED BY <2>2, <3>1
  <2>4. CASE TestBase(t) \/ AcquireBuffer(t) \/ ReleaseBuffer(t)
    <3>1. \E s \in Stages : GoesTo(t, s)
      BY <2>4 DEF TestBase, AcquireBuffer, ReleaseBuffer, Stages
    <3> QED BY <2>1, <3>1
  <2>5. CASE AddBase(t)
    <3>1. base + c.ticks * MsPerTick \in 0 .. Top /\ Answers(t, base + c.ticks * MsPerTick)
      BY <1>2, <2>5, CallIs, LocalsAre, StampsAre DEF AddBase, At, Fits
    <3> QED BY <2>2, <3>1
  <2>6. CASE ReadEarly(t) \/ SetBase(t) \/ ReadTicks(t) \/ ReadTime(t) \/ WritePiece(t)
    BY <1>2, <2>6, StepsTurn
  <2> QED BY <2>3, <2>4, <2>5, <2>6 DEF Steps
<1>5. PICK a, e, k, s, p : Turns(t, a, e, k, s, p)
  BY <1>4
<1>6. call \in [Tasks -> {Idle} \cup Calling]
  BY DEF ClockInv, Typed
<1>7. /\ call'[t].since = call[t].since
      /\ \A u \in Tasks : u # t => call'[u] = call[u]
  BY <1>5, <1>6 DEF Turns
<1> QED BY <1>1, <1>3, <1>7

(***************************************************************************)
(* Once base is settled a turn to the next stage keeps it so, if the call  *)
(* is still on its way to a stamp that follows.                            *)
(***************************************************************************)
LEMMA TurnKeepsSettled ==
  ASSUME ClockInv, Settling, BaseSettled, NEW t \in Tasks, call[t] # Idle,
         NEW at \in Stages \ {"unset", "read"}, NEW early \in 0 .. EarlyModulus - 1,
         NEW ticks \in Nat, NEW stamp \in 0 .. Top, NEW piece \in 0 .. Pieces + 1,
         Turns(t, at, early, ticks, stamp, piece),
         UNCHANGED <<uses, now, started, base, settledLatest>>,
         call[t].since # Never => Due(at, call[t].since, ticks, stamp)
  PROVE  Settling'
<1>1. /\ call'[t] # Idle /\ call'[t].at = at /\ call'[t].since = call[t].since
      /\ call'[t].ticks = ticks /\ call'[t].stamp = stamp
      /\ \A u \in Tasks : u # t => call'[u] = call[u]
  BY TurnsIs
<1>2. Elapsed' = Elapsed
  BY DEF Elapsed
<1>3. BaseSettled'
  BY <1>1 DEF BaseSettled, At
<1>4. ASSUME NEW u \in Tasks, call'[u] # Idle, call'[u].since # Never
      PROVE  Due(call[u].at, call[u].since, call[u].ticks, call[u].stamp)'
  <2>1. CASE u = t
    BY <1>1, <1>2, <1>4, <2>1 DEF Due
  <2>2. CASE u # t
    <3>1. /\ call'[u] = call[u]
          /\ Due(call[u].at, call[u].since, call[u].ticks, call[u].stamp)
      BY <1>1, <1>4, <2>2 DEF Settling
    <3> QED BY <1>2, <3>1 DEF Due
  <2> QED BY <2>1, <2>2
<1> QED BY <1>2, <1>3, <1>4 DEF Settling

(***************************************************************************)
(* The steps inside a call let stamps settle.                              *)
(***************************************************************************)
LEMMA StepsSettle ==
  ASSUME ClockInv, Settling, NEW t \in Tasks, Steps(t)
  PROVE  Settling'
<1> DEFINE c == call[t]
<1>1. /\ UNCHANGED <<port, uses, now, started, settledLatest>>
      /\ base' = base \/ (SetBase(t) /\ uses = "stamp")
      /\ call'[t].since = c.since
      /\ \A u \in Tasks : u # t => call'[u] = call[u]
  BY StepsKeepSince
<1>2. c # Idle /\ ClockInv'
  BY StepsKeepClock
<1>3. Elapsed' = Elapsed /\ Running' = Running
  BY <1>1 DEF Elapsed, Running
<1>4. base' # 0 => uses' = "stamp"
  BY <1>1 DEF Settling
<1>5. CASE ~BaseSettled
  <2>1. settledLatest' = 0
    BY <1>1, <1>5 DEF Settling
  <2>2. \A u \in Tasks : call'[u] # Idle => call'[u].since = Never
    BY <1>1, <1>2, <1>5 DEF Settling
  <2>3. base' # 0 => settledLatest' <= base' + Elapsed'
    <3>1. base' \in Nat
      <4>1. base' \in 0 .. EarlyModulus - 1
        BY <1>2 DEF ClockInv, Typed, TypeOK
      <4> QED BY <4>1, NumbersAre
    <3>2. base' # 0 => Running
      BY <1>2, <1>3 DEF ClockInv, Phases
    <3> QED BY <1>3, <2>1, <3>1, <3>2, ElapsedIs
  <2> QED BY <1>4, <2>1, <2>2, <2>3 DEF Settling, BaseSettled
<1>6. CASE BaseSettled
  <2>1. /\ c.at \in Stages /\ c.early \in 0 .. EarlyModulus - 1 /\ c.ticks \in Nat
        /\ c.stamp \in 0 .. Top /\ c.piece \in 0 .. Pieces + 1 /\ c.since \in Int
        /\ Fits(c.at, c.ticks, c.stamp, c.piece)
    BY <1>2, LocalsAre, CallIs
  <2>2. /\ base # 0 /\ uses = "stamp" /\ Running /\ port = "freertos"
        /\ c.at \notin {"unset", "read"}
    BY <1>6, SettledAre DEF BaseSettled, At, Settling
  <2>3. /\ settledLatest \in Nat /\ base \in Nat /\ Elapsed \in Nat
        /\ settledLatest <= base + Elapsed
        /\ c.since # Never => Due(c.at, c.since, c.ticks, c.stamp)
    BY <1>2, <1>6, <2>2, SettledAre DEF Settling
  <2>4. base' = base
    BY <1>1, <2>2 DEF SetBase, At
  <2>5. {"set", "ticks", "done"} \subseteq Stages \ {"unset", "read"}
    BY DEF Stages
  <2>6. /\ \A s \in Stages : GoesTo(t, s) => Turns(t, s, c.early, c.ticks, c.stamp, c.piece)
        /\ \A s \in 0 .. Top : Answers(t, s) => Turns(t, "done", c.early, 0, s, c.piece)
    BY <1>2, StepsTurn
  <2>7. CASE TestBase(t)
    <3>1. GoesTo(t, "set")
      BY <2>2, <2>7 DEF TestBase
    <3>2. Turns(t, "set", c.early, c.ticks, c.stamp, c.piece)
      BY <2>5, <2>6, <3>1
    <3>3. c.since # Never => Due("set", c.since, c.ticks, c.stamp)
      BY <2>3 DEF Due
    <3> HIDE DEF c
    <3> QED BY <1>1, <1>2, <1>6, <2>1, <2>4, <2>5, <3>2, <3>3, TurnKeepsSettled DEF c
  <2>8. CASE ReadTicks(t)
    <3> DEFINE k == (now - started) \div MsPerTick
    <3>1. Turns(t, "ticks", c.early, k, c.stamp, c.piece)
      BY <1>2, <2>8, StepsTurn
    <3>2. k \in Nat /\ k * MsPerTick = Elapsed
      BY <2>2, StampsAre DEF Elapsed
    <3> HIDE DEF k
    <3>3. c.since # Never => Due("ticks", c.since, k, c.stamp)
      BY <2>1, <2>3, <3>2 DEF Due
    <3> HIDE DEF c
    <3> QED BY <1>1, <1>2, <1>6, <2>1, <2>4, <2>5, <3>1, <3>2, <3>3, TurnKeepsSettled DEF c
  <2>9. CASE AddBase(t)
    <3> DEFINE m == c.ticks * MsPerTick
               s == base + m
    <3>1. c.at = "ticks" /\ Answers(t, s)
      BY <2>9 DEF AddBase, At
    <3>2. s \in 0 .. Top /\ m \in Nat
      BY <1>2, <2>1, <3>1, StampsAre DEF Fits
    <3>3. Turns(t, "done", c.early, 0, s, c.piece)
      BY <2>6, <3>1, <3>2
    <3>4. c.since # Never => m <= Elapsed /\ c.since <= base + m /\ c.since <= settledLatest
      BY <2>3, <3>1 DEF Due
    <3> HIDE DEF m
    <3>5. c.since # Never => Due("done", c.since, 0, s)
      BY <2>3, <3>2, <3>4 DEF Due
    <3> HIDE DEF c, s
    <3> QED BY <1>1, <1>2, <1>6, <2>1, <2>4, <2>5, <3>2, <3>3, <3>5, TurnKeepsSettled DEF c
  <2>10. CASE ~(TestBase(t) \/ ReadTicks(t) \/ AddBase(t))
    BY <2>1, <2>2, <2>10 DEF Steps, CounterStamp, ClockStamp, EarlyStamp, ReadEarly, SetBase,
         EarlyText, ReadTime, AcquireBuffer, WritePiece, ReleaseBuffer, At, Fits
  <2> QED BY <2>7, <2>8, <2>9, <2>10
<1> QED BY <1>5, <1>6

(***************************************************************************)
(* Time, the start of the scheduler, a new call and a return let them      *)
(* settle too.                                                             *)
(***************************************************************************)
LEMMA AroundSettles ==
  ASSUME ClockInv, Settling,
         Passes \/ SchedulerStarts \/ \E t \in Tasks : Calls(t) \/ Returns(t)
  PROVE  Settling'
<1>1. /\ settledLatest \in Nat /\ base \in Nat
      /\ base # 0 => Running /\ Elapsed \in Nat
      /\ ~Running => base = 0
  BY SettledAre DEF ClockInv, Phases
<1>2. CASE Passes
  <2>1. UNCHANGED <<uses, started, base, call, settledLatest>>
    BY <1>2 DEF Passes, config
  <2>2. base # 0 => Elapsed' \in Nat /\ Elapsed <= Elapsed'
    BY <1>1, <1>2, ElapsedGrows
  <2>3. BaseSettled' <=> BaseSettled
    BY <2>1 DEF BaseSettled, At
  <2>4. ASSUME BaseSettled
        PROVE  settledLatest <= base + Elapsed'
    <3>1. base # 0 /\ settledLatest <= base + Elapsed
      BY <2>4 DEF BaseSettled, Settling
    <3> QED BY <1>1, <2>2, <3>1
  <2>5. ASSUME BaseSettled, NEW u \in Tasks, call[u] # Idle, call[u].since # Never
        PROVE  Due(call[u].at, call[u].since, call[u].ticks, call[u].stamp)'
    <3> DEFINE k == call[u].ticks * MsPerTick
    <3>1. Due(call[u].at, call[u].since, call[u].ticks, call[u].stamp)
      BY <2>5 DEF Settling
    <3>2. /\ call[u].since \in Int /\ call[u].stamp \in Nat /\ k \in Nat
          /\ base # 0
      BY <2>5, SettledAre DEF BaseSettled
    <3>3. call[u].at = "ticks" => k <= Elapsed'
      <4>1. call[u].at = "ticks" => k <= Elapsed
        BY <3>1 DEF Due
      <4> HIDE DEF k
      <4> QED BY <1>1, <2>2, <3>2, <4>1
    <3>4. call[u].at = "done" => call[u].stamp <= base + Elapsed'
      <4>1. call[u].at = "done" => call[u].stamp <= base + Elapsed
        BY <3>1 DEF Due
      <4> QED BY <1>1, <2>2, <3>2, <4>1
    <3> QED BY <2>1, <3>1, <3>3, <3>4 DEF Due
  <2> QED BY <2>1, <2>3, <2>4, <2>5 DEF Settling
<1>3. CASE SchedulerStarts
  <2>1. /\ base = 0 /\ base' = 0 /\ settledLatest' = settledLatest
        /\ \A u \in Tasks : call[u] = Idle /\ call'[u] = Idle
    BY <1>1, <1>3 DEF SchedulerStarts
  <2>2. ~BaseSettled /\ ~BaseSettled'
    BY <2>1 DEF BaseSettled
  <2> QED BY <2>1, <2>2 DEF Settling
<1>4. ASSUME NEW t \in Tasks, Calls(t)
      PROVE  Settling'
  <2> DEFINE c == [at |-> "called", floor |-> latest,
                   follows |-> port # "freertos" \/ Core[t] = 0 \/ base # 0,
                   since |-> IF BaseSettled THEN settledLatest ELSE Never,
                   early |-> 0, ticks |-> 0, stamp |-> 0, piece |-> 0]
  <2>1. /\ call[t] = Idle /\ call' = [call EXCEPT ![t] = c]
        /\ UNCHANGED <<uses, now, started, base, settledLatest>>
    BY <1>4 DEF Calls, config, clockVars
  <2>2. c.at = "called" /\ c.since = (IF BaseSettled THEN settledLatest ELSE Never)
    OBVIOUS
  <2> HIDE DEF c
  <2>3. call'[t] = c /\ \A u \in Tasks : u # t => call'[u] = call[u]
    BY <2>1 DEF ClockInv, Typed
  <2>4. Elapsed' = Elapsed
    BY <2>1 DEF Elapsed
  <2>5. BaseSettled' <=> BaseSettled
    BY <2>1, <2>2, <2>3 DEF BaseSettled, At, Idle
  <2>6. ASSUME NEW u \in Tasks, call'[u] # Idle
        PROVE  /\ ~BaseSettled => call'[u].since = Never
               /\ BaseSettled /\ call'[u].since # Never =>
                    Due(call[u].at, call[u].since, call[u].ticks, call[u].stamp)'
    <3>1. CASE u = t
      <4>1. call'[u].at = "called" /\ (BaseSettled => call'[u].since = settledLatest)
        BY <2>2, <2>3, <3>1
      <4> QED BY <1>1, <2>1, <2>2, <2>3, <3>1, <4>1 DEF Due
    <3>2. CASE u # t
      <4>1. call'[u] = call[u] /\ call[u] # Idle
        BY <2>3, <2>6, <3>2
      <4> QED BY <2>1, <2>4, <4>1 DEF Settling, Due
    <3> QED BY <3>1, <3>2
  <2> QED BY <2>1, <2>4, <2>5, <2>6 DEF Settling
<1>5. ASSUME NEW t \in Tasks, Returns(t)
      PROVE  Settling'
  <2>1. /\ call[t].at = "done" /\ call[t] # Idle /\ call' = [call EXCEPT ![t] = Idle]
        /\ settledLatest' = IF call[t].since # Never /\ call[t].stamp > settledLatest
                            THEN call[t].stamp ELSE settledLatest
        /\ UNCHANGED <<uses, now, started, base>>
    BY <1>5 DEF Returns, At, Idle, config, clockVars
  <2>2. call'[t] = Idle /\ \A u \in Tasks : u # t => call'[u] = call[u]
    BY <2>1 DEF ClockInv, Typed
  <2>3. Elapsed' = Elapsed
    BY <2>1 DEF Elapsed
  <2>4. BaseSettled' <=> BaseSettled
    BY <2>1, <2>2 DEF BaseSettled, At, Idle
  <2>5. settledLatest <= settledLatest' /\ settledLatest' \in Nat
    BY <1>1, <2>1, SettledAre
  <2>6. CASE ~BaseSettled
    <3>1. call[t].since = Never /\ settledLatest' = settledLatest
      BY <2>1, <2>6 DEF Settling
    <3> QED BY <2>1, <2>2, <2>4, <2>6, <3>1 DEF Settling
  <2>7. CASE BaseSettled
    <3>1. settledLatest' <= base + Elapsed
      BY <2>1, <2>7 DEF Settling, Due
    <3>2. ASSUME NEW u \in Tasks, call'[u] # Idle, call'[u].since # Never
          PROVE  Due(call[u].at, call[u].since, call[u].ticks, call[u].stamp)'
      <4>1. /\ call'[u] = call[u] /\ call[u].since \in Int
            /\ Due(call[u].at, call[u].since, call[u].ticks, call[u].stamp)
        BY <2>2, <2>7, <3>2, SettledAre DEF Settling
      <4>2. call[u].since <= settledLatest'
        BY <1>1, <2>5, <4>1 DEF Due
      <4> QED BY <2>1, <2>3, <4>1, <4>2 DEF Due
    <3> QED BY <2>1, <2>3, <2>4, <2>7, <3>1, <3>2 DEF Settling
  <2> QED BY <2>6, <2>7
<1> QED BY <1>2, <1>3, <1>4, <1>5

(***************************************************************************)
(* Stamps settle at all times.                                             *)
(***************************************************************************)
LEMMA SettleInvHolds == Spec => []SettleInv
<1>1. Init => SettleInv
  BY ClockInvInit DEF Init, SettleInv, Settling, BaseSettled
<1>2. ASSUME SettleInv, [Next]_vars
      PROVE  SettleInv'
  <2>1. ClockInv /\ Settling /\ ClockInv'
    BY <1>2, ClockInvStep DEF SettleInv
  <2>2. CASE UNCHANGED vars
    <3>1. Elapsed' = Elapsed /\ (BaseSettled' <=> BaseSettled)
      BY <2>2 DEF vars, clockVars, Elapsed, BaseSettled, At
    <3> QED BY <2>1, <2>2, <3>1 DEF SettleInv, Settling, Due, vars, config
  <2>3. CASE Next
    <3>1. \/ Passes \/ SchedulerStarts
          \/ \E t \in Tasks : Calls(t) \/ Returns(t)
          \/ \E t \in Tasks : Steps(t)
      BY <2>3 DEF Next, Steps
    <3> QED BY <2>1, <3>1, AroundSettles, StepsSettle DEF SettleInv
  <2> QED BY <1>2, <2>2, <2>3
<1> QED BY <1>1, <1>2, PTL DEF Spec

(***************************************************************************)
(* Races for base, a wrapped cycle counter and calls of core 1 that count  *)
(* without base do no lasting harm: the calls that begin when base is set  *)
(* and nobody is left to set it again follow one another, on any number of *)
(* tasks and on both cores, without any condition.                         *)
(***************************************************************************)
THEOREM StampsDoSettle == Spec => []StampsSettle
<1>1. SettleInv => StampsSettle
  <2> SUFFICES ASSUME SettleInv, NEW t \in Tasks, At(t, "done"), call[t].since # Never
               PROVE  call[t].stamp >= call[t].since
    BY DEF StampsSettle
  <2>1. call[t] # Idle
    BY DEF At, Idle
  <2>2. call[t].since <= call[t].stamp
    BY <2>1 DEF SettleInv, Settling, Due, At
  <2>3. call[t].since \in Int /\ call[t].stamp \in Nat
    BY <2>1, SettledAre DEF SettleInv
  <2> QED BY <2>2, <2>3
<1> QED BY SettleInvHolds, <1>1, PTL

-----------------------------------------------------------------------------
(* The static buffer *)

Holding(t) == call[t].at \in {"write", "release"}

\* The pieces a call has written are its own.
Written(t) ==
  /\ Holding(t) => \A j \in 0 .. Pieces - 1 :
                     j < call[t].piece => buffer[j] = Piece(call[t].stamp)
  /\ call[t].at = "release" => call[t].piece = Pieces + 1 /\ buffer[Pieces] = NUL
  /\ call[t].at = "done" /\ ~Running =>
       call[t].stamp \in 0 .. EarlyModulus - 1 /\ IsNumber(buffer, call[t].stamp)

Exclusive ==
  /\ TextWhole
  /\ \A t \in Tasks : Holding(t) <=> bufferLock = t
  /\ \A t \in Tasks : Written(t)

TextInv == ClockInv /\ (uses = "text" => Exclusive) /\ (uses = "stamp" => OneText)

NumbersAreTexts ==
  \A n \in 0 .. EarlyModulus - 1 :
    buffer \in [Cells -> Chars] /\ IsNumber(buffer, n) => OneText

(***************************************************************************)
(* Where the text in the buffer ends.                                      *)
(***************************************************************************)
LEMMA LengthIs ==
  ASSUME NEW d \in Cells, buffer[d] = NUL, \A j \in 0 .. d - 1 : buffer[j] # NUL
  PROVE  TextLength = d
<1> DEFINE IsLength(k) == buffer[k] = NUL /\ \A j \in 0 .. k - 1 : buffer[j] # NUL
           l == CHOOSE k \in Cells : IsLength(k)
<1>1. IsLength(d)
  OBVIOUS
<1>2. l \in Cells /\ IsLength(l)
  <2> HIDE DEF IsLength
  <2> QED BY <1>1
<1>3. l = TextLength
  BY DEF TextLength
<1> HIDE DEF l
<1>4. l \in Nat /\ d \in Nat
  BY <1>2, NumbersAre DEF Cells
<1>5. ~(l < d)
  <2>1. l < d => l \in 0 .. d - 1
    BY <1>4
  <2> QED BY <1>2, <2>1
<1>6. ~(d < l)
  <2>1. d < l => d \in 0 .. l - 1
    BY <1>4
  <2> QED BY <1>2, <2>1
<1>7. l = d
  BY <1>4, <1>5, <1>6
<1> QED BY <1>3, <1>7

(***************************************************************************)
(* A number is one text.                                                   *)
(***************************************************************************)
LEMMA NumberIsWhole == NumbersAreTexts
<1> SUFFICES ASSUME buffer \in [Cells -> Chars], NEW n \in 0 .. EarlyModulus - 1,
                    IsNumber(buffer, n)
             PROVE  OneText
  BY DEF NumbersAreTexts
<1>1. /\ \E k \in Cells : buffer[k] = NUL
      /\ TextLength \in 1 .. BufferSize - 1
      /\ \A j \in 0 .. TextLength - 1 : buffer[j][1] = "digit"
  BY NumberIsRead
<1>2. 0 \in 0 .. TextLength - 1
  BY <1>1, NumbersAre
<1> QED BY <1>1, <1>2 DEF OneText

(***************************************************************************)
(* So are the four pieces of one call with the NUL behind them.            *)
(***************************************************************************)
LEMMA PiecesAreWhole ==
  ASSUME NEW m, \A j \in 0 .. Pieces - 1 : buffer[j] = Piece(m), buffer[Pieces] = NUL
  PROVE  OneText
<1>1. Pieces \in Cells /\ Pieces = 4
  BY NumbersAre DEF Cells, Pieces
<1>2. \A j \in 0 .. Pieces - 1 : buffer[j] # NUL /\ buffer[j][1] = "piece"
  BY DEF Piece, NUL
<1>3. TextLength = Pieces
  BY <1>1, <1>2, LengthIs
<1>4. 0 \in 0 .. Pieces - 1
  BY <1>1
<1> QED BY <1>1, <1>2, <1>3, <1>4 DEF OneText

(***************************************************************************)
(* The buffer and its lock keep one text together, step by step.           *)
(***************************************************************************)
LEMMA StepsKeepText ==
  ASSUME ClockInv, Exclusive, uses = "text", NEW t \in Tasks, Steps(t)
  PROVE  Exclusive'
<1> DEFINE c == call[t]
<1>1. c # Idle /\ ClockInv'
  BY StepsKeepClock
<1>2. /\ c.at \in Stages /\ c.early \in 0 .. EarlyModulus - 1 /\ c.ticks \in Nat
      /\ c.stamp \in 0 .. Top /\ c.piece \in 0 .. Pieces + 1
      /\ Fits(c.at, c.ticks, c.stamp, c.piece)
  BY <1>1, LocalsAre, CallIs
<1>3. /\ buffer \in [Cells -> Chars] /\ buffer' \in [Cells -> Chars]
      /\ bufferLock \in Tasks \cup {NoTask} /\ NoTask \notin Tasks
      /\ port = "freertos" /\ Pieces = 4 /\ 0 \in Nat
  BY <1>1, TimestampsAssumption DEF ClockInv, Typed, TypeOK, Phases, Pieces
<1>4. /\ \A s \in Stages : GoesTo(t, s) => Turns(t, s, c.early, c.ticks, c.stamp, c.piece)
      /\ \A s \in 0 .. Top : Answers(t, s) => Turns(t, "done", c.early, 0, s, c.piece)
  BY <1>1, StepsTurn
<1>5. {"lock", "write", "release", "done"} \subseteq Stages
  BY DEF Stages
<1>6. \A u \in Tasks : call[u] = Idle => call[u].at = "idle"
  BY DEF Idle
<1>7. \A u \in Tasks : ~Running /\ u # t => call[u] = Idle
  BY <1>1, <1>3 DEF ClockInv, Phases
<1>8. CASE EarlyText(t)
  <2> DEFINE n == log_early_timestamp
  <2>1. /\ c.at = "called" /\ ~Running /\ Answers(t, n) /\ buffer' = NumberText(buffer, n)
        /\ bufferLock' = bufferLock /\ started' = started
    BY <1>8 DEF EarlyText, At, clockVars
  <2>2. n \in 0 .. Top /\ n \in 0 .. EarlyModulus - 1
    BY StampsAre
  <2> HIDE DEF n
  <2>3. IsNumber(buffer', n)
    BY <1>3, <2>1, <2>2, NumberTextIs
  <2>4. TextWhole'
    <3>1. NumbersAreTexts'
      BY NumberIsWhole, PTL
    <3>2. OneText'
      BY <1>3, <2>2, <2>3, <3>1 DEF NumbersAreTexts
    <3> QED BY <3>2 DEF TextWhole
  <2>5. Turns(t, "done", c.early, 0, n, c.piece)
    BY <1>4, <2>1, <2>2
  <2>6. /\ call'[t].at = "done" /\ call'[t].stamp = n
        /\ \A u \in Tasks : u # t => call'[u] = call[u]
    <3> HIDE DEF c
    <3> QED BY <1>1, <1>2, <1>3, <1>5, <2>2, <2>5, TurnsIs DEF c
  <2>7. \A u \in Tasks : u # t => call'[u].at = "idle"
    BY <1>6, <1>7, <2>1, <2>6
  <2>8. \A u \in Tasks : Holding(u)' <=> bufferLock' = u
    BY <1>6, <1>7, <2>1, <2>6, <2>7 DEF Exclusive, Holding
  <2>9. \A u \in Tasks : Written(u)'
    BY <2>2, <2>3, <2>6, <2>7 DEF Written, Holding
  <2> QED BY <2>4, <2>8, <2>9 DEF Exclusive
<1>9. CASE ReadTime(t)
  <2>1. c.at = "called" /\ Running /\ UNCHANGED <<buffer, bufferLock, started>>
    BY <1>9 DEF ReadTime, At, clockVars, textVars
  <2>2. Turns(t, "lock", c.early, c.ticks, now, c.piece) /\ now \in 0 .. Top
    BY <1>1, <1>9, StepsTurn, StampsAre
  <2>3. call'[t].at = "lock" /\ \A u \in Tasks : u # t => call'[u] = call[u]
    <3> HIDE DEF c
    <3> QED BY <1>1, <1>2, <1>5, <2>2, TurnsIs DEF c
  <2>4. Running' = Running
    BY <2>1 DEF Running
  <2> QED BY <2>1, <2>3, <2>4 DEF Exclusive, Holding, Written, TextWhole, OneText, TextLength
<1>10. CASE AcquireBuffer(t)
  <2>1. /\ c.at = "lock" /\ bufferLock = NoTask /\ bufferLock' = t /\ GoesTo(t, "write")
        /\ UNCHANGED <<buffer, started>>
    BY <1>10 DEF AcquireBuffer, At, clockVars
  <2>2. Turns(t, "write", c.early, c.ticks, c.stamp, c.piece) /\ c.piece = 0 /\ Running
    BY <1>2, <1>4, <1>5, <2>1 DEF Fits
  <2>3. /\ call'[t].at = "write" /\ call'[t].piece = 0
        /\ \A u \in Tasks : u # t => call'[u] = call[u]
    <3> HIDE DEF c
    <3> QED BY <1>1, <1>2, <1>5, <2>2, TurnsIs DEF c
  <2>4. Running'
    BY <2>1, <2>2 DEF Running
  <2>5. \A u \in Tasks : ~Holding(u)
    BY <1>3, <2>1 DEF Exclusive
  <2>6. \A u \in Tasks : Holding(u)' <=> bufferLock' = u
    BY <2>1, <2>3, <2>5 DEF Holding
  <2>7. \A u \in Tasks : Written(u)'
    <3> SUFFICES ASSUME NEW u \in Tasks PROVE Written(u)'
      OBVIOUS
    <3>1. CASE u = t
      <4>1. \A j \in 0 .. Pieces - 1 : ~(j < 0)
        BY <1>3
      <4> QED BY <2>3, <2>4, <3>1, <4>1 DEF Written
    <3>2. CASE u # t
      BY <2>3, <2>4, <2>5, <3>2 DEF Written, Holding
    <3> QED BY <3>1, <3>2
  <2>8. TextWhole'
    BY <1>3, <2>1 DEF TextWhole
  <2> QED BY <2>6, <2>7, <2>8 DEF Exclusive
<1>11. CASE WritePiece(t)
  <2> DEFINE next == IF c.piece < Pieces THEN "write" ELSE "release"
  <2>1. /\ c.at = "write" /\ bufferLock' = bufferLock /\ started' = started
        /\ buffer' = [buffer EXCEPT ![c.piece] = IF c.piece < Pieces THEN Piece(c.stamp) ELSE NUL]
    BY <1>11 DEF WritePiece, At, clockVars
  <2>2. Turns(t, next, c.early, c.ticks, c.stamp, c.piece + 1)
    BY <1>1, <1>11, StepsTurn
  <2>3. c.piece \in 0 .. 4 /\ Running /\ next \in {"write", "release"}
    BY <1>2, <1>3, <2>1 DEF Fits
  <2>4. /\ call'[t].at = next /\ call'[t].piece = c.piece + 1 /\ call'[t].stamp = c.stamp
        /\ \A u \in Tasks : u # t => call'[u] = call[u]
    <3>1. next \in Stages /\ c.piece + 1 \in 0 .. Pieces + 1
      BY <1>3, <1>5, <2>3
    <3> HIDE DEF c, next
    <3> QED BY <1>1, <1>2, <2>2, <3>1, TurnsIs DEF c
  <2>5. Running' /\ bufferLock = t /\ bufferLock' # NoTask
    BY <1>3, <2>1, <2>3 DEF Running, Exclusive, Holding
  <2>6. \A u \in Tasks : u # t => ~Holding(u) /\ ~Holding(u)'
    BY <2>4, <2>5 DEF Exclusive, Holding
  <2>7. Holding(t)' /\ \A u \in Tasks : Holding(u)' <=> bufferLock' = u
    BY <2>1, <2>3, <2>4, <2>5, <2>6 DEF Holding
  <2>8. \A j \in 0 .. 4 : j \in Cells
    BY NumbersAre DEF Cells
  <2>9. ASSUME NEW j \in 0 .. Pieces - 1, j < c.piece + 1
        PROVE  buffer'[j] = Piece(c.stamp)
    <3>1. j \in Cells /\ c.piece \in Cells /\ j \in 0 .. 3
      BY <1>3, <2>3, <2>8
    <3>2. CASE j = c.piece
      BY <1>3, <2>1, <3>1, <3>2
    <3>3. CASE j # c.piece
      <4>1. j < c.piece
        BY <2>3, <2>9, <3>1, <3>3
      <4>2. buffer[j] = Piece(c.stamp)
        BY <2>1, <4>1 DEF Exclusive, Written, Holding
      <4> QED BY <1>3, <2>1, <3>1, <3>3, <4>2
    <3> QED BY <3>2, <3>3
  <2>10. next = "release" => c.piece = 4 /\ buffer'[4] = NUL
    BY <1>3, <2>1, <2>3, <2>8
  <2>11. Written(t)'
    BY <1>3, <2>3, <2>4, <2>9, <2>10 DEF Written
  <2>12. \A u \in Tasks : Written(u)'
    BY <2>5, <2>6, <2>11 DEF Written, Holding
  <2>13. TextWhole'
    BY <2>5 DEF TextWhole
  <2> QED BY <2>7, <2>12, <2>13 DEF Exclusive
<1>12. CASE ReleaseBuffer(t)
  <2>1. /\ c.at = "release" /\ bufferLock' = NoTask /\ GoesTo(t, "done")
        /\ UNCHANGED <<buffer, started>>
    BY <1>12 DEF ReleaseBuffer, At, clockVars
  <2>2. Turns(t, "done", c.early, c.ticks, c.stamp, c.piece) /\ Running
    BY <1>2, <1>4, <1>5, <2>1 DEF Fits
  <2>3. call'[t].at = "done" /\ \A u \in Tasks : u # t => call'[u] = call[u]
    <3> HIDE DEF c
    <3> QED BY <1>1, <1>2, <1>5, <2>2, TurnsIs DEF c
  <2>4. Running' /\ bufferLock = t
    BY <2>1, <2>2 DEF Running, Exclusive, Holding
  <2>5. \A u \in Tasks : u # t => ~Holding(u)
    BY <2>4 DEF Exclusive
  <2>6. \A u \in Tasks : ~Holding(u)' /\ Written(u)'
    BY <2>3, <2>4, <2>5 DEF Holding, Written
  <2>7. OneText
    <3>1. buffer[Pieces] = NUL /\ \A j \in 0 .. Pieces - 1 : buffer[j] = Piece(c.stamp)
      BY <1>3, <2>1 DEF Exclusive, Written, Holding
    <3> QED BY <3>1, PiecesAreWhole
  <2>8. TextWhole'
    <3>1. TextLength' = TextLength
      BY <2>1 DEF TextLength
    <3> QED BY <2>1, <2>7, <3>1 DEF TextWhole, OneText
  <2> QED BY <1>3, <2>1, <2>6, <2>8 DEF Exclusive
<1>13. CASE ~(EarlyText(t) \/ ReadTime(t) \/ AcquireBuffer(t) \/ WritePiece(t) \/ ReleaseBuffer(t))
  <2>1. \/ CounterStamp(t) \/ ClockStamp(t) \/ EarlyStamp(t) \/ TestBase(t)
        \/ ReadEarly(t) \/ SetBase(t) \/ ReadTicks(t) \/ AddBase(t)
    BY <1>13 DEF Steps
  <2> QED BY <1>2, <1>3, <2>1 DEF CounterStamp, ClockStamp, EarlyStamp, TestBase, ReadEarly,
                                  SetBase, ReadTicks, AddBase, At, Fits
<1> QED BY <1>8, <1>9, <1>10, <1>11, <1>12, <1>13

(***************************************************************************)
(* Time, the start of the scheduler, a new call and a return leave the     *)
(* buffer and its lock alone.                                              *)
(***************************************************************************)
LEMMA AroundKeepsText ==
  ASSUME ClockInv, Exclusive,
         Passes \/ SchedulerStarts \/ \E t \in Tasks : Calls(t) \/ Returns(t)
  PROVE  Exclusive'
<1>1. UNCHANGED <<buffer, bufferLock>>
  BY DEF Passes, SchedulerStarts, Calls, Returns, textVars
<1>2. TextWhole'
  BY <1>1 DEF Exclusive, TextWhole, OneText, TextLength
<1>3. call \in [Tasks -> {Idle} \cup Calling] /\ \A u \in Tasks : call[u] = Idle => call[u].at = "idle"
  BY DEF ClockInv, Typed, Idle
<1>4. CASE Passes
  <2>1. call' = call /\ Running' = Running
    BY <1>4 DEF Passes, Running
  <2> QED BY <1>1, <1>2, <2>1 DEF Exclusive, Holding, Written
<1>5. CASE SchedulerStarts
  <2>1. call' = call /\ \A u \in Tasks : call'[u].at = "idle"
    BY <1>3, <1>5 DEF SchedulerStarts
  <2> QED BY <1>1, <1>2, <2>1 DEF Exclusive, Holding, Written
<1>6. ASSUME NEW t \in Tasks, Calls(t) \/ Returns(t)
      PROVE  Exclusive'
  <2>1. /\ call[t].at \in {"idle", "done"} /\ call'[t].at \in {"idle", "called"}
        /\ \A u \in Tasks : u # t => call'[u] = call[u]
        /\ started' = started
    <3>1. CASE Calls(t)
      <4> DEFINE c == [at |-> "called", floor |-> latest,
                       follows |-> port # "freertos" \/ Core[t] = 0 \/ base # 0,
                   since |-> IF BaseSettled THEN settledLatest ELSE Never,
                       early |-> 0, ticks |-> 0, stamp |-> 0, piece |-> 0]
      <4>1. call[t] = Idle /\ call' = [call EXCEPT ![t] = c] /\ started' = started
        BY <3>1 DEF Calls, clockVars
      <4>2. c.at = "called"
        OBVIOUS
      <4> HIDE DEF c
      <4> QED BY <1>3, <4>1, <4>2
    <3>2. CASE Returns(t)
      <4>1. call[t].at = "done" /\ call' = [call EXCEPT ![t] = Idle] /\ started' = started
        BY <3>2 DEF Returns, At, clockVars
      <4>2. Idle.at = "idle"
        BY DEF Idle
      <4> QED BY <1>3, <4>1, <4>2
    <3> QED BY <1>6, <3>1, <3>2
  <2>2. Running' = Running
    BY <2>1 DEF Running
  <2>3. ~Holding(t) /\ ~Holding(t)' /\ Written(t)'
    BY <2>1 DEF Holding, Written
  <2>4. \A u \in Tasks : u # t => (Holding(u)' <=> Holding(u)) /\ Written(u)'
    BY <1>1, <2>1, <2>2 DEF Exclusive, Holding, Written
  <2> QED BY <1>1, <1>2, <2>3, <2>4 DEF Exclusive
<1> QED BY <1>4, <1>5, <1>6

(***************************************************************************)
(* Every step keeps the text; where the program only asks for stamps no    *)
(* step reaches the buffer.                                                *)
(***************************************************************************)
LEMMA TextInvStep == ASSUME TextInv, [Next]_vars PROVE TextInv'
<1>1. /\ ClockInv /\ ClockInv' /\ uses \in {"stamp", "text"}
      /\ uses = "text" => Exclusive
      /\ uses = "stamp" => OneText
  BY ClockInvStep DEF TextInv, ClockInv, Typed, TypeOK
<1>2. CASE UNCHANGED vars
  <2>1. Running' = Running /\ UNCHANGED <<buffer, bufferLock, call, uses>>
    BY <1>2 DEF vars, clockVars, textVars, config, Running
  <2>2. OneText' = OneText
    BY <2>1 DEF OneText, TextLength
  <2>3. Exclusive => Exclusive'
    BY <2>1, <2>2 DEF Exclusive, TextWhole, Holding, Written
  <2> QED BY <1>1, <2>1, <2>2, <2>3 DEF TextInv
<1>3. CASE Passes \/ SchedulerStarts \/ \E t \in Tasks : Calls(t) \/ Returns(t)
  <2>1. UNCHANGED <<buffer, uses>>
    BY <1>3 DEF Passes, SchedulerStarts, Calls, Returns, textVars, config
  <2>2. OneText' = OneText
    BY <2>1 DEF OneText, TextLength
  <2> QED BY <1>1, <1>3, <2>1, <2>2, AroundKeepsText DEF TextInv
<1>4. ASSUME NEW t \in Tasks, Steps(t)
      PROVE  TextInv'
  <2>1. uses' = uses
    BY <1>4 DEF Steps, CounterStamp, ClockStamp, EarlyStamp, TestBase, ReadEarly, SetBase, ReadTicks,
                AddBase, EarlyText, ReadTime, AcquireBuffer, WritePiece, ReleaseBuffer, config
  <2>2. CASE uses = "text"
    BY <1>1, <1>4, <2>1, <2>2, StepsKeepText DEF TextInv
  <2>3. CASE uses = "stamp"
    <3>1. call[t].at \notin {"lock", "write", "release"}
      BY <1>1, <1>4, <2>3, StepsKeepClock, CallIs DEF Fits
    <3>2. buffer' = buffer
      BY <1>4, <2>3, <3>1 DEF Steps, CounterStamp, ClockStamp, EarlyStamp, TestBase, ReadEarly,
           SetBase, ReadTicks, AddBase, EarlyText, ReadTime, AcquireBuffer, WritePiece,
           ReleaseBuffer, textVars, At
    <3>3. OneText' = OneText
      BY <3>2 DEF OneText, TextLength
    <3> QED BY <1>1, <2>1, <2>3, <3>3 DEF TextInv
  <2> QED BY <1>1, <2>2, <2>3
<1> QED BY <1>2, <1>3, <1>4 DEF Next, Steps

(***************************************************************************)
(* The text is kept at all times.                                          *)
(***************************************************************************)
LEMMA TextInvHolds == Spec => []TextInv
<1>1. Init => TextInv
  <2> SUFFICES ASSUME Init PROVE TextInv
    OBVIOUS
  <2>1. ClockInv
    BY ClockInvInit
  <2>2. 0 \in Cells /\ buffer[0] = NUL /\ \A j \in 0 .. 0 - 1 : FALSE
    BY NumbersAre DEF Init, Cells
  <2>3. TextLength = 0
    BY <2>2, LengthIs
  <2>4. OneText
    BY <2>2, <2>3 DEF OneText
  <2>5. \A t \in Tasks : call[t].at = "idle" /\ bufferLock # t
    BY TimestampsAssumption DEF Init, Idle
  <2>6. Exclusive
    BY <2>4, <2>5 DEF Exclusive, TextWhole, Holding, Written
  <2> QED BY <2>1, <2>4, <2>6 DEF TextInv
<1> QED BY <1>1, TextInvStep, PTL DEF Spec

(***************************************************************************)
(* Whoever finds bufferLock free finds one text in the static buffer,      *)
(* never the pieces of two calls, for any number of tasks and any moments. *)
(***************************************************************************)
THEOREM TextIsWhole == Spec => []TextWhole
<1>1. TextInv => TextWhole
  BY DEF TextInv, ClockInv, Typed, TypeOK, Exclusive, TextWhole
<1> QED BY TextInvHolds, <1>1, PTL

(***************************************************************************)
(* Before the scheduler starts log_system_timestamp leaves the decimal     *)
(* digits of the cycle counter's milliseconds, the first not 0 unless it   *)
(* is the only one, and the NUL behind them: whatever the buffer held, and *)
(* for every number that fits (BufferAssumption).                          *)
(***************************************************************************)
THEOREM EarlyTextIsRead == Spec => []EarlyTextIsNumber
<1>1. TextInv => EarlyTextIsNumber
  <2> SUFFICES ASSUME TextInv, NEW t \in Tasks, At(t, "done") /\ uses = "text" /\ ~Running
               PROVE  /\ \E k \in Cells : buffer[k] = NUL
                      /\ \A j \in 0 .. TextLength - 1 : buffer[j][1] = "digit"
                      /\ Value[TextLength] = call[t].stamp
                      /\ TextLength > 1 => buffer[0] # Digit(0)
    BY DEF EarlyTextIsNumber
  <2>1. call[t].stamp \in 0 .. EarlyModulus - 1 /\ IsNumber(buffer, call[t].stamp)
    BY DEF TextInv, Exclusive, Written, At
  <2>2. buffer \in [Cells -> Chars]
    BY DEF TextInv, ClockInv, Typed, TypeOK
  <2> QED BY <2>1, <2>2, NumberIsRead
<1> QED BY TextInvHolds, <1>1, PTL
=============================================================================
