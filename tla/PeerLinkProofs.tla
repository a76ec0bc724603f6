--------------------------- MODULE PeerLinkProofs ---------------------------
(***************************************************************************)
(* The link to a peer, for every set of rates and every length the         *)
(* handshake may have: the estimate of rate_control.rs follows the         *)
(* samples and the window is widened again, and the keystreams of the      *)
(* encrypted handshake stay in step.                                       *)
(***************************************************************************)
EXTENDS RateControl, CryptoHandshake, TLAPS

\* The greater of two numbers, as Max of FiniteSetsExt gives it.
LEMMA MaxOfTwo ==
    ASSUME NEW x \in Int, NEW y \in Int
    PROVE  Max({x, y}) = IF x >= y THEN x ELSE y
<1> DEFINE m == IF x >= y THEN x ELSE y
<1>1. m \in {x, y} /\ \A z \in {x, y} : m >= z
  OBVIOUS
<1>2. ASSUME NEW n \in {x, y}, \A z \in {x, y} : n >= z PROVE n = m
  BY <1>2
<1> HIDE DEF m
<1>3. Max({x, y}) = m
  BY <1>1, <1>2, Zenon DEF Max
<1> QED BY <1>3, Zenon DEF m

\* The smaller of two numbers.
LEMMA MinOfTwo ==
    ASSUME NEW x \in Int, NEW y \in Int
    PROVE  Min({x, y}) = IF x <= y THEN x ELSE y
<1> DEFINE m == IF x <= y THEN x ELSE y
<1>1. m \in {x, y} /\ \A z \in {x, y} : m <= z
  OBVIOUS
<1>2. ASSUME NEW n \in {x, y}, \A z \in {x, y} : n <= z PROVE n = m
  BY <1>2
<1> HIDE DEF m
<1>3. Min({x, y}) = m
  BY <1>1, <1>2, Zenon DEF Min
<1> QED BY <1>3, Zenon DEF m

-----------------------------------------------------------------------------
(* win_minmax *)

\* A place of the window: the age of a sample, and the sample.
Slot == [t : Nat, v : Nat]
Slots == [1 .. 3 -> Slot]

\* What the places w hold of the samples r, the newest first.
Window(w, r) ==
    /\ w[3].t <= w[2].t /\ w[2].t <= w[1].t /\ w[1].t < Len(r)
    /\ \A i \in 1 .. 3 : r[w[i].t + 1] = w[i].v
    /\ \A j \in 1 .. Len(r) : j <= 3 => r[j] <= w[1].v
    /\ w[1].t = 2 => w[2].t <= 1 /\ r[1] <= w[2].v
    /\ w[1].t = 3 => w[2].t <= 2 /\ r[1] <= w[2].v /\ r[2] <= w[2].v
    /\ w[1].t >= 2 => w[3].t = 0 \/ w[3].t < w[2].t
    /\ w[1].t = 3 /\ w[2].t = 2 => r[1] <= w[3].v

\* The window holds what win_minmax keeps of the samples since the connection was made.
Samples ==
    /\ recent \in Seq(Nat) /\ Len(recent) <= 4 /\ s \in Slots
    /\ IF recent = <<>> THEN s = AllThree(0, 0) ELSE Window(s, recent)

\* The samples after one more.
Pushed(r, x) == SubSeq(<<x>> \o r, 1, Min({Len(r) + 1, CYCLES + 1}))

\* One more sample in front of at most four: the oldest goes when there are four.
LEMMA PushedIs ==
    ASSUME NEW r \in Seq(Nat), Len(r) <= 4, NEW x \in Nat
    PROVE  /\ Pushed(r, x) \in Seq(Nat) /\ Len(Pushed(r, x)) <= 4 /\ Pushed(r, x) # <<>>
           /\ Len(Pushed(r, x)) = IF Len(r) = 4 THEN 4 ELSE Len(r) + 1
           /\ Pushed(r, x)[1] = x
           /\ \A j \in 1 .. Len(r) : j < 4 => Pushed(r, x)[j + 1] = r[j]
<1> DEFINE n == IF Len(r) = 4 THEN 4 ELSE Len(r) + 1
           q == <<x>> \o r
<1>0. Len(r) + 1 \in Int /\ 4 \in Int /\ {Len(r) + 1, CYCLES + 1} = {Len(r) + 1, 4}
  BY DEF CYCLES
<1>a. Min({Len(r) + 1, 4}) = IF Len(r) + 1 <= 4 THEN Len(r) + 1 ELSE 4
  BY <1>0, MinOfTwo, Zenon
<1>1. Min({Len(r) + 1, CYCLES + 1}) = n /\ n \in 1 .. 4 /\ n <= Len(r) + 1
  <2>0. \A k \in Nat : k <= 4 =>
          LET m == IF k = 4 THEN 4 ELSE k + 1
          IN  (IF k + 1 <= 4 THEN k + 1 ELSE 4) = m /\ m \in 1 .. 4 /\ m <= k + 1
    OBVIOUS
  <2>1. Len(r) \in Nat /\ Len(r) <= 4
    OBVIOUS
  <2>2. (IF Len(r) + 1 <= 4 THEN Len(r) + 1 ELSE 4) = n
    BY <2>0, <2>1, Zenon
  <2>3. Min({Len(r) + 1, CYCLES + 1}) = n
    BY <1>0, <1>a, <2>2, Zenon
  <2>4. n \in 1 .. 4 /\ n <= Len(r) + 1
    BY <2>0, <2>1, Zenon
  <2> QED BY <2>3, <2>4, Zenon
<1>2. q \in Seq(Nat) /\ Len(q) = Len(r) + 1 /\ q[1] = x /\ \A j \in 1 .. Len(r) : q[j + 1] = r[j]
  OBVIOUS
<1>3. Pushed(r, x) = SubSeq(q, 1, n)
  BY <1>1, Zenon DEF Pushed
<1> HIDE DEF q
<1>4. /\ SubSeq(q, 1, n) \in Seq(Nat) /\ Len(SubSeq(q, 1, n)) = n
      /\ \A j \in 1 .. n : SubSeq(q, 1, n)[j] = q[j]
  BY <1>1, <1>2, SMTT(30)
<1> DEFINE z == SubSeq(q, 1, n)
<1> HIDE DEF z
<1>5. /\ z \in Seq(Nat) /\ Len(z) = n /\ \A j \in 1 .. n : z[j] = q[j]
  BY <1>4, Zenon DEF z
<1>6. z # <<>>
  BY <1>1, <1>5
<1>7. \A j \in 1 .. Len(r) : j < 4 => z[j + 1] = r[j]
  <2> SUFFICES ASSUME NEW j \in 1 .. Len(r), j < 4 PROVE z[j + 1] = r[j]
    BY Zenon
  <2>1. j + 1 \in 1 .. n
    BY <1>1
  <2> QED BY <2>1, <1>2, <1>5, Zenon
<1>8. z[1] = x
  BY <1>1, <1>2, <1>5
<1>9. Pushed(r, x) = z
  BY <1>3, Zenon DEF z
<1> HIDE DEF n
<1> QED BY <1>1, <1>5, <1>6, <1>7, <1>8, <1>9, SMTT(30) DEF n

\* The three places after one more sample.
LEMMA PlacesAfter ==
    ASSUME NEW w \in Slots, NEW x \in Nat
    PROVE  LET u == running_max(Older(w), CYCLES, x)
               val == [t |-> 0, v |-> x]
               old(i) == [t |-> w[i].t + 1, v |-> w[i].v]
           IN  /\ x >= w[1].v => u = <<val, val, val>>
               /\ x < w[1].v /\ w[3].t <= 2 /\ w[1].t >= 3 /\ w[2].t <= 2 =>
                      u = IF x >= w[2].v THEN <<val, val, val>>
                          ELSE IF x >= w[3].v THEN <<old(2), val, val>>
                          ELSE <<old(2), old(3), val>>
               /\ x < w[1].v /\ w[3].t <= 2 /\ w[1].t <= 2 =>
                      u = IF x >= w[2].v \/ w[2].t = w[1].t THEN <<old(1), val, val>>
                          ELSE IF x >= w[3].v \/ (w[3].t = w[2].t /\ w[1].t > 0)
                          THEN <<old(1), old(2), val>>
                          ELSE <<old(1), old(2), old(3)>>
<1> DEFINE val == [t |-> 0, v |-> x]
           old(i) == [t |-> w[i].t + 1, v |-> w[i].v]
           o1 == old(1)  o2 == old(2)  o3 == old(3)
           u == running_max(Older(w), CYCLES, x)
<1>1. Older(w) = <<o1, o2, o3>>
  BY DEF Older, Slots, Slot
<1>2. CYCLES = 3
  BY Zenon DEF CYCLES
<1>3. \A i \in 1 .. 3 : w[i].t \in Nat /\ w[i].v \in Nat
  BY Zenon DEF Slots, Slot
<1>4. /\ o1.t = w[1].t + 1 /\ o2.t = w[2].t + 1 /\ o3.t = w[3].t + 1
      /\ o1.v = w[1].v /\ o2.v = w[2].v /\ o3.v = w[3].v /\ val.t = 0 /\ val.v = x
  BY Zenon
<1>5. u = running_max(<<o1, o2, o3>>, 3, x)
  BY <1>1, <1>2, Zenon
<1>a. 3 \div 4 = 0 /\ 3 \div 2 = 1
  OBVIOUS
<1>b. \A i1, i2, i3 : /\ <<i1, i2, i3>>[1] = i1
                      /\ <<i1, i2, i3>>[2] = i2
                      /\ <<i1, i2, i3>>[3] = i3
  BY Zenon
<1> HIDE DEF o1, o2, o3, val, u
<1>6. o1.t \in Nat \ {0} /\ o2.t \in Nat \ {0} /\ o3.t \in Nat \ {0} /\ val.t = 0
  BY <1>3, <1>4
<1>7. x >= w[1].v => u = <<val, val, val>>
  <2>1. o1.v = w[1].v
    BY <1>4, Zenon
  <2> QED BY <2>1, <1>5, <1>b, Zenon DEF val, running_max, AllThree
<1>8. ASSUME x < w[1].v, w[3].t <= 2
      PROVE  u = subwin_update(IF x >= w[2].v THEN <<o1, val, val>>
                               ELSE IF x >= w[3].v THEN <<o1, o2, val>>
                               ELSE <<o1, o2, o3>>, 3, val)
  <2>1. ~(x >= o1.v \/ o3.t > 3)
    BY <1>3, <1>4, <1>8
  <2>2. /\ (x >= o2.v) <=> (x >= w[2].v)
        /\ (x >= o3.v) <=> (x >= w[3].v)
    BY <1>4, Zenon
  <2> QED BY <1>5, <1>b, <2>1, <2>2, Zenon DEF val, running_max
<1>9. ASSUME x < w[1].v, w[3].t <= 2, w[1].t >= 3, w[2].t <= 2
      PROVE  u = IF x >= w[2].v THEN <<val, val, val>>
                 ELSE IF x >= w[3].v THEN <<o2, val, val>> ELSE <<o2, o3, val>>
  <2>1. o1.t > 3 /\ ~(o2.t > 3) /\ ~(val.t > 3)
    BY <1>3, <1>4, <1>9
  <2>2. CASE x >= w[2].v
    <3>1. u = subwin_update(<<o1, val, val>>, 3, val)
      BY <1>8, <1>9, <2>2, Zenon
    <3> QED BY <2>1, <2>2, <3>1, <1>a, <1>b, Zenon DEF subwin_update
  <2>3. CASE ~(x >= w[2].v) /\ x >= w[3].v
    <3>1. u = subwin_update(<<o1, o2, val>>, 3, val)
      BY <1>8, <1>9, <2>3, Zenon
    <3> QED BY <2>1, <2>3, <3>1, <1>a, <1>b, Zenon DEF subwin_update
  <2>4. CASE ~(x >= w[2].v) /\ ~(x >= w[3].v)
    <3>1. u = subwin_update(<<o1, o2, o3>>, 3, val)
      BY <1>8, <1>9, <2>4, Zenon
    <3> QED BY <2>1, <2>4, <3>1, <1>a, <1>b, Zenon DEF subwin_update
  <2> QED BY <2>2, <2>3, <2>4, Zenon
<1>10. ASSUME x < w[1].v, w[3].t <= 2, w[1].t <= 2
       PROVE  u = IF x >= w[2].v \/ w[2].t = w[1].t THEN <<o1, val, val>>
                  ELSE IF x >= w[3].v \/ (w[3].t = w[2].t /\ w[1].t > 0)
                  THEN <<o1, o2, val>>
                  ELSE <<o1, o2, o3>>
  <2>1. /\ ~(o1.t > 3) /\ o1.t > 0 /\ val.t # o1.t /\ val.t # o2.t
        /\ (o2.t = o1.t) <=> (w[2].t = w[1].t)
        /\ (o3.t = o2.t) <=> (w[3].t = w[2].t)
        /\ (o1.t > 1) <=> (w[1].t > 0)
    BY <1>3, <1>4, <1>10
  <2>2. CASE x >= w[2].v
    <3>1. u = subwin_update(<<o1, val, val>>, 3, val)
      BY <1>8, <1>10, <2>2, Zenon
    <3> QED BY <2>1, <2>2, <3>1, <1>a, <1>b, Zenon DEF subwin_update
  <2>3. CASE ~(x >= w[2].v) /\ x >= w[3].v
    <3>1. u = subwin_update(<<o1, o2, val>>, 3, val)
      BY <1>8, <1>10, <2>3, Zenon
    <3> QED BY <2>1, <2>3, <3>1, <1>a, <1>b, Zenon DEF subwin_update
  <2>4. CASE ~(x >= w[2].v) /\ ~(x >= w[3].v)
    <3>1. u = subwin_update(<<o1, o2, o3>>, 3, val)
      BY <1>8, <1>10, <2>4, Zenon
    <3> QED BY <2>1, <2>4, <3>1, <1>a, <1>b, Zenon DEF subwin_update
  <2> QED BY <2>2, <2>3, <2>4, Zenon
<1> QED BY <1>7, <1>9, <1>10, Zenon DEF u, val, o1, o2, o3

\* One more sample: the places move on with the samples.
LEMMA WindowMoves ==
    ASSUME NEW w \in Slots, NEW r \in Seq(Nat), Len(r) <= 4, r # <<>>, Window(w, r), NEW x \in Nat
    PROVE  /\ running_max(Older(w), CYCLES, x) \in Slots
           /\ Window(running_max(Older(w), CYCLES, x), Pushed(r, x))
<1> DEFINE u == running_max(Older(w), CYCLES, x)
           q == Pushed(r, x)
           n == Len(r)
           val == [t |-> 0, v |-> x]
           old(i) == [t |-> w[i].t + 1, v |-> w[i].v]
           t1 == w[1].t  t2 == w[2].t  t3 == w[3].t
           v1 == w[1].v  v2 == w[2].v  v3 == w[3].v
<1>1. /\ Len(q) = (IF n = 4 THEN 4 ELSE n + 1) /\ q[1] = x
      /\ \A j \in 1 .. n : j < 4 => q[j + 1] = r[j]
  BY PushedIs, ZenonT(30)
<1>2. /\ t1 \in Nat /\ t2 \in Nat /\ t3 \in Nat /\ v1 \in Nat /\ v2 \in Nat /\ v3 \in Nat
      /\ n \in 1 .. 4
      /\ \A j \in 1 .. n : r[j] \in Nat
  <2>1. \A i \in 1 .. 3 : w[i].t \in Nat /\ w[i].v \in Nat
    BY Zenon DEF Slots, Slot
  <2>2. r[1] \in Nat /\ n \in Nat /\ n # 0
    OBVIOUS
  <2>3. \A j \in 1 .. n : r[j] \in Nat
    OBVIOUS
  <2>5. n <= 4
    BY Zenon
  <2>4. n \in 1 .. 4
    <3> HIDE DEF n
    <3> QED BY <2>2, <2>5
  <2> QED BY <2>1, <2>3, <2>4, SMTT(30)
<1>3. /\ t3 <= t2 /\ t2 <= t1 /\ t1 < n
      /\ r[t1 + 1] = v1 /\ r[t2 + 1] = v2 /\ r[t3 + 1] = v3
      /\ \A j \in 1 .. n : j <= 3 => r[j] <= v1
      /\ t1 = 2 => t2 <= 1 /\ r[1] <= v2
      /\ t1 = 3 => t2 <= 2 /\ r[1] <= v2 /\ r[2] <= v2
      /\ t1 >= 2 => t3 = 0 \/ t3 < t2
      /\ t1 = 3 /\ t2 = 2 => r[1] <= v3
  BY DEF Window
<1> SUFFICES u \in Slots /\ Window(u, q)
  BY Zenon
<1> DEFINE Fits(b1, b2, b3) ==
      /\ b3.t <= b2.t /\ b2.t <= b1.t /\ b1.t < Len(q)
      /\ q[b1.t + 1] = b1.v /\ q[b2.t + 1] = b2.v /\ q[b3.t + 1] = b3.v
      /\ \A j \in 1 .. Len(q) : j <= 3 => q[j] <= b1.v
      /\ b1.t = 2 => b2.t <= 1 /\ q[1] <= b2.v
      /\ b1.t = 3 => b2.t <= 2 /\ q[1] <= b2.v /\ q[2] <= b2.v
      /\ b1.t >= 2 => b3.t = 0 \/ b3.t < b2.t
      /\ b1.t = 3 /\ b2.t = 2 => q[1] <= b3.v
<1>4. ASSUME NEW b1 \in Slot, NEW b2 \in Slot, NEW b3 \in Slot, u = <<b1, b2, b3>>,
             Fits(b1, b2, b3)
      PROVE  u \in Slots /\ Window(u, q)
  <2>1. u[1] = b1 /\ u[2] = b2 /\ u[3] = b3
    BY <1>4
  <2>2. u \in Slots
    BY <1>4 DEF Slots
  <2>3. \A i \in 1 .. 3 : q[u[i].t + 1] = u[i].v
    BY <1>4, <2>1
  <2> QED BY <1>4, <2>1, <2>2, <2>3, Zenon DEF Window
<1>5. /\ val \in Slot /\ old(1) \in Slot /\ old(2) \in Slot /\ old(3) \in Slot
      /\ val.t = 0 /\ val.v = x
      /\ old(1).t = t1 + 1 /\ old(2).t = t2 + 1 /\ old(3).t = t3 + 1
      /\ old(1).v = v1 /\ old(2).v = v2 /\ old(3).v = v3
  <2> HIDE DEF t1, t2, t3, v1, v2, v3
  <2>1. /\ old(1) = [t |-> t1 + 1, v |-> v1]
        /\ old(2) = [t |-> t2 + 1, v |-> v2]
        /\ old(3) = [t |-> t3 + 1, v |-> v3]
    BY Zenon DEF t1, t2, t3, v1, v2, v3
  <2> HIDE DEF old
  <2> QED BY <1>2, <2>1, SMTT(30) DEF Slot
<1> DEFINE o1 == old(1)  o2 == old(2)  o3 == old(3)
<1>6. /\ x >= v1 => u = <<val, val, val>>
      /\ x < v1 /\ t3 <= 2 /\ t1 >= 3 /\ t2 <= 2 =>
             u = IF x >= v2 THEN <<val, val, val>>
                 ELSE IF x >= v3 THEN <<o2, val, val>> ELSE <<o2, o3, val>>
      /\ x < v1 /\ t3 <= 2 /\ t1 <= 2 =>
             u = IF x >= v2 \/ t2 = t1 THEN <<o1, val, val>>
                 ELSE IF x >= v3 \/ (t3 = t2 /\ t1 > 0) THEN <<o1, o2, val>>
                 ELSE <<o1, o2, o3>>
  BY PlacesAfter, Zenon
<1>7. /\ val \in Slot /\ o1 \in Slot /\ o2 \in Slot /\ o3 \in Slot
      /\ val.t = 0 /\ val.v = x
      /\ o1.t = t1 + 1 /\ o2.t = t2 + 1 /\ o3.t = t3 + 1
      /\ o1.v = v1 /\ o2.v = v2 /\ o3.v = v3
  BY <1>5, Zenon
<1>8. /\ Len(q) \in 2 .. 4 /\ Len(q) = (IF n = 4 THEN 4 ELSE n + 1)
      /\ q[1] = x /\ q[2] = r[1]
      /\ (n >= 2 => q[3] = r[2]) /\ (n >= 3 => q[4] = r[3])
      /\ (t3 <= 2 => q[t3 + 2] = v3)
      /\ (t2 <= 2 => q[t2 + 2] = v2)
      /\ (t1 <= 2 => q[t1 + 2] = v1)
  <2> HIDE DEF q, n, t1, t2, t3, v1, v2, v3
  <2>1. Len(q) \in 2 .. 4 /\ q[2] = r[1] /\ (n >= 2 => q[3] = r[2]) /\ (n >= 3 => q[4] = r[3])
    BY <1>1, <1>2
  <2>2. ASSUME NEW k \in Nat, k < n, k <= 2 PROVE q[k + 2] = r[k + 1]
    <3>1. k + 1 \in 1 .. n /\ k + 1 < 4 /\ (k + 1) + 1 = k + 2
      BY <1>2, <2>2
    <3> QED BY <1>1, <3>1, Zenon
  <2>3. t1 < n /\ t2 < n /\ t3 < n
    BY <1>2, <1>3, SMTT(30)
  <2> QED BY <1>1, <1>2, <1>3, <2>1, <2>2, <2>3, Zenon
<1> HIDE DEF q, u, n, val, old, o1, o2, o3, t1, t2, t3, v1, v2, v3
<1>a. ASSUME NEW y, q[1] <= y, q[2] <= y, n >= 2 => q[3] <= y
      PROVE  \A j \in 1 .. Len(q) : j <= 3 => q[j] <= y
  <2> SUFFICES ASSUME NEW j \in 1 .. Len(q), j <= 3 PROVE q[j] <= y
    BY Zenon
  <2>1. j = 1 \/ j = 2 \/ (j = 3 /\ n >= 2)
    BY <1>2, <1>8
  <2> QED BY <1>a, <2>1, Zenon
<1>b. r[1] <= v1 /\ (n >= 2 => r[2] <= v1) /\ (n >= 3 => r[3] <= v1)
  BY <1>2, <1>3, SMTT(30)
<1>c. /\ q[1] = x /\ q[2] = r[1] /\ (n >= 2 => q[3] = r[2])
      /\ r[1] \in Nat /\ (n >= 2 => r[2] \in Nat)
  BY <1>2, <1>8
<1>d. ASSUME NEW y, y = v1 \/ y = v2 \/ y = x, x <= y, r[1] <= y, n >= 2 => r[2] <= y
      PROVE  \A j \in 1 .. Len(q) : j <= 3 => q[j] <= y
  BY <1>a, <1>c, <1>d, Zenon
<1>9. ASSUME u = <<val, val, val>>, x >= v1 \/ (t1 = 3 /\ x >= v2)
      PROVE  u \in Slots /\ Window(u, q)
  <2>1. r[1] <= x /\ (n >= 2 => r[2] <= x)
    <3>1. CASE x >= v1
      BY <1>2, <1>b, <1>c, <3>1
    <3>2. CASE t1 = 3 /\ x >= v2
      <4>1. r[1] <= v2 /\ r[2] <= v2 /\ n = 4
        BY <1>2, <1>3, <3>2, SMTT(30)
      <4> QED BY <1>2, <1>c, <3>2, <4>1, SMTT(30)
    <3> QED BY <1>9, <3>1, <3>2, Zenon
  <2>2. Fits(val, val, val)
    <3>1. \A j \in 1 .. Len(q) : j <= 3 => q[j] <= x
      BY <1>d, <2>1, SMTT(30)
    <3> QED BY <1>7, <1>8, <3>1, SMTT(30)
  <2> HIDE DEF Fits
  <2> QED BY <1>4, <1>7, <1>9, <2>2, Zenon
<1>10. CASE x < v1 /\ t1 = 3
  <2>1. t3 <= 2 /\ t1 >= 3 /\ t2 <= 2 /\ n = 4 /\ r[1] <= v2 /\ r[2] <= v2
    BY <1>2, <1>3, <1>10, SMTT(30)
  <2>2. u = IF x >= v2 THEN <<val, val, val>>
            ELSE IF x >= v3 THEN <<o2, val, val>> ELSE <<o2, o3, val>>
    BY <1>6, <1>10, <2>1, Zenon
  <2>3. x < v2 => \A j \in 1 .. Len(q) : j <= 3 => q[j] <= v2
    <3> SUFFICES ASSUME x < v2 PROVE \A j \in 1 .. Len(q) : j <= 3 => q[j] <= v2
      BY Zenon
    <3>1. x <= v2
      BY <1>2
    <3> QED BY <1>d, <2>1, <3>1, Zenon
  <2>4. CASE x >= v2
    BY <1>9, <1>10, <2>2, <2>4, Zenon
  <2>5. CASE ~(x >= v2) /\ x >= v3
    <3>1. Fits(o2, val, val)
      BY <1>2, <1>3, <1>7, <1>8, <1>10, <2>1, <2>3, <2>5, SMTT(30)
    <3> HIDE DEF Fits
    <3> QED BY <1>4, <1>7, <2>2, <2>5, <3>1, Zenon
  <2>6. CASE ~(x >= v2) /\ ~(x >= v3)
    <3>1. Fits(o2, o3, val)
      BY <1>2, <1>3, <1>7, <1>8, <1>10, <2>1, <2>3, <2>6, SMTT(30)
    <3> HIDE DEF Fits
    <3> QED BY <1>4, <1>7, <2>2, <2>6, <3>1, Zenon
  <2> QED BY <2>4, <2>5, <2>6, Zenon
<1>11. CASE x < v1 /\ t1 <= 2
  <2>1. t3 <= 2
    BY <1>2, <1>3, <1>11
  <2>2. u = IF x >= v2 \/ t2 = t1 THEN <<o1, val, val>>
            ELSE IF x >= v3 \/ (t3 = t2 /\ t1 > 0) THEN <<o1, o2, val>>
            ELSE <<o1, o2, o3>>
    BY <1>6, <1>11, <2>1, Zenon
  <2>3. \A j \in 1 .. Len(q) : j <= 3 => q[j] <= v1
    BY <1>2, <1>b, <1>d, <1>11, SMTT(30)
  <2>4. CASE x >= v2 \/ t2 = t1
    <3>1. Fits(o1, val, val)
      <4>1. /\ o1.v = v1 /\ val.v = x /\ val.t = 0 /\ q[1] = x /\ q[2] = r[1]
            /\ o1.t = t1 + 1 /\ o1.t < Len(q) /\ q[o1.t + 1] = v1
        BY <1>2, <1>3, <1>7, <1>8, <1>11, SMTT(30)
      <4>2. t1 = 2 => r[1] <= x
        BY <1>2, <1>3, <1>c, <2>4
      <4> QED BY <1>2, <1>11, <2>3, <4>1, <4>2
    <3> HIDE DEF Fits
    <3> QED BY <1>4, <1>7, <2>2, <2>4, <3>1, Zenon
  <2>5. CASE ~(x >= v2 \/ t2 = t1) /\ (x >= v3 \/ (t3 = t2 /\ t1 > 0))
    <3>1. Fits(o1, o2, val)
      BY <1>2, <1>3, <1>7, <1>8, <1>11, <2>3, <2>5, SMTT(30)
    <3> HIDE DEF Fits
    <3> QED BY <1>4, <1>7, <2>2, <2>5, <3>1, Zenon
  <2>6. CASE ~(x >= v2 \/ t2 = t1) /\ ~(x >= v3 \/ (t3 = t2 /\ t1 > 0))
    <3>1. Fits(o1, o2, o3)
      BY <1>2, <1>3, <1>7, <1>8, <1>11, <2>3, <2>6, SMTT(30)
    <3> HIDE DEF Fits
    <3> QED BY <1>4, <1>7, <2>2, <2>6, <3>1, Zenon
  <2> QED BY <2>4, <2>5, <2>6, Zenon
<1>12. x >= v1 \/ (x < v1 /\ t1 = 3) \/ (x < v1 /\ t1 <= 2)
  BY <1>2, <1>3, SMTT(30)
<1>13. CASE x >= v1
  BY <1>6, <1>9, <1>13, Zenon
<1> QED BY <1>10, <1>11, <1>12, <1>13, Zenon

\* The constants of rate_control.rs, in units of 1/256.
LEMMA Consts ==
    /\ UNIT = 256 /\ CWND_HIGHT_GAIN = 320 /\ CWND_LOW_GAIN = 204 /\ STARTUP_GAIN = 384
    /\ BW_UP_THRESH = 320 /\ BW_UP_KEEP_THRESH = 281 /\ BW_DOWN_THRESH = 204
    /\ MAX_GAIN_KEEP_RATE = 170 /\ CYCLES = 3 /\ MIN_CWND = 4 /\ MAX_CWND = 25
BY DEF UNIT, CWND_HIGHT_GAIN, CWND_LOW_GAIN, STARTUP_GAIN, BW_UP_THRESH, BW_UP_KEEP_THRESH,
       BW_DOWN_THRESH, MAX_GAIN_KEEP_RATE, CYCLES, MIN_CWND, MAX_CWND

-----------------------------------------------------------------------------
(* update_gain and check_full_bw *)

\* The gains.
Gain == {256, 320, 204, 384}

\* The counters of a link.
ProbeType ==
    [gain : Gain, high_cnt : 0 .. 3, high : BOOLEAN, low_cnt : 0 .. 3, normal_cnt : 0 .. 3,
     full : Nat, full_cnt : 0 .. 3, keep : 0 .. 3, reached : BOOLEAN, last_high : Nat,
     valid : 0 .. 3, startup : BOOLEAN]

\* What update_gain and check_full_bw keep of the counters between samples.
ProbeOK(p) ==
    /\ p \in ProbeType
    /\ p.high = FALSE /\ p.low_cnt <= 2 /\ p.valid <= 2
    /\ p.high_cnt > 0 => p.normal_cnt = 0 /\ p.valid <= 1
    /\ p.reached => p.keep = 0
    /\ ~p.reached => p.full_cnt <= 2

\* The fields that check_full_bw leaves alone.
SameGain(f, p) ==
    /\ f.high_cnt = p.high_cnt /\ f.high = p.high /\ f.low_cnt = p.low_cnt
    /\ f.normal_cnt = p.normal_cnt /\ f.valid = p.valid
    /\ f.last_high = p.last_high /\ f.gain = p.gain

\* ... and those that update_gain does.
SameFill(g, f) ==
    /\ g.full = f.full /\ g.full_cnt = f.full_cnt /\ g.keep = f.keep /\ g.reached = f.reached
    /\ g.startup = f.startup

\* What check_full_bw makes of p while the link is not full.
FilledUp(f, p, x) ==
    /\ f \in ProbeType /\ SameGain(f, p)
    /\ p.keep > 0 => /\ f.reached = FALSE /\ f.keep = p.keep - 1
                     /\ f.startup = (p.keep = 1) /\ f.full_cnt = p.full_cnt
    /\ p.keep = 0 /\ x * 256 > p.full * 320 =>
           /\ f.reached = FALSE /\ f.keep = 3 /\ f.startup = FALSE /\ f.full_cnt = 0
           /\ f.full = x
    /\ p.keep = 0 /\ ~(x * 256 > p.full * 320) =>
           /\ f.reached = (p.full_cnt = 2) /\ f.keep = 0 /\ f.startup = FALSE
           /\ f.full_cnt = p.full_cnt + 1 /\ f.full = p.full

\* check_full_bw on a link that is not full yet.
LEMMA FillIs ==
    ASSUME NEW p \in ProbeType, NEW x \in Nat, p.reached = FALSE,
           p.full_cnt <= 2 \/ (p.keep = 0 /\ p.full = 0 /\ x > 0)
    PROVE  FilledUp(FillLink(p, x), p, x)
<1> DEFINE f == FillLink(p, x)
<1>1. /\ p.full \in Nat /\ p.full_cnt \in 0 .. 3 /\ p.keep \in 0 .. 3
  BY Zenon DEF ProbeType
<1>0. 3 \in 0 .. 3 /\ 0 \in 0 .. 3 /\ \A k \in 0 .. 3 : k > 0 => k - 1 \in 0 .. 3
  OBVIOUS
<1>2. CASE p.keep > 0
  <2> DEFINE m == Max({p.full, x})
  <2>1. m \in Nat
    BY <1>1, MaxOfTwo
  <2>2. f = [p EXCEPT !.keep = p.keep - 1, !.full = m, !.startup = p.keep = 1]
    BY <1>1, <1>2, Zenon DEF FillLink
  <2> HIDE DEF m, f
  <2>3. /\ f.reached = FALSE /\ f.keep = p.keep - 1 /\ f.startup = (p.keep = 1)
        /\ f.full_cnt = p.full_cnt
    BY <1>1, <2>2, Zenon DEF ProbeType
  <2>4. SameGain(f, p)
    BY <1>1, <2>2, Zenon DEF ProbeType, SameGain
  <2>5. f \in ProbeType
    BY <1>0, <1>1, <1>2, <2>1, <2>2, Zenon DEF ProbeType
  <2> QED BY <1>1, <1>2, <2>3, <2>4, <2>5 DEF f, FilledUp
<1>3. CASE p.keep = 0 /\ x * 256 > p.full * 320
  <2>2. f = [p EXCEPT !.startup = FALSE, !.keep = 3, !.full_cnt = 0, !.full = x]
    BY <1>1, <1>3, Consts DEF FillLink
  <2> HIDE DEF f, FilledUp
  <2>3. /\ f.reached = FALSE /\ f.keep = 3 /\ f.startup = FALSE /\ f.full_cnt = 0 /\ f.full = x
    BY <1>1, <2>2, Zenon DEF ProbeType
  <2>4. SameGain(f, p)
    BY <1>1, <2>2, Zenon DEF ProbeType, SameGain
  <2>5. f \in ProbeType
    BY <1>0, <2>2, Zenon DEF ProbeType
  <2> QED BY <1>1, <1>3, <2>3, <2>4, <2>5 DEF f, FilledUp
<1>4. CASE p.keep = 0 /\ ~(x * 256 > p.full * 320)
  <2> DEFINE n == Min({p.full_cnt + 1, 3})
             done == p.full_cnt + 1 >= 3
  <2>0. p.full_cnt <= 2
    BY <1>1, <1>4
  <2>1. n = p.full_cnt + 1 /\ n \in 0 .. 3 /\ done = (p.full_cnt = 2) /\ done \in BOOLEAN
    BY <1>1, <2>0, MinOfTwo
  <2>2. f = [p EXCEPT !.startup = FALSE, !.full_cnt = n, !.reached = done]
    BY <1>1, <1>4, Consts DEF FillLink
  <2> HIDE DEF n, done, f
  <2>3. /\ f.reached = done /\ f.keep = 0 /\ f.startup = FALSE /\ f.full_cnt = n
        /\ f.full = p.full
    BY <1>1, <1>4, <2>2 DEF ProbeType
  <2>4. SameGain(f, p)
    BY <1>1, <2>2, Zenon DEF ProbeType, SameGain
  <2>5. f \in ProbeType
    BY <1>1, <2>1, <2>2, ZenonT(30) DEF ProbeType
  <2> QED BY <1>1, <1>4, <2>1, <2>3, <2>4, <2>5 DEF f, FilledUp
<1> QED BY <1>1, <1>2, <1>3, <1>4

\* What the exploration under way makes of f.
Explored(e, f) ==
    /\ e \in ProbeType /\ SameFill(e, f) /\ e.low_cnt = f.low_cnt /\ e.normal_cnt = f.normal_cnt
    /\ f.high_cnt = 0 => e = f
    /\ f.high_cnt > 0 =>
           /\ e.gain = 256
           /\ \/ e.high_cnt = 0 /\ e.high = FALSE /\ e.valid <= 2
              \/ f.high_cnt = 1 /\ e.high_cnt = 0 /\ e.high = TRUE /\ e.valid <= 1
              \/ f.high_cnt > 1 /\ e.high_cnt = f.high_cnt - 1 /\ e.high = FALSE /\ e.valid <= 1

\* The part of update_gain that judges an exploration under way.
LEMMA ExploreIs ==
    ASSUME NEW f \in ProbeType, NEW x \in Nat, f.high = FALSE, f.high_cnt > 0 => f.valid <= 1
    PROVE  Explored(Explore(f, x), f)
<1> DEFINE hit == x * UNIT >= f.last_high * BW_UP_KEEP_THRESH
           v == IF hit THEN f.valid + 1 ELSE f.valid
           kept == v * UNIT >= CYCLES * MAX_GAIN_KEEP_RATE
           h == IF kept THEN 0 ELSE f.high_cnt - 1
           bw == IF kept THEN f.high ELSE f.high_cnt = 1
           e == Explore(f, x)
<1>1. f.valid \in 0 .. 3 /\ f.high_cnt \in 0 .. 3 /\ f.high \in BOOLEAN
  BY Zenon DEF ProbeType
<1>2. CASE f.high_cnt = 0
  <2>1. e = f
    BY <1>2, Zenon DEF Explore
  <2> HIDE DEF e
  <2>2. f.high_cnt > 0 <=> FALSE
    BY <1>1, <1>2
  <2> QED BY <1>2, <2>1, <2>2, Zenon DEF Explored, SameFill, e
<1>3. CASE f.high_cnt > 0
  <2>1. e = [f EXCEPT !.gain = UNIT, !.valid = v, !.high_cnt = h, !.high = bw]
    BY <1>1, <1>3 DEF Explore
  <2>2. v = f.valid \/ v = f.valid + 1
    BY Zenon
  <2> HIDE DEF hit, v
  <2>3. v \in 0 .. 2 /\ (kept \/ v <= 1)
    BY <1>1, <1>3, <2>2, Consts
  <2> HIDE DEF kept
  <2>4. \/ h = 0 /\ bw = FALSE
        \/ f.high_cnt = 1 /\ h = 0 /\ bw = TRUE /\ v <= 1
        \/ f.high_cnt > 1 /\ h = f.high_cnt - 1 /\ bw = FALSE /\ v <= 1
    BY <1>1, <1>3, <2>3
  <2>5. h \in 0 .. 3 /\ v \in 0 .. 3 /\ UNIT \in Gain
    BY <1>1, <1>3, <2>3, Consts DEF Gain
  <2>a. bw \in BOOLEAN
    BY <1>1, Zenon
  <2>b. UNIT = 256 /\ v <= 2
    BY <2>3, Consts
  <2> HIDE DEF h, bw, e
  <2>6. e \in ProbeType
    BY <2>1, <2>5, <2>a, Zenon DEF ProbeType
  <2>7. /\ SameFill(e, f) /\ e.low_cnt = f.low_cnt /\ e.normal_cnt = f.normal_cnt
        /\ e.gain = UNIT /\ e.valid = v /\ e.high_cnt = h /\ e.high = bw
    BY <2>1, Zenon DEF ProbeType, SameFill
  <2>8. f.high_cnt # 0
    BY <1>1, <1>3
  <2> QED BY <1>3, <2>4, <2>b, <2>6, <2>7, <2>8 DEF Explored, e
<1> QED BY <1>1, <1>2, <1>3

\* What the low samples make of e.
Lowered(l, e, x, o) ==
    /\ l \in ProbeType /\ SameFill(l, e) /\ l.normal_cnt = e.normal_cnt /\ l.valid = e.valid
    /\ l.high_cnt = e.high_cnt /\ l.high = e.high
    /\ l.gain = e.gain \/ l.gain = 256
    /\ x > 0 /\ x = o => l.low_cnt = e.low_cnt

\* The part of update_gain that counts low samples.
LEMMA CountLowIs ==
    ASSUME NEW e \in ProbeType, NEW x \in Nat, NEW o \in Nat, e.low_cnt <= 2
    PROVE  Lowered(CountLow(e, x, o), e, x, o)
<1> DEFINE l == CountLow(e, x, o)
<1>1. e.low_cnt \in 0 .. 3 /\ e.low_cnt + 1 \in 0 .. 3 /\ UNIT \in Gain
  BY Consts DEF ProbeType, Gain
<1>a. UNIT = 256
  BY Consts, Zenon
<1>2. CASE x * UNIT <= o * BW_DOWN_THRESH
  <2>1. l = [e EXCEPT !.low_cnt = e.low_cnt + 1, !.gain = UNIT]
    BY <1>2, Zenon DEF CountLow
  <2>2. ~(x > 0 /\ x = o)
    BY <1>2, Consts
  <2> HIDE DEF l
  <2>3. l \in ProbeType
    BY <1>1, <2>1, Zenon DEF ProbeType
  <2>4. /\ SameFill(l, e) /\ l.normal_cnt = e.normal_cnt /\ l.valid = e.valid
        /\ l.high_cnt = e.high_cnt /\ l.high = e.high /\ l.gain = UNIT
    BY <2>1, Zenon DEF ProbeType, SameFill
  <2> QED BY <1>a, <2>2, <2>3, <2>4, ZenonT(60) DEF Lowered, l
<1>3. CASE ~(x * UNIT <= o * BW_DOWN_THRESH)
  <2>1. l = e
    BY <1>3, Zenon DEF CountLow
  <2> HIDE DEF l
  <2> QED BY <2>1, Zenon DEF Lowered, SameFill, l
<1> QED BY <1>2, <1>3, Zenon

\* What update_gain decides.
Decided(g, l) ==
    /\ g \in ProbeType /\ SameFill(g, l)
    /\ l.normal_cnt >= 3 =>
           /\ g.gain = 320 /\ g.low_cnt = 0 /\ g.normal_cnt = 0 /\ g.valid = 0 /\ g.high_cnt = 3
           /\ g.high = l.high
    /\ l.normal_cnt < 3 /\ (l.high \/ l.low_cnt >= 3) =>
           /\ g.gain = 204 /\ g.low_cnt = 0 /\ g.normal_cnt = 0 /\ g.valid = l.valid
           /\ g.high_cnt = l.high_cnt /\ g.high = FALSE
    /\ l.normal_cnt < 3 /\ ~l.high /\ l.low_cnt < 3 /\ l.high_cnt = 0 =>
           /\ g.gain = 256 /\ g.low_cnt = l.low_cnt /\ g.normal_cnt = l.normal_cnt + 1
           /\ g.valid = l.valid /\ g.high_cnt = 0 /\ g.high = l.high
    /\ l.normal_cnt < 3 /\ ~l.high /\ l.low_cnt < 3 /\ l.high_cnt > 0 => g = l

\* The part of update_gain that chooses the next gain.
LEMMA DecideIs ==
    ASSUME NEW l \in ProbeType, NEW o \in Nat
    PROVE  Decided(Decide(l, o), l)
<1> DEFINE g == Decide(l, o)
<1>1. /\ l.normal_cnt \in 0 .. 3 /\ l.low_cnt \in 0 .. 3 /\ l.high_cnt \in 0 .. 3
      /\ l.high \in BOOLEAN
  BY Zenon DEF ProbeType
<1>2. /\ CWND_HIGHT_GAIN \in Gain /\ CWND_LOW_GAIN \in Gain /\ UNIT \in Gain
      /\ 0 \in 0 .. 3 /\ CYCLES \in 0 .. 3
  BY Consts DEF Gain
<1>a. CYCLES = 3 /\ CWND_HIGHT_GAIN = 320 /\ CWND_LOW_GAIN = 204 /\ UNIT = 256
  BY Consts, Zenon
<1>3. CASE l.normal_cnt >= 3
  <2>1. g = [l EXCEPT !.low_cnt = 0, !.normal_cnt = 0, !.valid = 0, !.gain = CWND_HIGHT_GAIN,
                      !.high_cnt = CYCLES, !.last_high = o]
    BY <1>a, <1>3, Zenon DEF Decide
  <2> HIDE DEF g
  <2>2. g \in ProbeType
    BY <1>2, <2>1, Zenon DEF ProbeType
  <2>3. /\ SameFill(g, l)
        /\ g.gain = CWND_HIGHT_GAIN /\ g.low_cnt = 0 /\ g.normal_cnt = 0 /\ g.valid = 0 /\ g.high_cnt = CYCLES
        /\ g.high = l.high
    BY <2>1, Zenon DEF ProbeType, SameFill
  <2>4. ~(l.normal_cnt < 3)
    BY <1>1, <1>3
  <2> QED BY <2>2, <2>3, <2>4, <1>a, ZenonT(60) DEF Decided, g
<1>4. CASE l.normal_cnt < 3 /\ (l.high \/ l.low_cnt >= 3)
  <2>0. ~(l.normal_cnt >= 3) /\ ~(~l.high /\ l.low_cnt < 3)
    BY <1>1, <1>4
  <2>1. g = [l EXCEPT !.low_cnt = 0, !.normal_cnt = 0, !.high = FALSE, !.gain = CWND_LOW_GAIN]
    BY <1>a, <1>4, <2>0, Zenon DEF Decide
  <2> HIDE DEF g
  <2>2. g \in ProbeType
    BY <1>2, <2>1, Zenon DEF ProbeType
  <2>3. /\ SameFill(g, l)
        /\ g.gain = CWND_LOW_GAIN /\ g.low_cnt = 0 /\ g.normal_cnt = 0 /\ g.valid = l.valid
        /\ g.high_cnt = l.high_cnt /\ g.high = FALSE
    BY <2>1, Zenon DEF ProbeType, SameFill
  <2> QED BY <2>0, <2>2, <2>3, <1>a, Zenon DEF Decided, g
<1>5. CASE l.normal_cnt < 3 /\ ~l.high /\ l.low_cnt < 3 /\ l.high_cnt = 0
  <2>0. /\ ~(l.normal_cnt >= 3) /\ ~(l.low_cnt >= 3) /\ ~(l.high_cnt > 0)
        /\ l.normal_cnt + 1 \in 0 .. 3
    BY <1>1, <1>5
  <2>1. g = [l EXCEPT !.normal_cnt = l.normal_cnt + 1, !.gain = UNIT]
    BY <1>a, <1>5, <2>0, Zenon DEF Decide
  <2> HIDE DEF g
  <2>2. g \in ProbeType
    BY <1>2, <2>0, <2>1, Zenon DEF ProbeType
  <2>3. /\ SameFill(g, l)
        /\ g.gain = UNIT /\ g.low_cnt = l.low_cnt /\ g.normal_cnt = l.normal_cnt + 1
        /\ g.valid = l.valid /\ g.high_cnt = l.high_cnt /\ g.high = l.high
    BY <2>1, Zenon DEF ProbeType, SameFill
  <2> QED BY <1>5, <2>0, <2>2, <2>3, <1>a, ZenonT(60) DEF Decided, g
<1>6. CASE l.normal_cnt < 3 /\ ~l.high /\ l.low_cnt < 3 /\ l.high_cnt > 0
  <2>0. ~(l.normal_cnt >= 3) /\ ~(l.low_cnt >= 3) /\ ~(l.high_cnt = 0)
    BY <1>1, <1>6
  <2>1. g = l
    BY <1>a, <1>6, <2>0, Zenon DEF Decide
  <2> HIDE DEF g
  <2> QED BY <1>6, <2>0, <2>1, Zenon DEF Decided, SameFill, g
<1> QED BY <1>1, <1>3, <1>4, <1>5, <1>6

\* The reached branch of update_gain, whole.
Geared(g, f, x, o) ==
    /\ ProbeOK(g) /\ SameFill(g, f)
    /\ g.gain # 320 /\ x > 0 /\ x = o =>
           \/ g.gain = 204 /\ g.high_cnt = 0 /\ f.high_cnt = 1 /\ g.normal_cnt = 0
           \/ g.gain = 256 /\ g.high_cnt = 0 /\ f.high_cnt > 0 /\ g.normal_cnt = 1
           \/ g.gain = 256 /\ g.high_cnt = 0 /\ f.high_cnt = 0 /\ g.normal_cnt = f.normal_cnt + 1
           \/ g.gain = 256 /\ f.high_cnt > 1 /\ g.high_cnt = f.high_cnt - 1

\* update_gain on a full link: the counters keep their ranges, and on a steady rate one
\* of four things happens to them unless the window is widened.
LEMMA GearedIs ==
    ASSUME NEW f, ProbeOK(f), f.reached, NEW x \in Nat, NEW o \in Nat
    PROVE  Geared(Decide(CountLow(Explore(f, x), x, o), o), f, x, o)
<1> DEFINE e == Explore(f, x)
           l == CountLow(e, x, o)
           g == Decide(l, o)
<1>1. Explored(e, f) /\ f \in ProbeType
  BY ExploreIs, Zenon DEF ProbeOK
<1>2. e \in ProbeType /\ e.low_cnt = f.low_cnt /\ e.low_cnt <= 2
  BY <1>1, Zenon DEF Explored, ProbeOK
<1> HIDE DEF e
<1>3. Lowered(l, e, x, o) /\ l \in ProbeType
  BY <1>2, CountLowIs, SMTT(30) DEF Lowered
<1> HIDE DEF l
<1>4. Decided(g, l)
  BY <1>3, DecideIs, Zenon
<1> HIDE DEF g
<1>5. SameFill(g, f)
  BY <1>1, <1>3, <1>4, SMTT(30) DEF Explored, Lowered, Decided, SameFill
<1>6. /\ f.high_cnt \in 0 .. 3 /\ f.normal_cnt \in 0 .. 3 /\ f.valid \in 0 .. 3
      /\ f.high = FALSE /\ f.low_cnt \in 0 .. 2 /\ f.valid <= 2
      /\ f.high_cnt > 0 => f.normal_cnt = 0 /\ f.valid <= 1
  BY <1>1, SMTT(30) DEF ProbeOK, ProbeType
<1>7. /\ l.high_cnt \in 0 .. 3 /\ l.low_cnt \in 0 .. 3 /\ l.normal_cnt = f.normal_cnt
      /\ l.valid \in 0 .. 3 /\ (x > 0 /\ x = o => l.low_cnt = f.low_cnt)
  BY <1>1, <1>3 DEF Explored, Lowered, ProbeType
<1>8. \/ f.high_cnt = 0 /\ l.high_cnt = 0 /\ l.high = FALSE /\ l.valid = f.valid
      \/ f.high_cnt > 0 /\ l.gain = 256 /\ l.high_cnt = 0 /\ l.high = FALSE /\ l.valid <= 2
      \/ f.high_cnt = 1 /\ l.gain = 256 /\ l.high_cnt = 0 /\ l.high = TRUE /\ l.valid <= 1
      \/ /\ f.high_cnt > 1 /\ l.gain = 256 /\ l.high_cnt = f.high_cnt - 1 /\ l.high = FALSE
         /\ l.valid <= 1
  <2>1. /\ l.high_cnt = e.high_cnt /\ l.high = e.high /\ l.valid = e.valid
        /\ l.gain = e.gain \/ l.gain = 256
    BY <1>3, Zenon DEF Lowered
  <2>2. CASE f.high_cnt = 0
    <3>1. e.high_cnt = f.high_cnt /\ e.high = f.high /\ e.valid = f.valid
      BY <1>1, <2>2, Zenon DEF Explored
    <3> QED BY <1>6, <2>1, <2>2, <3>1, ZenonT(30)
  <2>3. CASE f.high_cnt > 0
    <3>1. /\ e.gain = 256
          /\ \/ e.high_cnt = 0 /\ e.high = FALSE /\ e.valid <= 2
             \/ f.high_cnt = 1 /\ e.high_cnt = 0 /\ e.high = TRUE /\ e.valid <= 1
             \/ f.high_cnt > 1 /\ e.high_cnt = f.high_cnt - 1 /\ e.high = FALSE /\ e.valid <= 1
      BY <1>1, <2>3, Zenon DEF Explored
    <3> QED BY <2>1, <2>3, <3>1
  <2>4. f.high_cnt = 0 \/ f.high_cnt > 0
    BY <1>6, SMTT(30)
  <2> QED BY <2>2, <2>3, <2>4, Zenon
<1> DEFINE N == /\ g.high = FALSE /\ g.low_cnt <= 2 /\ g.valid <= 2
                /\ g.high_cnt > 0 => g.normal_cnt = 0 /\ g.valid <= 1
           M == g.gain # 320 /\ x > 0 /\ x = o =>
             \/ g.gain = 204 /\ g.high_cnt = 0 /\ f.high_cnt = 1 /\ g.normal_cnt = 0
             \/ g.gain = 256 /\ g.high_cnt = 0 /\ f.high_cnt > 0 /\ g.normal_cnt = 1
             \/ g.gain = 256 /\ g.high_cnt = 0 /\ f.high_cnt = 0 /\ g.normal_cnt = f.normal_cnt + 1
             \/ g.gain = 256 /\ f.high_cnt > 1 /\ g.high_cnt = f.high_cnt - 1
<1>9. ASSUME l.normal_cnt >= 3 PROVE N /\ M
  <2>1. /\ g.gain = 320 /\ g.low_cnt = 0 /\ g.normal_cnt = 0 /\ g.valid = 0 /\ g.high_cnt = 3
        /\ g.high = l.high
    BY <1>4, <1>9, Zenon DEF Decided
  <2> QED BY <1>6, <1>7, <1>8, <1>9, <2>1, SMTT(30)
<1>10. ASSUME l.normal_cnt < 3 /\ (l.high \/ l.low_cnt >= 3) PROVE N /\ M
  <2>1. /\ g.gain = 204 /\ g.low_cnt = 0 /\ g.normal_cnt = 0 /\ g.valid = l.valid
        /\ g.high_cnt = l.high_cnt /\ g.high = FALSE
    BY <1>4, <1>10, Zenon DEF Decided
  <2>2. N
    BY <1>6, <1>7, <1>8, <2>1, SMTT(30)
  <2>3. M
    BY <1>6, <1>7, <1>8, <1>10, <2>1, SMTT(30)
  <2> QED BY <2>2, <2>3, Zenon
<1>11. ASSUME l.normal_cnt < 3 /\ ~l.high /\ l.low_cnt < 3 /\ l.high_cnt = 0 PROVE N /\ M
  <2>1. /\ g.gain = 256 /\ g.low_cnt = l.low_cnt /\ g.normal_cnt = l.normal_cnt + 1
        /\ g.valid = l.valid /\ g.high_cnt = 0 /\ g.high = l.high
    BY <1>4, <1>11, Zenon DEF Decided
  <2> QED BY <1>6, <1>7, <1>8, <1>11, <2>1, SMTT(30)
<1>12. ASSUME l.normal_cnt < 3 /\ ~l.high /\ l.low_cnt < 3 /\ l.high_cnt > 0 PROVE N /\ M
  <2>1. g = l
    BY <1>4, <1>12, Zenon DEF Decided
  <2> QED BY <1>6, <1>7, <1>8, <1>12, <2>1
<1>13. N /\ M
  <2> HIDE DEF N, M
  <2>1. l.high \in BOOLEAN
    BY <1>3, Zenon DEF ProbeType
  <2> QED BY <1>6, <1>7, <1>9, <1>10, <1>11, <1>12, <2>1
<1>14. ProbeOK(g)
  BY <1>4, <1>5, <1>13, ZenonT(60) DEF ProbeOK, Decided, SameFill
<1> QED BY <1>5, <1>13, <1>14, Zenon DEF Geared, g, l, e

\* What check_full_bw makes of p.
Checked(f, p, m) ==
    /\ ProbeOK(f) /\ SameGain(f, p)
    /\ ~p.reached => FilledUp(f, p, m)
    /\ p.reached /\ FallenBehind(p, m) => f.reached = FALSE /\ f.keep = 3 /\ f.startup = FALSE
    /\ p.reached /\ ~FallenBehind(p, m) => f = p

\* check_full_bw as a whole.
LEMMA CheckedIs ==
    ASSUME NEW p, ProbeOK(p), NEW m \in Nat, m > 0
    PROVE  Checked(check_full_bw(p, m), p, m)
<1> DEFINE f == check_full_bw(p, m)
<1>1. /\ p \in ProbeType /\ p.reached \in BOOLEAN /\ p.full_cnt \in 0 .. 3 /\ p.keep \in 0 .. 3
      /\ p.full \in Nat
  BY Zenon DEF ProbeOK, ProbeType
<1>2. CASE ~p.reached
  <2>1. f = FillLink(p, m) /\ p.reached = FALSE
    BY <1>1, <1>2, Zenon DEF check_full_bw
  <2>2. p.full_cnt <= 2
    BY <1>2, Zenon DEF ProbeOK
  <2>3. FilledUp(f, p, m)
    BY <1>1, <2>1, <2>2, FillIs, Zenon
  <2> HIDE DEF f
  <2>4. f \in ProbeType /\ SameGain(f, p)
    BY <2>3, Zenon DEF FilledUp
  <2>5. (f.reached => f.keep = 0) /\ (~f.reached => f.full_cnt <= 2)
    <3>1. CASE p.keep > 0
      BY <2>2, <2>3, <3>1, Zenon DEF FilledUp
    <3>2. CASE p.keep = 0 /\ m * 256 > p.full * 320
      <4>1. f.reached = FALSE /\ f.full_cnt = 0
        BY <2>3, <3>2, Zenon DEF FilledUp
      <4> QED BY <4>1
    <3>3. CASE p.keep = 0 /\ ~(m * 256 > p.full * 320)
      <4>1. f.reached = (p.full_cnt = 2) /\ f.keep = 0 /\ f.full_cnt = p.full_cnt + 1
        BY <2>3, <3>3, Zenon DEF FilledUp
      <4>2. p.full_cnt # 2 => p.full_cnt + 1 <= 2
        BY <1>1, <2>2
      <4> QED BY <4>1, <4>2, Zenon
    <3>4. p.keep > 0 \/ p.keep = 0
      BY <1>1
    <3> QED BY <3>1, <3>2, <3>3, <3>4, Zenon
  <2>6. ProbeOK(f)
    BY <2>4, <2>5, Zenon DEF ProbeOK, SameGain
  <2> QED BY <1>2, <2>3, <2>4, <2>6, Zenon DEF Checked, f
<1>3. CASE p.reached /\ FallenBehind(p, m)
  <2> DEFINE p0 == [p EXCEPT !.full = 0, !.reached = FALSE]
  <2>1. f = FillLink(p0, m)
    BY <1>3, Zenon DEF check_full_bw
  <2>2. p0 \in ProbeType /\ p0.reached = FALSE /\ p0.full = 0 /\ p0.keep = p.keep
    <3>1. 0 \in Nat
      BY Zenon
    <3> QED BY <1>1, <3>1, Zenon DEF ProbeType
  <2>3. SameGain(p0, p)
    BY <1>1, Zenon DEF ProbeType, SameGain
  <2> HIDE DEF p0
  <2>4. p.keep = 0
    BY <1>3, Zenon DEF ProbeOK
  <2>5. FilledUp(f, p0, m)
    BY <2>1, <2>2, <2>4, FillIs, Zenon
  <2>6. m * 256 > p0.full * 320 /\ p0.keep = 0
    BY <2>2, <2>4
  <2> HIDE DEF f
  <2>7. /\ f \in ProbeType /\ f.reached = FALSE /\ f.keep = 3 /\ f.startup = FALSE
        /\ f.full_cnt = 0
    BY <2>5, <2>6, Zenon DEF FilledUp
  <2>8. SameGain(f, p)
    BY <2>3, <2>5, Zenon DEF FilledUp, SameGain
  <2>9. 0 <= 2
    OBVIOUS
  <2>10. ProbeOK(f)
    BY <2>7, <2>8, <2>9, Zenon DEF ProbeOK, SameGain
  <2> QED BY <1>3, <2>7, <2>8, <2>10, Zenon DEF Checked, f
<1>4. CASE p.reached /\ ~FallenBehind(p, m)
  <2>1. f = p
    BY <1>4, Zenon DEF check_full_bw
  <2> HIDE DEF f
  <2> QED BY <1>4, <2>1, Zenon DEF Checked, SameGain, f
<1> QED BY <1>2, <1>3, <1>4, Zenon

\* The branch of update_gain for a link that is not full.
LEMMA StartupIs ==
    ASSUME NEW f, ProbeOK(f), ~f.reached, NEW x, NEW o
    PROVE  /\ ProbeOK(update_gain(f, x, o)) /\ SameFill(update_gain(f, x, o), f)
           /\ f.startup => update_gain(f, x, o).gain = 384
<1> DEFINE n == IF f.startup THEN STARTUP_GAIN ELSE UNIT
           g == update_gain(f, x, o)
<1>1. g = [f EXCEPT !.gain = n]
  BY Zenon DEF update_gain
<1>2. n \in Gain /\ (f.startup => n = 384)
  BY Consts, Zenon DEF Gain
<1>3. f \in ProbeType
  BY Zenon DEF ProbeOK
<1> HIDE DEF n, g
<1>4. g \in ProbeType
  BY <1>1, <1>2, <1>3, Zenon DEF ProbeType
<1>5. /\ g.gain = n /\ SameFill(g, f) /\ g.high = f.high /\ g.low_cnt = f.low_cnt
      /\ g.valid = f.valid /\ g.high_cnt = f.high_cnt /\ g.normal_cnt = f.normal_cnt
  BY <1>1, <1>3, Zenon DEF ProbeType, SameFill
<1>6. ProbeOK(g)
  BY <1>4, <1>5, Zenon DEF ProbeOK, SameFill
<1> QED BY <1>2, <1>5, <1>6, Zenon DEF g

\* check_full_bw and update_gain together, one sample of a link whose best sample is m.
Acked(p, m, x, o) == update_gain(check_full_bw(p, m), x, o)

\* One acknowledgement keeps the ranges of all counters.
LEMMA ProbeStep ==
    ASSUME NEW p, ProbeOK(p), NEW m \in Nat, m > 0, NEW x \in Nat, NEW o \in Nat
    PROVE  ProbeOK(Acked(p, m, x, o))
<1> DEFINE f == check_full_bw(p, m)
<1>1. ProbeOK(f)
  BY CheckedIs, Zenon DEF Checked
<1> HIDE DEF f
<1>2. ProbeOK(update_gain(f, x, o))
  <2>1. CASE ~f.reached
    BY <1>1, <2>1, StartupIs, ZenonT(60)
  <2>2. CASE f.reached
    <3>1. Geared(Decide(CountLow(Explore(f, x), x, o), o), f, x, o)
      BY <1>1, <2>2, GearedIs, Zenon
    <3> QED BY <2>2, <3>1, Zenon DEF update_gain, Geared
  <2> QED BY <2>1, <2>2, Zenon
<1> QED BY <1>2, Zenon DEF Acked, f

-----------------------------------------------------------------------------
(* Between two widenings *)

\* FallenBehind, for any window.
Behind(full, c, x) == c <= MIN_CWND \/ x * UNIT < (full * FULL_BW_THRESH) % U32

\* The samples that may still pass, all of them x, until the window is widened.
Left(p, c, x) ==
    IF p.reached
    THEN IF Behind(p.full, c, x) THEN 3
         ELSE IF p.high_cnt > 0 THEN p.high_cnt + 3 ELSE 3 - p.normal_cnt
    ELSE IF p.keep > 0 THEN p.keep - 1
    ELSE IF x * 256 > p.full * 320 THEN 3
    ELSE 8 - p.full_cnt

\* A steady rate leaves at most eight samples until the window is widened.
LEMMA LeftBound ==
    ASSUME NEW p, ProbeOK(p), NEW c, NEW x
    PROVE  Left(p, c, x) \in 0 .. 8
<1>1. /\ p.high_cnt \in 0 .. 3 /\ p.normal_cnt \in 0 .. 3 /\ p.keep \in 0 .. 3
      /\ p.full_cnt \in 0 .. 3 /\ p.reached \in BOOLEAN
  BY Zenon DEF ProbeOK, ProbeType
<1> QED BY <1>1 DEF Left

\* update_cwnd stays within MIN_CWND and MAX_CWND, and UNIT leaves the window alone.
LEMMA CwndIs ==
    ASSUME cwnd \in 4 .. 25, NEW n \in Gain
    PROVE  update_cwnd(n) \in 4 .. 25 /\ (n = 256 => update_cwnd(n) = cwnd)
<1> DEFINE w == IF n \in {CWND_HIGHT_GAIN, STARTUP_GAIN} THEN cwnd + 2
                ELSE IF n = CWND_LOW_GAIN THEN cwnd - 1 ELSE cwnd
           k == (w * n) \div UNIT
           bw == Min({MAX_CWND, k})
<1>1. update_cwnd(n) = Max({MIN_CWND, bw})
  BY Zenon DEF update_cwnd
<1>2. w \in Nat /\ n \in Nat /\ (n = 256 => w = cwnd)
  BY Consts DEF Gain
<1>3. \A c \in Nat : (c * 256) \div 256 = c
  OBVIOUS
<1> HIDE DEF w
<1>4. k \in Int /\ (n = 256 => k = cwnd)
  <2>1. w * n \in Int
    BY <1>2
  <2>2. k \in Int
    <3> DEFINE y == w * n
    <3> HIDE DEF y
    <3>1. y \div 256 \in Int
      BY <2>1 DEF y
    <3> QED BY <3>1, Consts, Zenon DEF y
  <2>3. n = 256 => k = cwnd
    BY <1>2, <1>3, Consts
  <2> QED BY <2>2, <2>3, Zenon
<1> HIDE DEF k
<1>5. bw = IF 25 <= k THEN 25 ELSE k
  BY <1>4, MinOfTwo, Consts
<1> HIDE DEF bw
<1>6. Max({MIN_CWND, bw}) = IF 4 >= bw THEN 4 ELSE bw
  BY <1>4, <1>5, MaxOfTwo, Consts
<1> QED BY <1>1, <1>4, <1>5, <1>6

\* A sample of the same rate that does not widen the window uses up one of those left.
LEMMA LeftFalls ==
    ASSUME NEW p, ProbeOK(p), NEW x \in Nat, x > 0, NEW c,
           c = cwnd \/ Acked(p, x, x, x).gain # 256,
           Acked(p, x, x, x).gain <= 256
    PROVE  Left(Acked(p, x, x, x), c, x) + 1 <= Left(p, cwnd, x)
<1> DEFINE f == check_full_bw(p, x)
           g == Acked(p, x, x, x)
<1>0. g = update_gain(f, x, x)
  BY Zenon DEF Acked
<1>1. Checked(f, p, x) /\ ProbeOK(f)
  <2>1. Checked(f, p, x)
    BY CheckedIs, ZenonT(30)
  <2> HIDE DEF f
  <2> QED BY <2>1, Zenon DEF Checked
<1>2. ProbeOK(g)
  BY ProbeStep, Zenon
<1> HIDE DEF f, g
<1>3. /\ g.high_cnt \in 0 .. 3 /\ g.normal_cnt \in 0 .. 3 /\ g.keep \in 0 .. 3
      /\ g.full_cnt \in 0 .. 3 /\ g.reached \in BOOLEAN /\ g.full \in Nat
  BY <1>2, ZenonT(30) DEF ProbeOK, ProbeType
<1>4. /\ p.high_cnt \in 0 .. 3 /\ p.normal_cnt \in 0 .. 3 /\ p.keep \in 0 .. 3
      /\ p.full_cnt \in 0 .. 3 /\ p.reached \in BOOLEAN /\ p.full \in Nat
  BY ZenonT(30) DEF ProbeOK, ProbeType
<1>5. /\ f.high_cnt = p.high_cnt /\ f.normal_cnt = p.normal_cnt
  BY <1>1, Zenon DEF Checked, SameGain
<1>6. g.gain <= 256 /\ g.gain # 320 /\ g.gain # 384 /\ (c = cwnd \/ g.gain # 256)
  BY DEF g
<1> SUFFICES Left(g, c, x) + 1 <= Left(p, cwnd, x)
  BY Zenon DEF g
<1>7. CASE ~f.reached
  <2>1. /\ g.reached = f.reached /\ g.keep = f.keep /\ g.full = f.full /\ g.full_cnt = f.full_cnt
        /\ ~f.startup
    <3>1. SameFill(g, f) /\ (f.startup => g.gain = 384)
      BY <1>0, <1>1, <1>7, StartupIs
    <3> QED BY <1>6, <3>1, Zenon DEF SameFill
  <2>2. Left(g, c, x) = IF g.keep > 0 THEN g.keep - 1
                        ELSE IF x * 256 > g.full * 320 THEN 3 ELSE 8 - g.full_cnt
    BY <1>7, <2>1, ZenonT(60) DEF Left
  <2>3. CASE p.reached
    <3>1. FallenBehind(p, x)
      BY <1>1, <1>7, <2>3, Zenon DEF Checked
    <3>2. f.keep = 3
      BY <1>1, <2>3, <3>1, Zenon DEF Checked
    <3>3. Left(p, cwnd, x) = 3
      BY <2>3, <3>1, Zenon DEF Left, Behind, FallenBehind
    <3> QED BY <2>1, <2>2, <3>2, <3>3
  <2>4. CASE ~p.reached
    <3>0. FilledUp(f, p, x)
      BY <1>1, <2>4, Zenon DEF Checked
    <3>1. Left(p, cwnd, x) = IF p.keep > 0 THEN p.keep - 1
                             ELSE IF x * 256 > p.full * 320 THEN 3 ELSE 8 - p.full_cnt
      BY <2>4, ZenonT(60) DEF Left
    <3>2. CASE p.keep > 0
      <4>1. f.keep = p.keep - 1 /\ f.startup = (p.keep = 1)
        BY <3>0, <3>2, Zenon DEF FilledUp
      <4>2. p.keep # 1
        BY <2>1, <4>1, Zenon
      <4> QED BY <1>4, <2>1, <2>2, <3>1, <3>2, <4>1, <4>2
    <3>3. CASE p.keep = 0 /\ x * 256 > p.full * 320
      <4>1. f.keep = 3
        BY <3>0, <3>3, Zenon DEF FilledUp
      <4> QED BY <2>1, <2>2, <3>1, <3>3, <4>1, SMTT(30)
    <3>4. CASE p.keep = 0 /\ ~(x * 256 > p.full * 320)
      <4>1. f.keep = 0 /\ f.full_cnt = p.full_cnt + 1 /\ f.full = p.full
        BY <3>0, <3>4, Zenon DEF FilledUp
      <4> QED BY <1>4, <2>1, <2>2, <3>1, <3>4, <4>1
    <3>5. p.keep > 0 \/ p.keep = 0
      BY <1>4
    <3> QED BY <3>2, <3>3, <3>4, <3>5, Zenon
  <2> QED BY <2>3, <2>4, Zenon
<1>8. CASE f.reached
  <2>0. Geared(g, f, x, x)
    BY <1>0, <1>1, <1>8, GearedIs, Zenon DEF update_gain
  <2>1. /\ g.reached = f.reached /\ g.full = f.full
        /\ \/ g.gain = 204 /\ g.high_cnt = 0 /\ f.high_cnt = 1 /\ g.normal_cnt = 0
           \/ g.gain = 256 /\ g.high_cnt = 0 /\ f.high_cnt > 0 /\ g.normal_cnt = 1
           \/ g.gain = 256 /\ g.high_cnt = 0 /\ f.high_cnt = 0 /\ g.normal_cnt = f.normal_cnt + 1
           \/ g.gain = 256 /\ f.high_cnt > 1 /\ g.high_cnt = f.high_cnt - 1
    BY <1>6, <2>0, ZenonT(60) DEF Geared, SameFill
  <2>2. Left(g, c, x) = IF Behind(g.full, c, x) THEN 3
                        ELSE IF g.high_cnt > 0 THEN g.high_cnt + 3 ELSE 3 - g.normal_cnt
    BY <1>8, <2>1, Zenon DEF Left
  <2>3. CASE ~p.reached
    <3>0. FilledUp(f, p, x)
      BY <1>1, <2>3, Zenon DEF Checked
    <3>1. p.keep = 0 /\ ~(x * 256 > p.full * 320) /\ p.full_cnt = 2
      <4>1. p.keep > 0 \/ p.keep = 0
        BY <1>4
      <4>2. p.keep = 0 /\ ~(x * 256 > p.full * 320)
        BY <1>8, <3>0, <4>1, Zenon DEF FilledUp
      <4> QED BY <1>8, <3>0, <4>2, Zenon DEF FilledUp
    <3>2. Left(p, cwnd, x) = 6
      BY <2>3, <3>1 DEF Left
    <3> QED BY <1>3, <1>4, <1>5, <2>1, <2>2, <3>2, SMTT(30)
  <2>4. CASE p.reached
    <3>1. f = p /\ ~FallenBehind(p, x)
      BY <1>1, <1>8, <2>4, Zenon DEF Checked
    <3>2. Left(p, cwnd, x) = IF p.high_cnt > 0 THEN p.high_cnt + 3 ELSE 3 - p.normal_cnt
      BY <2>4, <3>1, Zenon DEF Left, Behind, FallenBehind
    <3>3. g.gain = 256 => ~Behind(g.full, c, x)
      <4>1. ~Behind(p.full, cwnd, x)
        BY <3>1, Zenon DEF Behind, FallenBehind
      <4> QED BY <1>6, <2>1, <3>1, <4>1, ZenonT(60)
    <3> QED BY <1>3, <1>4, <1>5, <2>1, <2>2, <3>2, <3>3, SMTT(30)
  <2> QED BY <2>3, <2>4, Zenon
<1> QED BY <1>7, <1>8, Zenon

-----------------------------------------------------------------------------
(* The invariant *)

\* The window follows the samples, the counters keep their ranges, and the steady samples so
\* far leave as many as Left says.
RateInv ==
    /\ Samples /\ ProbeOK(probe) /\ cwnd \in 4 .. 25 /\ quiet \in Nat
    /\ \/ quiet = 0
       \/ \E x \in Rates : Range(recent) = {x} /\ quiet + Left(probe, cwnd, x) <= 8

\* The empty window of a new connection.
LEMMA FreshPlaces == AllThree(0, 0) \in Slots /\ \A i \in 1 .. 3 : AllThree(0, 0)[i].v = 0
BY DEF AllThree, Slots, Slot

\* The counters of a new connection.
LEMMA FreshProbe == ProbeOK(NewProbe)
BY Consts DEF NewProbe, ProbeOK, ProbeType, Gain

\* The samples and their window through one more.
LEMMA SamplesMove ==
    ASSUME Samples, NEW x \in Nat
    PROVE  LET w == running_max(Older(s), CYCLES, x)
               r == Pushed(recent, x)
           IN  /\ r \in Seq(Nat) /\ Len(r) <= 4 /\ w \in Slots /\ r # <<>> /\ Window(w, r)
               /\ s[1].v \in Nat /\ w[1].v \in Nat /\ w[1].v >= x
               /\ x >= s[1].v => w[1].v = x
<1> DEFINE w == running_max(Older(s), CYCLES, x)
           r == Pushed(recent, x)
<1>1. /\ s \in Slots /\ recent \in Seq(Nat) /\ Len(recent) <= 4
  BY Zenon DEF Samples
<1>2. /\ r \in Seq(Nat) /\ Len(r) <= 4 /\ r # <<>> /\ r[1] = x
      /\ Len(r) = IF Len(recent) = 4 THEN 4 ELSE Len(recent) + 1
  BY <1>1, PushedIs, ZenonT(30)
<1>3. s[1].v \in Nat
  BY <1>1 DEF Slots, Slot
<1>4. x >= s[1].v => w = <<[t |-> 0, v |-> x], [t |-> 0, v |-> x], [t |-> 0, v |-> x]>>
  BY <1>1, PlacesAfter, Zenon
<1> HIDE DEF w, r
<1>5. w \in Slots /\ Window(w, r)
  <2>1. CASE recent # <<>>
    <3>1. Window(s, recent)
      BY <2>1, ZenonT(60) DEF Samples
    <3> QED BY <1>1, <2>1, <3>1, WindowMoves, Zenon DEF w, r
  <2>2. CASE recent = <<>>
    <3>1. s[1].v = 0 /\ Len(recent) = 0
      BY <2>2, FreshPlaces, SMTT(30) DEF Samples
    <3>2. w = <<[t |-> 0, v |-> x], [t |-> 0, v |-> x], [t |-> 0, v |-> x]>>
      BY <1>4, <3>1
    <3>3. Len(r) = 1
      BY <1>2, <3>1
    <3>4. /\ w \in Slots
          /\ w[1] = [t |-> 0, v |-> x] /\ w[2] = [t |-> 0, v |-> x] /\ w[3] = [t |-> 0, v |-> x]
      BY <3>2 DEF Slots, Slot
    <3>5. \A i \in 1 .. 3 : w[i].t = 0 /\ w[i].v = x
      BY <3>4, SMTT(30)
    <3>6. \A i \in 1 .. 3 : r[w[i].t + 1] = w[i].v
      BY <1>2, <3>5, SMTT(30)
    <3>7. \A j \in 1 .. Len(r) : j <= 3 => r[j] <= w[1].v
      <4> SUFFICES ASSUME NEW j \in 1 .. Len(r) PROVE r[j] <= w[1].v
        BY Zenon
      <4>1. j = 1
        BY <3>3, SMTT(30)
      <4>2. r[1] = x /\ w[1].v = x /\ x <= x
        BY <1>2, <3>5
      <4> QED BY <4>1, <4>2, Zenon
    <3> QED BY <3>3, <3>4, <3>5, <3>6, <3>7, SMTT(30) DEF Window
  <2> QED BY <2>1, <2>2, Zenon
<1>6. w[1].v \in Nat
  BY <1>5 DEF Slots, Slot
<1>7. w[1].v >= x
  <2>1. 1 \in 1 .. Len(r) /\ 1 <= 3
    BY <1>2
  <2>2. r[1] <= w[1].v
    BY <1>5, <2>1, Zenon DEF Window
  <2> QED BY <1>2, <1>6, <2>2, Zenon
<1>8. x >= s[1].v => w[1].v = x
  BY <1>4
<1> QED BY <1>2, <1>3, <1>5, <1>6, <1>7, <1>8, Zenon DEF w, r

\* A sample keeps the invariant.
LEMMA SampleKeeps ==
    ASSUME RateInv, NEW bw \in Rates, Sample(bw)
    PROVE  RateInv'
<1> DEFINE o == s[1].v
           w == running_max(Older(s), CYCLES, bw)
           m == w[1].v
           r == Pushed(recent, bw)
           g == Acked(probe, m, bw, o)
           c == update_cwnd(g.gain)
<1>1. bw \in Nat /\ bw > 0
  BY RateAssumption
<1>2. /\ s' = w /\ probe' = g /\ cwnd' = c /\ recent' = r
      /\ quiet' = IF g.gain > UNIT \/ Range(recent) # {bw} THEN 0 ELSE quiet + 1
  BY Zenon DEF Sample, Acked, Pushed
<1>3. /\ Samples /\ ProbeOK(probe) /\ cwnd \in 4 .. 25 /\ quiet \in Nat
      /\ \/ quiet = 0
         \/ \E x \in Rates : Range(recent) = {x} /\ quiet + Left(probe, cwnd, x) <= 8
  BY Zenon DEF RateInv
<1>4. /\ r \in Seq(Nat) /\ Len(r) <= 4 /\ w \in Slots /\ r # <<>> /\ Window(w, r)
      /\ o \in Nat /\ m \in Nat /\ m >= bw /\ (bw >= o => m = bw)
  BY <1>1, <1>3, SamplesMove, Zenon
<1>5. Samples'
  <2> HIDE DEF w, r
  <2> QED BY <1>2, <1>4, Zenon DEF Samples
<1>6. m > 0
  <2> HIDE DEF m
  <2> QED BY <1>1, <1>4
<1> HIDE DEF o, w, m
<1>7. ProbeOK(g)
  BY <1>1, <1>3, <1>4, <1>6, ProbeStep, Zenon
<1>8. g.gain \in Gain
  <2> HIDE DEF g
  <2> QED BY <1>7, Zenon DEF ProbeOK, ProbeType
<1>9. c \in 4 .. 25 /\ (g.gain = 256 => c = cwnd)
  BY <1>3, <1>8, CwndIs, Zenon
<1>10. CASE g.gain > UNIT \/ Range(recent) # {bw}
  <2>1. quiet' = 0 /\ 0 \in Nat
    BY <1>2, <1>10, Zenon
  <2> HIDE DEF g, c
  <2> QED BY <1>2, <1>5, <1>7, <1>9, <2>1, Zenon DEF RateInv
<1>11. CASE ~(g.gain > UNIT) /\ Range(recent) = {bw}
  <2>1. quiet' = quiet + 1
    BY <1>2, <1>11, Zenon
  <2>2. recent # <<>> /\ \A j \in DOMAIN recent : recent[j] = bw
    BY <1>11 DEF Range
  <2>3. recent \in Seq(Nat) /\ Window(s, recent) /\ s \in Slots
    BY <1>3, <2>2, Zenon DEF Samples
  <2>4. o = bw
    <3>1. s[1].t \in Nat /\ s[1].t < Len(recent) /\ recent[s[1].t + 1] = s[1].v
      BY <2>3, SMTT(30) DEF Window, Slots, Slot
    <3>2. s[1].t + 1 \in DOMAIN recent
      BY <2>3, <3>1
    <3> QED BY <2>2, <3>1, <3>2, Zenon DEF o
  <2>5. m = bw
    BY <1>1, <1>4, <2>4
  <2>6. g = Acked(probe, bw, bw, bw)
    BY <2>4, <2>5, Zenon
  <2>7. Range(r) = {bw}
    <3>1. /\ Len(r) = (IF Len(recent) = 4 THEN 4 ELSE Len(recent) + 1) /\ r[1] = bw
          /\ \A j \in 1 .. Len(recent) : j < 4 => r[j + 1] = recent[j]
      BY <1>1, <1>3, <2>3, PushedIs, ZenonT(30) DEF Samples
    <3> HIDE DEF r
    <3>2. ASSUME NEW i \in DOMAIN r PROVE r[i] = bw
      <4>1. i \in 1 .. Len(r) /\ Len(recent) \in Nat
        BY <1>4, <2>3, SMTT(30)
      <4>2. CASE i = 1
        BY <3>1, <4>2, Zenon
      <4>3. CASE i # 1
        <5>1. i - 1 \in 1 .. Len(recent) /\ i - 1 < 4 /\ (i - 1) + 1 = i
          <6>1. \A k, n \in Nat : k <= 4 /\ n = (IF k = 4 THEN 4 ELSE k + 1) =>
                  \A j \in 1 .. n : j # 1 => j - 1 \in 1 .. k /\ j - 1 < 4 /\ (j - 1) + 1 = j
            OBVIOUS
          <6>2. Len(recent) <= 4 /\ Len(r) \in Nat
            BY <1>3, <1>4 DEF Samples
          <6> QED BY <3>1, <4>1, <4>3, <6>1, <6>2, ZenonT(30)
        <5>2. r[i] = recent[i - 1]
          BY <3>1, <5>1, Zenon
        <5>3. i - 1 \in DOMAIN recent
          BY <2>3, <5>1, SMTT(30)
        <5> QED BY <2>2, <5>2, <5>3, Zenon
      <4> QED BY <4>2, <4>3, Zenon
    <3>3. 1 \in DOMAIN r
      BY <1>4
    <3> QED BY <3>1, <3>2, <3>3 DEF Range
  <2>8. Left(probe, cwnd, bw) \in 0 .. 8 /\ Left(g, c, bw) \in 0 .. 8
    BY <1>3, <1>7, LeftBound, Zenon
  <2>9. quiet + Left(probe, cwnd, bw) <= 8
    <3>1. CASE quiet = 0
      BY <2>8, <3>1
    <3>2. CASE \E x \in Rates : Range(recent) = {x} /\ quiet + Left(probe, cwnd, x) <= 8
      <4>1. PICK x \in Rates : Range(recent) = {x} /\ quiet + Left(probe, cwnd, x) <= 8
        BY <3>2, Zenon
      <4>2. x = bw
        BY <1>11, <4>1, Zenon
      <4> QED BY <4>1, <4>2, Zenon
    <3> QED BY <1>3, <3>1, <3>2, Zenon
  <2>10. Left(g, c, bw) + 1 <= Left(probe, cwnd, bw)
    <3>1. g.gain <= 256 /\ (c = cwnd \/ g.gain # 256)
      BY <1>8, <1>9, <1>11, Consts, SMTT(30) DEF Gain
    <3> QED BY <1>1, <1>3, <2>6, <3>1, LeftFalls, SMTT(30)
  <2> HIDE DEF g, c, r
  <2>11. quiet' \in Nat /\ quiet' + Left(g, c, bw) <= 8
    BY <1>3, <2>1, <2>8, <2>9, <2>10, SMTT(30)
  <2> QED BY <1>2, <1>5, <1>7, <1>9, <2>7, <2>11, ZenonT(30) DEF RateInv
<1> QED BY <1>10, <1>11, Zenon

RateSpec == RateInit /\ [][RateNext]_rateVars

\* The invariant of rate_control.rs over every sequence of samples, reads, intervals and
\* reconnects.
THEOREM RateInvariant == RateSpec => []RateInv
<1>1. RateInit => RateInv
  BY FreshPlaces, FreshProbe, Consts DEF RateInit, RateInv, Samples
<1>2. RateInv /\ [RateNext]_rateVars => RateInv'
  <2> SUFFICES ASSUME RateInv, [RateNext]_rateVars PROVE RateInv'
    BY Zenon
  <2>1. ASSUME NEW bw \in Rates, Sample(bw) PROVE RateInv'
    BY <2>1, SampleKeeps, Zenon
  <2>2. ASSUME UNCHANGED <<s, probe, cwnd, recent, quiet>> PROVE RateInv'
    BY <2>2, Zenon DEF RateInv, Samples
  <2>3. CASE ReadBw
    BY <2>2, <2>3, Zenon DEF ReadBw
  <2>4. CASE Interval
    BY <2>2, <2>4, Zenon DEF Interval
  <2>5. CASE Reconnect
    <3>1. /\ s' = AllThree(0, 0) /\ probe' = NewProbe /\ cwnd' = MIN_CWND /\ recent' = <<>>
          /\ quiet' = 0
      BY <2>5, Zenon DEF Reconnect
    <3> QED BY <3>1, FreshPlaces, FreshProbe, Consts DEF RateInv, Samples
  <2>6. CASE UNCHANGED rateVars
    BY <2>2, <2>6, Zenon DEF rateVars
  <2> QED BY <2>1, <2>3, <2>4, <2>5, <2>6, Zenon DEF RateNext
<1> QED BY <1>1, <1>2, PTL DEF RateSpec

\* RateControl.MaxInWindow, the first half of SamplesTrue, for every set of rates: the
\* bandwidth estimate of win_minmax is a sample of its window, and no sample of the last
\* CYCLES is greater.
THEOREM WindowMaximum == RateSpec => []MaxInWindow
<1>1. RateInv => MaxInWindow
  <2> SUFFICES ASSUME RateInv, recent # <<>>
               PROVE  /\ s[1].v \in Range(recent)
                      /\ \A i \in DOMAIN recent : i <= CYCLES => recent[i] <= s[1].v
    BY Zenon DEF MaxInWindow
  <2>1. recent \in Seq(Nat) /\ Window(s, recent) /\ s \in Slots
    BY Zenon DEF RateInv, Samples
  <2>2. s[1].t \in Nat /\ s[1].t < Len(recent) /\ recent[s[1].t + 1] = s[1].v
    BY <2>1 DEF Window, Slots, Slot
  <2>3. s[1].t + 1 \in DOMAIN recent /\ DOMAIN recent = 1 .. Len(recent)
    BY <2>1, <2>2
  <2>4. \A j \in 1 .. Len(recent) : j <= 3 => recent[j] <= s[1].v
    BY <2>1, Zenon DEF Window
  <2> QED BY <2>2, <2>3, <2>4, Consts, Zenon DEF Range
<1> QED BY <1>1, RateInvariant, PTL

\* RateControl.KeepsExploring for every set of rates: on a steady rate update_gain widens the
\* window again before 3 * CYCLES acknowledgements have passed.
THEOREM WidensAgain == RateSpec => []KeepsExploring
<1>1. RateInv => KeepsExploring
  <2> SUFFICES ASSUME RateInv PROVE quiet < 9
    BY Consts DEF KeepsExploring
  <2>1. CASE quiet = 0
    BY <2>1
  <2>2. ASSUME NEW x, quiet + Left(probe, cwnd, x) <= 8 PROVE quiet < 9
    <3>1. Left(probe, cwnd, x) \in 0 .. 8 /\ quiet \in Nat
      BY LeftBound, Zenon DEF RateInv
    <3> QED BY <2>2, <3>1
  <2> QED BY <2>1, <2>2, Zenon DEF RateInv
<1> QED BY <1>1, RateInvariant, PTL

-----------------------------------------------------------------------------
(* Sequences *)

\* Joining two sequences.
LEMMA JoinIs ==
    ASSUME NEW S, NEW x \in Seq(S), NEW y \in Seq(S)
    PROVE  /\ x \o y \in Seq(S) /\ Len(x \o y) = Len(x) + Len(y)
           /\ \A i \in 1 .. Len(x) : (x \o y)[i] = x[i]
           /\ \A i \in 1 .. Len(y) : (x \o y)[Len(x) + i] = y[i]
OBVIOUS

\* The bytes n + 1 to m of a sequence.
LEMMA CutIs ==
    ASSUME NEW S, NEW x \in Seq(S), NEW n \in Nat, NEW m \in Nat, n <= m, m <= Len(x)
    PROVE  /\ SubSeq(x, n + 1, m) \in Seq(S) /\ Len(SubSeq(x, n + 1, m)) = m - n
           /\ \A i \in 1 .. m - n : SubSeq(x, n + 1, m)[i] = x[n + i]
OBVIOUS

\* Two sequences with the same elements are the same.
LEMMA SameSeq ==
    ASSUME NEW S, NEW x \in Seq(S), NEW y \in Seq(S), Len(x) = Len(y),
           \A i \in 1 .. Len(x) : x[i] = y[i]
    PROVE  x = y
OBVIOUS

\* Joining is associative.
LEMMA JoinAssoc ==
    ASSUME NEW S, NEW x \in Seq(S), NEW y \in Seq(S), NEW z \in Seq(S)
    PROVE  (x \o y) \o z = x \o (y \o z)
BY SMTT(30)

\* A sequence cut in two and joined again.
LEMMA SplitJoin ==
    ASSUME NEW S, NEW x \in Seq(S), NEW n \in Nat, n <= Len(x)
    PROVE  /\ SubSeq(x, 1, n) \in Seq(S) /\ SubSeq(x, n + 1, Len(x)) \in Seq(S)
           /\ Len(SubSeq(x, 1, n)) = n /\ Len(SubSeq(x, n + 1, Len(x))) = Len(x) - n
           /\ SubSeq(x, 1, n) \o SubSeq(x, n + 1, Len(x)) = x
<1> DEFINE y == SubSeq(x, 1, n)
           z == SubSeq(x, n + 1, Len(x))
<1>0. Len(x) \in Nat /\ 0 \in Nat /\ 0 <= n /\ 0 + 1 = 1 /\ n - 0 = n
  OBVIOUS
<1>1. y \in Seq(S) /\ Len(y) = n /\ \A i \in 1 .. n : y[i] = x[i]
  OBVIOUS
<1>2. z \in Seq(S) /\ Len(z) = Len(x) - n /\ \A i \in 1 .. Len(x) - n : z[i] = x[n + i]
  BY <1>0, CutIs, SMTT(30)
<1> HIDE DEF y, z
<1>3. /\ y \o z \in Seq(S) /\ Len(y \o z) = Len(x)
      /\ \A i \in 1 .. n : (y \o z)[i] = x[i]
      /\ \A i \in 1 .. Len(x) - n : (y \o z)[n + i] = x[n + i]
  <2>1. Len(y) + Len(z) = Len(x)
    BY <1>0, <1>1, <1>2
  <2>2. /\ y \o z \in Seq(S) /\ Len(y \o z) = Len(y) + Len(z)
        /\ \A i \in 1 .. Len(y) : (y \o z)[i] = y[i]
        /\ \A i \in 1 .. Len(z) : (y \o z)[Len(y) + i] = z[i]
    <3>1. y \in Seq(S) /\ z \in Seq(S)
      BY <1>1, <1>2, Zenon
    <3> QED BY <3>1, JoinIs, SMTT(30)
  <2> QED BY <1>1, <1>2, <2>1, <2>2, SMTT(30)
<1>4. ASSUME NEW i \in 1 .. Len(x) PROVE (y \o z)[i] = x[i]
  <2>1. CASE i <= n
    BY <1>3, <2>1
  <2>2. CASE i > n
    <3> DEFINE j == i - n
    <3>1. j \in 1 .. Len(x) - n /\ n + j = i
      BY <1>0, <2>2
    <3> HIDE DEF j
    <3>2. (y \o z)[n + j] = x[n + j]
      BY <1>3, <3>1, Zenon
    <3> QED BY <3>1, <3>2, Zenon
  <2>3. i <= n \/ i > n
    BY <1>0
  <2> QED BY <2>1, <2>2, <2>3, Zenon
<1>5. y \o z = x
  BY <1>3, <1>4, SameSeq, Zenon
<1> QED BY <1>1, <1>2, <1>5, Zenon DEF y, z

-----------------------------------------------------------------------------
(* CryptoHandshake: the bytes *)

\* What a byte may say.
Vals == {"Yb", "pad", "vc", "rc4", "plain", "padd", "pay", "junk"} \cup Nat
\* A byte, with the place in the keystream that encrypted it.
Byte == [k : Nat, v : Vals]

\* n times the same value.
LEMMA TimesIs ==
    ASSUME NEW S, NEW n \in Nat, NEW v \in S
    PROVE  Times(n, v) \in Seq(S) /\ Len(Times(n, v)) = n /\ \A i \in 1 .. n : Times(n, v)[i] = v
BY DEF Times

\* Encryption gives each byte the position of its keystream.
LEMMA SealedIs ==
    ASSUME NEW vs \in Seq(Vals), NEW from \in Nat
    PROVE  /\ Sealed(from, vs) \in Seq(Byte) /\ Len(Sealed(from, vs)) = Len(vs)
           /\ \A i \in 1 .. Len(vs) : Sealed(from, vs)[i].k = from + i /\ Sealed(from, vs)[i].v = vs[i]
<1> DEFINE f == Sealed(from, vs)
<1>1. Len(vs) \in Nat /\ DOMAIN vs = 1 .. Len(vs) /\ \A i \in 1 .. Len(vs) : vs[i] \in Vals
  OBVIOUS
<1>2. f = [i \in 1 .. Len(vs) |-> [k |-> from + i, v |-> vs[i]]]
  BY <1>1, Zenon DEF Sealed
<1> HIDE DEF f
<1>3. \A i \in 1 .. Len(vs) : f[i] = [k |-> from + i, v |-> vs[i]] /\ f[i] \in Byte
  BY <1>1, <1>2 DEF Byte
<1>4. f \in [1 .. Len(vs) -> Byte]
  BY <1>2, <1>3, Zenon
<1>5. f \in Seq(Byte) /\ Len(f) = Len(vs)
  BY <1>1, <1>4
<1>6. \A i \in 1 .. Len(vs) : f[i].k = from + i /\ f[i].v = vs[i]
  <2> SUFFICES ASSUME NEW i \in 1 .. Len(vs) PROVE f[i].k = from + i /\ f[i].v = vs[i]
    BY Zenon
  <2> DEFINE c == from + i
  <2>1. f[i] = [k |-> c, v |-> vs[i]]
    BY <1>3, Zenon
  <2> HIDE DEF c
  <2> DEFINE g == f[i]
             v == vs[i]
  <2>3. g = [k |-> c, v |-> v]
    BY <2>1, Zenon
  <2> HIDE DEF g, v
  <2>4. g.k = c /\ g.v = v
    BY <2>3, Zenon
  <2>2. f[i].k = c /\ f[i].v = vs[i]
    BY <2>4, Zenon DEF g, v
  <2> QED BY <2>2, Zenon DEF c
<1> QED BY <1>5, <1>6, Zenon DEF f

\* Decryption, byte by byte.
LEMMA OpenIs ==
    ASSUME NEW w \in Seq(Byte), NEW from
    PROVE  /\ DOMAIN Open(from, w) = 1 .. Len(w)
           /\ Open(from, w) \in Seq(Vals) /\ Len(Open(from, w)) = Len(w)
           /\ \A i \in 1 .. Len(w) :
                 Open(from, w)[i] = IF w[i].k = from + i THEN w[i].v ELSE "junk"
<1> DEFINE f == Open(from, w)
<1>1. /\ Len(w) \in Nat /\ DOMAIN w = 1 .. Len(w)
      /\ \A i \in 1 .. Len(w) : w[i].v \in Vals
  <2>1. Len(w) \in Nat /\ DOMAIN w = 1 .. Len(w) /\ \A i \in 1 .. Len(w) : w[i] \in Byte
    OBVIOUS
  <2> QED BY <2>1, Zenon DEF Byte
<1>2. f = [i \in 1 .. Len(w) |-> IF w[i].k = from + i THEN w[i].v ELSE "junk"]
  BY <1>1, Zenon DEF Open
<1> HIDE DEF f
<1>3. \A i \in 1 .. Len(w) :
        /\ f[i] = IF w[i].k = from + i THEN w[i].v ELSE "junk"
        /\ f[i] \in Vals
  BY <1>1, <1>2, Zenon DEF Vals
<1>4. f \in [1 .. Len(w) -> Vals]
  BY <1>2, <1>3, Zenon
<1>5. f \in Seq(Vals) /\ Len(f) = Len(w)
  BY <1>1, <1>4
<1> QED BY <1>2, <1>3, <1>5, Zenon DEF f

\* What is still to be read, with and without what side A holds already.
Stream == (a.recv \o received) \o flow
Coming == received \o flow

\* Bytes that are not encrypted.
Zero(w) == \A i \in 1 .. Len(w) : w[i].k = 0
\* No byte can be decrypted where it stands.
Off(w) == \A i \in 1 .. Len(w) : w[i].k # i
\* The packet of step 4, from its first byte on.
Whole(w) ==
    /\ Len(w) = VcLen + 2 + b.pad_d
    /\ \A i \in 1 .. Len(w) : w[i].k = i
    /\ \A i \in 1 .. VcLen : w[i].v = "vc"
    /\ w[VcLen + 1].v = b.select /\ w[VcLen + 2].v = b.pad_d
\* The payload, at the keystream position of side A.
Talk(w) == \A i \in 1 .. Len(w) : w[i].v = "pay" /\ (b.select = "rc4" => w[i].k = a.ks + i)

-----------------------------------------------------------------------------
(* The invariant *)

APC == {"sendkey", "readkey", "packet", "readbuf", "vc", "novc", "option", "pad", "readhs", "short",
        "open", "failed", "panic"}
AType == [pc : APC, recv : Seq(Byte), pos : Nat, ks : Nat, select : {"none", "rc4", "plain"}]
BType == [pc : {"start", "keyed", "agreed", "talking"}, pad_b : Nat, pad_d : Nat,
          select : {"rc4", "plain"}, ks : Nat]

\* The types of the variables.
CryTypes == a \in AType /\ b \in BType /\ received \in Seq(Byte) /\ flow \in Seq(Byte)

\* Before B has sent step 4 nothing is encrypted, and A is past no VC.
BeforeVc ==
    /\ a.pc \in {"sendkey", "readkey", "packet", "readbuf"} =>
          a.recv = <<>> /\ a.pos = 0 /\ a.ks = 0
    /\ b.pc \in {"start", "keyed"} =>
          /\ Zero(Stream)
          /\ a.pc \notin {"option", "pad", "readhs", "short", "open"}
    /\ b.pc \in {"agreed", "talking"} =>
          b.ks = VcLen + 2 + b.pad_d /\ a.pc \notin {"sendkey", "readkey", "packet"}
\* While A looks for VC, the packet of step 4 starts the stream or is of no use to A.
AtVc ==
    /\ a.pc = "vc" => a.recv # <<>> /\ a.ks = a.pos
    /\ a.pc \in {"readbuf", "vc"} /\ b.pc = "agreed" => Off(Stream) \/ (a.pos = 0 /\ Whole(Stream))
    /\ a.pc = "option" =>
          b.pc = "agreed" /\ Whole(Stream) /\ a.pos = VcLen /\ a.ks = VcLen /\ Len(a.recv) >= VcLen
    /\ a.pc = "pad" =>
          /\ b.pc = "agreed" /\ Whole(Stream) /\ a.pos = VcLen + 2 /\ a.ks = VcLen + 2
          /\ Len(a.recv) >= VcLen + 2 /\ a.select = b.select
\* Once A has read padD, it stands where B goes on.
AfterVc ==
    /\ a.pc = "readhs" /\ b.pc = "agreed" => Coming = <<>> /\ a.ks = b.ks /\ a.select = b.select
    /\ b.pc = "talking" =>
          a.pc \in {"readhs", "short", "open"} /\ a.select = b.select /\ Talk(Coming)
    /\ a.pc \in {"short", "open"} => b.pc = "talking"
ReadOK == \A i \in DOMAIN read : read[i] = "pay"

\* The inductive invariant.
CryInv == CryTypes /\ BeforeVc /\ AtVc /\ AfterVc /\ read \in Seq(Vals) /\ ReadOK

\* The fields of the two sides.
LEMMA AFields ==
    ASSUME a \in AType, b \in BType
    PROVE  /\ a.pc \in APC /\ a.recv \in Seq(Byte) /\ a.pos \in Nat /\ a.ks \in Nat
           /\ b.pad_d \in Nat /\ b.pad_b \in Nat /\ a.select \in {"none", "rc4", "plain"} /\ b.ks \in Nat /\ b.select \in {"rc4", "plain"}
           /\ b.pc \in {"start", "keyed", "agreed", "talking"}
BY Zenon DEF AType, BType

\* Three sequences joined either way.
LEMMA StreamParts ==
    ASSUME NEW x \in Seq(Byte), NEW y \in Seq(Byte), NEW z \in Seq(Byte)
    PROVE  /\ (x \o y) \o z \in Seq(Byte) /\ y \o z \in Seq(Byte)
           /\ (x \o y) \o z = x \o (y \o z)
           /\ Len((x \o y) \o z) = Len(x) + Len(y) + Len(z)
<1>1. x \o y \in Seq(Byte) /\ y \o z \in Seq(Byte) /\ Len(x \o y) = Len(x) + Len(y)
  BY JoinIs, Zenon
<1>2. (x \o y) \o z \in Seq(Byte) /\ Len((x \o y) \o z) = Len(x) + Len(y) + Len(z)
  BY <1>1, JoinIs, SMTT(30)
<1>3. (x \o y) \o z = x \o (y \o z)
  BY JoinAssoc, SMTT(30)
<1> QED BY <1>1, <1>2, <1>3, Zenon

\* The stream is what A holds and what is still to come.
LEMMA Streams ==
    ASSUME CryTypes
    PROVE  Stream \in Seq(Byte) /\ Coming \in Seq(Byte) /\ Stream = a.recv \o Coming
           /\ Len(Stream) = Len(a.recv) + Len(received) + Len(flow)
<1> DEFINE x == a.recv
<1>1. x \in Seq(Byte) /\ received \in Seq(Byte) /\ flow \in Seq(Byte)
  BY AFields, Zenon DEF CryTypes
<1>2. Stream = (x \o received) \o flow /\ Coming = received \o flow
  BY Zenon DEF Stream, Coming
<1> HIDE DEF x
<1>3. /\ (x \o received) \o flow \in Seq(Byte) /\ received \o flow \in Seq(Byte)
      /\ (x \o received) \o flow = x \o (received \o flow)
      /\ Len((x \o received) \o flow) = Len(x) + Len(received) + Len(flow)
  BY <1>1, StreamParts, SMTT(30)
<1> QED BY <1>2, <1>3, Zenon DEF x

\* The same after a step.
LEMMA PrimedStreams ==
    ASSUME CryTypes'
    PROVE  Stream' \in Seq(Byte) /\ Coming' \in Seq(Byte) /\ Stream' = a'.recv \o Coming'
           /\ Len(Stream') = Len(a'.recv) + Len(received') + Len(flow')
<1> DEFINE x == a'.recv
           y == received'
           z == flow'
<1>1. x \in Seq(Byte) /\ y \in Seq(Byte) /\ z \in Seq(Byte)
  BY Zenon DEF CryTypes, AType
<1>2. Stream' = (x \o y) \o z /\ Coming' = y \o z
  BY Zenon DEF Stream, Coming
<1> HIDE DEF x, y, z
<1>3. /\ (x \o y) \o z \in Seq(Byte) /\ y \o z \in Seq(Byte)
      /\ (x \o y) \o z = x \o (y \o z)
      /\ Len((x \o y) \o z) = Len(x) + Len(y) + Len(z)
  BY <1>1, StreamParts, SMTT(30)
<1> QED BY <1>2, <1>3, Zenon DEF x, y, z

\* The first of three joined sequences keeps its places.
LEMMA PrefixIs ==
    ASSUME NEW S, NEW x \in Seq(S), NEW y \in Seq(S), NEW z \in Seq(S)
    PROVE  \A i \in 1 .. Len(x) : ((x \o y) \o z)[i] = x[i]
<1>1. /\ x \o y \in Seq(S) /\ Len(x \o y) = Len(x) + Len(y) /\ Len(x) \in Nat /\ Len(y) \in Nat
      /\ \A i \in 1 .. Len(x) : (x \o y)[i] = x[i]
  BY JoinIs
<1>2. \A i \in 1 .. Len(x \o y) : ((x \o y) \o z)[i] = (x \o y)[i]
  BY <1>1, JoinIs, SMTT(30)
<1>3. \A i \in 1 .. Len(x) : i \in 1 .. Len(x \o y)
  BY <1>1
<1> QED BY <1>1, <1>2, <1>3, Zenon

\* The empty sequence adds nothing.
LEMMA NothingJoined ==
    ASSUME NEW S, NEW x \in Seq(S)
    PROVE  <<>> \o x = x /\ x \o <<>> = x /\ <<>> \in Seq(S) /\ Len(<<>>) = 0
OBVIOUS

\* A stream is plain when its parts are.
LEMMA ZeroJoin ==
    ASSUME NEW x \in Seq(Byte), NEW y \in Seq(Byte)
    PROVE  Zero(x \o y) <=> Zero(x) /\ Zero(y)
<1> DEFINE n == Len(x)
           z == x \o y
<1>1. /\ n \in Nat /\ Len(y) \in Nat /\ Len(z) = n + Len(y)
      /\ \A i \in 1 .. n : z[i] = x[i]
      /\ \A i \in 1 .. Len(y) : z[n + i] = y[i]
  BY JoinIs
<1> HIDE DEF z
<1>2. ASSUME Zero(z) PROVE Zero(x) /\ Zero(y)
  <2>1. \A i \in 1 .. n : i \in 1 .. Len(z)
    BY <1>1, SMTT(30)
  <2>2. \A i \in 1 .. Len(y) : n + i \in 1 .. Len(z)
    BY <1>1
  <2> QED BY <1>1, <1>2, <2>1, <2>2, Zenon DEF Zero
<1>3. ASSUME Zero(x), Zero(y), NEW i \in 1 .. Len(z) PROVE z[i].k = 0
  <2>1. CASE i <= n
    <3>1. i \in 1 .. n
      BY <2>1
    <3> QED BY <1>1, <1>3, <3>1, Zenon DEF Zero
  <2>2. CASE i > n
    <3> DEFINE j == i - n
    <3>1. j \in 1 .. Len(y) /\ n + j = i
      BY <1>1, <2>2
    <3> HIDE DEF j
    <3>2. z[n + j] = y[j] /\ y[j].k = 0
      BY <1>1, <1>3, <3>1, Zenon DEF Zero
    <3> QED BY <3>1, <3>2, Zenon
  <2>3. i <= n \/ i > n
    BY <1>1
  <2> QED BY <2>1, <2>2, <2>3, Zenon
<1> QED BY <1>2, <1>3, Zenon DEF z, Zero

\* read_exact moves bytes from the socket to recv and changes no byte of the stream.
LEMMA FilledIs ==
    ASSUME CryTypes, NEW n \in Nat, Len(received) >= Missing(n)
    PROVE  /\ Filled(n) \in Seq(Byte) /\ Remaining(n) \in Seq(Byte)
           /\ Len(Filled(n)) >= n /\ Len(Filled(n)) >= Len(a.recv)
           /\ (n > Len(a.recv) => Len(Filled(n)) = n)
           /\ (Filled(n) \o Remaining(n)) \o flow = Stream
           /\ \A i \in 1 .. Len(Filled(n)) : Filled(n)[i] = Stream[i]
<1> DEFINE m == Missing(n)
           x == a.recv
           y == SubSeq(received, 1, m)
           z == SubSeq(received, m + 1, Len(received))
<1>1. x \in Seq(Byte) /\ received \in Seq(Byte) /\ flow \in Seq(Byte) /\ Len(x) \in Nat /\ Len(received) \in Nat
  BY AFields, SMTT(30) DEF CryTypes
<1>2. m \in Nat /\ m >= n - Len(x) /\ m <= Len(received) /\ (n > Len(x) => m = n - Len(x))
  <2>1. 0 \in Int /\ n - Len(x) \in Int
    BY <1>1
  <2>2. m = IF 0 >= n - Len(x) THEN 0 ELSE n - Len(x)
    BY <2>1, MaxOfTwo, Zenon DEF Missing
  <2> DEFINE l == Len(x)
             r == Len(received)
  <2>3. l \in Nat /\ r \in Nat /\ r >= m /\ m = IF 0 >= n - l THEN 0 ELSE n - l
    BY <1>1, <2>2, Zenon
  <2> HIDE DEF m, l, r
  <2>4. m \in Nat /\ m >= n - l /\ m <= r /\ (n > l => m = n - l)
    BY <2>3
  <2> QED BY <2>4, Zenon DEF l, r
<1>3. Filled(n) = x \o y /\ Remaining(n) = z /\ Stream = (x \o received) \o flow
  BY Zenon DEF Filled, Remaining, Stream
<1> HIDE DEF m, x
<1>4. y \in Seq(Byte) /\ z \in Seq(Byte) /\ Len(y) = m /\ y \o z = received
  BY <1>1, <1>2, SplitJoin, ZenonT(30)
<1> HIDE DEF y, z
<1>5. (x \o y) \o z = x \o received
  <2>0. x \in Seq(Byte) /\ y \in Seq(Byte) /\ z \in Seq(Byte)
    BY <1>1, <1>4, Zenon
  <2>1. (x \o y) \o z = x \o (y \o z)
    BY <2>0, JoinAssoc, SMTT(30)
  <2> QED BY <1>4, <2>1, Zenon
<1>6. x \o y \in Seq(Byte) /\ Len(x \o y) = Len(x) + m
  BY <1>1, <1>4, JoinIs, Zenon
<1>7. \A i \in 1 .. Len(x \o y) : (((x \o y) \o z) \o flow)[i] = (x \o y)[i]
  BY <1>1, <1>4, <1>6, PrefixIs, SMTT(30)
<1>8. Len(x \o y) >= n /\ Len(x \o y) >= Len(x) /\ (n > Len(x) => Len(x \o y) = n)
  BY <1>1, <1>2, <1>6, SMTT(30)
<1>9. ((x \o y) \o z) \o flow = Stream
  BY <1>3, <1>5, Zenon
<1> QED BY <1>3, <1>4, <1>6, <1>7, <1>8, <1>9, ZenonT(30) DEF x

-----------------------------------------------------------------------------
(* Side B and the network *)

\* What B sends comes at the end of the stream.
LEMMA Appended ==
    ASSUME CryTypes, NEW e \in Seq(Byte), flow' = flow \o e, a' = a, received' = received,
           b' \in BType
    PROVE  CryTypes' /\ Stream' = Stream \o e /\ Coming' = Coming \o e
<1>1. a.recv \in Seq(Byte) /\ received \in Seq(Byte) /\ flow \in Seq(Byte)
  BY AFields, Zenon DEF CryTypes
<1> DEFINE x == a.recv \o received
<1>2. x \in Seq(Byte)
  BY <1>1, JoinIs, Zenon
<1>3. flow \o e \in Seq(Byte)
  BY <1>1, JoinIs, Zenon
<1>4. (received \o flow) \o e = received \o (flow \o e)
  BY <1>1, JoinAssoc, SMTT(30)
<1> HIDE DEF x
<1>5. (x \o flow) \o e = x \o (flow \o e)
  BY <1>1, <1>2, JoinAssoc, SMTT(30)
<1>6. CryTypes'
  BY <1>3, Zenon DEF CryTypes
<1>7. Coming' = Coming \o e
  BY <1>4, Zenon DEF Coming
<1>8. Stream' = Stream \o e
  BY <1>5, Zenon DEF Stream, x
<1> QED BY <1>6, <1>7, <1>8, Zenon

\* A byte sent as it is.
LEMMA ClearIs ==
    ASSUME NEW v \in Vals
    PROVE  Clear(v) \in Byte /\ Clear(v).k = 0 /\ Clear(v).v = v
BY Zenon DEF Clear, Byte

\* A sequence of one.
LEMMA OneIs ==
    ASSUME NEW S, NEW c \in S
    PROVE  <<c>> \in Seq(S) /\ Len(<<c>>) = 1 /\ <<c>>[1] = c
OBVIOUS

\* Side B moves on.
LEMMA ByteTyped ==
    ASSUME b \in BType, NEW p \in {"start", "keyed", "agreed", "talking"}
    PROVE  /\ [b EXCEPT !.pc = p] \in BType
           /\ [b EXCEPT !.pc = p].pc = p
           /\ [b EXCEPT !.pc = p].ks = b.ks
           /\ [b EXCEPT !.pc = p].pad_d = b.pad_d
           /\ [b EXCEPT !.pc = p].select = b.select
BY Zenon DEF BType

\* B sends its key and padding, none of it encrypted.
LEMMA SendYbKeeps ==
    ASSUME CryInv, SendYb
    PROVE  CryInv'
<1>1. CryTypes /\ a \in AType /\ b \in BType /\ b.pc = "start" /\ a.pc # "sendkey"
  BY Zenon DEF CryInv, CryTypes, SendYb
<1> DEFINE x == <<Clear("Yb")>>
           y == Times(b.pad_b, Clear("pad"))
           e == x \o y
<1>2. Clear("Yb") \in Byte /\ Clear("pad") \in Byte /\ Clear("Yb").k = 0 /\ Clear("pad").k = 0
  BY ClearIs, Zenon DEF Vals
<1>3. x \in Seq(Byte) /\ Zero(x)
  BY <1>2, OneIs, SMTT(30) DEF Zero
<1>4. b.pad_b \in Nat
  BY <1>1, AFields, Zenon
<1>5. y \in Seq(Byte) /\ Zero(y)
  <2> DEFINE n == b.pad_b
             c == Clear("pad")
  <2>1. n \in Nat /\ c \in Byte /\ c.k = 0
    BY <1>2, <1>4, Zenon
  <2> HIDE DEF n, c
  <2>2. Times(n, c) \in Seq(Byte) /\ Len(Times(n, c)) = n /\ \A i \in 1 .. n : Times(n, c)[i] = c
    BY <2>1, TimesIs, ZenonT(30)
  <2>3. Zero(Times(n, c))
    BY <2>1, <2>2, Zenon DEF Zero
  <2> QED BY <2>2, <2>3, Zenon DEF n, c
<1>0. flow \in Seq(Byte) /\ flow' = (flow \o x) \o y
  BY <1>1, Zenon DEF SendYb, CryTypes
<1> HIDE DEF x, y
<1>6. e \in Seq(Byte) /\ Zero(e)
  BY <1>3, <1>5, JoinIs, ZeroJoin, Zenon
<1>7. (flow \o x) \o y = flow \o e
  <2>1. flow \in Seq(Byte) /\ x \in Seq(Byte) /\ y \in Seq(Byte)
    BY <1>0, <1>3, <1>5, Zenon
  <2> QED BY <2>1, JoinAssoc, SMTT(30)
<1> HIDE DEF e
<1>8. a' = a /\ received' = received /\ read' = read /\ b' = [b EXCEPT !.pc = "keyed"]
  BY Zenon DEF SendYb
<1>9. b' \in BType /\ b'.pc = "keyed"
  BY <1>1, <1>8, ByteTyped, Zenon
<1>10. CryTypes' /\ Stream' = Stream \o e
  <2>1. flow' = flow \o e
    BY <1>0, <1>7, Zenon
  <2> QED BY <1>1, <1>6, <1>8, <1>9, <2>1, Appended, Zenon
<1>11. Zero(Stream)
  BY <1>1, Zenon DEF CryInv, BeforeVc
<1>12. Stream \in Seq(Byte)
  BY <1>1, Streams, Zenon
<1>13. Zero(Stream')
  BY <1>6, <1>10, <1>11, <1>12, ZeroJoin, Zenon
<1>14. BeforeVc'
  BY <1>1, <1>8, <1>9, <1>13, Zenon DEF CryInv, BeforeVc, Zero
<1>15. AtVc'
  BY <1>1, <1>8, <1>9, Zenon DEF CryInv, AtVc, BeforeVc
<1>16. AfterVc'
  BY <1>1, <1>8, <1>9, Zenon DEF CryInv, AfterVc, BeforeVc
<1>17. ReadOK' /\ read' \in Seq(Vals)
  BY <1>8, Zenon DEF CryInv, ReadOK
<1> QED BY <1>10, <1>14, <1>15, <1>16, <1>17, Zenon DEF CryInv

\* The plaintext of step 4.
LEMMA VcPacket ==
    ASSUME b \in BType
    PROVE  LET vs == Times(VcLen, "vc") \o <<b.select, b.pad_d>> \o Times(b.pad_d, "padd")
           IN  /\ vs \in Seq(Vals) /\ Len(vs) = VcLen + 2 + b.pad_d
               /\ \A i \in 1 .. VcLen : vs[i] = "vc"
               /\ vs[VcLen + 1] = b.select /\ vs[VcLen + 2] = b.pad_d
<1> DEFINE x == Times(VcLen, "vc")
           y == <<b.select, b.pad_d>>
           z == Times(b.pad_d, "padd")
<1>1. VcLen \in Nat
  BY CryptoAssumption, Zenon
<1>2. b.pad_d \in Nat /\ b.select \in {"rc4", "plain"} /\ b.pad_d \in Vals /\ b.select \in Vals
  BY Zenon DEF BType, Vals
<1>3. "vc" \in Vals /\ "padd" \in Vals
  BY Zenon DEF Vals
<1>4. x \in Seq(Vals) /\ Len(x) = VcLen /\ \A i \in 1 .. VcLen : x[i] = "vc"
  BY <1>1, <1>3, TimesIs, Zenon
<1>5. y \in Seq(Vals) /\ Len(y) = 2 /\ y[1] = b.select /\ y[2] = b.pad_d
  BY <1>2
<1>6. z \in Seq(Vals) /\ Len(z) = b.pad_d
  <2> DEFINE n == b.pad_d
  <2>1. n \in Nat
    BY <1>2, Zenon
  <2> HIDE DEF n
  <2>2. Times(n, "padd") \in Seq(Vals) /\ Len(Times(n, "padd")) = n
    BY <1>3, <2>1, TimesIs, Zenon
  <2> QED BY <2>2, Zenon DEF n
<1> HIDE DEF x, y, z
<1> DEFINE w == x \o y
<1>7. /\ w \in Seq(Vals) /\ Len(w) = VcLen + 2 /\ \A i \in 1 .. VcLen : w[i] = x[i]
      /\ \A i \in 1 .. 2 : w[VcLen + i] = y[i]
  <2>1. x \in Seq(Vals) /\ y \in Seq(Vals)
    BY <1>4, <1>5, Zenon
  <2>2. /\ w \in Seq(Vals) /\ Len(w) = Len(x) + Len(y) /\ \A i \in 1 .. Len(x) : w[i] = x[i]
        /\ \A i \in 1 .. Len(y) : w[Len(x) + i] = y[i]
    BY <2>1, JoinIs
  <2> QED BY <1>4, <1>5, <2>2, Zenon
<1> HIDE DEF w
<1>8. /\ w \o z \in Seq(Vals) /\ Len(w \o z) = VcLen + 2 + b.pad_d
      /\ \A i \in 1 .. VcLen + 2 : (w \o z)[i] = w[i]
  <2>1. w \in Seq(Vals) /\ z \in Seq(Vals)
    BY <1>6, <1>7, Zenon
  <2>2. /\ w \o z \in Seq(Vals) /\ Len(w \o z) = Len(w) + Len(z) /\ \A i \in 1 .. Len(w) : (w \o z)[i] = w[i]
    BY <2>1, JoinIs, ZenonT(30)
  <2> QED BY <1>6, <1>7, <2>2, Zenon
<1>9. /\ 1 \in 1 .. 2 /\ 2 \in 1 .. 2 /\ VcLen + 1 \in 1 .. VcLen + 2 /\ VcLen + 2 \in 1 .. VcLen + 2
      /\ \A i \in 1 .. VcLen : i \in 1 .. VcLen + 2
  BY <1>1
<1>10. (w \o z)[VcLen + 1] = b.select /\ (w \o z)[VcLen + 2] = b.pad_d
  BY <1>5, <1>7, <1>8, <1>9, Zenon
<1>11. \A i \in 1 .. VcLen : (w \o z)[i] = "vc"
  BY <1>4, <1>7, <1>8, <1>9, Zenon
<1> QED BY <1>8, <1>10, <1>11, Zenon DEF w, x, y, z

\* Behind padding the packet of step 4 can be decrypted nowhere.
LEMMA BehindPadding ==
    ASSUME NEW x \in Seq(Byte), NEW y \in Seq(Byte), Zero(x), Len(x) # 0,
           \A i \in 1 .. Len(y) : y[i].k = i
    PROVE  Off(x \o y)
<1> DEFINE n == Len(x)
           z == x \o y
<1>1. /\ n \in Nat /\ n # 0 /\ Len(y) \in Nat /\ Len(z) = n + Len(y)
      /\ \A i \in 1 .. n : z[i] = x[i]
      /\ \A i \in 1 .. Len(y) : z[n + i] = y[i]
  BY JoinIs
<1>0. \A i \in 1 .. n : x[i].k = 0
  BY Zenon DEF Zero
<1> HIDE DEF z, n
<1>3. ASSUME NEW i \in 1 .. Len(z) PROVE z[i].k # i
  <2>1. CASE i <= n
    <3>1. i \in 1 .. n /\ i # 0
      BY <1>1, <2>1
    <3>2. z[i].k = 0
      BY <1>0, <1>1, <3>1, Zenon
    <3> QED BY <3>1, <3>2, Zenon
  <2>2. CASE i > n
    <3> DEFINE j == i - n
    <3>1. j \in 1 .. Len(y) /\ n + j = i /\ j # i
      BY <1>1, <2>2
    <3> HIDE DEF j
    <3>2. z[n + j] = y[j] /\ y[j].k = j
      BY <1>1, <3>1, ZenonT(60)
    <3> QED BY <3>1, <3>2, Zenon
  <2>3. i <= n \/ i > n
    BY <1>1
  <2> QED BY <2>1, <2>2, <2>3, Zenon
<1> QED BY <1>3, Zenon DEF z, Off

\* B sends step 4: the packet starts the stream, or padding that A has not read does.
LEMMA SendVcKeeps ==
    ASSUME CryInv, SendVc
    PROVE  CryInv'
<1>1. /\ CryTypes /\ a \in AType /\ b \in BType /\ b.pc = "keyed" /\ a.pc \in {"readbuf", "vc"}
      /\ a' = a /\ received' = received /\ read' = read
  BY Zenon DEF CryInv, CryTypes, SendVc
<1> DEFINE vs == Times(VcLen, "vc") \o <<b.select, b.pad_d>> \o Times(b.pad_d, "padd")
           e == Sealed(0, vs)
<1>2. /\ vs \in Seq(Vals) /\ Len(vs) = VcLen + 2 + b.pad_d
      /\ \A i \in 1 .. VcLen : vs[i] = "vc"
      /\ vs[VcLen + 1] = b.select /\ vs[VcLen + 2] = b.pad_d
  BY <1>1, VcPacket, Zenon
<1>3. flow' = flow \o e /\ b' = [b EXCEPT !.pc = "agreed", !.ks = Len(vs)]
  BY Zenon DEF SendVc
<1> HIDE DEF vs
<1>4. VcLen \in Nat /\ b.pad_d \in Nat /\ Len(vs) \in Nat
  BY <1>1, <1>2, CryptoAssumption, AFields, SMTT(30)
<1>5. /\ e \in Seq(Byte) /\ Len(e) = Len(vs)
      /\ \A i \in 1 .. Len(vs) : e[i].k = 0 + i /\ e[i].v = vs[i]
  BY <1>2, SealedIs, Zenon
<1> HIDE DEF e
<1>6. /\ e \in Seq(Byte) /\ Len(e) = VcLen + 2 + b.pad_d
      /\ \A i \in 1 .. Len(e) : e[i].k = i
  BY <1>2, <1>5
<1>7. \A i \in 1 .. VcLen : e[i].v = "vc"
  <2>1. \A i \in 1 .. VcLen : i \in 1 .. Len(vs)
    BY <1>2, <1>4, SMTT(30)
  <2> QED BY <1>2, <1>5, <2>1, Zenon
<1>8. e[VcLen + 1].v = b.select /\ e[VcLen + 2].v = b.pad_d
  <2>1. VcLen + 1 \in 1 .. Len(vs) /\ VcLen + 2 \in 1 .. Len(vs)
    BY <1>2, <1>4, SMTT(30)
  <2> QED BY <1>2, <1>5, <2>1, Zenon
<1>9. /\ b' \in BType /\ b'.pc = "agreed" /\ b'.ks = VcLen + 2 + b.pad_d
      /\ b'.pad_d = b.pad_d /\ b'.select = b.select
  <2> DEFINE n == Len(vs)
  <2>1. n \in Nat /\ n = VcLen + 2 + b.pad_d /\ b' = [b EXCEPT !.pc = "agreed", !.ks = n]
    BY <1>2, <1>3, <1>4, Zenon
  <2> HIDE DEF n
  <2> QED BY <1>1, <2>1, Zenon DEF BType
<1>10. CryTypes' /\ Stream' = Stream \o e
  BY <1>1, <1>3, <1>5, <1>9, Appended, Zenon
<1>11. Zero(Stream) /\ Stream \in Seq(Byte) /\ Len(Stream) \in Nat
  BY <1>1, Streams DEF CryInv, BeforeVc
<1>12. Off(Stream') \/ (a'.pos = 0 /\ Whole(Stream)')
  <2>1. CASE Len(Stream) # 0
    BY <1>6, <1>10, <1>11, <2>1, BehindPadding, Zenon
  <2>2. CASE Len(Stream) = 0
    <3>1. Stream = <<>>
      BY <1>11, <2>2, SMTT(30)
    <3>2. Stream' = e
      BY <1>6, <1>10, <3>1, NothingJoined, Zenon
    <3>3. Whole(Stream)'
      BY <1>6, <1>7, <1>8, <1>9, <3>2, Zenon DEF Whole
    <3>4. a.pc # "vc"
      <4>1. a.recv \in Seq(Byte) /\ received \in Seq(Byte) /\ flow \in Seq(Byte)
            /\ Len(Stream) = Len(a.recv) + Len(received) + Len(flow)
        BY <1>1, Streams, AFields, Zenon DEF CryTypes
      <4>2. Len(a.recv) = 0
        <5> DEFINE p == Len(a.recv)
                   q == Len(received)
                   r == Len(flow)
        <5>1. p \in Nat /\ q \in Nat /\ r \in Nat
          BY <4>1
        <5>2. p + q + r = 0
          BY <2>2, <4>1, Zenon
        <5> HIDE DEF p, q, r
        <5>3. p = 0
          BY <5>1, <5>2, SMTT(30)
        <5> QED BY <5>3, Zenon DEF p
      <4>3. a.recv = <<>>
        BY <4>1, <4>2, SMTT(30)
      <4> QED BY <4>3, Zenon DEF CryInv, AtVc
    <3>5. a.pos = 0
      BY <1>1, <3>4, Zenon DEF CryInv, BeforeVc
    <3> QED BY <1>1, <3>3, <3>5, Zenon
  <2> QED BY <2>1, <2>2, Zenon
<1>14. BeforeVc'
  BY <1>1, <1>9, Zenon DEF CryInv, BeforeVc
<1>15. AtVc'
  <2>1. Off(Stream)' \/ (a'.pos = 0 /\ Whole(Stream)')
    BY <1>12, Zenon DEF Off
  <2> QED BY <1>1, <1>9, <2>1, Zenon DEF CryInv, AtVc, BeforeVc
<1>16. AfterVc'
  BY <1>1, <1>9, Zenon DEF CryInv, AfterVc, BeforeVc
<1>17. ReadOK' /\ read' \in Seq(Vals)
  BY <1>1, Zenon DEF CryInv, ReadOK
<1> QED BY <1>10, <1>14, <1>15, <1>16, <1>17, ZenonT(30) DEF CryInv

\* B starts to talk where A has stopped to decrypt.
LEMMA SendPayloadKeeps ==
    ASSUME CryInv, SendPayload
    PROVE  CryInv'
<1>1. /\ CryTypes /\ a \in AType /\ b \in BType /\ b.pc = "agreed" /\ a.pc = "readhs"
      /\ a' = a /\ received' = received /\ read' = read /\ b' = [b EXCEPT !.pc = "talking"]
  BY Zenon DEF CryInv, CryTypes, SendPayload
<1> DEFINE n == HandshakeLen + 1
           vs == Times(n, "pay")
           e == IF b.select = "rc4" THEN Sealed(b.ks, vs) ELSE Times(Len(vs), Clear("pay"))
<1>2. flow' = flow \o e
  BY Zenon DEF SendPayload
<1>3. n \in Nat /\ b.ks \in Nat /\ "pay" \in Vals /\ Clear("pay") \in Byte /\ Clear("pay").v = "pay"
  <2>1. "pay" \in Vals
    BY Zenon DEF Vals
  <2> QED BY <1>1, <2>1, CryptoAssumption, AFields, ClearIs, SMTT(30)
<1> HIDE DEF n
<1>4. vs \in Seq(Vals) /\ Len(vs) = n /\ \A i \in 1 .. n : vs[i] = "pay"
  BY <1>3, TimesIs
<1> HIDE DEF vs
<1>5. /\ e \in Seq(Byte)
      /\ \A i \in 1 .. Len(e) : e[i].v = "pay" /\ (b.select = "rc4" => e[i].k = b.ks + i)
  <2>1. CASE b.select = "rc4"
    <3> DEFINE from == b.ks
               g == Sealed(from, vs)
    <3>1. from \in Nat /\ e = g
      BY <1>3, <2>1, Zenon
    <3> HIDE DEF from
    <3>2. /\ g \in Seq(Byte) /\ Len(g) = Len(vs)
          /\ \A i \in 1 .. Len(vs) : g[i].k = from + i /\ g[i].v = vs[i]
      BY <1>4, <3>1, SealedIs, Zenon
    <3> HIDE DEF g, e
    <3> QED BY <1>4, <3>1, <3>2, Zenon DEF from
  <2>2. CASE b.select # "rc4"
    <3> DEFINE c == Clear("pay")
               g == Times(n, c)
    <3>1. c \in Byte /\ c.v = "pay" /\ e = g
      BY <1>3, <1>4, <2>2, Zenon
    <3> HIDE DEF c
    <3>0. c \in Byte /\ n \in Nat
      BY <1>3, <3>1, Zenon
    <3>2. g \in Seq(Byte) /\ Len(g) = n /\ \A i \in 1 .. n : g[i] = c
      BY <3>0, TimesIs, Zenon
    <3> HIDE DEF g, e
    <3>3. \A i \in 1 .. Len(g) : g[i].v = "pay"
      BY <3>1, <3>2, Zenon
    <3> QED BY <2>2, <3>1, <3>2, <3>3, ZenonT(30)
  <2> QED BY <2>1, <2>2, Zenon
<1> HIDE DEF e
<1>6. b' \in BType /\ b'.pc = "talking" /\ b'.ks = b.ks /\ b'.pad_d = b.pad_d /\ b'.select = b.select
  BY <1>1, ByteTyped, Zenon
<1>7. CryTypes' /\ Stream' = Stream \o e /\ Coming' = Coming \o e
  BY <1>1, <1>2, <1>5, <1>6, Appended, ZenonT(30)
<1>8. Coming = <<>> /\ a.ks = b.ks /\ a.select = b.select /\ b.ks = VcLen + 2 + b.pad_d
  BY <1>1, Zenon DEF CryInv, AfterVc, BeforeVc
<1>9. Coming' = e
  BY <1>5, <1>7, <1>8, NothingJoined, ZenonT(30)
<1>10. Talk(Coming)'
  BY <1>1, <1>5, <1>6, <1>8, <1>9, Zenon DEF Talk
<1>14. BeforeVc'
  BY <1>1, <1>6, <1>8, Zenon DEF BeforeVc
<1>15. AtVc'
  BY <1>1, <1>6, Zenon DEF AtVc
<1>16. AfterVc'
  BY <1>1, <1>6, <1>8, <1>10, Zenon DEF AfterVc
<1>17. ReadOK' /\ read' \in Seq(Vals)
  BY <1>1, Zenon DEF CryInv, ReadOK
<1> QED BY <1>7, <1>14, <1>15, <1>16, <1>17, Zenon DEF CryInv

\* The network hands bytes over and keeps their order.
LEMMA DeliverKeeps ==
    ASSUME CryInv, Deliver
    PROVE  CryInv'
<1>1. /\ CryTypes /\ a \in AType /\ b \in BType /\ received \in Seq(Byte) /\ flow \in Seq(Byte)
      /\ a' = a /\ b' = b /\ read' = read
  BY Zenon DEF CryInv, CryTypes, Deliver
<1>2. PICK n \in 1 .. Len(flow) : /\ received' = received \o SubSeq(flow, 1, n)
                                  /\ flow' = SubSeq(flow, n + 1, Len(flow))
  BY Zenon DEF Deliver
<1> DEFINE y == SubSeq(flow, 1, n)
           z == SubSeq(flow, n + 1, Len(flow))
<1>3. n \in Nat /\ n <= Len(flow)
  BY <1>1
<1>4. y \in Seq(Byte) /\ z \in Seq(Byte) /\ y \o z = flow
  BY <1>1, <1>3, SplitJoin, Zenon
<1>5. received' = received \o y /\ flow' = z
  BY <1>2, Zenon
<1> HIDE DEF y, z
<1>0. received \in Seq(Byte) /\ y \in Seq(Byte) /\ z \in Seq(Byte)
  BY <1>1, <1>4, Zenon
<1>6. received \o y \in Seq(Byte)
  BY <1>0, JoinIs, Zenon
<1>7. (received \o y) \o z = received \o (y \o z)
  BY <1>0, StreamParts, SMTT(30)
<1>8. CryTypes'
  BY <1>1, <1>4, <1>5, <1>6, Zenon DEF CryTypes
<1>9. Coming' = Coming
  BY <1>4, <1>5, <1>7, Zenon DEF Coming
<1>10. Stream' = Stream
  <2>1. Stream = a.recv \o Coming
    BY <1>1, Streams, Zenon
  <2>2. Stream' = a'.recv \o Coming'
    BY <1>8, PrimedStreams, Zenon
  <2> QED BY <1>1, <1>9, <2>1, <2>2, Zenon
<1>14. BeforeVc'
  BY <1>1, <1>10, Zenon DEF CryInv, BeforeVc, Zero
<1>15. AtVc'
  BY <1>1, <1>10, Zenon DEF CryInv, AtVc, Off, Whole
<1>16. AfterVc'
  BY <1>1, <1>9, Zenon DEF CryInv, AfterVc, Talk
<1>17. ReadOK' /\ read' \in Seq(Vals)
  BY <1>1, Zenon DEF CryInv, ReadOK
<1> QED BY <1>8, <1>14, <1>15, <1>16, <1>17, ZenonT(30) DEF CryInv

-----------------------------------------------------------------------------
(* Side A *)

\* A step of A that reads nothing.
LEMMA PcMoves ==
    ASSUME CryInv, NEW q \in APC, a' = [a EXCEPT !.pc = q], UNCHANGED <<flow, received, b, read>>
    PROVE  /\ CryTypes' /\ Stream' = Stream /\ Coming' = Coming
           /\ a'.pc = q /\ a'.recv = a.recv /\ a'.pos = a.pos /\ a'.ks = a.ks /\ a'.select = a.select
           /\ ReadOK' /\ read' \in Seq(Vals) /\ b' = b
<1>1. a \in AType
  BY Zenon DEF CryInv, CryTypes
<1>2. /\ a' \in AType /\ a'.pc = q /\ a'.recv = a.recv /\ a'.pos = a.pos /\ a'.ks = a.ks
      /\ a'.select = a.select
  BY <1>1, Zenon DEF AType
<1>3. CryTypes'
  BY <1>2, Zenon DEF CryInv, CryTypes
<1>4. Stream' = Stream /\ Coming' = Coming
  BY <1>2, Zenon DEF Stream, Coming
<1>5. ReadOK' /\ read' \in Seq(Vals)
  BY Zenon DEF CryInv, ReadOK
<1> QED BY <1>2, <1>3, <1>4, <1>5, Zenon

\* A sends its key.
LEMMA SendKeyKeeps ==
    ASSUME CryInv, SendKey
    PROVE  CryInv'
<1>0. "readkey" \in APC /\ a' = [a EXCEPT !.pc = "readkey"] /\ a.pc = "sendkey" /\ UNCHANGED <<flow, received, b, read>>
  BY Zenon DEF APC, SendKey
<1>1. /\ CryTypes' /\ Stream' = Stream /\ a'.pc = "readkey" /\ a'.recv = a.recv /\ a'.pos = a.pos
      /\ a'.ks = a.ks /\ ReadOK' /\ read' \in Seq(Vals) /\ b' = b
  BY <1>0, PcMoves, Zenon
<1>2. BeforeVc'
  BY <1>0, <1>1, Zenon DEF CryInv, BeforeVc, Zero
<1>3. AtVc' /\ AfterVc'
  BY <1>0, <1>1, Zenon DEF CryInv, BeforeVc, AtVc, AfterVc
<1> QED BY <1>1, <1>2, <1>3, Zenon DEF CryInv

\* A sends step 3.
LEMMA SendPacketKeeps ==
    ASSUME CryInv, SendPacket
    PROVE  CryInv'
<1>0. "readbuf" \in APC /\ a' = [a EXCEPT !.pc = "readbuf"] /\ a.pc = "packet" /\ UNCHANGED <<flow, received, b, read>>
  BY Zenon DEF APC, SendPacket
<1>1. /\ CryTypes' /\ Stream' = Stream /\ a'.pc = "readbuf" /\ a'.recv = a.recv /\ a'.pos = a.pos
      /\ a'.ks = a.ks /\ ReadOK' /\ read' \in Seq(Vals) /\ b' = b
  BY <1>0, PcMoves, Zenon
<1>2. BeforeVc'
  BY <1>0, <1>1, Zenon DEF CryInv, BeforeVc, Zero
<1>3. AtVc' /\ AfterVc'
  BY <1>0, <1>1, Zenon DEF CryInv, BeforeVc, AtVc, AfterVc
<1> QED BY <1>1, <1>2, <1>3, Zenon DEF CryInv

\* A read of A times out.
LEMMA ReadTimeoutKeeps ==
    ASSUME CryInv, ReadTimeout
    PROVE  CryInv'
<1>0. /\ "failed" \in APC /\ a' = [a EXCEPT !.pc = "failed"] /\ a.pc \in {"readkey", "readbuf", "vc", "pad"}
      /\ UNCHANGED <<flow, received, b, read>>
  BY Zenon DEF APC, ReadTimeout
<1>1. /\ CryTypes' /\ Stream' = Stream /\ a'.pc = "failed" /\ a'.recv = a.recv /\ a'.pos = a.pos
      /\ a'.ks = a.ks /\ ReadOK' /\ read' \in Seq(Vals) /\ b' = b
  BY <1>0, PcMoves, Zenon
<1>2. BeforeVc'
  BY <1>0, <1>1, ZenonT(30) DEF CryInv, BeforeVc, Zero
<1>3. AtVc' /\ AfterVc'
  BY <1>0, <1>1, Zenon DEF CryInv, BeforeVc, AtVc, AfterVc
<1> QED BY <1>1, <1>2, <1>3, Zenon DEF CryInv

\* A reads the key and drops the padding that came with it.
LEMMA ReadKeyKeeps ==
    ASSUME CryInv, ReadKey
    PROVE  CryInv'
<1> DEFINE q == IF Len(received) - 1 > PadMax THEN "failed" ELSE "packet"
<1>0. /\ q \in APC /\ q \in {"failed", "packet"} /\ a' = [a EXCEPT !.pc = q] /\ a.pc = "readkey"
      /\ received' = <<>> /\ UNCHANGED <<flow, b, read>>
  BY Zenon DEF APC, ReadKey
<1> HIDE DEF q
<1>1. a \in AType /\ b \in BType /\ CryTypes /\ flow \in Seq(Byte) /\ received \in Seq(Byte)
  BY Zenon DEF CryInv, CryTypes
<1>2. a' \in AType /\ a'.pc = q /\ a'.recv = a.recv /\ a'.pos = a.pos /\ a'.ks = a.ks
  BY <1>0, <1>1, Zenon DEF AType
<1>3. CryTypes'
  <2>1. <<>> \in Seq(Byte)
    OBVIOUS
  <2> QED BY <1>0, <1>1, <1>2, <2>1, Zenon DEF CryTypes
<1>4. a.recv = <<>> /\ a.pos = 0 /\ a.ks = 0 /\ b.pc \in {"start", "keyed"} /\ Zero(Stream)
  BY <1>0, <1>1, AFields, Zenon DEF CryInv, BeforeVc
<1>5. Zero(flow)
  <2>1. <<>> \o received = received
    BY <1>1, NothingJoined, Zenon
  <2>2. Stream = received \o flow
    BY <1>4, <2>1, Zenon DEF Stream
  <2> QED BY <1>1, <1>4, <2>2, ZeroJoin, Zenon
<1>6. Stream' = flow
  <2>1. Stream' = (<<>> \o <<>>) \o flow
    BY <1>0, <1>2, <1>4, Zenon DEF Stream
  <2>2. <<>> \o <<>> = <<>> /\ <<>> \o flow = flow
    BY <1>1, NothingJoined, Zenon
  <2> QED BY <2>1, <2>2, Zenon
<1>7. BeforeVc'
  BY <1>0, <1>2, <1>4, <1>5, <1>6, ZenonT(30) DEF BeforeVc, Zero
<1>8. AtVc' /\ AfterVc'
  BY <1>0, <1>2, <1>4, Zenon DEF AtVc, AfterVc
<1>9. ReadOK' /\ read' \in Seq(Vals)
  BY <1>0, Zenon DEF CryInv, ReadOK
<1> QED BY <1>3, <1>7, <1>8, <1>9, Zenon DEF CryInv

\* A takes what one read gives.
LEMMA ReadBufKeeps ==
    ASSUME CryInv, ReadBuf
    PROVE  CryInv'
<1>0. /\ a' = [a EXCEPT !.pc = "vc", !.recv = received] /\ a.pc = "readbuf" /\ received # <<>>
      /\ received' = <<>> /\ UNCHANGED <<flow, b, read>>
  BY Zenon DEF ReadBuf
<1>1. a \in AType /\ b \in BType /\ CryTypes /\ flow \in Seq(Byte) /\ received \in Seq(Byte)
  BY Zenon DEF CryInv, CryTypes
<1>2. a' \in AType /\ a'.pc = "vc" /\ a'.recv = received /\ a'.pos = a.pos /\ a'.ks = a.ks
  BY <1>0, <1>1, Zenon DEF AType, APC
<1>3. CryTypes'
  <2>1. <<>> \in Seq(Byte)
    OBVIOUS
  <2> QED BY <1>0, <1>1, <1>2, <2>1, Zenon DEF CryTypes
<1>4. a.recv = <<>> /\ a.pos = 0 /\ a.ks = 0
  BY <1>0, Zenon DEF CryInv, BeforeVc
<1>5. Stream = received \o flow /\ Stream' = received \o flow
  <2>1. <<>> \o received = received /\ received \o <<>> = received
    BY <1>1, NothingJoined, Zenon
  <2>2. Stream = (<<>> \o received) \o flow
    BY <1>4, Zenon DEF Stream
  <2>3. Stream' = (received \o <<>>) \o flow
    BY <1>0, <1>2, Zenon DEF Stream
  <2> QED BY <2>1, <2>2, <2>3, Zenon
<1>6. Stream' = Stream
  BY <1>5, Zenon
<1>7. BeforeVc'
  BY <1>0, <1>2, <1>6, Zenon DEF CryInv, BeforeVc, Zero
<1>8. AtVc'
  BY <1>0, <1>2, <1>4, <1>6, Zenon DEF CryInv, AtVc, Off, Whole
<1>9. AfterVc'
  BY <1>0, <1>2, Zenon DEF CryInv, AfterVc
<1>10. ReadOK' /\ read' \in Seq(Vals)
  BY <1>0, Zenon DEF CryInv, ReadOK
<1> QED BY <1>3, <1>7, <1>8, <1>9, <1>10, ZenonT(30) DEF CryInv

\* What A decrypts of n bytes from p on.
LEMMA SeenIs ==
    ASSUME NEW x \in Seq(Byte), NEW p \in Nat, NEW n \in Nat, p + n <= Len(x), NEW from
    PROVE  /\ Open(from, Cut(x, p, n)) \in Seq(Vals) /\ Len(Open(from, Cut(x, p, n))) = n
           /\ \A i \in 1 .. n : Open(from, Cut(x, p, n))[i] =
                                    IF x[p + i].k = from + i THEN x[p + i].v ELSE "junk"
<1> DEFINE m == p + n
           w == SubSeq(x, p + 1, m)
<1>1. m \in Nat /\ p <= m /\ m <= Len(x) /\ m - p = n
  OBVIOUS
<1>2. Cut(x, p, n) = w
  BY Zenon DEF Cut
<1> HIDE DEF m
<1>3. w \in Seq(Byte) /\ Len(w) = m - p /\ \A i \in 1 .. m - p : w[i] = x[p + i]
  BY <1>1, CutIs, SMTT(30)
<1> HIDE DEF w
<1>4. w \in Seq(Byte) /\ Len(w) = n /\ \A i \in 1 .. n : w[i] = x[p + i]
  BY <1>1, <1>3, Zenon
<1> DEFINE g == Open(from, w)
<1>5. /\ g \in Seq(Vals) /\ Len(g) = Len(w)
      /\ \A i \in 1 .. Len(w) : g[i] = IF w[i].k = from + i THEN w[i].v ELSE "junk"
  BY <1>3, OpenIs, Zenon
<1> HIDE DEF g
<1>6. \A i \in 1 .. n : g[i] = IF x[p + i].k = from + i THEN x[p + i].v ELSE "junk"
  BY <1>4, <1>5, Zenon
<1> QED BY <1>2, <1>4, <1>5, <1>6, Zenon DEF g

\* recv holds no more than the stream.
LEMMA FilledBound ==
    ASSUME CryTypes, NEW n \in Nat, Len(received) >= Missing(n)
    PROVE  Len(Filled(n)) <= Len(Stream) /\ Len(Filled(n)) \in Nat /\ Len(Stream) \in Nat
           /\ Len(Stream) = Len(Filled(n)) + Len(Remaining(n)) + Len(flow)
<1> DEFINE x == Filled(n)
           y == Remaining(n)
<1>1. x \in Seq(Byte) /\ y \in Seq(Byte) /\ flow \in Seq(Byte) /\ (x \o y) \o flow = Stream
  BY FilledIs, Zenon DEF CryTypes
<1> HIDE DEF x, y
<1>2. Len((x \o y) \o flow) = Len(x) + Len(y) + Len(flow)
  BY <1>1, StreamParts, SMTT(30)
<1>3. Len(x) \in Nat /\ Len(y) \in Nat /\ Len(flow) \in Nat
  BY <1>1, SMTT(30)
<1>4. Len(Stream) = Len(x) + Len(y) + Len(flow)
  BY <1>1, <1>2, Zenon
<1>5. \A p, q, r \in Nat : p <= p + q + r /\ p + q + r \in Nat
  OBVIOUS
<1> QED BY <1>3, <1>4, <1>5, SMTT(30) DEF x, y

\* Reading up to n bytes leaves the stream as it is.
LEMMA CutMoves ==
    ASSUME CryTypes, NEW n \in Nat, Len(received) >= Missing(n), received' = Remaining(n),
           a'.recv = Filled(n), a' \in AType, flow' = flow, b' = b
    PROVE  CryTypes' /\ Stream' = Stream
<1>1. Filled(n) \in Seq(Byte) /\ Remaining(n) \in Seq(Byte) /\ (Filled(n) \o Remaining(n)) \o flow = Stream
  BY FilledIs, Zenon
<1>2. CryTypes'
  BY <1>1, Zenon DEF CryTypes
<1>3. Stream' = (Filled(n) \o Remaining(n)) \o flow
  BY Zenon DEF Stream
<1> QED BY <1>1, <1>2, <1>3, Zenon

\* A tries the next place for VC, and finds it only where the packet starts the stream.
LEMMA SeekVcKeeps ==
    ASSUME CryInv, SeekVc
    PROVE  CryInv'
<1> DEFINE end == a.pos + VcLen
           x == Filled(end)
           g == Open(a.ks, Cut(x, a.pos, VcLen))
           hit == g = Times(VcLen, "vc")
           q == IF hit THEN "option" ELSE IF end >= VcMaxOffset THEN "novc" ELSE "vc"
<1>1. a \in AType /\ b \in BType /\ CryTypes /\ flow \in Seq(Byte) /\ received \in Seq(Byte)
  BY Zenon DEF CryInv, CryTypes
<1>0. /\ a.pc = "vc" /\ Len(received) >= Missing(end) /\ received' = Remaining(end)
      /\ a' = [a EXCEPT !.recv = x, !.ks = @ + VcLen, !.pos = end, !.pc = q]
      /\ UNCHANGED <<flow, b, read>>
  BY Zenon DEF SeekVc
<1>2. a.pos \in Nat /\ a.ks \in Nat /\ VcLen \in Nat /\ VcLen > 2 /\ end \in Nat /\ a.recv \in Seq(Byte)
  BY <1>1, AFields, CryptoAssumption, SMTT(30)
<1>3. a.ks = a.pos /\ a.recv # <<>>
  BY <1>0, Zenon DEF CryInv, AtVc
<1>4. /\ x \in Seq(Byte) /\ Len(x) >= end /\ Len(x) >= Len(a.recv)
      /\ \A i \in 1 .. Len(x) : x[i] = Stream[i]
  BY <1>0, <1>1, <1>2, FilledIs, Zenon
<1>5. Len(x) \in Nat /\ Len(Stream) \in Nat /\ Len(x) <= Len(Stream)
  BY <1>0, <1>1, <1>2, FilledBound, Zenon
<1>6. /\ g \in Seq(Vals) /\ Len(g) = VcLen
      /\ \A i \in 1 .. VcLen : g[i] = IF x[a.pos + i].k = a.ks + i THEN x[a.pos + i].v ELSE "junk"
  <2> DEFINE p == a.pos
             from == a.ks
  <2>1. p \in Nat /\ p + VcLen <= Len(x) /\ x \in Seq(Byte) /\ VcLen \in Nat
    BY <1>2, <1>4, <1>5, ZenonT(60)
  <2> HIDE DEF p, from, x
  <2>2. /\ Open(from, Cut(x, p, VcLen)) \in Seq(Vals) /\ Len(Open(from, Cut(x, p, VcLen))) = VcLen
        /\ \A i \in 1 .. VcLen : Open(from, Cut(x, p, VcLen))[i] =
                                    IF x[p + i].k = from + i THEN x[p + i].v ELSE "junk"
    BY <2>1, SeenIs, SMTT(30)
  <2> QED BY <2>2, Zenon DEF p, from
<1> HIDE DEF g
<1>7. "vc" \in Vals /\ Times(VcLen, "vc") \in Seq(Vals) /\ Len(Times(VcLen, "vc")) = VcLen
      /\ \A i \in 1 .. VcLen : Times(VcLen, "vc")[i] = "vc"
  <2>1. "vc" \in Vals
    BY Zenon DEF Vals
  <2> QED BY <1>2, <2>1, TimesIs, Zenon
<1>8. ASSUME Zero(Stream) \/ Off(Stream) PROVE ~ hit
  <2> DEFINE j == a.pos + 1
  <2>1. j \in 1 .. Len(x) /\ j \in 1 .. Len(Stream) /\ j = a.ks + 1 /\ j # 0 /\ 1 \in 1 .. VcLen
    BY <1>2, <1>3, <1>4, <1>5, SMTT(30)
  <2>2. g[1] = IF x[j].k = a.ks + 1 THEN x[j].v ELSE "junk"
    BY <1>6, <2>1, Zenon
  <2> HIDE DEF j, x
  <2>3. Stream[j].k # j
    BY <1>8, <2>1, Zenon DEF Zero, Off
  <2>4. x[j] = Stream[j]
    BY <1>4, <2>1, Zenon
  <2>5. g[1] = "junk"
    BY <2>1, <2>2, <2>3, <2>4, Zenon
  <2>6. Times(VcLen, "vc")[1] = "vc"
    BY <1>7, <2>1, Zenon
  <2> QED BY <2>5, <2>6, Zenon
<1>9. ASSUME Whole(Stream), a.pos = 0 PROVE hit
  <2>1. ASSUME NEW i \in 1 .. VcLen PROVE g[i] = "vc"
    <3>1. i \in 1 .. Len(x) /\ i \in 1 .. Len(Stream) /\ a.pos + i = i /\ a.ks + i = i
      BY <1>2, <1>3, <1>4, <1>5, <1>9, SMTT(30)
    <3>2. Stream[i].k = i /\ Stream[i].v = "vc"
      BY <1>9, <3>1, Zenon DEF Whole
    <3>3. x[i] = Stream[i]
      BY <1>4, <3>1, Zenon
    <3> HIDE DEF x
    <3>4. g[i] = IF x[i].k = i THEN x[i].v ELSE "junk"
      BY <1>6, <3>1, Zenon
    <3> QED BY <3>2, <3>3, <3>4, ZenonT(60)
  <2>2. \A i \in 1 .. Len(g) : g[i] = Times(VcLen, "vc")[i]
    BY <1>6, <1>7, <2>1, Zenon
  <2> DEFINE t == Times(VcLen, "vc")
  <2>3. t \in Seq(Vals) /\ g \in Seq(Vals) /\ Len(g) = Len(t) /\ \A i \in 1 .. Len(g) : g[i] = t[i]
    BY <1>6, <1>7, <2>2, Zenon
  <2> HIDE DEF t
  <2>4. g = t
    BY <2>3, SameSeq, Zenon
  <2> QED BY <2>4, Zenon DEF t
<1>10. q \in {"option", "novc", "vc"} /\ (q = "option" <=> hit)
  BY Zenon
<1> HIDE DEF hit, q, x
<1>11. /\ a' \in AType /\ a'.pc = q /\ a'.recv = x /\ a'.pos = a.pos + VcLen /\ a'.ks = a.ks + VcLen
       /\ a'.select = a.select
  <2> DEFINE k == a.ks + VcLen
             p == a.pos + VcLen
  <2>1. k \in Nat /\ p \in Nat /\ a' = [a EXCEPT !.recv = x, !.ks = k, !.pos = p, !.pc = q] /\ q \in APC
    BY <1>0, <1>1, <1>2, <1>10, SMTT(30) DEF AType, APC
  <2> HIDE DEF k, p
  <2>2. /\ a' \in AType /\ a'.pc = q /\ a'.recv = x /\ a'.pos = p /\ a'.ks = k /\ a'.select = a.select
    BY <1>1, <1>4, <2>1, Zenon DEF AType
  <2> QED BY <2>2, Zenon DEF k, p
<1>12. CryTypes' /\ Stream' = Stream
  BY <1>0, <1>1, <1>2, <1>11, CutMoves, Zenon DEF x
<1>13. x # <<>> /\ (a.pos = 0 => Len(x) >= VcLen)
  <2>1. Len(x) # 0
    BY <1>2, <1>4, <1>5, SMTT(30)
  <2>2. a.pos = 0 => Len(x) >= VcLen
    BY <1>2, <1>4, <1>5, SMTT(30)
  <2> QED BY <2>1, <2>2, SMTT(30)
<1>14. q = "option" => b.pc = "agreed" /\ Whole(Stream) /\ a.pos = 0
  <2>1. ASSUME hit PROVE b.pc = "agreed" /\ Whole(Stream) /\ a.pos = 0
    <3>1. b.pc \notin {"start", "keyed"}
      BY <1>8, <2>1, Zenon DEF CryInv, BeforeVc
    <3>2. b.pc # "talking"
      BY <1>0, Zenon DEF CryInv, AfterVc
    <3>3. b.pc = "agreed"
      BY <1>1, <3>1, <3>2, AFields, ZenonT(60)
    <3> QED BY <1>0, <1>8, <2>1, <3>3, Zenon DEF CryInv, AtVc
  <2> QED BY <1>10, <2>1, Zenon
<1>15. q = "vc" /\ b.pc = "agreed" => Off(Stream)
  <2>1. q = "vc" => ~ hit
    BY <1>10, Zenon
  <2> QED BY <1>0, <1>9, <2>1, ZenonT(60) DEF CryInv, AtVc
<1>16. BeforeVc'
  <2>1. q \notin {"sendkey", "readkey", "packet", "readbuf", "pad", "readhs", "short", "open"}
    BY <1>10, Zenon
  <2>2. b' = b /\ (q = "option" => b.pc = "agreed")
    BY <1>0, <1>14, Zenon
  <2> QED BY <1>0, <1>11, <1>12, <2>1, <2>2, Zenon DEF CryInv, BeforeVc, Zero
<1>17. AtVc'
  <2>1. a'.pc = "vc" => a'.recv # <<>> /\ a'.ks = a'.pos
    BY <1>3, <1>11, <1>13, Zenon
  <2>2. a'.pc \in {"readbuf", "vc"} /\ b'.pc = "agreed" => Off(Stream)'
    BY <1>0, <1>10, <1>11, <1>12, <1>15, Zenon DEF Off
  <2>3. a'.pc = "option" => /\ b'.pc = "agreed" /\ Whole(Stream)' /\ a'.pos = VcLen /\ a'.ks = VcLen
                            /\ Len(a'.recv) >= VcLen
    <3>1. ASSUME q = "option" PROVE /\ b'.pc = "agreed" /\ Whole(Stream)' /\ a'.pos = VcLen /\ a'.ks = VcLen
                            /\ Len(a'.recv) >= VcLen
      <4>1. b.pc = "agreed" /\ Whole(Stream) /\ a.pos = 0 /\ b' = b
        BY <1>0, <1>14, <3>1, Zenon
      <4>2. Whole(Stream)'
        BY <1>12, <4>1, Zenon DEF Whole
      <4>3. a'.pos = VcLen /\ a'.ks = VcLen
        BY <1>2, <1>3, <1>11, <4>1, SMTT(30)
      <4>4. Len(a'.recv) >= VcLen
        BY <1>11, <1>13, <4>1, Zenon
      <4> QED BY <4>1, <4>2, <4>3, <4>4, ZenonT(60)
    <3> QED BY <1>11, <3>1, Zenon
  <2>4. a'.pc # "pad"
    BY <1>10, <1>11, Zenon
  <2> QED BY <2>1, <2>2, <2>3, <2>4, Zenon DEF AtVc
<1>18. AfterVc'
  BY <1>0, <1>10, <1>11, Zenon DEF CryInv, AfterVc
<1>19. ReadOK' /\ read' \in Seq(Vals)
  BY <1>0, Zenon DEF CryInv, ReadOK
<1> QED BY <1>12, <1>16, <1>17, <1>18, <1>19, ZenonT(30) DEF CryInv

\* What A holds starts the stream.
LEMMA HeldFirst ==
    ASSUME CryTypes
    PROVE  /\ \A i \in 1 .. Len(a.recv) : Stream[i] = a.recv[i]
           /\ Len(a.recv) <= Len(Stream) /\ Len(a.recv) \in Nat /\ Len(Stream) \in Nat
<1> DEFINE x == a.recv
<1>1. x \in Seq(Byte) /\ received \in Seq(Byte) /\ flow \in Seq(Byte)
  BY AFields, Zenon DEF CryTypes
<1>2. Stream = (x \o received) \o flow
  BY Zenon DEF Stream
<1> HIDE DEF x
<1>3. \A i \in 1 .. Len(x) : ((x \o received) \o flow)[i] = x[i]
  BY <1>1, PrefixIs, SMTT(30)
<1>4. Len((x \o received) \o flow) = Len(x) + Len(received) + Len(flow)
  BY <1>1, StreamParts, SMTT(30)
<1>5. Len(x) \in Nat /\ Len(received) \in Nat /\ Len(flow) \in Nat
  BY <1>1
<1>6. Len(Stream) = Len(x) + Len(received) + Len(flow)
  BY <1>2, <1>4, Zenon
<1>7. \A p, q, r \in Nat : p <= p + q + r /\ p + q + r \in Nat
  OBVIOUS
<1> QED BY <1>2, <1>3, <1>5, <1>6, <1>7, SMTT(30) DEF x

\* What is read where the option of step 4 stands.
LEMMA OptionIs ==
    ASSUME CryTypes, Whole(Stream), Len(a.recv) >= VcLen + 2
    PROVE  LET opt == Open(VcLen, Cut(a.recv, VcLen, 2))
           IN  opt[1] = b.select /\ opt[2] = b.pad_d
<1> DEFINE x == a.recv
           opt == Open(VcLen, Cut(x, VcLen, 2))
<1>1. x \in Seq(Byte) /\ VcLen \in Nat /\ b.pad_d \in Nat /\ 2 \in Nat
  BY AFields, CryptoAssumption, Zenon DEF CryTypes
<1>2. /\ \A i \in 1 .. Len(x) : Stream[i] = x[i]
      /\ Len(x) <= Len(Stream) /\ Len(x) \in Nat /\ Len(Stream) \in Nat
  BY HeldFirst, Zenon
<1>3. VcLen + 2 <= Len(x)
  BY <1>1, <1>2, Zenon
<1> HIDE DEF x
<1>4. \A i \in 1 .. 2 : opt[i] = IF x[VcLen + i].k = VcLen + i THEN x[VcLen + i].v ELSE "junk"
  BY <1>1, <1>3, SeenIs, SMTT(30)
<1> HIDE DEF opt
<1>5. ASSUME NEW i \in 1 .. 2 PROVE opt[i] = Stream[VcLen + i].v
  <2> DEFINE j == VcLen + i
  <2>1. j \in 1 .. Len(x) /\ j \in 1 .. Len(Stream)
    BY <1>1, <1>2, <1>3, SMTT(30)
  <2>2. opt[i] = IF x[j].k = j THEN x[j].v ELSE "junk"
    BY <1>4, Zenon
  <2> HIDE DEF j
  <2>3. Stream[j] = x[j] /\ Stream[j].k = j
    BY <1>2, <2>1, Zenon DEF Whole
  <2>4. opt[i] = Stream[j].v
    BY <2>2, <2>3, Zenon
  <2> QED BY <2>4, Zenon DEF j
<1>6. 1 \in 1 .. 2 /\ 2 \in 1 .. 2
  OBVIOUS
<1>7. opt[1] = b.select /\ opt[2] = b.pad_d
  BY <1>5, <1>6, Zenon DEF Whole
<1> QED BY <1>7, Zenon DEF opt, x

\* A reads crypto_select and len(padD).
LEMMA ReadOptionKeeps ==
    ASSUME CryInv, ReadOption
    PROVE  CryInv'
<1> DEFINE end == a.pos + OptionLen
           opt == Open(a.ks, Cut(a.recv, a.pos, OptionLen))
<1>0. /\ a.pc = "option" /\ UNCHANGED <<flow, received, b, read>>
      /\ a' = IF Len(a.recv) < end THEN [a EXCEPT !.pc = "panic"]
              ELSE IF opt[1] \notin {"rc4", "plain"} THEN [a EXCEPT !.pc = "failed"]
              ELSE [a EXCEPT !.pc = "pad", !.pos = end, !.ks = @ + OptionLen, !.select = opt[1]]
  BY Zenon DEF ReadOption
<1>1. a \in AType /\ b \in BType /\ CryTypes /\ a.recv \in Seq(Byte) /\ VcLen \in Nat /\ OptionLen = 2
      /\ Len(a.recv) \in Nat
  BY AFields, CryptoAssumption, HeldFirst, ZenonT(60) DEF CryInv, CryTypes
<1>2. b.pc = "agreed" /\ Whole(Stream) /\ a.pos = VcLen /\ a.ks = VcLen /\ b.ks = VcLen + 2 + b.pad_d
  BY <1>0, Zenon DEF CryInv, AtVc, BeforeVc
<1>3. end = VcLen + 2 /\ opt = Open(VcLen, Cut(a.recv, VcLen, 2)) /\ a.ks + OptionLen = VcLen + 2
  BY <1>1, <1>2, Zenon
<1> HIDE DEF end, opt
<1>4. ASSUME NEW q \in {"panic", "failed"}, a' = [a EXCEPT !.pc = q] PROVE CryInv'
  <2>0. q \in APC
    BY Zenon DEF APC
  <2>1. /\ CryTypes' /\ Stream' = Stream /\ a'.pc = q /\ a'.recv = a.recv /\ a'.pos = a.pos
        /\ a'.ks = a.ks /\ ReadOK' /\ read' \in Seq(Vals) /\ b' = b
    BY <1>0, <1>4, <2>0, PcMoves, Zenon
  <2>2. BeforeVc'
    BY <1>2, <2>1, Zenon DEF BeforeVc
  <2>3. AtVc' /\ AfterVc'
    BY <1>2, <2>1, Zenon DEF AtVc, AfterVc
  <2> QED BY <2>1, <2>2, <2>3, Zenon DEF CryInv
<1>5. ASSUME Len(a.recv) >= end, opt[1] \in {"rc4", "plain"},
             a' = [a EXCEPT !.pc = "pad", !.pos = end, !.ks = @ + OptionLen, !.select = opt[1]]
      PROVE  CryInv'
  <2>1. opt[1] = b.select
    <3>1. Len(a.recv) >= VcLen + 2
      BY <1>3, <1>5, Zenon
    <3> QED BY <1>1, <1>2, <1>3, <3>1, OptionIs, ZenonT(30)
  <2>2. /\ a' \in AType /\ a'.pc = "pad" /\ a'.pos = VcLen + 2 /\ a'.ks = VcLen + 2 /\ a'.select = b.select
        /\ a'.recv = a.recv
    <3> DEFINE m == VcLen + 2
               o == b.select
    <3>0. m \in Nat /\ end = m /\ a.ks + OptionLen = m
      BY <1>1, <1>3
    <3>4. o \in {"rc4", "plain"} /\ opt[1] = o
      BY <1>5, <2>1, Zenon
    <3> HIDE DEF m, o
    <3>5. a' = [a EXCEPT !.pc = "pad", !.pos = m, !.ks = m, !.select = o]
      BY <1>5, <3>0, <3>4, Zenon
    <3>1. m \in Nat /\ o \in {"rc4", "plain"} /\ a' = [a EXCEPT !.pc = "pad", !.pos = m, !.ks = m, !.select = o]
      BY <3>0, <3>4, <3>5, Zenon
    <3>2. a' \in AType /\ a'.pc = "pad" /\ a'.pos = m /\ a'.ks = m /\ a'.select = o /\ a'.recv = a.recv
      BY <1>1, <3>1, Zenon DEF AType, APC
    <3> QED BY <3>2, Zenon DEF m, o
  <2>3. CryTypes' /\ Stream' = Stream
    BY <1>0, <1>1, <2>2, Zenon DEF CryTypes, Stream
  <2>4. Whole(Stream)' /\ b' = b
    BY <1>0, <1>2, <2>3, Zenon DEF Whole
  <2>5. Len(a'.recv) >= VcLen + 2
    BY <1>3, <1>5, <2>2, Zenon
  <2>6. BeforeVc'
    BY <1>2, <2>2, <2>4, Zenon DEF BeforeVc
  <2>7. AtVc'
    BY <1>2, <2>2, <2>4, <2>5, Zenon DEF AtVc
  <2>8. AfterVc'
    BY <1>2, <2>2, <2>4, Zenon DEF AfterVc
  <2>9. ReadOK' /\ read' \in Seq(Vals)
    BY <1>0, Zenon DEF CryInv, ReadOK
  <2> QED BY <2>3, <2>6, <2>7, <2>8, <2>9, ZenonT(30) DEF CryInv
<1>6. Len(a.recv) < end \/ Len(a.recv) >= end
  BY <1>1, <1>3, SMTT(30)
<1> QED BY <1>0, <1>4, <1>5, <1>6, ZenonT(60)

\* A decrypts padD to its end, which is the end of the stream.
LEMMA ReadPadKeeps ==
    ASSUME CryInv, ReadPad
    PROVE  CryInv'
<1> DEFINE end == a.pos + PadLen
           x == Filled(end)
<1>0. /\ a.pc = "pad" /\ Len(received) >= Missing(end) /\ received' = Remaining(end)
      /\ a' = [a EXCEPT !.pc = "readhs", !.recv = x, !.pos = end, !.ks = @ + AfterPad(end, x) - a.pos]
      /\ UNCHANGED <<flow, b, read>>
  BY Zenon DEF ReadPad
<1>1. a \in AType /\ b \in BType /\ CryTypes /\ a.recv \in Seq(Byte) /\ VcLen \in Nat /\ OptionLen = 2
      /\ b.pad_d \in Nat
  BY AFields, CryptoAssumption, Zenon DEF CryInv, CryTypes
<1>2. /\ b.pc = "agreed" /\ Whole(Stream) /\ a.pos = VcLen + 2 /\ a.ks = VcLen + 2
      /\ Len(a.recv) >= VcLen + 2 /\ a.select = b.select /\ b.ks = VcLen + 2 + b.pad_d
  BY <1>0, Zenon DEF CryInv, AtVc, BeforeVc
<1>3. PadLen = b.pad_d
  <2>1. a.ks - OptionLen = VcLen /\ a.pos - OptionLen = VcLen
    BY <1>1, <1>2, SMTT(30)
  <2>2. PadLen = Open(VcLen, Cut(a.recv, VcLen, 2))[2]
    BY <1>1, <2>1, Zenon DEF PadLen
  <2> QED BY <1>1, <1>2, <2>2, OptionIs, ZenonT(60)
<1>4. end \in Nat /\ end = b.ks /\ end = Len(Stream)
  BY <1>1, <1>2, <1>3, SMTT(30) DEF Whole
<1> HIDE DEF end
<1>5. /\ x \in Seq(Byte) /\ Len(x) >= end
  BY <1>0, <1>1, <1>4, FilledIs, Zenon
<1>6. /\ Len(x) \in Nat /\ Len(Stream) \in Nat /\ Len(x) <= Len(Stream)
      /\ Len(Stream) = Len(x) + Len(Remaining(end)) + Len(flow)
  BY <1>0, <1>1, <1>4, FilledBound, Zenon
<1>7. Len(x) = end
  BY <1>4, <1>5, <1>6, SMTT(30)
<1> HIDE DEF x
<1>8. AfterPad(end, x) = end
  BY <1>4, <1>7, SMTT(30) DEF AfterPad
<1>9. a.ks + AfterPad(end, x) - a.pos = end
  BY <1>1, <1>2, <1>4, <1>8, SMTT(30)
<1>10. /\ a' \in AType /\ a'.pc = "readhs" /\ a'.recv = x /\ a'.ks = b.ks /\ a'.select = b.select
  <2>1. a' = [a EXCEPT !.pc = "readhs", !.recv = x, !.pos = end, !.ks = end]
    BY <1>0, <1>9, Zenon
  <2> QED BY <1>1, <1>2, <1>4, <1>5, <2>1, Zenon DEF AType, APC
<1>11. CryTypes' /\ Stream' = Stream
  BY <1>0, <1>1, <1>4, <1>10, CutMoves, Zenon DEF x
<1>12. Coming' = <<>>
  <2>1. Remaining(end) \in Seq(Byte) /\ flow \in Seq(Byte)
    BY <1>0, <1>1, <1>4, FilledIs, Zenon DEF CryTypes
  <2> DEFINE r == Remaining(end)
             p == Len(r)
             f == Len(flow)
  <2>2. p \in Nat /\ f \in Nat /\ end = end + p + f
    BY <1>4, <1>6, <1>7, <2>1, SMTT(30)
  <2> HIDE DEF p, f
  <2>3. p = 0 /\ f = 0
    BY <1>4, <2>2, SMTT(30)
  <2> USE DEF p, f
  <2>4. r = <<>> /\ flow = <<>>
    BY <2>1, <2>3, SMTT(30)
  <2>5. Coming' = <<>> \o <<>>
    BY <1>0, <2>4, Zenon DEF Coming
  <2> QED BY <2>5
<1>13. b' = b
  BY <1>0, Zenon
<1>14. BeforeVc'
  BY <1>2, <1>10, <1>13, Zenon DEF BeforeVc
<1>15. AtVc'
  BY <1>2, <1>10, <1>13, Zenon DEF AtVc
<1>16. AfterVc'
  BY <1>2, <1>10, <1>12, <1>13, Zenon DEF AfterVc
<1>17. ReadOK' /\ read' \in Seq(Vals)
  BY <1>0, Zenon DEF CryInv, ReadOK
<1> QED BY <1>11, <1>14, <1>15, <1>16, <1>17, Zenon DEF CryInv

\* What is left of the payload once its first bytes are gone.
LEMMA TalkCut ==
    ASSUME NEW h \in Seq(Byte), NEW t \in Seq(Byte), received = h \o t, flow \in Seq(Byte),
           Talk(Coming), a.ks \in Nat
    PROVE  /\ \A i \in 1 .. Len(h) : h[i].v = "pay" /\ (b.select = "rc4" => h[i].k = a.ks + i)
           /\ \A i \in 1 .. Len(t \o flow) :
                 /\ (t \o flow)[i].v = "pay"
                 /\ (b.select = "rc4" => (t \o flow)[i].k = a.ks + Len(h) + i)
<1> DEFINE n == Len(h)
           r == t \o flow
           w == h \o r
<1>1. Coming = (h \o t) \o flow
  BY Zenon DEF Coming
<1>2. (h \o t) \o flow = w /\ r \in Seq(Byte)
  BY StreamParts, SMTT(30)
<1> HIDE DEF r
<1>3. /\ n \in Nat /\ Len(r) \in Nat /\ Len(w) = n + Len(r)
      /\ \A i \in 1 .. n : w[i] = h[i]
      /\ \A i \in 1 .. Len(r) : w[n + i] = r[i]
  BY <1>2, JoinIs
<1> HIDE DEF w
<1>4. \A i \in 1 .. Len(w) : w[i].v = "pay" /\ (b.select = "rc4" => w[i].k = a.ks + i)
  BY <1>1, <1>2, Zenon DEF Talk
<1> HIDE DEF n
<1>5. ASSUME NEW i \in 1 .. n PROVE h[i].v = "pay" /\ (b.select = "rc4" => h[i].k = a.ks + i)
  <2>1. i \in 1 .. Len(w)
    BY <1>3
  <2> QED BY <1>3, <1>4, <2>1, Zenon
<1>6. ASSUME NEW i \in 1 .. Len(r)
      PROVE  r[i].v = "pay" /\ (b.select = "rc4" => r[i].k = a.ks + n + i)
  <2> DEFINE j == n + i
  <2>1. j \in 1 .. Len(w) /\ a.ks + j = a.ks + n + i
    BY <1>3, SMTT(30)
  <2>2. w[j] = r[i]
    BY <1>3, Zenon
  <2> HIDE DEF j
  <2>3. w[j].v = "pay" /\ (b.select = "rc4" => w[j].k = a.ks + j)
    BY <1>4, <2>1, Zenon
  <2> QED BY <2>1, <2>2, <2>3, Zenon
<1> QED BY <1>5, <1>6, Zenon DEF n, r

\* Payload at the position of A decrypts to payload.
LEMMA DecryptIs ==
    ASSUME NEW h \in Seq(Byte), a.select = b.select,
           \A i \in 1 .. Len(h) : h[i].v = "pay" /\ (b.select = "rc4" => h[i].k = a.ks + i)
    PROVE  /\ Decrypt(h) \in Seq(Vals) /\ Len(Decrypt(h)) = Len(h)
           /\ \A i \in 1 .. Len(h) : Decrypt(h)[i] = "pay"
<1>1. "pay" \in Vals
  BY Zenon DEF Vals
<1>2. CASE a.select = "rc4"
  <2> DEFINE from == a.ks
             g == Open(from, h)
  <2>1. Decrypt(h) = g
    BY <1>2, Zenon DEF Decrypt
  <2>2. \A i \in 1 .. Len(h) : h[i].v = "pay" /\ h[i].k = from + i
    BY <1>2, Zenon
  <2> HIDE DEF from
  <2>3. /\ g \in Seq(Vals) /\ Len(g) = Len(h)
        /\ \A i \in 1 .. Len(h) : g[i] = IF h[i].k = from + i THEN h[i].v ELSE "junk"
    BY OpenIs, Zenon
  <2> HIDE DEF g
  <2>4. \A i \in 1 .. Len(h) : g[i] = "pay"
    BY <2>2, <2>3, Zenon
  <2> QED BY <2>1, <2>3, <2>4, Zenon
<1>3. CASE a.select # "rc4"
  <2> DEFINE g == [i \in DOMAIN h |-> h[i].v]
  <2>1. Decrypt(h) = g
    BY <1>3, Zenon DEF Decrypt
  <2>2. DOMAIN h = 1 .. Len(h) /\ Len(h) \in Nat
    OBVIOUS
  <2>3. g = [i \in 1 .. Len(h) |-> h[i].v]
    BY <2>2, Zenon
  <2> HIDE DEF g
  <2>4. \A i \in 1 .. Len(h) : g[i] = "pay"
    BY <2>3, Zenon
  <2>5. g \in [1 .. Len(h) -> Vals]
    BY <1>1, <2>3, <2>4, Zenon
  <2>6. g \in Seq(Vals) /\ Len(g) = Len(h)
    BY <2>2, <2>5, SMTT(30)
  <2> QED BY <2>1, <2>4, <2>6, Zenon
<1> QED BY <1>2, <1>3, Zenon

\* One read of the payload, of its first n bytes.
LEMMA PayloadRead ==
    ASSUME CryInv, NEW h \in Seq(Byte), NEW t \in Seq(Byte), received = h \o t,
           NEW q \in {"readhs", "short", "open"}, a.pc \in {"readhs", "open"}, received # <<>>,
           a' = [a EXCEPT !.ks = @ + Len(h), !.pc = q], received' = t, flow' = flow, b' = b,
           q = "readhs" => a.pc = "readhs",
           read' = Decrypt(h) \/ read' = read \o Decrypt(h)
    PROVE  CryInv'
<1>1. a \in AType /\ b \in BType /\ CryTypes /\ flow \in Seq(Byte) /\ received \in Seq(Byte)
      /\ a.ks \in Nat
  BY AFields, Zenon DEF CryInv, CryTypes
<1>2. b.pc = "talking"
  <2>1. b.pc \notin {"start", "keyed"}
    BY Zenon DEF CryInv, BeforeVc
  <2>2. ASSUME b.pc = "agreed" PROVE FALSE
    <3>1. Coming = <<>>
      BY <2>2, Zenon DEF CryInv, AfterVc
    <3>2. received \o flow = <<>>
      BY <3>1, Zenon DEF Coming
    <3>3. received = <<>>
      BY <1>1, <3>2, SMTT(30)
    <3> QED BY <3>3, Zenon
  <2> QED BY <1>1, <2>1, <2>2, AFields, ZenonT(30)
<1>3. a.select = b.select /\ Talk(Coming) /\ b.ks = VcLen + 2 + b.pad_d
  BY <1>2, Zenon DEF CryInv, AfterVc, BeforeVc
<1>4. /\ \A i \in 1 .. Len(h) : h[i].v = "pay" /\ (b.select = "rc4" => h[i].k = a.ks + i)
      /\ \A i \in 1 .. Len(t \o flow) :
                 /\ (t \o flow)[i].v = "pay"
                 /\ (b.select = "rc4" => (t \o flow)[i].k = a.ks + Len(h) + i)
  BY <1>1, <1>3, TalkCut, ZenonT(30)
<1>5. /\ Decrypt(h) \in Seq(Vals) /\ Len(Decrypt(h)) = Len(h)
      /\ \A i \in 1 .. Len(h) : Decrypt(h)[i] = "pay"
  BY <1>3, <1>4, DecryptIs, ZenonT(30)
<1>6. ReadOK' /\ read' \in Seq(Vals)
  <2> DEFINE d == Decrypt(h)
  <2>0. read \in Seq(Vals) /\ \A i \in 1 .. Len(read) : read[i] = "pay"
    BY DEF CryInv, ReadOK
  <2>1. d \in Seq(Vals) /\ \A i \in 1 .. Len(d) : d[i] = "pay"
    BY <1>5, Zenon
  <2> HIDE DEF d
  <2>2. CASE read' = d
    <3>1. DOMAIN d = 1 .. Len(d)
      BY <2>1, SMTT(30)
    <3> QED BY <2>1, <2>2, <3>1, ZenonT(30) DEF ReadOK
  <2>3. CASE read' = read \o d
    <3> DEFINE n == Len(read)
               z == read \o d
    <3>1. /\ n \in Nat /\ Len(d) \in Nat /\ z \in Seq(Vals) /\ Len(z) = n + Len(d)
          /\ \A i \in 1 .. n : z[i] = read[i]
          /\ \A i \in 1 .. Len(d) : z[n + i] = d[i]
      BY <2>0, <2>1, JoinIs, SMTT(30)
    <3>0. \A i \in 1 .. n : read[i] = "pay"
      BY <2>0, Zenon
    <3> HIDE DEF n, z
    <3>2. ASSUME NEW i \in 1 .. Len(z) PROVE z[i] = "pay"
      <4>1. CASE i <= n
        <5>1. i \in 1 .. n
          BY <3>1, <4>1, SMTT(30)
        <5> QED BY <3>0, <3>1, <5>1, Zenon
      <4>2. CASE i > n
        <5> DEFINE j == i - n
        <5>1. j \in 1 .. Len(d) /\ n + j = i
          BY <3>1, <4>2, SMTT(30)
        <5> HIDE DEF j
        <5>2. z[n + j] = "pay"
          BY <2>1, <3>1, <5>1, Zenon
        <5> QED BY <5>1, <5>2, Zenon
      <4>3. i <= n \/ i > n
        BY <3>1, SMTT(30)
      <4> QED BY <4>1, <4>2, <4>3, Zenon
    <3>3. DOMAIN z = 1 .. Len(z)
      BY <3>1, SMTT(30)
    <3>4. read' = z
      BY <2>3, Zenon DEF z
    <3> QED BY <3>1, <3>2, <3>3, <3>4, ZenonT(60) DEF ReadOK
  <2> QED BY <2>2, <2>3, Zenon DEF d
<1>7. /\ a' \in AType /\ a'.pc = q /\ a'.ks = a.ks + Len(h) /\ a'.select = a.select
  <2> DEFINE m == a.ks + Len(h)
  <2>1. m \in Nat /\ a' = [a EXCEPT !.ks = m, !.pc = q] /\ q \in APC
    <3>1. Len(h) \in Nat
      OBVIOUS
    <3>2. q \in APC
      BY Zenon DEF APC
    <3> QED BY <1>1, <3>1, <3>2, SMTT(30) DEF AType
  <2> HIDE DEF m
  <2>2. a' \in AType /\ a'.pc = q /\ a'.ks = m /\ a'.select = a.select
    BY <1>1, <2>1, Zenon DEF AType
  <2> QED BY <2>2, Zenon DEF m
<1>8. CryTypes'
  BY <1>1, <1>7, Zenon DEF CryTypes
<1>9. Talk(Coming)'
  <2>1. Coming' = t \o flow
    BY Zenon DEF Coming
  <2> QED BY <1>4, <1>7, <2>1, Zenon DEF Talk
<1>14. BeforeVc'
  BY <1>2, <1>3, <1>7, ZenonT(30) DEF BeforeVc
<1>15. AtVc'
  BY <1>2, <1>7, Zenon DEF AtVc
<1>16. AfterVc'
  BY <1>2, <1>3, <1>7, <1>9, Zenon DEF AfterVc
<1> QED BY <1>6, <1>8, <1>14, <1>15, <1>16, ZenonT(30) DEF CryInv

\* The read of protocol_handshake.
LEMMA ReadHandshakeKeeps ==
    ASSUME CryInv, ReadHandshake
    PROVE  CryInv'
<1> DEFINE l == Len(received)
           n == Min({l, HandshakeLen})
           h == SubSeq(received, 1, n)
           t == SubSeq(received, n + 1, Len(received))
           q == IF n < HandshakeLen THEN "short" ELSE "open"
<1>1. received \in Seq(Byte) /\ l \in Nat /\ HandshakeLen \in Nat
  BY CryptoAssumption DEF CryInv, CryTypes
<1>0. /\ a.pc = "readhs" /\ received # <<>> /\ UNCHANGED <<flow, b>>
      /\ received' = Cut(received, n, l - n)
      /\ read' = Decrypt(Cut(received, 0, n))
      /\ a' = [a EXCEPT !.ks = @ + n, !.pc = q]
  BY Zenon DEF ReadHandshake
<1>2. n \in Nat /\ n <= l
  <2> HIDE DEF l
  <2>1. n = IF l <= HandshakeLen THEN l ELSE HandshakeLen
    BY <1>1, MinOfTwo, SMTT(30)
  <2> QED BY <1>1, <2>1, SMTT(30)
<1> HIDE DEF n
<1>3. h \in Seq(Byte) /\ t \in Seq(Byte) /\ Len(h) = n /\ h \o t = received
  BY <1>1, <1>2, SplitJoin, Zenon
<1>4. Cut(received, 0, n) = h /\ Cut(received, n, l - n) = t
  <2>1. 0 + 1 = 1 /\ 0 + n = n /\ n + (l - n) = Len(received)
    BY <1>1, <1>2, SMTT(30)
  <2> HIDE DEF l
  <2> QED BY <2>1, Zenon DEF Cut
<1>5. q \in {"readhs", "short", "open"} /\ q # "readhs"
  BY Zenon
<1> HIDE DEF h, t, q
<1>6. a' = [a EXCEPT !.ks = @ + Len(h), !.pc = q]
  BY <1>0, <1>3, Zenon
<1> QED BY <1>0, <1>3, <1>4, <1>5, <1>6, PayloadRead, ZenonT(30)

\* A read of the listener.
LEMMA ReadStreamKeeps ==
    ASSUME CryInv, ReadStream
    PROVE  CryInv'
<1>0. /\ a.pc = "open" /\ received # <<>> /\ UNCHANGED <<flow, b>>
      /\ received' = <<>> /\ read' = read \o Decrypt(received)
      /\ a' = [a EXCEPT !.ks = @ + Len(received)]
  BY Zenon DEF ReadStream
<1>1. received \in Seq(Byte) /\ a \in AType
  BY Zenon DEF CryInv, CryTypes
<1>2. received \o <<>> = received /\ <<>> \in Seq(Byte)
  BY <1>1, NothingJoined, Zenon
<1>3. a' = [a EXCEPT !.ks = @ + Len(received), !.pc = "open"]
  <2> DEFINE m == a.ks + Len(received)
  <2>1. a' = [a EXCEPT !.ks = m] /\ a.pc = "open"
    BY <1>0, <1>1, Zenon DEF AType
  <2> HIDE DEF m
  <2>2. [a EXCEPT !.ks = m] = [a EXCEPT !.ks = m, !.pc = "open"]
    BY <1>1, <2>1, Zenon DEF AType
  <2> QED BY <1>1, <2>1, <2>2, Zenon DEF m, AType
<1> QED BY <1>0, <1>1, <1>2, <1>3, PayloadRead, ZenonT(30)

CrySpec == CryInit /\ [][CryNext]_cryVars

\* The invariant before the first step.
LEMMA CryStarts == CryInit => CryInv
<1> SUFFICES ASSUME CryInit PROVE CryInv
  BY Zenon
<1>1. PICK pad_b \in 0 .. PadMax, pad_d \in 0 .. PadMax, select \in {"rc4", "plain"} :
         b = [pc |-> "start", pad_b |-> pad_b, pad_d |-> pad_d, select |-> select, ks |-> 0]
  BY Zenon DEF CryInit
<1>2. pad_b \in Nat /\ pad_d \in Nat /\ 0 \in Nat
  BY CryptoAssumption, SMTT(30)
<1>3. b \in BType /\ b.pc = "start"
  BY <1>1, <1>2, Zenon DEF BType
<1>4. a = [pc |-> "sendkey", recv |-> <<>>, pos |-> 0, ks |-> 0, select |-> "none"]
      /\ flow = <<>> /\ received = <<>> /\ read = <<>>
  BY Zenon DEF CryInit
<1>5. <<>> \in Seq(Byte) /\ <<>> \in Seq(Vals)
  OBVIOUS
<1>6. a \in AType /\ a.pc = "sendkey" /\ a.recv = <<>> /\ a.pos = 0 /\ a.ks = 0
  BY <1>2, <1>4, <1>5, Zenon DEF AType, APC
<1>7. CryTypes
  BY <1>3, <1>4, <1>5, <1>6, ZenonT(60) DEF CryTypes
<1>8. Stream = <<>>
  BY <1>4, <1>6, SMTT(30) DEF Stream
<1>9. Zero(Stream)
  BY <1>8 DEF Zero
<1>10. BeforeVc
  BY <1>3, <1>6, <1>9, Zenon DEF BeforeVc
<1>11. AtVc /\ AfterVc
  BY <1>3, <1>6, Zenon DEF AtVc, AfterVc
<1>12. ReadOK /\ read \in Seq(Vals)
  BY <1>4, <1>5, SMTT(30) DEF ReadOK
<1> QED BY <1>7, <1>10, <1>11, <1>12, ZenonT(30) DEF CryInv

\* Every step of either side keeps it.
LEMMA CryStep == CryInv /\ [CryNext]_cryVars => CryInv'
<1> SUFFICES ASSUME CryInv, [CryNext]_cryVars PROVE CryInv'
  BY Zenon
<1>1. CASE UNCHANGED cryVars
  <2>1. a' = a /\ b' = b /\ flow' = flow /\ received' = received /\ read' = read
    BY <1>1, Zenon DEF cryVars
  <2>2. Stream' = Stream /\ Coming' = Coming
    BY <2>1, Zenon DEF Stream, Coming
  <2>3. CryTypes' /\ ReadOK' /\ read' \in Seq(Vals)
    BY <2>1, Zenon DEF CryInv, CryTypes, ReadOK
  <2>4. BeforeVc'
    BY <2>1, <2>2, ZenonT(30) DEF CryInv, BeforeVc, Zero
  <2>5. AtVc'
    BY <2>1, <2>2, Zenon DEF CryInv, AtVc, Off, Whole
  <2>6. AfterVc'
    BY <2>1, <2>2, Zenon DEF CryInv, AfterVc, Talk
  <2> QED BY <2>3, <2>4, <2>5, <2>6, Zenon DEF CryInv
<1> QED BY ZenonT(30), <1>1, SendYbKeeps, SendVcKeeps, SendPayloadKeeps, DeliverKeeps, SendKeyKeeps, ReadKeyKeeps,
           SendPacketKeeps, ReadBufKeeps, SeekVcKeeps, ReadOptionKeeps, ReadPadKeeps,
           ReadHandshakeKeeps, ReadStreamKeeps, ReadTimeoutKeeps, Zenon DEF CryNext

\* CryptoHandshake.KeystreamAligned for every length of VC, paddings and handshake and every
\* way the stream is cut: what A reads after the encrypted handshake is what B wrote.
THEOREM KeystreamsMeet == CrySpec => []KeystreamAligned
<1>1. CryInv => KeystreamAligned
  BY Zenon DEF CryInv, ReadOK, KeystreamAligned
<1> QED BY <1>1, CryStarts, CryStep, PTL DEF CrySpec
=============================================================================
