-------------------------- MODULE EdgeDetectProof ---------------------------
(* Proofs about EdgeDetect.                                                  *)
EXTENDS EdgeDetect, FiniteSetTheorems, WellFoundedInduction, TLAPS

-----------------------------------------------------------------------------
(* What is true of 0, and of n + 1 if it is true of n, is true up to M.      *)
LEMMA UpTo ==
    ASSUME NEW M \in Nat, NEW S, 0 \in S, \A n \in 0 .. M - 1 : n \in S => n + 1 \in S
    PROVE  \A n \in 0 .. M : n \in S
<1> SUFFICES ASSUME NEW n \in 0 .. M, n \notin S PROVE FALSE
  OBVIOUS
<1> DEFINE R == {p \in Nat \X Nat : p[1] < p[2]}
           T == {k \in 0 .. M : k \notin S}
<1>1. IsWellFoundedOn(R, Nat)
  BY NatLessThanWellFounded, Zenon DEF OpToRel
<1>2. \A x, y \in Nat : y < x => <<y, x>> \in R
  OBVIOUS
<1>3. T \subseteq Nat /\ T # {}
  OBVIOUS
<1> HIDE DEF R
<1>4. PICK t \in T : \A u \in T : ~ (<<u, t>> \in R)
  <2> HIDE DEF T
  <2> QED BY <1>1, <1>3, WFMin
<1>5. t # 0 /\ t \in Nat /\ t - 1 \in Nat /\ t - 1 < t /\ t - 1 \in 0 .. M - 1
  OBVIOUS
<1>6. t - 1 \in T
  BY <1>5
<1> QED BY <1>2, <1>4, <1>5, <1>6

(* A recursion over the numbers up to M has a value at each of them.         *)
LEMMA Recursion ==
    ASSUME NEW M \in Nat, NEW next \in [1 .. M -> [Int -> Int]]
    PROVE  \E s \in [0 .. M -> Int] :
               s[0] = 0 /\ \A j \in 1 .. M : s[j] = next[j][s[j - 1]]
<1> DEFINE Runs(s, n) == s[0] = 0 /\ \A j \in 1 .. n : s[j] = next[j][s[j - 1]]
           S == {n \in 0 .. M : \E s \in [0 .. n -> Int] : Runs(s, n)}
<1>1. 0 \in S
  <2> DEFINE s == [j \in 0 .. 0 |-> 0]
  <2>1. s \in [0 .. 0 -> Int] /\ Runs(s, 0)
    OBVIOUS
  <2> HIDE DEF s, Runs
  <2>2. 0 \in 0 .. M /\ \E t \in [0 .. 0 -> Int] : Runs(t, 0)
    BY <2>1
  <2> QED BY <2>2
<1>2. ASSUME NEW n \in 0 .. M - 1, n \in S PROVE n + 1 \in S
  <2>1. PICK s \in [0 .. n -> Int] : Runs(s, n)
    BY <1>2
  <2> DEFINE t == [j \in 0 .. n + 1 |-> IF j = n + 1 THEN next[n + 1][s[n]] ELSE s[j]]
  <2>2. s[n] \in Int /\ n + 1 \in 1 .. M /\ next[n + 1] \in [Int -> Int]
    OBVIOUS
  <2>3. t \in [0 .. n + 1 -> Int]
    BY <2>2
  <2>4. t[0] = 0
    BY <2>1
  <2>5. ASSUME NEW j \in 1 .. n + 1 PROVE t[j] = next[j][t[j - 1]]
    <3>1. CASE j = n + 1
      BY <3>1
    <3>2. CASE j # n + 1
      <4>1. j \in 1 .. n /\ j - 1 \in 0 .. n /\ t[j] = s[j] /\ t[j - 1] = s[j - 1]
        BY <3>2
      <4> QED BY <2>1, <4>1
    <3> QED BY <3>1, <3>2
  <2>6. Runs(t, n + 1)
    BY <2>4, <2>5
  <2> HIDE DEF t, Runs
  <2>7. n + 1 \in 0 .. M /\ \E u \in [0 .. n + 1 -> Int] : Runs(u, n + 1)
    BY <2>3, <2>6
  <2> QED BY <2>7
<1>3. M \in S
  <2> HIDE DEF S
  <2>1. \A n \in 0 .. M - 1 : n \in S => n + 1 \in S
    BY <1>2
  <2>2. \A n \in 0 .. M : n \in S
    BY <1>1, <2>1, UpTo
  <2> QED BY <2>2
<1> QED BY <1>3

(* Sums: s[n] is the sum of the first n numbers of f.                        *)
IsSum(s, f, M) ==
    /\ s \in [0 .. M -> Int]
    /\ s[0] = 0
    /\ \A j \in 1 .. M : f[j] \in Int /\ s[j] = s[j - 1] + f[j]

LEMMA SumExists ==
    ASSUME NEW M \in Nat, NEW f, \A j \in 1 .. M : f[j] \in Int
    PROVE  \E s : IsSum(s, f, M)
<1> DEFINE next == [j \in 1 .. M |-> [x \in Int |-> x + f[j]]]
<1>1. next \in [1 .. M -> [Int -> Int]]
  OBVIOUS
<1>2. \A j \in 1 .. M : \A x \in Int : next[j][x] = x + f[j]
  OBVIOUS
<1> HIDE DEF next
<1>3. PICK s \in [0 .. M -> Int] :
          s[0] = 0 /\ \A j \in 1 .. M : s[j] = next[j][s[j - 1]]
  BY <1>1, Recursion
<1>4. \A j \in 1 .. M : s[j - 1] \in Int
  OBVIOUS
<1>5. IsSum(s, f, M)
  BY <1>2, <1>3, <1>4 DEF IsSum
<1> QED BY <1>5

LEMMA SumsAgree ==
    ASSUME NEW M \in Nat, NEW n \in 0 .. M, NEW f, NEW g, NEW s, NEW t,
           IsSum(s, f, M), IsSum(t, g, n), \A j \in 1 .. n : f[j] = g[j]
    PROVE  s[n] = t[n]
<1> DEFINE S == {k \in 0 .. n : s[k] = t[k]}
<1>1. 0 \in S
  BY DEF IsSum
<1>2. ASSUME NEW k \in 0 .. n - 1, k \in S PROVE k + 1 \in S
  BY <1>2 DEF IsSum
<1>3. n \in S
  <2> HIDE DEF S
  <2>1. \A k \in 0 .. n - 1 : k \in S => k + 1 \in S
    BY <1>2
  <2>2. \A k \in 0 .. n : k \in S
    BY <1>1, <2>1, UpTo
  <2> QED BY <2>2
<1> QED BY <1>3

LEMMA SumReverse ==
    ASSUME NEW M \in Nat, NEW f, NEW g, NEW s, NEW t, IsSum(s, f, M), IsSum(t, g, M),
           \A j \in 1 .. M : g[j] = f[M + 1 - j]
    PROVE  s[M] = t[M]
<1> DEFINE S == {k \in 0 .. M : t[k] = s[M] - s[M - k]}
<1>1. 0 \in S
  BY DEF IsSum
<1>2. ASSUME NEW k \in 0 .. M - 1, k \in S PROVE k + 1 \in S
  <2>1. /\ k + 1 \in 1 .. M /\ M - k \in 1 .. M /\ (k + 1) - 1 = k
        /\ M + 1 - (k + 1) = M - k /\ (M - k) - 1 = M - (k + 1)
        /\ k + 1 \in 0 .. M /\ M - (k + 1) \in 0 .. M /\ M - k \in 0 .. M /\ M \in 0 .. M
    OBVIOUS
  <2>2. t[k + 1] = t[k] + f[M - k] /\ s[M - k] = s[M - (k + 1)] + f[M - k]
    BY <2>1 DEF IsSum
  <2>3. s[M] \in Int /\ s[M - k] \in Int /\ s[M - (k + 1)] \in Int /\ t[k] \in Int
    BY <2>1 DEF IsSum
  <2>4. t[k] = s[M] - s[M - k]
    BY <1>2
  <2>5. f[M - k] \in Int
    BY <2>1 DEF IsSum
  <2> QED BY <2>1, <2>2, <2>3, <2>4, <2>5
<1>3. M \in S
  <2> HIDE DEF S
  <2>1. \A k \in 0 .. M - 1 : k \in S => k + 1 \in S
    BY <1>2
  <2>2. \A k \in 0 .. M : k \in S
    BY <1>1, <2>1, UpTo
  <2> QED BY <2>2
<1> QED BY <1>3 DEF IsSum

(* What satisfies the equation of a sum is the sum.                          *)
LEMMA SumByEquation ==
    ASSUME NEW M \in Nat, NEW f, NEW s, NEW t, IsSum(s, f, M),
           t = [j \in 0 .. M |-> IF j = 0 THEN 0 ELSE t[j - 1] + f[j]]
    PROVE  t[M] = s[M]
<1> DEFINE S == {k \in 0 .. M : s[k] = t[k]}
<1>1. 0 \in S
  BY DEF IsSum
<1>2. ASSUME NEW k \in 0 .. M - 1, k \in S PROVE k + 1 \in S
  <2>1. k + 1 \in 0 .. M /\ k + 1 # 0 /\ (k + 1) - 1 = k /\ k + 1 \in 1 .. M
    OBVIOUS
  <2>2. t[k + 1] = t[k] + f[k + 1]
    BY <2>1
  <2> QED BY <1>2, <2>1, <2>2 DEF IsSum
<1>3. M \in S
  <2> HIDE DEF S
  <2>1. \A k \in 0 .. M - 1 : k \in S => k + 1 \in S
    BY <1>2
  <2>2. \A k \in 0 .. M : k \in S
    BY <1>1, <2>1, UpTo
  <2> QED BY <2>2
<1> QED BY <1>3

LEMMA N2Type == N2 \in Nat /\ N = N2 + 2 /\ \A j \in 1 .. N2 : KernelGauss[j] \in Nat
BY KernelAssumption DEF N2, N

(* The reference, of an image im.                                            *)
SmoothedAt(im, c) ==
    LET sum[j \in 0 .. N2] ==
            IF j = 0 THEN 0
            ELSE sum[j - 1] + im[c + 1 + j - (N2 + 1) \div 2] * KernelGauss[j]
    IN sum[N2]
ResponseAt(im, c) == SmoothedAt(im, c + 1) - SmoothedAt(im, c - 1)

LEMMA ResponseIs ==
    /\ \A c : Response(c) = ResponseAt(image, c)
    /\ \A c : Response(c)' = ResponseAt(image', c)
BY DEF Response, Smoothed, ResponseAt, SmoothedAt

LEMMA SmoothedIs ==
    ASSUME NEW im, NEW c, NEW s,
           IsSum(s, [j \in 1 .. N2 |->
                        im[c + 1 + j - (N2 + 1) \div 2] * KernelGauss[j]], N2)
    PROVE  SmoothedAt(im, c) = s[N2]
<1> DEFINE e == [j \in 1 .. N2 |-> im[c + 1 + j - (N2 + 1) \div 2] * KernelGauss[j]]
           R(t) == t = [j \in 0 .. N2 |->
                            IF j = 0 THEN 0
                            ELSE t[j - 1]
                                 + im[c + 1 + j - (N2 + 1) \div 2] * KernelGauss[j]]
<1>1. R(s)
  <2>1. \A j \in 1 .. N2 : s[j] = s[j - 1] + im[c + 1 + j - (N2 + 1) \div 2] * KernelGauss[j]
     BY DEF IsSum
  <2>2. s = [j \in 0 .. N2 |-> s[j]] /\ s[0] = 0
     BY DEF IsSum
  <2>3. \A j \in 0 .. N2 : j = 0 \/ j \in 1 .. N2
     BY N2Type
  <2> QED BY <2>1, <2>2, <2>3
<1>2. R(CHOOSE t : R(t))
  BY <1>1
<1>3. ASSUME NEW t, R(t) PROVE t[N2] = s[N2]
  <2>1. \A j \in 0 .. N2 : j = 0 \/ j \in 1 .. N2
     BY N2Type
  <2>2. t = [j \in 0 .. N2 |-> IF j = 0 THEN 0 ELSE t[j - 1] + e[j]]
     BY <1>3, <2>1
  <2> HIDE DEF e, R
  <2>3. IsSum(s, e, N2)
    BY DEF e
  <2> QED BY <2>2, <2>3, SumByEquation, N2Type
<1>4. SmoothedAt(im, c) = (CHOOSE t : R(t))[N2]
  BY DEF SmoothedAt
<1> HIDE DEF R
<1> QED BY <1>2, <1>3, <1>4

-----------------------------------------------------------------------------
(* The weight of tap j of the smoothing kernel, nothing outside of it.       *)
Tap(j) == IF j \in 1 .. N2 THEN KernelGauss[j] ELSE 0

LEMMA TapType == \A j \in Int : Tap(j) \in Nat
BY N2Type DEF Tap

(* The kernel is the difference of two taps that lie two apart.              *)
LEMMA KernelIs == \A i \in 1 .. N : Kernel[i] = Tap(i) - Tap(i - 2)
<1> SUFFICES ASSUME NEW i \in 1 .. N PROVE Kernel[i] = Tap(i) - Tap(i - 2)
  OBVIOUS
<1> DEFINE D(j) == IF i - j + 1 \in 1 .. Len(KernelDiff) THEN KernelDiff[i - j + 1] ELSE 0
           e == [j \in 1 .. N2 |-> D(j) * KernelGauss[j]]
           R(t) == t = [j \in 0 .. N2 |->
                            IF j = 0 THEN 0 ELSE t[j - 1] + D(j) * KernelGauss[j]]
           P(l, j) == IF l \in 1 .. j THEN KernelGauss[l] ELSE 0
           s == [j \in 0 .. N2 |-> P(i, j) - P(i - 2, j)]
<1>1. Kernel[i] = (CHOOSE t : R(t))[N2]
  <2>1. Len(KernelDiff) + Len(KernelGauss) - 1 = N
    BY N2Type DEF KernelDiff, N2
  <2> QED BY <2>1 DEF Kernel, Convolve, N2
<1>2. /\ \A j \in 1 .. N2 : KernelGauss[j] \in Nat
      /\ N2 \in Nat /\ i \in Int
  BY N2Type
<1>3. \A j \in Int : D(j) = IF i = j THEN 1 ELSE IF i - 2 = j THEN -1 ELSE 0
  <2>1. /\ Len(KernelDiff) = 3 /\ KernelDiff[1] = 1 /\ KernelDiff[2] = 0
        /\ KernelDiff[3] = -1
    BY DEF KernelDiff
  <2> QED BY <1>2, <2>1
<1>4. ASSUME NEW j \in 1 .. N2
      PROVE  s[j] = s[j - 1] + D(j) * KernelGauss[j]
  <2>1. D(j) * KernelGauss[j] =
            (IF i = j THEN KernelGauss[j] ELSE 0) - (IF i - 2 = j THEN KernelGauss[j] ELSE 0)
    <3> HIDE DEF D
    <3>1. KernelGauss[j] \in Nat /\ j \in Int
      BY <1>2
    <3> QED BY <1>2, <1>3, <3>1
  <2>2. j \in 0 .. N2 /\ j - 1 \in 0 .. N2
    BY <1>2
  <2>3. s[j] = P(i, j) - P(i - 2, j) /\ s[j - 1] = P(i, j - 1) - P(i - 2, j - 1)
    BY <2>2
  <2>4. \A l \in Int : P(l, j) = P(l, j - 1) + (IF l = j THEN KernelGauss[j] ELSE 0)
    BY <1>2
  <2>5. \A l \in Int : P(l, j) \in Int /\ P(l, j - 1) \in Int
    BY <1>2
  <2>6. (IF i = j THEN KernelGauss[j] ELSE 0) \in Int
        /\ (IF i - 2 = j THEN KernelGauss[j] ELSE 0) \in Int
    BY <1>2
  <2>7. i \in Int /\ i - 2 \in Int
    BY <1>2
  <2> HIDE DEF D, P, s
  <2> QED BY <2>1, <2>3, <2>4, <2>5, <2>6, <2>7
<1>5. R(s)
  <2>1. s[0] = 0
    BY <1>2
  <2>2. \A j \in 0 .. N2 : j = 0 \/ j \in 1 .. N2
    BY <1>2
  <2>3. s = [j \in 0 .. N2 |-> s[j]]
    OBVIOUS
  <2> HIDE DEF s, D
  <2> QED BY <1>4, <2>1, <2>2, <2>3
<1>6. IsSum(s, e, N2)
  <2>1. s \in [0 .. N2 -> Int]
    <3>1. \A l \in Int, j \in 0 .. N2 : P(l, j) \in Int
      BY <1>2
    <3>2. i \in Int /\ i - 2 \in Int
      BY <1>2
    <3> HIDE DEF P
    <3> QED BY <3>1, <3>2
  <2>2. s[0] = 0
    BY <1>2
  <2>3. \A j \in 1 .. N2 : e[j] \in Int /\ e[j] = D(j) * KernelGauss[j]
    <3> HIDE DEF D
    <3> QED BY <1>2, <1>3
  <2> HIDE DEF s, e, D
  <2> QED BY <1>4, <2>1, <2>2, <2>3 DEF IsSum
<1>7. ASSUME NEW t, R(t) PROVE t[N2] = s[N2]
  <2>1. \A j \in 0 .. N2 : j = 0 \/ j \in 1 .. N2
    BY <1>2
  <2>2. t = [j \in 0 .. N2 |-> IF j = 0 THEN 0 ELSE t[j - 1] + e[j]]
    <3> HIDE DEF D
    <3> QED BY <1>7, <2>1
  <2> HIDE DEF e, R, s
  <2> QED BY <1>2, <1>6, <2>2, SumByEquation
<1>8. s[N2] = Tap(i) - Tap(i - 2)
  BY <1>2 DEF Tap
<1> HIDE DEF R, s
<1> QED BY <1>1, <1>5, <1>7, <1>8

-----------------------------------------------------------------------------
(* Remainders.                                                               *)
LEMMA ModRange == \A x \in Int, n \in Nat \ {0} : x % n \in 0 .. n - 1
OBVIOUS

LEMMA ModSmall == \A n \in Nat \ {0} : \A x \in 0 .. n - 1 : x % n = x
OBVIOUS

LEMMA DivMod == \A x \in Int, n \in Nat \ {0} : x = (n * (x \div n)) + (x % n) /\ x \div n \in Int
OBVIOUS

LEMMA ModDistinct ==
    ASSUME NEW n \in Nat \ {0}, NEW a \in Nat, NEW b \in Nat, a < b, b - a < n
    PROVE  a % n # b % n
<1> SUFFICES ASSUME a % n = b % n PROVE FALSE
  OBVIOUS
<1> DEFINE q == b \div n - a \div n
<1>1. b - a = n * q /\ q \in Int
  BY DivMod
<1>2. q > 0
  <2>1. CASE q <= 0
     BY <1>1, <2>1
  <2> QED BY <1>1, <2>1
<1>3. n * q >= n
  BY <1>1, <1>2
<1> QED BY <1>1, <1>3
-----------------------------------------------------------------------------
(* Zeros behind or before the summands do not count.                         *)
LEMMA SumTail ==
    ASSUME NEW M \in Nat, NEW n \in 0 .. M, NEW f, NEW g, NEW s, NEW t,
           IsSum(s, f, M), IsSum(t, g, n),
           \A j \in 1 .. n : f[j] = g[j], \A j \in n + 1 .. M : f[j] = 0
    PROVE  s[M] = t[n]
<1> DEFINE S == {k \in 0 .. M : n <= k => s[k] = s[n]}
<1>1. 0 \in S
  OBVIOUS
<1>2. ASSUME NEW k \in 0 .. M - 1, k \in S PROVE k + 1 \in S
  <2>1. k + 1 \in 1 .. M /\ (k + 1) - 1 = k /\ k + 1 \in 0 .. M /\ k \in 0 .. M
    OBVIOUS
  <2>2. s[k + 1] = s[k] + f[k + 1] /\ s[k] \in Int
    BY <2>1 DEF IsSum
  <2>3. CASE n <= k
    <3>1. f[k + 1] = 0
      BY <2>1, <2>3
    <3> QED BY <1>2, <2>1, <2>2, <2>3, <3>1
  <2>4. CASE ~(n <= k)
    BY <2>1, <2>4
  <2> QED BY <2>3, <2>4
<1>3. M \in S
  <2> HIDE DEF S
  <2>1. \A k \in 0 .. M - 1 : k \in S => k + 1 \in S
    BY <1>2
  <2>2. \A k \in 0 .. M : k \in S
    BY <1>1, <2>1, UpTo
  <2> QED BY <2>2
<1>4. s[n] = t[n]
  BY SumsAgree
<1> QED BY <1>3, <1>4

LEMMA SumShift ==
    ASSUME NEW M \in Nat, NEW f, NEW g, NEW s, NEW t, IsSum(s, f, M + 2), IsSum(t, g, M),
           f[1] = 0, f[2] = 0, \A j \in 1 .. M : f[j + 2] = g[j]
    PROVE  s[M + 2] = t[M]
<1> DEFINE S == {k \in 0 .. M : s[k + 2] = t[k]}
<1>1. 0 \in S
  <2>1. 1 \in 1 .. M + 2 /\ 2 \in 1 .. M + 2
    OBVIOUS
  <2>2. s[1] = s[0] + 0 /\ s[2] = s[1] + 0 /\ s[0] = 0 /\ t[0] = 0
    BY <2>1 DEF IsSum
  <2> QED BY <2>2
<1>2. ASSUME NEW k \in 0 .. M - 1, k \in S PROVE k + 1 \in S
  <2>1. /\ k + 1 \in 1 .. M /\ (k + 1) - 1 = k /\ k + 1 \in 0 .. M
        /\ k + 3 \in 1 .. M + 2 /\ (k + 3) - 1 = k + 2 /\ (k + 1) + 2 = k + 3
    OBVIOUS
  <2>2. t[k + 1] = t[k] + g[k + 1] /\ s[k + 3] = s[k + 2] + f[k + 3]
    BY <2>1 DEF IsSum
  <2>3. f[k + 3] = g[k + 1]
    BY <2>1
  <2> QED BY <1>2, <2>1, <2>2, <2>3
<1>3. M \in S
  <2> HIDE DEF S
  <2>1. \A k \in 0 .. M - 1 : k \in S => k + 1 \in S
    BY <1>2
  <2>2. \A k \in 0 .. M : k \in S
    BY <1>1, <2>1, UpTo
  <2> QED BY <2>2
<1> QED BY <1>3

(* A partial sum of numbers that are not negative is bounded by the sum.     *)
LEMMA SumGrows ==
    ASSUME NEW M \in Nat, NEW f, NEW s, IsSum(s, f, M), \A j \in 1 .. M : 0 <= f[j]
    PROVE  \A n \in 0 .. M : 0 <= s[n] /\ s[n] <= s[M]
<1> DEFINE S == {k \in 0 .. M : \A n \in 0 .. k : 0 <= s[n] /\ s[n] <= s[k]}
<1>1. 0 \in S
  <2>1. \A n \in 0 .. 0 : n = 0
    OBVIOUS
  <2>2. s[0] = 0
    BY DEF IsSum
  <2> QED BY <2>1, <2>2
<1>2. ASSUME NEW k \in 0 .. M - 1, k \in S PROVE k + 1 \in S
  <2>1. k + 1 \in 1 .. M /\ (k + 1) - 1 = k /\ k + 1 \in 0 .. M /\ k \in 0 .. M
    OBVIOUS
  <2>2. s[k + 1] = s[k] + f[k + 1] /\ s[k] \in Int /\ s[k + 1] \in Int /\ 0 <= f[k + 1]
        /\ f[k + 1] \in Int
    BY <2>1 DEF IsSum
  <2>3. \A n \in 0 .. k : 0 <= s[n] /\ s[n] <= s[k]
    BY <1>2
  <2>4. ASSUME NEW n \in 0 .. k + 1 PROVE 0 <= s[n] /\ s[n] <= s[k + 1]
    <3>1. CASE n = k + 1
      <4>1. 0 <= s[k]
        BY <2>3
      <4> QED BY <2>2, <3>1, <4>1
    <3>2. CASE n # k + 1
      <4>1. n \in 0 .. k /\ n \in 0 .. M
        BY <3>2
      <4>2. s[n] \in Int
        BY <4>1 DEF IsSum
      <4> QED BY <2>2, <2>3, <4>1, <4>2
    <3> QED BY <3>1, <3>2
  <2> QED BY <2>1, <2>4
<1>3. M \in S
  <2> HIDE DEF S
  <2>1. \A k \in 0 .. M - 1 : k \in S => k + 1 \in S
    BY <1>2
  <2>2. \A k \in 0 .. M : k \in S
    BY <1>1, <2>1, UpTo
  <2> QED BY <2>2
<1> QED BY <1>3

LEMMA SumBound ==
    ASSUME NEW M \in Nat, NEW f, NEW g, NEW s, NEW t, IsSum(s, f, M), IsSum(t, g, M),
           \A j \in 1 .. M : f[j] <= 255 * g[j]
    PROVE  s[M] <= 255 * t[M]
<1> DEFINE S == {k \in 0 .. M : s[k] <= 255 * t[k]}
<1>1. 0 \in S
  BY DEF IsSum
<1>2. ASSUME NEW k \in 0 .. M - 1, k \in S PROVE k + 1 \in S
  <2>1. k + 1 \in 1 .. M /\ (k + 1) - 1 = k /\ k + 1 \in 0 .. M /\ k \in 0 .. M
    OBVIOUS
  <2>2. s[k + 1] = s[k] + f[k + 1] /\ s[k] \in Int /\ f[k + 1] \in Int
        /\ t[k + 1] = t[k] + g[k + 1] /\ t[k] \in Int /\ g[k + 1] \in Int
    BY <2>1 DEF IsSum
  <2>3. s[k] <= 255 * t[k] /\ f[k + 1] <= 255 * g[k + 1]
    BY <1>2, <2>1
  <2> QED BY <2>1, <2>2, <2>3
<1>3. M \in S
  <2> HIDE DEF S
  <2>1. \A k \in 0 .. M - 1 : k \in S => k + 1 \in S
    BY <1>2
  <2>2. \A k \in 0 .. M : k \in S
    BY <1>1, <2>1, UpTo
  <2> QED BY <2>2
<1> QED BY <1>3

(* The weights of all taps, wherever they begin in the kernel.               *)
LEMMA TapSums ==
    ASSUME NEW s, IsSum(s, [j \in 1 .. N |-> Tap(j)], N),
           NEW t, IsSum(t, [j \in 1 .. N |-> Tap(j - 2)], N)
    PROVE  s[N] = KernelSum /\ t[N] = KernelSum
<1>1. N2 \in Nat /\ N = N2 + 2 /\ \A j \in 1 .. N2 : KernelGauss[j] \in Int
  BY N2Type
<1>2. PICK k : IsSum(k, KernelGauss, N2)
  BY <1>1, SumExists
<1>3. KernelSum = k[N2]
  <2> DEFINE R(t1) == t1 = [j \in 0 .. N2 |->
                              IF j = 0 THEN 0 ELSE t1[j - 1] + KernelGauss[j]]
  <2>1. R(k)
    <3>1. \A j \in 1 .. N2 : k[j] = k[j - 1] + KernelGauss[j]
       BY <1>2 DEF IsSum
    <3>2. k = [j \in 0 .. N2 |-> k[j]] /\ k[0] = 0
       BY <1>2 DEF IsSum
    <3>3. \A j \in 0 .. N2 : j = 0 \/ j \in 1 .. N2
       BY <1>1
    <3> QED BY <3>1, <3>2, <3>3
  <2>2. R(CHOOSE t1 : R(t1))
    BY <2>1
  <2>3. \A t1 : R(t1) => t1[N2] = k[N2]
    BY <1>1, <1>2, SumByEquation
  <2>4. KernelSum = (CHOOSE t1 : R(t1))[N2]
    BY DEF KernelSum
  <2> HIDE DEF R
  <2> QED BY <2>2, <2>3, <2>4
<1>4. s[N] = k[N2]
  <2> DEFINE f == [j \in 1 .. N |-> Tap(j)]
  <2>1. \A j \in 1 .. N2 : f[j] = KernelGauss[j]
    BY <1>1 DEF Tap
  <2>2. \A j \in N2 + 1 .. N : f[j] = 0
    BY <1>1 DEF Tap
  <2>3. IsSum(s, f, N) /\ N \in Nat /\ N2 \in 0 .. N
    BY <1>1
  <2> HIDE DEF f
  <2> QED BY <1>2, <2>1, <2>2, <2>3, SumTail
<1>5. t[N] = k[N2]
  <2> DEFINE f == [j \in 1 .. N |-> Tap(j - 2)]
  <2>1. f[1] = 0 /\ f[2] = 0 /\ \A j \in 1 .. N2 : f[j + 2] = KernelGauss[j]
    <3>1. 1 \in 1 .. N /\ 2 \in 1 .. N /\ \A j \in 1 .. N2 : j + 2 \in 1 .. N /\ (j + 2) - 2 = j
      BY <1>1
    <3>2. f[1] = Tap(1 - 2) /\ f[2] = Tap(2 - 2) /\ \A j \in 1 .. N2 : f[j + 2] = Tap(j)
      BY <3>1
    <3>3. 1 - 2 \notin 1 .. N2 /\ 2 - 2 \notin 1 .. N2
      BY <1>1
    <3> HIDE DEF f
    <3> QED BY <3>2, <3>3 DEF Tap
  <2>3. IsSum(t, f, N2 + 2)
    BY <1>1
  <2> HIDE DEF f
  <2> QED BY <1>1, <1>2, <2>1, <2>3, SumShift
<1> QED BY <1>3, <1>4, <1>5

(* Products, kept folded where nothing depends on the arithmetic of them.    *)
Times(v, w) == v * w

LEMMA Product ==
    \A v \in 0 .. 255, w \in Nat :
        Times(v, w) \in Int /\ 0 <= Times(v, w) /\ Times(v, w) <= 255 * w
BY DEF Times

LEMMA ProductOfDifference ==
    \A v \in 0 .. 255, x, y \in Int : Times(v, x - y) = Times(v, x) - Times(v, y)
BY DEF Times

Int16(x) == x \in Int /\ -32768 <= x /\ x <= 32767

LEMMA SaturatedIsNothing == \A x \in Int : Int16(x) => Saturated(x) = x
BY DEF Saturated, Int16

SaturatedRun(r, e, M) ==
    r = [j \in 0 .. M |-> IF j = 0 THEN 0 ELSE Saturated(r[j - 1] + e[j])]

(* x is what the saturated sums of e up to M come to.                        *)
RunsTo(e, M, x) ==
    /\ Int16(x)
    /\ \E r : SaturatedRun(r, e, M)
    /\ \A r : SaturatedRun(r, e, M) => r[M] = x

(* A sum whose positive and negative parts fit does not saturate on the way. *)
LEMMA SaturatedSum ==
    ASSUME NEW M \in Nat, NEW e, NEW f, NEW g, NEW s, NEW t, IsSum(s, f, M), IsSum(t, g, M),
           \A j \in 1 .. M : 0 <= f[j] /\ 0 <= g[j] /\ e[j] = f[j] - g[j],
           s[M] <= 32767, t[M] <= 32767
    PROVE  RunsTo(e, M, s[M] - t[M])
<1> DEFINE d == [j \in 0 .. M |-> s[j] - t[j]]
<1>1. \A j \in 0 .. M : d[j] = s[j] - t[j] /\ Int16(d[j])
  <2>1. \A j \in 0 .. M : d[j] = s[j] - t[j]
    OBVIOUS
  <2>2. \A j \in 0 .. M : s[j] \in Int /\ t[j] \in Int
    BY DEF IsSum
  <2>3. \A j \in 0 .. M : 0 <= s[j] /\ s[j] <= s[M] /\ 0 <= t[j] /\ t[j] <= t[M]
    BY SumGrows
  <2>4. M \in 0 .. M
    OBVIOUS
  <2> HIDE DEF d
  <2> QED BY <2>1, <2>2, <2>3, <2>4 DEF Int16
<1>2. ASSUME NEW j \in 1 .. M PROVE d[j] = Saturated(d[j - 1] + e[j])
  <2>1. j \in 0 .. M /\ j - 1 \in 0 .. M
    OBVIOUS
  <2> HIDE DEF d
  <2>2. d[j] = s[j] - t[j] /\ d[j - 1] = s[j - 1] - t[j - 1] /\ Int16(d[j])
    BY <1>1, <2>1
  <2>3. /\ s[j] = s[j - 1] + f[j] /\ t[j] = t[j - 1] + g[j] /\ f[j] \in Int /\ g[j] \in Int
        /\ s[j - 1] \in Int /\ t[j - 1] \in Int
    BY <2>1 DEF IsSum
  <2>4. d[j] = d[j - 1] + e[j]
    BY <2>2, <2>3
  <2> QED BY <2>2, <2>4, SaturatedIsNothing DEF Int16
<1>3. d[0] = 0 /\ d = [j \in 0 .. M |-> d[j]]
  BY DEF IsSum
<1>4. \A j \in 0 .. M : j = 0 \/ j \in 1 .. M
  OBVIOUS
<1>5. SaturatedRun(d, e, M)
  <2> HIDE DEF d
  <2>1. \A j \in 0 .. M : d[j] = IF j = 0 THEN 0 ELSE Saturated(d[j - 1] + e[j])
    <3> TAKE j \in 0 .. M
    <3>1. CASE j = 0
      BY <1>3, <3>1
    <3>2. CASE j \in 1 .. M
      <4>1. j # 0
        BY <3>2
      <4> QED BY <1>2, <3>2, <4>1
    <3> QED BY <1>4, <3>1, <3>2
  <2>2. d = [j \in 0 .. M |-> IF j = 0 THEN 0 ELSE Saturated(d[j - 1] + e[j])]
    <3> DEFINE F(j) == IF j = 0 THEN 0 ELSE Saturated(d[j - 1] + e[j])
    <3>1. \A j \in 0 .. M : d[j] = F(j)
      BY <2>1
    <3> HIDE DEF F
    <3>2. d = [j \in 0 .. M |-> F(j)]
      BY <1>3, <3>1
    <3> QED BY <3>2 DEF F
  <2> QED BY <2>2 DEF SaturatedRun
<1>6. ASSUME NEW r, SaturatedRun(r, e, M) PROVE r[M] = d[M]
  <2> DEFINE S == {k \in 0 .. M : r[k] = d[k]}
  <2>1. \A j \in 1 .. M : r[j] = Saturated(r[j - 1] + e[j])
    <3>1. \A j \in 1 .. M : j \in 0 .. M /\ j # 0
      OBVIOUS
    <3> TAKE j \in 1 .. M
    <3>2. r[j] = IF j = 0 THEN 0 ELSE Saturated(r[j - 1] + e[j])
      BY <1>6, <3>1 DEF SaturatedRun
    <3> QED BY <3>1, <3>2
  <2>2. r[0] = 0
    BY <1>6 DEF SaturatedRun
  <2> HIDE DEF d
  <2>3. 0 \in S
    BY <1>3, <2>2
  <2>4. ASSUME NEW k \in 0 .. M - 1, k \in S PROVE k + 1 \in S
    <3>1. k + 1 \in 1 .. M /\ (k + 1) - 1 = k /\ k + 1 \in 0 .. M
      OBVIOUS
    <3> QED BY <1>2, <2>1, <2>4, <3>1
  <2>5. M \in S
    <3> HIDE DEF S
    <3>1. \A k \in 0 .. M - 1 : k \in S => k + 1 \in S
      BY <2>4
    <3>2. \A k \in 0 .. M : k \in S
      BY <2>3, <3>1, UpTo
    <3> QED BY <3>2
  <2> QED BY <2>5
<1>7. d[M] = s[M] - t[M] /\ Int16(d[M])
  <2> HIDE DEF d
  <2>1. M \in 0 .. M
    OBVIOUS
  <2> QED BY <1>1, <2>1
<1> HIDE DEF d
<1> QED BY <1>5, <1>6, <1>7 DEF RunsTo

(* The samples V under the kernel, and under the kernel two samples later.   *)
LEMMA WeightedTaps ==
    ASSUME NEW V, \A j \in 1 .. N : V[j] \in 0 .. 255,
           NEW f, \A j \in 1 .. N : f[j] = Times(V[j], Tap(j)),
           NEW g, \A j \in 1 .. N : g[j] = Times(V[j], Tap(j - 2))
    PROVE  \A j \in 1 .. N : /\ 0 <= f[j] /\ f[j] \in Int /\ f[j] <= 255 * Tap(j)
                             /\ 0 <= g[j] /\ g[j] \in Int /\ g[j] <= 255 * Tap(j - 2)
                             /\ Times(V[j], Kernel[j]) = f[j] - g[j]
<1> TAKE j \in 1 .. N
<1>1. j \in Int /\ j - 2 \in Int
  BY N2Type
<1>2. V[j] \in 0 .. 255 /\ Tap(j) \in Nat /\ Tap(j - 2) \in Nat
  BY <1>1, TapType
<1>3. Times(V[j], Tap(j) - Tap(j - 2)) = Times(V[j], Tap(j)) - Times(V[j], Tap(j - 2))
  <2>1. Tap(j) \in Int /\ Tap(j - 2) \in Int
    BY <1>2
  <2> QED BY <1>2, <2>1, ProductOfDifference, Zenon
<1>4. Times(V[j], Kernel[j]) = f[j] - g[j]
  BY <1>3, KernelIs
<1>5. f[j] = Times(V[j], Tap(j)) /\ g[j] = Times(V[j], Tap(j - 2))
  OBVIOUS
<1>6. ASSUME NEW w \in Nat
      PROVE  Times(V[j], w) \in Int /\ 0 <= Times(V[j], w) /\ Times(V[j], w) <= 255 * w
  BY <1>2, Product
<1>7. 0 <= f[j] /\ f[j] \in Int /\ f[j] <= 255 * Tap(j)
  BY <1>2, <1>5, <1>6
<1>8. 0 <= g[j] /\ g[j] \in Int /\ g[j] <= 255 * Tap(j - 2)
  BY <1>2, <1>5, <1>6
<1> QED BY <1>4, <1>7, <1>8

LEMMA WeightedSums ==
    ASSUME NEW f, NEW g, NEW s, NEW t, IsSum(s, f, N), IsSum(t, g, N),
           \A j \in 1 .. N : f[j] <= 255 * Tap(j) /\ g[j] <= 255 * Tap(j - 2)
    PROVE  s[N] <= 32767 /\ t[N] <= 32767
<1> DEFINE fk == [j \in 1 .. N |-> Tap(j)]
           gk == [j \in 1 .. N |-> Tap(j - 2)]
<1>1. N \in Nat /\ N \in 0 .. N
  BY N2Type
<1>2. \A j \in 1 .. N : fk[j] \in Int /\ gk[j] \in Int /\ fk[j] = Tap(j) /\ gk[j] = Tap(j - 2)
  BY <1>1, TapType
<1>3. PICK sk : IsSum(sk, fk, N)
  <2> HIDE DEF fk
  <2> QED BY <1>1, <1>2, SumExists
<1>4. PICK tk : IsSum(tk, gk, N)
  <2> HIDE DEF gk
  <2> QED BY <1>1, <1>2, SumExists
<1>5. sk[N] = KernelSum /\ tk[N] = KernelSum
  BY <1>3, <1>4, TapSums
<1> HIDE DEF fk, gk
<1>6. s[N] <= 255 * sk[N] /\ t[N] <= 255 * tk[N]
  <2>1. \A j \in 1 .. N : f[j] <= 255 * fk[j] /\ g[j] <= 255 * gk[j]
    BY <1>2
  <2>2. s[N] <= 255 * sk[N]
    BY <1>1, <1>3, <2>1, SumBound
  <2>3. t[N] <= 255 * tk[N]
    BY <1>1, <1>4, <2>1, SumBound
  <2> QED BY <2>2, <2>3
<1>7. s[N] \in Int /\ t[N] \in Int /\ sk[N] \in Int
  BY <1>1, <1>3 DEF IsSum
<1> QED BY <1>5, <1>6, <1>7, KernelAssumption

(* No sum on the way leaves int16_t, so the filtered value is the difference *)
(* of the samples under the kernel and under the kernel two samples later.   *)
LEMMA FilteredIs ==
    ASSUME NEW h, NEW i, NEW V,
           \A j \in 1 .. N : V[j] \in 0 .. 255 /\ h[HistoryIdx(i, j)].value = V[j],
           NEW f, \A j \in 1 .. N : f[j] = Times(V[j], Tap(j)),
           NEW g, \A j \in 1 .. N : g[j] = Times(V[j], Tap(j - 2)),
           NEW s, NEW t, IsSum(s, f, N), IsSum(t, g, N)
    PROVE  Filtered(h, i) = s[N] - t[N] /\ Int16(Filtered(h, i))
<1> DEFINE e == [j \in 1 .. N |-> Times(V[j], Kernel[j])]
           Q(r) == r = [j \in 0 .. N |->
                           IF j = 0 THEN 0
                           ELSE Saturated(r[j - 1] + h[HistoryIdx(i, j)].value * Kernel[j])]
<1>1. N \in Nat
  BY N2Type
<1>2. \A j \in 1 .. N : 0 <= f[j] /\ 0 <= g[j] /\ f[j] <= 255 * Tap(j) /\ g[j] <= 255 * Tap(j - 2)
  BY WeightedTaps, SMTT(40)
<1>3. \A j \in 1 .. N : 0 <= f[j] /\ 0 <= g[j] /\ e[j] = f[j] - g[j]
  <2>1. \A j \in 1 .. N : e[j] = Times(V[j], Kernel[j])
    OBVIOUS
  <2>2. \A j \in 1 .. N : Times(V[j], Kernel[j]) = f[j] - g[j]
    <3>1. \A j \in 1 .. N : V[j] \in 0 .. 255
      OBVIOUS
    <3> QED BY <3>1, WeightedTaps
  <2> HIDE DEF e
  <2> QED BY <1>2, <2>1, <2>2
<1>4. s[N] <= 32767 /\ t[N] <= 32767
  BY <1>2, WeightedSums
<1>5. /\ Int16(s[N] - t[N])
      /\ \E r : SaturatedRun(r, e, N)
      /\ \A r : SaturatedRun(r, e, N) => r[N] = s[N] - t[N]
  <2> HIDE DEF e, Q
  <2>1. IsSum(s, f, N) /\ IsSum(t, g, N)
    OBVIOUS
  <2>2. RunsTo(e, N, s[N] - t[N])
    BY <1>1, <1>3, <1>4, <2>1, SaturatedSum
  <2> QED BY <2>2 DEF RunsTo
<1>6. ASSUME NEW r PROVE Q(r) <=> SaturatedRun(r, e, N)
  <2>1. \A j \in 0 .. N : j = 0 \/ j \in 1 .. N
    BY <1>1
  <2>2. \A j \in 1 .. N : h[HistoryIdx(i, j)].value * Kernel[j] = e[j]
    BY DEF Times
  <2> HIDE DEF e
  <2> QED BY <2>1, <2>2 DEF SaturatedRun
<1>7. Filtered(h, i) = (CHOOSE r : Q(r))[N]
  BY DEF Filtered
<1> HIDE DEF Q, e
<1>8. Q(CHOOSE r : Q(r))
  BY <1>5, <1>6
<1>9. Filtered(h, i) = s[N] - t[N]
  BY <1>5, <1>6, <1>7, <1>8
<1> QED BY <1>5, <1>9

-----------------------------------------------------------------------------
(* A history with the last N samples of a line gives the response.           *)
LEMMA Halves ==
    /\ (N2 + 1) \div 2 \in Nat /\ N2 + 1 = 2 * ((N2 + 1) \div 2)
    /\ N \div 2 = (N2 + 1) \div 2
BY N2Type, KernelAssumption

LEMMA HistoryIdxIs ==
    ASSUME NEW i \in 0 .. 2 ^ SizeBits - 1, NEW j \in 0 .. i
    PROVE  HistoryIdx(i, j) = (i - j) % N
<1>1. 2 ^ SizeBits \in Nat \ {0}
  BY CountAssumption
<1>2. i - j \in 0 .. 2 ^ SizeBits - 1
  BY <1>1
<1> QED BY <1>1, <1>2, ModSmall DEF HistoryIdx

LEMMA WindowUnderKernel ==
    ASSUME NEW im, NEW i \in Int, N <= i, \A k \in 1 .. i : im[k] \in 0 .. 255,
           NEW f, \A j \in 1 .. N : f[j] = Times(im[i + 1 - j], Tap(j)),
           NEW s, IsSum(s, f, N)
    PROVE  s[N] = SmoothedAt(im, (i - 1 - N \div 2) + 1)
<1> DEFINE c == (i - 1 - N \div 2) + 1
           a == [j \in 1 .. N2 |-> im[c + 1 + j - (N2 + 1) \div 2] * KernelGauss[j]]
           b == [j \in 1 .. N2 |-> Times(im[i + 1 - j], KernelGauss[j])]
<1>1. N2 \in Nat /\ N = N2 + 2
  BY N2Type
<1>2. ASSUME NEW j \in 1 .. N2
      PROVE  /\ a[j] = Times(im[i - N2 + j], KernelGauss[j])
             /\ b[j] = Times(im[i + 1 - j], KernelGauss[j])
             /\ b[N2 + 1 - j] = a[j]
             /\ b[j] = f[j]
             /\ a[j] \in Int /\ b[j] \in Int
  <2>1. /\ j \in Int /\ N2 + 1 - j \in 1 .. N2 /\ i + 1 - (N2 + 1 - j) = i - N2 + j
        /\ i + 1 - j \in 1 .. i /\ i - N2 + j \in 1 .. i /\ j \in 1 .. N
    BY <1>1
  <2>2. c + 1 + j - (N2 + 1) \div 2 = i - N2 + j
    BY <1>1, <2>1, Halves
  <2>3. a[j] = im[c + 1 + j - (N2 + 1) \div 2] * KernelGauss[j]
    OBVIOUS
  <2> HIDE DEF c, a
  <2>4. a[j] = Times(im[i - N2 + j], KernelGauss[j])
    BY <2>2, <2>3 DEF Times
  <2>5. KernelGauss[N2 + 1 - j] = KernelGauss[j]
    BY KernelAssumption
  <2>6. b[j] = Times(im[i + 1 - j], KernelGauss[j])
    OBVIOUS
  <2>7. b[N2 + 1 - j] = Times(im[i + 1 - (N2 + 1 - j)], KernelGauss[N2 + 1 - j])
    BY <2>1
  <2> HIDE DEF b
  <2>8. b[N2 + 1 - j] = a[j]
    BY <2>1, <2>4, <2>5, <2>7
  <2>9. f[j] = Times(im[i + 1 - j], Tap(j)) /\ Tap(j) = KernelGauss[j]
    BY <2>1 DEF Tap
  <2>10. KernelGauss[j] \in Nat /\ im[i - N2 + j] \in 0 .. 255 /\ im[i + 1 - j] \in 0 .. 255
    BY <2>1, N2Type
  <2>11. a[j] \in Int /\ b[j] \in Int
    BY <2>4, <2>6, <2>10, Product, ZenonT(40)
  <2> QED BY <2>4, <2>6, <2>8, <2>9, <2>11
<1>3. PICK sa : IsSum(sa, a, N2)
  <2>1. \A j \in 1 .. N2 : a[j] \in Int
    BY <1>2
  <2> HIDE DEF a
  <2> QED BY <1>1, <2>1, SumExists
<1>4. PICK sb : IsSum(sb, b, N2)
  <2>1. \A j \in 1 .. N2 : b[j] \in Int
    BY <1>2
  <2> HIDE DEF b
  <2> QED BY <1>1, <2>1, SumExists
<1>5. SmoothedAt(im, c) = sa[N2]
  <2> HIDE DEF c
  <2> QED BY <1>3, SmoothedIs
<1>6. sb[N2] = sa[N2]
  <2>1. \A j \in 1 .. N2 : b[N2 + 1 - j] = a[j]
    BY <1>2
  <2> HIDE DEF a, b
  <2> QED BY <1>1, <1>3, <1>4, <2>1, SumReverse
<1>7. s[N] = sb[N2]
  <2>1. \A j \in 1 .. N2 : f[j] = b[j]
    BY <1>2
  <2>2. \A j \in N2 + 1 .. N : f[j] = 0
    <3> TAKE j \in N2 + 1 .. N
    <3>1. j \in 1 .. N /\ j \notin 1 .. N2 /\ i + 1 - j \in 1 .. i
      BY <1>1
    <3>2. f[j] = Times(im[i + 1 - j], 0) /\ im[i + 1 - j] \in Int
      BY <3>1, SMTT(40) DEF Tap
    <3>3. \A x \in Int : Times(x, 0) = 0
      BY DEF Times
    <3> QED BY <3>2, <3>3
  <2>3. N \in Nat /\ N2 \in 0 .. N
    BY <1>1
  <2> HIDE DEF b
  <2> QED BY <1>4, <2>1, <2>2, <2>3, SumTail
<1> QED BY <1>5, <1>6, <1>7

LEMMA WindowUnderShiftedKernel ==
    ASSUME NEW im, NEW i \in Int, N <= i, \A k \in 1 .. i : im[k] \in 0 .. 255,
           NEW f, \A j \in 1 .. N : f[j] = Times(im[i + 1 - j], Tap(j - 2)),
           NEW s, IsSum(s, f, N)
    PROVE  s[N] = SmoothedAt(im, (i - 1 - N \div 2) - 1)
<1> DEFINE c == (i - 1 - N \div 2) - 1
           a == [j \in 1 .. N2 |-> im[c + 1 + j - (N2 + 1) \div 2] * KernelGauss[j]]
           b == [j \in 1 .. N2 |-> Times(im[i - 1 - j], KernelGauss[j])]
<1>1. N2 \in Nat /\ N = N2 + 2
  BY N2Type
<1>2. ASSUME NEW j \in 1 .. N2
      PROVE  /\ a[j] = Times(im[i - N2 + j - 2], KernelGauss[j])
             /\ b[j] = Times(im[i - 1 - j], KernelGauss[j])
             /\ b[N2 + 1 - j] = a[j]
             /\ b[j] = f[j + 2]
             /\ a[j] \in Int /\ b[j] \in Int
  <2>1. /\ j \in Int /\ N2 + 1 - j \in 1 .. N2 /\ i - 1 - (N2 + 1 - j) = i - N2 + j - 2
        /\ i - 1 - j \in 1 .. i /\ i - N2 + j - 2 \in 1 .. i /\ j + 2 \in 1 .. N
        /\ (j + 2) - 2 = j /\ i + 1 - (j + 2) = i - 1 - j
    BY <1>1
  <2>2. c + 1 + j - (N2 + 1) \div 2 = i - N2 + j - 2
    BY <1>1, <2>1, Halves
  <2>3. a[j] = im[c + 1 + j - (N2 + 1) \div 2] * KernelGauss[j]
    OBVIOUS
  <2> HIDE DEF c, a
  <2>4. a[j] = Times(im[i - N2 + j - 2], KernelGauss[j])
    BY <2>2, <2>3 DEF Times
  <2>5. KernelGauss[N2 + 1 - j] = KernelGauss[j]
    BY KernelAssumption
  <2>6. b[j] = Times(im[i - 1 - j], KernelGauss[j])
    OBVIOUS
  <2>7. b[N2 + 1 - j] = Times(im[i - 1 - (N2 + 1 - j)], KernelGauss[N2 + 1 - j])
    BY <2>1
  <2> HIDE DEF b
  <2>8. b[N2 + 1 - j] = a[j]
    BY <2>1, <2>4, <2>5, <2>7
  <2>9. f[j + 2] = Times(im[i - 1 - j], Tap(j)) /\ Tap(j) = KernelGauss[j]
    BY <2>1 DEF Tap
  <2>10. KernelGauss[j] \in Nat /\ im[i - N2 + j - 2] \in 0 .. 255 /\ im[i - 1 - j] \in 0 .. 255
    BY <2>1, N2Type
  <2>11. a[j] \in Int /\ b[j] \in Int
    BY <2>4, <2>6, <2>10, Product, ZenonT(40)
  <2> QED BY <2>4, <2>6, <2>8, <2>9, <2>11
<1>3. PICK sa : IsSum(sa, a, N2)
  <2>1. \A j \in 1 .. N2 : a[j] \in Int
    BY <1>2
  <2> HIDE DEF a
  <2> QED BY <1>1, <2>1, SumExists
<1>4. PICK sb : IsSum(sb, b, N2)
  <2>1. \A j \in 1 .. N2 : b[j] \in Int
    BY <1>2
  <2> HIDE DEF b
  <2> QED BY <1>1, <2>1, SumExists
<1>5. SmoothedAt(im, c) = sa[N2]
  <2> HIDE DEF c
  <2> QED BY <1>3, SmoothedIs
<1>6. sb[N2] = sa[N2]
  <2>1. \A j \in 1 .. N2 : b[N2 + 1 - j] = a[j]
    BY <1>2
  <2> HIDE DEF a, b
  <2> QED BY <1>1, <1>3, <1>4, <2>1, SumReverse
<1>7. s[N] = sb[N2]
  <2>1. \A j \in 1 .. N2 : f[j + 2] = b[j]
    BY <1>2
  <2>2. f[1] = 0 /\ f[2] = 0
    <3>1. /\ 1 \in 1 .. N /\ 1 - 2 \notin 1 .. N2 /\ i + 1 - 1 \in 1 .. i
          /\ 2 \in 1 .. N /\ 2 - 2 \notin 1 .. N2 /\ i + 1 - 2 \in 1 .. i
      BY <1>1
    <3>2. Tap(1 - 2) = 0 /\ Tap(2 - 2) = 0
      BY <3>1 DEF Tap
    <3>3. /\ f[1] = Times(im[i + 1 - 1], 0) /\ im[i + 1 - 1] \in Int
          /\ f[2] = Times(im[i + 1 - 2], 0) /\ im[i + 1 - 2] \in Int
      BY <3>1, <3>2, SMTT(40)
    <3>4. \A x \in Int : Times(x, 0) = 0
      BY DEF Times
    <3> QED BY <3>3, <3>4
  <2>3. IsSum(s, f, N2 + 2)
    BY <1>1
  <2> HIDE DEF b
  <2> QED BY <1>1, <1>4, <2>1, <2>2, <2>3, SumShift
<1> QED BY <1>5, <1>6, <1>7

LEMMA FilteredWindow ==
    ASSUME NEW i \in N .. 2 ^ SizeBits - 1, NEW im, \A k \in 1 .. i : im[k] \in 0 .. 255,
           NEW h, \A p \in i - N .. i - 1 : h[p % N].value = im[p + 1]
    PROVE  /\ Int16(Filtered(h, i))
           /\ Filtered(h, i) = ResponseAt(im, i - 1 - N \div 2)
<1> DEFINE V == [j \in 1 .. N |-> im[i + 1 - j]]
           f == [j \in 1 .. N |-> Times(V[j], Tap(j))]
           g == [j \in 1 .. N |-> Times(V[j], Tap(j - 2))]
<1>1. N \in Nat /\ i \in Int /\ N <= i /\ i \in 0 .. 2 ^ SizeBits - 1
  BY N2Type, CountAssumption
<1>2. ASSUME NEW j \in 1 .. N
      PROVE  /\ V[j] = im[i + 1 - j]
             /\ V[j] \in 0 .. 255
             /\ h[HistoryIdx(i, j)].value = V[j]
             /\ f[j] = Times(V[j], Tap(j)) /\ f[j] \in Int
             /\ g[j] = Times(V[j], Tap(j - 2)) /\ g[j] \in Int
  <2>1. V[j] = im[i + 1 - j]
    OBVIOUS
  <2> HIDE DEF V
  <2>2. f[j] = Times(V[j], Tap(j)) /\ g[j] = Times(V[j], Tap(j - 2))
    OBVIOUS
  <2> HIDE DEF f, g
  <2>3. /\ j \in 0 .. i /\ i + 1 - j \in 1 .. i /\ i - j \in i - N .. i - 1
        /\ (i - j) + 1 = i + 1 - j
    BY <1>1
  <2>4. HistoryIdx(i, j) = (i - j) % N
    BY <1>1, <2>3, HistoryIdxIs
  <2>5. h[HistoryIdx(i, j)].value = V[j] /\ V[j] \in 0 .. 255
    BY <2>1, <2>3, <2>4
  <2>6. Tap(j) \in Nat /\ Tap(j - 2) \in Nat
    BY <1>1, TapType
  <2> QED BY <2>1, <2>2, <2>5, <2>6, Product
<1> HIDE DEF V, f, g
<1>3. PICK s : IsSum(s, f, N)
  BY <1>1, <1>2, SumExists
<1>4. PICK t : IsSum(t, g, N)
  BY <1>1, <1>2, SumExists
<1>5. Filtered(h, i) = s[N] - t[N] /\ Int16(Filtered(h, i))
  BY <1>2, <1>3, <1>4, FilteredIs, ZenonT(40)
<1>6. s[N] = SmoothedAt(im, (i - 1 - N \div 2) + 1)
  <2>1. \A j \in 1 .. N : f[j] = Times(im[i + 1 - j], Tap(j))
    BY <1>2
  <2> QED BY <1>1, <1>3, <2>1, WindowUnderKernel
<1>7. t[N] = SmoothedAt(im, (i - 1 - N \div 2) - 1)
  <2>1. \A j \in 1 .. N : g[j] = Times(im[i + 1 - j], Tap(j - 2))
    BY <1>2
  <2> QED BY <1>1, <1>4, <2>1, WindowUnderShiftedKernel
<1> QED BY <1>5, <1>6, <1>7 DEF ResponseAt

-----------------------------------------------------------------------------
(* The ring buffer holds the last samples of the line.                       *)
RingHolds ==
    \A p \in 0 .. index - 1 :
        index - N <= p => history[p % N] = [pos |-> p, value |-> image[p + 1]]

(* How much has been read: before the first increment only a brightness.     *)
AsMuchRead ==
    IF pc \in {"edge", "aborted"}
    THEN /\ count \in Counts /\ index <= count
         /\ Len(image) = IF index = 0 THEN 1 ELSE index
    ELSE count = 0 /\ index = 0

LineInv ==
    /\ LineTypeOK
    /\ pc \in {"idle", "cast", "edge", "aborted", "failed"}
    /\ pc \notin {"idle", "failed"} => ray_center \in Centres
    /\ AsMuchRead
    /\ RingHolds
    /\ filter_value = IF index < N THEN 0 ELSE Filtered(history, index)

LEMMA Numbers ==
    /\ N \in Nat /\ N >= 2 /\ N \div 2 \in Nat
    /\ 2 ^ SizeBits \in Nat \ {0}
    /\ Counts \subseteq Nat /\ \A c \in Counts : 1 <= c /\ c <= 2 ^ SizeBits - 2
    /\ Brightness \subseteq 0 .. 255
BY N2Type, Halves, CountAssumption, BrightnessAssumption

LEMMA LineInit == Init => LineInv
<1> SUFFICES ASSUME Init PROVE LineInv
  OBVIOUS
<1> USE Numbers DEF Init, NoLine, NoHistory
<1>1. LineTypeOK
  BY DEF LineTypeOK
<1>2. AsMuchRead
  BY DEF AsMuchRead
<1>3. RingHolds
  BY DEF RingHolds
<1> QED BY <1>1, <1>2, <1>3 DEF LineInv

LEMMA IncrementKeeps ==
    ASSUME LineInv, NEW v \in Brightness, Step(v), pc' \in {"edge", "aborted"},
           ray_center' = ray_center
    PROVE  LineInv'
<1>1. /\ pc = "edge" /\ index + 1 <= count /\ Increment(v)
      /\ count \in Counts /\ index \in Nat /\ index + 1 <= 2 ^ SizeBits - 2
      /\ index \in 0 .. 2 ^ SizeBits - 1 /\ index + 1 \in 0 .. 2 ^ SizeBits - 1
  BY Numbers, SMTT(40) DEF Step, More, LineInv, LineTypeOK, AsMuchRead
<1>2. HistoryIdx(index, 0) = index % N /\ index % N \in 0 .. N - 1
  <2>1. 0 \in 0 .. index /\ index - 0 = index /\ N \in Nat \ {0} /\ index \in Int
    BY <1>1, Numbers
  <2>2. HistoryIdx(index, 0) = (index - 0) % N
    BY <1>1, <2>1, HistoryIdxIs
  <2> QED BY <2>1, <2>2, ModRange
<1>3. /\ history' = [history EXCEPT ![index % N] = [pos |-> index, value |-> v]]
      /\ index' = index + 1 /\ count' = count
      /\ image' = IF index = 0 THEN image ELSE Append(image, v)
      /\ index = 0 => v = image[1]
      /\ filter_value' = IF index' >= N THEN Filtered(history', index')
                         ELSE filter_value
  BY <1>1, <1>2 DEF Increment
<1>4. /\ image \in Seq(Brightness) /\ Len(image) = IF index = 0 THEN 1 ELSE index
      /\ history \in [0 .. N - 1 -> [pos : 0 .. 2 ^ SizeBits - 1,
                                     value : Brightness \cup {0}]]
  BY <1>1 DEF LineInv, LineTypeOK, AsMuchRead
<1>5. /\ image' \in Seq(Brightness) /\ Len(image') = index'
      /\ image'[index + 1] = v
      /\ \A k \in 1 .. index : image'[k] = image[k]
  <2>1. CASE index = 0
    BY <1>3, <1>4, <2>1
  <2>2. CASE index # 0
    BY <1>1, <1>3, <1>4, <2>2
  <2> QED BY <2>1, <2>2
<1>6. history' \in [0 .. N - 1 -> [pos : 0 .. 2 ^ SizeBits - 1,
                                   value : Brightness \cup {0}]]
  <2>1. [pos |-> index, value |-> v] \in [pos : 0 .. 2 ^ SizeBits - 1,
                                          value : Brightness \cup {0}]
    BY <1>1
  <2> QED BY <1>3, <1>4, <2>1
<1>7. RingHolds'
  <2> SUFFICES ASSUME NEW p \in 0 .. index' - 1, index' - N <= p
               PROVE  history'[p % N] = [pos |-> p, value |-> image'[p + 1]]
    BY DEF RingHolds
  <2>1. p \in 0 .. index
    BY <1>1, <1>3
  <2>2. CASE p = index
    BY <1>2, <1>3, <1>4, <1>5, <2>2
  <2>3. CASE p # index
    <3>1. p \in 0 .. index - 1 /\ index - N <= p /\ p \in Nat /\ p < index /\ index - p < N
          /\ p + 1 \in 1 .. index
      BY <1>1, <1>3, <2>1, <2>3, Numbers
    <3>2. p % N # index % N
      <4>1. N \in Nat \ {0} /\ index \in Nat
        BY <1>1, Numbers
      <4> QED BY <3>1, <4>1, ModDistinct
    <3>3. p % N \in 0 .. N - 1
      BY <3>1, Numbers, ModRange
    <3>4. history'[p % N] = history[p % N]
      BY <1>3, <1>4, <3>2, <3>3
    <3>5. history[p % N] = [pos |-> p, value |-> image[p + 1]]
      BY <3>1 DEF LineInv, RingHolds
    <3> QED BY <1>5, <3>1, <3>4, <3>5
  <2> QED BY <2>2, <2>3
<1>8. /\ filter_value' = IF index' < N THEN 0 ELSE Filtered(history', index')
      /\ Int16(filter_value')
  <2>1. CASE index' < N
    <3>1. index < N /\ ~(index' >= N)
      BY <1>1, <1>3, <2>1, Numbers
    <3>2. filter_value' = 0
      BY <1>3, <3>1 DEF LineInv
    <3> QED BY <2>1, <3>2 DEF Int16
  <2>2. CASE ~(index' < N)
    <3>1. index' >= N /\ index' \in N .. 2 ^ SizeBits - 1
      BY <1>1, <1>3, <2>2, Numbers
    <3>2. filter_value' = Filtered(history', index')
      BY <1>3, <3>1
    <3>3. \A k \in 1 .. index' : image'[k] \in 0 .. 255
      <4>1. \A k \in 1 .. index' : image'[k] \in Brightness
        BY <1>5
      <4> QED BY <4>1, Numbers
    <3>4. \A p \in index' - N .. index' - 1 : history'[p % N].value = image'[p + 1]
      <4> TAKE p \in index' - N .. index' - 1
      <4>1. p \in 0 .. index' - 1 /\ index' - N <= p
        <5>1. index' \in Int /\ N \in Int /\ N <= index'
          BY <1>1, <1>3, <3>1, Numbers
        <5>2. \A n, m \in Int : m <= n => \A q \in n - m .. n - 1 : q \in 0 .. n - 1 /\ n - m <= q
          OBVIOUS
        <5> QED BY <5>1, <5>2, Zenon
      <4>2. history'[p % N] = [pos |-> p, value |-> image'[p + 1]]
        BY <1>7, <4>1 DEF RingHolds
      <4> QED BY <4>2
    <3>5. Int16(Filtered(history', index'))
      BY <3>1, <3>3, <3>4, FilteredWindow
    <3> QED BY <2>2, <3>2, <3>5
  <2> QED BY <2>1, <2>2
<1>9. AsMuchRead'
  BY <1>1, <1>3, <1>5 DEF AsMuchRead
<1>10. LineTypeOK'
  BY <1>1, <1>3, <1>5, <1>6, <1>8 DEF LineTypeOK, Int16
<1>11. /\ pc' \in {"idle", "cast", "edge", "aborted", "failed"}
       /\ pc' \notin {"idle", "failed"} => ray_center' \in Centres
  BY <1>1 DEF LineInv
<1> QED BY <1>7, <1>8, <1>9, <1>10, <1>11 DEF LineInv

LEMMA LineStep == LineInv /\ [Next]_vars => LineInv'
<1> SUFFICES ASSUME LineInv, [Next]_vars PROVE LineInv'
  OBVIOUS
<1>1. ASSUME UNCHANGED lineVars, UNCHANGED ray_center \/ ray_center' \in Centres,
             pc' \in {"idle", "cast", "edge", "aborted", "failed"},
             pc' \in {"edge", "aborted"} <=> pc \in {"edge", "aborted"},
             pc \in {"idle", "failed"} /\ pc' \notin {"idle", "failed"} =>
                 ray_center' \in Centres
      PROVE  LineInv'
  BY <1>1 DEF LineInv, LineTypeOK, AsMuchRead, RingHolds, lineVars
<1>2. ASSUME pc' \in {"idle", "cast"}, Destroy, UNCHANGED ray_center,
             pc \notin {"idle", "failed"}
      PROVE  LineInv'
  <2> USE <1>2, Numbers DEF Destroy, NoHistory
  <2>1. LineTypeOK'
    BY DEF LineTypeOK
  <2>2. AsMuchRead'
    BY DEF AsMuchRead
  <2>3. RingHolds'
    BY DEF RingHolds
  <2> QED BY <2>1, <2>2, <2>3 DEF LineInv
<1>3. ASSUME NEW centre \in Centres, ProcessFrame(centre) PROVE LineInv'
  BY <1>1, <1>3 DEF ProcessFrame
<1>10. CASE ConvertThrows
  BY <1>1, <1>10 DEF ConvertThrows
<1>4. ASSUME NEW dir \in Directions, RayClipped(dir) PROVE LineInv'
  BY <1>1, <1>4 DEF RayClipped
<1>5. ASSUME NEW dir \in Directions, NEW v \in Brightness, RayCast(dir, v) PROVE LineInv'
  <2>1. PixelCount(Clip(dir)) \in Counts
    BY <1>5, RayAssumption DEF RayCast, Clip, LineInv
  <2>2. /\ count' \in Counts /\ index' = 0 /\ filter_value' = 0 /\ image' = <<v>>
        /\ history' = [k \in 0 .. N - 1 |-> [pos |-> 0, value |-> v]]
        /\ pc' = "edge" /\ ray_center' = ray_center /\ pc = "cast"
    BY <1>5, <2>1 DEF RayCast, Construct
  <2>3. LineTypeOK'
    BY <2>2, Numbers DEF LineTypeOK
  <2>4. AsMuchRead'
    BY <2>2, Numbers DEF AsMuchRead
  <2>5. RingHolds'
    BY <2>2 DEF RingHolds
  <2> QED BY <2>2, <2>3, <2>4, <2>5, Numbers DEF LineInv
<1>6. ASSUME NEW v \in Brightness, Nothing(v) \/ Enter(v) \/ Leave(v) \/ LeaveAndCompare(v)
      PROVE  LineInv'
  <2>1. Step(v) /\ pc' \in {"edge", "aborted"} /\ ray_center' = ray_center
    BY <1>6 DEF Nothing, Enter, Leave, LeaveAndCompare, Step
  <2> QED BY <2>1, IncrementKeeps
<1>7. CASE RayDone
  BY <1>2, <1>7 DEF RayDone
<1>8. CASE FrameDone
  BY <1>1, <1>8 DEF FrameDone, lineVars
<1>9. CASE Aborted \/ UNCHANGED vars
  <2>1. UNCHANGED <<lineVars, pc, ray_center>>
    BY <1>9 DEF Aborted, vars
  <2> QED BY <1>1, <2>1 DEF LineInv
<1> QED BY <1>3, <1>4, <1>5, <1>6, <1>7, <1>8, <1>9, <1>10 DEF Next

(* Where the iterator points to, and its value.                              *)
LEMMA Measured ==
    ASSUME NEW i \in N .. 2 ^ SizeBits - 1, NEW im \in Seq(Brightness), Len(im) = i,
           NEW h,
           \A p \in 0 .. i - 1 : i - N <= p => h[p % N] = [pos |-> p, value |-> im[p + 1]]
    PROVE  /\ Centre(h, i) = i - 1 - N \div 2
           /\ Filtered(h, i) = ResponseAt(im, i - 1 - N \div 2)
<1>1. i \in Nat /\ i \in 0 .. 2 ^ SizeBits - 1 /\ N <= i
  BY Numbers
<1>2. \A p \in i - N .. i - 1 : h[p % N] = [pos |-> p, value |-> im[p + 1]]
  <2>1. \A p \in i - N .. i - 1 : p \in 0 .. i - 1 /\ i - N <= p
    BY <1>1, Numbers
  <2> QED BY <2>1
<1>3. Filtered(h, i) = ResponseAt(im, i - 1 - N \div 2)
  <2>1. \A k \in 1 .. i : im[k] \in 0 .. 255
    <3>1. \A k \in 1 .. i : im[k] \in Brightness
      BY <1>1
    <3> QED BY <3>1, Numbers
  <2>2. \A p \in i - N .. i - 1 : h[p % N].value = im[p + 1]
    <3> TAKE p \in i - N .. i - 1
    <3>1. h[p % N] = [pos |-> p, value |-> im[p + 1]]
      BY <1>2
    <3> QED BY <3>1
  <2> QED BY <1>1, <2>1, <2>2, FilteredWindow
<1>4. N = 2 * (N \div 2) + 1
  BY Halves, N2Type
<1>5. Centre(h, i) = i - 1 - N \div 2
  <2>1. /\ N \div 2 + 1 \in 0 .. i /\ i - (N \div 2 + 1) = i - 1 - N \div 2
        /\ i - 1 - N \div 2 \in i - N .. i - 1
    BY <1>1, <1>4, Numbers
  <2>2. HistoryIdx(i, N \div 2 + 1) = (i - 1 - N \div 2) % N
    BY <1>1, <2>1, HistoryIdxIs
  <2>3. h[(i - 1 - N \div 2) % N]
            = [pos |-> i - 1 - N \div 2, value |-> im[(i - 1 - N \div 2) + 1]]
    BY <1>2, <2>1
  <2> QED BY <2>2, <2>3 DEF Centre
<1> QED BY <1>3, <1>5

(* While the iterator is valid its value is the response of the image at the *)
(* pixel it points to, for any odd symmetric kernel whose weights fit, any   *)
(* line and any width of the index.                                          *)
THEOREM ValueIsResponse == Spec => []FilterIsResponse
<1>1. LineInv => FilterIsResponse
  <2> SUFFICES ASSUME LineInv, More(index), ~(index < N)
               PROVE  /\ Centre(history, index) = index - 1 - N \div 2
                      /\ Centre(history, index) \in InnerTo(count)
                      /\ filter_value = Response(Centre(history, index))
    BY DEF FilterIsResponse, LineInv
  <2>1. /\ index \in N .. 2 ^ SizeBits - 1 /\ index <= count /\ count \in Int
        /\ index \in Nat /\ image \in Seq(Brightness) /\ Len(image) = index
    BY Numbers DEF LineInv, LineTypeOK, AsMuchRead, More
  <2>2. /\ Centre(history, index) = index - 1 - N \div 2
        /\ Filtered(history, index) = ResponseAt(image, index - 1 - N \div 2)
    <3>1. \A p \in 0 .. index - 1 :
              index - N <= p => history[p % N] = [pos |-> p, value |-> image[p + 1]]
      BY DEF LineInv, RingHolds
    <3> QED BY <2>1, <3>1, Measured
  <2>3. N = 2 * (N \div 2) + 1
    BY Halves, N2Type
  <2>4. index - 1 - N \div 2 \in InnerTo(count)
    BY <2>1, <2>3, Numbers DEF InnerTo
  <2> QED BY <2>2, <2>4, ResponseIs DEF LineInv
<1> QED BY <1>1, LineInit, LineStep, PTL DEF Spec

-----------------------------------------------------------------------------
(* Stripes, of any sets of falls and rises.                                  *)
StripesOf(F, R) ==
    {p \in [entry : F, exit : R] :
        /\ p.entry < p.exit
        /\ R \cap (p.entry .. p.exit - 1) = {}
        /\ \A f \in F : f < p.entry => R \cap (f .. p.entry) # {}}

IsStripe(p, F, R) ==
    /\ p.entry \in F /\ p.exit \in R /\ p.entry \in Int /\ p.exit \in Int
    /\ p.entry < p.exit
    /\ \A r \in R : ~(p.entry <= r /\ r < p.exit)
    /\ \A f \in F : f < p.entry => \E r \in R : f <= r /\ r <= p.entry

LEMMA StripeIs ==
    ASSUME NEW F \in SUBSET Int, NEW R \in SUBSET Int
    PROVE  \A p : p \in StripesOf(F, R) <=> p \in [entry : F, exit : R] /\ IsStripe(p, F, R)
<1> SUFFICES ASSUME NEW p \in [entry : F, exit : R]
             PROVE  p \in StripesOf(F, R) <=> IsStripe(p, F, R)
  BY DEF StripesOf
<1>1. p.entry \in F /\ p.exit \in R /\ p.entry \in Int /\ p.exit \in Int
  OBVIOUS
<1>2. R \cap (p.entry .. p.exit - 1) = {} <=> \A r \in R : ~(p.entry <= r /\ r < p.exit)
  BY <1>1
<1>3. \A f \in F : R \cap (f .. p.entry) # {} <=> \E r \in R : f <= r /\ r <= p.entry
  BY <1>1
<1> QED BY <1>1, <1>2, <1>3 DEF StripesOf, IsStripe

(* P are the stripes in their order; e is a fall without a rise since.       *)
Scanned(P, e, F, R) ==
    /\ \A i \in 1 .. Len(P) : P[i] \in StripesOf(F, R)
    /\ \A p \in StripesOf(F, R) : \E i \in 1 .. Len(P) : P[i] = p
    /\ \A i, j \in 1 .. Len(P) : i < j => P[i].entry < P[j].entry
    /\ e = None => \A f \in F : \E r \in R : f < r
    /\ e # None => /\ e \in F
                   /\ \A r \in R : r < e
                   /\ \A f \in F : f < e => \E r \in R : f <= r /\ r <= e

LEMMA ScanFall ==
    ASSUME NEW F \in SUBSET Int, NEW R \in SUBSET Int, NEW x \in Int,
           \A y \in F \cup R : y < x,
           NEW P, NEW e, Scanned(P, e, F, R)
    PROVE  Scanned(P, IF e = None THEN x ELSE e, F \cup {x}, R)
<1> DEFINE E == F \cup {x}
           n == IF e = None THEN x ELSE e
<1>0. /\ \A y \in F : y \in Int /\ y < x
      /\ \A y \in R : y \in Int /\ y < x
  OBVIOUS
<1>1. x # None /\ E \in SUBSET Int
  BY NoneAssumption
<1>2. StripesOf(E, R) = StripesOf(F, R)
  <2>1. ASSUME NEW p, p \in StripesOf(E, R) PROVE p \in StripesOf(F, R)
    <3>1. p \in [entry : E, exit : R] /\ IsStripe(p, E, R)
      BY <1>1, <2>1, StripeIs
    <3>2. p.entry # x
      BY <1>0, <3>1 DEF IsStripe
    <3>3. p \in [entry : F, exit : R]
      BY <3>1, <3>2
    <3>4. IsStripe(p, F, R)
      BY <3>1, <3>3 DEF IsStripe
    <3> QED BY <3>3, <3>4, StripeIs
  <2>2. ASSUME NEW p, p \in StripesOf(F, R) PROVE p \in StripesOf(E, R)
    <3>1. p \in [entry : F, exit : R] /\ IsStripe(p, F, R)
      BY <2>2, StripeIs
    <3>2. p \in [entry : E, exit : R] /\ ~(x < p.entry)
      BY <1>0, <3>1 DEF IsStripe
    <3>3. IsStripe(p, E, R)
      BY <3>1, <3>2 DEF IsStripe
    <3> QED BY <1>1, <3>2, <3>3, StripeIs
  <2> QED BY <2>1, <2>2
<1>3. /\ n # None /\ n \in E
      /\ \A r \in R : r < n
      /\ \A f \in E : f < n => \E r \in R : f <= r /\ r <= n
  <2>1. CASE e = None
    <3>1. \A f \in F : \E r \in R : f < r
      BY <2>1 DEF Scanned
    <3> QED BY <1>1, <2>1, <3>1
  <2>2. CASE e # None
    <3>1. e \in F /\ (\A r \in R : r < e) /\ \A f \in F : f < e => \E r \in R : f <= r /\ r <= e
      BY <2>2 DEF Scanned
    <3> QED BY <2>2, <3>1
  <2> QED BY <2>1, <2>2
<1> HIDE DEF E, n
<1>4. Scanned(P, n, E, R)
  BY <1>2, <1>3 DEF Scanned
<1> QED BY <1>4 DEF E, n

LEMMA ScanRiseOutside ==
    ASSUME NEW F \in SUBSET Int, NEW R \in SUBSET Int, NEW x \in Int,
           \A y \in F \cup R : y < x,
           NEW P, Scanned(P, None, F, R)
    PROVE  Scanned(P, None, F, R \cup {x})
<1> DEFINE T == R \cup {x}
<1>0. /\ \A y \in F : y \in Int /\ y < x
      /\ \A y \in R : y \in Int /\ y < x
  OBVIOUS
<1>1. T \in SUBSET Int
  OBVIOUS
<1>2. \A f \in F : \E r \in R : f < r
  BY DEF Scanned
<1>3. StripesOf(F, T) = StripesOf(F, R)
  <2>1. ASSUME NEW p, p \in StripesOf(F, T) PROVE p \in StripesOf(F, R)
    <3>1. p \in [entry : F, exit : T] /\ IsStripe(p, F, T)
      BY <1>1, <2>1, StripeIs
    <3>2. p.exit # x
      <4>1. PICK r \in R : p.entry < r
        BY <1>2, <3>1 DEF IsStripe
      <4> QED BY <1>0, <3>1, <4>1 DEF IsStripe
    <3>3. p \in [entry : F, exit : R]
      BY <3>1, <3>2
    <3>4. IsStripe(p, F, R)
      BY <3>1, <3>3 DEF IsStripe
    <3> QED BY <3>3, <3>4, StripeIs
  <2>2. ASSUME NEW p, p \in StripesOf(F, R) PROVE p \in StripesOf(F, T)
    <3>1. p \in [entry : F, exit : R] /\ IsStripe(p, F, R)
      BY <2>2, StripeIs
    <3>2. p \in [entry : F, exit : T] /\ ~(x < p.exit)
      BY <1>0, <3>1 DEF IsStripe
    <3>3. IsStripe(p, F, T)
      BY <3>1, <3>2 DEF IsStripe
    <3> QED BY <1>1, <3>2, <3>3, StripeIs
  <2> QED BY <2>1, <2>2
<1> HIDE DEF T
<1>4. \A f \in F : \E r \in T : f < r
  BY <1>2 DEF T
<1>5. Scanned(P, None, F, T)
  BY <1>3, <1>4 DEF Scanned
<1> QED BY <1>5 DEF T

LEMMA ScanRiseInside ==
    ASSUME NEW F \in SUBSET Int, NEW R \in SUBSET Int, NEW x \in Int,
           \A y \in F \cup R : y < x,
           NEW C, NEW P \in Seq(C), NEW e, e # None, Scanned(P, e, F, R)
    PROVE  Scanned(Append(P, [entry |-> e, exit |-> x]), None, F, R \cup {x})
<1> DEFINE T == R \cup {x}
           s == [entry |-> e, exit |-> x]
           Q == Append(P, s)
<1>0. /\ \A y \in F : y \in Int /\ y < x
      /\ \A y \in R : y \in Int /\ y < x
  OBVIOUS
<1>1. T \in SUBSET Int
  OBVIOUS
<1>2. e \in F /\ (\A r \in R : r < e) /\ \A f \in F : f < e => \E r \in R : f <= r /\ r <= e
  BY DEF Scanned
<1>3. s \in StripesOf(F, T)
  <2>1. s \in [entry : F, exit : T] /\ s.entry = e /\ s.exit = x
    BY <1>2
  <2>2. IsStripe(s, F, T)
    BY <1>2, <2>1 DEF IsStripe
  <2> QED BY <1>1, <2>1, <2>2, StripeIs
<1>4. ASSUME NEW p, p \in StripesOf(F, T) PROVE p = s \/ p \in StripesOf(F, R)
  <2>1. p \in [entry : F, exit : T] /\ IsStripe(p, F, T)
    BY <1>1, <1>4, StripeIs
  <2>2. CASE p.exit = x
    <3>1. ~(p.entry < e)
      <4> SUFFICES ASSUME p.entry < e PROVE FALSE
        OBVIOUS
      <4>1. PICK r \in R : p.entry <= r /\ r <= e
        BY <1>2, <2>1 DEF IsStripe
      <4> QED BY <1>0, <1>2, <2>1, <2>2, <4>1 DEF IsStripe
    <3>2. ~(e < p.entry)
      <4> SUFFICES ASSUME e < p.entry PROVE FALSE
        OBVIOUS
      <4>1. PICK r \in T : e <= r /\ r <= p.entry
        BY <1>2, <2>1 DEF IsStripe
      <4> QED BY <1>0, <1>2, <2>1, <4>1 DEF IsStripe
    <3>3. p.entry = e
      BY <1>0, <1>2, <2>1, <3>1, <3>2 DEF IsStripe
    <3> QED BY <2>1, <2>2, <3>3
  <2>3. CASE p.exit # x
    <3>1. p \in [entry : F, exit : R]
      BY <2>1, <2>3
    <3>2. IsStripe(p, F, R)
      BY <2>1, <3>1 DEF IsStripe
    <3> QED BY <3>1, <3>2, StripeIs
  <2> QED BY <2>2, <2>3
<1>5. ASSUME NEW p, p \in StripesOf(F, R)
      PROVE  p \in StripesOf(F, T) /\ p.entry < e /\ p.entry \in Int
  <2>1. p \in [entry : F, exit : R] /\ IsStripe(p, F, R)
    BY <1>5, StripeIs
  <2>2. p \in [entry : F, exit : T] /\ ~(x < p.exit)
    BY <1>0, <2>1 DEF IsStripe
  <2>3. IsStripe(p, F, T)
    BY <2>1, <2>2 DEF IsStripe
  <2>4. p.entry < p.exit /\ p.exit < e
    BY <1>2, <2>1 DEF IsStripe
  <2>5. p.entry < e
    BY <1>0, <1>2, <2>1, <2>4 DEF IsStripe
  <2> QED BY <1>1, <2>5, <1>2, <2>1, <2>2, <2>3, <2>4, StripeIs
<1>6. Len(P) \in Nat /\ Len(Q) = Len(P) + 1 /\ Q[Len(P) + 1] = s
      /\ \A i \in 1 .. Len(P) : Q[i] = P[i]
  OBVIOUS
<1> HIDE DEF T, Q
<1>7. \A i \in 1 .. Len(Q) : i \in 1 .. Len(P) \/ i = Len(P) + 1
  BY <1>6
<1>8. \A i \in 1 .. Len(P) : P[i] \in StripesOf(F, R)
  BY DEF Scanned
<1>9. \A i \in 1 .. Len(Q) : Q[i] \in StripesOf(F, T)
  BY <1>3, <1>5, <1>6, <1>7, <1>8
<1>10. \A p \in StripesOf(F, T) : \E i \in 1 .. Len(Q) : Q[i] = p
  <2> TAKE p \in StripesOf(F, T)
  <2>1. CASE p = s
    <3>1. Len(P) + 1 \in 1 .. Len(Q)
      BY <1>6
    <3> QED BY <1>6, <2>1, <3>1
  <2>2. CASE p \in StripesOf(F, R)
    <3>1. PICK i \in 1 .. Len(P) : P[i] = p
      BY <2>2 DEF Scanned
    <3>2. i \in 1 .. Len(Q)
      BY <1>6
    <3> QED BY <1>6, <3>1, <3>2
  <2> QED BY <1>4, <2>1, <2>2
<1>11. ASSUME NEW i \in 1 .. Len(Q), NEW j \in 1 .. Len(Q), i < j
       PROVE  Q[i].entry < Q[j].entry
  <2>1. i \in 1 .. Len(P)
    BY <1>6, <1>11
  <2>2. CASE j \in 1 .. Len(P)
    BY <1>6, <1>11, <2>1, <2>2 DEF Scanned
  <2>3. CASE j = Len(P) + 1
    <3>1. Q[i].entry < e /\ Q[j].entry = e
      BY <1>5, <1>6, <1>8, <2>1, <2>3
    <3> QED BY <3>1
  <2> QED BY <1>7, <2>2, <2>3
<1>12. \A f \in F : \E r \in T : f < r
  BY DEF T
<1> HIDE DEF s
<1>13. Scanned(Q, None, F, T)
  BY <1>9, <1>10, <1>11, <1>12 DEF Scanned
<1> QED BY <1>13 DEF Q, T, s

-----------------------------------------------------------------------------
(* The stripes in the order they were found in are the stripes in order.     *)
Rising(P, n, S) ==
    /\ \A i \in 1 .. n : P[i] \in S /\ P[i].entry \in Int
    /\ \A p \in S : \E i \in 1 .. n : P[i] = p
    /\ \A i, j \in 1 .. n : i < j => P[i].entry < P[j].entry

LEMMA RisingCounts ==
    ASSUME NEW n \in Nat, NEW P, NEW S, Rising(P, n, S)
    PROVE  Cardinality(S) = n
<1> DEFINE f == [i \in 1 .. n |-> P[i]]
<1>1. f \in [1 .. n -> S]
  BY DEF Rising
<1>2. \A i, j \in 1 .. n : f[i] = f[j] => i = j
  <2> SUFFICES ASSUME NEW i \in 1 .. n, NEW j \in 1 .. n, i < j PROVE f[i] # f[j]
    OBVIOUS
  <2>1. P[i].entry < P[j].entry /\ P[i].entry \in Int /\ P[j].entry \in Int
    BY DEF Rising
  <2> QED BY <2>1
<1>3. \A p \in S : \E i \in 1 .. n : f[i] = p
  BY DEF Rising
<1> HIDE DEF f
<1>4. f \in Bijection(1 .. n, S)
  BY <1>1, <1>2, <1>3 DEF Bijection, Injection, Surjection, IsInjective
<1> QED BY <1>4, FS_CountingElements DEF ExistsBijection

LEMMA OrderedIs ==
    ASSUME NEW n \in Nat, NEW P, P = [i \in 1 .. n |-> P[i]], NEW S, Rising(P, n, S)
    PROVE  Ordered(S) = P
<1> DEFINE B(p) == {q \in S : q.entry <= p.entry}
<1>1. ASSUME NEW k \in 1 .. n PROVE Cardinality(B(P[k])) = k
  <2>1. ASSUME NEW i \in 1 .. k
        PROVE  P[i] \in B(P[k]) /\ P[i].entry \in Int
    <3>1. i \in 1 .. n /\ (i < k \/ i = k)
      OBVIOUS
    <3>2. P[i].entry <= P[k].entry
      BY <3>1 DEF Rising
    <3> QED BY <3>1, <3>2 DEF Rising
  <2>2. ASSUME NEW q \in B(P[k]) PROVE \E i \in 1 .. k : P[i] = q
    <3>1. PICK i \in 1 .. n : P[i] = q
      BY DEF Rising
    <3>2. P[i].entry <= P[k].entry /\ P[i].entry \in Int /\ P[k].entry \in Int
      BY <3>1 DEF Rising
    <3>3. ~(k < i)
      <4> SUFFICES ASSUME k < i PROVE FALSE
        OBVIOUS
      <4>1. P[k].entry < P[i].entry
        BY DEF Rising
      <4> QED BY <3>2, <4>1
    <3>4. i \in 1 .. k
      BY <3>3
    <3> QED BY <3>1, <3>4
  <2>3. \A i, j \in 1 .. k : i \in 1 .. n /\ j \in 1 .. n
    OBVIOUS
  <2>4. \A i, j \in 1 .. k : i < j => P[i].entry < P[j].entry
    BY <2>3 DEF Rising
  <2> HIDE DEF B
  <2>5. Rising(P, k, B(P[k]))
    BY <2>1, <2>2, <2>4 DEF Rising
  <2> QED BY <2>5, RisingCounts
<1>2. Cardinality(S) = n
  BY RisingCounts
<1>3. ASSUME NEW k \in 1 .. n
      PROVE  (CHOOSE p \in S : Cardinality(B(p)) = k) = P[k]
  <2> HIDE DEF B
  <2>1. P[k] \in S /\ Cardinality(B(P[k])) = k
    BY <1>1 DEF Rising
  <2>2. ASSUME NEW p \in S, Cardinality(B(p)) = k PROVE p = P[k]
    <3>1. PICK i \in 1 .. n : P[i] = p
      BY DEF Rising
    <3> QED BY <1>1, <2>2, <3>1
  <2> QED BY <2>1, <2>2
<1>4. Ordered(S) = [k \in 1 .. Cardinality(S) |-> CHOOSE p \in S : Cardinality(B(p)) = k]
  BY DEF Ordered
<1> HIDE DEF B
<1>5. Ordered(S) = [k \in 1 .. n |-> P[k]]
  BY <1>2, <1>3, <1>4
<1> QED BY <1>5

-----------------------------------------------------------------------------
(* What has been read does not change: the response at a pixel whose         *)
(* neighbourhood has been read is a number and stays what it is.             *)
LEMMA SmoothedKeeps ==
    ASSUME NEW im, NEW im2, NEW c \in Int,
           \A j \in 1 .. N2 : /\ im[c + 1 + j - (N2 + 1) \div 2] \in 0 .. 255
                              /\ im2[c + 1 + j - (N2 + 1) \div 2] = im[c + 1 + j - (N2 + 1) \div 2]
    PROVE  SmoothedAt(im2, c) = SmoothedAt(im, c) /\ SmoothedAt(im, c) \in Int
<1> DEFINE a == [j \in 1 .. N2 |-> im[c + 1 + j - (N2 + 1) \div 2] * KernelGauss[j]]
           b == [j \in 1 .. N2 |-> im2[c + 1 + j - (N2 + 1) \div 2] * KernelGauss[j]]
<1>1. N2 \in Nat /\ N2 \in 0 .. N2 /\ \A j \in 1 .. N2 : KernelGauss[j] \in Nat
  BY N2Type
<1>2. a = b
  OBVIOUS
<1>3. \A j \in 1 .. N2 : a[j] \in Int
  <2> TAKE j \in 1 .. N2
  <2>1. a[j] = Times(im[c + 1 + j - (N2 + 1) \div 2], KernelGauss[j])
    BY DEF Times
  <2> HIDE DEF a
  <2> QED BY <1>1, <2>1, Product
<1>4. PICK s : IsSum(s, a, N2)
  <2> HIDE DEF a
  <2> QED BY <1>1, <1>3, SumExists
<1>5. SmoothedAt(im, c) = s[N2]
  BY <1>4, SmoothedIs
<1>6. SmoothedAt(im2, c) = s[N2]
  <2>1. IsSum(s, b, N2)
    BY <1>2, <1>4
  <2> QED BY <2>1, SmoothedIs
<1>7. s[N2] \in Int
  BY <1>1, <1>4 DEF IsSum
<1> QED BY <1>5, <1>6, <1>7

LEMMA ResponseKeeps ==
    ASSUME NEW im, NEW im2, NEW i \in Int,
           \A k \in 1 .. i : im[k] \in 0 .. 255 /\ im2[k] = im[k],
           NEW x \in InnerTo(i)
    PROVE  ResponseAt(im2, x) = ResponseAt(im, x) /\ ResponseAt(im, x) \in Int
<1> DEFINE h == N \div 2
           Q(c) == SmoothedAt(im2, c) = SmoothedAt(im, c) /\ SmoothedAt(im, c) \in Int
<1>1. h \in Int /\ h = (N2 + 1) \div 2 /\ N2 = 2 * h - 1 /\ N2 \in Nat
  BY Halves, N2Type
<1>2. x \in Int /\ h <= x /\ x <= i - 1 - h
  <2>1. x \in h .. i - 1 - h
    BY DEF InnerTo
  <2> QED BY <1>1, <2>1
<1> HIDE DEF h
<1>3. ASSUME NEW c \in {x - 1, x + 1} PROVE Q(c)
  <2>1. c \in Int /\ \A j \in 1 .. N2 : c + 1 + j - h \in 1 .. i
    BY <1>1, <1>2
  <2>2. \A j \in 1 .. N2 : c + 1 + j - (N2 + 1) \div 2 \in 1 .. i
    BY <1>1, <2>1
  <2> QED BY <2>1, <2>2, SmoothedKeeps, SMTT(40)
<1> HIDE DEF Q
<1>4. Q(x - 1) /\ Q(x + 1)
  BY <1>3
<1> QED BY <1>4 DEF Q, ResponseAt

FallsTo(im, i) == {x \in InnerTo(i) : -ResponseAt(im, x) > EnterThreshold}
RisesTo(im, i) == {x \in InnerTo(i) : ResponseAt(im, x) > ExitThreshold}

LEMMA StripesAre ==
    Stripes(count) = StripesOf(FallsTo(image, count), RisesTo(image, count))
BY ResponseIs DEF Stripes, StripesOf, FallsTo, RisesTo

(* One more sample brings one more pixel.                                    *)
AddsPixel(im, im2, i, x) ==
    /\ FallsTo(im, i) \in SUBSET Int /\ RisesTo(im, i) \in SUBSET Int /\ x \in Int
    /\ \A y \in FallsTo(im, i) \cup RisesTo(im, i) : y < x
    /\ i + 1 < N => /\ FallsTo(im2, i + 1) = FallsTo(im, i)
                    /\ RisesTo(im2, i + 1) = RisesTo(im, i)
    /\ i + 1 >= N =>
         /\ FallsTo(im2, i + 1) = FallsTo(im, i)
              \cup (IF -ResponseAt(im2, x) > EnterThreshold THEN {x} ELSE {})
         /\ RisesTo(im2, i + 1) = RisesTo(im, i)
              \cup (IF ResponseAt(im2, x) > ExitThreshold THEN {x} ELSE {})

LEMMA OneMore ==
    ASSUME NEW im, NEW im2, NEW i \in Nat,
           \A k \in 1 .. i : im[k] \in 0 .. 255 /\ im2[k] = im[k]
    PROVE  AddsPixel(im, im2, i, i - N \div 2)
<1> DEFINE x == i - N \div 2
<1>1. N \div 2 \in Nat /\ N = 2 * (N \div 2) + 1 /\ x \in Int
  BY Halves, N2Type
<1>2. \A y \in InnerTo(i) : y \in Int /\ y < x
  BY <1>1 DEF InnerTo
<1>3. \A y \in InnerTo(i) : ResponseAt(im2, y) = ResponseAt(im, y)
  BY ResponseKeeps
<1>4. i + 1 < N => InnerTo(i + 1) = {} /\ InnerTo(i) = {}
  BY <1>1 DEF InnerTo
<1>5. i + 1 >= N => InnerTo(i + 1) = InnerTo(i) \cup {x}
  BY <1>1 DEF InnerTo
<1>6. i + 1 < N => FallsTo(im2, i + 1) = FallsTo(im, i) /\ RisesTo(im2, i + 1) = RisesTo(im, i)
  BY <1>4 DEF FallsTo, RisesTo
<1>7. ASSUME i + 1 >= N
      PROVE  FallsTo(im2, i + 1) = FallsTo(im, i)
                 \cup (IF -ResponseAt(im2, x) > EnterThreshold THEN {x} ELSE {})
  BY <1>3, <1>5, <1>7 DEF FallsTo
<1>8. ASSUME i + 1 >= N
      PROVE  RisesTo(im2, i + 1) = RisesTo(im, i)
                 \cup (IF ResponseAt(im2, x) > ExitThreshold THEN {x} ELSE {})
  BY <1>3, <1>5, <1>8 DEF RisesTo
<1>9. FallsTo(im, i) \subseteq InnerTo(i) /\ RisesTo(im, i) \subseteq InnerTo(i)
  BY DEF FallsTo, RisesTo
<1> HIDE DEF x
<1>10. AddsPixel(im, im2, i, x)
  BY <1>1, <1>2, <1>6, <1>7, <1>8, <1>9 DEF AddsPixel
<1> QED BY <1>10 DEF x

-----------------------------------------------------------------------------
(* One round of the loop in detect_edge() adds a pixel to the falls or to the*)
(* rises, or to none, and that is the pixel it points to.                    *)
LEMMA RoundAddsPixel ==
    ASSUME LineInv, LineInv', NEW v \in Brightness, Step(v), pc' \in {"edge", "aborted"}
    PROVE  \E F \in SUBSET Int, R \in SUBSET Int, x \in Int :
              /\ F = FallsTo(image, index) /\ R = RisesTo(image, index)
              /\ \A y \in F \cup R : y < x
              /\ FallsTo(image', index') = F \cup (IF Falls THEN {x} ELSE {})
              /\ RisesTo(image', index') = R \cup (IF Rises THEN {x} ELSE {})
              /\ ~(Falls /\ Rises)
              /\ Falls \/ Rises => Pos = x
<1> DEFINE x == index - N \div 2
<1>1. /\ pc = "edge" /\ index' = index + 1 /\ index \in Nat
      /\ image' = IF index = 0 THEN image ELSE Append(image, v)
      /\ image \in Seq(Brightness) /\ Len(image) = IF index = 0 THEN 1 ELSE index
  BY DEF Step, Increment, LineInv, LineTypeOK, AsMuchRead
<1>2. \A k \in 1 .. index : image[k] \in 0 .. 255 /\ image'[k] = image[k]
  <2>1. \A k \in 1 .. index : image[k] \in Brightness /\ image'[k] = image[k]
    BY <1>1
  <2> QED BY <2>1, Numbers
<1>3. /\ image' \in Seq(Brightness) /\ Len(image') = index'
      /\ index' \in 0 .. 2 ^ SizeBits - 1
      /\ filter_value' = IF index' < N THEN 0 ELSE Filtered(history', index')
      /\ filter_value' \in Int
  BY <1>1 DEF LineInv, LineTypeOK, AsMuchRead
<1>4. EnterThreshold \in Nat /\ ExitThreshold \in Nat
  BY ThresholdAssumption
<1>5. N \in Nat /\ N \div 2 \in Nat /\ index' - 1 - N \div 2 = x
  BY <1>1, Numbers
<1>6. AddsPixel(image, image', index, x)
  <2>1. AddsPixel(image, image', index, index - N \div 2)
    BY <1>1, <1>2, OneMore
  <2> QED BY <2>1
<1> HIDE DEF x
<1>7. ~(Falls /\ Rises)
  BY <1>3, <1>4 DEF Falls, Rises
<1>8. /\ FallsTo(image', index') = FallsTo(image, index) \cup (IF Falls THEN {x} ELSE {})
      /\ RisesTo(image', index') = RisesTo(image, index) \cup (IF Rises THEN {x} ELSE {})
      /\ Falls \/ Rises => Pos = x
  <2>1. CASE index' < N
    <3>1. filter_value' = 0
      BY <1>3, <2>1
    <3>2. ~Falls /\ ~Rises
      BY <1>4, <3>1 DEF Falls, Rises
    <3> QED BY <1>1, <1>6, <2>1, <3>2 DEF x, AddsPixel
  <2>2. CASE ~(index' < N)
    <3>1. index' \in N .. 2 ^ SizeBits - 1 /\ index' >= N
      BY <1>1, <1>3, <2>2, Numbers
    <3>2. \A p \in 0 .. index' - 1 :
              index' - N <= p => history'[p % N] = [pos |-> p, value |-> image'[p + 1]]
      BY DEF LineInv, RingHolds
    <3>3. /\ Centre(history', index') = index' - 1 - N \div 2
          /\ Filtered(history', index') = ResponseAt(image', index' - 1 - N \div 2)
      BY <1>3, <3>1, <3>2, Measured
    <3>4. Pos = x /\ filter_value' = ResponseAt(image', x)
      BY <1>3, <1>5, <2>2, <3>3 DEF Pos
    <3> QED BY <1>1, <1>6, <1>7, <3>1, <3>4 DEF x, AddsPixel, Falls, Rises
  <2> QED BY <2>1, <2>2
<1>9. /\ FallsTo(image, index) \in SUBSET Int /\ RisesTo(image, index) \in SUBSET Int
      /\ x \in Int
      /\ \A y \in FallsTo(image, index) \cup RisesTo(image, index) : y < x
  BY <1>6 DEF AddsPixel
<1> QED BY <1>7, <1>8, <1>9

-----------------------------------------------------------------------------
(* The first of the stripes P that fits its counterpart in Q.                *)
FirstFit(P, Q) ==
    LET fits == {i \in 1 .. Len(P) \cap 1 .. Len(Q) : WidthFits(P[i], Q[i])}
    IN IF fits = {} THEN None
       ELSE P[CHOOSE i \in fits : \A j \in fits : i <= j].entry

(* The comparison has come to stripe n of Q, or has found d.                 *)
Compared(P, Q, n, d) ==
    /\ n \in 1 .. Len(Q) + 1
    /\ d = None =>
          /\ n - 1 = Len(P) \/ (n - 1 = Len(Q) /\ n - 1 <= Len(P))
          /\ \A i \in 1 .. n - 1 : ~WidthFits(P[i], Q[i])
    /\ d # None =>
          \E i \in 1 .. Len(P) :
              /\ i <= Len(Q) /\ WidthFits(P[i], Q[i]) /\ d = P[i].entry
              /\ \A j \in 1 .. i - 1 : ~WidthFits(P[j], Q[j])

LEMMA ComparedIsFirst ==
    ASSUME NEW C, NEW P \in Seq(C), NEW Q \in Seq(C), NEW n, NEW d, Compared(P, Q, n, d)
    PROVE  FirstFit(P, Q) = d
<1> DEFINE fits == {i \in 1 .. Len(P) \cap 1 .. Len(Q) : WidthFits(P[i], Q[i])}
<1>1. FirstFit(P, Q) = IF fits = {} THEN None
                       ELSE P[CHOOSE i \in fits : \A j \in fits : i <= j].entry
  BY DEF FirstFit
<1>2. Len(P) \in Nat /\ Len(Q) \in Nat
  OBVIOUS
<1>3. CASE d = None
  <2>1. /\ n \in 1 .. Len(Q) + 1
        /\ n - 1 = Len(P) \/ (n - 1 = Len(Q) /\ n - 1 <= Len(P))
        /\ \A i \in 1 .. n - 1 : ~WidthFits(P[i], Q[i])
    BY <1>3 DEF Compared
  <2>2. \A i \in 1 .. Len(P) \cap 1 .. Len(Q) : i \in 1 .. n - 1
    BY <1>2, <2>1
  <2>3. fits = {}
    BY <2>1, <2>2
  <2> QED BY <1>1, <1>3, <2>3
<1>4. CASE d # None
  <2>1. PICK i \in 1 .. Len(P) :
              /\ i <= Len(Q) /\ WidthFits(P[i], Q[i]) /\ d = P[i].entry
              /\ \A j \in 1 .. i - 1 : ~WidthFits(P[j], Q[j])
    BY <1>4 DEF Compared
  <2>2. i \in fits /\ i \in Int /\ \A j \in fits : j \in Int
    BY <1>2, <2>1
  <2>3. \A j \in fits : i <= j
    <3> TAKE j \in fits
    <3>1. j \in Int /\ 1 <= j /\ WidthFits(P[j], Q[j])
      BY <1>2
    <3> QED BY <2>1, <2>2, <3>1
  <2> HIDE DEF fits
  <2>4. \A k \in fits : (\A j \in fits : k <= j) => k = i
    BY <2>2, <2>3
  <2>5. (CHOOSE k \in fits : \A j \in fits : k <= j) = i
    BY <2>2, <2>3, <2>4
  <2> QED BY <1>1, <2>1, <2>2, <2>5
<1> QED BY <1>3, <1>4

(* p is what the last of the first n rays that met the image has seen.       *)
LastSeen(s, n, p) ==
    \/ p = <<>> /\ \A j \in 1 .. n : s[j] = None
    \/ \E j \in 1 .. n : s[j] # None /\ s[j] = p /\ \A i \in j + 1 .. n : s[i] = None

ExpectedIn(s, k) ==
    LET earlier == {j \in 1 .. k - 1 : s[j] # None}
        prev == IF earlier = {} THEN <<>>
                ELSE s[CHOOSE j \in earlier : \A i \in earlier : i <= j]
        fits == {i \in 1 .. Len(s[k]) \cap 1 .. Len(prev) : WidthFits(s[k][i], prev[i])}
    IN IF s[k] = None \/ fits = {} THEN None
       ELSE s[k][CHOOSE i \in fits : \A j \in fits : i <= j].entry

LEMMA ExpectedIs ==
    ASSUME NEW s, NEW k \in Nat, NEW p, LastSeen(s, k - 1, p)
    PROVE  ExpectedIn(s, k) = IF s[k] = None THEN None ELSE FirstFit(s[k], p)
<1> DEFINE earlier == {j \in 1 .. k - 1 : s[j] # None}
           prev == IF earlier = {} THEN <<>>
                   ELSE s[CHOOSE j \in earlier : \A i \in earlier : i <= j]
<1>1. prev = p
  <2>1. CASE p = <<>> /\ \A j \in 1 .. k - 1 : s[j] = None
    <3>1. earlier = {}
      BY <2>1
    <3> QED BY <2>1, <3>1
  <2>2. ASSUME NEW j \in 1 .. k - 1, s[j] # None, s[j] = p,
               \A i \in j + 1 .. k - 1 : s[i] = None
        PROVE  prev = p
    <3>1. j \in earlier /\ \A i \in earlier : i \in Int /\ i <= j
      BY <2>2
    <3> HIDE DEF earlier
    <3>2. j \in Int /\ \A i \in earlier : (\A l \in earlier : l <= i) => i = j
      BY <3>1
    <3>3. (CHOOSE i \in earlier : \A l \in earlier : l <= i) = j
      BY <3>1, <3>2
    <3> QED BY <2>2, <3>1, <3>3
  <2> QED BY <2>1, <2>2 DEF LastSeen
<1>2. ExpectedIn(s, k) =
          LET fits == {i \in 1 .. Len(s[k]) \cap 1 .. Len(prev) : WidthFits(s[k][i], prev[i])}
          IN IF s[k] = None \/ fits = {} THEN None
             ELSE s[k][CHOOSE i \in fits : \A j \in fits : i <= j].entry
  BY DEF ExpectedIn
<1> HIDE DEF prev
<1> QED BY <1>1, <1>2 DEF FirstFit

-----------------------------------------------------------------------------
(* Nothing is seen before the first pixel with a response.                   *)
LEMMA NothingYet ==
    ASSUME NEW im
    PROVE  Scanned(<<>>, None, FallsTo(im, 0), RisesTo(im, 0))
<1>1. InnerTo(0) = {}
  BY Numbers DEF InnerTo
<1>2. StripesOf({}, {}) = {}
  BY DEF StripesOf
<1>3. FallsTo(im, 0) = {} /\ RisesTo(im, 0) = {}
  BY <1>1 DEF FallsTo, RisesTo
<1> QED BY <1>2, <1>3 DEF Scanned

(* What a round of the loop does to entry and point_pairs is right.          *)
LEMMA RoundScans ==
    ASSUME LineInv, LineInv', NEW v \in Brightness, Step(v), pc' \in {"edge", "aborted"},
           point_pairs \in Seq(Pairs),
           Scanned(point_pairs, entry, FallsTo(image, index), RisesTo(image, index))
    PROVE  /\ ~(entry = None /\ Falls) /\ ~(entry # None /\ Rises) =>
                Scanned(point_pairs, entry, FallsTo(image', index'), RisesTo(image', index'))
           /\ entry = None /\ Falls =>
                Scanned(point_pairs, Pos, FallsTo(image', index'), RisesTo(image', index'))
           /\ entry # None /\ Rises =>
                Scanned(Append(point_pairs, [entry |-> entry, exit |-> Pos]), None,
                        FallsTo(image', index'), RisesTo(image', index'))
<1>1. PICK F \in SUBSET Int, R \in SUBSET Int, x \in Int :
              /\ F = FallsTo(image, index) /\ R = RisesTo(image, index)
              /\ \A y \in F \cup R : y < x
              /\ FallsTo(image', index') = F \cup (IF Falls THEN {x} ELSE {})
              /\ RisesTo(image', index') = R \cup (IF Rises THEN {x} ELSE {})
              /\ ~(Falls /\ Rises)
              /\ Falls \/ Rises => Pos = x
  BY RoundAddsPixel
<1> DEFINE F2 == FallsTo(image', index')
           R2 == RisesTo(image', index')
<1>2. Scanned(point_pairs, entry, F, R)
  BY <1>1
<1>3. ASSUME Falls
      PROVE  F2 = F \cup {x} /\ R2 = R /\ Pos = x /\ ~Rises
             /\ Scanned(point_pairs, IF entry = None THEN x ELSE entry, F2, R2)
  <2>1. Scanned(point_pairs, IF entry = None THEN x ELSE entry, F \cup {x}, R)
    BY <1>1, <1>2, ScanFall
  <2>2. F2 = F \cup {x} /\ R2 = R /\ Pos = x /\ ~Rises
    BY <1>1, <1>3
  <2> QED BY <2>1, <2>2
<1>4. ASSUME Rises
      PROVE  F2 = F /\ R2 = R \cup {x} /\ Pos = x /\ ~Falls
  BY <1>1, <1>4
<1>5. ASSUME ~Falls, ~Rises PROVE F2 = F /\ R2 = R
  BY <1>1, <1>5
<1>6. ASSUME Rises, entry = None PROVE Scanned(point_pairs, entry, F2, R2)
  <2>1. Scanned(point_pairs, None, F, R)
    BY <1>2, <1>6
  <2>2. Scanned(point_pairs, None, F, R \cup {x})
    BY <1>1, <2>1, ScanRiseOutside
  <2> QED BY <1>4, <1>6, <2>2
<1>7. ASSUME Rises, entry # None
      PROVE  Scanned(Append(point_pairs, [entry |-> entry, exit |-> Pos]), None, F2, R2)
  <2>1. Scanned(Append(point_pairs, [entry |-> entry, exit |-> x]), None, F, R \cup {x})
    BY <1>1, <1>2, <1>7, ScanRiseInside
  <2> QED BY <1>4, <1>7, <2>1
<1> HIDE DEF F2, R2
<1>8. ~(entry = None /\ Falls) /\ ~(entry # None /\ Rises)
          => Scanned(point_pairs, entry, F2, R2)
  BY <1>2, <1>3, <1>5, <1>6
<1>9. entry = None /\ Falls => Scanned(point_pairs, Pos, F2, R2)
  BY <1>3
<1> QED BY <1>7, <1>8, <1>9 DEF F2, R2

(* The iterator points to a pixel.                                           *)
LEMMA PosType ==
    ASSUME LineInv'
    PROVE  Pos \in Points
<1>1. history' \in [0 .. N - 1 -> [pos : 0 .. 2 ^ SizeBits - 1, value : Brightness \cup {0}]]
  BY DEF LineInv, LineTypeOK
<1>2. index' \in Int /\ N \div 2 \in Int /\ 2 ^ SizeBits \in Nat \ {0} /\ N \in Nat \ {0}
  BY Numbers DEF LineInv, LineTypeOK
<1>3. ASSUME NEW x \in Int, NEW m \in Nat \ {0}, NEW n \in Nat \ {0}
      PROVE  (x % m) % n \in 0 .. n - 1
  <2>1. x % m \in Int
    BY ModRange
  <2> QED BY <2>1, ModRange
<1>4. HistoryIdx(index', N \div 2 + 1) \in 0 .. N - 1
  <2>1. ASSUME NEW x, x = index' - (N \div 2 + 1)
        PROVE  (x % (2 ^ SizeBits)) % N \in 0 .. N - 1
    <3>1. x \in Int
      BY <1>2, <2>1
    <3> QED BY <1>2, <1>3, <3>1
  <2> QED BY <2>1 DEF HistoryIdx
<1>5. Pos \in 0 .. 2 ^ SizeBits - 1
  BY <1>1, <1>4 DEF Pos, Centre
<1> QED BY <1>2, <1>5 DEF Points

(* One more stripe is not compared, or is.                                   *)
LEMMA ComparedMore ==
    ASSUME NEW C, NEW P \in Seq(C), NEW Q \in Seq(C), NEW n, NEW d, Compared(P, Q, n, d),
           NEW p \in C, p.entry # None
    PROVE  IF n <= Len(Q) /\ d = None
           THEN Compared(Append(P, p), Q, n + 1,
                         IF WidthFits(p, Q[n]) THEN p.entry ELSE None)
           ELSE Compared(Append(P, p), Q, n, d)
<1> DEFINE P2 == Append(P, p)
<1>1. /\ Len(P) \in Nat /\ Len(Q) \in Nat /\ Len(P2) = Len(P) + 1 /\ P2[Len(P) + 1] = p
      /\ \A i \in 1 .. Len(P) : P2[i] = P[i]
      /\ n \in 1 .. Len(Q) + 1 /\ n \in Int
  BY DEF Compared
<1> HIDE DEF P2
<1>2. CASE d # None
  <2>1. PICK i \in 1 .. Len(P) :
              /\ i <= Len(Q) /\ WidthFits(P[i], Q[i]) /\ d = P[i].entry
              /\ \A j \in 1 .. i - 1 : ~WidthFits(P[j], Q[j])
    BY <1>2 DEF Compared
  <2>2. i \in 1 .. Len(P2) /\ P2[i] = P[i] /\ \A j \in 1 .. i - 1 : P2[j] = P[j]
    BY <1>1
  <2>3. Compared(P2, Q, n, d)
    BY <1>1, <1>2, <2>1, <2>2 DEF Compared
  <2> QED BY <1>2, <2>3 DEF P2
<1>3. CASE d = None
  <2>1. /\ n - 1 = Len(P) \/ (n - 1 = Len(Q) /\ n - 1 <= Len(P))
        /\ \A i \in 1 .. n - 1 : ~WidthFits(P[i], Q[i])
    BY <1>3 DEF Compared
  <2>2. \A i \in 1 .. n - 1 : P2[i] = P[i]
    BY <1>1, <2>1
  <2>3. \A i \in 1 .. n - 1 : ~WidthFits(P2[i], Q[i])
    BY <2>1, <2>2
  <2>4. CASE ~(n <= Len(Q))
    <3>1. n - 1 = Len(Q) /\ n - 1 <= Len(P2)
      BY <1>1, <2>1, <2>4
    <3>2. Compared(P2, Q, n, d)
      BY <1>1, <1>3, <2>3, <3>1 DEF Compared
    <3> QED BY <2>4, <3>2 DEF P2
  <2>5. CASE n <= Len(Q)
    <3>1. n = Len(P) + 1 /\ P2[n] = p /\ n + 1 \in 1 .. Len(Q) + 1 /\ n \in 1 .. Len(P2)
          /\ (n + 1) - 1 = n
      BY <1>1, <2>1, <2>5
    <3>2. CASE WidthFits(p, Q[n])
      <4>1. \E i \in 1 .. Len(P2) :
              /\ i <= Len(Q) /\ WidthFits(P2[i], Q[i]) /\ p.entry = P2[i].entry
              /\ \A j \in 1 .. i - 1 : ~WidthFits(P2[j], Q[j])
        BY <2>3, <2>5, <3>1, <3>2
      <4>2. Compared(P2, Q, n + 1, p.entry)
        BY <3>1, <4>1 DEF Compared
      <4> QED BY <1>3, <2>5, <3>2, <4>2 DEF P2
    <3>3. CASE ~WidthFits(p, Q[n])
      <4>1. \A i \in 1 .. n : ~WidthFits(P2[i], Q[i])
        <5> TAKE i \in 1 .. n
        <5>1. i = n \/ i \in 1 .. n - 1
          BY <1>1
        <5> QED BY <2>3, <3>1, <3>3, <5>1
      <4>2. Compared(P2, Q, n + 1, None)
        BY <1>1, <3>1, <4>1 DEF Compared
      <4> QED BY <1>3, <2>5, <3>3, <4>2 DEF P2
    <3> QED BY <3>2, <3>3
  <2> QED BY <2>4, <2>5
<1> QED BY <1>2, <1>3

-----------------------------------------------------------------------------
(* Ranges r are right for the stripes s of the rays so far, the last ray that*)
(* met the image has seen p.                                                 *)
Confirmed(r, s, p) ==
    /\ Len(r) = Len(s)
    /\ LastSeen(s, Len(s), p)
    /\ \A k \in 1 .. Len(s) :
           \E q : /\ LastSeen(s, k - 1, q)
                  /\ r[k] = IF s[k] = None THEN None ELSE FirstFit(s[k], q)

LEMMA LastSeenKeeps ==
    ASSUME NEW n \in Int, NEW s, NEW s2, \A j \in 1 .. n : s2[j] = s[j], NEW p, LastSeen(s, n, p)
    PROVE  LastSeen(s2, n, p)
<1>1. CASE p = <<>> /\ \A j \in 1 .. n : s[j] = None
  BY <1>1 DEF LastSeen
<1>2. ASSUME NEW j \in 1 .. n, s[j] # None, s[j] = p, \A i \in j + 1 .. n : s[i] = None
      PROVE  LastSeen(s2, n, p)
  <2>1. \A i \in j + 1 .. n : i \in 1 .. n
    OBVIOUS
  <2>2. s2[j] # None /\ s2[j] = p /\ \A i \in j + 1 .. n : s2[i] = None
    BY <1>2, <2>1
  <2> QED BY <2>2 DEF LastSeen
<1> QED BY <1>1, <1>2 DEF LastSeen

(* The next ray: a is its range, b what it has seen.                         *)
LEMMA NextRay ==
    ASSUME NEW D, NEW s \in Seq(D), NEW E, NEW r \in Seq(E), NEW p, Confirmed(r, s, p),
           NEW a, NEW b, a = IF b = None THEN None ELSE FirstFit(b, p)
    PROVE  Confirmed(Append(r, a), Append(s, b), IF b = None THEN p ELSE b)
<1> DEFINE r2 == Append(r, a)
           s2 == Append(s, b)
           n == Len(s)
<1>1. /\ n \in Nat /\ Len(r) = n /\ Len(r2) = n + 1 /\ Len(s2) = n + 1
      /\ r2[n + 1] = a /\ s2[n + 1] = b
      /\ \A k \in 1 .. n : r2[k] = r[k] /\ s2[k] = s[k]
  BY DEF Confirmed
<1>2. LastSeen(s, n, p)
  BY DEF Confirmed
<1>3. ASSUME NEW k \in 1 .. n
      PROVE  \E q : /\ LastSeen(s, k - 1, q)
                    /\ r[k] = IF s[k] = None THEN None ELSE FirstFit(s[k], q)
  BY DEF Confirmed
<1> HIDE DEF r2, s2, n
<1>4. LastSeen(s2, n, p)
  <2>1. n \in Int
    BY <1>1
  <2> QED BY <1>1, <1>2, <2>1, LastSeenKeeps
<1>5. LastSeen(s2, n + 1, IF b = None THEN p ELSE b)
  <2>1. CASE b # None
    <3>1. /\ n + 1 \in 1 .. n + 1 /\ s2[n + 1] # None /\ s2[n + 1] = b
          /\ \A i \in (n + 1) + 1 .. n + 1 : s2[i] = None
      BY <1>1, <2>1
    <3>2. LastSeen(s2, n + 1, b)
      BY <3>1 DEF LastSeen
    <3> QED BY <2>1, <3>2
  <2>2. CASE b = None
    <3>1. CASE p = <<>> /\ \A j \in 1 .. n : s2[j] = None
      <4>1. \A j \in 1 .. n + 1 : s2[j] = None
        <5> TAKE j \in 1 .. n + 1
        <5>1. j = n + 1 \/ j \in 1 .. n
          BY <1>1
        <5> QED BY <1>1, <2>2, <3>1, <5>1
      <4> QED BY <2>2, <3>1, <4>1 DEF LastSeen
    <3>2. ASSUME NEW j \in 1 .. n, s2[j] # None, s2[j] = p,
                 \A i \in j + 1 .. n : s2[i] = None
          PROVE  LastSeen(s2, n + 1, p)
      <4>1. \A i \in j + 1 .. n + 1 : s2[i] = None
        <5> TAKE i \in j + 1 .. n + 1
        <5>1. i = n + 1 \/ i \in j + 1 .. n
          BY <1>1
        <5> QED BY <1>1, <2>2, <3>2, <5>1
      <4>2. j \in 1 .. n + 1
        BY <1>1
      <4> QED BY <3>2, <4>1, <4>2 DEF LastSeen
    <3> QED BY <1>4, <2>2, <3>1, <3>2 DEF LastSeen
  <2> QED BY <2>1, <2>2
<1>6. ASSUME NEW k \in 1 .. n + 1
      PROVE  \E q : /\ LastSeen(s2, k - 1, q)
                    /\ r2[k] = IF s2[k] = None THEN None ELSE FirstFit(s2[k], q)
  <2>1. CASE k = n + 1
    <3>1. k - 1 = n
      BY <1>1, <2>1
    <3> QED BY <1>1, <1>4, <2>1, <3>1
  <2>2. CASE k # n + 1
    <3>1. k \in 1 .. n /\ k - 1 \in Int /\ \A j \in 1 .. k - 1 : j \in 1 .. n
      BY <1>1, <2>2
    <3>2. PICK q : /\ LastSeen(s, k - 1, q)
                   /\ r[k] = IF s[k] = None THEN None ELSE FirstFit(s[k], q)
      BY <1>3, <3>1
    <3>3. LastSeen(s2, k - 1, q)
      BY <1>1, <3>1, <3>2, LastSeenKeeps
    <3> QED BY <1>1, <3>1, <3>2, <3>3
  <2> QED BY <2>1, <2>2
<1>7. Confirmed(r2, s2, IF b = None THEN p ELSE b)
  BY <1>1, <1>5, <1>6 DEF Confirmed
<1> QED BY <1>7 DEF r2, s2

(* The stripes found along a whole ray are its stripes, in their order.      *)
LEMMA ScannedIsOrdered ==
    ASSUME NEW F \in SUBSET Int, NEW R, NEW C, NEW P \in Seq(C), NEW e, Scanned(P, e, F, R)
    PROVE  Ordered(StripesOf(F, R)) = P
<1>1. \A p \in StripesOf(F, R) : p.entry \in Int
  BY DEF StripesOf
<1>2. Rising(P, Len(P), StripesOf(F, R))
  BY <1>1 DEF Rising, Scanned
<1>3. Len(P) \in Nat /\ P = [i \in 1 .. Len(P) |-> P[i]]
  OBVIOUS
<1> QED BY <1>2, <1>3, OrderedIs

LEMMA StripesAreSomething == \A P \in Seq(Pairs) : P # None
<1>1. Pairs \subseteq [entry : Int, exit : Int]
  BY Numbers DEF Pairs, Points
<1>2. ASSUME NEW A, NEW B, A \subseteq B, NEW P \in Seq(A) PROVE P \in Seq(B)
  <2>1. Len(P) \in Nat /\ P \in [1 .. Len(P) -> A]
    OBVIOUS
  <2>2. P \in [1 .. Len(P) -> B]
    BY <1>2, <2>1
  <2> QED BY <2>1, <2>2
<1> QED BY <1>1, <1>2, NoStripesAssumption

-----------------------------------------------------------------------------
(* Along a ray the stripes so far are found and compared; between the rays   *)
(* nothing is left of them.                                                  *)
RayInv ==
    IF pc \in {"edge", "aborted"}
    THEN /\ Scanned(point_pairs, entry, FallsTo(image, index), RisesTo(image, index))
         /\ Compared(point_pairs, prev_ray, prev_ray_iter, detected)
         /\ Len(ranges) < NumRays
    ELSE entry = None /\ point_pairs = <<>> /\ prev_ray_iter = 1 /\ detected = None

StripeTypes ==
    /\ entry \in Points \cup {None}
    /\ point_pairs \in Seq(Pairs)
    /\ prev_ray \in Seq(Pairs)
    /\ prev_ray_iter \in 1 .. Len(prev_ray) + 1
    /\ detected \in Points \cup {None}

FrameTypes ==
    /\ ray_center \in Centres \cup {None}
    /\ ranges \in Seq(Points \cup {None}) /\ Len(ranges) <= NumRays
    /\ seen \in Seq(Seq(Pairs) \cup {None})

EdgeInv ==
    /\ LineInv /\ StripeTypes /\ FrameTypes
    /\ RayInv
    /\ Confirmed(ranges, seen, prev_ray)

LEMMA EdgeInit == Init => EdgeInv
<1> SUFFICES ASSUME Init PROVE EdgeInv
  OBVIOUS
<1>1. StripeTypes /\ FrameTypes /\ RayInv
  BY RaysAssumption DEF Init, StripeTypes, FrameTypes, RayInv
<1>2. Confirmed(ranges, seen, prev_ray)
  BY DEF Init, Confirmed, LastSeen
<1> QED BY <1>1, <1>2, LineInit DEF EdgeInv

(* A round of the loop.                                                      *)
LEMMA RoundKeeps ==
    ASSUME EdgeInv, LineInv', NEW v \in Brightness,
           Nothing(v) \/ Enter(v) \/ Leave(v) \/ LeaveAndCompare(v)
    PROVE  EdgeInv'
<1>1. /\ Step(v) /\ pc = "edge" /\ pc' \in {"edge", "aborted"}
      /\ UNCHANGED <<ray_center, prev_ray, ranges, seen>>
  BY DEF Nothing, Enter, Leave, LeaveAndCompare, Step
<1>2. /\ LineInv /\ StripeTypes /\ Len(ranges) < NumRays
      /\ Scanned(point_pairs, entry, FallsTo(image, index), RisesTo(image, index))
      /\ Compared(point_pairs, prev_ray, prev_ray_iter, detected)
  BY <1>1 DEF EdgeInv, RayInv
<1>3. point_pairs \in Seq(Pairs) /\ prev_ray \in Seq(Pairs)
  BY <1>2 DEF StripeTypes
<1>4. Pos \in Points /\ Points \subseteq Int
  BY PosType, Numbers DEF Points
<1> DEFINE F2 == FallsTo(image', index')
           R2 == RisesTo(image', index')
<1>5. /\ ~(entry = None /\ Falls) /\ ~(entry # None /\ Rises) =>
              Scanned(point_pairs, entry, F2, R2)
      /\ entry = None /\ Falls => Scanned(point_pairs, Pos, F2, R2)
      /\ entry # None /\ Rises =>
              Scanned(Append(point_pairs, [entry |-> entry, exit |-> Pos]), None, F2, R2)
  BY <1>1, <1>2, <1>3, RoundScans
<1> HIDE DEF F2, R2
<1>6. ASSUME entry # None, NEW p, p = [entry |-> entry, exit |-> Pos]
      PROVE  /\ p \in Pairs /\ p.entry \in Points /\ p.entry # None
             /\ Append(point_pairs, p) \in Seq(Pairs)
             /\ IF prev_ray_iter <= Len(prev_ray) /\ detected = None
                THEN Compared(Append(point_pairs, p), prev_ray, prev_ray_iter + 1,
                              IF WidthFits(p, prev_ray[prev_ray_iter]) THEN p.entry ELSE None)
                ELSE Compared(Append(point_pairs, p), prev_ray, prev_ray_iter, detected)
  <2>1. p \in Pairs /\ p.entry \in Points /\ p.entry # None
    BY <1>2, <1>4, <1>6 DEF StripeTypes, Pairs
  <2>2. Append(point_pairs, p) \in Seq(Pairs)
    BY <1>3, <2>1
  <2> QED BY <1>2, <1>3, <2>1, <2>2, ComparedMore
<1>7. /\ Scanned(point_pairs', entry', F2, R2)
      /\ Compared(point_pairs', prev_ray', prev_ray_iter', detected')
      /\ StripeTypes'
  <2>1. CASE Nothing(v)
    <3>1. UNCHANGED rayVars /\ UNCHANGED prev_ray
          /\ ~(entry = None /\ Falls) /\ ~(entry # None /\ Rises)
      BY <2>1 DEF Nothing
    <3>2. StripeTypes'
      BY <1>2, <3>1 DEF StripeTypes, rayVars
    <3> QED BY <1>2, <1>5, <3>1, <3>2 DEF rayVars
  <2>2. CASE Enter(v)
    <3>1. /\ UNCHANGED <<point_pairs, prev_ray_iter, detected, prev_ray>>
          /\ entry = None /\ Falls /\ entry' = Pos
      BY <2>2 DEF Enter
    <3>2. StripeTypes'
      BY <1>2, <1>4, <3>1 DEF StripeTypes
    <3> QED BY <1>2, <1>5, <3>1, <3>2
  <2>3. CASE Leave(v)
    <3>1. PICK p : p = [entry |-> entry, exit |-> Pos]
      OBVIOUS
    <3>2. /\ entry # None /\ Rises
          /\ point_pairs' = Append(point_pairs, p) /\ entry' = None
          /\ ~(prev_ray_iter <= Len(prev_ray) /\ detected = None)
          /\ UNCHANGED <<prev_ray_iter, detected, prev_ray>>
      BY <2>3, <3>1 DEF Leave, HasPrev
    <3>3. Append(point_pairs, p) \in Seq(Pairs)
          /\ Compared(Append(point_pairs, p), prev_ray, prev_ray_iter, detected)
      BY <1>6, <3>1, <3>2
    <3>4. StripeTypes'
      BY <1>2, <3>2, <3>3 DEF StripeTypes
    <3> QED BY <1>5, <3>1, <3>2, <3>3, <3>4
  <2>4. CASE LeaveAndCompare(v)
    <3>1. PICK p : p = [entry |-> entry, exit |-> Pos]
      OBVIOUS
    <3>2. /\ entry # None /\ Rises
          /\ point_pairs' = Append(point_pairs, p) /\ entry' = None
          /\ prev_ray_iter <= Len(prev_ray) /\ detected = None
          /\ detected' = IF WidthFits(p, prev_ray[prev_ray_iter]) THEN p.entry ELSE None
          /\ prev_ray_iter' = prev_ray_iter + 1
          /\ UNCHANGED prev_ray
      BY <2>4, <3>1 DEF LeaveAndCompare, HasPrev
    <3>3. /\ p.entry \in Points
          /\ Append(point_pairs, p) \in Seq(Pairs)
          /\ Compared(Append(point_pairs, p), prev_ray, prev_ray_iter', detected')
      BY <1>6, <3>1, <3>2
    <3>4. /\ prev_ray_iter' \in 1 .. Len(prev_ray) + 1
          /\ detected' \in Points \cup {None}
      BY <1>2, <1>3, <3>2, <3>3 DEF StripeTypes
    <3>5. StripeTypes'
      BY <1>2, <3>2, <3>3, <3>4 DEF StripeTypes
    <3> QED BY <1>5, <3>1, <3>2, <3>3, <3>5
  <2> QED BY <2>1, <2>2, <2>3, <2>4
<1>8. RayInv'
  BY <1>1, <1>2, <1>7 DEF RayInv, F2, R2
<1>9. FrameTypes' /\ Confirmed(ranges, seen, prev_ray)'
  BY <1>1 DEF EdgeInv, FrameTypes
<1> QED BY <1>7, <1>8, <1>9 DEF EdgeInv

(* The end of a ray: what was detected is the first stripe that fits.        *)
LEMMA RayDoneKeeps ==
    ASSUME EdgeInv, LineInv', RayDone
    PROVE  EdgeInv'
<1>1. /\ pc = "edge" /\ pc' = "cast" /\ ~More(index + 1)
      /\ prev_ray' = point_pairs
      /\ ranges' = Append(ranges, detected)
      /\ seen' = Append(seen, Ordered(Stripes(count)))
      /\ entry' = None /\ point_pairs' = <<>> /\ prev_ray_iter' = 1 /\ detected' = None
      /\ UNCHANGED ray_center
  BY DEF RayDone, NoRay
<1>2. /\ LineInv /\ StripeTypes /\ FrameTypes /\ Len(ranges) < NumRays
      /\ Scanned(point_pairs, entry, FallsTo(image, index), RisesTo(image, index))
      /\ Compared(point_pairs, prev_ray, prev_ray_iter, detected)
      /\ Confirmed(ranges, seen, prev_ray)
  BY <1>1 DEF EdgeInv, RayInv
<1>3. point_pairs \in Seq(Pairs) /\ prev_ray \in Seq(Pairs)
  BY <1>2 DEF StripeTypes
<1>4. index = count
  BY <1>1, <1>2, Numbers DEF LineInv, LineTypeOK, AsMuchRead, More
<1>5. Ordered(Stripes(count)) = point_pairs
  <2>1. FallsTo(image, index) \in SUBSET Int
    BY DEF FallsTo, InnerTo
  <2>2. Ordered(StripesOf(FallsTo(image, index), RisesTo(image, index))) = point_pairs
    BY <1>2, <1>3, <2>1, ScannedIsOrdered
  <2> QED BY <1>4, <2>2, StripesAre
<1>6. point_pairs # None
  BY <1>3, StripesAreSomething
<1>7. FirstFit(point_pairs, prev_ray) = detected
  BY <1>2, <1>3, ComparedIsFirst
<1>8. Confirmed(ranges', seen', prev_ray')
  <2>1. detected = IF point_pairs = None THEN None ELSE FirstFit(point_pairs, prev_ray)
    BY <1>6, <1>7
  <2>2. ranges \in Seq(Points \cup {None}) /\ seen \in Seq(Seq(Pairs) \cup {None})
    BY <1>2 DEF FrameTypes
  <2>3. Confirmed(Append(ranges, detected), Append(seen, point_pairs),
                  IF point_pairs = None THEN prev_ray ELSE point_pairs)
    BY <1>2, <2>1, <2>2, NextRay
  <2> QED BY <1>1, <1>5, <1>6, <2>3
<1>9. StripeTypes'
  BY <1>1, <1>3 DEF StripeTypes
<1>10. FrameTypes'
  <2>1. /\ ranges \in Seq(Points \cup {None}) /\ seen \in Seq(Seq(Pairs) \cup {None})
        /\ detected \in Points \cup {None} /\ point_pairs \in Seq(Pairs) \cup {None}
    BY <1>2, <1>3 DEF FrameTypes, StripeTypes
  <2>2. ranges' \in Seq(Points \cup {None}) /\ Len(ranges') <= NumRays
    BY <1>1, <1>2, <2>1, RaysAssumption
  <2>3. seen' \in Seq(Seq(Pairs) \cup {None})
    BY <1>1, <1>5, <2>1
  <2>4. ray_center' \in Centres \cup {None}
    BY <1>1, <1>2 DEF FrameTypes
  <2> QED BY <2>2, <2>3, <2>4 DEF FrameTypes
<1>11. RayInv'
  BY <1>1 DEF RayInv
<1> QED BY <1>8, <1>9, <1>10, <1>11 DEF EdgeInv

LEMMA EdgeStep == EdgeInv /\ [Next]_vars => EdgeInv'
<1> SUFFICES ASSUME EdgeInv, [Next]_vars PROVE EdgeInv'
  OBVIOUS
<1>1. LineInv'
  BY LineStep DEF EdgeInv
<1>2. ASSUME NEW centre \in Centres, ProcessFrame(centre) PROVE EdgeInv'
  <2>1. /\ pc = "idle" /\ pc' = "cast" /\ ray_center' = centre
        /\ prev_ray' = <<>> /\ ranges' = <<>> /\ seen' = <<>> /\ UNCHANGED rayVars
    BY <1>2 DEF ProcessFrame
  <2>2. StripeTypes' /\ RayInv'
    BY <2>1 DEF EdgeInv, StripeTypes, RayInv, rayVars
  <2>3. FrameTypes'
    BY <2>1, RaysAssumption DEF FrameTypes
  <2>4. Confirmed(ranges', seen', prev_ray')
    BY <2>1 DEF Confirmed, LastSeen
  <2> QED BY <1>1, <2>2, <2>3, <2>4 DEF EdgeInv
<1>9. CASE ConvertThrows
  <2>1. /\ pc = "idle" /\ pc' = "failed"
        /\ UNCHANGED <<ray_center, rayVars, prev_ray, ranges, seen>>
    BY <1>9 DEF ConvertThrows
  <2> QED BY <1>1, <2>1 DEF EdgeInv, StripeTypes, FrameTypes, RayInv, rayVars
<1>3. ASSUME NEW dir \in Directions, RayClipped(dir) PROVE EdgeInv'
  <2>1. /\ pc = "cast" /\ Len(ranges) < NumRays
        /\ ranges' = Append(ranges, None) /\ seen' = Append(seen, None)
        /\ UNCHANGED <<pc, ray_center, rayVars, prev_ray>>
    BY <1>3 DEF RayClipped
  <2>2. ranges \in Seq(Points \cup {None}) /\ seen \in Seq(Seq(Pairs) \cup {None})
    BY DEF EdgeInv, FrameTypes
  <2>3. Confirmed(Append(ranges, None), Append(seen, None), IF None = None THEN prev_ray ELSE None)
    BY <2>2, NextRay DEF EdgeInv
  <2>4. StripeTypes' /\ RayInv'
    BY <2>1 DEF EdgeInv, StripeTypes, RayInv, rayVars
  <2>5. FrameTypes'
    BY <2>1, <2>2, RaysAssumption DEF EdgeInv, FrameTypes
  <2> QED BY <1>1, <2>1, <2>3, <2>4, <2>5 DEF EdgeInv
<1>4. ASSUME NEW dir \in Directions, NEW v \in Brightness, RayCast(dir, v) PROVE EdgeInv'
  <2>1. /\ pc' = "edge" /\ Len(ranges) < NumRays /\ index' = 0
        /\ entry' = None /\ point_pairs' = <<>> /\ prev_ray_iter' = 1 /\ detected' = None
        /\ UNCHANGED <<ray_center, prev_ray, ranges, seen>>
    BY <1>4 DEF RayCast, NoRay, Construct
  <2>2. Scanned(<<>>, None, FallsTo(image', 0), RisesTo(image', 0))
    BY NothingYet
  <2>3. Scanned(point_pairs', entry', FallsTo(image', index'), RisesTo(image', index'))
    BY <2>1, <2>2
  <2>4. StripeTypes'
    BY <2>1 DEF EdgeInv, StripeTypes
  <2>5. Compared(point_pairs', prev_ray', prev_ray_iter', detected')
    BY <2>1 DEF Compared, EdgeInv, StripeTypes
  <2>6. RayInv'
    BY <2>1, <2>3, <2>5 DEF RayInv
  <2>7. FrameTypes' /\ Confirmed(ranges, seen, prev_ray)'
    BY <2>1 DEF EdgeInv, FrameTypes
  <2> QED BY <1>1, <2>4, <2>6, <2>7 DEF EdgeInv
<1>5. ASSUME NEW v \in Brightness, Nothing(v) \/ Enter(v) \/ Leave(v) \/ LeaveAndCompare(v)
      PROVE  EdgeInv'
  BY <1>1, <1>5, RoundKeeps
<1>6. CASE RayDone
  BY <1>1, <1>6, RayDoneKeeps
<1>7. CASE FrameDone
  <2>1. /\ pc \in {"cast"} /\ pc' = "idle"
        /\ UNCHANGED <<ray_center, lineVars, rayVars, prev_ray, ranges, seen>>
    BY <1>7 DEF FrameDone
  <2> QED BY <1>1, <2>1 DEF EdgeInv, StripeTypes, FrameTypes, RayInv, rayVars
<1>8. CASE Aborted \/ UNCHANGED vars
  <2>1. UNCHANGED vars
    BY <1>8 DEF Aborted
  <2> QED BY <1>1, <2>1
      DEF EdgeInv, StripeTypes, FrameTypes, RayInv, vars, rayVars, lineVars
<1> QED BY <1>2, <1>3, <1>4, <1>5, <1>6, <1>7, <1>8, <1>9 DEF Next

LEMMA EdgeInvariant == Spec => []EdgeInv
BY EdgeInit, EdgeStep, PTL DEF Spec

(* Every variable of the localizer has its type, for any image, kernel,      *)
(* number of rays and thresholds.                                            *)
THEOREM TypeCorrect == Spec => []TypeOK
<1>1. EdgeInv => TypeOK
  BY DEF EdgeInv, TypeOK, LineInv, StripeTypes, FrameTypes
<1> QED BY <1>1, EdgeInvariant, PTL

(* However many rays a frame has, and whatever they cross, each has its range*)
(* in its place, and that is the entry of the first stripe which fits its    *)
(* counterpart on the last ray of the frame that met the image: detect_edge()*)
(* finds the stripes that the image defines, and compares none twice.        *)
THEOREM RangesAreConfirmed == Spec => []RangesConfirmed
<1>1. EdgeInv => RangesConfirmed
  <2> SUFFICES ASSUME EdgeInv
               PROVE  /\ Len(ranges) = Len(seen)
                      /\ \A k \in 1 .. Len(ranges) : ranges[k] = ExpectedRange(k)
    BY DEF RangesConfirmed
  <2>1. Len(ranges) = Len(seen)
    BY DEF EdgeInv, Confirmed
  <2>2. ASSUME NEW k \in 1 .. Len(ranges) PROVE ranges[k] = ExpectedRange(k)
    <3>1. PICK q : /\ LastSeen(seen, k - 1, q)
                   /\ ranges[k] = IF seen[k] = None THEN None ELSE FirstFit(seen[k], q)
      BY <2>1 DEF EdgeInv, Confirmed
    <3>2. k \in Nat
      BY DEF EdgeInv, FrameTypes
    <3>3. ExpectedIn(seen, k) = IF seen[k] = None THEN None ELSE FirstFit(seen[k], q)
      BY <3>1, <3>2, ExpectedIs
    <3>4. ExpectedRange(k) = ExpectedIn(seen, k)
      BY DEF ExpectedRange, ExpectedIn
    <3> QED BY <3>1, <3>3, <3>4
  <2> QED BY <2>1, <2>2
<1> QED BY <1>1, EdgeInvariant, PTL

-----------------------------------------------------------------------------
(* The directions of the grid.                                               *)
Slope(d) == d \in {-2, -1, 0, 1, 2}

LEMMA Grid ==
    ASSUME NEW start \in (-2 .. Width + 1) \X (-2 .. Height + 1),
           NEW dir \in ((-2 .. 2) \X (-2 .. 2)) \ {<<0, 0>>}
    PROVE  /\ start[1] \in Int /\ start[2] \in Int
           /\ Slope(dir[1]) /\ Slope(dir[2]) /\ ~(dir[1] = 0 /\ dir[2] = 0)
BY ImageAssumption DEF Slope

(* Places along the ray are counted in steps of 1 / L of its direction.      *)
Fraction(t, L) == t[1] \in Int /\ t[2] \in {1, 2} /\ L \in {1, 2, 4} /\ (t[2] = 2 => L # 1)
Ticks(t, L) == IF L = t[2] THEN t[1] ELSE IF L = 2 * t[2] THEN 2 * t[1] ELSE 4 * t[1]

LEMMA TicksType == ASSUME NEW t, NEW L, Fraction(t, L) PROVE Ticks(t, L) \in Int
BY DEF Fraction, Ticks

LEMMA TicksOrder ==
    ASSUME NEW s, NEW t, NEW L, Fraction(s, L), Fraction(t, L)
    PROVE  LessEq(s, t) <=> Ticks(s, L) <= Ticks(t, L)
<1> DEFINE a == s[1]
           b == t[1]
<1>1. a \in Int /\ b \in Int
  BY DEF Fraction
<1>2. CASE s[2] = 1 /\ t[2] = 1
  BY <1>1, <1>2 DEF Fraction, Ticks, LessEq
<1>3. CASE s[2] = 1 /\ t[2] = 2
  BY <1>1, <1>3 DEF Fraction, Ticks, LessEq
<1>4. CASE s[2] = 2 /\ t[2] = 1
  BY <1>1, <1>4 DEF Fraction, Ticks, LessEq
<1>5. CASE s[2] = 2 /\ t[2] = 2
  BY <1>1, <1>5 DEF Fraction, Ticks, LessEq
<1> QED BY <1>2, <1>3, <1>4, <1>5 DEF Fraction

(* An edge of the image, which the ray approaches by p in each unit of time  *)
(* and which is q away: when it is crossed, and when it is not behind.       *)
Crossing(p, q) == IF p > 0 THEN <<q, p>> ELSE <<-q, -p>>

LEMMA CrossingIs ==
    ASSUME NEW p, Slope(p), p # 0, NEW q \in Int, NEW L \in {1, 2, 4},
           p \in {-2, 2} => L # 1
    PROVE  Fraction(Crossing(p, q), L)
BY DEF Slope, Fraction, Crossing

LEMMA EdgeAhead ==
    ASSUME NEW p, Slope(p), NEW q \in Int, NEW L \in {1, 2, 4},
           p \in {-2, 2} => L # 1, NEW k \in Int
    PROVE  /\ p = 0 => (k * p <= q * L <=> q >= 0)
           /\ p > 0 => (k * p <= q * L <=> k <= Ticks(Crossing(p, q), L))
           /\ p < 0 => (k * p <= q * L <=> Ticks(Crossing(p, q), L) <= k)
<1>1. CASE p = 0
  <2>1. k * p = 0 /\ q * L \in Int /\ (q * L >= 0 <=> q >= 0)
    BY <1>1
  <2> QED BY <1>1, <2>1
<1>2. CASE p = 1
  BY <1>2 DEF Ticks, Crossing
<1>3. CASE p = 2
  BY <1>3 DEF Ticks, Crossing
<1>4. CASE p = -1
  BY <1>4 DEF Ticks, Crossing
<1>5. CASE p = -2
  BY <1>5 DEF Ticks, Crossing
<1> QED BY <1>1, <1>2, <1>3, <1>4, <1>5 DEF Slope

(* One axis of the image.                                                    *)
LEMMA Axis ==
    ASSUME NEW d, Slope(d), NEW s \in Int, NEW w \in Int, NEW L \in {1, 2, 4}, NEW k \in Int
    PROVE  s * L + k * d \in 0 .. w * L
               <=> k * (-d) <= s * L /\ k * d <= (w - s) * L
<1>1. CASE L = 1
  BY <1>1 DEF Slope
<1>2. CASE L = 2
  BY <1>2 DEF Slope
<1>3. CASE L = 4
  BY <1>3 DEF Slope
<1> QED BY <1>1, <1>2, <1>3

(* A place in a coordinate, and the same one counted in ticks.               *)
IsAt(t, L, d, s, w) ==
    /\ (s * t[2] + t[1] * d) * L = (s * L + Ticks(t, L) * d) * t[2]
    /\ s * t[2] + t[1] * d \in Int
    /\ s * L + Ticks(t, L) * d \in 0 .. w * L => s * t[2] + t[1] * d \in 0 .. w * t[2]

LEMMA SameCoordinate ==
    ASSUME NEW t, NEW L, Fraction(t, L), NEW d, Slope(d), NEW s \in Int, NEW w \in Int
    PROVE  IsAt(t, L, d, s, w)
<1> DEFINE n == t[1]
<1>1. n \in Int
  BY DEF Fraction
<1>2. PICK c \in {1, 2, 4} : L = c * t[2] /\ Ticks(t, L) = c * n
  BY <1>1 DEF Fraction, Ticks
<1>3. ASSUME NEW m \in {1, 2}, NEW r \in Int, NEW u \in Int, L = c * m, u = c * r
      PROVE  /\ (s * m + r) * L = (s * L + u) * m /\ s * m + r \in Int
             /\ s * L + u \in 0 .. w * L => s * m + r \in 0 .. w * m
  <2>1. CASE c = 1
    BY <1>3, <2>1
  <2>2. CASE c = 2
    BY <1>3, <2>2
  <2>3. CASE c = 4
    BY <1>3, <2>3
  <2> QED BY <2>1, <2>2, <2>3
<1>4. n * d \in Int /\ (c * n) * d = c * (n * d) /\ c * (n * d) \in Int
  <2>1. \A m \in Int : m * d \in Int /\ (c * m) * d = c * (m * d) /\ c * (m * d) \in Int
    BY DEF Slope
  <2> QED BY <1>1, <2>1
<1>5. t[2] \in {1, 2}
  BY DEF Fraction
<1>6. Ticks(t, L) * d = c * (n * d)
  BY <1>2, <1>4
<1>7. PICK m \in {1, 2}, r \in Int, u \in Int :
              m = t[2] /\ r = t[1] * d /\ u = Ticks(t, L) * d /\ u = c * r /\ L = c * m
  BY <1>2, <1>4, <1>5, <1>6
<1>8. /\ (s * m + r) * L = (s * L + u) * m /\ s * m + r \in Int
      /\ s * L + u \in 0 .. w * L => s * m + r \in 0 .. w * m
  BY <1>3, <1>7
<1> QED BY <1>7, <1>8, Zenon DEF IsAt

LEMMA RoundedIn ==
    ASSUME NEW d \in {1, 2}, NEW w \in Int, NEW n \in 0 .. w * d
    PROVE  Rounded(n, d) \in 0 .. w
<1>1. CASE d = 1
  <2>1. n \in 0 .. w /\ n \in Int /\ (2 * n + 1) \div 2 = n /\ (2 * n + 1) % 2 = 1
    BY <1>1
  <2> QED BY <1>1, <2>1 DEF Rounded
<1>2. CASE d = 2
  <2>1. n \in Int /\ 0 <= n /\ n <= 2 * w
    BY <1>2
  <2>2. /\ (2 * n + 2) \div 4 \in Int /\ 0 <= (2 * n + 2) \div 4 /\ (2 * n + 2) \div 4 <= w
        /\ ((2 * n + 2) \div 4) % 2 = 1 => (2 * n + 2) \div 4 # 0
    BY <2>1
  <2> QED BY <1>2, <2>2 DEF Rounded
<1> QED BY <1>1, <1>2

LEMMA Greatest ==
    ASSUME NEW M \in Nat, NEW I \in SUBSET (1 .. M), I # {},
           NEW K, \A i \in 1 .. M : K[i] \in Int
    PROVE  \E i \in I : \A j \in I : K[j] <= K[i]
<1> DEFINE Top(n) == (\E i \in I : i <= n) =>
                         \E i \in I : i <= n /\ \A j \in I : j <= n => K[j] <= K[i]
           S == {n \in 0 .. M : Top(n)}
<1>1. 0 \in S
  OBVIOUS
<1>2. ASSUME NEW n \in 0 .. M - 1, n \in S PROVE n + 1 \in S
  <2>1. /\ \A i \in I : i \in Int /\ K[i] \in Int
        /\ \A i \in I : i <= n + 1 <=> i <= n \/ i = n + 1
    OBVIOUS
  <2>2. n \in Int /\ n + 1 \in 0 .. M /\ Top(n)
    BY <1>2
  <2>3. CASE n + 1 \notin I
    <3>1. \A i \in I : i <= n + 1 <=> i <= n
      BY <2>1, <2>3
    <3>2. Top(n + 1)
      BY <2>2, <3>1
    <3> QED BY <2>2, <3>2
  <2>4. CASE n + 1 \in I
    <3>1. CASE \A j \in I : j <= n => K[j] <= K[n + 1]
      <4>1. \A j \in I : j <= n + 1 => K[j] <= K[n + 1]
        BY <2>1, <2>4, <3>1
      <4> QED BY <2>2, <2>4, <4>1
    <3>2. ASSUME NEW l \in I, l <= n, ~(K[l] <= K[n + 1]) PROVE Top(n + 1)
      <4>1. PICK i \in I : i <= n /\ \A j \in I : j <= n => K[j] <= K[i]
        BY <2>2, <3>2
      <4>2. \A j \in I : j <= n + 1 => K[j] <= K[i]
        BY <2>1, <2>4, <3>2, <4>1
      <4>3. i <= n + 1
        BY <2>1, <4>1
      <4> QED BY <4>2, <4>3
    <3> QED BY <2>2, <3>1, <3>2
  <2> QED BY <2>3, <2>4
<1>3. M \in S
  <2> HIDE DEF S
  <2>1. \A n \in 0 .. M : n \in S
    BY <1>1, <1>2, UpTo
  <2> QED BY <2>1
<1>4. \A i \in I : i <= M
  OBVIOUS
<1> QED BY <1>3, <1>4

(* The edges I of an image are crossed at t.  The latest of the crossings,   *)
(* and of the ray's start; the earliest of them.                             *)
Latest(A) == CHOOSE s \in A : \A r \in A : LessEq(r, s)
Earliest(A) == CHOOSE s \in A : \A r \in A : LessEq(s, r)

IsLatest(c, I, t, L) ==
    /\ Fraction(c, L)
    /\ \A k \in Int : Ticks(c, L) <= k <=> 0 <= k /\ \A i \in I : Ticks(t[i], L) <= k

LEMMA LatestIs ==
    ASSUME NEW L \in {1, 2, 4}, NEW I \in SUBSET (1 .. 4),
           NEW t, \A i \in I : Fraction(t[i], L),
           NEW A, A = {<<0, 1>>} \cup {t[i] : i \in I}
    PROVE  IsLatest(Latest(A), I, t, L)
<1> DEFINE c == Latest(A)
           K == [i \in 1 .. 5 |-> IF i \in I THEN Ticks(t[i], L) ELSE 0]
           e == [i \in 1 .. 5 |-> IF i \in I THEN t[i] ELSE <<0, 1>>]
<1>1. \A i \in I : Ticks(t[i], L) \in Int
  BY TicksType
<1>2. Ticks(<<0, 1>>, L) = 0
  BY DEF Ticks
<1>3. \A i \in 1 .. 5 : K[i] \in Int /\ K[i] = Ticks(e[i], L) /\ Fraction(e[i], L)
  <2>1. Fraction(<<0, 1>>, L)
    BY DEF Fraction
  <2> QED BY <1>1, <1>2, <2>1
<1>4. A = {e[i] : i \in I \cup {5}}
  <2>1. e[5] = <<0, 1>> /\ \A i \in I : e[i] = t[i]
    OBVIOUS
  <2> HIDE DEF e
  <2> QED BY <2>1
<1>5. PICK m \in I \cup {5} : \A j \in I \cup {5} : K[j] <= K[m]
  <2>1. I \cup {5} \in SUBSET (1 .. 5) /\ I \cup {5} # {} /\ 5 \in Nat
    OBVIOUS
  <2> HIDE DEF K
  <2> QED BY <1>3, <2>1, Greatest
<1>6. I \cup {5} \in SUBSET (1 .. 5)
  OBVIOUS
<1>7. \A r \in A : Fraction(r, L) /\ \E i \in I \cup {5} : r = e[i]
  BY <1>3, <1>4, <1>6
<1>8. e[m] \in A /\ m \in 1 .. 5
  BY <1>4, <1>6
<1>9. \A k \in Int : (\A i \in I \cup {5} : K[i] <= k)
                       <=> 0 <= k /\ \A i \in I : Ticks(t[i], L) <= k
  <2>1. K[5] = 0 /\ \A i \in I : K[i] = Ticks(t[i], L)
    OBVIOUS
  <2> HIDE DEF K
  <2> QED BY <2>1
<1> HIDE DEF K, e
<1>10. \A r \in A : LessEq(r, e[m])
  <2> TAKE r \in A
  <2>1. PICK i \in I \cup {5} : r = e[i]
    BY <1>7
  <2>2. K[i] <= K[m] /\ i \in 1 .. 5 /\ m \in 1 .. 5
    BY <1>5, <1>6
  <2> QED BY <1>3, <2>1, <2>2, TicksOrder
<1>11. c \in A /\ \A r \in A : LessEq(r, c)
  BY <1>8, <1>10 DEF Latest
<1> HIDE DEF c
<1>12. Fraction(c, L) /\ Ticks(c, L) \in Int
  BY <1>7, <1>11, TicksType
<1>13. \A i \in I \cup {5} : K[i] <= Ticks(c, L)
  <2> TAKE i \in I \cup {5}
  <2>1. e[i] \in A /\ i \in 1 .. 5
    BY <1>4, <1>6
  <2> QED BY <1>3, <1>11, <1>12, <2>1, TicksOrder
<1>14. \E i \in I \cup {5} : K[i] = Ticks(c, L)
  <2>1. PICK i \in I \cup {5} : c = e[i]
    BY <1>7, <1>11
  <2> QED BY <1>3, <1>6, <2>1
<1>15. \A k \in Int : Ticks(c, L) <= k <=> \A i \in I \cup {5} : K[i] <= k
  <2> TAKE k \in Int
  <2>1. ASSUME Ticks(c, L) <= k, NEW i \in I \cup {5} PROVE K[i] <= k
    <3>1. K[i] \in Int /\ K[i] <= Ticks(c, L)
      BY <1>3, <1>6, <1>13
    <3> QED BY <1>12, <2>1, <3>1
  <2>2. ASSUME \A i \in I \cup {5} : K[i] <= k PROVE Ticks(c, L) <= k
    BY <1>14, <2>2
  <2> QED BY <2>1, <2>2
<1> QED BY <1>9, <1>12, <1>15 DEF c, IsLatest

IsEarliest(c, I, t, L) ==
    /\ Fraction(c, L)
    /\ \A k \in Int : k <= Ticks(c, L) <=> \A i \in I : k <= Ticks(t[i], L)

LEMMA EarliestIs ==
    ASSUME NEW L, NEW I \in SUBSET (1 .. 4), I # {},
           NEW t, \A i \in I : Fraction(t[i], L),
           NEW A, A = {t[i] : i \in I}
    PROVE  IsEarliest(Earliest(A), I, t, L)
<1> DEFINE c == Earliest(A)
           K == [i \in 1 .. 4 |-> IF i \in I THEN -Ticks(t[i], L) ELSE 0]
<1>1. /\ \A i \in 1 .. 4 : K[i] \in Int
      /\ \A i \in I : Ticks(t[i], L) \in Int /\ K[i] = -Ticks(t[i], L)
  <2>1. \A i \in I : Ticks(t[i], L) \in Int
    BY TicksType
  <2>2. \A i \in 1 .. 4 : K[i] = IF i \in I THEN -Ticks(t[i], L) ELSE 0
    OBVIOUS
  <2> HIDE DEF K
  <2>3. \A i \in I : K[i] = -Ticks(t[i], L)
    BY <2>2
  <2>4. \A i \in 1 .. 4 : K[i] \in Int
    <3> TAKE i \in 1 .. 4
    <3>1. CASE i \in I
      <4>1. Ticks(t[i], L) \in Int /\ K[i] = -Ticks(t[i], L)
        BY <2>1, <2>3, <3>1
      <4> QED BY <4>1
    <3>2. CASE i \notin I
      BY <2>2, <3>2
    <3> QED BY <3>1, <3>2
  <2> QED BY <2>1, <2>3, <2>4
<1>2. PICK m \in I : \A j \in I : K[j] <= K[m]
  <2> HIDE DEF K
  <2>1. 4 \in Nat
    OBVIOUS
  <2> QED BY <1>1, <2>1, Greatest
<1> HIDE DEF K
<1>3. t[m] \in A /\ \A r \in A : LessEq(t[m], r)
  <2>1. \A j \in I : Ticks(t[m], L) <= Ticks(t[j], L)
    <3> TAKE j \in I
    <3>1. /\ K[j] <= K[m] /\ K[j] = -Ticks(t[j], L) /\ K[m] = -Ticks(t[m], L)
          /\ Ticks(t[j], L) \in Int /\ Ticks(t[m], L) \in Int
      BY <1>1, <1>2
    <3> QED BY <3>1
  <2> QED BY <2>1, TicksOrder
<1>4. c \in A /\ \A r \in A : LessEq(c, r)
  BY <1>3 DEF Earliest
<1> HIDE DEF c
<1>5. PICK l \in I : c = t[l]
  <2>1. \A r \in A : \E i \in I : r = t[i]
    OBVIOUS
  <2> QED BY <1>4, <2>1, Zenon
<1>6. Fraction(c, L) /\ Ticks(c, L) = Ticks(t[l], L) /\ Ticks(c, L) \in Int
  BY <1>1, <1>5
<1>7. \A i \in I : Ticks(c, L) <= Ticks(t[i], L)
  <2> TAKE i \in I
  <2>1. t[i] \in A /\ Fraction(t[i], L)
    OBVIOUS
  <2> QED BY <1>4, <1>6, <2>1, TicksOrder
<1>8. \A k \in Int : k <= Ticks(c, L) <=> \A i \in I : k <= Ticks(t[i], L)
  <2> TAKE k \in Int
  <2>1. ASSUME k <= Ticks(c, L), NEW i \in I PROVE k <= Ticks(t[i], L)
    <3>1. Ticks(t[i], L) \in Int /\ Ticks(c, L) <= Ticks(t[i], L)
      BY <1>1, <1>7
    <3> QED BY <1>6, <2>1, <3>1
  <2>2. ASSUME \A i \in I : k <= Ticks(t[i], L) PROVE k <= Ticks(c, L)
    BY <1>6, <2>2
  <2> QED BY <2>1, <2>2
<1> QED BY <1>6, <1>8 DEF c, IsEarliest

(* After k ticks the ray has started and is behind no edge of the image.     *)
Ahead(start, dir, L, k) ==
    /\ 0 <= k
    /\ k * (-dir[1]) <= start[1] * L /\ k * dir[1] <= (Width - 1 - start[1]) * L
    /\ k * (-dir[2]) <= start[2] * L /\ k * dir[2] <= (Height - 1 - start[2]) * L

(* What the clip's ends are, in ticks: from the first to the last whole tick *)
(* at which the ray, from its start on, is behind none of the edges.         *)
LEMMA ClipIs ==
    ASSUME NEW start, NEW dir, NEW L \in {1, 2, 4},
           start[1] \in Int, start[2] \in Int, Slope(dir[1]), Slope(dir[2]),
           ~(dir[1] = 0 /\ dir[2] = 0),
           dir[1] \in {-2, 2} \/ dir[2] \in {-2, 2} => L # 1
    PROVE  \E c1, c2 :
              /\ Fraction(c1, L) /\ Fraction(c2, L)
              /\ ray_clip(start, dir, viewport) =
                     IF \E k \in Int : Ahead(start, dir, L, k)
                     THEN [start |-> At(start, dir, c1), end |-> At(start, dir, c2)]
                     ELSE None
              /\ \A k \in Int : Ahead(start, dir, L, k)
                                    => Ticks(c1, L) <= k /\ k <= Ticks(c2, L)
              /\ (\E k \in Int : Ahead(start, dir, L, k))
                     => Ahead(start, dir, L, Ticks(c1, L)) /\ Ahead(start, dir, L, Ticks(c2, L))
<1> DEFINE p == <<-dir[1], dir[1], -dir[2], dir[2]>>
           q == <<start[1] - viewport.x, viewport.x + viewport.width - start[1],
                  start[2] - viewport.y, viewport.y + viewport.height - start[2]>>
           t == [i \in 1 .. 4 |-> Crossing(p[i], q[i])]
           I == {i \in 1 .. 4 : p[i] < 0}
           J == {i \in 1 .. 4 : p[i] > 0}
           enters == {<<0, 1>>} \cup {t[i] : i \in I}
           leaves == {t[i] : i \in J}
           t1 == Latest(enters)
           t2 == Earliest(leaves)
           outside == \E i \in 1 .. 4 : p[i] = 0 /\ q[i] < 0
           clip == [start |-> At(start, dir, t1), end |-> At(start, dir, t2)]
<1>1. ray_clip(start, dir, viewport) = IF outside \/ ~LessEq(t1, t2) THEN None ELSE clip
  <2>1. /\ enters = {<<0, 1>>} \cup {Crossing(p[i], q[i]) : i \in I}
        /\ leaves = {Crossing(p[i], q[i]) : i \in J}
    <3>1. \A i \in I : t[i] = Crossing(p[i], q[i])
      OBVIOUS
    <3>2. \A i \in J : t[i] = Crossing(p[i], q[i])
      OBVIOUS
    <3> HIDE DEF t, I, J, p, q
    <3> QED BY <3>1, <3>2
  <2> QED BY <2>1 DEF ray_clip, Crossing, Latest, Earliest
<1>2. \A i \in 1 .. 4 : Slope(p[i]) /\ q[i] \in Int /\ (p[i] \in {-2, 2} => L # 1)
  <2>1. /\ Slope(p[1]) /\ Slope(p[2]) /\ Slope(p[3]) /\ Slope(p[4])
        /\ (p[1] \in {-2, 2} => L # 1) /\ (p[2] \in {-2, 2} => L # 1)
        /\ (p[3] \in {-2, 2} => L # 1) /\ (p[4] \in {-2, 2} => L # 1)
    BY DEF Slope
  <2>2. q[1] \in Int /\ q[2] \in Int /\ q[3] \in Int /\ q[4] \in Int
    BY ImageAssumption DEF viewport
  <2> HIDE DEF p, q
  <2>3. \A i \in 1 .. 4 : i = 1 \/ i = 2 \/ i = 3 \/ i = 4
    OBVIOUS
  <2> QED BY <2>1, <2>2, <2>3
<1>3. J # {}
  <2>1. p[1] > 0 \/ p[2] > 0 \/ p[3] > 0 \/ p[4] > 0
    BY DEF Slope
  <2> HIDE DEF p
  <2> QED BY <2>1
<1>4. \A i \in 1 .. 4 : t[i] = Crossing(p[i], q[i]) /\ (p[i] # 0 => Fraction(t[i], L))
  <2> HIDE DEF p, q
  <2>1. \A i \in 1 .. 4 : t[i] = Crossing(p[i], q[i])
    OBVIOUS
  <2> HIDE DEF t
  <2> QED BY <1>2, <2>1, CrossingIs
<1>5. \A i \in 1 .. 4 : p[i] \in Int
  BY <1>2 DEF Slope
<1> HIDE DEF p, q, t
<1>6. /\ Fraction(t1, L)
      /\ \A k \in Int : Ticks(t1, L) <= k <=> 0 <= k /\ \A i \in I : Ticks(t[i], L) <= k
  <2>1. I \in SUBSET (1 .. 4) /\ \A i \in I : Fraction(t[i], L)
    BY <1>4, <1>5
  <2> HIDE DEF I
  <2>2. enters = {<<0, 1>>} \cup {t[i] : i \in I}
    OBVIOUS
  <2> HIDE DEF enters
  <2>3. IsLatest(Latest(enters), I, t, L)
    BY <2>1, <2>2, LatestIs
  <2> QED BY <2>3 DEF IsLatest
<1>7. /\ Fraction(t2, L)
      /\ \A k \in Int : k <= Ticks(t2, L) <=> \A i \in J : k <= Ticks(t[i], L)
  <2>1. J \in SUBSET (1 .. 4) /\ \A i \in J : Fraction(t[i], L)
    BY <1>4, <1>5
  <2> HIDE DEF J
  <2>2. leaves = {t[i] : i \in J}
    OBVIOUS
  <2> HIDE DEF leaves
  <2>3. IsEarliest(Earliest(leaves), J, t, L)
    BY <1>3, <2>1, <2>2, EarliestIs
  <2> QED BY <2>3 DEF IsEarliest
<1> HIDE DEF t1, t2, clip
<1>8. ASSUME NEW k \in Int
      PROVE  Ahead(start, dir, L, k) <=> 0 <= k /\ \A i \in 1 .. 4 : k * p[i] <= q[i] * L
  <2>1. /\ p[1] = -dir[1] /\ p[2] = dir[1] /\ p[3] = -dir[2] /\ p[4] = dir[2]
        /\ q[1] = start[1] /\ q[2] = Width - 1 - start[1]
        /\ q[3] = start[2] /\ q[4] = Height - 1 - start[2]
    BY ImageAssumption DEF p, q, viewport
  <2>2. \A i \in 1 .. 4 : i = 1 \/ i = 2 \/ i = 3 \/ i = 4
    OBVIOUS
  <2> QED BY <2>1, <2>2 DEF Ahead
<1>9. ASSUME NEW k \in Int, NEW i \in 1 .. 4
      PROVE  /\ p[i] = 0 => (k * p[i] <= q[i] * L <=> q[i] >= 0)
             /\ p[i] > 0 => (k * p[i] <= q[i] * L <=> k <= Ticks(t[i], L))
             /\ p[i] < 0 => (k * p[i] <= q[i] * L <=> Ticks(t[i], L) <= k)
  <2>1. ASSUME NEW a, Slope(a), a \in {-2, 2} => L # 1, NEW b \in Int
        PROVE  /\ a = 0 => (k * a <= b * L <=> b >= 0)
               /\ a > 0 => (k * a <= b * L <=> k <= Ticks(Crossing(a, b), L))
               /\ a < 0 => (k * a <= b * L <=> Ticks(Crossing(a, b), L) <= k)
    BY <2>1, EdgeAhead
  <2>2. t[i] = Crossing(p[i], q[i]) /\ Slope(p[i]) /\ q[i] \in Int /\ (p[i] \in {-2, 2} => L # 1)
    BY <1>2, <1>4
  <2> QED BY <2>1, <2>2
<1>10. ASSUME NEW k \in Int
       PROVE  Ahead(start, dir, L, k) <=> ~outside /\ Ticks(t1, L) <= k /\ k <= Ticks(t2, L)
  <2> DEFINE In(i) == k * p[i] <= q[i] * L
  <2>1. \A i \in 1 .. 4 : /\ p[i] = 0 => (In(i) <=> ~(q[i] < 0))
                          /\ p[i] > 0 => (In(i) <=> k <= Ticks(t[i], L))
                          /\ p[i] < 0 => (In(i) <=> Ticks(t[i], L) <= k)
    BY <1>2, <1>9
  <2>2. Ahead(start, dir, L, k) <=> 0 <= k /\ \A i \in 1 .. 4 : In(i)
    BY <1>8
  <2> HIDE DEF In
  <2>3. \A i \in 1 .. 4 : p[i] = 0 \/ p[i] > 0 \/ p[i] < 0
    BY <1>5
  <2>4. (\A i \in 1 .. 4 : In(i))
            <=> /\ ~outside
                /\ \A i \in I : Ticks(t[i], L) <= k
                /\ \A i \in J : k <= Ticks(t[i], L)
    BY <1>5, <2>1, <2>3
  <2> QED BY <1>6, <1>7, <2>2, <2>4
<1>11. /\ LessEq(t1, t2) <=> Ticks(t1, L) <= Ticks(t2, L)
       /\ Ticks(t1, L) \in Int /\ Ticks(t2, L) \in Int
  BY <1>6, <1>7, TicksOrder, TicksType
<1> HIDE DEF outside
<1>12. (\E k \in Int : Ahead(start, dir, L, k)) <=> ~outside /\ LessEq(t1, t2)
  BY <1>10, <1>11
<1>13. ray_clip(start, dir, viewport) =
           IF \E k \in Int : Ahead(start, dir, L, k)
           THEN [start |-> At(start, dir, t1), end |-> At(start, dir, t2)] ELSE None
  BY <1>1, <1>12 DEF clip
<1>14. \A k \in Int : Ahead(start, dir, L, k) => Ticks(t1, L) <= k /\ k <= Ticks(t2, L)
  BY <1>10
<1>15. (\E k \in Int : Ahead(start, dir, L, k))
           => Ahead(start, dir, L, Ticks(t1, L)) /\ Ahead(start, dir, L, Ticks(t2, L))
  BY <1>10, <1>11, <1>12
<1> QED BY <1>6, <1>7, <1>13, <1>14, <1>15

(* Along an axis in which it moves the ray does not stay long.               *)
LEMMA LeavesAxis ==
    ASSUME NEW d, Slope(d), d # 0, NEW s \in Int, NEW w \in Nat, NEW L \in {1, 2, 4},
           NEW k \in Nat, k * (-d) <= s * L, k * d <= (w - s) * L,
           NEW far \in Int, Distance(0, s) + w <= far
    PROVE  k <= far * L
<1>1. k <= k * (-d) \/ k <= k * d
  BY DEF Slope
<1>2. s <= far /\ w - s <= far
  BY DEF Distance
<1>3. s * L <= far * L /\ (w - s) * L <= far * L /\ s * L \in Int /\ (w - s) * L \in Int
      /\ far * L \in Int
  BY <1>2
<1>4. k * (-d) \in Int /\ k * d \in Int
  BY DEF Slope
<1> QED BY <1>1, <1>3, <1>4

(* The place of the t-th and the one of its tick are one, with pixels in the *)
(* image if the ray is not behind an edge there.                             *)
LEMMA EndIs ==
    ASSUME NEW start, NEW dir, NEW L \in {1, 2, 4},
           start[1] \in Int, start[2] \in Int, Slope(dir[1]), Slope(dir[2]),
           NEW t, Fraction(t, L), Ahead(start, dir, L, Ticks(t, L))
    PROVE  /\ SamePoint(At(start, dir, t), At(start, dir, <<Ticks(t, L), L>>))
           /\ InImage(Pixel(At(start, dir, t)))
           /\ At(start, dir, t) \in PointType
<1>1. Width - 1 \in Int /\ Height - 1 \in Int /\ Ticks(t, L) \in Int /\ t[2] \in {1, 2}
  BY ImageAssumption, TicksType DEF Fraction
<1>2. /\ start[1] * L + Ticks(t, L) * dir[1] \in 0 .. (Width - 1) * L
      /\ start[2] * L + Ticks(t, L) * dir[2] \in 0 .. (Height - 1) * L
  BY <1>1, Axis DEF Ahead
<1>3. /\ (start[1] * t[2] + t[1] * dir[1]) * L = (start[1] * L + Ticks(t, L) * dir[1]) * t[2]
      /\ start[1] * t[2] + t[1] * dir[1] \in Int
      /\ start[1] * t[2] + t[1] * dir[1] \in 0 .. (Width - 1) * t[2]
  <2>1. IsAt(t, L, dir[1], start[1], Width - 1)
    BY <1>1, SameCoordinate
  <2> QED BY <1>2, <2>1, Zenon DEF IsAt
<1>4. /\ (start[2] * t[2] + t[1] * dir[2]) * L = (start[2] * L + Ticks(t, L) * dir[2]) * t[2]
      /\ start[2] * t[2] + t[1] * dir[2] \in Int
      /\ start[2] * t[2] + t[1] * dir[2] \in 0 .. (Height - 1) * t[2]
  <2>1. IsAt(t, L, dir[2], start[2], Height - 1)
    BY <1>1, SameCoordinate
  <2> QED BY <1>2, <2>1, Zenon DEF IsAt
<1>5. /\ Rounded(start[1] * t[2] + t[1] * dir[1], t[2]) \in 0 .. Width - 1
      /\ Rounded(start[2] * t[2] + t[1] * dir[2], t[2]) \in 0 .. Height - 1
  BY <1>1, <1>3, <1>4, RoundedIn
<1> DEFINE x == start[1] * t[2] + t[1] * dir[1]
           y == start[2] * t[2] + t[1] * dir[2]
<1>6. At(start, dir, t) = [x |-> x, y |-> y, over |-> t[2]]
  BY DEF At
<1>7. SamePoint(At(start, dir, t), At(start, dir, <<Ticks(t, L), L>>))
  BY <1>3, <1>4 DEF SamePoint, At
<1>8. InImage(Pixel(At(start, dir, t)))
  BY <1>5 DEF InImage, Pixel, At
<1>9. At(start, dir, t) \in PointType
  <2> HIDE DEF x, y
  <2>1. x \in Int /\ y \in Int /\ t[2] \in Int
    BY <1>1, <1>3, <1>4 DEF x, y
  <2> QED BY <1>6, <2>1 DEF PointType
<1> QED BY <1>7, <1>8, <1>9

LEMMA ClipIsExact ==
    ASSUME NEW start, NEW dir,
           start[1] \in Int, start[2] \in Int, Slope(dir[1]), Slope(dir[2]),
           ~(dir[1] = 0 /\ dir[2] = 0)
    PROVE  ClipOf(start, dir)
<1> DEFINE L == (IF dir[1] = 0 THEN 1 ELSE Distance(0, dir[1]))
                * (IF dir[2] = 0 THEN 1 ELSE Distance(0, dir[2]))
           far == Distance(0, start[1]) + Distance(0, start[2]) + Width + Height
           inside == {k \in 0 .. far * L :
                         LET p == At(start, dir, <<k, L>>) IN
                         /\ p.x \in 0 .. (Width - 1) * L
                         /\ p.y \in 0 .. (Height - 1) * L}
           clip == ray_clip(start, dir, viewport)
           first == CHOOSE k \in inside : \A j \in inside : k <= j
           last == CHOOSE k \in inside : \A j \in inside : k >= j
<1>1. L \in {1, 2, 4} /\ (dir[1] \in {-2, 2} \/ dir[2] \in {-2, 2} => L # 1)
  BY DEF Slope, Distance
<1>2. far \in Int /\ Distance(0, start[1]) + (Width - 1) <= far
      /\ Distance(0, start[2]) + (Height - 1) <= far
      /\ Width - 1 \in Nat /\ Height - 1 \in Nat
  BY ImageAssumption DEF Distance
<1>3. \A k : k \in inside <=> /\ k \in 0 .. far * L
                              /\ start[1] * L + k * dir[1] \in 0 .. (Width - 1) * L
                              /\ start[2] * L + k * dir[2] \in 0 .. (Height - 1) * L
  BY DEF At
<1> HIDE DEF L, far, inside
<1>4. ASSUME NEW k \in Int PROVE k \in inside <=> Ahead(start, dir, L, k)
  <2>1. /\ start[1] * L + k * dir[1] \in 0 .. (Width - 1) * L
               <=> k * (-dir[1]) <= start[1] * L /\ k * dir[1] <= (Width - 1 - start[1]) * L
        /\ start[2] * L + k * dir[2] \in 0 .. (Height - 1) * L
               <=> k * (-dir[2]) <= start[2] * L /\ k * dir[2] <= (Height - 1 - start[2]) * L
    <3>1. Width - 1 \in Int /\ Height - 1 \in Int
      BY <1>2
    <3> QED BY <1>1, <3>1, Axis, Zenon
  <2>2. Ahead(start, dir, L, k) => k <= far * L
    <3> SUFFICES ASSUME Ahead(start, dir, L, k) PROVE k <= far * L
      OBVIOUS
    <3>0. k \in Nat
      BY DEF Ahead
    <3>1. CASE dir[1] # 0
      BY <1>1, <1>2, <3>0, <3>1, LeavesAxis, Zenon DEF Ahead
    <3>2. CASE dir[2] # 0
      BY <1>1, <1>2, <3>0, <3>2, LeavesAxis, Zenon DEF Ahead
    <3> QED BY <3>1, <3>2
  <2>3. far * L \in Int
    BY <1>1, <1>2
  <2>4. k \in 0 .. far * L <=> 0 <= k /\ k <= far * L
    BY <2>3
  <2>5. Ahead(start, dir, L, k) <=>
            /\ 0 <= k
            /\ start[1] * L + k * dir[1] \in 0 .. (Width - 1) * L
            /\ start[2] * L + k * dir[2] \in 0 .. (Height - 1) * L
    BY <2>1, Zenon DEF Ahead
  <2> QED BY <1>3, <2>2, <2>4, <2>5, Zenon
<1>5. \A k \in inside : k \in Int
  BY <1>3
<1>6. PICK t1, t2 :
          /\ Fraction(t1, L) /\ Fraction(t2, L)
          /\ clip = IF \E k \in Int : Ahead(start, dir, L, k)
                    THEN [start |-> At(start, dir, t1), end |-> At(start, dir, t2)]
                    ELSE None
          /\ \A k \in Int : Ahead(start, dir, L, k)
                                => Ticks(t1, L) <= k /\ k <= Ticks(t2, L)
          /\ (\E k \in Int : Ahead(start, dir, L, k))
                 => Ahead(start, dir, L, Ticks(t1, L)) /\ Ahead(start, dir, L, Ticks(t2, L))
  BY <1>1, ClipIs
<1> HIDE DEF clip
<1>7. (\E k \in Int : Ahead(start, dir, L, k)) <=> inside # {}
  BY <1>4, <1>5
<1>8. ASSUME inside # {}
      PROVE  /\ clip # None
             /\ SamePoint(clip.start, At(start, dir, <<first, L>>))
             /\ SamePoint(clip.end, At(start, dir, <<last, L>>))
             /\ InImage(Pixel(clip.start)) /\ InImage(Pixel(clip.end))
  <2>1. /\ clip = [start |-> At(start, dir, t1), end |-> At(start, dir, t2)]
        /\ Ahead(start, dir, L, Ticks(t1, L)) /\ Ahead(start, dir, L, Ticks(t2, L))
        /\ Ticks(t1, L) \in Int /\ Ticks(t2, L) \in Int
    BY <1>6, <1>7, <1>8, TicksType
  <2>2. /\ Ticks(t1, L) \in inside /\ Ticks(t2, L) \in inside
        /\ \A k \in inside : Ticks(t1, L) <= k /\ Ticks(t2, L) >= k
    BY <1>4, <1>5, <1>6, <2>1
  <2>3. first = Ticks(t1, L)
    <3>1. \A k \in inside : (\A j \in inside : k <= j) => k = Ticks(t1, L)
      BY <1>5, <2>1, <2>2
    <3> QED BY <2>2, <3>1
  <2>4. last = Ticks(t2, L)
    <3>1. \A k \in inside : (\A j \in inside : k >= j) => k = Ticks(t2, L)
      BY <1>5, <2>1, <2>2
    <3> QED BY <2>2, <3>1
  <2> HIDE DEF first, last
  <2>5. /\ SamePoint(At(start, dir, t1), At(start, dir, <<first, L>>))
        /\ InImage(Pixel(At(start, dir, t1)))
        /\ At(start, dir, t1) \in PointType
    BY <1>1, <1>6, <2>1, <2>3, EndIs
  <2>6. /\ SamePoint(At(start, dir, t2), At(start, dir, <<last, L>>))
        /\ InImage(Pixel(At(start, dir, t2)))
        /\ At(start, dir, t2) \in PointType
    BY <1>1, <1>6, <2>1, <2>4, EndIs
  <2>7. clip # None
    BY <2>1, <2>5, <2>6, NoClipAssumption
  <2>8. clip.start = At(start, dir, t1) /\ clip.end = At(start, dir, t2)
    BY <2>1
  <2> QED BY <2>5, <2>6, <2>7, <2>8
<1>9. inside = {} => clip = None
  BY <1>6, <1>7
<1> QED BY <1>8, <1>9 DEF ClipOf, L, far, inside, clip

(* Whatever the size of the image, and wherever about it a ray of the grid   *)
(* starts, ray_clip() cuts it to exactly the part in the image, and finds    *)
(* none exactly if there is none; the pixels of both ends are in the image.  *)
THEOREM ClipsAreExact == Spec => []ClipExact
<1>1. ClipExact
  BY Grid, ClipIsExact DEF ClipExact
<1> QED BY <1>1, PTL
=============================================================================
