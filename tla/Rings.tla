------------------------------- MODULE Rings --------------------------------
(***************************************************************************)
(* Arithmetic for the circular buffers of the kernel: a buffer of N        *)
(* entries whose indices are unsigned integers with M values, where N      *)
(* divides M.  The proofs about the pipe, the console, the UART and the    *)
(* rings of the disk cite it.                                              *)
(***************************************************************************)
EXTENDS Integers, TLAPS

CONSTANTS N, M

RingConstants == N \in Nat \ {0} /\ M \in Nat \ {0} /\ M % N = 0

(* The default prover. *)
USE ZenonT(60)

-----------------------------------------------------------------------------
(* Division with remainder. *)
LEMMA DivMod ==
  ASSUME NEW x \in Int, NEW n \in Nat \ {0}
  PROVE  \E q \in Int, r \in 0 .. n - 1 : x = n * q + r /\ r = x % n
BY SMTT(60)

(* A multiple of n between -n and n is 0. *)
LEMMA SmallMultiple ==
  ASSUME NEW n \in Nat \ {0}, NEW e \in Int, n * e < n, n * e > 0 - n
  PROVE  e = 0
<1>1. ~(e >= 1) /\ ~(e <= 0 - 1)
  BY SMTT(60)
<1> QED
  BY SMTT(60), <1>1

(* Remainders are unique. *)
LEMMA Remainder ==
  ASSUME NEW n \in Nat \ {0}, NEW q \in Int, NEW r \in 0 .. n - 1
  PROVE  (n * q + r) % n = r
<1> DEFINE x == n * q + r
<1>1. x \in Int /\ x = n * q + r
  BY SMTT(60)
<1> HIDE DEF x
<1>2. PICK b \in Int, s \in 0 .. n - 1 : x = n * b + s /\ s = x % n
  BY <1>1, DivMod
<1> DEFINE e == q - b
<1>3. e \in Int /\ n * e = s - r
  BY SMTT(60), <1>1, <1>2
<1> HIDE DEF e
<1>4. n * e < n /\ n * e > 0 - n
  BY SMTT(60), <1>2, <1>3
<1>5. e = 0
  BY <1>3, <1>4, SmallMultiple
<1>6. s = r
  BY SMTT(60), <1>2, <1>3, <1>5
<1> QED
  BY <1>2, <1>6 DEF x

(* A sum of two indices. *)
LEMMA Wraps ==
  ASSUME RingConstants, NEW x \in 0 .. 2 * M - 1
  PROVE  x % M = IF x < M THEN x ELSE x - M
<1>1. CASE x < M
  BY SMTT(60), <1>1 DEF RingConstants
<1>2. CASE ~(x < M)
  <2>1. M * 1 + (x - M) = x /\ x - M \in 0 .. M - 1 /\ 1 \in Int
    BY SMTT(60), <1>2 DEF RingConstants
  <2>2. (M * 1 + (x - M)) % M = x - M
    BY <2>1, Remainder DEF RingConstants
  <2> QED
    BY <1>2, <2>1, <2>2
<1> QED
  BY <1>1, <1>2

(* The place of an entry does not depend on whether its index has wrapped. *)
LEMMA SlotOf ==
  ASSUME RingConstants, NEW x \in Nat, NEW i \in Nat
  PROVE  /\ (x + i) % N \in 0 .. N - 1
         /\ ((x % M) + i) % N = (x + i) % N
<1>1. M \in Int /\ x \in Int
  BY SMTT(60) DEF RingConstants
<1>2. PICK c \in Int : M = N * c
  <2>1. PICK c \in Int, z \in 0 .. N - 1 : M = N * c + z /\ z = M % N
    BY <1>1, DivMod DEF RingConstants
  <2>2. M = N * c
    BY SMTT(60), <1>1, <2>1 DEF RingConstants
  <2> QED
    BY <2>2
<1>3. PICK a \in Int, y \in 0 .. M - 1 : x = M * a + y /\ y = x % M
  BY <1>1, DivMod DEF RingConstants
<1>4. PICK b \in Int, r \in 0 .. N - 1 : x + i = N * b + r /\ r = (x + i) % N
  <2>1. x + i \in Int
    BY SMTT(60) DEF RingConstants
  <2> QED
    BY <1>1, <2>1, DivMod DEF RingConstants
<1>5. y + i = N * (b - c * a) + r
  <2>1. PICK z \in Int : z = c * a
    BY SMTT(60), <1>2, <1>3
  <2>2. M * a = N * z /\ N \in Int
    BY SMTT(60), <1>2, <1>3, <2>1 DEF RingConstants
  <2>3. N * (b - z) = N * b - N * z
    BY SMTT(60), <1>4, <2>1, <2>2
  <2>4. N * z \in Int /\ N * b \in Int
    BY SMTT(60), <1>4, <2>1, <2>2
  <2>5. y + i = N * b + r - N * z
    BY SMTT(60), <1>3, <1>4, <2>2, <2>4
  <2> QED
    BY SMTT(60), <1>3, <1>4, <2>1, <2>3, <2>4, <2>5
<1>6. b - c * a \in Int
  BY SMTT(60), <1>2, <1>3, <1>4 DEF RingConstants
<1>7. (N * (b - c * a) + r) % N = r
  BY <1>4, <1>6, Remainder DEF RingConstants
<1>8. (y + i) % N = r
  BY <1>5, <1>7
<1> QED
  BY <1>3, <1>4, <1>8

(* N entries that follow each other have different places. *)
LEMMA SlotsDiffer ==
  ASSUME RingConstants, NEW x \in Nat, NEW i \in 0 .. N - 1, NEW j \in 0 .. N - 1,
         (x + i) % N = (x + j) % N
  PROVE  i = j
<1>1. x + i \in Int /\ x + j \in Int
  BY SMTT(60) DEF RingConstants
<1>2. PICK a \in Int, r \in 0 .. N - 1 : x + i = N * a + r /\ r = (x + i) % N
  BY <1>1, DivMod DEF RingConstants
<1>3. PICK b \in Int, s \in 0 .. N - 1 : x + j = N * b + s /\ s = (x + j) % N
  BY <1>1, DivMod DEF RingConstants
<1>4. r = s
  BY <1>2, <1>3
<1> DEFINE e == a - b
<1>5. e \in Int /\ i - j = N * e
  BY SMTT(60), <1>1, <1>2, <1>3, <1>4 DEF RingConstants
<1> HIDE DEF e
<1>6. N * e < N /\ N * e > 0 - N
  BY SMTT(60), <1>1, <1>5 DEF RingConstants
<1>7. e = 0
  BY <1>1, <1>5, <1>6, SmallMultiple DEF RingConstants
<1> QED
  BY SMTT(60), <1>1, <1>5, <1>7 DEF RingConstants

-----------------------------------------------------------------------------
(* The number of entries from index a to index b. *)
LEMMA DistanceIs ==
  ASSUME RingConstants, NEW a \in 0 .. M - 1, NEW b \in 0 .. M - 1
  PROVE  (b - a) % M = IF a <= b THEN b - a ELSE b - a + M
BY SMTT(60) DEF RingConstants

(* The next index. *)
LEMMA NextIs ==
  ASSUME RingConstants, NEW a \in 0 .. M - 1
  PROVE  (a + 1) % M \in 0 .. M - 1 /\ (a + 1) % M = IF a = M - 1 THEN 0 ELSE a + 1
BY SMTT(60) DEF RingConstants

(* How the number changes as the indices advance. *)
LEMMA DistanceFacts ==
  ASSUME RingConstants, NEW a \in 0 .. M - 1, NEW b \in 0 .. M - 1
  PROVE  /\ (b - a) % M \in 0 .. M - 1
         /\ (b - a) % M = 0 <=> a = b
         /\ ((b - a) % M) + 1 < M => (((b + 1) % M) - a) % M = ((b - a) % M) + 1
         /\ a # b => (b - ((a + 1) % M)) % M = ((b - a) % M) - 1
         /\ (a + ((b - a) % M)) % M = b
<1> DEFINE n == (b - a) % M
           u == (a + 1) % M
           v == (b + 1) % M
           k == (b - u) % M
           m == (v - a) % M
<1>2. /\ u \in 0 .. M - 1 /\ u = IF a = M - 1 THEN 0 ELSE a + 1
      /\ v \in 0 .. M - 1 /\ v = IF b = M - 1 THEN 0 ELSE b + 1
  BY NextIs
<1> HIDE DEF u, v
<1>3. /\ n = IF a <= b THEN b - a ELSE b - a + M
      /\ k = IF u <= b THEN b - u ELSE b - u + M
      /\ m = IF a <= v THEN v - a ELSE v - a + M
  BY <1>2, DistanceIs
<1> HIDE DEF n, k, m
<1>4. n \in 0 .. M - 1 /\ (n = 0 <=> a = b)
  BY SMTT(60), <1>3 DEF RingConstants
<1>5. n + 1 < M => m = n + 1
  BY SMTT(60), <1>2, <1>3 DEF RingConstants
<1>6. a # b => k = n - 1
  BY SMTT(60), <1>2, <1>3 DEF RingConstants
<1>7. (a + n) % M = b
  <2>1. a + n \in 0 .. 2 * M - 1 /\ b = IF a + n < M THEN a + n ELSE (a + n) - M
    BY SMTT(60), <1>3 DEF RingConstants
  <2> QED
    BY <2>1, Wraps
<1> QED
  BY <1>4, <1>5, <1>6, <1>7 DEF n, k, m, u, v

(* The place of index b, counted from index a. *)
LEMMA SlotAfter ==
  ASSUME RingConstants,
         NEW a \in 0 .. M - 1, NEW b \in 0 .. M - 1
  PROVE  b % N = (a + ((b - a) % M)) % N
<1>1. (b - a) % M \in 0 .. M - 1 /\ (a + ((b - a) % M)) % M = b
  BY DistanceFacts
<1> DEFINE n == (b - a) % M
<1> HIDE DEF n
<1>2. a + n \in Nat /\ b + 0 = b /\ a + n + 0 = a + n /\ 0 \in Nat
  BY SMTT(60), <1>1 DEF n, RingConstants
<1>3. (((a + n) % M) + 0) % N = (a + n + 0) % N
  BY <1>2, SlotOf
<1>4. b % N = (a + n) % N
  BY <1>1, <1>2, <1>3 DEF n
<1> QED
  BY <1>4 DEF n

(* A new entry at the end of the n entries from index a goes to a place of *)
(* its own.                                                                *)
LEMMA Push ==
  ASSUME RingConstants, NEW x \in Nat, NEW n \in 0 .. N - 1
  PROVE  /\ (x + n) % N \in 0 .. N - 1
         /\ \A i \in 0 .. n - 1 : (x + i) % N \in 0 .. N - 1 /\ (x + i) % N # (x + n) % N
<1>1. /\ n \in Nat
      /\ \A i \in 0 .. n - 1 : i \in Nat /\ i \in 0 .. N - 1 /\ i # n
  BY SMTT(60) DEF RingConstants
<1> QED
  BY <1>1, SlotsDiffer, SlotOf

(* The place of the first entry is not that of another, and the others     *)
(* move up by one when the index a advances.                               *)
LEMMA Pop ==
  ASSUME RingConstants,
         NEW x \in Nat, NEW n \in 1 .. N
  PROVE  /\ x % N \in 0 .. N - 1 /\ (x + 0) % N = x % N
         /\ \A i \in 0 .. n - 2 : /\ (((x + 1) % M) + i) % N = (x + (i + 1)) % N
                                 /\ (x + (i + 1)) % N \in 0 .. N - 1
                                 /\ (x + (i + 1)) % N # x % N
<1>1. x + 0 = x /\ 0 \in Nat /\ 0 \in 0 .. N - 1
  BY SMTT(60) DEF RingConstants
<1>2. x % N \in 0 .. N - 1
  <2>1. (x + 0) % N \in 0 .. N - 1
    BY <1>1, SlotOf
  <2> QED
    BY <1>1, <2>1
<1>3. ASSUME NEW i \in 0 .. n - 2
      PROVE  /\ (((x + 1) % M) + i) % N = (x + (i + 1)) % N
             /\ (x + (i + 1)) % N \in 0 .. N - 1 /\ (x + (i + 1)) % N # x % N
  <2>1. /\ i \in Nat /\ i + 1 \in 0 .. N - 1 /\ i + 1 # 0
        /\ x + 1 \in Nat /\ (x + 1) + i = x + (i + 1) /\ i + 1 \in Nat
    BY SMTT(60) DEF RingConstants
  <2>2. (((x + 1) % M) + i) % N = ((x + 1) + i) % N
    BY <2>1, SlotOf
  <2>3. (x + (i + 1)) % N # (x + 0) % N
    BY <1>1, <2>1, SlotsDiffer
  <2>4. (x + (i + 1)) % N \in 0 .. N - 1
    BY <2>1, SlotOf
  <2> QED
    BY <1>1, <2>1, <2>2, <2>3, <2>4
<1> QED
  BY <1>1, <1>2, <1>3
=============================================================================
