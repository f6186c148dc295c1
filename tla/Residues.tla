------------------------------ MODULE Residues ------------------------------
(***************************************************************************)
(* Counters that wrap: what the proofs need to know of residues modulo m.  *)
(***************************************************************************)
EXTENDS Integers, TLAPS

(* Two readings a and b differ by a whole number of turns of the counter.  *)
Cong(a, b, m) == (a - b) % m = 0

(* A number is its residue plus some turns.                                *)
LEMMA ModTurns ==
    ASSUME NEW a \in Int, NEW m \in Nat \ {0}
    PROVE  a % m \in 0..m-1 /\ \E k \in Int : a = m * k + (a % m)
<1>1. a % m \in 0..m-1
  OBVIOUS
<1>2. a = m * (a \div m) + (a % m) /\ a \div m \in Int
  OBVIOUS
<1> QED
  BY <1>1, <1>2

(* Only the residue lies below the modulus.                                *)
LEMMA ModUnique ==
    ASSUME NEW a \in Int, NEW m \in Nat \ {0}, NEW r \in 0..m-1, NEW k \in Int,
           a = m * k + r
    PROVE  a % m = r
<1> DEFINE s == a % m
<1>1. s \in 0..m-1 /\ \E j \in Int : a = m * j + s
  BY ModTurns
<1> HIDE DEF s
<1>0. PICK j \in Int : a = m * j + s
  BY <1>1
<1>2. s \in 0..m-1 /\ m * (k - j) = s - r
  <2>1. m * k - m * j = s - r
    BY <1>0, <1>1
  <2>2. m * (k - j) = m * k - m * j
    OBVIOUS
  <2> QED
    BY <1>1, <2>1, <2>2
<1>3. k - j = 0
  <2>1. CASE k - j >= 1
    <3>1. m * (k - j) >= m
      BY <2>1
    <3> QED
      BY <1>2, <3>1
  <2>2. CASE k - j =< -1
    <3>1. m * (k - j) =< -m
      BY <2>2
    <3> QED
      BY <1>2, <3>1
  <2> QED
    BY <2>1, <2>2
<1>4. m * (k - j) = 0
  BY <1>3
<1>5. s = r
  BY <1>2, <1>4
<1> QED
  BY <1>5 DEF s

(* The quotient is the number of turns.                                    *)
LEMMA DivUnique ==
    ASSUME NEW a \in Int, NEW m \in Nat \ {0}, NEW r \in 0..m-1, NEW k \in Int,
           a = m * k + r
    PROVE  a \div m = k
<1> DEFINE q == a \div m
<1>1. q \in Int /\ m * q =< a /\ a < m * q + m
  OBVIOUS
<1> HIDE DEF q
<1>2. m * (q - k) = m * q - m * k /\ q - k \in Int
  BY <1>1
<1>3. ~(q - k >= 1)
  <2> SUFFICES ASSUME q - k >= 1 PROVE FALSE
    OBVIOUS
  <2>1. m * (q - k) >= m
    BY <1>1
  <2> QED
    BY <1>1, <1>2, <2>1
<1>4. ~(q - k =< -1)
  <2> SUFFICES ASSUME q - k =< -1 PROVE FALSE
    OBVIOUS
  <2>1. m * (q - k) =< -m
    BY <1>1
  <2> QED
    BY <1>1, <1>2, <2>1
<1>5. q = k
  BY <1>1, <1>3, <1>4
<1> QED
  BY <1>5 DEF q

(* Congruence in terms of turns.                                           *)
LEMMA CongTurns ==
    ASSUME NEW a \in Int, NEW b \in Int, NEW m \in Nat \ {0}
    PROVE  Cong(a, b, m) <=> \E k \in Int : a - b = m * k
<1>1. ASSUME Cong(a, b, m) PROVE \E k \in Int : a - b = m * k
  <2> DEFINE e == a - b
  <2>1. e \in Int /\ e % m = 0
    BY <1>1 DEF Cong
  <2> HIDE DEF e
  <2>2. \E k \in Int : e = m * k + 0
    BY <2>1, ModTurns
  <2>3. \E k \in Int : e = m * k
    BY <2>2
  <2> QED
    BY <2>3 DEF e
<1>2. ASSUME NEW k \in Int, a - b = m * k PROVE Cong(a, b, m)
  <2>1. a - b = m * k + 0 /\ 0 \in 0..m-1 /\ a - b \in Int
    BY <1>2
  <2> QED
    BY <2>1, ModUnique DEF Cong
<1> QED
  BY <1>1, <1>2

(* A residue is congruent to its number.                                   *)
LEMMA CongMod ==
    ASSUME NEW a \in Int, NEW m \in Nat \ {0}
    PROVE  Cong(a % m, a, m) /\ Cong(a, a % m, m) /\ a % m \in 0..m-1
<1>1. a % m \in 0..m-1
  BY ModTurns
<1>2. PICK k \in Int : a = m * k + (a % m)
  BY ModTurns
<1> DEFINE r == a % m
<1>3. r \in Int /\ a - r = m * k /\ r - a = m * (-k) /\ -k \in Int
  BY <1>1, <1>2
<1> HIDE DEF r
<1>4. Cong(r, a, m) /\ Cong(a, r, m)
  BY <1>3, CongTurns
<1> QED
  BY <1>1, <1>4 DEF r

(* Congruences can be added and subtracted.                                *)
LEMMA CongAdd ==
    ASSUME NEW a \in Int, NEW b \in Int, NEW c \in Int, NEW d \in Int,
           NEW m \in Nat \ {0}, Cong(a, b, m), Cong(c, d, m)
    PROVE  Cong(a + c, b + d, m) /\ Cong(a - c, b - d, m)
<1>1. PICK j \in Int : a - b = m * j
  BY CongTurns
<1>2. PICK k \in Int : c - d = m * k
  BY CongTurns
<1>3. /\ (a + c) - (b + d) = m * (j + k)
      /\ (a - c) - (b - d) = m * (j - k)
      /\ j + k \in Int /\ j - k \in Int
      /\ a + c \in Int /\ b + d \in Int /\ a - c \in Int /\ b - d \in Int
  BY <1>1, <1>2
<1> QED
  BY <1>3, CongTurns

(* It is an equivalence.                                                   *)
LEMMA CongEquiv ==
    ASSUME NEW m \in Nat \ {0}
    PROVE  /\ \A a \in Int : Cong(a, a, m)
           /\ \A a, b \in Int : Cong(a, b, m) => Cong(b, a, m)
           /\ \A a, b, c \in Int : Cong(a, b, m) /\ Cong(b, c, m) => Cong(a, c, m)
<1>1. ASSUME NEW a \in Int PROVE Cong(a, a, m)
  <2>1. a - a = m * 0
    OBVIOUS
  <2> QED
    BY <2>1, CongTurns
<1>2. ASSUME NEW a \in Int, NEW b \in Int, Cong(a, b, m) PROVE Cong(b, a, m)
  <2>1. PICK j \in Int : a - b = m * j
    BY <1>2, CongTurns
  <2>2. b - a = m * (-j) /\ -j \in Int
    BY <2>1
  <2> QED
    BY <2>2, CongTurns
<1>3. ASSUME NEW a \in Int, NEW b \in Int, NEW c \in Int,
             Cong(a, b, m), Cong(b, c, m)
      PROVE  Cong(a, c, m)
  <2>1. PICK j \in Int : a - b = m * j
    BY <1>3, CongTurns
  <2>2. PICK k \in Int : b - c = m * k
    BY <1>3, CongTurns
  <2>3. a - c = m * (j + k) /\ j + k \in Int
    BY <2>1, <2>2
  <2> QED
    BY <2>3, CongTurns
<1> QED
  BY <1>1, <1>2, <1>3

(* Congruent numbers less than a turn apart are equal.                     *)
LEMMA CongSmall ==
    ASSUME NEW a \in Int, NEW b \in Int, NEW m \in Nat \ {0},
           Cong(a, b, m), a - b < m, b - a < m
    PROVE  a = b
<1>1. PICK k \in Int : a - b = m * k
  BY CongTurns
<1>2. ~(k >= 1)
  <2> SUFFICES ASSUME k >= 1 PROVE FALSE
    OBVIOUS
  <2>1. m * k >= m
    OBVIOUS
  <2> QED
    BY <1>1, <2>1
<1>3. ~(k =< -1)
  <2> SUFFICES ASSUME k =< -1 PROVE FALSE
    OBVIOUS
  <2>1. m * k =< -m
    OBVIOUS
  <2> QED
    BY <1>1, <2>1
<1>4. k = 0
  BY <1>2, <1>3
<1> QED
  BY <1>1, <1>4

(* The residue of a number congruent to one below the modulus.             *)
LEMMA CongResidue ==
    ASSUME NEW a \in Int, NEW m \in Nat \ {0}, NEW r \in 0..m-1, Cong(a, r, m)
    PROVE  a % m = r
<1>0. r \in Int
  OBVIOUS
<1>1. PICK k \in Int : a - r = m * k
  BY <1>0, CongTurns
<1>2. a = m * k + r
  BY <1>1
<1> QED
  BY <1>2, ModUnique

(* A counter whose modulus divides m follows one modulo m.                 *)
LEMMA CongDivisor ==
    ASSUME NEW a \in Int, NEW b \in Int, NEW m \in Nat \ {0},
           NEW n \in Nat \ {0}, m % n = 0, Cong(a, b, m)
    PROVE  Cong(a, b, n)
<1>1. PICK k \in Int : a - b = m * k
  BY CongTurns
<1>0. PICK j \in Int : m = n * j + 0
  <2>1. m \in Int
    OBVIOUS
  <2>2. \E j \in Int : m = n * j + (m % n)
    BY <2>1, ModTurns, Zenon
  <2> QED
    BY <2>2
<1>2. m = n * j
  BY <1>0
<1>3. a - b = n * (j * k) /\ j * k \in Int
  <2>1. a - b = (n * j) * k
    BY <1>1, <1>2
  <2> QED
    BY <2>1
<1> QED
  BY <1>3, CongTurns

(* A number below the modulus is its own residue; none is less.            *)
LEMMA ModSmall ==
    ASSUME NEW m \in Nat \ {0}, NEW a \in 0..m-1
    PROVE  a % m = a
<1>1. a = m * 0 + a /\ a \in Int /\ 0 \in Int
  OBVIOUS
<1> QED
  BY <1>1, ModUnique

LEMMA ModAtMost ==
    ASSUME NEW a \in Nat, NEW m \in Nat \ {0}
    PROVE  a % m =< a
<1>1. a \in Int
  OBVIOUS
<1>2. a % m \in 0..m-1 /\ \E k \in Int : a = m * k + (a % m)
  BY <1>1, ModTurns, Zenon
<1> DEFINE r == a % m
<1> HIDE DEF r
<1>3. PICK k \in Int : a = m * k + r
  BY <1>2 DEF r
<1>4. r \in 0..m-1
  BY <1>2 DEF r
<1>5. k >= 0
  <2> SUFFICES ASSUME k =< -1 PROVE FALSE
    OBVIOUS
  <2>1. m * k =< -m
    OBVIOUS
  <2> QED
    BY <1>3, <1>4, <2>1
<1>6. m * k >= 0
  BY <1>5
<1>7. r =< a
  BY <1>3, <1>4, <1>6
<1> QED
  BY <1>7 DEF r

(* A counter that advances, seen from a fixed reading and towards one.     *)
LEMMA CongTick ==
    ASSUME NEW c \in Int, NEW x \in Int, NEW d \in Int, NEW m \in Nat \ {0},
           Cong(c - x, d, m)
    PROVE  Cong(((c + 1) % m) - x, d + 1, m)
<1>0. c + 1 \in Int
  OBVIOUS
<1>1. Cong((c + 1) % m, c + 1, m) /\ (c + 1) % m \in Int /\ c + 1 \in Int
  <2>1. Cong((c + 1) % m, c + 1, m) /\ (c + 1) % m \in 0..m-1
    BY <1>0, CongMod
  <2> QED
    BY <1>0, <2>1
<1>2. Cong(x, x, m) /\ Cong(1, 1, m)
  BY CongEquiv
<1>3. Cong(((c + 1) % m) - x, (c + 1) - x, m)
  BY <1>1, <1>2, CongAdd
<1>4. Cong((c - x) + 1, d + 1, m) /\ (c - x) + 1 = (c + 1) - x
  BY <1>2, CongAdd
<1> QED
  BY <1>1, <1>3, <1>4, CongEquiv

LEMMA CongCountdown ==
    ASSUME NEW c \in Int, NEW x \in Int, NEW d \in Int, NEW m \in Nat \ {0},
           Cong(x - c, d, m)
    PROVE  Cong(x - ((c + 1) % m), d - 1, m)
<1>0. c + 1 \in Int
  OBVIOUS
<1>1. Cong((c + 1) % m, c + 1, m) /\ (c + 1) % m \in Int /\ c + 1 \in Int
  <2>1. Cong((c + 1) % m, c + 1, m) /\ (c + 1) % m \in 0..m-1
    BY <1>0, CongMod
  <2> QED
    BY <1>0, <2>1
<1>2. Cong(x, x, m) /\ Cong(1, 1, m)
  BY CongEquiv
<1>3. Cong(x - ((c + 1) % m), x - (c + 1), m)
  BY <1>1, <1>2, CongAdd
<1>4. Cong((x - c) - 1, d - 1, m) /\ (x - c) - 1 = x - (c + 1)
  BY <1>2, CongAdd
<1> QED
  BY <1>1, <1>3, <1>4, CongEquiv
=============================================================================
