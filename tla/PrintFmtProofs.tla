--------------------------- MODULE PrintFmtProofs ---------------------------
(***************************************************************************)
(* Proofs about PrintFmt.tla: vsnprintf() prints what its format and       *)
(* arguments ask for, for formats of every length, integers of every       *)
(* width, every argument, field width and buffer size.                     *)
(*                                                                         *)
(* What the recursive functions of the specification compute is found out  *)
(* first, by induction over Nat done by hand: the numbers of which a       *)
(* statement holds are a set, and one it lacks would have a least one.     *)
(* So numerals, FoldLeft and FlattenSeq.  Then one directive is read part  *)
(* by part, and last the parts are put together: the invariant says where  *)
(* in the list of directives the reading is.                               *)
(***************************************************************************)
EXTENDS PrintFmt, WellFoundedInduction, TLAPS

(* Numbers, by induction: a set that has 0 and every successor of what it  *)
(* has is all of Nat.                                                      *)
LEMMA LeastOf ==
  ASSUME NEW T \in SUBSET Nat, T # {}
  PROVE  \E x \in T : \A y \in T : x <= y
<1>1. PICK x \in T : \A y \in T : ~(<<y, x>> \in OpToRel(<, Nat))
  <2> DEFINE R == OpToRel(<, Nat)
  <2>1. IsWellFoundedOn(R, Nat)
    BY NatLessThanWellFounded
  <2> HIDE DEF R
  <2>2. \E x \in T : \A y \in T : ~(<<y, x>> \in R)
    BY <2>1, WFMin, Zenon
  <2> QED
    BY <2>2 DEF R
<1>2. ASSUME NEW y \in T PROVE x <= y
  <2>1. ~(y < x)
    BY <1>1 DEF OpToRel
  <2> QED
    BY <2>1
<1> QED
  BY <1>2

(* A set of numbers that has 0 and, of every number it has, the next one,  *)
(* has them all.                                                           *)
LEMMA Induction ==
  ASSUME NEW T \in SUBSET Nat, 0 \in T, \A n \in T : n + 1 \in T
  PROVE  T = Nat
<1> SUFFICES ASSUME Nat \ T # {} PROVE FALSE
  OBVIOUS
<1>1. PICK x \in Nat \ T : \A y \in Nat \ T : x <= y
  BY LeastOf
<1>2. x - 1 \in T
  BY <1>1
<1> QED
  BY <1>1, <1>2

(* Likewise one that has every number before which it has all.             *)
LEMMA StrongInduction ==
  ASSUME NEW T \in SUBSET Nat, \A n \in Nat : (\A m \in 0 .. n-1 : m \in T) => n \in T
  PROVE  T = Nat
<1> SUFFICES ASSUME Nat \ T # {} PROVE FALSE
  OBVIOUS
<1>1. PICK x \in Nat \ T : \A y \in Nat \ T : x <= y
  BY LeastOf
<1>2. \A m \in 0 .. x-1 : m \in T
  BY <1>1
<1> QED
  BY <1>1, <1>2

(* Quotients.                                                              *)
LEMMA Divide ==
  ASSUME NEW a \in Nat, NEW d \in Nat \ {0}
  PROVE  /\ a \div d \in Nat /\ (a % d) \in 0 .. d-1
         /\ a = (d * (a \div d)) + (a % d)
OBVIOUS

(* The quotient is the one number that leaves a remainder below the        *)
(* divisor.                                                                *)
LEMMA QuotientIs ==
  ASSUME NEW a \in Nat, NEW d \in Nat \ {0}, NEW q \in Nat, NEW r \in 0 .. d-1,
         a = q * d + r
  PROVE  a \div d = q
OBVIOUS

(* The bases that are used.                                                *)
TenSixteen == {10, 16}

Twice(a, c, d) == (a \div c) \div d = a \div (c * d)

(* Dividing by a base and then by d is dividing by their product: a        *)
(* numeral loses its last place and then more of them.                     *)
LEMMA DivideTwice ==
  ASSUME NEW a \in Nat, NEW c \in TenSixteen, NEW d \in Nat \ {0}
  PROVE  Twice(a, c, d)
<1>0. c \in Nat \ {0} /\ (c = 10 \/ c = 16)
  BY DEF TenSixteen
<1> DEFINE m == a \div c
           q == m \div d
<1>1. m \in Nat /\ (a % c) \in 0 .. c-1 /\ a = c * m + (a % c)
  BY <1>0, Divide, Zenon
<1>2. q \in Nat /\ (m % d) \in 0 .. d-1 /\ m = d * q + (m % d)
  BY <1>1, Divide, Zenon
<1> HIDE DEF m, q
<1>3. (c * (m % d) + (a % c)) \in 0 .. c*d - 1
  <2> DEFINE Below == (c * (m % d) + (a % c)) \in 0 .. c*d - 1
  <2>1. ASSUME c = 10 PROVE Below
    BY <1>1, <1>2, <2>1
  <2>2. ASSUME c = 16 PROVE Below
    BY <1>1, <1>2, <2>2
  <2>3. Below
    <3> HIDE DEF Below
    <3> QED
      BY <1>0, <2>1, <2>2
  <2> QED
    BY <2>3, Zenon DEF Below
<1>4. a = q * (c * d) + (c * (m % d) + (a % c))
  <2> DEFINE x == m % d
             y == a % c
  <2>1. x \in Nat /\ y \in Nat /\ m = d * q + x /\ a = c * m + y
    BY <1>1, <1>2
  <2> HIDE DEF x, y
  <2> DEFINE Whole == a = q * (c * d) + (c * x + y)
  <2>2. ASSUME c = 10 PROVE Whole
    BY <1>1, <1>2, <2>1, <2>2
  <2>3. ASSUME c = 16 PROVE Whole
    BY <1>1, <1>2, <2>1, <2>3
  <2>4. Whole
    <3> HIDE DEF Whole
    <3> QED
      BY <1>0, <2>2, <2>3
  <2> QED
    BY <2>4, Zenon DEF Whole, x, y
<1>5. c * d \in Nat \ {0}
  BY <1>0
<1>6. a \div (c * d) = q
  BY <1>2, <1>3, <1>4, <1>5, QuotientIs
<1> QED
  BY <1>6 DEF Twice, m, q

(* Recursion over Nat.                                                     *)
Follows(p, X, x0, step) ==
  p \in [Nat -> X] /\ p[0] = x0 /\ \A j \in Nat : p[j+1] = step[j+1][p[j]]

(* What `power[j]' and other definitions by recursion over Nat rest on: a  *)
(* function with a given start and step exists.                            *)
LEMMA Recursion ==
  ASSUME NEW X, NEW x0 \in X, NEW step \in [Nat -> [X -> X]]
  PROVE  \E p : Follows(p, X, x0, step)
<1> DEFINE Upto(n, p) == /\ p \in [0..n -> X] /\ p[0] = x0
                         /\ \A j \in 0 .. n-1 : p[j+1] = step[j+1][p[j]]
           P(n) == CHOOSE p : Upto(n, p)
           T == {n \in Nat : \E p : Upto(n, p)}
<1>1. 0 \in T
  <2> DEFINE p == [j \in 0..0 |-> x0]
  <2>1. p \in [0..0 -> X] /\ p[0] = x0
    OBVIOUS
  <2>2. Upto(0, p)
    BY <2>1
  <2> QED
    BY <2>2
<1>2. ASSUME NEW n \in T PROVE n + 1 \in T
  <2>1. PICK p : Upto(n, p)
    OBVIOUS
  <2> DEFINE q == [j \in 0 .. n+1 |-> IF j = n+1 THEN step[n+1][p[n]] ELSE p[j]]
  <2>2. q \in [0 .. n+1 -> X]
    BY <2>1
  <2>3. q[0] = x0 /\ \A j \in 0..n : q[j] = p[j]
    BY <2>1
  <2>4. q[n+1] = step[n+1][q[n]]
    OBVIOUS
  <2>5. \A j \in 0..n : q[j+1] = step[j+1][q[j]]
    <3> TAKE j \in 0..n
    <3>1. CASE j = n
      BY <2>4, <3>1
    <3>2. CASE j # n
      <4>1. j \in 0 .. n-1 /\ j + 1 \in 0..n
        BY <3>2
      <4>2. q[j] = p[j] /\ q[j+1] = p[j+1]
        BY <2>3, <4>1
      <4>3. p[j+1] = step[j+1][p[j]]
        BY <2>1, <4>1
      <4> QED
        BY <4>2, <4>3
    <3> QED
      BY <3>1, <3>2
  <2>6. Upto(n+1, q)
    <3> HIDE DEF q
    <3> QED
      BY <2>2, <2>3, <2>5
  <2> HIDE DEF Upto
  <2> QED
    BY <2>6
<1>3. T = Nat
  <2> HIDE DEF T
  <2> QED
    BY <1>1, <1>2, Induction DEF T
<1>4. \A n \in Nat : Upto(n, P(n))
  <2> TAKE n \in Nat
  <2>1. \E p : Upto(n, p)
    BY <1>3
  <2> HIDE DEF Upto
  <2> QED
    BY <2>1
<1> HIDE DEF P
<1> DEFINE p == [n \in Nat |-> P(n)[n]]
<1>5. ASSUME NEW n \in Nat PROVE P(n+1)[n] = P(n)[n]
  <2>1. Upto(n, P(n)) /\ Upto(n+1, P(n+1))
    BY <1>4
  <2> DEFINE W == {k \in Nat : k <= n => P(n+1)[k] = P(n)[k]}
  <2>2. 0 \in W
    BY <2>1
  <2>3. ASSUME NEW k \in W PROVE k + 1 \in W
    <3>1. CASE k + 1 <= n
      <4>1. k \in 0 .. n-1 /\ k \in 0 .. (n+1)-1 /\ P(n+1)[k] = P(n)[k]
        BY <3>1
      <4>2. P(n)[k+1] = step[k+1][P(n)[k]]
        BY <2>1, <4>1
      <4>3. P(n+1)[k+1] = step[k+1][P(n+1)[k]]
        BY <2>1, <4>1
      <4> QED
        BY <4>1, <4>2, <4>3
    <3> QED
      BY <3>1
  <2>4. W = Nat
    <3> HIDE DEF W
    <3> QED
      BY <2>2, <2>3, Induction DEF W
  <2> QED
    BY <2>4
<1>6. \A n \in Nat : P(n)[n] \in X
  BY <1>4
<1>7. P(0)[0] = x0 /\ \A n \in Nat : P(n+1)[n+1] = step[n+1][P(n+1)[n]]
  BY <1>4
<1>8. p \in [Nat -> X] /\ p[0] = x0
  BY <1>6, <1>7
<1>9. \A n \in Nat : p[n+1] = step[n+1][p[n]]
  BY <1>5, <1>7
<1>10. Follows(p, X, x0, step)
  <2> HIDE DEF p
  <2> QED
    BY <1>8, <1>9 DEF Follows
<1> QED
  BY <1>10

(* Powers.                                                                 *)
LEMMA Powers ==
  ASSUME NEW base \in Nat \ {0}
  PROVE  /\ Power(base, 0) = 1
         /\ \A k \in Nat : Power(base, k) \in Nat \ {0}
         /\ \A k \in Nat : Power(base, k+1) = base * Power(base, k)
<1> DEFINE Rec(p) == p = [j \in Nat |-> IF j = 0 THEN 1 ELSE base * p[j-1]]
           power == CHOOSE p : Rec(p)
           step == [j \in Nat |-> [v \in Nat |-> base * v]]
<1>1. \E p : Rec(p)
  <2>1. step \in [Nat -> [Nat -> Nat]]
    OBVIOUS
  <2>2. PICK p : Follows(p, Nat, 1, step)
    <3>1. 1 \in Nat
      OBVIOUS
    <3> HIDE DEF step
    <3> QED
      BY <2>1, <3>1, Recursion, Zenon
  <2>3. \A j \in Nat : p[j+1] = base * p[j]
    <3> TAKE j \in Nat
    <3>1. j + 1 \in Nat /\ p[j] \in Nat
      BY <2>2 DEF Follows
    <3>2. step[j+1][p[j]] = base * p[j]
      BY <3>1
    <3>3. p[j+1] = step[j+1][p[j]]
      BY <2>2 DEF Follows
    <3> QED
      BY <3>2, <3>3
  <2>4. ASSUME NEW j \in Nat PROVE p[j] = IF j = 0 THEN 1 ELSE base * p[j-1]
    <3>1. CASE j # 0
      <4>1. j - 1 \in Nat /\ (j-1) + 1 = j
        BY <3>1
      <4>2. p[(j-1)+1] = base * p[j-1]
        BY <2>3, <4>1
      <4> QED
        BY <3>1, <4>1, <4>2
    <3> QED
      BY <2>2, <3>1 DEF Follows
  <2>5. Rec(p)
    BY <2>2, <2>4 DEF Follows
  <2> HIDE DEF Rec
  <2> QED
    BY <2>5
<1>2. Rec(power)
  <2> HIDE DEF Rec
  <2> QED
    BY <1>1
<1>3. \A k : Power(base, k) = power[k]
  BY DEF Power
<1> HIDE DEF power
<1>4. Power(base, 0) = 1
  BY <1>2, <1>3
<1>5. \A k \in Nat : Power(base, k+1) = base * Power(base, k)
  <2> TAKE k \in Nat
  <2>1. power[k+1] = base * power[(k+1)-1]
    BY <1>2
  <2> QED
    BY <1>3, <2>1
<1> DEFINE T == {k \in Nat : Power(base, k) \in Nat \ {0}}
<1>6. T = Nat
  <2>1. 0 \in T
    BY <1>4
  <2>2. ASSUME NEW k \in T PROVE k + 1 \in T
    BY <1>5
  <2> HIDE DEF T
  <2> QED
    BY <2>1, <2>2, Induction DEF T
<1> QED
  BY <1>4, <1>5, <1>6

(* They grow with the exponent and with the base.                          *)
LEMMA PowersGrow ==
  ASSUME NEW base \in {2, 10, 16}, NEW j \in Nat
  PROVE  /\ j < Power(base, j) /\ Power(2, j) <= Power(base, j)
         /\ \A k \in Nat : j <= k => Power(base, j) <= Power(base, k)
<1>1. base \in Nat \ {0} /\ 2 \in Nat \ {0}
  OBVIOUS
<1>2. /\ Power(base, 0) = 1
      /\ \A k \in Nat : Power(base, k) \in Nat \ {0} /\ Power(base, k+1) = base * Power(base, k)
  BY <1>1, Powers
<1>3. /\ Power(2, 0) = 1
      /\ \A k \in Nat : Power(2, k) \in Nat \ {0} /\ Power(2, k+1) = 2 * Power(2, k)
  BY Powers
<1> DEFINE T == {k \in Nat : k < Power(base, k) /\ Power(2, k) <= Power(base, k)}
<1>4. T = Nat
  <2>1. 0 \in T
    BY <1>2, <1>3
  <2>2. ASSUME NEW k \in T PROVE k + 1 \in T
    <3>1. /\ Power(base, k) \in Nat \ {0} /\ Power(2, k) \in Nat \ {0}
          /\ Power(base, k+1) = base * Power(base, k) /\ Power(2, k+1) = 2 * Power(2, k)
      BY <1>2, <1>3
    <3>2. k < Power(base, k) /\ Power(2, k) <= Power(base, k)
      OBVIOUS
    <3> QED
      BY <3>1, <3>2
  <2> HIDE DEF T
  <2> QED
    BY <2>1, <2>2, Induction DEF T
<1> DEFINE U == {k \in Nat : Power(base, j) <= Power(base, j + k)}
<1>5. U = Nat
  <2>1. 0 \in U
    BY <1>2
  <2>2. ASSUME NEW k \in U PROVE k + 1 \in U
    <3>1. j + (k + 1) = (j + k) + 1 /\ j + k \in Nat
      OBVIOUS
    <3>2. /\ Power(base, (j + k) + 1) = base * Power(base, j + k)
          /\ Power(base, j + k) \in Nat \ {0} /\ Power(base, j) \in Nat \ {0}
      BY <1>2, <3>1
    <3>3. Power(base, j) <= Power(base, j + k)
      OBVIOUS
    <3>4. Power(base, j) <= Power(base, (j + k) + 1)
      BY <3>2, <3>3
    <3> QED
      BY <3>1, <3>4
  <2> HIDE DEF U
  <2> QED
    BY <2>1, <2>2, Induction DEF U
<1>6. ASSUME NEW k \in Nat, j <= k PROVE Power(base, j) <= Power(base, k)
  <2>1. k - j \in Nat /\ j + (k - j) = k
    BY <1>6
  <2>2. k - j \in U
    BY <1>5, <2>1
  <2> QED
    BY <2>1, <2>2
<1> QED
  BY <1>4, <1>6
-----------------------------------------------------------------------------
(* Numerals.  IsPlaces: a numeral of n in this base has k places.          *)
IsPlaces(n, base, k) ==
  /\ k \in Nat \ {0} /\ n < Power(base, k)
  /\ \A j \in 1 .. k-1 : Power(base, j) <= n

(* The numeral of n in k places, and in as many as it has.                 *)
InPlaces(n, base, k) ==
  [i \in 1..k |-> Digit[((n \div Power(base, k-i)) % base) + 1]]

Written(n, base) == InPlaces(n, base, CHOOSE k : IsPlaces(n, base, k))

(* Every number below base^m has a numeral of at most m places ...         *)
LEMMA PlacesExist ==
  ASSUME NEW base \in {10, 16}, NEW n \in Nat, NEW m \in Nat \ {0}, n < Power(base, m)
  PROVE  \E k \in 1..m : IsPlaces(n, base, k)
<1> DEFINE T == {k \in 1..m : n < Power(base, k)}
<1>1. T \in SUBSET Nat /\ m \in T
  OBVIOUS
<1>2. PICK k \in T : \A j \in T : k <= j
  <2> HIDE DEF T
  <2> QED
    BY <1>1, LeastOf
<1>3. \A j \in 1 .. k-1 : Power(base, j) <= n
  <2> TAKE j \in 1 .. k-1
  <2>1. j \notin T /\ j \in 1..m
    BY <1>2
  <2>2. Power(base, j) \in Nat
    <3>1. base \in Nat \ {0} /\ j \in Nat
      BY <2>1
    <3> QED
      BY <3>1, Powers
  <2> QED
    BY <2>1, <2>2
<1> QED
  BY <1>2, <1>3 DEF IsPlaces

(* ... and of one length only ...                                          *)
LEMMA PlacesUnique ==
  ASSUME NEW base \in {10, 16}, NEW n \in Nat, NEW k, NEW l,
         IsPlaces(n, base, k), IsPlaces(n, base, l)
  PROVE  k = l
<1>1. k \in Nat \ {0} /\ l \in Nat \ {0} /\ Power(base, k) \in Nat /\ Power(base, l) \in Nat
  <2>1. base \in Nat \ {0} /\ k \in Nat \ {0} /\ l \in Nat \ {0}
    BY DEF IsPlaces
  <2> QED
    BY <2>1, Powers
<1>2. ~(k < l)
  <2> SUFFICES ASSUME k < l PROVE FALSE
    OBVIOUS
  <2>1. k \in 1 .. l-1
    BY <1>1
  <2> QED
    BY <1>1, <2>1 DEF IsPlaces
<1>3. ~(l < k)
  <2> SUFFICES ASSUME l < k PROVE FALSE
    OBVIOUS
  <2>1. l \in 1 .. k-1
    BY <1>1
  <2> QED
    BY <1>1, <2>1 DEF IsPlaces
<1> QED
  BY <1>1, <1>2, <1>3

(* ... so that the choice in Numeral is determined.                        *)
LEMMA WrittenIn ==
  ASSUME NEW base \in {10, 16}, NEW n \in Nat, NEW k, IsPlaces(n, base, k)
  PROVE  Written(n, base) = InPlaces(n, base, k)
<1>1. IsPlaces(n, base, CHOOSE l : IsPlaces(n, base, l))
  OBVIOUS
<1>2. (CHOOSE l : IsPlaces(n, base, l)) = k
  BY <1>1, PlacesUnique
<1> QED
  BY <1>2 DEF Written

(* It is the numeral of the model, for the numbers of a machine.           *)
LEMMA NumeralIsWritten ==
  ASSUME PrintFmtAssumption, NEW base \in {10, 16}, NEW n \in Nat, n < Power(2, LongBits)
  PROVE  Numeral(n, base) = Written(n, base)
<1>1. LongBits \in Nat \ {0} /\ base \in Nat \ {0} /\ 2 \in Nat \ {0}
  <2>1. IntBits \in Nat /\ LongBits \in Nat /\ LongBits > IntBits
    BY DEF PrintFmtAssumption
  <2> QED
    BY <2>1
<1>2. n < Power(base, LongBits)
  <2>1. Power(2, LongBits) <= Power(base, LongBits)
    BY <1>1, PowersGrow
  <2>2. Power(2, LongBits) \in Nat /\ Power(base, LongBits) \in Nat
    BY <1>1, Powers
  <2> QED
    BY <2>1, <2>2
<1> DEFINE Fits(k) == n < Power(base, k) /\ \A j \in 1 .. k-1 : Power(base, j) <= n
           places == CHOOSE k \in 1..LongBits : Fits(k)
<1>3. \A k \in 1..LongBits : Fits(k) <=> IsPlaces(n, base, k)
  BY DEF IsPlaces
<1>4. \E k \in 1..LongBits : IsPlaces(n, base, k)
  BY <1>1, <1>2, PlacesExist
<1>5. places \in 1..LongBits /\ Fits(places)
  <2> HIDE DEF Fits
  <2> QED
    BY <1>3, <1>4
<1>6. IsPlaces(n, base, places)
  <2> HIDE DEF Fits, places
  <2> QED
    BY <1>3, <1>5
<1>7. Numeral(n, base) = InPlaces(n, base, places)
  BY DEF Numeral, InPlaces
<1> HIDE DEF places
<1> QED
  BY <1>6, <1>7, WrittenIn

(* The numeral of a number below the base is one digit.                    *)
LEMMA WrittenSmall ==
  ASSUME NEW base \in {10, 16}, NEW n \in Nat, n < base
  PROVE  Written(n, base) = <<Digit[n+1]>>
<1>1. Power(base, 0) = 1 /\ Power(base, 0 + 1) = base * Power(base, 0)
  <2>1. base \in Nat \ {0} /\ 0 \in Nat
    OBVIOUS
  <2> QED
    BY <2>1, Powers
<1>2. IsPlaces(n, base, 1)
  BY <1>1 DEF IsPlaces
<1>3. InPlaces(n, base, 1) = [i \in 1..1 |-> Digit[n+1]]
  <2>1. ASSUME NEW i \in 1..1 PROVE ((n \div Power(base, 1-i)) % base) + 1 = n + 1
    <3>1. 1 - i = 0
      OBVIOUS
    <3> QED
      BY <1>1, <3>1
  <2> QED
    BY <2>1 DEF InPlaces
<1> QED
  BY <1>2, <1>3, WrittenIn

LastDigit(n, base) == Digit[(n % base) + 1]

(* That of any other is that of the quotient with the remainder's digit    *)
(* behind it: what the loop of printnum() does.                            *)
LEMMA WrittenLarge ==
  ASSUME NEW base \in {10, 16}, NEW n \in Nat, ~(n < base)
  PROVE  Written(n, base) = Append(Written(n \div base, base), LastDigit(n, base))
<1> DEFINE q == n \div base
<1>1. q \in Nat /\ (n % base) \in 0 .. base-1 /\ n = base * q + (n % base)
  BY Divide
<1> HIDE DEF q
<1>2. /\ Power(base, 0) = 1
      /\ \A k \in Nat : Power(base, k) \in Nat \ {0} /\ Power(base, k+1) = base * Power(base, k)
  <2>1. base \in Nat \ {0}
    OBVIOUS
  <2> QED
    BY <2>1, Powers
<1>3. PICK k \in Nat \ {0} : IsPlaces(q, base, k)
  <2>1. q < Power(base, q)
    BY <1>1, PowersGrow
  <2>2. q < Power(base, q + 1) /\ q + 1 \in Nat \ {0}
    BY <1>1, <1>2, <2>1
  <2> QED
    BY <1>1, <2>2, PlacesExist
<1>4. IsPlaces(n, base, k + 1)
  <2>1. n < Power(base, k + 1)
    <3>1. q + 1 <= Power(base, k) /\ Power(base, k) \in Nat
      BY <1>1, <1>2, <1>3 DEF IsPlaces
    <3>2. base * (q + 1) <= base * Power(base, k)
      BY <1>1, <3>1
    <3> QED
      BY <1>1, <1>2, <3>2
  <2>2. ASSUME NEW j \in 1..k PROVE Power(base, j) <= n
    <3>1. CASE j = 1
      <4>1. Power(base, 0) = 1 /\ Power(base, 0 + 1) = base * Power(base, 0)
        BY <1>2
      <4> QED
        BY <3>1, <4>1
    <3>2. CASE j # 1
      <4>1. j - 1 \in 1 .. k-1 /\ j - 1 \in Nat /\ (j - 1) + 1 = j
        BY <3>2
      <4>2. Power(base, j-1) <= q /\ Power(base, j-1) \in Nat /\ Power(base, j) = base * Power(base, j-1)
        BY <1>2, <1>3, <4>1 DEF IsPlaces
      <4> QED
        BY <1>1, <4>2
    <3> QED
      BY <3>1, <3>2
  <2> QED
    BY <2>1, <2>2 DEF IsPlaces
<1>5. Written(n, base) = InPlaces(n, base, k + 1) /\ Written(q, base) = InPlaces(q, base, k)
  BY <1>1, <1>3, <1>4, WrittenIn
<1>6. ASSUME NEW i \in 1..k PROVE InPlaces(n, base, k+1)[i] = InPlaces(q, base, k)[i]
  <2>1. k - i \in Nat /\ (k + 1) - i = (k - i) + 1
    OBVIOUS
  <2>2. Power(base, (k + 1) - i) = base * Power(base, k - i) /\ Power(base, k - i) \in Nat \ {0}
    BY <1>2, <2>1
  <2> DEFINE P == Power(base, k - i)
  <2>3. P \in Nat \ {0} /\ Power(base, (k + 1) - i) = base * P
    BY <2>2
  <2> HIDE DEF P
  <2>4. (n \div base) \div P = n \div (base * P)
    <3>1. base \in TenSixteen /\ n \in Nat /\ P \in Nat \ {0}
      BY <2>3 DEF TenSixteen
    <3> QED
      BY <3>1, DivideTwice, Zenon DEF Twice
  <2>5. q \div Power(base, k - i) = n \div Power(base, (k + 1) - i)
    BY <2>3, <2>4 DEF q, P
  <2> QED
    BY <2>5 DEF InPlaces
<1>7. InPlaces(n, base, k+1)[k+1] = Digit[(n % base) + 1]
  <2>1. Power(base, 0) = 1
    BY <1>2
  <2>2. InPlaces(n, base, k+1)[k+1] = Digit[((n \div Power(base, (k+1) - (k+1))) % base) + 1]
    BY DEF InPlaces
  <2>3. (k+1) - (k+1) = 0 /\ n \div 1 = n
    OBVIOUS
  <2> QED
    BY <2>1, <2>2, <2>3
<1>8. InPlaces(n, base, k+1) = [i \in 1 .. k+1 |-> InPlaces(n, base, k+1)[i]]
  BY DEF InPlaces
<1>9. InPlaces(q, base, k) = [i \in 1 .. k |-> InPlaces(q, base, k)[i]]
  BY DEF InPlaces
<1>10. Append(InPlaces(q, base, k), Digit[(n % base) + 1])
        = [i \in 1 .. k+1 |-> IF i = k+1 THEN Digit[(n % base) + 1] ELSE InPlaces(q, base, k)[i]]
  BY <1>9
<1> QED
  BY <1>5, <1>6, <1>7, <1>8, <1>10 DEF q, LastDigit

(* What printnum() prints by recursion on the quotient is that numeral.    *)
LEMMA PrintedNumber ==
  ASSUME NEW base \in {10, 16}, NEW num \in Nat, NEW width, NEW padc
  PROVE  printnum(num, base, width, padc)
           = Repeat(padc, width - Len(Written(num, base))) \o Written(num, base)
<1> DEFINE Rec(f) == f = [k \in Nat |-> IF k < base THEN <<Digit[k+1]>>
                                        ELSE Append(f[k \div base], Digit[(k % base) + 1])]
           digits == CHOOSE f : Rec(f)
           w == [k \in Nat |-> Written(k, base)]
<1>1. Rec(w)
  <2>1. ASSUME NEW k \in Nat
        PROVE  Written(k, base) = IF k < base THEN <<Digit[k+1]>>
                                  ELSE Append(w[k \div base], LastDigit(k, base))
    <3>1. k \div base \in Nat
      BY Divide
    <3>2. w[k \div base] = Written(k \div base, base)
      BY <3>1
    <3> HIDE DEF w
    <3>3. k < base => Written(k, base) = <<Digit[k+1]>>
      BY WrittenSmall
    <3>4. ~(k < base) => Written(k, base) = Append(Written(k \div base, base), LastDigit(k, base))
      BY WrittenLarge
    <3> QED
      BY <3>2, <3>3, <3>4
  <2> QED
    BY <2>1, Zenon DEF LastDigit
<1>2. Rec(digits)
  <2> HIDE DEF Rec, w
  <2> QED
    BY <1>1
<1> HIDE DEF digits
<1> DEFINE Step(k) == IF k < base THEN <<Digit[k+1]>>
                      ELSE Append(digits[k \div base], LastDigit(k, base))
<1>2a. \A k \in Nat : digits[k] = Step(k)
  <2>1. digits = [k \in Nat |-> Step(k)]
    BY <1>2, Zenon DEF LastDigit
  <2> HIDE DEF Step
  <2> QED
    BY <2>1
<1> DEFINE T == {k \in Nat : digits[k] = Written(k, base)}
<1>3. ASSUME NEW k \in Nat, \A m \in 0 .. k-1 : m \in T PROVE k \in T
  <2>1. CASE k < base
    BY <1>2a, <2>1, WrittenSmall
  <2>2. CASE ~(k < base)
    <3>1. k \div base \in 0 .. k-1
      BY <2>2
    <3>2. digits[k \div base] = Written(k \div base, base)
      BY <1>3, <3>1
    <3>3. digits[k] = Append(digits[k \div base], LastDigit(k, base))
      BY <1>2a, <2>2
    <3> HIDE DEF Rec, Step
    <3> QED
      BY <2>2, <3>2, <3>3, WrittenLarge
  <2> QED
    BY <2>1, <2>2
<1>4. T = Nat
  <2> HIDE DEF T
  <2>1. T \in SUBSET Nat
    BY DEF T
  <2> QED
    BY <1>3, <2>1, StrongInduction
<1>5. digits[num] = Written(num, base)
  BY <1>4
<1>6. printnum(num, base, width, padc) = Repeat(padc, Pad(width, digits[num])) \o digits[num]
  BY DEF printnum, digits
<1> QED
  BY <1>5, <1>6 DEF Pad

DigitsOf(base) == {Digit[k] : k \in 1..base}

(* A numeral is made of digits, has at least one, and does not begin with  *)
(* a zero, unless it is one.                                               *)
LEMMA WrittenDigits ==
  ASSUME NEW base \in {10, 16}, NEW n \in Nat
  PROVE  /\ Written(n, base) \in Seq(DigitsOf(base)) /\ Len(Written(n, base)) > 0
         /\ n > 0 => Written(n, base)[1] \in {Digit[k] : k \in 2..base}
<1> DEFINE Good(k) == /\ Written(k, base) \in Seq(DigitsOf(base)) /\ Len(Written(k, base)) > 0
                      /\ k > 0 => Written(k, base)[1] \in {Digit[j] : j \in 2..base}
           T == {k \in Nat : Good(k)}
<1>1. ASSUME NEW k \in Nat, \A m \in 0 .. k-1 : m \in T PROVE Good(k)
  <2>1. CASE k < base
    <3>1. Written(k, base) = <<Digit[k+1]>>
      BY <2>1, WrittenSmall
    <3>2. k + 1 \in 1..base /\ (k > 0 => k + 1 \in 2..base)
      BY <2>1
    <3>3. Digit[k+1] \in DigitsOf(base)
      BY <3>2 DEF DigitsOf
    <3>4. k > 0 => Digit[k+1] \in {Digit[j] : j \in 2..base}
      BY <3>2
    <3> HIDE DEF T
    <3> QED
      BY <3>1, <3>3, <3>4
  <2>2. CASE ~(k < base)
    <3>1. k \div base \in 0 .. k-1 /\ k \div base > 0 /\ (k % base) + 1 \in 1..base
      BY <2>2
    <3>2. Good(k \div base)
      BY <1>1, <3>1
    <3>3. Written(k, base) = Append(Written(k \div base, base), LastDigit(k, base))
      BY <2>2, WrittenLarge
    <3>4. LastDigit(k, base) \in DigitsOf(base)
      BY <3>1 DEF DigitsOf, LastDigit
    <3> DEFINE w == Written(k \div base, base)
               c == LastDigit(k, base)
    <3>5. /\ w \in Seq(DigitsOf(base)) /\ Len(w) > 0 /\ c \in DigitsOf(base)
          /\ w[1] \in {Digit[j] : j \in 2..base} /\ Written(k, base) = Append(w, c)
      BY <3>1, <3>2, <3>3, <3>4
    <3> HIDE DEF w, c, T
    <3>6. Append(w, c) \in Seq(DigitsOf(base)) /\ Len(Append(w, c)) > 0 /\ Append(w, c)[1] = w[1]
      BY <3>5
    <3> QED
      BY <3>5, <3>6
  <2> QED
    BY <2>1, <2>2
<1>2. T = Nat
  <2>1. T \in SUBSET Nat /\ \A k \in Nat : (\A m \in 0 .. k-1 : m \in T) => k \in T
    BY <1>1
  <2> HIDE DEF T
  <2> QED
    BY <2>1, StrongInduction
<1>3. n \in T
  BY <1>2
<1> HIDE DEF Good
<1> QED
  BY <1>3 DEF Good
-----------------------------------------------------------------------------
(* FoldLeft of a sequence, a recursion on the sets of its indices.         *)
LEMMA MaxOf ==
  ASSUME NEW m \in Nat, NEW t \in SUBSET (1..m), t # {}
  PROVE  Max(t) \in t /\ \A y \in t : y <= Max(t)
<1> DEFINE T == {k \in Nat : \E y \in t : k = m - y}
<1>1. T \in SUBSET Nat /\ T # {}
  <2>1. PICK y \in t : TRUE
    OBVIOUS
  <2>2. m - y \in T
    OBVIOUS
  <2> QED
    BY <2>2
<1>2. PICK k \in T : \A j \in T : k <= j
  <2> HIDE DEF T
  <2> QED
    BY <1>1, LeastOf
<1>3. m - k \in t /\ k \in Nat
  BY <1>2
<1>4. ASSUME NEW y \in t PROVE m - k >= y
  <2>1. m - y \in T
    OBVIOUS
  <2> QED
    BY <1>2, <1>3, <2>1
<1> QED
  BY <1>3, <1>4 DEF Max

(* FoldLeft goes over a set of places by their maximum; Folded goes over   *)
(* them in order.                                                          *)
Skipping(t, X, step) == [j \in Nat |-> IF j \in t THEN step[j] ELSE [x \in X |-> x]]
Folded(t, X, x0, step) == CHOOSE p : Follows(p, X, x0, Skipping(t, X, step))

(* Folding a step over the numbers of t: others leave the value alone.     *)
LEMMA FoldedIs ==
  ASSUME NEW X, NEW x0 \in X, NEW step \in [Nat -> [X -> X]], NEW t
  PROVE  LET p == Folded(t, X, x0, step) IN
         /\ p \in [Nat -> X] /\ p[0] = x0
         /\ \A j \in Nat : p[j+1] = IF j+1 \in t THEN step[j+1][p[j]] ELSE p[j]
<1> DEFINE p == Folded(t, X, x0, step)
<1>1. Skipping(t, X, step) \in [Nat -> [X -> X]]
  BY DEF Skipping
<1>2. \E q : Follows(q, X, x0, Skipping(t, X, step))
  BY <1>1, Recursion, Zenon
<1>3. Follows(p, X, x0, Skipping(t, X, step))
  BY <1>2 DEF Folded
<1> HIDE DEF p
<1>4. p \in [Nat -> X] /\ p[0] = x0
  BY <1>3 DEF Follows
<1>5. ASSUME NEW j \in Nat PROVE p[j+1] = IF j+1 \in t THEN step[j+1][p[j]] ELSE p[j]
  <2>1. p[j+1] = Skipping(t, X, step)[j+1][p[j]]
    BY <1>3 DEF Follows
  <2>2. p[j] \in X /\ j + 1 \in Nat
    BY <1>4
  <2> QED
    BY <2>1, <2>2 DEF Skipping
<1> QED
  BY <1>4, <1>5 DEF p

(* The value after k depends on the numbers up to k only.                  *)
LEMMA FoldedAlike ==
  ASSUME NEW X, NEW x0 \in X, NEW step \in [Nat -> [X -> X]], NEW t, NEW u, NEW k \in Nat,
         \A j \in 1..k : j \in t <=> j \in u
  PROVE  Folded(t, X, x0, step)[k] = Folded(u, X, x0, step)[k]
<1> DEFINE p == Folded(t, X, x0, step)
           q == Folded(u, X, x0, step)
           T == {j \in Nat : j <= k => p[j] = q[j]}
<1>1. /\ p[0] = x0 /\ \A j \in Nat : p[j+1] = IF j+1 \in t THEN step[j+1][p[j]] ELSE p[j]
      /\ q[0] = x0 /\ \A j \in Nat : q[j+1] = IF j+1 \in u THEN step[j+1][q[j]] ELSE q[j]
  BY FoldedIs
<1> HIDE DEF p, q
<1>2. 0 \in T
  BY <1>1
<1>3. ASSUME NEW j \in T PROVE j + 1 \in T
  <2> SUFFICES ASSUME j + 1 <= k PROVE p[j+1] = q[j+1]
    OBVIOUS
  <2>1. p[j] = q[j] /\ j + 1 \in 1..k
    OBVIOUS
  <2>2. j + 1 \in t <=> j + 1 \in u
    BY <2>1
  <2> QED
    BY <1>1, <2>1, <2>2
<1>4. T = Nat
  <2> HIDE DEF T
  <2> QED
    BY <1>2, <1>3, Induction DEF T
<1>5. p[k] = q[k]
  BY <1>4
<1> QED
  BY <1>5 DEF p, q

(* Nothing changes behind the last number of t.                            *)
LEMMA FoldedBeyond ==
  ASSUME NEW X, NEW x0 \in X, NEW step \in [Nat -> [X -> X]], NEW t, NEW k \in Nat, NEW m \in Nat,
         k <= m, \A j \in k+1 .. m : j \notin t
  PROVE  Folded(t, X, x0, step)[m] = Folded(t, X, x0, step)[k]
<1> DEFINE p == Folded(t, X, x0, step)
           T == {i \in Nat : k + i <= m => p[k+i] = p[k]}
<1>1. \A j \in Nat : p[j+1] = IF j+1 \in t THEN step[j+1][p[j]] ELSE p[j]
  BY FoldedIs
<1> HIDE DEF p
<1>2. 0 \in T
  OBVIOUS
<1>3. ASSUME NEW i \in T PROVE i + 1 \in T
  <2> SUFFICES ASSUME k + (i + 1) <= m PROVE p[k + (i+1)] = p[k]
    OBVIOUS
  <2>1. p[k+i] = p[k] /\ k + i \in Nat /\ (k + i) + 1 \in k+1 .. m /\ k + (i+1) = (k + i) + 1
    OBVIOUS
  <2>2. p[(k+i)+1] = p[k+i]
    BY <1>1, <2>1
  <2> QED
    BY <2>1, <2>2
<1>4. T = Nat
  <2> HIDE DEF T
  <2> QED
    BY <1>2, <1>3, Induction DEF T
<1>5. m - k \in T /\ k + (m - k) = m
  <2>1. m - k \in Nat /\ k + (m - k) = m
    OBVIOUS
  <2> HIDE DEF T
  <2> QED
    BY <1>4, <2>1
<1>6. p[m] = p[k]
  BY <1>5
<1> QED
  BY <1>6 DEF p

(* The recursive function in MapThenFoldSet.                               *)
FoldOf(m, x0, step, f) ==
  f = [t \in SUBSET (1..m) |-> IF t = {} THEN x0 ELSE step[Max(t)][f[t \ {Max(t)}]]]

(* The recursive function over sets by which FoldLeft is defined exists.   *)
LEMMA FoldExists ==
  ASSUME NEW X, NEW x0 \in X, NEW step \in [Nat -> [X -> X]], NEW m \in Nat
  PROVE  \E f \in [SUBSET (1..m) -> X] : FoldOf(m, x0, step, f)
<1> DEFINE P(t) == Folded(t, X, x0, step)
           f == [t \in SUBSET (1..m) |-> P(t)[m]]
<1>1. \A t : P(t) \in [Nat -> X] /\ P(t)[0] = x0
  BY FoldedIs
<1>2. f \in [SUBSET (1..m) -> X]
  BY <1>1
<1>3. ASSUME NEW t \in SUBSET (1..m), t = {} PROVE P(t)[m] = x0
  <2>1. P(t)[m] = P(t)[0]
    <3>1. \A j \in 0+1 .. m : j \notin t
      BY <1>3
    <3>2. 0 \in Nat /\ 0 <= m
      OBVIOUS
    <3> QED
      BY <3>1, <3>2, FoldedBeyond
  <2> QED
    BY <1>1, <2>1
<1>4. ASSUME NEW t \in SUBSET (1..m), t # {}
      PROVE  P(t)[m] = step[Max(t)][P(t \ {Max(t)})[m]]
  <2> DEFINE x == Max(t)
             u == t \ {x}
  <2>1. x \in t /\ x \in 1..m /\ \A y \in t : y <= x
    BY <1>4, MaxOf
  <2> HIDE DEF x
  <2>2. x - 1 \in Nat /\ (x - 1) + 1 = x /\ x \in Nat /\ x <= m /\ x - 1 <= m
    BY <2>1
  <2>3. \A j \in x+1 .. m : j \notin t
    BY <2>1
  <2>4. \A j \in (x-1)+1 .. m : j \notin u
    BY <2>1
  <2>5. \A j \in 1 .. x-1 : j \in t <=> j \in u
    BY <2>1
  <2>6. P(t)[m] = P(t)[x]
    BY <2>2, <2>3, FoldedBeyond
  <2>7. P(u)[m] = P(u)[x-1]
    BY <2>2, <2>4, FoldedBeyond
  <2>8. P(t)[x-1] = P(u)[x-1]
    BY <2>2, <2>5, FoldedAlike
  <2>9. P(t)[x] = step[x][P(t)[x-1]]
    <3>1. \A j \in Nat : P(t)[j+1] = IF j+1 \in t THEN step[j+1][P(t)[j]] ELSE P(t)[j]
      BY FoldedIs
    <3> QED
      BY <2>1, <2>2, <3>1
  <2> QED
    BY <2>6, <2>7, <2>8, <2>9 DEF x
<1>5. \A t \in SUBSET (1..m) : f[t] = IF t = {} THEN x0 ELSE step[Max(t)][f[t \ {Max(t)}]]
  <2> TAKE t \in SUBSET (1..m)
  <2>1. t \ {Max(t)} \in SUBSET (1..m)
    OBVIOUS
  <2>2. f[t] = P(t)[m] /\ f[t \ {Max(t)}] = P(t \ {Max(t)})[m]
    BY <2>1
  <2> HIDE DEF f, P
  <2> QED
    BY <1>3, <1>4, <2>2
<1>6. FoldOf(m, x0, step, f)
  <2>1. f = [t \in SUBSET (1..m) |-> f[t]]
    OBVIOUS
  <2> HIDE DEF f
  <2> QED
    BY <1>5, <2>1 DEF FoldOf
<1> QED
  BY <1>2, <1>6

(* The number that the digits of a count stand for.                        *)
ValueOf(s) == FoldLeft(LAMBDA k, c : 10 * k + Value(c), 0, s)

(* The values after each digit.                                            *)
Accumulates(s, p) == p[0] = 0 /\ \A j \in 0 .. Len(s)-1 : p[j+1] = 10 * p[j] + Value(s[j+1])

(* Value() finds the digit's place.                                        *)
LEMMA ValueOfDigit ==
  ASSUME NEW k \in 0..9
  PROVE  Value(Digit[k+1]) = k
<1>1. \A j \in 0..9 : Digit[j+1] = Digit[k+1] => j = k
  BY DEF Digit
<1> QED
  BY <1>1 DEF Value

(* The value of a decimal digit is below ten.                              *)
LEMMA DigitValues ==
  ASSUME NEW c \in DigitsOf(10)
  PROVE  Value(c) \in 0..9
<1>1. PICK k \in 1..10 : c = Digit[k]
  BY DEF DigitsOf
<1>2. k - 1 \in 0..9 /\ c = Digit[(k-1)+1]
  BY <1>1
<1> QED
  BY <1>2, ValueOfDigit

(* Reading digits from the left multiplies by ten and adds, digit by       *)
(* digit: FoldLeft is the loop.                                            *)
LEMMA ValueAccumulates ==
  ASSUME NEW s \in Seq(DigitsOf(10))
  PROVE  \E p \in [0..Len(s) -> Nat] : Accumulates(s, p) /\ ValueOf(s) = p[Len(s)]
<1> DEFINE m == Len(s)
           Val(j) == IF j \in 1..m THEN Value(s[j]) ELSE 0
           step == [j \in Nat |-> [v \in Nat |-> 10 * v + Val(j)]]
           Rec(f) == f = [t \in SUBSET DOMAIN s |-> IF t = {} THEN 0
                            ELSE 10 * f[t \ {Max(t)}] + Value(s[Max(t)])]
           iter == CHOOSE f : Rec(f)
<1>1. m \in Nat /\ DOMAIN s = 1..m
  OBVIOUS
<1>2. \A j : Val(j) \in Nat
  <2> TAKE j
  <2>1. j \in 1..m => s[j] \in DigitsOf(10)
    OBVIOUS
  <2> QED
    BY <2>1, DigitValues
<1>3. step \in [Nat -> [Nat -> Nat]]
  <2> HIDE DEF Val
  <2> QED
    BY <1>2
<1>4. PICK f \in [SUBSET (1..m) -> Nat] : FoldOf(m, 0, step, f)
  <2>1. 0 \in Nat
    OBVIOUS
  <2> HIDE DEF step, m
  <2> QED
    BY <1>1, <1>3, <2>1, FoldExists, Zenon
<1>5. ASSUME NEW t \in SUBSET (1..m), t # {}
      PROVE  step[Max(t)][f[t \ {Max(t)}]] = 10 * f[t \ {Max(t)}] + Value(s[Max(t)])
  <2>1. Max(t) \in 1..m /\ f[t \ {Max(t)}] \in Nat
    BY <1>1, <1>5, MaxOf
  <2>2. \A x \in 1..m, v \in Nat : step[x][v] = 10 * v + Value(s[x])
    BY <1>1
  <2> HIDE DEF step
  <2> QED
    BY <2>1, <2>2
<1>6. f = [t \in SUBSET (1..m) |-> IF t = {} THEN 0 ELSE 10 * f[t \ {Max(t)}] + Value(s[Max(t)])]
  <2> HIDE DEF step, m
  <2> QED
    BY <1>4, <1>5 DEF FoldOf
<1>7. Rec(iter)
  <2>1. Rec(f)
    BY <1>1, <1>6
  <2> HIDE DEF Rec
  <2> QED
    BY <2>1
<1>8. ValueOf(s) = iter[1..m]
  <2>1. ValueOf(s) = iter[DOMAIN s]
    BY DEF ValueOf, FoldLeft, MapThenFoldSet
  <2> QED
    BY <1>1, <2>1
<1>9. /\ iter[{}] = 0
      /\ \A t \in SUBSET (1..m) : t # {} => iter[t] = 10 * iter[t \ {Max(t)}] + Value(s[Max(t)])
  <2> HIDE DEF iter
  <2> QED
    BY <1>1, <1>7
<1> HIDE DEF iter
<1> DEFINE p == [j \in 0..m |-> iter[1..j]]
<1>10. p[0] = 0
  <2>1. 1..0 = {}
    OBVIOUS
  <2> QED
    BY <1>1, <1>9, <2>1
<1>11. ASSUME NEW j \in 0 .. m-1 PROVE p[j+1] = 10 * p[j] + Value(s[j+1])
  <2>1. 1 .. j+1 \in SUBSET (1..m) /\ 1 .. j+1 # {} /\ j + 1 \in 1 .. j+1
    BY <1>1
  <2>2. Max(1 .. j+1) \in 1 .. j+1 /\ j + 1 <= Max(1 .. j+1)
    BY <1>1, <2>1, MaxOf
  <2>3. Max(1 .. j+1) = j + 1
    BY <2>2
  <2>4. (1 .. j+1) \ {j + 1} = 1..j
    OBVIOUS
  <2>5. iter[1 .. j+1] = 10 * iter[1..j] + Value(s[j+1])
    BY <1>9, <2>1, <2>3, <2>4
  <2> QED
    BY <1>1, <2>5
<1> DEFINE T == {j \in Nat : j <= m => p[j] \in Nat}
<1>12. T = Nat
  <2>1. 0 \in T
    BY <1>10
  <2>2. ASSUME NEW j \in T PROVE j + 1 \in T
    <3> SUFFICES ASSUME j + 1 <= m PROVE p[j+1] \in Nat
      OBVIOUS
    <3>1. j \in 0 .. m-1 /\ p[j] \in Nat /\ j + 1 \in 1..m
      BY <1>1
    <3>2. Value(s[j+1]) \in Nat
      <4>1. Val(j+1) = Value(s[j+1])
        BY <3>1
      <4> HIDE DEF Val
      <4> QED
        BY <1>2, <4>1
    <3>3. p[j+1] = 10 * p[j] + Value(s[j+1])
      BY <1>11, <3>1
    <3> HIDE DEF p
    <3> QED
      BY <3>1, <3>2, <3>3
  <2> HIDE DEF T
  <2> QED
    BY <2>1, <2>2, Induction DEF T
<1>13. p \in [0..m -> Nat]
  <2>1. ASSUME NEW j \in 0..m PROVE iter[1..j] \in Nat
    <3>1. j \in Nat /\ j <= m
      BY <1>1
    <3>2. j \in T
      <4> HIDE DEF T
      <4> QED
        BY <1>12, <3>1
    <3> QED
      BY <3>1, <3>2
  <2> QED
    BY <2>1
<1>14. p[m] = ValueOf(s)
  BY <1>1, <1>8
<1>15. Accumulates(s, p)
  <2> HIDE DEF p
  <2> QED
    BY <1>10, <1>11 DEF Accumulates
<1> QED
  BY <1>13, <1>14, <1>15

(* Only one run of that loop exists.                                       *)
LEMMA AccumulatesOnce ==
  ASSUME NEW s, Len(s) \in Nat, NEW p, NEW q, Accumulates(s, p), Accumulates(s, q)
  PROVE  p[Len(s)] = q[Len(s)]
<1> DEFINE T == {j \in Nat : j <= Len(s) => p[j] = q[j]}
<1>1. 0 \in T
  BY DEF Accumulates
<1>2. ASSUME NEW j \in T PROVE j + 1 \in T
  <2> SUFFICES ASSUME j + 1 <= Len(s) PROVE p[j+1] = q[j+1]
    OBVIOUS
  <2>1. j \in 0 .. Len(s)-1 /\ p[j] = q[j]
    OBVIOUS
  <2> QED
    BY <2>1 DEF Accumulates
<1>3. T = Nat
  <2> HIDE DEF T
  <2> QED
    BY <1>1, <1>2, Induction DEF T
<1> QED
  BY <1>3

(* A numeral read back is its number.                                      *)
LEMMA ValueOfWritten ==
  ASSUME NEW n \in Nat
  PROVE  ValueOf(Written(n, 10)) = n
<1> DEFINE T == {k \in Nat : ValueOf(Written(k, 10)) = k}
<1>0. \A k \in Nat : Written(k, 10) \in Seq(DigitsOf(10))
  BY WrittenDigits
<1>1. ASSUME NEW k \in Nat, \A m \in 0 .. k-1 : m \in T PROVE ValueOf(Written(k, 10)) = k
  <2>1. PICK p \in [0..Len(Written(k, 10)) -> Nat] :
               Accumulates(Written(k, 10), p) /\ ValueOf(Written(k, 10)) = p[Len(Written(k, 10))]
    BY <1>0, ValueAccumulates
  <2>2. CASE k < 10
    <3>1. Written(k, 10) = <<Digit[k+1]>>
      BY <2>2, WrittenSmall
    <3>2. Value(Digit[k+1]) = k
      BY <2>2, ValueOfDigit
    <3> DEFINE w == Written(k, 10)
    <3>3. Len(w) = 1 /\ w[1] = Digit[k+1]
      BY <3>1
    <3> HIDE DEF w
    <3>4. p[0] = 0 /\ p[0+1] = 10 * p[0] + Value(w[0+1])
      BY <2>1, <3>3 DEF Accumulates, w
    <3>5. ValueOf(w) = p[1] /\ p[1] = k
      <4>1. ValueOf(w) = p[Len(w)]
        BY <2>1 DEF w
      <4> QED
        BY <3>2, <3>3, <3>4, <4>1
    <3> QED
      BY <3>5 DEF w
  <2>3. CASE ~(k < 10)
    <3> DEFINE w == Written(k \div 10, 10)
               c == LastDigit(k, 10)
    <3>1. k \div 10 \in 0 .. k-1 /\ (k % 10) \in 0..9 /\ k = 10 * (k \div 10) + (k % 10)
      BY <2>3
    <3>2. Written(k, 10) = Append(w, c)
      BY <2>3, WrittenLarge
    <3>3. ValueOf(w) = k \div 10
      BY <1>1, <3>1
    <3>4. Value(c) = k % 10
      BY <3>1, ValueOfDigit DEF LastDigit
    <3>5. w \in Seq(DigitsOf(10))
      BY <1>0, <3>1
    <3>6. PICK q \in [0..Len(w) -> Nat] : Accumulates(w, q) /\ ValueOf(w) = q[Len(w)]
      BY <3>5, ValueAccumulates
    <3> HIDE DEF w, c
    <3>7. /\ Len(Append(w, c)) = Len(w) + 1 /\ Len(w) \in Nat
          /\ Append(w, c)[Len(w)+1] = c /\ \A j \in 1..Len(w) : Append(w, c)[j] = w[j]
      BY <3>5
    <3>8. Accumulates(w, p)
      <4>1. \A j \in 0 .. Len(w)-1 : j \in 0 .. Len(Append(w, c))-1 /\ j + 1 \in 1..Len(w)
        BY <3>7
      <4> QED
        BY <2>1, <3>2, <3>7, <4>1 DEF Accumulates
    <3>9. p[Len(w)] = k \div 10
      BY <3>3, <3>6, <3>7, <3>8, AccumulatesOnce
    <3>10. p[Len(w)+1] = 10 * p[Len(w)] + Value(c)
      <4>1. Len(w) \in 0 .. Len(Append(w, c))-1
        BY <3>7
      <4> QED
        BY <2>1, <3>2, <3>7, <4>1 DEF Accumulates
    <3> QED
      BY <2>1, <3>1, <3>2, <3>4, <3>7, <3>9, <3>10
  <2> QED
    BY <2>2, <2>3
<1>2. T = Nat
  <2>1. T \in SUBSET Nat /\ \A k \in Nat : (\A m \in 0 .. k-1 : m \in T) => k \in T
    BY <1>1
  <2> HIDE DEF T
  <2> QED
    BY <2>1, StrongInduction
<1> QED
  BY <1>2
-----------------------------------------------------------------------------
(* Texts put together from pieces.                                         *)
LEMMA FlattenSteps ==
  ASSUME NEW X, NEW t \in Seq(Seq(X))
  PROVE  \E p \in [0..Len(t) -> Seq(X)] :
           /\ p[0] = <<>> /\ \A i \in 1..Len(t) : p[i] = p[i-1] \o t[i]
           /\ p[Len(t)] = FlattenSeq(t)
<1> DEFINE n == Len(t)
           step == [j \in Nat |-> [v \in Seq(X) |-> IF j \in 1..n THEN v \o t[j] ELSE v]]
           Rec(f) == f = [i \in 1..n |-> IF i = 1 THEN t[i] ELSE f[i-1] \o t[i]]
           flatten == CHOOSE f : Rec(f)
<1>1. n \in Nat /\ \A j \in 1..n : t[j] \in Seq(X)
  OBVIOUS
<1>2. step \in [Nat -> [Seq(X) -> Seq(X)]]
  <2> HIDE DEF n
  <2>1. ASSUME NEW j \in Nat, NEW v \in Seq(X)
        PROVE  (IF j \in 1..n THEN v \o t[j] ELSE v) \in Seq(X)
    <3>1. j \in 1..n => v \o t[j] \in Seq(X)
      BY <1>1
    <3> QED
      BY <3>1
  <2> QED
    BY <2>1
<1>3. PICK q : Follows(q, Seq(X), <<>>, step)
  <2>1. <<>> \in Seq(X)
    OBVIOUS
  <2> HIDE DEF step
  <2> QED
    BY <1>2, <2>1, Recursion, Zenon
<1>4. q \in [Nat -> Seq(X)] /\ q[0] = <<>>
  BY <1>3 DEF Follows
<1>5. ASSUME NEW i \in 1..n PROVE q[i] = q[i-1] \o t[i]
  <2>1. i - 1 \in Nat /\ (i-1) + 1 = i /\ i \in Nat
    BY <1>1
  <2>2. q[(i-1)+1] = step[(i-1)+1][q[i-1]]
    BY <1>3, <2>1 DEF Follows
  <2>3. q[i-1] \in Seq(X)
    BY <1>4, <2>1
  <2>4. step[i][q[i-1]] = q[i-1] \o t[i]
    <3> HIDE DEF n
    <3> QED
      BY <2>1, <2>3
  <2> HIDE DEF step
  <2> QED
    BY <2>1, <2>2, <2>4
<1> DEFINE p == [i \in 0..n |-> q[i]]
<1>6. p \in [0..n -> Seq(X)] /\ p[0] = <<>> /\ \A i \in 1..n : p[i] = p[i-1] \o t[i]
  <2>1. \A i \in 0..n : i \in Nat /\ p[i] = q[i]
    BY <1>1
  <2>2. \A i \in 1..n : i \in 0..n /\ i - 1 \in 0..n
    BY <1>1
  <2>3. 0 \in 0..n
    BY <1>1
  <2> HIDE DEF n
  <2> QED
    BY <1>4, <1>5, <2>1, <2>2, <2>3
<1>7. n = 0 => p[n] = FlattenSeq(t)
  <2> SUFFICES ASSUME n = 0 PROVE p[n] = FlattenSeq(t)
    OBVIOUS
  <2>1. FlattenSeq(t) = t /\ t = <<>>
    BY DEF FlattenSeq
  <2> QED
    BY <1>6, <2>1
<1>8. n # 0 => p[n] = FlattenSeq(t)
  <2> SUFFICES ASSUME n # 0 PROVE p[n] = FlattenSeq(t)
    OBVIOUS
  <2> DEFINE f == [i \in 1..n |-> p[i]]
  <2>1. p[1] = t[1]
    <3>1. 1 \in 1..n /\ 1 - 1 = 0
      BY <1>1
    <3> HIDE DEF p, n
    <3>2. p[1] = p[1-1] \o t[1] /\ t[1] \in Seq(X)
      BY <1>1, <1>6, <3>1
    <3>3. p[1] = <<>> \o t[1]
      BY <1>6, <3>1, <3>2
    <3> QED
      BY <3>2, <3>3
  <2>2. ASSUME NEW i \in 1..n PROVE p[i] = IF i = 1 THEN t[i] ELSE f[i-1] \o t[i]
    <3>1. i # 1 => i - 1 \in 1..n
      BY <1>1
    <3>2. i # 1 => f[i-1] = p[i-1]
      BY <3>1
    <3> HIDE DEF f, p
    <3> QED
      BY <1>6, <2>1, <3>2
  <2>3. Rec(f)
    <3> HIDE DEF p, n
    <3> QED
      BY <2>2
  <2>4. Rec(flatten)
    <3> HIDE DEF Rec, f
    <3> QED
      BY <2>3
  <2>5. FlattenSeq(t) = flatten[n]
    BY DEF FlattenSeq
  <2> HIDE DEF flatten, p
  <2> DEFINE T == {j \in Nat : j \in 1..n => flatten[j] = p[j]}
  <2>6. 0 \in T
    OBVIOUS
  <2>7. ASSUME NEW j \in T PROVE j + 1 \in T
    <3> SUFFICES ASSUME j + 1 \in 1..n PROVE flatten[j+1] = p[j+1]
      OBVIOUS
    <3>1. flatten[j+1] = IF j + 1 = 1 THEN t[j+1] ELSE flatten[(j+1)-1] \o t[j+1]
      BY <2>4
    <3>2. CASE j = 0
      BY <2>1, <3>1, <3>2
    <3>3. CASE j # 0
      <4>1. flatten[j] = p[j] /\ (j+1) - 1 = j
        BY <1>1, <3>3
      <4>2. p[j+1] = p[(j+1)-1] \o t[j+1]
        BY <1>6
      <4>3. j + 1 # 1
        BY <3>3
      <4>4. flatten[j+1] = flatten[(j+1)-1] \o t[j+1]
        BY <3>1, <4>3
      <4> HIDE DEF T
      <4> QED
        BY <4>1, <4>2, <4>4
    <3> QED
      BY <3>2, <3>3
  <2>8. T = Nat
    <3> HIDE DEF T
    <3> QED
      BY <2>6, <2>7, Induction DEF T
  <2>9. flatten[n] = p[n]
    <3>1. n \in T /\ n \in 1..n
      BY <1>1, <2>8
    <3> QED
      BY <3>1
  <2> QED
    BY <2>5, <2>9
<1> HIDE DEF p
<1> QED
  BY <1>6, <1>7, <1>8

(* The first i pieces.                                                     *)
Pieces(t, i) == FlattenSeq(SubSeq(t, 1, i))

(* Each piece is appended to those before it.                              *)
LEMMA PiecesAre ==
  ASSUME NEW X, NEW t \in Seq(Seq(X))
  PROVE  /\ Pieces(t, 0) = <<>> /\ Pieces(t, Len(t)) = FlattenSeq(t)
         /\ \A i \in 0..Len(t) : Pieces(t, i) \in Seq(X)
         /\ \A i \in 1..Len(t) : Pieces(t, i) = Pieces(t, i-1) \o t[i]
<1> DEFINE n == Len(t)
<1>1. PICK p \in [0..n -> Seq(X)] :
        /\ p[0] = <<>> /\ \A i \in 1..n : p[i] = p[i-1] \o t[i]
        /\ p[n] = FlattenSeq(t)
  BY FlattenSteps
<1>2. n \in Nat
  OBVIOUS
<1>3. ASSUME NEW i \in 0..n PROVE Pieces(t, i) = p[i]
  <2> DEFINE u == SubSeq(t, 1, i)
  <2>1. u \in Seq(Seq(X)) /\ Len(u) = i /\ \A j \in 1..i : u[j] = t[j]
    BY <1>2
  <2> HIDE DEF u
  <2>2. PICK q \in [0..Len(u) -> Seq(X)] :
          /\ q[0] = <<>> /\ \A j \in 1..Len(u) : q[j] = q[j-1] \o u[j]
          /\ q[Len(u)] = FlattenSeq(u)
    BY <2>1, FlattenSteps
  <2> DEFINE T == {j \in Nat : j <= i => p[j] = q[j]}
  <2>3. 0 \in T
    BY <1>1, <2>2
  <2>4. ASSUME NEW j \in T PROVE j + 1 \in T
    <3> SUFFICES ASSUME j + 1 <= i PROVE p[j+1] = q[j+1]
      OBVIOUS
    <3>1. j + 1 \in 1..i /\ j + 1 \in 1..n /\ (j+1) - 1 = j /\ p[j] = q[j]
      BY <1>2
    <3>2. p[j+1] = p[(j+1)-1] \o t[j+1]
      BY <1>1, <3>1
    <3>3. q[j+1] = q[(j+1)-1] \o u[j+1]
      BY <2>1, <2>2, <3>1
    <3> QED
      BY <2>1, <3>1, <3>2, <3>3
  <2>5. T = Nat
    <3> HIDE DEF T
    <3> QED
      BY <2>3, <2>4, Induction DEF T
  <2>6. i \in Nat
    BY <1>2
  <2>7. p[i] = q[i]
    <3>1. i \in T
      BY <2>5, <2>6
    <3> QED
      BY <2>6, <3>1
  <2> QED
    BY <2>1, <2>2, <2>7 DEF Pieces, u
<1> HIDE DEF n
<1>4. /\ 0 \in 0..n /\ n \in 0..n
      /\ \A i \in 1..n : i \in 0..n /\ i - 1 \in 0..n
  BY <1>2
<1>5. SubSeq(t, 1, n) = t
  BY DEF n
<1>6. Pieces(t, n) = FlattenSeq(t)
  BY <1>5 DEF Pieces
<1> QED
  BY <1>1, <1>3, <1>4, <1>6 DEF n

(* Where a piece is in the whole.                                          *)
LEMMA PieceAt ==
  ASSUME NEW X, NEW t \in Seq(Seq(X)), NEW i \in 1..Len(t)
  PROVE  LET whole == FlattenSeq(t)
             before == Len(Pieces(t, i-1))
         IN  /\ whole \in Seq(X) /\ before \in Nat
             /\ Len(Pieces(t, i)) = before + Len(t[i]) /\ Len(Pieces(t, i)) <= Len(whole)
             /\ \A j \in 1..Len(t[i]) : whole[before + j] = t[i][j]
<1> DEFINE n == Len(t)
           P(k) == Pieces(t, k)
<1>1. /\ P(n) = FlattenSeq(t) /\ n \in Nat /\ i \in 1..n
      /\ \A k \in 0..n : P(k) \in Seq(X)
      /\ \A k \in 1..n : P(k) = P(k-1) \o t[k] /\ t[k] \in Seq(X)
  <2>1. n \in Nat /\ i \in 1..n /\ \A k \in 1..n : t[k] \in Seq(X)
    OBVIOUS
  <2>2. /\ Pieces(t, Len(t)) = FlattenSeq(t)
        /\ \A k \in 0..Len(t) : Pieces(t, k) \in Seq(X)
        /\ \A k \in 1..Len(t) : Pieces(t, k) = Pieces(t, k-1) \o t[k]
    BY PiecesAre
  <2> QED
    BY <2>1, <2>2
<1> HIDE DEF n, P
<1> DEFINE T == {k \in Nat : i + k <= n =>
                   /\ Len(P(i)) <= Len(P(i+k))
                   /\ \A j \in 1..Len(P(i)) : P(i+k)[j] = P(i)[j]}
<1>2. 0 \in T
  <2>1. i \in 0..n /\ i + 0 = i
    BY <1>1
  <2>2. Len(P(i)) \in Nat
    BY <1>1, <2>1
  <2> QED
    BY <2>1, <2>2
<1>3. ASSUME NEW k \in T PROVE k + 1 \in T
  <2> SUFFICES ASSUME i + (k+1) <= n
               PROVE  /\ Len(P(i)) <= Len(P(i+(k+1)))
                      /\ \A j \in 1..Len(P(i)) : P(i+(k+1))[j] = P(i)[j]
    OBVIOUS
  <2>1. i + k \in 0..n /\ i + (k+1) \in 1..n /\ (i + (k+1)) - 1 = i + k /\ i \in 0..n
    BY <1>1
  <2>2. P(i+k) \in Seq(X) /\ t[i+(k+1)] \in Seq(X) /\ P(i) \in Seq(X)
    BY <1>1, <2>1
  <2>3. P(i+(k+1)) = P(i+k) \o t[i+(k+1)]
    BY <1>1, <2>1
  <2>4. Len(P(i)) <= Len(P(i+k)) /\ \A j \in 1..Len(P(i)) : P(i+k)[j] = P(i)[j]
    BY <1>1, <2>1
  <2> DEFINE v == P(i)
             w == P(i+k)
             r == t[i+(k+1)]
  <2>5. /\ v \in Seq(X) /\ w \in Seq(X) /\ r \in Seq(X) /\ P(i+(k+1)) = w \o r
        /\ Len(v) <= Len(w) /\ \A j \in 1..Len(v) : w[j] = v[j]
    BY <2>2, <2>3, <2>4
  <2> HIDE DEF T, v, w, r
  <2>6. Len(v) <= Len(w \o r) /\ \A j \in 1..Len(v) : (w \o r)[j] = v[j]
    BY <2>5
  <2> QED
    BY <2>5, <2>6 DEF v
<1>4. T = Nat
  <2> HIDE DEF T
  <2> QED
    BY <1>2, <1>3, Induction DEF T
<1>5. n - i \in T /\ i + (n - i) = n
  <2>1. n - i \in Nat /\ i + (n - i) = n
    BY <1>1
  <2> HIDE DEF T
  <2> QED
    BY <1>4, <2>1
<1>6. Len(P(i)) <= Len(P(n)) /\ \A j \in 1..Len(P(i)) : P(n)[j] = P(i)[j]
  BY <1>1, <1>5
<1>7. /\ i \in 0..n /\ i - 1 \in 0..n /\ n \in 0..n
      /\ P(i) = P(i-1) \o t[i] /\ t[i] \in Seq(X) /\ P(i-1) \in Seq(X)
  <2>1. i \in 0..n /\ i - 1 \in 0..n /\ n \in 0..n
    BY <1>1
  <2> QED
    BY <1>1, <2>1
<1>8. /\ Len(P(i)) = Len(P(i-1)) + Len(t[i]) /\ Len(P(i-1)) \in Nat /\ Len(t[i]) \in Nat
      /\ \A j \in 1..Len(t[i]) : P(i)[Len(P(i-1)) + j] = t[i][j]
  BY <1>7
<1>9. \A j \in 1..Len(t[i]) : P(n)[Len(P(i-1)) + j] = t[i][j]
  <2> TAKE j \in 1..Len(t[i])
  <2>1. Len(P(i-1)) + j \in 1..Len(P(i))
    BY <1>8
  <2> QED
    BY <1>6, <1>8, <2>1
<1> QED
  BY <1>1, <1>6, <1>7, <1>8, <1>9 DEF P
-----------------------------------------------------------------------------
(* A directive is read part by part: flag, width, point, precision, longs. *)
(* Read(d, k) is how much of it has been read after k of these parts,      *)
(* Parsed(d, k) what is known then, Taken(d, k) how many arguments are     *)
(* gone.                                                                   *)
Given(d, k, pre) ==
  IF k = -1 THEN <<>> ELSE pre \o IF d.star THEN <<"*">> ELSE Numeral(k, 10)
FlagPart(d) == IF d.flag = NoFlag THEN <<>> ELSE <<d.flag>>
ConvPart(d) == IF d.conv = "cut" THEN <<>> ELSE <<d.conv>>

Has(d, k) ==
  CASE k = 1 -> d.flag # NoFlag
    [] k = 2 -> d.width # -1
    [] k = 3 -> d.prec # -1
    [] k = 4 -> d.prec # -1
    [] k = 5 -> d.longs = 1

(* The lengths of the parts.                                               *)
FlagLen(d) == IF d.flag = NoFlag THEN 0 ELSE 1
DotLen(d)  == IF d.prec = -1 THEN 0 ELSE 1
ConvLen(d) == IF d.conv = "cut" THEN 0 ELSE 1
Starred(d, k) == IF d.star /\ k # -1 THEN 1 ELSE 0

Read(d, k) ==
  1 + (IF k >= 1 THEN FlagLen(d) ELSE 0)
    + (IF k >= 2 THEN Len(Given(d, d.width, <<>>)) ELSE 0)
    + (IF k >= 3 THEN DotLen(d) ELSE 0)
    + (IF k >= 4 THEN Len(Given(d, d.prec, <<>>)) ELSE 0)
    + (IF k >= 5 THEN d.longs ELSE 0)

(* The options as far as they are known.                                   *)
Known(padc, width, precision, lflag, altflag) ==
  [padc |-> padc, width |-> width, precision |-> precision, lflag |-> lflag,
   altflag |-> altflag]
PadOf(d)   == IF d.flag \in {"-", "0"} THEN d.flag ELSE Blank
AltOf(d)   == IF d.flag = "#" THEN 1 ELSE 0
WidthOf(d) == IF d.width # -1 THEN d.width ELSE IF d.prec # -1 THEN 0 ELSE -1

Parsed(d, k) ==
  CASE k = 0 -> Fresh
    [] k = 1 -> Known(PadOf(d), -1, -1, 0, AltOf(d))
    [] k = 2 -> Known(PadOf(d), d.width, -1, 0, AltOf(d))
    [] k = 3 -> Known(PadOf(d), WidthOf(d), -1, 0, AltOf(d))
    [] k = 4 -> Known(PadOf(d), WidthOf(d), d.prec, 0, AltOf(d))
    [] k = 5 -> Known(PadOf(d), WidthOf(d), d.prec, d.longs, AltOf(d))

Taken(d, k) ==
  (IF k >= 2 THEN Starred(d, d.width) ELSE 0)
    + (IF k >= 4 THEN Starred(d, d.prec) ELSE 0)

Formats  == [i \in 1..Len(asked) |-> Render(asked[i])]
ArgLists == [i \in 1..Len(asked) |-> Arguments(asked[i])]
Texts    == [i \in 1..Len(asked) |-> Expected(asked[i])]

(* Where the i-th directive ends in the format and in the argument list.   *)
EndOf(i)   == Len(Pieces(Formats, i))
TakenBy(i) == Len(Pieces(ArgLists, i))
ArgsFrom(q) == SubSeq(FlattenSeq(ArgLists), q + 1, Len(FlattenSeq(ArgLists)))

(* The buffer when w is the text so far.                                   *)
Printed(w) == [buf |-> SubSeq(w, 1, Least(size - 1, Len(w))), cnt |-> Len(w)]

(* A number with "-" is padded wrongly; without one the text is right.     *)
Right == "-" \notin NumFlags
Shows(w) == Right => b = Printed(w)

(* Between directives, within one, and in an escape printed literally.     *)
Between(i) ==
  /\ at = "text" /\ pos = EndOf(i) + 1
  /\ args = ArgsFrom(TakenBy(i))
  /\ Shows(Pieces(Texts, i))

Within(i, k) ==
  /\ at = "escape" /\ asked[i].conv # "text"
  /\ pos = EndOf(i-1) + Read(asked[i], k) + 1
  /\ e = Parsed(asked[i], k)
  /\ args = ArgsFrom(TakenBy(i-1) + Taken(asked[i], k))
  /\ Shows(Pieces(Texts, i-1))

Literally(i, k) ==
  /\ at = "text" /\ asked[i].conv \in {"!", "cut"}
  /\ pos = EndOf(i-1) + k + 1
  /\ args = ArgsFrom(TakenBy(i))
  /\ Shows(Pieces(Texts, i-1) \o SubSeq(Render(asked[i]), 1, k))

(* Everything is printed and every argument taken.                         *)
Finished ==
  /\ at = "done"
  /\ pos \in 1..Len(fmt)
  /\ Shows(FlattenSeq(Texts))
  /\ args = <<>>

(* The format and its arguments are those of the directives.               *)
AskedOK ==
  /\ Len(asked) \in 0..MaxDirectives /\ asked \in Seq(Directive)
  /\ \A i \in 1..Len(asked) : asked[i].conv = "cut" => i = Len(asked)
  /\ fmt = Append(FlattenSeq(Formats), "NUL")
  /\ size \in Sizes

(* Options in range: no count overflows a long.                            *)
OptionsOK(r) ==
  /\ r.width \in -1 .. Power(2, LongBits)-1 /\ r.precision \in -1 .. Power(2, LongBits)-1
  /\ r.lflag \in Nat /\ r.altflag \in 0..1 /\ r.padc \in {Blank, "0", "-"}
EOK == OptionsOK(e)

(* What can be in the buffer.                                              *)
Txt == {Digit[k+1] : k \in Nat}
       \cup {"(", "n", "u", "l", ")", "x", "^", "y", "?", "%", "!", "-", "#", "*", ".",
             "d", "s", "p", "e", "c", "o", "0", "X", "error", "message", Blank}

BufferOK == b.buf \in Seq(Txt) /\ b.cnt \in Nat /\ (size = 0 \/ Len(b.buf) < size)

(* -E_INVAL: a buffer of no size.                                          *)
Refused == size = 0 /\ at = "done" /\ pos = 1 /\ b = [buf |-> <<>>, cnt |-> 0]

(* The reading is at some place of some directive.                         *)
Located ==
  \/ Finished
  \/ \E i \in 0..Len(asked) : Between(i)
  \/ \E i \in 1..Len(asked), k \in 0..5 : Within(i, k)
  \/ \E i \in 1..Len(asked) : \E k \in 1..Len(Render(asked[i])) : Literally(i, k)

(* The inductive invariant: the format is read directive by directive, and *)
(* at every place the options, the arguments still there and the text so   *)
(* far are just those the directives up to it call for.                    *)
FormatInv ==
  /\ AskedOK /\ EOK /\ BufferOK
  /\ Refused \/ (size > 0 /\ Located)
-----------------------------------------------------------------------------
(* One directive.                                                          *)
Plain == {"text", "o", "%"}
Takes == {"d", "u", "x", "s", "p", "e", "c"}

(* No flag and blank differ from the flags.                                *)
LEMMA Literals ==
  /\ NoFlag \notin {"0", "-", "#"}
  /\ Blank \notin {"0", "-", "#"}
BY Zenon DEF NoFlag, Blank

(* What the fields of a directive can be, conversion by conversion.        *)
LEMMA DirectiveIs ==
  ASSUME PrintFmtAssumption, NEW d \in Directive
  PROVE  /\ d.conv \in Plain \cup Takes \cup {"!", "cut"}
         /\ d.flag \in {NoFlag, "0", "-", "#"} /\ d.star \in BOOLEAN
         /\ d.width \in WidthGiven /\ d.prec \in {-1, 2} /\ d.longs \in {0, 1}
         /\ d.conv # "s" => d.prec = -1 /\ d.flag # "#"
         /\ d.conv \in {"s", "p", "e", "c"} \cup Plain => d.longs = 0
         /\ d.conv = "s" => d.flag \in {NoFlag, "-", "#"} /\ d.arg \in Strings
         /\ d.conv \in {"d", "u", "x"} => d.flag \in NumFlags
         /\ d.conv \in {"d", "u", "x", "p", "e"} => d.arg \in IntArgs
         /\ d.conv = "c" => d.arg = "x"
         /\ d.conv \in {"p", "e", "c"} \cup Plain => d.flag = NoFlag /\ d.width = -1 /\ d.star = FALSE
         /\ d.conv \in {"!", "cut"} => d.flag \in {NoFlag, "0"}
<1> USE DEF Plain, Takes
<1>0. 0..1 = {0, 1} /\ NumFlags \subseteq {NoFlag, "0", "-"}
  <2>1. 0..1 = {0, 1}
    OBVIOUS
  <2>2. NumFlags \subseteq {NoFlag, "0", "-"}
    BY Zenon DEF PrintFmtAssumption
  <2> QED
    BY <2>1, <2>2, Zenon
<1>1. CASE d \in D({"d", "u", "x"}, NumFlags, WidthGiven, {-1}, 0..1, IntArgs, BOOLEAN)
  <2>1. /\ d.conv \in {"d", "u", "x"} /\ d.flag \in NumFlags /\ d.width \in WidthGiven
        /\ d.prec = -1 /\ d.longs \in 0..1 /\ d.arg \in IntArgs /\ d.star \in BOOLEAN
    BY <1>1 DEF D
  <2>2. d.flag \in {NoFlag, "0", "-"} /\ d.longs \in {0, 1}
    BY <1>0, <2>1, Zenon
  <2> QED
    BY <2>1, <2>2, Literals
<1>2. CASE d \in D({"s"}, {NoFlag, "-", "#"}, WidthGiven, {-1, 2}, {0}, Strings, BOOLEAN)
  BY <1>2, Literals DEF D
<1>3. CASE d \in D({"p"}, {NoFlag}, {-1}, {-1}, {0}, IntArgs, {FALSE})
  BY <1>3, Literals DEF D, WidthGiven
<1>4. CASE d \in D({"e"}, {NoFlag}, {-1}, {-1}, {0}, {a \in IntArgs : ~INT_MIN(a)}, {FALSE})
  BY <1>4, Literals DEF D, WidthGiven
<1>5. CASE d \in D({"c"}, {NoFlag}, {-1}, {-1}, {0}, {"x"}, {FALSE})
  BY <1>5, Literals DEF D, WidthGiven
<1>6. CASE d \in D({"!", "cut"}, {NoFlag, "0"}, WidthGiven, {-1}, 0..1, {NULL}, BOOLEAN)
  <2>1. /\ d.conv \in {"!", "cut"} /\ d.flag \in {NoFlag, "0"} /\ d.width \in WidthGiven
        /\ d.prec = -1 /\ d.longs \in 0..1 /\ d.star \in BOOLEAN
    BY <1>6 DEF D
  <2>2. d.longs \in {0, 1}
    BY <1>0, <2>1, Zenon
  <2> QED
    BY <2>1, <2>2, Literals
<1>7. CASE d \in D({"o", "%", "text"}, {NoFlag}, {-1}, {-1}, {0}, {NULL}, {FALSE})
  BY <1>7, Literals DEF D, WidthGiven
<1> QED
  BY <1>1, <1>2, <1>3, <1>4, <1>5, <1>6, <1>7 DEF Directive

(* The characters behind the "%".                                          *)
Inner == {"0", "1", "2", "3", "4", "5", "6", "7", "8", "9", "-", "#", "*", ".", "l",
          "d", "u", "x", "s", "p", "e", "c", "o", "!"}
Chars == Inner \cup {"%"}

(* The digits as characters; no count begins with a zero.                  *)
LEMMA DigitChars ==
  /\ DigitsOf(10) = {"0", "1", "2", "3", "4", "5", "6", "7", "8", "9"}
  /\ {Digit[k] : k \in 2..10} = {"1", "2", "3", "4", "5", "6", "7", "8", "9"}
BY DEF DigitsOf, Digit

(* A width or a precision in the format.                                   *)
Amount(d, k) == IF d.star THEN <<"*">> ELSE Written(k, 10)

(* A width or precision, written as digits or as a star, means the number  *)
(* it was written from.                                                    *)
LEMMA AmountIs ==
  ASSUME PrintFmtAssumption, NEW d, d.star \in BOOLEAN, NEW k \in Widths \cup {2}
  PROVE  /\ k \in 1 .. Power(2, LongBits) - 1
         /\ (IF d.star THEN <<"*">> ELSE Numeral(k, 10)) = Amount(d, k)
         /\ Amount(d, k) \in Seq(Inner) /\ Len(Amount(d, k)) > 0
         /\ d.star => Amount(d, k) = <<"*">>
         /\ ~d.star => /\ Amount(d, k) \in Seq(DigitsOf(10)) /\ ValueOf(Amount(d, k)) = k
                       /\ Amount(d, k)[1] \in {Digit[j] : j \in 2..10}
<1>1. k \in 1 .. Power(2, LongBits) - 1
  <2>1. IntBits \in Nat \ {0} /\ LongBits \in Nat /\ LongBits > IntBits
    BY DEF PrintFmtAssumption
  <2>2. 2 \in {2, 10, 16} /\ LongBits \in Nat /\ 2 <= LongBits
    BY <2>1
  <2>3. LongBits < Power(2, LongBits)
    BY <2>2, PowersGrow
  <2>4. 2 \in Nat \ {0} /\ LongBits \in Nat
    BY <2>2
  <2>5. Power(2, LongBits) \in Nat
    BY <2>4, Powers
  <2>6. k \in 1 .. Power(2, LongBits) - 1 \/ k = 2
    BY DEF PrintFmtAssumption
  <2> HIDE DEF PrintFmtAssumption
  <2> QED
    BY <2>2, <2>3, <2>5, <2>6
<1>2. k \in Nat /\ k > 0 /\ k < Power(2, LongBits)
  <2>1. Power(2, LongBits) \in Nat
    <3>1. 2 \in Nat \ {0}
      OBVIOUS
    <3>2. LongBits \in Nat
      BY DEF PrintFmtAssumption
    <3> QED
      BY <3>1, <3>2, Powers
  <2> QED
    BY <1>1, <2>1
<1>3. Numeral(k, 10) = Written(k, 10)
  BY <1>2, NumeralIsWritten
<1>4. /\ Written(k, 10) \in Seq(DigitsOf(10)) /\ Len(Written(k, 10)) > 0
      /\ Written(k, 10)[1] \in {Digit[j] : j \in 2..10}
  BY <1>2, WrittenDigits
<1>5. ValueOf(Written(k, 10)) = k
  BY <1>2, ValueOfWritten
<1>6. DigitsOf(10) \subseteq Inner /\ "*" \in Inner
  BY DigitChars DEF Inner
<1> DEFINE w == Written(k, 10)
<1>7. w \in Seq(DigitsOf(10)) /\ Len(w) > 0
  BY <1>4
<1> HIDE DEF w
<1>8. w \in Seq(Inner) /\ <<"*">> \in Seq(Inner)
  BY <1>6, <1>7
<1>9. CASE d.star
  BY <1>1, <1>3, <1>8, <1>9 DEF Amount
<1>10. CASE ~d.star
  BY <1>1, <1>3, <1>4, <1>5, <1>8, <1>10 DEF Amount, w
<1> QED
  BY <1>9, <1>10

(* One text behind another.                                                *)
LEMMA Joined ==
  ASSUME NEW X, NEW s \in Seq(X), NEW t \in Seq(X)
  PROVE  /\ s \o t \in Seq(X) /\ Len(s \o t) = Len(s) + Len(t)
         /\ Len(s) \in Nat /\ Len(t) \in Nat
         /\ \A i \in 1..Len(s) : (s \o t)[i] = s[i]
         /\ \A i \in 1..Len(t) : (s \o t)[Len(s) + i] = t[i]
OBVIOUS

(* How much of a directive has been read after each of its parts.          *)
LEMMA ReadIs ==
  ASSUME PrintFmtAssumption, NEW d \in Directive
  PROVE  LET most(k) == IF k = -1 THEN 0 ELSE Len(Amount(d, k)) IN
         /\ Read(d, 0) = 1 /\ Read(d, 1) = 1 + FlagLen(d)
         /\ Read(d, 2) = Read(d, 1) + most(d.width)
         /\ Read(d, 3) = Read(d, 2) + DotLen(d)
         /\ Read(d, 4) = Read(d, 3) + most(d.prec)
         /\ Read(d, 5) = Read(d, 4) + d.longs
         /\ \A k \in 0..5 : Read(d, k) \in Nat \ {0} /\ Read(d, k) <= Read(d, 5)
         /\ Given(d, d.width, <<>>) = (IF d.width = -1 THEN <<>> ELSE Amount(d, d.width))
         /\ Given(d, d.prec, <<".">>) = (IF d.prec = -1 THEN <<>> ELSE <<".">> \o Amount(d, d.prec))
<1> DEFINE most(k) == IF k = -1 THEN 0 ELSE Len(Amount(d, k))
<1>1. d.star \in BOOLEAN /\ d.width \in WidthGiven /\ d.prec \in {-1, 2} /\ d.longs \in {0, 1}
  BY DirectiveIs
<1>2. ASSUME NEW k \in WidthGiven \cup {2}
      PROVE  /\ Given(d, k, <<>>) = (IF k = -1 THEN <<>> ELSE Amount(d, k))
             /\ Given(d, k, <<".">>) = (IF k = -1 THEN <<>> ELSE <<".">> \o Amount(d, k))
             /\ Len(Given(d, k, <<>>)) = most(k) /\ most(k) \in Nat
  <2>1. CASE k = -1
    BY <2>1 DEF Given
  <2>2. CASE k # -1
    <3>1. k \in Widths \cup {2}
      BY <2>2 DEF WidthGiven
    <3>2. /\ (IF d.star THEN <<"*">> ELSE Numeral(k, 10)) = Amount(d, k)
          /\ Amount(d, k) \in Seq(Inner)
      BY <1>1, <3>1, AmountIs
    <3>3. <<>> \o Amount(d, k) = Amount(d, k) /\ Len(Amount(d, k)) \in Nat
      BY <3>2
    <3> QED
      BY <2>2, <3>2, <3>3 DEF Given
  <2> QED
    BY <2>1, <2>2
<1>3. d.width \in WidthGiven \cup {2} /\ d.prec \in WidthGiven \cup {2}
  BY <1>1 DEF WidthGiven
<1>4. /\ Len(Given(d, d.width, <<>>)) = most(d.width) /\ most(d.width) \in Nat
      /\ Len(Given(d, d.prec, <<>>)) = most(d.prec) /\ most(d.prec) \in Nat
  BY <1>2, <1>3
<1> DEFINE m == most(d.width)
           q == most(d.prec)
<1>5. /\ Len(Given(d, d.width, <<>>)) = m /\ m \in Nat
      /\ Len(Given(d, d.prec, <<>>)) = q /\ q \in Nat
  BY <1>4
<1> HIDE DEF m, q, most
<1>6. /\ Read(d, 0) = 1 /\ Read(d, 1) = 1 + FlagLen(d)
      /\ Read(d, 2) = Read(d, 1) + m /\ Read(d, 3) = Read(d, 2) + DotLen(d)
      /\ Read(d, 4) = Read(d, 3) + q /\ Read(d, 5) = Read(d, 4) + d.longs
      /\ \A k \in 0..5 : Read(d, k) \in Nat \ {0} /\ Read(d, k) <= Read(d, 5)
  <2>1. FlagLen(d) \in Nat /\ DotLen(d) \in Nat
    BY DEF FlagLen, DotLen, ConvLen
  <2> DEFINE f == FlagLen(d)
             g == DotLen(d)
             l == d.longs
  <2>2. f \in Nat /\ g \in Nat /\ l \in Nat
    BY <1>1, <2>1
  <2>3. \A k : Read(d, k) = 1 + (IF k >= 1 THEN f ELSE 0) + (IF k >= 2 THEN m ELSE 0)
                              + (IF k >= 3 THEN g ELSE 0) + (IF k >= 4 THEN q ELSE 0)
                              + (IF k >= 5 THEN l ELSE 0)
    BY <1>5 DEF Read
  <2> HIDE DEF f, g, l
  <2>4. /\ Read(d, 0) = 1 /\ Read(d, 1) = 1 + f /\ Read(d, 2) = 1 + f + m
        /\ Read(d, 3) = 1 + f + m + g /\ Read(d, 4) = 1 + f + m + g + q
        /\ Read(d, 5) = 1 + f + m + g + q + l
    <3>1. Read(d, 0) = 1
      BY <2>3
    <3>2. Read(d, 1) = 1 + f
      BY <2>2, <2>3
    <3>3. Read(d, 2) = 1 + f + m
      BY <1>5, <2>2, <2>3
    <3>4. Read(d, 3) = 1 + f + m + g
      BY <1>5, <2>2, <2>3
    <3>5. Read(d, 4) = 1 + f + m + g + q
      BY <1>5, <2>2, <2>3
    <3>6. Read(d, 5) = 1 + f + m + g + q + l
      BY <1>5, <2>2, <2>3
    <3> QED
      BY <3>1, <3>2, <3>3, <3>4, <3>5, <3>6
  <2>5. \A k \in 0..5 : Read(d, k) \in Nat \ {0} /\ Read(d, k) <= Read(d, 5)
    <3>1. \A k \in 0..5 : k = 0 \/ k = 1 \/ k = 2 \/ k = 3 \/ k = 4 \/ k = 5
      OBVIOUS
    <3> QED
      BY <1>5, <2>2, <2>4, <3>1
  <2>6. /\ Read(d, 2) = Read(d, 1) + m /\ Read(d, 3) = Read(d, 2) + g
        /\ Read(d, 4) = Read(d, 3) + q /\ Read(d, 5) = Read(d, 4) + l
    BY <1>5, <2>2, <2>4
  <2> QED
    BY <2>4, <2>5, <2>6 DEF f, g, l
<1> QED
  BY <1>2, <1>3, <1>6 DEF m, q, most

(* A text whose characters behind the first are of Y, and a longer one.    *)
Leads(X, Y, s) == s \in Seq(X) /\ Len(s) > 0 /\ \A j \in 2..Len(s) : s[j] \in Y
Extended(s, t, u) ==
  /\ Len(u) = Len(s) + Len(t) /\ Len(s) \in Nat /\ Len(t) \in Nat
  /\ \A i \in 1..Len(s) : u[i] = s[i]
  /\ \A i \in 1..Len(t) : u[Len(s) + i] = t[i]

(* Characters appended.                                                    *)
LEMMA Longer ==
  ASSUME NEW X, NEW Y \in SUBSET X, NEW s, Leads(X, Y, s), NEW t \in Seq(Y), NEW u, u = s \o t
  PROVE  Leads(X, Y, u) /\ Extended(s, t, u)
<1> USE DEF Leads, Extended
<1>1. t \in Seq(X)
  OBVIOUS
<1>2. /\ u \in Seq(X) /\ Len(u) = Len(s) + Len(t)
      /\ Len(s) \in Nat /\ Len(t) \in Nat
      /\ \A i \in 1..Len(s) : u[i] = s[i]
      /\ \A i \in 1..Len(t) : u[Len(s) + i] = t[i]
  <2>1. s \in Seq(X)
    OBVIOUS
  <2> QED
    BY <1>1, <2>1, Joined
<1>3. ASSUME NEW j \in 2..Len(u) PROVE u[j] \in Y
  <2>1. CASE j <= Len(s)
    BY <1>2, <2>1
  <2>2. CASE ~(j <= Len(s))
    <3>1. j - Len(s) \in 1..Len(t) /\ Len(s) + (j - Len(s)) = j
      BY <1>2, <2>2
    <3>2. \A i \in 1..Len(t) : t[i] \in Y
      OBVIOUS
    <3> QED
      BY <1>2, <3>1, <3>2
  <2> QED
    BY <2>1, <2>2
<1> QED
  BY <1>2, <1>3

(* One text behind another, by its name.                                   *)
LEMMA Joining ==
  ASSUME NEW X, NEW s \in Seq(X), NEW t \in Seq(X), NEW u, u = s \o t
  PROVE  u \in Seq(X) /\ Extended(s, t, u)
BY Joined DEF Extended

(* What is where in a directive of the format.                             *)
LEMMA Rendered ==
  ASSUME PrintFmtAssumption, NEW d \in Directive, d.conv # "text"
  PROVE  LET r == Render(d) IN
         /\ r \in Seq(Chars) /\ r[1] = "%"
         /\ Len(r) = Read(d, 5) + ConvLen(d)
         /\ d.conv # "%" => \A j \in 2..Len(r) : r[j] \in Inner
         /\ d.flag # NoFlag => r[Read(d, 0) + 1] = d.flag
         /\ d.width # -1 => \A j \in 1..Len(Amount(d, d.width)) :
                              r[Read(d, 1) + j] = Amount(d, d.width)[j]
         /\ d.prec # -1 => /\ r[Read(d, 2) + 1] = "."
                           /\ \A j \in 1..Len(Amount(d, d.prec)) :
                                r[Read(d, 3) + j] = Amount(d, d.prec)[j]
         /\ d.longs = 1 => r[Read(d, 4) + 1] = "l"
         /\ d.conv # "cut" => r[Read(d, 5) + 1] = d.conv
<1> DEFINE Y == IF d.conv = "%" THEN Chars ELSE Inner
           a1 == FlagPart(d)
           a2 == IF d.width = -1 THEN <<>> ELSE Amount(d, d.width)
           a3 == IF d.prec = -1 THEN <<>> ELSE <<".">> \o Amount(d, d.prec)
           a4 == Repeat("l", d.longs)
           a5 == ConvPart(d)
           s0 == <<"%">>
           s1 == s0 \o a1
           s2 == s1 \o a2
           s3 == s2 \o a3
           s4 == s3 \o a4
           s5 == s4 \o a5
           w == Amount(d, d.width)
           p == Amount(d, d.prec)
<1>1. /\ d.flag \in {NoFlag, "0", "-", "#"} /\ d.star \in BOOLEAN /\ (d.conv # "cut" => d.conv \in Y)
      /\ d.width \in WidthGiven /\ d.prec \in {-1, 2} /\ d.longs \in {0, 1}
  <2>1. d.conv \in Plain \cup Takes \cup {"!", "cut"}
    BY DirectiveIs
  <2>2. d.conv \in Chars \cup {"cut"}
    BY <2>1 DEF Plain, Takes, Inner, Chars
  <2>3. d.conv # "cut" => d.conv \in Y
    BY <2>2 DEF Chars
  <2> QED
    BY <2>3, DirectiveIs
<1>2. Render(d) = s5
  <2>1. Render(d) = <<"%">> \o FlagPart(d) \o Given(d, d.width, <<>>) \o Given(d, d.prec, <<".">>)
                    \o Repeat("l", d.longs) \o ConvPart(d)
    BY DEF Render, FlagPart, Given, ConvPart
  <2> QED
    BY <2>1, ReadIs
<1>2a. /\ s1 = s0 \o a1 /\ s2 = s1 \o a2 /\ s3 = s2 \o a3 /\ s4 = s3 \o a4 /\ s5 = s4 \o a5
  OBVIOUS
<1> HIDE DEF s1, s2, s3, s4, s5
<1>3. Inner \subseteq Y /\ "." \in Y /\ "l" \in Y /\ Y \in SUBSET Chars /\ "%" \in Chars
  BY DEF Inner, Chars
<1>5. d.width # -1 => w \in Seq(Inner) /\ Len(w) > 0
  <2> SUFFICES ASSUME d.width # -1 PROVE w \in Seq(Inner) /\ Len(w) > 0
    OBVIOUS
  <2>1. d.width \in Widths \cup {2}
    BY <1>1 DEF WidthGiven
  <2> QED
    BY <1>1, <2>1, AmountIs DEF w, p
<1>6. d.prec # -1 => p \in Seq(Inner) /\ Len(p) > 0
  <2> SUFFICES ASSUME d.prec # -1 PROVE p \in Seq(Inner) /\ Len(p) > 0
    OBVIOUS
  <2>1. d.prec \in Widths \cup {2}
    BY <1>1
  <2> QED
    BY <1>1, <2>1, AmountIs DEF w, p
<1>7. /\ a1 \in Seq(Y) /\ Len(a1) = FlagLen(d) /\ (d.flag # NoFlag => a1[1] = d.flag)
  <2> HIDE DEF Y
  <2>1. d.flag # NoFlag => d.flag \in Inner
    BY <1>1 DEF Inner
  <2>2. CASE d.flag = NoFlag
    <3>1. a1 = <<>> /\ FlagLen(d) = 0
      BY <2>2 DEF FlagPart, FlagLen
    <3> HIDE DEF a1
    <3> QED
      BY <2>2, <3>1
  <2>3. CASE d.flag # NoFlag
    <3>1. a1 = <<d.flag>> /\ FlagLen(d) = 1
      BY <2>3 DEF FlagPart, FlagLen
    <3> HIDE DEF a1
    <3> QED
      BY <1>3, <2>1, <2>3, <3>1
  <2> QED
    BY <2>2, <2>3
<1>8. /\ a4 \in Seq(Y) /\ Len(a4) = d.longs /\ (d.longs = 1 => a4[1] = "l")
  <2> HIDE DEF Y
  <2>1. CASE d.longs = 0
    <3>1. a4 = <<>>
      BY <2>1 DEF Repeat
    <3> HIDE DEF a4
    <3> QED
      BY <2>1, <3>1
  <2>2. CASE d.longs = 1
    <3>1. a4 = <<"l">>
      BY <2>2 DEF Repeat
    <3> HIDE DEF a4
    <3> QED
      BY <1>3, <2>2, <3>1
  <2> QED
    BY <1>1, <2>1, <2>2
<1>9. /\ a5 \in Seq(Y) /\ Len(a5) = ConvLen(d) /\ (d.conv # "cut" => a5[1] = d.conv)
  <2>1. CASE d.conv = "cut"
    <3>1. a5 = <<>> /\ ConvLen(d) = 0
      BY <2>1 DEF ConvPart, ConvLen
    <3> HIDE DEF Y, a5
    <3> QED
      BY <2>1, <3>1
  <2>2. CASE d.conv # "cut"
    <3>1. a5 = <<d.conv>> /\ ConvLen(d) = 1
      BY <2>2 DEF ConvPart, ConvLen
    <3> HIDE DEF Y, a5
    <3> QED
      BY <1>1, <2>2, <3>1
  <2> QED
    BY <2>1, <2>2
<1> HIDE DEF Y, w, p, a1, a4, a5
<1>10. /\ a2 \in Seq(Y) /\ Len(a2) = (IF d.width = -1 THEN 0 ELSE Len(w))
       /\ d.width # -1 => \A j \in 1..Len(w) : a2[j] = w[j]
  <2>1. d.width # -1 => w \in Seq(Y) /\ a2 = w
    BY <1>3, <1>5 DEF w
  <2> QED
    BY <2>1
<1>11. /\ a3 \in Seq(Y) /\ Len(a3) = DotLen(d) + (IF d.prec = -1 THEN 0 ELSE Len(p))
       /\ d.prec # -1 => a3[1] = "." /\ \A j \in 1..Len(p) : a3[1 + j] = p[j]
  <2>1. d.prec # -1 => p \in Seq(Y) /\ a3 = <<".">> \o p
    BY <1>3, <1>6 DEF p
  <2>2. <<".">> \in Seq(Y) /\ Len(<<".">>) = 1 /\ <<".">>[1] = "."
    BY <1>3
  <2>3. CASE d.prec # -1
    <3>1. /\ <<".">> \o p \in Seq(Y) /\ Len(<<".">> \o p) = 1 + Len(p) /\ (<<".">> \o p)[1] = "."
          /\ \A j \in 1..Len(p) : (<<".">> \o p)[1 + j] = p[j]
      BY <2>1, <2>2, <2>3, Joined
    <3> HIDE DEF a3
    <3> QED
      BY <2>1, <2>3, <3>1 DEF FlagLen, DotLen, ConvLen
  <2>4. CASE d.prec = -1
    BY <2>4 DEF FlagLen, DotLen, ConvLen
  <2> QED
    BY <2>3, <2>4
<1> HIDE DEF a2, a3
<1>12. Leads(Chars, Y, s0) /\ Len(s0) = 1 /\ s0[1] = "%"
  BY <1>3 DEF Leads
<1> HIDE DEF s0
<1>13a. Leads(Chars, Y, s1) /\ Extended(s0, a1, s1)
  BY <1>2a, <1>3, <1>7, <1>12, Longer, Zenon
<1>14a. Leads(Chars, Y, s2) /\ Extended(s1, a2, s2)
  BY <1>2a, <1>3, <1>10, <1>13a, Longer, Zenon
<1>15a. Leads(Chars, Y, s3) /\ Extended(s2, a3, s3)
  BY <1>2a, <1>3, <1>11, <1>14a, Longer, Zenon
<1>16a. Leads(Chars, Y, s4) /\ Extended(s3, a4, s4)
  BY <1>2a, <1>3, <1>8, <1>15a, Longer, Zenon
<1>17a. Leads(Chars, Y, s5) /\ Extended(s4, a5, s5)
  BY <1>2a, <1>3, <1>9, <1>16a, Longer, Zenon
<1>13. /\ Len(s1) = Len(s0) + Len(a1) /\ Len(a1) \in Nat
       /\ \A i \in 1..Len(s0) : s1[i] = s0[i]
       /\ \A i \in 1..Len(a1) : s1[Len(s0) + i] = a1[i]
  BY <1>13a DEF Extended
<1>14. /\ Len(s2) = Len(s1) + Len(a2) /\ Len(a2) \in Nat /\ Len(s1) \in Nat
       /\ \A i \in 1..Len(s1) : s2[i] = s1[i]
       /\ \A i \in 1..Len(a2) : s2[Len(s1) + i] = a2[i]
  BY <1>14a DEF Extended
<1>15. /\ Len(s3) = Len(s2) + Len(a3) /\ Len(a3) \in Nat /\ Len(s2) \in Nat
       /\ \A i \in 1..Len(s2) : s3[i] = s2[i]
       /\ \A i \in 1..Len(a3) : s3[Len(s2) + i] = a3[i]
  BY <1>15a DEF Extended
<1>16. /\ Len(s4) = Len(s3) + Len(a4) /\ Len(a4) \in Nat /\ Len(s3) \in Nat
       /\ \A i \in 1..Len(s3) : s4[i] = s3[i]
       /\ \A i \in 1..Len(a4) : s4[Len(s3) + i] = a4[i]
  BY <1>16a DEF Extended
<1>17. /\ s5 \in Seq(Chars) /\ Len(s5) = Len(s4) + Len(a5) /\ Len(a5) \in Nat /\ Len(s4) \in Nat
       /\ \A j \in 2..Len(s5) : s5[j] \in Y
       /\ \A i \in 1..Len(s4) : s5[i] = s4[i]
       /\ \A i \in 1..Len(a5) : s5[Len(s4) + i] = a5[i]
  BY <1>17a DEF Extended, Leads
<1>18. /\ Len(s0) = Read(d, 0) /\ Len(s1) = Read(d, 1) /\ Len(s2) = Read(d, 2)
       /\ Len(s3) = Read(d, 4) /\ Len(s4) = Read(d, 5) /\ Read(d, 3) = Read(d, 2) + DotLen(d)
  <2>1. /\ Read(d, 0) = 1 /\ Read(d, 1) = 1 + FlagLen(d)
        /\ Read(d, 2) = Read(d, 1) + (IF d.width = -1 THEN 0 ELSE Len(w))
        /\ Read(d, 3) = Read(d, 2) + DotLen(d)
        /\ Read(d, 4) = Read(d, 3) + (IF d.prec = -1 THEN 0 ELSE Len(p))
        /\ Read(d, 5) = Read(d, 4) + d.longs
    BY ReadIs DEF w, p
  <2>2. Len(s0) = Read(d, 0) /\ Len(s1) = Read(d, 1)
    BY <1>7, <1>12, <1>13, <2>1
  <2>3. Len(s2) = Read(d, 2)
    BY <1>10, <1>14, <2>1, <2>2
  <2>4. Len(s3) = Read(d, 4)
    <3>1. Len(p) \in Nat \/ d.prec = -1
      BY <1>6
    <3>2. DotLen(d) \in Nat /\ Len(s2) \in Nat
      BY <1>14 DEF FlagLen, DotLen, ConvLen
    <3> QED
      BY <1>11, <1>15, <2>1, <2>3, <3>1, <3>2
  <2>5. Len(s4) = Read(d, 5)
    BY <1>8, <1>16, <2>1, <2>4
  <2> QED
    BY <2>1, <2>2, <2>3, <2>4, <2>5
<1>19. /\ Len(s0) \in Nat /\ Len(s1) \in Nat /\ Len(s2) \in Nat /\ Len(s3) \in Nat /\ Len(s4) \in Nat
       /\ Len(s0) <= Len(s1) /\ Len(s1) <= Len(s2) /\ Len(s2) <= Len(s3) /\ Len(s3) <= Len(s4)
       /\ Len(s4) <= Len(s5)
  BY <1>12, <1>13, <1>14, <1>15, <1>16, <1>17
<1>20. s5 \in Seq(Chars) /\ s5[1] = "%" /\ Len(s5) = Read(d, 5) + ConvLen(d)
  <2>1. s5[1] = "%"
    <3>1. 1 \in 1..Len(s0) /\ 1 \in 1..Len(s1) /\ 1 \in 1..Len(s2) /\ 1 \in 1..Len(s3) /\ 1 \in 1..Len(s4)
      BY <1>12, <1>19
    <3> QED
      BY <1>12, <1>13, <1>14, <1>15, <1>16, <1>17, <3>1
  <2>2. s5 \in Seq(Chars)
    BY <1>17
  <2>3. Len(s5) = Read(d, 5) + ConvLen(d)
    <3>1. Len(a5) = ConvLen(d) /\ Len(s5) = Len(s4) + Len(a5) /\ Len(s4) = Read(d, 5)
      BY <1>9, <1>17, <1>18
    <3> QED
      BY <3>1
  <2> QED
    BY <2>1, <2>2, <2>3
<1>21. d.flag # NoFlag => s5[Read(d, 0) + 1] = d.flag
  <2> SUFFICES ASSUME d.flag # NoFlag PROVE s5[Len(s0) + 1] = d.flag
    BY <1>18
  <2>1. 1 \in 1..Len(a1)
    <3>1. FlagLen(d) = 1
      BY DEF FlagLen
    <3>2. Len(a1) = FlagLen(d)
      BY <1>7
    <3> QED
      BY <3>1, <3>2
  <2>2. s1[Len(s0) + 1] = d.flag
    BY <1>7, <1>13, <2>1
  <2> DEFINE n == Len(s0) + 1
  <2>3. n \in 1..Len(s1) /\ n \in 1..Len(s2) /\ n \in 1..Len(s3) /\ n \in 1..Len(s4)
    <3>1. Len(a1) \in Nat /\ Len(a1) >= 1 /\ Len(s1) = Len(s0) + Len(a1)
      BY <1>13, <2>1
    <3> QED
      BY <1>19, <3>1
  <2> HIDE DEF n
  <2>4. s5[n] = s1[n]
    BY <1>14, <1>15, <1>16, <1>17, <2>3
  <2> QED
    BY <2>2, <2>4 DEF n
<1>22. d.width # -1 => \A j \in 1..Len(w) : s5[Read(d, 1) + j] = w[j]
  <2> SUFFICES ASSUME d.width # -1, NEW j \in 1..Len(w) PROVE s5[Len(s1) + j] = w[j]
    BY <1>18
  <2>1. j \in 1..Len(a2) /\ a2[j] = w[j]
    BY <1>10
  <2> DEFINE n == Len(s1) + j
  <2>2. n \in 1..Len(s2) /\ n \in 1..Len(s3) /\ n \in 1..Len(s4)
    BY <1>14, <1>19, <2>1
  <2>3. s2[n] = w[j]
    BY <1>14, <2>1
  <2> HIDE DEF n
  <2>4. s5[n] = s2[n]
    BY <1>15, <1>16, <1>17, <2>2
  <2> QED
    BY <2>3, <2>4 DEF n
<1>23. d.prec # -1 => /\ s5[Read(d, 2) + 1] = "."
                      /\ \A j \in 1..Len(p) : s5[Read(d, 3) + j] = p[j]
  <2> SUFFICES ASSUME d.prec # -1
               PROVE  s5[Len(s2) + 1] = "." /\ \A j \in 1..Len(p) : s5[(Len(s2) + 1) + j] = p[j]
    BY <1>18 DEF FlagLen, DotLen, ConvLen
  <2>1. Len(a3) = 1 + Len(p) /\ Len(p) \in Nat
    BY <1>6, <1>11 DEF FlagLen, DotLen, ConvLen
  <2>2. ASSUME NEW n \in 1..Len(a3) PROVE s5[Len(s2) + n] = a3[n]
    <3> DEFINE k == Len(s2) + n
    <3>1. k \in 1..Len(s3) /\ k \in 1..Len(s4)
      BY <1>15, <1>19
    <3>2. s3[k] = a3[n]
      BY <1>15
    <3> HIDE DEF k
    <3>3. s5[k] = a3[n]
      BY <1>16, <1>17, <3>1, <3>2
    <3> QED
      BY <3>3 DEF k
  <2>3. 1 \in 1..Len(a3)
    BY <2>1
  <2>4. ASSUME NEW j \in 1..Len(p) PROVE s5[(Len(s2) + 1) + j] = p[j]
    <3>1. 1 + j \in 1..Len(a3) /\ (Len(s2) + 1) + j = Len(s2) + (1 + j)
      BY <1>19, <2>1
    <3> QED
      BY <1>11, <2>2, <3>1
  <2> QED
    BY <1>11, <2>2, <2>3, <2>4
<1>24. d.longs = 1 => s5[Read(d, 4) + 1] = "l"
  <2> SUFFICES ASSUME d.longs = 1 PROVE s5[Len(s3) + 1] = "l"
    BY <1>18
  <2>1. 1 \in 1..Len(a4) /\ Len(s3) + 1 \in 1..Len(s4)
    BY <1>8, <1>16, <1>19
  <2> QED
    BY <1>8, <1>16, <1>17, <2>1
<1>25. d.conv # "cut" => s5[Read(d, 5) + 1] = d.conv
  <2> SUFFICES ASSUME d.conv # "cut" PROVE s5[Len(s4) + 1] = d.conv
    BY <1>18
  <2>1. 1 \in 1..Len(a5)
    BY <1>9 DEF FlagLen, DotLen, ConvLen
  <2> QED
    BY <1>9, <1>17, <2>1
<1>26. d.conv # "%" => \A j \in 2..Len(s5) : s5[j] \in Inner
  BY <1>17 DEF Y
<1> QED
  BY <1>2, <1>20, <1>21, <1>22, <1>23, <1>24, <1>25, <1>26 DEF w, p

(* The arguments of one directive.                                         *)
Arg == IntArgs \cup Widths \cup {2, "x"} \cup Strings
OwnArg(d) == IF d.conv \in Takes THEN <<d.arg>> ELSE <<>>
Owns(d) == IF d.conv \in Takes THEN 1 ELSE 0
StarArg(d, k) == IF k # -1 /\ d.star THEN <<k>> ELSE <<>>

(* How many arguments are gone after each part.                            *)
LEMMA TakenIs ==
  ASSUME NEW d
  PROVE  /\ Taken(d, 0) = 0 /\ Taken(d, 1) = 0
         /\ Taken(d, 2) = Starred(d, d.width) /\ Taken(d, 3) = Taken(d, 2)
         /\ Taken(d, 4) = Starred(d, d.width) + Starred(d, d.prec) /\ Taken(d, 5) = Taken(d, 4)
         /\ Starred(d, d.width) \in Nat /\ Starred(d, d.prec) \in Nat
         /\ \A k \in 0..5 : Taken(d, k) \in Nat /\ Taken(d, k) <= Taken(d, 5)
<1> DEFINE w == Starred(d, d.width)
           p == Starred(d, d.prec)
<1>1. w \in Nat /\ p \in Nat
  BY DEF Starred
<1>2. \A k : Taken(d, k) = (IF k >= 2 THEN w ELSE 0) + (IF k >= 4 THEN p ELSE 0)
  BY DEF Taken
<1> HIDE DEF w, p
<1>3. /\ Taken(d, 0) = 0 /\ Taken(d, 1) = 0 /\ Taken(d, 2) = w /\ Taken(d, 3) = w
      /\ Taken(d, 4) = w + p /\ Taken(d, 5) = w + p
  BY <1>1, <1>2
<1>4. \A k \in 0..5 : k = 0 \/ k = 1 \/ k = 2 \/ k = 3 \/ k = 4 \/ k = 5
  OBVIOUS
<1>5. \A k \in 0..5 : Taken(d, k) \in Nat /\ Taken(d, k) <= Taken(d, 5)
  BY <1>1, <1>3, <1>4
<1> QED
  BY <1>1, <1>3, <1>5 DEF w, p

(* Where a directive's width, precision and own argument are in its        *)
(* argument list.                                                          *)
LEMMA ArgumentsAre ==
  ASSUME PrintFmtAssumption, NEW d \in Directive
  PROVE  LET a == Arguments(d) IN
         /\ a \in Seq(Arg) /\ Len(a) = Taken(d, 5) + Owns(d)
         /\ d.star /\ d.width # -1 => a[Taken(d, 1) + 1] = d.width
         /\ d.star /\ d.prec # -1 => a[Taken(d, 3) + 1] = d.prec
         /\ d.conv \in Takes => a[Taken(d, 5) + 1] = d.arg
<1> DEFINE w == StarArg(d, d.width)
           p == StarArg(d, d.prec)
           o == OwnArg(d)
           wp == w \o p
           a == wp \o o
<1>1. d.star \in BOOLEAN /\ d.width \in WidthGiven /\ d.prec \in {-1, 2}
  BY DirectiveIs
<1>2. d.conv \in Takes => d.arg \in Arg
  <2>1. /\ d.conv = "s" => d.arg \in Strings
        /\ d.conv \in {"d", "u", "x", "p", "e"} => d.arg \in IntArgs
        /\ d.conv = "c" => d.arg = "x"
    BY DirectiveIs
  <2>2. d.conv \in Takes => d.conv = "s" \/ d.conv \in {"d", "u", "x", "p", "e"} \/ d.conv = "c"
    BY DEF Takes
  <2> QED
    BY <2>1, <2>2, Zenon DEF Arg
<1>3. Arguments(d) = a
  BY DEF Arguments, StarArg, OwnArg, Takes
<1>4. ASSUME NEW k \in WidthGiven \cup {2}
      PROVE  /\ StarArg(d, k) \in Seq(Arg) /\ Len(StarArg(d, k)) = Starred(d, k)
             /\ d.star /\ k # -1 => StarArg(d, k)[1] = k /\ Starred(d, k) = 1
  <2>1. CASE d.star /\ k # -1
    <3>1. k \in Arg
      BY <2>1 DEF WidthGiven, Arg
    <3>2. StarArg(d, k) = <<k>> /\ Starred(d, k) = 1
      BY <2>1 DEF StarArg, Starred
    <3> QED
      BY <3>1, <3>2
  <2>2. CASE ~(d.star /\ k # -1)
    <3>1. StarArg(d, k) = <<>> /\ Starred(d, k) = 0
      BY <2>2 DEF StarArg, Starred
    <3> QED
      BY <2>2, <3>1
  <2> QED
    BY <2>1, <2>2
<1>5. d.width \in WidthGiven \cup {2} /\ d.prec \in WidthGiven \cup {2}
  BY <1>1 DEF WidthGiven
<1>6. /\ w \in Seq(Arg) /\ Len(w) = Starred(d, d.width)
      /\ d.star /\ d.width # -1 => w[1] = d.width /\ Len(w) = 1
  BY <1>4, <1>5
<1>7. /\ p \in Seq(Arg) /\ Len(p) = Starred(d, d.prec)
      /\ d.star /\ d.prec # -1 => p[1] = d.prec /\ Len(p) = 1
  BY <1>4, <1>5
<1>8. o \in Seq(Arg) /\ Len(o) = Owns(d) /\ (d.conv \in Takes => o[1] = d.arg /\ Len(o) = 1)
  <2>1. CASE d.conv \in Takes
    <3>1. o = <<d.arg>> /\ Owns(d) = 1
      BY <2>1 DEF OwnArg, Owns
    <3> HIDE DEF o
    <3> QED
      BY <1>2, <2>1, <3>1
  <2>2. CASE d.conv \notin Takes
    <3>1. o = <<>> /\ Owns(d) = 0
      BY <2>2 DEF OwnArg, Owns
    <3> HIDE DEF o
    <3> QED
      BY <2>2, <3>1
  <2> QED
    BY <2>1, <2>2
<1>9a. wp = w \o p /\ a = wp \o o
  OBVIOUS
<1> HIDE DEF w, p, o, wp, a
<1>9b. wp \in Seq(Arg) /\ Extended(w, p, wp)
  BY <1>6, <1>7, <1>9a, Joining, Zenon
<1>9c. a \in Seq(Arg) /\ Extended(wp, o, a)
  BY <1>8, <1>9a, <1>9b, Joining, Zenon
<1>9. /\ wp \in Seq(Arg) /\ Len(wp) = Len(w) + Len(p) /\ Len(w) \in Nat /\ Len(p) \in Nat
      /\ \A i \in 1..Len(w) : wp[i] = w[i]
      /\ \A i \in 1..Len(p) : wp[Len(w) + i] = p[i]
  BY <1>9b DEF Extended
<1>10. /\ a \in Seq(Arg) /\ Len(a) = Len(wp) + Len(o) /\ Len(o) \in Nat /\ Len(wp) \in Nat
       /\ \A i \in 1..Len(wp) : a[i] = wp[i]
       /\ \A i \in 1..Len(o) : a[Len(wp) + i] = o[i]
  BY <1>9c DEF Extended
<1>11. /\ Taken(d, 1) = 0 /\ Taken(d, 3) = Len(w) /\ Taken(d, 5) = Len(wp)
  BY <1>6, <1>7, <1>9, TakenIs
<1>12. d.star /\ d.width # -1 => a[Taken(d, 1) + 1] = d.width
  <2> SUFFICES ASSUME d.star /\ d.width # -1 PROVE a[1] = d.width
    BY <1>11
  <2>1. Len(w) = 1 /\ w[1] = d.width
    BY <1>6
  <2>2. 1 \in 1..Len(w) /\ 1 \in 1..Len(wp)
    BY <1>9, <2>1
  <2> QED
    BY <1>9, <1>10, <2>1, <2>2
<1>13. d.star /\ d.prec # -1 => a[Taken(d, 3) + 1] = d.prec
  <2> SUFFICES ASSUME d.star /\ d.prec # -1 PROVE a[Len(w) + 1] = d.prec
    BY <1>11
  <2>1. Len(p) = 1 /\ p[1] = d.prec
    BY <1>7
  <2>2. 1 \in 1..Len(p) /\ Len(w) + 1 \in 1..Len(wp)
    BY <1>9, <2>1
  <2> QED
    BY <1>9, <1>10, <2>1, <2>2
<1>14. d.conv \in Takes => a[Taken(d, 5) + 1] = d.arg
  <2> SUFFICES ASSUME d.conv \in Takes PROVE a[Len(wp) + 1] = d.arg
    BY <1>11
  <2>1. Len(o) = 1 /\ o[1] = d.arg
    BY <1>8
  <2>2. 1 \in 1..Len(o)
    BY <2>1
  <2> QED
    BY <1>10, <2>1, <2>2
<1>15. Len(a) = Taken(d, 5) + Owns(d)
  BY <1>8, <1>10, <1>11
<1> QED
  BY <1>3, <1>10, <1>12, <1>13, <1>14, <1>15

(* A width is -1, for none, or positive and fits a long.                   *)
LEMMA WidthIs ==
  ASSUME PrintFmtAssumption, NEW d \in Directive
  PROVE  /\ d.width \in Int /\ (d.width = -1 \/ d.width > 0)
         /\ d.width \in -1 .. Power(2, LongBits) - 1 /\ d.prec \in -1 .. Power(2, LongBits) - 1
         /\ 0 \in -1 .. Power(2, LongBits) - 1
<1>1. d.width \in WidthGiven /\ d.prec \in {-1, 2} /\ d.star \in BOOLEAN
  BY DirectiveIs
<1>2. ASSUME NEW k \in Widths \cup {2} PROVE k \in 1 .. Power(2, LongBits) - 1
  BY <1>1, AmountIs
<1>3. Power(2, LongBits) \in Nat /\ 1 < Power(2, LongBits)
  <2>1. 2 \in Nat \ {0}
    OBVIOUS
  <2>2. LongBits \in Nat
    BY DEF PrintFmtAssumption
  <2>3. Power(2, LongBits) \in Nat
    BY <2>1, <2>2, Powers
  <2>4. 2 \in 1 .. Power(2, LongBits) - 1
    BY <1>2
  <2> QED
    BY <2>3, <2>4
<1>4. d.width = -1 \/ d.width \in 1 .. Power(2, LongBits) - 1
  BY <1>1, <1>2 DEF WidthGiven
<1>5. d.prec = -1 \/ d.prec \in 1 .. Power(2, LongBits) - 1
  BY <1>1, <1>2
<1> QED
  BY <1>3, <1>4, <1>5

(* What reading one more part does.                                        *)
LEMMA ParsedIs ==
  ASSUME NEW d
  PROVE  /\ Parsed(d, 0) = Fresh
         /\ Parsed(d, 1) = Known(PadOf(d), -1, -1, 0, AltOf(d))
         /\ Parsed(d, 2) = Known(PadOf(d), d.width, -1, 0, AltOf(d))
         /\ Parsed(d, 3) = Known(PadOf(d), WidthOf(d), -1, 0, AltOf(d))
         /\ Parsed(d, 4) = Known(PadOf(d), WidthOf(d), d.prec, 0, AltOf(d))
         /\ Parsed(d, 5) = Known(PadOf(d), WidthOf(d), d.prec, d.longs, AltOf(d))
BY DEF Parsed

(* A part that a directive does not have changes nothing.                  *)
LEMMA Skip ==
  ASSUME PrintFmtAssumption, NEW d \in Directive, NEW k \in 0..4, ~Has(d, k+1)
  PROVE  Read(d, k+1) = Read(d, k) /\ Parsed(d, k+1) = Parsed(d, k) /\ Taken(d, k+1) = Taken(d, k)
<1>1. k = 0 \/ k = 1 \/ k = 2 \/ k = 3 \/ k = 4
  OBVIOUS
<1>2. d.longs \in {0, 1} /\ d.flag \in {NoFlag, "0", "-", "#"}
  BY DirectiveIs
<1>3. CASE k = 0
  <2>1. d.flag = NoFlag /\ d.flag \notin {"0", "-", "#"} /\ FlagLen(d) = 0
    BY <1>3, Literals DEF Has, FlagLen
  <2>2. Read(d, 1) = Read(d, 0) /\ Taken(d, 1) = Taken(d, 0)
    BY <2>1, ReadIs, TakenIs
  <2>3. Parsed(d, 1) = Parsed(d, 0)
    <3>1. PadOf(d) = Blank /\ AltOf(d) = 0
      BY <2>1, Zenon DEF PadOf, AltOf
    <3>2. Known(PadOf(d), -1, -1, 0, AltOf(d)) = Fresh
      BY <3>1, Zenon DEF Known, Fresh
    <3> QED
      BY <3>2, ParsedIs, Zenon
  <2> QED
    BY <1>3, <2>2, <2>3
<1>4. CASE k = 1
  <2>1. d.width = -1
    BY <1>4 DEF Has
  <2>2. Read(d, 2) = Read(d, 1) /\ Taken(d, 2) = Taken(d, 1)
    BY <2>1, ReadIs, TakenIs DEF Starred
  <2>3. Parsed(d, 2) = Parsed(d, 1)
    BY <2>1, ParsedIs
  <2> QED
    BY <1>4, <2>2, <2>3
<1>5. CASE k = 2
  <2>1. d.prec = -1 /\ DotLen(d) = 0
    BY <1>5 DEF Has, DotLen
  <2>2. Read(d, 3) = Read(d, 2) /\ Taken(d, 3) = Taken(d, 2)
    BY <2>1, ReadIs, TakenIs
  <2>3. Parsed(d, 3) = Parsed(d, 2)
    BY <2>1, ParsedIs DEF WidthOf
  <2> QED
    BY <1>5, <2>2, <2>3
<1>6. CASE k = 3
  <2>1. d.prec = -1
    BY <1>6 DEF Has
  <2>2. Read(d, 4) = Read(d, 3) /\ Taken(d, 4) = Taken(d, 3)
    <3>1. Read(d, 4) = Read(d, 3) + 0 /\ Read(d, 3) \in Nat
      BY <2>1, ReadIs
    <3>2. Starred(d, d.prec) = 0
      BY <2>1 DEF Starred
    <3>3. /\ Taken(d, 4) = Starred(d, d.width) + Starred(d, d.prec)
          /\ Taken(d, 3) = Starred(d, d.width) /\ Starred(d, d.width) \in Nat
      BY TakenIs
    <3> QED
      BY <3>1, <3>2, <3>3
  <2>3. Parsed(d, 4) = Parsed(d, 3)
    <3>1. /\ Parsed(d, 3) = Known(PadOf(d), WidthOf(d), -1, 0, AltOf(d))
          /\ Parsed(d, 4) = Known(PadOf(d), WidthOf(d), d.prec, 0, AltOf(d))
      BY ParsedIs, Zenon
    <3> QED
      BY <2>1, <3>1, Zenon
  <2> QED
    BY <1>6, <2>2, <2>3
<1>7. CASE k = 4
  <2>1. d.longs = 0
    BY <1>2, <1>7 DEF Has
  <2>2. Read(d, 5) = Read(d, 4) /\ Taken(d, 5) = Taken(d, 4)
    <3>1. Read(d, 5) = Read(d, 4) + d.longs /\ Read(d, 4) \in Nat
      <4>1. 4 \in 0..5
        OBVIOUS
      <4> QED
        BY <4>1, ReadIs
    <3>2. Taken(d, 5) = Taken(d, 4)
      BY TakenIs
    <3> QED
      BY <2>1, <3>1, <3>2
  <2>3. Parsed(d, 5) = Parsed(d, 4)
    BY <2>1, ParsedIs
  <2> QED
    BY <1>7, <2>2, <2>3
<1> QED
  BY <1>1, <1>3, <1>4, <1>5, <1>6, <1>7

(* Both fields at once.                                                    *)
Widened(r, k, p) == [r EXCEPT !.width = k, !.precision = p]

(* What each part of a directive changes in the options: the assignments   *)
(* of the cases of vprintfmt().                                            *)
LEMMA ParsedSteps ==
  ASSUME PrintFmtAssumption, NEW d \in Directive
  PROVE  /\ Parsed(d, 0) = Fresh
         /\ Has(d, 1) => Parsed(d, 1) = IF d.flag = "#" THEN [Parsed(d, 0) EXCEPT !.altflag = 1]
                                        ELSE [Parsed(d, 0) EXCEPT !.padc = d.flag]
         /\ Has(d, 2) => Parsed(d, 2) = Widened(Parsed(d, 1), d.width, -1)
         /\ Has(d, 3) => Parsed(d, 3) = IF Parsed(d, 2).width < 0 THEN [Parsed(d, 2) EXCEPT !.width = 0]
                                        ELSE Parsed(d, 2)
         /\ Has(d, 4) => Parsed(d, 4) = [Parsed(d, 3) EXCEPT !.precision = d.prec]
         /\ Has(d, 5) => Parsed(d, 5) = [Parsed(d, 4) EXCEPT !.lflag = @ + 1]
         /\ Parsed(d, 1).width < 0
         /\ Has(d, 4) => ~(Parsed(d, 3).width < 0)
<1>1. /\ d.flag \in {NoFlag, "0", "-", "#"} /\ d.longs \in {0, 1} /\ d.width \in WidthGiven
  BY DirectiveIs
<1>2. d.width \in Int /\ (d.width = -1 \/ d.width > 0)
  BY WidthIs
<1>3. Parsed(d, 0) = Fresh
  BY ParsedIs
<1>4. Has(d, 1) => Parsed(d, 1) = IF d.flag = "#" THEN [Parsed(d, 0) EXCEPT !.altflag = 1]
                                  ELSE [Parsed(d, 0) EXCEPT !.padc = d.flag]
  <2> SUFFICES ASSUME Has(d, 1)
               PROVE  Parsed(d, 1) = IF d.flag = "#" THEN [Parsed(d, 0) EXCEPT !.altflag = 1]
                                     ELSE [Parsed(d, 0) EXCEPT !.padc = d.flag]
    OBVIOUS
  <2>1. d.flag \in {"0", "-", "#"}
    BY <1>1 DEF Has
  <2>2. CASE d.flag = "#"
    <3>1. PadOf(d) = Blank /\ AltOf(d) = 1
      BY <2>2, Zenon DEF PadOf, AltOf
    <3>2. Parsed(d, 1) = Known(Blank, -1, -1, 0, 1)
      BY <3>1, ParsedIs, Zenon
    <3>3. Known(Blank, -1, -1, 0, 1) = [Fresh EXCEPT !.altflag = 1]
      BY DEF Known, Fresh
    <3> QED
      BY <1>3, <2>2, <3>2, <3>3, Zenon
  <2>3. CASE d.flag # "#"
    <3>1. PadOf(d) = d.flag /\ AltOf(d) = 0
      BY <2>1, <2>3, Zenon DEF PadOf, AltOf
    <3>2. Parsed(d, 1) = Known(d.flag, -1, -1, 0, 0)
      BY <3>1, ParsedIs, Zenon
    <3>3. \A c : Known(c, -1, -1, 0, 0) = [Fresh EXCEPT !.padc = c]
      BY DEF Known, Fresh
    <3> QED
      BY <1>3, <2>3, <3>2, <3>3, Zenon
  <2> QED
    BY <2>2, <2>3
<1> DEFINE c == PadOf(d)
           a == AltOf(d)
           w == d.width
           p == d.prec
<1>5. Has(d, 2) => Parsed(d, 2) = Widened(Parsed(d, 1), d.width, -1)
  <2>1. Parsed(d, 2) = Known(c, w, -1, 0, a) /\ Parsed(d, 1) = Known(c, -1, -1, 0, a)
    BY ParsedIs
  <2> HIDE DEF c, a, w
  <2>2. ASSUME NEW v, NEW u, NEW x, NEW y
        PROVE  Known(c, x, y, 0, a) = Widened(Known(c, v, u, 0, a), x, y)
    <3>1. Known(c, x, u, 0, a) = [Known(c, v, u, 0, a) EXCEPT !.width = x]
      BY DEF Known
    <3>2. Known(c, x, y, 0, a) = [Known(c, x, u, 0, a) EXCEPT !.precision = y]
      BY DEF Known
    <3> DEFINE r == Known(c, v, u, 0, a)
    <3>3. [[r EXCEPT !.width = x] EXCEPT !.precision = y] = Widened(r, x, y)
      <4> HIDE DEF r
      <4> QED
        BY DEF Widened
    <3> QED
      BY <3>1, <3>2, <3>3
  <2> QED
    <3>1. Known(c, w, -1, 0, a) = Widened(Known(c, -1, -1, 0, a), w, -1)
      BY <2>2
    <3>2. Parsed(d, 2) = Widened(Parsed(d, 1), w, -1)
      BY <2>1, <3>1
    <3> QED
      BY <3>2 DEF w
<1>6. Has(d, 3) => Parsed(d, 3) = IF Parsed(d, 2).width < 0 THEN [Parsed(d, 2) EXCEPT !.width = 0]
                                  ELSE Parsed(d, 2)
  <2> SUFFICES ASSUME Has(d, 3)
               PROVE  Parsed(d, 3) = IF Parsed(d, 2).width < 0 THEN [Parsed(d, 2) EXCEPT !.width = 0]
                                     ELSE Parsed(d, 2)
    OBVIOUS
  <2>1. d.prec # -1
    BY DEF Has
  <2>2. WidthOf(d) = IF w < 0 THEN 0 ELSE w
    BY <1>2, <2>1 DEF WidthOf
  <2>3. Parsed(d, 3) = Known(c, WidthOf(d), -1, 0, a) /\ Parsed(d, 2) = Known(c, w, -1, 0, a)
    BY ParsedIs
  <2> HIDE DEF c, a, w
  <2>4. /\ Known(c, w, -1, 0, a).width = w
        /\ Known(c, 0, -1, 0, a) = [Known(c, w, -1, 0, a) EXCEPT !.width = 0]
    BY DEF Known
  <2>5. CASE w < 0
    BY <2>2, <2>3, <2>4, <2>5, Zenon
  <2>6. CASE ~(w < 0)
    BY <2>2, <2>3, <2>4, <2>6, Zenon
  <2> QED
    BY <2>5, <2>6
<1>7. Has(d, 4) => Parsed(d, 4) = [Parsed(d, 3) EXCEPT !.precision = d.prec]
  <2> DEFINE q == WidthOf(d)
  <2>1. Parsed(d, 4) = Known(c, q, p, 0, a) /\ Parsed(d, 3) = Known(c, q, -1, 0, a)
    BY ParsedIs
  <2> HIDE DEF c, a, p, q
  <2>2. Known(c, q, p, 0, a) = [Known(c, q, -1, 0, a) EXCEPT !.precision = p]
    BY DEF Known
  <2>3. Parsed(d, 4) = [Parsed(d, 3) EXCEPT !.precision = p]
    BY <2>1, <2>2, Zenon
  <2> QED
    BY <2>3 DEF p
<1>8. Has(d, 5) => Parsed(d, 5) = [Parsed(d, 4) EXCEPT !.lflag = @ + 1]
  <2> SUFFICES ASSUME Has(d, 5) PROVE Parsed(d, 5) = [Parsed(d, 4) EXCEPT !.lflag = @ + 1]
    OBVIOUS
  <2> DEFINE q == WidthOf(d)
  <2>1. d.longs = 1
    BY DEF Has
  <2>2. Parsed(d, 5) = Known(c, q, p, 1, a) /\ Parsed(d, 4) = Known(c, q, p, 0, a)
    BY <2>1, ParsedIs
  <2> HIDE DEF c, a, p, q
  <2>3. Known(c, q, p, 1, a) = [Known(c, q, p, 0, a) EXCEPT !.lflag = @ + 1]
    BY DEF Known
  <2> QED
    BY <2>2, <2>3, Zenon
<1>9. Parsed(d, 1).width < 0
  <2>1. Parsed(d, 1) = Known(c, -1, -1, 0, a)
    BY ParsedIs
  <2> HIDE DEF c, a
  <2>2. Known(c, -1, -1, 0, a).width = -1
    BY DEF Known
  <2> QED
    BY <2>1, <2>2
<1>10. Has(d, 4) => ~(Parsed(d, 3).width < 0)
  <2> SUFFICES ASSUME Has(d, 4) PROVE ~(Parsed(d, 3).width < 0)
    OBVIOUS
  <2> DEFINE q == WidthOf(d)
  <2>1. d.prec # -1
    BY DEF Has
  <2>2. q \in Int /\ q >= 0
    BY <1>2, <2>1 DEF WidthOf
  <2>3. Parsed(d, 3) = Known(c, q, -1, 0, a)
    BY ParsedIs
  <2> HIDE DEF c, a, q
  <2>4. Known(c, q, -1, 0, a).width = q
    BY DEF Known
  <2>5. ~(q < 0)
    BY <2>2
  <2> QED
    BY <2>3, <2>4, <2>5, Zenon
<1> QED
  BY <1>3, <1>4, <1>5, <1>6, <1>7, <1>8, <1>9, <1>10, Zenon

-----------------------------------------------------------------------------
(* What the conversions print.                                             *)
LEMMA CharsAreText ==
  /\ DigitsOf(10) \subseteq Txt /\ DigitsOf(16) \subseteq Txt /\ Chars \subseteq Txt
  /\ {Blank, "-", "0", "x", "X", "%", "?", "error", "message"} \subseteq Txt
<1>1. ASSUME NEW k \in 1..16 PROVE Digit[k] \in Txt
  <2>1. k - 1 \in Nat /\ Digit[k] = Digit[(k-1)+1]
    OBVIOUS
  <2> QED
    BY <2>1 DEF Txt
<1>2. DigitsOf(10) \subseteq Txt /\ DigitsOf(16) \subseteq Txt
  BY <1>1 DEF DigitsOf
<1>3. ASSUME NEW c \in Chars PROVE c \in Txt
  <2>1. CASE c \in DigitsOf(10)
    BY <1>2, <2>1
  <2>2. CASE c \notin DigitsOf(10)
    <3>1. c \in {"-", "#", "*", ".", "l", "d", "u", "x", "s", "p", "e", "c", "o", "!", "%"}
      BY <2>2, DigitChars DEF Chars, Inner
    <3> QED
      BY <3>1, Zenon DEF Txt
  <2> QED
    BY <2>1, <2>2
<1>4. {Blank, "-", "0", "x", "X", "%", "?", "error", "message"} \subseteq Txt
  BY Zenon DEF Txt
<1> QED
  BY <1>2, <1>3, <1>4

(* Padding is text, and none when the text is wide enough.                 *)
LEMMA RepeatIs ==
  ASSUME NEW c \in Txt, NEW k \in Int
  PROVE  Repeat(c, k) \in Seq(Txt) /\ (k <= 0 => Repeat(c, k) = <<>>)
<1>1. CASE k > 0
  BY <1>1 DEF Repeat
<1>2. CASE ~(k > 0)
  <2>1. Repeat(c, k) = [i \in 1..0 |-> c]
    BY <1>2 DEF Repeat
  <2>2. [i \in 1..0 |-> c] = <<>>
    OBVIOUS
  <2> QED
    BY <1>2, <2>1, <2>2
<1> QED
  BY <1>1, <1>2

(* Putting texts together in any order.                                    *)
LEMMA Associates ==
  ASSUME NEW X, NEW s \in Seq(X), NEW t \in Seq(X), NEW u \in Seq(X)
  PROVE  (s \o t) \o u = s \o (t \o u) /\ <<>> \o t = t
OBVIOUS

(* An argument read as an int or a long, signed or not, is below           *)
(* 2^LongBits, and so is its magnitude.                                    *)
LEMMA Bitfields ==
  ASSUME PrintFmtAssumption, NEW bits \in {IntBits, LongBits}, NEW x \in Nat
  PROVE  /\ Low(x, bits) \in Nat /\ Low(x, bits) < Power(2, LongBits)
         /\ Signed(x, bits) \in Int
         /\ Signed(x, bits) < Power(2, LongBits) /\ -Signed(x, bits) < Power(2, LongBits)
         /\ Power(2, LongBits) \in Nat
<1>1. bits \in Nat \ {0} /\ LongBits \in Nat /\ bits <= LongBits /\ bits - 1 \in Nat /\ (bits - 1) + 1 = bits
  <2>1. IntBits \in Nat \ {0} /\ LongBits \in Nat /\ LongBits > IntBits
    BY DEF PrintFmtAssumption
  <2> QED
    BY <2>1
<1>2. 2 \in Nat \ {0} /\ 2 \in {2, 10, 16}
  OBVIOUS
<1>3. /\ Power(2, bits) \in Nat \ {0} /\ Power(2, LongBits) \in Nat
      /\ Power(2, bits - 1) \in Nat \ {0} /\ Power(2, (bits - 1) + 1) = 2 * Power(2, bits - 1)
  BY <1>1, <1>2, Powers
<1>4. Power(2, bits) <= Power(2, LongBits)
  BY <1>1, <1>2, PowersGrow
<1> DEFINE P == Power(2, bits)
           Q == Power(2, bits-1)
           R == Power(2, LongBits)
           y == x % P
<1>5. P \in Nat \ {0} /\ Q \in Nat \ {0} /\ R \in Nat /\ P = 2 * Q /\ P <= R
  BY <1>1, <1>3, <1>4
<1>6. y \in 0 .. P-1
  <2> HIDE DEF P
  <2> QED
    BY <1>5
<1>7. Low(x, bits) = y /\ Signed(x, bits) = IF y < Q THEN y ELSE y - P
  BY DEF Low, Signed
<1> HIDE DEF P, Q, R, y
<1>8. /\ y \in Nat /\ y < R
  BY <1>5, <1>6
<1>9. CASE y < Q
  <2>1. Signed(x, bits) = y
    BY <1>7, <1>9
  <2> QED
    BY <1>5, <1>7, <1>8, <2>1 DEF R
<1>10. CASE ~(y < Q)
  <2>1. Signed(x, bits) = y - P
    BY <1>7, <1>10
  <2>2. y - P \in Int /\ y - P < R /\ -(y - P) < R
    BY <1>5, <1>6, <1>10
  <2> QED
    BY <1>5, <1>7, <1>8, <2>1, <2>2 DEF R
<1> QED
  BY <1>9, <1>10

(* printnum() writes the padding and then the numeral.                     *)
LEMMA Padded ==
  ASSUME PrintFmtAssumption, NEW base \in {10, 16}, NEW n \in Nat, n < Power(2, LongBits),
         NEW width \in Int, NEW padc \in Txt
  PROVE  LET w == Numeral(n, base)
             r == Repeat(padc, width - Len(w))
         IN  /\ printnum(n, base, width, padc) = r \o w
             /\ w \in Seq(Txt) /\ r \in Seq(Txt) /\ r \o w \in Seq(Txt) /\ Len(w) \in Nat
             /\ width < 0 => r \o w = w
<1> DEFINE w == Numeral(n, base)
           r == Repeat(padc, width - Len(w))
<1>1. w = Written(n, base)
  BY NumeralIsWritten
<1>2. printnum(n, base, width, padc) = r \o w
  BY <1>1, PrintedNumber
<1>3. w \in Seq(DigitsOf(base))
  BY <1>1, WrittenDigits
<1>4. DigitsOf(base) \subseteq Txt
  BY CharsAreText
<1> HIDE DEF w
<1>5. w \in Seq(Txt) /\ Len(w) \in Nat
  BY <1>3, <1>4
<1>6. r \in Seq(Txt) /\ (width < 0 => r = <<>>)
  BY <1>5, RepeatIs
<1> HIDE DEF r
<1>7. r \o w \in Seq(Txt) /\ <<>> \o w = w
  BY <1>5, <1>6
<1> QED
  BY <1>2, <1>5, <1>6, <1>7 DEF w, r

(* %d, %u and %x print what was asked for, unless it is padded with "-".   *)
LEMMA NumberPrinted ==
  ASSUME PrintFmtAssumption, NEW d \in Directive, d.conv \in {"d", "u", "x"}
  PROVE  LET num  == NumberAsked(d)
             N(k) == printnum(k, Radix(d), WidthOf(d), PadOf(d))
             text == IF num < 0 THEN <<"-">> \o N(-num) ELSE N(num)
         IN  /\ num \in Int /\ (d.conv # "d" => num >= 0)
             /\ text \in Seq(Txt) /\ Expected(d) \in Seq(Txt)
             /\ Right => text = Expected(d)
<1> DEFINE num == NumberAsked(d)
           m == IF num < 0 THEN -num ELSE num
           M == Magnitude(d)
           S == Sign(d)
           N(k) == printnum(k, Radix(d), WidthOf(d), PadOf(d))
           text == IF num < 0 THEN <<"-">> \o N(-num) ELSE N(num)
           fill == IF d.flag = "0" THEN "0" ELSE Blank
           R == Repeat(PadOf(d), d.width - Len(M))
           F == Repeat(fill, d.width - Len(M))
<1>1. /\ d.flag \in NumFlags /\ d.arg \in IntArgs /\ d.prec = -1 /\ d.longs \in {0, 1}
      /\ d.width \in WidthGiven /\ d.flag \in {NoFlag, "0", "-", "#"}
  BY DirectiveIs
<1>2. d.arg \in Nat
  <2>1. d.arg \in 0 .. Power(2, LongBits) - 1
    BY <1>1 DEF PrintFmtAssumption
  <2> QED
    BY <2>1
<1>3. Bits(d.longs) \in {IntBits, LongBits}
  BY DEF Bits
<1>4. /\ num \in Int /\ m \in Nat /\ m < Power(2, LongBits) /\ (d.conv # "d" => num >= 0)
  <2>1. CASE d.conv = "d"
    <3>1. num = Signed(d.arg, Bits(d.longs))
      BY <2>1 DEF NumberAsked
    <3> HIDE DEF num
    <3>2. num \in Int /\ num < Power(2, LongBits) /\ -num < Power(2, LongBits)
      BY <1>2, <1>3, <3>1, Bitfields
    <3> QED
      BY <2>1, <3>2
  <2>2. CASE d.conv # "d"
    <3>1. num = Low(d.arg, Bits(d.longs))
      BY <2>2 DEF NumberAsked
    <3> HIDE DEF num
    <3>2. num \in Nat /\ num < Power(2, LongBits)
      BY <1>2, <1>3, <3>1, Bitfields
    <3> QED
      BY <2>2, <3>2
  <2> QED
    BY <2>1, <2>2
<1>5. WidthOf(d) = d.width /\ d.width \in Int
  <2>1. WidthOf(d) = d.width
    BY <1>1 DEF WidthOf
  <2>3. d.width \in Int
    BY WidthIs
  <2> QED
    BY <2>1, <2>3
<1>6. Radix(d) \in {10, 16}
  BY DEF Radix
<1>7. PadOf(d) \in Txt /\ fill \in Txt /\ (Right => PadOf(d) = fill)
  <2>1. Right => d.flag # "-"
    BY <1>1, Zenon DEF Right
  <2>2. Blank \in Txt /\ "-" \in Txt /\ "0" \in Txt
    BY CharsAreText
  <2>3. PadOf(d) = IF d.flag = "-" THEN "-" ELSE fill
    BY Zenon DEF PadOf
  <2> QED
    BY <2>1, <2>2, <2>3
<1>8. M = Numeral(m, Radix(d)) /\ S = IF num < 0 THEN <<"-">> ELSE <<>>
  BY DEF Magnitude, Sign
<1>9. Expected(d) = S \o F \o M
  BY DEF Expected
<1> HIDE DEF num, m, M, S, fill
<1> DEFINE c == PadOf(d)
           w == d.width
           base == Radix(d)
<1>10a. /\ base \in {10, 16} /\ w \in Int /\ c \in Txt /\ fill \in Txt /\ (Right => c = fill)
        /\ N(m) = printnum(m, base, w, c) /\ M = Numeral(m, base)
        /\ R = Repeat(c, w - Len(M)) /\ F = Repeat(fill, w - Len(M))
  BY <1>5, <1>6, <1>7, <1>8
<1> HIDE DEF R, F, N, c, w, base
<1>10. /\ N(m) = R \o M /\ M \in Seq(Txt) /\ R \in Seq(Txt) /\ R \o M \in Seq(Txt) /\ Len(M) \in Nat
  <2>1. LET q == Numeral(m, base)
            r == Repeat(c, w - Len(q))
        IN  /\ printnum(m, base, w, c) = r \o q
            /\ q \in Seq(Txt) /\ r \in Seq(Txt) /\ r \o q \in Seq(Txt) /\ Len(q) \in Nat
    BY <1>4, <1>10a, Padded
  <2> QED
    BY <1>10a, <2>1
<1>11. F \in Seq(Txt) /\ (Right => F = R)
  <2>1. w - Len(M) \in Int
    BY <1>10, <1>10a
  <2>2. F \in Seq(Txt)
    BY <1>10a, <2>1, RepeatIs
  <2> QED
    BY <1>10a, <2>2
<1>12. S \in Seq(Txt) /\ <<"-">> \in Seq(Txt)
  <2>1. "-" \in Txt
    BY CharsAreText
  <2> QED
    BY <1>8, <2>1
<1>13. S \o F \o M \in Seq(Txt) /\ (S \o R) \o M = S \o (R \o M) /\ <<>> \o (R \o M) = R \o M
  <2>1. S \o F \in Seq(Txt)
    BY <1>11, <1>12, Joined
  <2>2. S \o F \o M \in Seq(Txt)
    BY <1>10, <2>1, Joined
  <2>3. (S \o R) \o M = S \o (R \o M) /\ <<>> \o (R \o M) = R \o M
    BY <1>10, <1>12, Associates
  <2> QED
    BY <2>2, <2>3
<1>14. text = S \o (R \o M)
  <2>1. CASE num < 0
    <3>1. m = -num /\ S = <<"-">>
      BY <1>8, <2>1 DEF m
    <3>2. text = <<"-">> \o N(m)
      BY <2>1, <3>1 DEF N
    <3> QED
      BY <1>10, <3>1, <3>2
  <2>2. CASE ~(num < 0)
    <3>1. m = num /\ S = <<>>
      BY <1>8, <2>2 DEF m
    <3>2. text = N(m)
      BY <2>2, <3>1 DEF N
    <3> QED
      BY <1>10, <1>13, <3>1, <3>2
  <2> QED
    BY <2>1, <2>2
<1>15. S \o (R \o M) \in Seq(Txt)
  BY <1>10, <1>12, Joined
<1> HIDE DEF text
<1>16. text \in Seq(Txt) /\ Expected(d) \in Seq(Txt) /\ (Right => text = Expected(d))
  BY <1>9, <1>11, <1>13, <1>14, <1>15
<1> QED
  BY <1>4, <1>16 DEF text, num, N

(* %p prints 0x and the numeral of all bits.                               *)
LEMMA PointerPrinted ==
  ASSUME PrintFmtAssumption, NEW d \in Directive, d.conv = "p"
  PROVE  /\ Expected(d) \in Seq(Txt)
         /\ <<"0", "x">> \o printnum(d.arg, 16, WidthOf(d), PadOf(d)) = Expected(d)
<1>1. d.arg \in IntArgs /\ d.width = -1 /\ d.prec = -1 /\ d.flag = NoFlag
  BY DirectiveIs
<1>2. d.arg \in Nat /\ d.arg < Power(2, LongBits)
  <2>1. d.arg \in 0 .. Power(2, LongBits) - 1
    BY <1>1 DEF PrintFmtAssumption
  <2>2. Power(2, LongBits) \in Nat
    <3>1. 2 \in Nat \ {0} /\ LongBits \in {IntBits, LongBits} /\ 0 \in Nat
      OBVIOUS
    <3> QED
      BY <3>1, Bitfields
  <2> QED
    BY <2>1, <2>2
<1>3. WidthOf(d) = -1
  BY <1>1 DEF WidthOf
<1>4. PadOf(d) = Blank
  BY <1>1, Literals DEF PadOf
<1>5. Blank \in Txt /\ "0" \in Txt /\ "x" \in Txt
  BY CharsAreText
<1> DEFINE n == d.arg
           M == Numeral(n, 16)
<1>6. n \in Nat /\ n < Power(2, LongBits) /\ Expected(d) = <<"0", "x">> \o M
  BY <1>2 DEF Expected
<1> HIDE DEF n
<1>7. /\ printnum(n, 16, -1, Blank) = Repeat(Blank, (-1) - Len(M)) \o M
      /\ M \in Seq(Txt)
      /\ Repeat(Blank, (-1) - Len(M)) \o M = M
  <2>1. 16 \in {10, 16} /\ -1 \in Int /\ (-1) < 0
    OBVIOUS
  <2> QED
    BY <1>5, <1>6, <2>1, Padded
<1>8. printnum(n, 16, -1, Blank) = M
  BY <1>7
<1> HIDE DEF M
<1>9. <<"0", "x">> \in Seq(Txt)
  BY <1>5
<1>10. <<"0", "x">> \o M \in Seq(Txt)
  BY <1>7, <1>9, Joined
<1> QED
  BY <1>3, <1>4, <1>6, <1>8, <1>10 DEF n

(* %e prints the message, or the code when there is none.                  *)
LEMMA ErrorPrinted ==
  ASSUME PrintFmtAssumption, NEW d \in Directive, d.conv = "e"
  PROVE  Expected(d) \in Seq(Txt) /\ printerr(Signed(d.arg, IntBits)) = Expected(d)
<1>1. d.arg \in IntArgs /\ MAXERROR \in Nat
  BY DirectiveIs DEF PrintFmtAssumption
<1>2. d.arg \in Nat
  <2>1. d.arg \in 0 .. Power(2, LongBits) - 1
    BY <1>1 DEF PrintFmtAssumption
  <2> QED
    BY <2>1
<1> DEFINE v == Signed(d.arg, IntBits)
           k == IF v < 0 THEN -v ELSE v
           M == Numeral(k, 10)
<1>3. k \in Nat /\ k < Power(2, LongBits)
  <2>1. IntBits \in {IntBits, LongBits}
    OBVIOUS
  <2>2. v \in Int /\ v < Power(2, LongBits) /\ -v < Power(2, LongBits)
    BY <1>2, <2>1, Bitfields
  <2> HIDE DEF v
  <2> QED
    BY <2>2
<1>4. Expected(d) = IF k \in 1 .. MAXERROR-1 THEN <<"message", Digit[k+1]>> ELSE <<"error">> \o M
  BY DEF Expected
<1>5. printerr(v) = IF k >= MAXERROR \/ k = 0 THEN <<"error">> \o printnum(k, 10, -1, Blank)
                    ELSE <<"message", Digit[k+1]>>
  BY DEF printerr
<1>6. Blank \in Txt /\ "error" \in Txt /\ "message" \in Txt
  BY CharsAreText
<1> HIDE DEF k
<1>7. printnum(k, 10, -1, Blank) = M /\ M \in Seq(Txt)
  <2>1. 10 \in {10, 16} /\ -1 \in Int /\ (-1) < 0
    OBVIOUS
  <2>2. /\ printnum(k, 10, -1, Blank) = Repeat(Blank, (-1) - Len(M)) \o M
        /\ M \in Seq(Txt) /\ Repeat(Blank, (-1) - Len(M)) \o M = M
    BY <1>3, <1>6, <2>1, Padded
  <2> QED
    BY <2>2
<1>8. Digit[k+1] \in Txt
  BY <1>3 DEF Txt
<1> HIDE DEF M, v
<1>9. CASE k \in 1 .. MAXERROR-1
  <2>1. Expected(d) = <<"message", Digit[k+1]>> /\ printerr(v) = <<"message", Digit[k+1]>>
    BY <1>1, <1>3, <1>4, <1>5, <1>9
  <2> DEFINE c == Digit[k+1]
  <2>2. c \in Txt
    BY <1>8
  <2> HIDE DEF c
  <2>3. <<"message", c>> \in Seq(Txt)
    BY <1>6, <2>2
  <2> QED
    BY <2>1, <2>3 DEF c, v
<1>10. CASE k \notin 1 .. MAXERROR-1
  <2>1. Expected(d) = <<"error">> \o M /\ printerr(v) = <<"error">> \o M
    BY <1>1, <1>3, <1>4, <1>5, <1>7, <1>10
  <2>2. <<"error">> \in Seq(Txt)
    BY <1>6
  <2>3. <<"error">> \o M \in Seq(Txt)
    BY <1>7, <2>2, Joined
  <2> QED
    BY <2>1, <2>3 DEF v
<1> QED
  BY <1>9, <1>10

(* %s prints the string up to its precision, padded on the side that its   *)
(* flag says.                                                              *)
LEMMA StringPrinted ==
  ASSUME PrintFmtAssumption, NEW d \in Directive, d.conv = "s"
  PROVE  /\ Expected(d) \in Seq(Txt)
         /\ printstr(StringOf(d.arg), WidthOf(d), d.prec, PadOf(d), AltOf(d)) = Expected(d)
<1> DEFINE p == StringOf(d.arg)
           len == strnlen(p, d.prec)
           n == IF d.prec = -1 THEN Len(p) ELSE Least(d.prec, Len(p))
           shown == [i \in 1..len |-> IF AltOf(d) = 1 /\ p[i] = "^" THEN "?" ELSE p[i]]
           B == Repeat(Blank, d.width - n)
<1>1. /\ d.flag \in {NoFlag, "-", "#"} /\ d.arg \in Strings /\ d.prec \in {-1, 2}
      /\ d.width \in Int /\ (d.width = -1 \/ d.width > 0)
  BY DirectiveIs, WidthIs
<1>2. p \in Seq(Txt)
  <2>1. /\ <<"(", "n", "u", "l", "l", ")">> \in Seq(Txt) /\ <<"x", "^", "y">> \in Seq(Txt)
        /\ <<>> \in Seq(Txt)
    <3>1. {"(", "n", "u", "l", ")", "x", "^", "y"} \subseteq Txt
      BY Zenon DEF Txt
    <3> QED
      BY <3>1
  <2> QED
    BY <1>1, <2>1 DEF StringOf, Strings
<1>3. len = n /\ n \in Nat /\ n <= Len(p)
  <2> HIDE DEF p
  <2>1. Len(p) \in Nat
    BY <1>2
  <2> QED
    BY <1>1, <2>1 DEF strnlen, Least
<1>4. shown = Shown(d)
  <2>1. p = IF d.arg = NULL THEN <<"(", "n", "u", "l", "l", ")">> ELSE d.arg
    BY DEF StringOf
  <2>2. AltOf(d) = 1 <=> d.flag = "#"
    BY DEF AltOf
  <2>3. Shown(d) = [i \in 1..n |-> IF p[i] = "^" /\ d.flag = "#" THEN "?" ELSE p[i]]
    BY <2>1, Zenon DEF Shown
  <2> HIDE DEF p, len, n
  <2> QED
    BY <1>3, <2>2, <2>3
<1>5. shown \in Seq(Txt) /\ Len(shown) = n
  <2>1. "?" \in Txt
    BY CharsAreText
  <2> HIDE DEF p, len, n
  <2>2. \A i \in 1..len : (IF AltOf(d) = 1 /\ p[i] = "^" THEN "?" ELSE p[i]) \in Txt
    <3> TAKE i \in 1..len
    <3>1. i \in 1..Len(p)
      BY <1>2, <1>3
    <3>2. p[i] \in Txt
      BY <1>2, <3>1
    <3> QED
      BY <2>1, <3>2
  <2> DEFINE f(i) == IF AltOf(d) = 1 /\ p[i] = "^" THEN "?" ELSE p[i]
  <2>3. shown = [i \in 1..n |-> f(i)] /\ \A i \in 1..n : f(i) \in Txt
    BY <1>3, <2>2
  <2> HIDE DEF f, shown
  <2> QED
    BY <1>3, <2>3
<1>6. Expected(d) = IF d.flag = "-" THEN shown \o B ELSE B \o shown
  <2> HIDE DEF shown, n
  <2>1. Expected(d) = IF d.flag = "-" THEN Shown(d) \o Repeat(Blank, d.width - Len(Shown(d)))
                      ELSE Repeat(Blank, d.width - Len(Shown(d))) \o Shown(d)
    BY DEF Expected
  <2> QED
    BY <1>4, <1>5, <2>1
<1>7. PadOf(d) = IF d.flag = "-" THEN "-" ELSE Blank
  BY <1>1, Literals, Zenon DEF PadOf
<1>8. Repeat(Blank, WidthOf(d) - n) = B /\ B \in Seq(Txt)
  <2>1. Blank \in Txt
    BY CharsAreText
  <2> HIDE DEF n
  <2>2. CASE d.width # -1
    <3>1. WidthOf(d) = d.width
      BY <2>2 DEF WidthOf
    <3> QED
      BY <1>1, <1>3, <2>1, <3>1, RepeatIs
  <2>3. CASE d.width = -1
    <3>1. WidthOf(d) \in {0, -1}
      BY <2>3 DEF WidthOf
    <3>2. WidthOf(d) - n \in Int /\ WidthOf(d) - n <= 0 /\ d.width - n \in Int /\ d.width - n <= 0
      BY <1>3, <2>3, <3>1
    <3>3. /\ Repeat(Blank, WidthOf(d) - n) = <<>> /\ Repeat(Blank, d.width - n) = <<>>
          /\ Repeat(Blank, d.width - n) \in Seq(Txt)
      BY <2>1, <3>2, RepeatIs
    <3> QED
      BY <3>3
  <2> QED
    BY <2>2, <2>3
<1>9. printstr(p, WidthOf(d), d.prec, PadOf(d), AltOf(d))
        = IF PadOf(d) = "-" THEN shown \o Repeat(IF PadOf(d) = "-" THEN Blank ELSE PadOf(d), WidthOf(d) - len)
          ELSE Repeat(IF PadOf(d) = "-" THEN Blank ELSE PadOf(d), WidthOf(d) - len) \o shown
  <2> HIDE DEF p
  <2> QED
    BY Zenon DEF printstr
<1> HIDE DEF shown, p, n, len, B
<1>10. Blank # "-"
  BY Literals
<1>11. shown \o B \in Seq(Txt) /\ B \o shown \in Seq(Txt)
  BY <1>5, <1>8, Joined
<1>12. CASE d.flag = "-"
  <2>1. PadOf(d) = "-"
    BY <1>7, <1>12
  <2>2. printstr(p, WidthOf(d), d.prec, PadOf(d), AltOf(d)) = shown \o B
    BY <1>3, <1>8, <1>9, <2>1
  <2>3. Expected(d) = shown \o B
    BY <1>6, <1>12
  <2> QED
    BY <1>11, <2>2, <2>3 DEF p
<1>13. CASE d.flag # "-"
  <2>1. PadOf(d) = Blank
    BY <1>7, <1>13
  <2>2. printstr(p, WidthOf(d), d.prec, PadOf(d), AltOf(d)) = B \o shown
    BY <1>3, <1>8, <1>9, <1>10, <2>1
  <2>3. Expected(d) = B \o shown
    BY <1>6, <1>13
  <2> QED
    BY <1>11, <2>2, <2>3 DEF p
<1> QED
  BY <1>12, <1>13

(* All of them; what is not a conversion is printed as it is written.      *)
LEMMA ExpectedIs ==
  ASSUME PrintFmtAssumption, NEW d \in Directive
  PROVE  /\ Expected(d) \in Seq(Txt) /\ Render(d) \in Seq(Chars) /\ Len(Render(d)) > 0
         /\ d.conv \in {"text", "!", "cut"} => Expected(d) = Render(d)
         /\ d.conv = "text" => Render(d) = <<"x">>
         /\ d.conv = "c" => Expected(d) = <<d.arg>>
         /\ d.conv = "o" => Expected(d) = <<"X", "X", "X">>
         /\ d.conv = "%" => Expected(d) = <<"%">>
<1>1. d.conv \in Plain \cup Takes \cup {"!", "cut"} /\ (d.conv = "c" => d.arg = "x")
  BY DirectiveIs
<1>2. d.conv = "text" => Render(d) = <<"x">>
  BY DEF Render
<1>3. Render(d) \in Seq(Chars) /\ Len(Render(d)) > 0
  <2>1. CASE d.conv = "text"
    <3>1. "x" \in Chars
      BY DEF Chars, Inner
    <3> DEFINE r == Render(d)
    <3>2. r = <<"x">>
      BY <1>2, <2>1
    <3> HIDE DEF r
    <3>3. r \in Seq(Chars) /\ Len(r) > 0
      BY <3>1, <3>2
    <3> QED
      BY <3>3 DEF r
  <2>2. CASE d.conv # "text"
    <3>1. Render(d) \in Seq(Chars) /\ Len(Render(d)) = Read(d, 5) + ConvLen(d)
      BY <2>2, Rendered
    <3>2. Read(d, 5) \in Nat \ {0} /\ ConvLen(d) \in Nat
      <4>1. 5 \in 0..5
        OBVIOUS
      <4> QED
        BY <4>1, ReadIs DEF ConvLen
    <3> QED
      BY <3>1, <3>2
  <2> QED
    BY <2>1, <2>2
<1>4. d.conv \in {"text", "!", "cut"} => Expected(d) = Render(d)
  BY DEF Expected
<1>5. d.conv = "c" => Expected(d) = <<d.arg>>
  BY DEF Expected
<1>6. d.conv = "o" => Expected(d) = <<"X", "X", "X">>
  BY DEF Expected
<1>7. d.conv = "%" => Expected(d) = <<"%">>
  BY DEF Expected
<1>8. Expected(d) \in Seq(Txt)
  <2>1. CASE d.conv \in {"text", "!", "cut"}
    <3>1. Chars \subseteq Txt
      BY CharsAreText
    <3> DEFINE r == Render(d)
    <3>2. r \in Seq(Chars) /\ Expected(d) = r
      BY <1>3, <1>4, <2>1
    <3> HIDE DEF r
    <3> QED
      BY <3>1, <3>2
  <2>2. CASE d.conv \in {"d", "u", "x"}
    BY <2>2, NumberPrinted
  <2>3. CASE d.conv = "p"
    BY <2>3, PointerPrinted
  <2>4. CASE d.conv = "e"
    BY <2>4, ErrorPrinted
  <2>5. CASE d.conv = "s"
    BY <2>5, StringPrinted
  <2>6. CASE d.conv \in {"c", "o", "%"}
    <3>1. "x" \in Txt /\ "X" \in Txt /\ "%" \in Txt
      BY CharsAreText
    <3>2. <<"x">> \in Seq(Txt) /\ <<"X", "X", "X">> \in Seq(Txt) /\ <<"%">> \in Seq(Txt)
      BY <3>1
    <3> QED
      BY <1>1, <1>5, <1>6, <1>7, <2>6, <3>2
  <2> QED
    BY <1>1, <2>1, <2>2, <2>3, <2>4, <2>5, <2>6 DEF Plain, Takes
<1> QED
  BY <1>2, <1>3, <1>4, <1>5, <1>6, <1>7, <1>8

-----------------------------------------------------------------------------
(* What was asked, as a whole: the format is the directives one after the  *)
(* other, and so are the arguments and the text.                           *)
LEMMA AskedIs ==
  ASSUME PrintFmtAssumption, AskedOK
  PROVE  /\ Len(asked) \in Nat /\ \A i \in 1..Len(asked) : asked[i] \in Directive
         /\ Formats \in Seq(Seq(Chars)) /\ Len(Formats) = Len(asked)
         /\ ArgLists \in Seq(Seq(Arg)) /\ Len(ArgLists) = Len(asked)
         /\ Texts \in Seq(Seq(Txt)) /\ Len(Texts) = Len(asked)
         /\ \A i \in 1..Len(asked) : /\ Formats[i] = Render(asked[i])
                                     /\ ArgLists[i] = Arguments(asked[i])
                                     /\ Texts[i] = Expected(asked[i])
<1> DEFINE n == Len(asked)
<1>1. n \in Nat /\ \A i \in 1..n : asked[i] \in Directive
  <2>1. asked \in Seq(Directive)
    BY DEF AskedOK
  <2> QED
    BY <2>1
<1>2. \A i \in 1..n : /\ Render(asked[i]) \in Seq(Chars)
                      /\ Arguments(asked[i]) \in Seq(Arg)
                      /\ Expected(asked[i]) \in Seq(Txt)
  BY <1>1, ExpectedIs, ArgumentsAre
<1> HIDE DEF n
<1>3. /\ Formats = [i \in 1..n |-> Render(asked[i])]
      /\ ArgLists = [i \in 1..n |-> Arguments(asked[i])]
      /\ Texts = [i \in 1..n |-> Expected(asked[i])]
  BY DEF Formats, ArgLists, Texts, n
<1>4. Formats \in Seq(Seq(Chars)) /\ Len(Formats) = n
  BY <1>1, <1>2, <1>3
<1>5. ArgLists \in Seq(Seq(Arg)) /\ Len(ArgLists) = n
  BY <1>1, <1>2, <1>3
<1>6. Texts \in Seq(Seq(Txt)) /\ Len(Texts) = n
  BY <1>1, <1>2, <1>3
<1> QED
  BY <1>1, <1>3, <1>4, <1>5, <1>6 DEF n

(* Where each directive is in the format.                                  *)
LEMMA FormatIs ==
  ASSUME PrintFmtAssumption, AskedOK
  PROVE  /\ EndOf(0) = 0 /\ Len(fmt) = EndOf(Len(asked)) + 1
         /\ fmt[EndOf(Len(asked)) + 1] = "NUL"
         /\ \A i \in 0..Len(asked) : EndOf(i) \in Nat /\ EndOf(i) < Len(fmt)
         /\ \A i \in 1..Len(asked) :
              /\ EndOf(i) = EndOf(i-1) + Len(Render(asked[i]))
              /\ \A j \in 1..Len(Render(asked[i])) : fmt[EndOf(i-1) + j] = Render(asked[i])[j]
<1> DEFINE n == Len(asked)
           F == FlattenSeq(Formats)
<1>1. n \in Nat /\ Formats \in Seq(Seq(Chars)) /\ Len(Formats) = n
  BY AskedIs
<1>2. /\ EndOf(0) = Len(<<>>) /\ EndOf(n) = Len(F)
      /\ \A i \in 0..n : Pieces(Formats, i) \in Seq(Chars)
  BY <1>1, PiecesAre DEF EndOf
<1>3. \A i \in 0..n : EndOf(i) \in Nat
  BY <1>2 DEF EndOf
<1>4. F \in Seq(Chars)
  <2>1. n \in 0..n
    BY <1>1
  <2>2. Pieces(Formats, Len(Formats)) = F
    BY <1>1, PiecesAre
  <2>3. Pieces(Formats, n) = F
    BY <1>1, <2>2
  <2> QED
    BY <1>2, <2>1, <2>3
<1>5. fmt = Append(F, "NUL")
  BY DEF AskedOK
<1>6. \A i \in 1..n : LET r == Render(asked[i]) IN
        /\ r \in Seq(Chars) /\ EndOf(i) = EndOf(i-1) + Len(r) /\ EndOf(i) <= Len(F)
        /\ \A j \in 1..Len(r) : F[EndOf(i-1) + j] = r[j]
  <2> SUFFICES ASSUME NEW i \in 1..n
               PROVE  LET r == Render(asked[i]) IN
                      /\ r \in Seq(Chars) /\ EndOf(i) = EndOf(i-1) + Len(r) /\ EndOf(i) <= Len(F)
                      /\ \A j \in 1..Len(r) : F[EndOf(i-1) + j] = r[j]
    OBVIOUS
  <2>1. Formats[i] = Render(asked[i]) /\ Render(asked[i]) \in Seq(Chars)
    BY AskedIs, ExpectedIs
  <2>2. i \in 1..Len(Formats)
    BY <1>1
  <2>3. /\ EndOf(i) = EndOf(i-1) + Len(Formats[i]) /\ EndOf(i) <= Len(F)
        /\ \A j \in 1..Len(Formats[i]) : F[EndOf(i-1) + j] = Formats[i][j]
    BY <1>1, <2>2, PieceAt DEF EndOf
  <2> QED
    BY <2>1, <2>3
<1> HIDE DEF F
<1>7. Len(fmt) = Len(F) + 1 /\ fmt[Len(F) + 1] = "NUL" /\ Len(F) \in Nat
      /\ \A j \in 1..Len(F) : fmt[j] = F[j]
  BY <1>4, <1>5
<1>8. \A i \in 0..n : EndOf(i) <= Len(F)
  <2> TAKE i \in 0..n
  <2>1. CASE i = 0
    BY <1>2, <1>7, <2>1
  <2>2. CASE i # 0
    <3>1. i \in 1..n
      BY <1>1, <2>2
    <3> QED
      BY <1>6, <3>1
  <2> QED
    BY <2>1, <2>2
<1>9. ASSUME NEW i \in 1..n
      PROVE  \A j \in 1..Len(Render(asked[i])) : fmt[EndOf(i-1) + j] = Render(asked[i])[j]
  <2> TAKE j \in 1..Len(Render(asked[i]))
  <2>1. i - 1 \in 0..n /\ EndOf(i-1) \in Nat /\ Len(Render(asked[i])) \in Nat
    BY <1>1, <1>3, <1>6
  <2>2. EndOf(i-1) + j \in 1..Len(F)
    BY <1>6, <1>7, <2>1
  <2> QED
    BY <1>6, <1>7, <2>2
<1> QED
  BY <1>2, <1>3, <1>6, <1>7, <1>8, <1>9

(* Where the arguments of each directive are in the argument list; the     *)
(* next one is always there to be taken.                                   *)
LEMMA ArgsAre ==
  ASSUME PrintFmtAssumption, AskedOK
  PROVE  /\ ArgsFrom(TakenBy(0)) = FlattenSeq(ArgLists)
         /\ ArgsFrom(TakenBy(Len(asked))) = <<>>
         /\ \A i \in 0..Len(asked) : TakenBy(i) \in Nat
         /\ \A q \in Nat : ArgsFrom(q) \in Seq(Arg)
         /\ \A i \in 1..Len(asked) :
              /\ TakenBy(i) = TakenBy(i-1) + Len(Arguments(asked[i]))
              /\ \A j \in 1..Len(Arguments(asked[i])) :
                   LET a    == ArgsFrom(TakenBy(i-1) + (j-1))
                       rest == ArgsFrom(TakenBy(i-1) + j)
                   IN  /\ a # <<>> /\ Head(a) = Arguments(asked[i])[j]
                       /\ Tail(a) = rest /\ SubSeq(a, 1 + 1, Len(a)) = rest
<1> DEFINE n == Len(asked)
           A == FlattenSeq(ArgLists)
<1>1. n \in Nat /\ ArgLists \in Seq(Seq(Arg)) /\ Len(ArgLists) = n
  BY AskedIs
<1>2. /\ TakenBy(0) = Len(<<>>) /\ TakenBy(n) = Len(A)
      /\ \A i \in 0..n : Pieces(ArgLists, i) \in Seq(Arg)
  BY <1>1, PiecesAre DEF TakenBy
<1>3. \A i \in 0..n : TakenBy(i) \in Nat
  BY <1>2 DEF TakenBy
<1>4. A \in Seq(Arg)
  <2>1. n \in 0..n
    BY <1>1
  <2>2. Pieces(ArgLists, Len(ArgLists)) = A
    BY <1>1, PiecesAre
  <2>3. Pieces(ArgLists, n) = A
    BY <1>1, <2>2
  <2> QED
    BY <1>2, <2>1, <2>3
<1>5. \A q : ArgsFrom(q) = SubSeq(A, q + 1, Len(A))
  BY DEF ArgsFrom
<1>6. \A i \in 1..n : LET r == Arguments(asked[i]) IN
        /\ r \in Seq(Arg) /\ TakenBy(i) = TakenBy(i-1) + Len(r) /\ TakenBy(i) <= Len(A)
        /\ \A j \in 1..Len(r) : A[TakenBy(i-1) + j] = r[j]
  <2> SUFFICES ASSUME NEW i \in 1..n
               PROVE  LET r == Arguments(asked[i]) IN
                      /\ r \in Seq(Arg) /\ TakenBy(i) = TakenBy(i-1) + Len(r) /\ TakenBy(i) <= Len(A)
                      /\ \A j \in 1..Len(r) : A[TakenBy(i-1) + j] = r[j]
    OBVIOUS
  <2>1. ArgLists[i] = Arguments(asked[i]) /\ Arguments(asked[i]) \in Seq(Arg)
    BY AskedIs, ArgumentsAre
  <2>2. i \in 1..Len(ArgLists)
    BY <1>1
  <2>3. /\ TakenBy(i) = TakenBy(i-1) + Len(ArgLists[i]) /\ TakenBy(i) <= Len(A)
        /\ \A j \in 1..Len(ArgLists[i]) : A[TakenBy(i-1) + j] = ArgLists[i][j]
    BY <1>1, <2>2, PieceAt DEF TakenBy
  <2> QED
    BY <2>1, <2>3
<1> HIDE DEF A
<1>7. ASSUME NEW q \in Nat, q < Len(A)
      PROVE  LET a == ArgsFrom(q)
                 rest == ArgsFrom(q + 1)
             IN  /\ a # <<>> /\ Head(a) = A[q+1]
                 /\ Tail(a) = rest /\ SubSeq(a, 1 + 1, Len(a)) = rest
  <2> DEFINE a == SubSeq(A, q + 1, Len(A))
             rest == SubSeq(A, (q + 1) + 1, Len(A))
  <2>1. /\ a \in Seq(Arg) /\ Len(a) = Len(A) - q /\ Len(A) \in Nat
        /\ \A j \in 1 .. Len(A) - q : a[j] = A[q + j]
    BY <1>4, <1>7
  <2>2. /\ rest \in Seq(Arg) /\ Len(rest) = Len(A) - (q + 1)
        /\ \A j \in 1 .. Len(A) - (q + 1) : rest[j] = A[(q + 1) + j]
    BY <1>4, <1>7
  <2>3. ArgsFrom(q) = a /\ ArgsFrom(q + 1) = rest
    BY <1>5
  <2> HIDE DEF a, rest
  <2>4. a # <<>> /\ Head(a) = A[q+1]
    BY <1>7, <2>1
  <2>5. /\ Tail(a) \in Seq(Arg) /\ Len(Tail(a)) = Len(A) - (q + 1)
        /\ \A j \in 1 .. Len(A) - (q + 1) : Tail(a)[j] = a[j + 1]
    BY <1>7, <2>1
  <2>6. \A j \in 1 .. Len(A) - (q + 1) : Tail(a)[j] = rest[j]
    <3> TAKE j \in 1 .. Len(A) - (q + 1)
    <3> DEFINE m == Len(A)
    <3>1. m \in Nat /\ j \in 1 .. m - (q + 1)
      BY <2>1
    <3> HIDE DEF m
    <3>2. j + 1 \in 1 .. m - q /\ q + (j + 1) = (q + 1) + j
      BY <3>1
    <3>3. a[j + 1] = A[q + (j + 1)] /\ rest[j] = A[(q + 1) + j] /\ Tail(a)[j] = a[j + 1]
      BY <2>1, <2>2, <2>5, <3>2 DEF m
    <3> QED
      BY <3>2, <3>3
  <2>7. Tail(a) = rest
    <3> DEFINE t == Tail(a)
    <3>1. t \in Seq(Arg) /\ Len(t) = Len(rest) /\ \A j \in 1..Len(rest) : t[j] = rest[j]
      BY <2>2, <2>5, <2>6
    <3> HIDE DEF t
    <3>2. t = rest
      BY <2>2, <3>1
    <3> QED
      BY <3>2 DEF t
  <2>8. SubSeq(a, 1 + 1, Len(a)) = Tail(a)
    BY <2>1, <2>4
  <2> QED
    BY <2>3, <2>4, <2>7, <2>8
<1>8. ASSUME NEW i \in 1..n, NEW j \in 1..Len(Arguments(asked[i]))
      PROVE  LET a    == ArgsFrom(TakenBy(i-1) + (j-1))
                 rest == ArgsFrom(TakenBy(i-1) + j)
             IN  /\ a # <<>> /\ Head(a) = Arguments(asked[i])[j]
                 /\ Tail(a) = rest /\ SubSeq(a, 1 + 1, Len(a)) = rest
  <2> DEFINE q == TakenBy(i-1) + (j-1)
  <2>1. i - 1 \in 0..n /\ TakenBy(i-1) \in Nat /\ Len(Arguments(asked[i])) \in Nat /\ Len(A) \in Nat
    BY <1>1, <1>3, <1>4, <1>6
  <2>2. q \in Nat /\ q < Len(A) /\ q + 1 = TakenBy(i-1) + j /\ A[q+1] = Arguments(asked[i])[j]
    BY <1>6, <2>1
  <2> HIDE DEF q
  <2>3. /\ ArgsFrom(q) # <<>> /\ Head(ArgsFrom(q)) = A[q+1]
        /\ Tail(ArgsFrom(q)) = ArgsFrom(q+1) /\ SubSeq(ArgsFrom(q), 1 + 1, Len(ArgsFrom(q))) = ArgsFrom(q+1)
    BY <1>7, <2>2
  <2>4. ArgsFrom(q+1) = ArgsFrom(TakenBy(i-1) + j)
    BY <2>2
  <2> QED
    BY <2>2, <2>3, <2>4 DEF q
<1>9. ArgsFrom(TakenBy(0)) = A /\ ArgsFrom(TakenBy(n)) = <<>>
  <2>1. ArgsFrom(TakenBy(0)) = SubSeq(A, 0 + 1, Len(A)) /\ ArgsFrom(TakenBy(n)) = SubSeq(A, Len(A) + 1, Len(A))
    BY <1>2, <1>5
  <2>2. SubSeq(A, 0 + 1, Len(A)) = A /\ SubSeq(A, Len(A) + 1, Len(A)) = <<>>
    BY <1>4
  <2> QED
    BY <2>1, <2>2
<1>10. \A q \in Nat : ArgsFrom(q) \in Seq(Arg)
  <2> TAKE q \in Nat
  <2>1. Len(A) \in Nat /\ \A j \in 1..Len(A) : A[j] \in Arg
    BY <1>4
  <2>2. \A j \in q + 1 .. Len(A) : A[j] \in Arg
    BY <2>1
  <2>3. SubSeq(A, q + 1, Len(A)) \in Seq(Arg)
    BY <1>4, <2>1, <2>2
  <2> QED
    BY <1>5, <2>3
<1> QED
  BY <1>3, <1>6, <1>8, <1>9, <1>10 DEF A

(* What the directives up to one of them print.                            *)
LEMMA TextsAre ==
  ASSUME PrintFmtAssumption, AskedOK
  PROVE  /\ Pieces(Texts, 0) = <<>> /\ Pieces(Texts, Len(asked)) = FlattenSeq(Texts)
         /\ \A i \in 0..Len(asked) : Pieces(Texts, i) \in Seq(Txt)
         /\ \A i \in 1..Len(asked) : Pieces(Texts, i) = Pieces(Texts, i-1) \o Expected(asked[i])
<1>1. /\ Texts \in Seq(Seq(Txt)) /\ Len(Texts) = Len(asked)
      /\ \A i \in 1..Len(asked) : Texts[i] = Expected(asked[i])
  BY AskedIs
<1> QED
  BY <1>1, PiecesAre

(* What is known of a directive at any point of it is within the types.    *)
LEMMA OptionsAre ==
  ASSUME PrintFmtAssumption, NEW d \in Directive, NEW k \in 0..5
  PROVE  OptionsOK(Parsed(d, k))
<1> DEFINE W == -1 .. Power(2, LongBits) - 1
<1>1. d.width \in W /\ d.prec \in W /\ 0 \in W /\ -1 \in W /\ WidthOf(d) \in W
  <2>1. d.width \in W /\ d.prec \in W /\ 0 \in W
    BY WidthIs
  <2>2. -1 \in W
    <3>1. 2 \in Nat \ {0} /\ LongBits \in Nat
      BY DEF PrintFmtAssumption
    <3>2. Power(2, LongBits) \in Nat \ {0}
      BY <3>1, Powers
    <3> QED
      BY <3>2
  <2> HIDE DEF W
  <2> QED
    BY <2>1, <2>2 DEF WidthOf
<1>2. PadOf(d) \in {Blank, "0", "-"} /\ AltOf(d) \in 0..1 /\ d.longs \in Nat /\ 0 \in Nat
  <2>1. PadOf(d) \in {Blank, "0", "-"}
    BY Zenon DEF PadOf
  <2>2. AltOf(d) \in 0..1
    BY DEF AltOf
  <2>3. d.longs \in {0, 1}
    BY DirectiveIs
  <2> QED
    BY <2>1, <2>2, <2>3
<1>3. ASSUME NEW w \in W, NEW p \in W, NEW l \in Nat, NEW a \in 0..1,
             NEW c \in {Blank, "0", "-"}
      PROVE  OptionsOK(Known(c, w, p, l, a))
  BY DEF OptionsOK, Known
<1>4. Fresh = Known(Blank, -1, -1, 0, 0) /\ Blank \in {Blank, "0", "-"} /\ 0 \in 0..1
  <2>1. Fresh = Known(Blank, -1, -1, 0, 0) /\ Blank \in {Blank, "0", "-"}
    BY Zenon DEF Fresh, Known
  <2> QED
    BY <2>1
<1>5. k = 0 \/ k = 1 \/ k = 2 \/ k = 3 \/ k = 4 \/ k = 5
  OBVIOUS
<1> HIDE DEF W
<1>6. CASE k = 0
  BY <1>1, <1>2, <1>3, <1>4, <1>6, ParsedIs
<1>7. CASE k = 1
  BY <1>1, <1>2, <1>3, <1>7, ParsedIs
<1>8. CASE k = 2
  BY <1>1, <1>2, <1>3, <1>8, ParsedIs
<1>9. CASE k = 3
  BY <1>1, <1>2, <1>3, <1>9, ParsedIs
<1>10. CASE k = 4
  BY <1>1, <1>2, <1>3, <1>10, ParsedIs
<1>11. CASE k = 5
  BY <1>1, <1>2, <1>3, <1>11, ParsedIs
<1> QED
  BY <1>5, <1>6, <1>7, <1>8, <1>9, <1>10, <1>11

(* What has been stored and counted stays what vsnprintf() promises of the *)
(* whole text, however it is cut into pieces.                              *)
LEMMA Putting ==
  ASSUME size \in Nat, size > 0, BufferOK, NEW s \in Seq(Txt), Put(s), size' = size
  PROVE  /\ BufferOK'
         /\ \A w \in Seq(Txt) : b = Printed(w) => b' = Printed(w \o s)
<1> DEFINE room == size - 1
           old == b.buf
           all == old \o s
           new == SubSeq(all, 1, Least(room, Len(all)))
<1>1. room \in Nat /\ old \in Seq(Txt) /\ b.cnt \in Nat
  BY DEF BufferOK
<1>2. b' = [buf |-> new, cnt |-> b.cnt + Len(s)]
  BY DEF Put, sprintputch
<1>3. all \in Seq(Txt) /\ Len(s) \in Nat
  BY <1>1
<1>4. new \in Seq(Txt) /\ Len(new) <= room
  <2> HIDE DEF all
  <2>1. Len(all) \in Nat /\ Least(room, Len(all)) \in Nat /\ Least(room, Len(all)) <= room
        /\ Least(room, Len(all)) <= Len(all)
    BY <1>1, <1>3 DEF Least
  <2> HIDE DEF room
  <2> QED
    BY <1>3, <2>1
<1>5. BufferOK'
  <2> HIDE DEF new
  <2>1. b'.buf = new /\ b'.cnt = b.cnt + Len(s)
    BY <1>2
  <2>2. Len(new) < size
    BY <1>1, <1>4
  <2> QED
    BY <1>1, <1>3, <1>4, <2>1, <2>2 DEF BufferOK
<1>6. ASSUME NEW w \in Seq(Txt), b = Printed(w)
      PROVE  b' = Printed(w \o s)
  <2> DEFINE u == w \o s
             have == Least(room, Len(w))
             want == Least(room, Len(u))
  <2>1. old = SubSeq(w, 1, have) /\ b.cnt = Len(w)
    BY <1>6 DEF Printed
  <2>2. /\ u \in Seq(Txt) /\ Len(u) = Len(w) + Len(s) /\ Len(w) \in Nat
        /\ \A j \in 1..Len(w) : u[j] = w[j]
        /\ \A j \in 1..Len(s) : u[Len(w) + j] = s[j]
    BY Joined
  <2>3. have \in Nat /\ have <= Len(w) /\ have <= room /\ (have < Len(w) => have = room)
    BY <1>1, <2>2 DEF Least
  <2>4. Len(old) = have /\ \A j \in 1..have : old[j] = w[j]
    <3> HIDE DEF old, have
    <3> QED
      BY <2>1, <2>2, <2>3
  <2>5. /\ Len(all) = have + Len(s)
        /\ \A j \in 1..have : all[j] = w[j]
        /\ \A j \in 1..Len(s) : all[have + j] = s[j]
    <3>1. /\ Len(all) = Len(old) + Len(s)
          /\ \A j \in 1..Len(old) : all[j] = old[j]
          /\ \A j \in 1..Len(s) : all[Len(old) + j] = s[j]
      <4> HIDE DEF old
      <4> QED
        BY <1>1, Joined
    <3> HIDE DEF all, old, have
    <3> QED
      BY <2>4, <3>1
  <2> HIDE DEF u, have, all, old
  <2>6. want \in Nat /\ want <= Len(u) /\ want <= room /\ Least(room, Len(all)) = want
        /\ want <= Len(all)
    <3> DEFINE m == Len(all)
               l == Len(u)
               lw == Len(w)
               ls == Len(s)
    <3>1. /\ room \in Nat /\ ls \in Nat /\ lw \in Nat /\ have \in Nat
          /\ l = lw + ls /\ m = have + ls /\ have <= lw /\ have <= room
          /\ have < lw => have = room
      BY <1>1, <1>3, <2>2, <2>3, <2>5
    <3>2. want = Least(room, l)
      OBVIOUS
    <3> HIDE DEF m, l, lw, ls, room, want
    <3>3. /\ Least(room, l) \in Nat /\ Least(room, l) <= l /\ Least(room, l) <= room
          /\ Least(room, m) = Least(room, l) /\ Least(room, l) <= m
      BY <3>1 DEF Least
    <3> QED
      BY <3>2, <3>3 DEF m, l
  <2>7. \A j \in 1..want : all[j] = u[j]
    <3> HIDE DEF want, room
    <3> TAKE j \in 1..want
    <3>1. CASE j <= have
      BY <2>2, <2>3, <2>5, <2>6, <3>1
    <3>2. CASE j > have
      <4>1. have = Len(w)
        BY <2>2, <2>3, <2>6, <3>2
      <4> DEFINE i == j - have
      <4>2. i \in 1..Len(s) /\ j = have + i
        BY <1>3, <2>2, <2>3, <2>5, <2>6, <3>2, <4>1
      <4> HIDE DEF i
      <4> QED
        BY <2>2, <2>5, <4>1, <4>2
    <3> QED
      BY <2>3, <2>6, <3>1, <3>2
  <2>8. new = SubSeq(u, 1, want)
    <3> HIDE DEF want
    <3> DEFINE x == SubSeq(all, 1, want)
               y == SubSeq(u, 1, want)
    <3>1. new = x
      BY <2>6
    <3>2. x \in Seq(Txt) /\ Len(x) = want /\ \A j \in 1..want : x[j] = all[j]
      BY <1>3, <2>6
    <3>3. y \in Seq(Txt) /\ Len(y) = want /\ \A j \in 1..want : y[j] = u[j]
      BY <2>2, <2>6
    <3> HIDE DEF x, y, new
    <3>4. x = y
      BY <2>6, <2>7, <3>2, <3>3
    <3> QED
      BY <3>1, <3>4 DEF y
  <2> HIDE DEF new
  <2>9. b' = [buf |-> SubSeq(u, 1, want), cnt |-> Len(u)]
    BY <1>2, <2>1, <2>2, <2>8
  <2>10. Printed(u) = [buf |-> SubSeq(u, 1, want), cnt |-> Len(u)]
    BY DEF Printed
  <2> QED
    BY <2>9, <2>10 DEF u
<1> QED
  BY <1>5, <1>6

(* No step changes the format, what was asked for or the size.             *)
Still == asked' = asked /\ fmt' = fmt /\ size' = size

(* While the format stays as it is, so does all that is computed from it.  *)
LEMMA Kept ==
  ASSUME Still
  PROVE  /\ Formats' = Formats /\ ArgLists' = ArgLists /\ Texts' = Texts
         /\ size' = size /\ asked' = asked
         /\ AskedOK => AskedOK'
<1>1. Formats' = Formats /\ ArgLists' = ArgLists /\ Texts' = Texts
  BY DEF Formats, ArgLists, Texts, Still
<1>2. AskedOK => AskedOK'
  BY <1>1, Zenon DEF AskedOK, Still
<1> QED
  BY <1>1, <1>2 DEF Still
-----------------------------------------------------------------------------
(* The character read decides the step.                                    *)
LEMMA Guards ==
  /\ Literal => at = "text" /\ ch \notin {"%", "NUL"}
  /\ Return => at = "text" /\ ch = "NUL"
  /\ Escape => at = "text" /\ ch = "%"
  /\ Flag => at = "escape" /\ ch \in {"-", "0", "#"}
  /\ Count => at = "escape" /\ ch \in {"1", "2", "3", "4", "5", "6", "7", "8", "9"}
  /\ Star => at = "escape" /\ ch = "*"
  /\ Dot => at = "escape" /\ ch = "."
  /\ Long => at = "escape" /\ ch = "l"
  /\ Decimal => at = "escape" /\ ch = "d"
  /\ Unsigned => at = "escape" /\ ch = "u"
  /\ Hex => at = "escape" /\ ch = "x"
  /\ Pointer => at = "escape" /\ ch = "p"
  /\ Character => at = "escape" /\ ch = "c"
  /\ Error => at = "escape" /\ ch = "e"
  /\ String => at = "escape" /\ ch = "s"
  /\ Octal => at = "escape" /\ ch = "o"
  /\ Percent => at = "escape" /\ ch = "%"
  /\ Unrecognized => at = "escape" /\ ch \in {"!", "NUL"}
<1> USE DEF Case, Conversion
<1>1. /\ Literal => at = "text" /\ ch \notin {"%", "NUL"}
      /\ Return => at = "text" /\ ch = "NUL"
      /\ Escape => at = "text" /\ ch = "%"
  BY Zenon DEF Literal, Return, Escape
<1>2. /\ Flag => at = "escape" /\ ch \in {"-", "0", "#"}
      /\ Star => at = "escape" /\ ch = "*"
      /\ Dot => at = "escape" /\ ch = "."
      /\ Long => at = "escape" /\ ch = "l"
  BY Zenon DEF Flag, Star, Dot, Long
<1>3. Count => at = "escape" /\ ch \in {"1", "2", "3", "4", "5", "6", "7", "8", "9"}
  BY DigitChars, Zenon DEF Count
<1>4. /\ Decimal => at = "escape" /\ ch = "d"
      /\ Unsigned => at = "escape" /\ ch = "u"
      /\ Hex => at = "escape" /\ ch = "x"
      /\ Pointer => at = "escape" /\ ch = "p"
      /\ Character => at = "escape" /\ ch = "c"
  BY Zenon DEF Decimal, Unsigned, Hex, Pointer, Character
<1>5. /\ Error => at = "escape" /\ ch = "e"
      /\ String => at = "escape" /\ ch = "s"
      /\ Octal => at = "escape" /\ ch = "o"
      /\ Percent => at = "escape" /\ ch = "%"
      /\ Unrecognized => at = "escape" /\ ch \in {"!", "NUL"}
  BY Zenon DEF Error, String, Octal, Percent, Unrecognized
<1> QED
  BY <1>1, <1>2, <1>3, <1>4, <1>5, Zenon

(* Outside an escape the character decides which step is taken ...         *)
LEMMA WhileText ==
  ASSUME Next, at = "text"
  PROVE  /\ ch = "%" => Escape
         /\ ch = "NUL" => Return
         /\ ch \notin {"%", "NUL"} => Literal
BY Guards DEF Next

(* ... and within one likewise: the cases exclude one another.             *)
LEMMA WhileEscape ==
  ASSUME Next, at = "escape"
  PROVE  /\ ch \in {"-", "0", "#"} => Flag
         /\ ch \in {Digit[k] : k \in 2..10} => Count
         /\ ch = "*" => Star
         /\ ch = "." => Dot
         /\ ch = "l" => Long
         /\ ch = "d" => Decimal
         /\ ch = "u" => Unsigned
         /\ ch = "x" => Hex
         /\ ch = "p" => Pointer
         /\ ch = "c" => Character
         /\ ch = "e" => Error
         /\ ch = "s" => String
         /\ ch = "o" => Octal
         /\ ch = "%" => Percent
         /\ ch \in {"!", "NUL"} => Unrecognized
<1>1. ch \in {Digit[k] : k \in 2..10} => ch \in {"1", "2", "3", "4", "5", "6", "7", "8", "9"}
  BY DigitChars
<1>2. CASE ch \in {"-", "0", "#"}
  BY <1>1, <1>2, Guards DEF Next
<1>3. CASE ch \in {"1", "2", "3", "4", "5", "6", "7", "8", "9"}
  BY <1>1, <1>3, Guards DEF Next
<1>4. CASE ch \in {"*", ".", "l", "d", "u", "x", "p"}
  BY <1>1, <1>4, Guards DEF Next
<1>5. CASE ch \in {"c", "e", "s", "o", "%", "!", "NUL"}
  BY <1>1, <1>5, Guards DEF Next
<1> QED
  BY <1>1, <1>2, <1>3, <1>4, <1>5

(* The character at the place that Within(i, k) gives.                     *)
Here(i, k) == fmt[EndOf(i-1) + Read(asked[i], k) + 1]
Digits(i, k, w) ==
  /\ w \in Seq(DigitsOf(10)) /\ Len(w) > 0
  /\ Read(asked[i], k+1) = Read(asked[i], k) + Len(w)
  /\ \A j \in 1..Len(w) : fmt[EndOf(i-1) + Read(asked[i], k) + j] = w[j]

(* The character that comes next in a directive is that of its next part.  *)
LEMMA HereIs ==
  ASSUME PrintFmtAssumption, AskedOK, NEW i \in 1..Len(asked), asked[i].conv # "text"
  PROVE  LET d == asked[i] IN
         /\ Has(d, 1) => Here(i, 0) = d.flag
         /\ Has(d, 2) => IF d.star THEN Here(i, 1) = "*" ELSE Digits(i, 1, Amount(d, d.width))
         /\ Has(d, 3) => Here(i, 2) = "."
         /\ Has(d, 4) => IF d.star THEN Here(i, 3) = "*" ELSE Digits(i, 3, Amount(d, d.prec))
         /\ Has(d, 5) => Here(i, 4) = "l"
         /\ Here(i, 5) = IF d.conv = "cut" THEN "NUL" ELSE d.conv
         /\ \A k \in 0..5 : /\ Read(d, k) \in Nat \ {0} /\ EndOf(i-1) \in Nat
                            /\ EndOf(i-1) + Read(d, k) + 1 <= Len(fmt)
<1> DEFINE d == asked[i]
           r == Render(d)
           p == EndOf(i-1)
<1>1. d \in Directive
  BY AskedIs
<1>2. /\ p \in Nat /\ EndOf(i) = p + Len(r) /\ EndOf(i) < Len(fmt)
      /\ \A j \in 1..Len(r) : fmt[p + j] = r[j]
  <2>1. i - 1 \in 0..Len(asked) /\ i \in 0..Len(asked)
    BY AskedIs
  <2> QED
    BY <2>1, FormatIs
<1>3. /\ r \in Seq(Chars) /\ Len(r) = Read(d, 5) + ConvLen(d) /\ Len(r) \in Nat
      /\ d.flag # NoFlag => r[Read(d, 0) + 1] = d.flag
      /\ d.width # -1 => \A j \in 1..Len(Amount(d, d.width)) :
                           r[Read(d, 1) + j] = Amount(d, d.width)[j]
      /\ d.prec # -1 => /\ r[Read(d, 2) + 1] = "."
                        /\ \A j \in 1..Len(Amount(d, d.prec)) :
                             r[Read(d, 3) + j] = Amount(d, d.prec)[j]
      /\ d.longs = 1 => r[Read(d, 4) + 1] = "l"
      /\ d.conv # "cut" => r[Read(d, 5) + 1] = d.conv
  BY <1>1, Rendered
<1>4. /\ \A k \in 0..5 : Read(d, k) \in Nat \ {0} /\ Read(d, k) <= Read(d, 5)
      /\ Read(d, 1) = Read(d, 0) + FlagLen(d)
      /\ d.width # -1 => Read(d, 2) = Read(d, 1) + Len(Amount(d, d.width))
      /\ Read(d, 3) = Read(d, 2) + DotLen(d)
      /\ d.prec # -1 => Read(d, 4) = Read(d, 3) + Len(Amount(d, d.prec))
      /\ Read(d, 5) = Read(d, 4) + d.longs
  BY <1>1, ReadIs
<1>5. d.star \in BOOLEAN /\ d.width \in {-1} \cup Widths /\ d.prec \in {-1, 2} /\ d.longs \in {0, 1}
  BY <1>1, DirectiveIs DEF WidthGiven
<1>6. ASSUME NEW k \in Widths \cup {2}
      PROVE  /\ Len(Amount(d, k)) > 0 /\ Len(Amount(d, k)) \in Nat
             /\ d.star => Amount(d, k) = <<"*">>
             /\ ~d.star => Amount(d, k) \in Seq(DigitsOf(10))
  BY <1>5, AmountIs
<1>7. ConvLen(d) = (IF d.conv = "cut" THEN 0 ELSE 1) /\ ConvLen(d) \in Nat
  BY DEF ConvLen
<1> HIDE DEF d, r, p
<1>8. \A k \in 0..5 : p + Read(d, k) + 1 <= Len(fmt)
  <2> TAKE k \in 0..5
  <2>1. Read(d, k) \in Nat /\ Read(d, k) <= Read(d, 5) /\ Read(d, 5) \in Nat
    BY <1>4
  <2>2. p + Len(r) < Len(fmt) /\ Len(r) >= Read(d, 5) /\ Len(fmt) \in Nat
    <3>1. Len(fmt) = EndOf(Len(asked)) + 1 /\ EndOf(Len(asked)) \in Nat
      <4>1. Len(asked) \in 0..Len(asked)
        BY AskedIs
      <4> QED
        BY <4>1, FormatIs
    <3> QED
      BY <1>2, <1>3, <1>7, <2>1, <3>1
  <2> QED
    BY <1>2, <1>3, <2>1, <2>2
<1>9. \A k \in 0..5 : Here(i, k) = fmt[p + Read(d, k) + 1]
  BY DEF Here, d, p
<1>10. ASSUME NEW k \in 0..5, Read(d, k) + 1 <= Len(r)
       PROVE  Here(i, k) = r[Read(d, k) + 1]
  <2>1. Read(d, k) + 1 \in 1..Len(r) /\ p + Read(d, k) + 1 = p + (Read(d, k) + 1)
    <3>1. Read(d, k) \in Nat /\ p \in Nat /\ Len(r) \in Nat
      BY <1>2, <1>3, <1>4
    <3> QED
      BY <1>10, <3>1
  <2> QED
    BY <1>2, <1>9, <2>1
<1>11. Has(d, 1) => Here(i, 0) = d.flag
  <2>1. Has(d, 1) => d.flag # NoFlag /\ FlagLen(d) = 1
    BY DEF Has, FlagLen
  <2>2. FlagLen(d) = 1 => Read(d, 0) + 1 <= Len(r)
    BY <1>3, <1>4, <1>7
  <2> QED
    BY <1>3, <1>10, <2>1, <2>2
<1>12. Has(d, 3) => Here(i, 2) = "."
  <2>1. Has(d, 3) => d.prec # -1 /\ DotLen(d) = 1
    BY DEF Has, DotLen
  <2>2. DotLen(d) = 1 => Read(d, 2) + 1 <= Len(r)
    BY <1>3, <1>4, <1>7
  <2> QED
    BY <1>3, <1>10, <2>1, <2>2
<1>13. Has(d, 5) => Here(i, 4) = "l"
  <2>1. Has(d, 5) => d.longs = 1
    BY DEF Has
  <2>2. d.longs = 1 => Read(d, 4) + 1 <= Len(r)
    BY <1>3, <1>4, <1>7
  <2> QED
    BY <1>3, <1>10, <2>1, <2>2
<1>14. Here(i, 5) = IF d.conv = "cut" THEN "NUL" ELSE d.conv
  <2>1. CASE d.conv # "cut"
    <3>1. Read(d, 5) + 1 <= Len(r)
      BY <1>3, <1>4, <1>7, <2>1
    <3> QED
      BY <1>3, <1>10, <2>1, <3>1
  <2>2. CASE d.conv = "cut"
    <3>1. i = Len(asked)
      BY <2>2 DEF AskedOK, d
    <3>2. fmt[EndOf(i) + 1] = "NUL"
      BY <3>1, FormatIs
    <3>3. EndOf(i) = p + Read(d, 5)
      BY <1>2, <1>3, <1>4, <1>7, <2>2
    <3> QED
      BY <1>9, <2>2, <3>2, <3>3
  <2> QED
    BY <2>1, <2>2
<1>15. ASSUME NEW k \in {1, 3}, NEW v \in Widths \cup {2},
              Read(d, k+1) = Read(d, k) + Len(Amount(d, v)),
              \A j \in 1..Len(Amount(d, v)) : r[Read(d, k) + j] = Amount(d, v)[j]
       PROVE  IF d.star THEN Here(i, k) = "*" ELSE Digits(i, k, Amount(d, v))
  <2> DEFINE w == Amount(d, v)
  <2>1. Len(w) \in Nat /\ Len(w) > 0
    BY <1>6
  <2>2. Read(d, k) \in Nat /\ Read(d, k) + Len(w) <= Len(r)
    <3>1. k \in 0..5 /\ k + 1 \in 0..5
      OBVIOUS
    <3>2. Read(d, k) \in Nat /\ Read(d, k+1) \in Nat /\ Read(d, k+1) <= Read(d, 5) /\ Read(d, 5) \in Nat
      BY <1>4, <3>1
    <3>3. Len(r) = Read(d, 5) + ConvLen(d) /\ Read(d, k+1) = Read(d, k) + Len(w)
      BY <1>3, <1>15
    <3> HIDE DEF w
    <3> QED
      BY <1>7, <3>2, <3>3
  <2>3. \A j \in 1..Len(w) : fmt[p + Read(d, k) + j] = w[j]
    <3> TAKE j \in 1..Len(w)
    <3> HIDE DEF w
    <3>1. Read(d, k) + j \in 1..Len(r) /\ p + Read(d, k) + j = p + (Read(d, k) + j)
      <4>1. p \in Nat /\ Len(r) \in Nat
        BY <1>2, <1>3
      <4> QED
        BY <2>1, <2>2, <4>1
    <3>2. fmt[p + (Read(d, k) + j)] = r[Read(d, k) + j]
      BY <1>2, <3>1
    <3>3. r[Read(d, k) + j] = w[j]
      BY <1>15 DEF w
    <3> QED
      BY <3>1, <3>2, <3>3
  <2>4. CASE d.star
    <3>1. w = <<"*">> /\ 1 \in 1..Len(w)
      BY <1>6, <2>1, <2>4
    <3>2. fmt[p + Read(d, k) + 1] = "*"
      BY <2>3, <3>1
    <3>3. Here(i, k) = "*"
      BY <1>9, <3>2
    <3> QED
      BY <2>4, <3>3
  <2>5. CASE ~d.star
    <3>1. w \in Seq(DigitsOf(10))
      BY <1>6, <2>5
    <3>2. Digits(i, k, w)
      BY <1>15, <2>1, <2>3, <3>1 DEF Digits, d, p
    <3> QED
      BY <2>5, <3>2
  <2> QED
    BY <2>4, <2>5
<1>16. Has(d, 2) => IF d.star THEN Here(i, 1) = "*" ELSE Digits(i, 1, Amount(d, d.width))
  <2> SUFFICES ASSUME Has(d, 2) PROVE IF d.star THEN Here(i, 1) = "*" ELSE Digits(i, 1, Amount(d, d.width))
    OBVIOUS
  <2>1. d.width # -1 /\ d.width \in Widths \cup {2} /\ 1 \in {1, 3} /\ 1 + 1 = 2
    BY <1>5 DEF Has
  <2> QED
    BY <1>3, <1>4, <1>15, <2>1
<1>17. Has(d, 4) => IF d.star THEN Here(i, 3) = "*" ELSE Digits(i, 3, Amount(d, d.prec))
  <2> SUFFICES ASSUME Has(d, 4) PROVE IF d.star THEN Here(i, 3) = "*" ELSE Digits(i, 3, Amount(d, d.prec))
    OBVIOUS
  <2>1. d.prec # -1 /\ d.prec \in Widths \cup {2} /\ 3 \in {1, 3} /\ 3 + 1 = 4
    BY <1>5 DEF Has
  <2> QED
    BY <1>3, <1>4, <1>15, <2>1
<1> QED
  BY <1>2, <1>4, <1>8, <1>11, <1>12, <1>13, <1>14, <1>16, <1>17 DEF d, p

(* A digit string of the format ends where the directive's number does:    *)
(* what comes next is no digit.                                            *)
LEMMA NoDigitNext ==
  ASSUME PrintFmtAssumption, AskedOK, NEW i \in 1..Len(asked), asked[i].conv # "text",
         NEW k \in {2, 4}
  PROVE  Here(i, k) \notin DigitsOf(10)
<1> DEFINE d == asked[i]
<1>1. d \in Directive
  BY AskedIs
<1>2. /\ Has(d, 3) => Here(i, 2) = "."
      /\ Has(d, 5) => Here(i, 4) = "l"
      /\ Here(i, 5) = IF d.conv = "cut" THEN "NUL" ELSE d.conv
  BY HereIs
<1>3. d.conv \in Plain \cup Takes \cup {"!", "cut"}
  BY <1>1, DirectiveIs
<1>4. \A m \in 0..4 : ~Has(d, m+1) => Here(i, m+1) = Here(i, m)
  BY <1>1, Skip DEF Here
<1>5. ~Has(d, 3) => ~Has(d, 4)
  BY DEF Has
<1> HIDE DEF d
<1>6. Here(i, 5) \notin DigitsOf(10)
  BY <1>2, <1>3, DigitChars DEF Plain, Takes
<1>7. Here(i, 4) \notin DigitsOf(10)
  <2>1. CASE Has(d, 5)
    BY <1>2, <2>1, DigitChars
  <2>2. CASE ~Has(d, 5)
    <3>1. 4 \in 0..4 /\ 4 + 1 = 5
      OBVIOUS
    <3> QED
      BY <1>4, <1>6, <2>2, <3>1
  <2> QED
    BY <2>1, <2>2
<1>8. Here(i, 2) \notin DigitsOf(10)
  <2>1. CASE Has(d, 3)
    BY <1>2, <2>1, DigitChars
  <2>2. CASE ~Has(d, 3)
    <3>1. 2 \in 0..4 /\ 2 + 1 = 3 /\ 3 \in 0..4 /\ 3 + 1 = 4
      OBVIOUS
    <3> QED
      BY <1>4, <1>5, <1>7, <2>2, <3>1
  <2> QED
    BY <2>1, <2>2
<1> QED
  BY <1>7, <1>8

(* The digits that `case '1'...'9'' takes in, and their value.             *)
DigitsEnd(f, p, e1) ==
  f[e1] \notin {Digit[k] : k \in 1..10} /\ \A j \in p .. e1-1 : f[j] \in {Digit[k] : k \in 1..10}

(* The digits that the count takes in are all of it and nothing else.      *)
LEMMA Counted ==
  ASSUME NEW X, NEW f \in Seq(X), NEW p \in Nat, NEW w \in Seq(DigitsOf(10)), Len(w) > 0,
         \A j \in 1..Len(w) : f[p + j] = w[j],
         p + Len(w) + 1 <= Len(f), f[p + Len(w) + 1] \notin DigitsOf(10)
  PROVE  LET e1 == CHOOSE i \in (p+1)+1 .. Len(f) : DigitsEnd(f, p+1, i)
         IN  /\ e1 = p + Len(w) + 1
             /\ SubSeq(f, p+1, e1 - 1) = w
<1> DEFINE n == Len(w)
           e1 == p + n + 1
           S == (p+1)+1 .. Len(f)
<1>1. n \in Nat /\ n > 0 /\ Len(f) \in Nat /\ \A j \in 1..n : w[j] \in DigitsOf(10)
  OBVIOUS
<1>2. DigitsOf(10) = {Digit[k] : k \in 1..10}
  BY DEF DigitsOf
<1> HIDE DEF n
<1>3. \A j \in p+1 .. e1-1 : f[j] \in DigitsOf(10)
  <2> TAKE j \in p+1 .. e1-1
  <2>1. j - p \in 1..n /\ p + (j - p) = j
    BY <1>1
  <2>2. f[p + (j - p)] = w[j - p]
    BY <2>1 DEF n
  <2> QED
    BY <1>1, <2>1, <2>2
<1>4. e1 \in S
  BY <1>1 DEF n
<1>5. f[e1] \notin DigitsOf(10)
  BY DEF n
<1>6. DigitsEnd(f, p+1, e1)
  BY <1>2, <1>3, <1>5 DEF DigitsEnd
<1>7. ASSUME NEW i \in S, DigitsEnd(f, p+1, i)
      PROVE  i = e1
  <2>1. f[i] \notin DigitsOf(10) /\ \A j \in p+1 .. i-1 : f[j] \in DigitsOf(10)
    BY <1>2, <1>7 DEF DigitsEnd
  <2>2. ~(i < e1)
    <3> SUFFICES ASSUME i < e1 PROVE FALSE
      OBVIOUS
    <3>1. i \in p+1 .. e1-1
      BY <1>1
    <3> QED
      BY <1>3, <2>1, <3>1
  <2>3. ~(e1 < i)
    <3> SUFFICES ASSUME e1 < i PROVE FALSE
      OBVIOUS
    <3>1. e1 \in p+1 .. i-1
      BY <1>1
    <3> QED
      BY <1>5, <2>1, <3>1
  <2> QED
    BY <1>1, <2>2, <2>3
<1>8. (CHOOSE i \in S : DigitsEnd(f, p+1, i)) = e1
  <2> HIDE DEF e1, S
  <2> QED
    BY <1>4, <1>6, <1>7
<1>9. SubSeq(f, p+1, e1 - 1) = w
  <2> DEFINE x == SubSeq(f, p+1, p+n)
  <2>1. x \in Seq(X) /\ Len(x) = n /\ \A j \in 1..n : x[j] = f[p + j]
    BY <1>1 DEF n
  <2>2. e1 - 1 = p + n
    BY <1>1
  <2> HIDE DEF x, e1
  <2>3. x = w
    BY <2>1 DEF n
  <2> QED
    BY <2>2, <2>3 DEF x
<1> QED
  BY <1>8, <1>9 DEF n

(* How a state is recognised after a step.                                 *)
LEMMA ToBetween ==
  ASSUME Still, NEW i, at' = "text", pos' = EndOf(i) + 1, args' = ArgsFrom(TakenBy(i)),
         Right => b' = Printed(Pieces(Texts, i))
  PROVE  Between(i)'
<1>1. Formats' = Formats /\ ArgLists' = ArgLists /\ Texts' = Texts /\ size' = size
  BY Kept
<1> QED
  BY <1>1, Zenon DEF Between, Shows, EndOf, TakenBy, ArgsFrom, Pieces, Printed

(* A step that ends within a directive ...                                 *)
LEMMA ToWithin ==
  ASSUME Still, NEW i, NEW k, at' = "escape", asked[i].conv # "text",
         pos' = EndOf(i-1) + Read(asked[i], k) + 1, e' = Parsed(asked[i], k),
         args' = ArgsFrom(TakenBy(i-1) + Taken(asked[i], k)),
         Right => b' = Printed(Pieces(Texts, i-1))
  PROVE  Within(i, k)'
<1>1. /\ Formats' = Formats /\ ArgLists' = ArgLists /\ Texts' = Texts /\ size' = size
      /\ asked' = asked
  BY Kept
<1> QED
  BY <1>1, Zenon DEF Within, Shows, EndOf, TakenBy, ArgsFrom, Pieces, Printed

(* ... or in an escape that is printed literally.                          *)
LEMMA ToLiterally ==
  ASSUME Still, NEW i, NEW k, at' = "text", asked[i].conv \in {"!", "cut"},
         pos' = EndOf(i-1) + k + 1, args' = ArgsFrom(TakenBy(i)),
         Right => b' = Printed(Pieces(Texts, i-1) \o SubSeq(Render(asked[i]), 1, k))
  PROVE  Literally(i, k)'
<1>1. /\ Formats' = Formats /\ ArgLists' = ArgLists /\ Texts' = Texts /\ size' = size
      /\ asked' = asked
  BY Kept
<1> QED
  BY <1>1, Zenon DEF Literally, Shows, EndOf, TakenBy, ArgsFrom, Pieces, Printed

-----------------------------------------------------------------------------
(* The steps outside an escape.                                            *)
LEMMA TextStep ==
  ASSUME PrintFmtAssumption, AskedOK, BufferOK, size \in Nat, size > 0, Next,
         NEW i \in 1..Len(asked), Between(i-1), asked[i].conv = "text"
  PROVE  Still /\ e' = e /\ BufferOK' /\ Between(i)'
<1> DEFINE d == asked[i]
<1>1. d \in Directive /\ i - 1 \in 0..Len(asked) /\ d.conv = "text"
  BY AskedIs
<1>2. Render(d) = <<"x">> /\ Expected(d) = <<"x">>
  BY <1>1, ExpectedIs
<1>3. /\ EndOf(i-1) \in Nat /\ EndOf(i) = EndOf(i-1) + Len(Render(d))
      /\ \A j \in 1..Len(Render(d)) : fmt[EndOf(i-1) + j] = Render(d)[j]
  BY <1>1, FormatIs
<1>4. EndOf(i) = EndOf(i-1) + 1 /\ fmt[EndOf(i-1) + 1] = "x"
  BY <1>2, <1>3
<1>5. at = "text" /\ pos = EndOf(i-1) + 1 /\ args = ArgsFrom(TakenBy(i-1)) /\ Shows(Pieces(Texts, i-1))
  BY DEF Between
<1>6. ch = "x"
  BY <1>4, <1>5 DEF ch
<1>7. Literal
  BY <1>5, <1>6, WhileText
<1>8. /\ Put(<<"x">>) /\ pos' = pos + 1 /\ e' = e /\ args' = args /\ at' = "text" /\ Still
  BY <1>5, <1>6, <1>7, Zenon DEF Literal, Still
<1>9. <<"x">> \in Seq(Txt)
  BY CharsAreText
<1>10. /\ BufferOK'
       /\ \A w \in Seq(Txt) : b = Printed(w) => b' = Printed(w \o <<"x">>)
  <2> DEFINE s == <<"x">>
  <2>1. s \in Seq(Txt) /\ Put(s) /\ size' = size
    BY <1>8, <1>9 DEF Still
  <2> HIDE DEF s
  <2>2. /\ BufferOK'
        /\ \A w \in Seq(Txt) : b = Printed(w) => b' = Printed(w \o s)
    BY <2>1, Putting
  <2> QED
    BY <2>2 DEF s
<1>11. Pieces(Texts, i-1) \in Seq(Txt) /\ Pieces(Texts, i) = Pieces(Texts, i-1) \o <<"x">>
  BY <1>1, <1>2, TextsAre
<1>12. TakenBy(i) = TakenBy(i-1)
  <2>1. d.star = FALSE /\ d.conv \notin Takes
    BY <1>1, DirectiveIs DEF Plain, Takes
  <2>2. Len(Arguments(d)) = Taken(d, 5) + Owns(d)
    BY <1>1, ArgumentsAre
  <2>3. Taken(d, 5) = 0 /\ Owns(d) = 0
    BY <2>1, TakenIs DEF Starred, Owns
  <2>4. TakenBy(i-1) \in Nat /\ TakenBy(i) = TakenBy(i-1) + Len(Arguments(d))
    BY <1>1, ArgsAre
  <2> QED
    BY <2>2, <2>3, <2>4
<1>13. Right => b' = Printed(Pieces(Texts, i))
  BY <1>5, <1>10, <1>11 DEF Shows
<1>14. pos' = EndOf(i) + 1
  BY <1>3, <1>4, <1>5, <1>8
<1> QED
  BY <1>5, <1>8, <1>10, <1>12, <1>13, <1>14, ToBetween

(* From a "%" the directive is read with fresh options.                    *)
LEMMA EscapeStep ==
  ASSUME PrintFmtAssumption, AskedOK, Next,
         NEW i \in 1..Len(asked), Between(i-1), asked[i].conv # "text"
  PROVE  Still /\ b' = b /\ Within(i, 0)'
<1> DEFINE d == asked[i]
<1>1. d \in Directive /\ i - 1 \in 0..Len(asked) /\ d.conv # "text"
  BY AskedIs
<1>2. Render(d)[1] = "%" /\ 1 \in 1..Len(Render(d))
  <2>1. Render(d) \in Seq(Chars) /\ Len(Render(d)) > 0
    BY <1>1, ExpectedIs
  <2>2. Render(d)[1] = "%"
    BY <1>1, Rendered
  <2> QED
    BY <2>1, <2>2
<1>3. /\ EndOf(i-1) \in Nat
      /\ \A j \in 1..Len(Render(d)) : fmt[EndOf(i-1) + j] = Render(d)[j]
  BY <1>1, FormatIs
<1>4. at = "text" /\ pos = EndOf(i-1) + 1 /\ args = ArgsFrom(TakenBy(i-1)) /\ Shows(Pieces(Texts, i-1))
  BY DEF Between
<1>5. ch = "%"
  BY <1>2, <1>3, <1>4 DEF ch
<1>6. Escape
  BY <1>4, <1>5, WhileText
<1>7. /\ at' = "escape" /\ pos' = pos + 1 /\ e' = Fresh /\ args' = args /\ b' = b /\ Still
  BY <1>6, Zenon DEF Escape, Still, Reset
<1>8. Read(d, 0) = 1 /\ Parsed(d, 0) = Fresh /\ Taken(d, 0) = 0
  BY <1>1, ReadIs, ParsedIs, TakenIs
<1>9. TakenBy(i-1) + Taken(d, 0) = TakenBy(i-1)
  <2>1. TakenBy(i-1) \in Nat
    BY <1>1, ArgsAre
  <2> QED
    BY <1>8, <2>1
<1>10. pos' = EndOf(i-1) + Read(d, 0) + 1
  BY <1>3, <1>4, <1>7, <1>8
<1>11. Right => b' = Printed(Pieces(Texts, i-1))
  BY <1>4, <1>7 DEF Shows
<1>12. args' = ArgsFrom(TakenBy(i-1) + Taken(d, 0))
  BY <1>4, <1>7, <1>9
<1> QED
  BY <1>1, <1>7, <1>8, <1>10, <1>11, <1>12, ToWithin

(* At the NUL the whole has been printed and no argument is left.          *)
LEMMA ReturnStep ==
  ASSUME PrintFmtAssumption, AskedOK, Next, Between(Len(asked))
  PROVE  Still /\ e' = e /\ b' = b /\ Finished'
<1> DEFINE n == Len(asked)
<1>1. /\ fmt[EndOf(n) + 1] = "NUL" /\ Len(fmt) = EndOf(n) + 1 /\ EndOf(n) \in Nat
      /\ ArgsFrom(TakenBy(n)) = <<>> /\ Pieces(Texts, n) = FlattenSeq(Texts)
  <2>1. n \in 0..n
    BY AskedIs
  <2> QED
    BY <2>1, FormatIs, ArgsAre, TextsAre
<1>2. at = "text" /\ pos = EndOf(n) + 1 /\ args = ArgsFrom(TakenBy(n)) /\ Shows(Pieces(Texts, n))
  BY DEF Between
<1>3. ch = "NUL"
  BY <1>1, <1>2 DEF ch
<1>4. Return
  BY <1>2, <1>3, WhileText
<1>5. at' = "done" /\ pos' = pos /\ args' = args /\ e' = e /\ b' = b /\ Still
  BY <1>4, Zenon DEF Return, Still
<1>6. args' = <<>> /\ (Right => b' = Printed(FlattenSeq(Texts)))
  BY <1>1, <1>2, <1>5 DEF Shows
<1>7. pos' \in 1..Len(fmt')
  BY <1>1, <1>2, <1>5 DEF Still
<1>8. Texts' = Texts /\ size' = size
  BY <1>5, Kept
<1>9. Finished'
  BY <1>5, <1>6, <1>7, <1>8, Zenon DEF Finished, Shows, Printed
<1> QED
  BY <1>5, <1>9

(* An escape that is printed as it is written.                             *)
LEMMA LiteralStep ==
  ASSUME PrintFmtAssumption, AskedOK, BufferOK, size \in Nat, size > 0, Next,
         NEW i \in 1..Len(asked), NEW k \in 1..Len(Render(asked[i])), k < Len(Render(asked[i])),
         Literally(i, k)
  PROVE  Still /\ e' = e /\ BufferOK' /\ Literally(i, k+1)'
<1> DEFINE d == asked[i]
           r == Render(d)
           c == r[k+1]
<1>1. d \in Directive /\ i - 1 \in 0..Len(asked)
  BY AskedIs
<1>2. /\ at = "text" /\ d.conv \in {"!", "cut"} /\ pos = EndOf(i-1) + k + 1
      /\ args = ArgsFrom(TakenBy(i)) /\ Shows(Pieces(Texts, i-1) \o SubSeq(r, 1, k))
  BY DEF Literally
<1>3. r \in Seq(Chars) /\ \A j \in 2..Len(r) : r[j] \in Inner
  BY <1>1, <1>2, Rendered
<1>4. /\ EndOf(i-1) \in Nat
      /\ \A j \in 1..Len(r) : fmt[EndOf(i-1) + j] = r[j]
  BY <1>1, FormatIs
<1> HIDE DEF d, r
<1>5. k + 1 \in 2..Len(r) /\ k \in Nat /\ k < Len(r) /\ Len(r) \in Nat
  BY <1>3 DEF r, d
<1>6. c \in Inner /\ ch = c
  <2>1. k + 1 \in 1..Len(r) /\ pos = EndOf(i-1) + (k + 1)
    BY <1>2, <1>4, <1>5
  <2> QED
    BY <1>3, <1>4, <1>5, <2>1 DEF ch
<1> HIDE DEF c
<1>7. c \notin {"%", "NUL"}
  BY <1>6 DEF Inner
<1>8. Literal
  BY <1>2, <1>6, <1>7, WhileText
<1>9. Put(<<c>>) /\ pos' = pos + 1 /\ e' = e /\ args' = args /\ at' = "text" /\ Still
  BY <1>2, <1>6, <1>8, Zenon DEF Literal, Still
<1>10. Chars \subseteq Txt /\ Inner \subseteq Txt
  BY CharsAreText DEF Chars
<1>11. <<c>> \in Seq(Txt) /\ SubSeq(r, 1, k) \in Seq(Txt)
  <2>1. c \in Txt
    BY <1>6, <1>10
  <2>2. r \in Seq(Txt)
    BY <1>3, <1>10
  <2>3. \A j \in 1..k : r[j] \in Txt
    BY <1>5, <2>2
  <2> QED
    BY <1>5, <2>1, <2>2, <2>3
<1>12. SubSeq(r, 1, k) \o <<c>> = SubSeq(r, 1, k+1)
  <2> DEFINE x == SubSeq(r, 1, k)
             y == SubSeq(r, 1, k+1)
             z == x \o <<c>>
  <2>1. x \in Seq(Chars) /\ Len(x) = k /\ \A j \in 1..k : x[j] = r[j]
    BY <1>3, <1>5
  <2>2. y \in Seq(Chars) /\ Len(y) = k + 1 /\ \A j \in 1..k+1 : y[j] = r[j]
    BY <1>3, <1>5
  <2>3. c \in Chars
    BY <1>6 DEF Chars
  <2>4. c = r[k+1]
    BY DEF c
  <2> HIDE DEF x, y
  <2>5. z \in Seq(Chars) /\ Len(z) = k + 1 /\ z[k+1] = c /\ \A j \in 1..k : z[j] = x[j]
    BY <1>5, <2>1, <2>3
  <2>6. \A j \in 1..k+1 : z[j] = y[j]
    BY <1>5, <2>1, <2>2, <2>4, <2>5
  <2> HIDE DEF z
  <2>7. z = y
    BY <1>5, <2>2, <2>5, <2>6
  <2> QED
    BY <2>7 DEF x, y, z
<1>13. Pieces(Texts, i-1) \in Seq(Txt)
  BY <1>1, TextsAre
<1> DEFINE q == Pieces(Texts, i-1)
           s == SubSeq(r, 1, k)
           t == <<c>>
<1> HIDE DEF q, s, t
<1>14. q \in Seq(Txt) /\ s \in Seq(Txt) /\ t \in Seq(Txt) /\ Put(t) /\ size' = size
  BY <1>9, <1>11, <1>13 DEF q, s, t, Still
<1>15. BufferOK' /\ \A w \in Seq(Txt) : b = Printed(w) => b' = Printed(w \o t)
  BY <1>14, Putting
<1>16. (q \o s) \o t = q \o (s \o t) /\ q \o s \in Seq(Txt)
  BY <1>14
<1>17. Right => b' = Printed(q \o (s \o t))
  <2>1. Shows(q \o s)
    BY <1>2 DEF q, s
  <2> QED
    BY <1>15, <1>16, <2>1 DEF Shows
<1>18. Right => b' = Printed(Pieces(Texts, i-1) \o SubSeq(r, 1, k+1))
  BY <1>12, <1>17, Zenon DEF q, s, t
<1>19. pos' = EndOf(i-1) + (k+1) + 1
  BY <1>2, <1>4, <1>5, <1>9
<1>20. args' = ArgsFrom(TakenBy(i))
  BY <1>2, <1>9
<1> QED
  BY <1>2, <1>9, <1>15, <1>18, <1>19, <1>20, ToLiterally DEF r, d

(* An escape printed literally to its end is a directive done.             *)
LEMMA LiteralEnd ==
  ASSUME PrintFmtAssumption, AskedOK, NEW i \in 1..Len(asked),
         Literally(i, Len(Render(asked[i])))
  PROVE  Between(i)
<1> DEFINE d == asked[i]
           r == Render(d)
<1>1. d \in Directive /\ i - 1 \in 0..Len(asked)
  BY AskedIs
<1>2. /\ at = "text" /\ d.conv \in {"!", "cut"} /\ pos = EndOf(i-1) + Len(r) + 1
      /\ args = ArgsFrom(TakenBy(i)) /\ Shows(Pieces(Texts, i-1) \o SubSeq(r, 1, Len(r)))
  BY DEF Literally
<1>3. r \in Seq(Chars) /\ Expected(d) = r
  BY <1>1, <1>2, ExpectedIs
<1>4. EndOf(i) = EndOf(i-1) + Len(r)
  BY FormatIs
<1>5. SubSeq(r, 1, Len(r)) = r
  <2> HIDE DEF r
  <2> QED
    BY <1>3
<1>6. Pieces(Texts, i) = Pieces(Texts, i-1) \o r
  BY <1>3, TextsAre
<1>7. Shows(Pieces(Texts, i)) /\ pos = EndOf(i) + 1
  BY <1>2, <1>4, <1>5, <1>6
<1> QED
  BY <1>2, <1>7 DEF Between

-----------------------------------------------------------------------------
(* The steps within an escape, up to its conversion.                       *)
AmountAt(d, k) == IF k = 1 THEN d.width ELSE d.prec

(* process_precision(): a first count is the width, a second the           *)
(* precision.                                                              *)
LEMMA Processed ==
  ASSUME PrintFmtAssumption, NEW d \in Directive, NEW k \in {1, 3}, Has(d, k+1),
         e = Parsed(d, k), process_precision(AmountAt(d, k))
  PROVE  e' = Parsed(d, k+1)
<1>1. CASE k = 1
  <2>1. AmountAt(d, k) = d.width
    BY <1>1 DEF AmountAt
  <2>2. Parsed(d, 1).width < 0 /\ Parsed(d, 2) = Widened(Parsed(d, 1), d.width, -1)
    <3>1. Has(d, 2)
      BY <1>1
    <3> QED
      BY <3>1, ParsedSteps
  <2>3. e.width < 0
    BY <1>1, <2>2
  <2>4. e' = Widened(e, d.width, -1)
    BY <2>1, <2>3, Zenon DEF process_precision, Widened
  <2> QED
    BY <1>1, <2>2, <2>4
<1>2. CASE k = 3
  <2>1. AmountAt(d, k) = d.prec
    BY <1>2 DEF AmountAt
  <2>2. ~(Parsed(d, 3).width < 0) /\ Parsed(d, 4) = [Parsed(d, 3) EXCEPT !.precision = d.prec]
    <3>1. Has(d, 4)
      BY <1>2
    <3> QED
      BY <3>1, ParsedSteps
  <2>3. ~(e.width < 0)
    BY <1>2, <2>2
  <2>4. e' = [e EXCEPT !.precision = d.prec]
    BY <2>1, <2>3, Zenon DEF process_precision
  <2> QED
    BY <1>2, <2>2, <2>4
<1> QED
  BY <1>1, <1>2

(* A step that goes back to `reswitch' leads from one part to the next.    *)
LEMMA Rereads ==
  ASSUME PrintFmtAssumption, AskedOK, NEW i \in 1..Len(asked), NEW k \in 0..4, Within(i, k), reswitch,
         pos' = EndOf(i-1) + Read(asked[i], k+1) + 1,
         e' = Parsed(asked[i], k+1),
         args' = ArgsFrom(TakenBy(i-1) + Taken(asked[i], k+1))
  PROVE  Still /\ b' = b /\ Within(i, k+1)'
<1>1. at = "escape" /\ asked[i].conv # "text" /\ Shows(Pieces(Texts, i-1))
  BY DEF Within
<1>2. Still /\ b' = b /\ at' = "escape"
  BY <1>1, Zenon DEF reswitch, Still
<1>3. Right => b' = Printed(Pieces(Texts, i-1))
  BY <1>1, <1>2 DEF Shows
<1> DEFINE m == k + 1
<1> HIDE DEF m
<1>4. /\ pos' = EndOf(i-1) + Read(asked[i], m) + 1 /\ e' = Parsed(asked[i], m)
      /\ args' = ArgsFrom(TakenBy(i-1) + Taken(asked[i], m))
  BY DEF m
<1>5. Within(i, m)'
  BY <1>1, <1>2, <1>3, <1>4, ToWithin
<1> QED
  BY <1>2, <1>5 DEF m

(* What is known at a place within a directive.                            *)
LEMMA WithinIs ==
  ASSUME PrintFmtAssumption, AskedOK, NEW i \in 1..Len(asked), NEW k \in 0..5, Within(i, k)
  PROVE  LET d == asked[i] IN
         /\ d \in Directive /\ d.conv # "text" /\ i - 1 \in 0..Len(asked) /\ at = "escape"
         /\ ch = Here(i, k) /\ pos = EndOf(i-1) + Read(d, k) + 1 /\ pos <= Len(fmt)
         /\ EndOf(i-1) \in Nat /\ Read(d, k) \in Nat \ {0} /\ pos \in Nat
         /\ e = Parsed(d, k) /\ args = ArgsFrom(TakenBy(i-1) + Taken(d, k))
         /\ TakenBy(i-1) \in Nat /\ Taken(d, k) \in Nat
         /\ Shows(Pieces(Texts, i-1)) /\ Pieces(Texts, i-1) \in Seq(Txt)
<1> DEFINE d == asked[i]
<1>1. d \in Directive /\ i - 1 \in 0..Len(asked)
  BY AskedIs
<1>2. /\ at = "escape" /\ d.conv # "text" /\ pos = EndOf(i-1) + Read(d, k) + 1
      /\ e = Parsed(d, k) /\ args = ArgsFrom(TakenBy(i-1) + Taken(d, k))
      /\ Shows(Pieces(Texts, i-1))
  BY DEF Within
<1>3. ch = Here(i, k)
  BY <1>2 DEF ch, Here
<1>4. EndOf(i-1) \in Nat /\ Read(d, k) \in Nat \ {0} /\ EndOf(i-1) + Read(d, k) + 1 <= Len(fmt)
  BY <1>2, HereIs
<1>5. TakenBy(i-1) \in Nat /\ Taken(d, k) \in Nat /\ Pieces(Texts, i-1) \in Seq(Txt)
  BY <1>1, ArgsAre, TakenIs, TextsAre
<1>6. pos \in Nat /\ pos <= Len(fmt)
  <2> DEFINE x == EndOf(i-1)
             y == Read(d, k)
  <2>1. x \in Nat /\ y \in Nat /\ pos = x + y + 1 /\ x + y + 1 <= Len(fmt)
    BY <1>2, <1>4
  <2> HIDE DEF x, y
  <2> QED
    BY <2>1
<1> QED
  BY <1>1, <1>2, <1>3, <1>4, <1>5, <1>6

(* The flag, ...                                                           *)
LEMMA FlagStep ==
  ASSUME PrintFmtAssumption, AskedOK, Next, NEW i \in 1..Len(asked), Within(i, 0), Has(asked[i], 1)
  PROVE  Still /\ b' = b /\ Within(i, 0 + 1)'
<1> DEFINE d == asked[i]
<1>0. 0 \in 0..5 /\ 0 \in 0..4 /\ 0 + 1 = 1
  OBVIOUS
<1>1. /\ d \in Directive /\ d.conv # "text" /\ at = "escape" /\ ch = Here(i, 0)
      /\ pos = EndOf(i-1) + Read(d, 0) + 1 /\ EndOf(i-1) \in Nat /\ Read(d, 0) \in Nat
      /\ e = Parsed(d, 0) /\ args = ArgsFrom(TakenBy(i-1) + Taken(d, 0))
  BY <1>0, WithinIs
<1>2. ch = d.flag /\ d.flag \in {"0", "-", "#"} /\ d.flag # NoFlag
  <2>1. d.flag # NoFlag
    BY DEF Has
  <2> QED
    BY <1>1, <2>1, HereIs, DirectiveIs
<1>3. Flag
  BY <1>1, <1>2, WhileEscape
<1>4. /\ e' = (IF ch = "#" THEN [e EXCEPT !.altflag = 1] ELSE [e EXCEPT !.padc = ch])
      /\ pos' = pos + 1 /\ args' = args /\ reswitch
  BY <1>3, Zenon DEF Flag, NextChar
<1>5. e' = Parsed(d, 1)
  BY <1>1, <1>2, <1>4, ParsedSteps
<1>6. Read(d, 1) = Read(d, 0) + 1 /\ Taken(d, 1) = Taken(d, 0)
  BY <1>1, <1>2, ReadIs, TakenIs DEF FlagLen
<1>7. pos' = EndOf(i-1) + Read(d, 1) + 1
  BY <1>1, <1>4, <1>6
<1> QED
  BY <1>0, <1>1, <1>4, <1>5, <1>6, <1>7, Rereads

(* ... the point, ...                                                      *)
LEMMA DotStep ==
  ASSUME PrintFmtAssumption, AskedOK, Next, NEW i \in 1..Len(asked), Within(i, 2), Has(asked[i], 3)
  PROVE  Still /\ b' = b /\ Within(i, 2 + 1)'
<1> DEFINE d == asked[i]
<1>0. 2 \in 0..5 /\ 2 \in 0..4 /\ 2 + 1 = 3
  OBVIOUS
<1>1. /\ d \in Directive /\ d.conv # "text" /\ at = "escape" /\ ch = Here(i, 2)
      /\ pos = EndOf(i-1) + Read(d, 2) + 1 /\ EndOf(i-1) \in Nat /\ Read(d, 2) \in Nat
      /\ e = Parsed(d, 2) /\ args = ArgsFrom(TakenBy(i-1) + Taken(d, 2))
  BY <1>0, WithinIs
<1>2. ch = "." /\ d.prec # -1
  <2>1. d.prec # -1
    BY DEF Has
  <2> QED
    BY <1>1, <2>1, HereIs
<1>3. Dot
  BY <1>1, <1>2, WhileEscape
<1>4. /\ e' = (IF e.width < 0 THEN [e EXCEPT !.width = 0] ELSE e)
      /\ pos' = pos + 1 /\ args' = args /\ reswitch
  BY <1>3, Zenon DEF Dot
<1>5. e' = Parsed(d, 3)
  BY <1>1, <1>4, ParsedSteps
<1>6. Read(d, 3) = Read(d, 2) + 1 /\ Taken(d, 3) = Taken(d, 2)
  BY <1>1, <1>2, ReadIs, TakenIs DEF DotLen
<1>7. pos' = EndOf(i-1) + Read(d, 3) + 1
  BY <1>1, <1>4, <1>6
<1> QED
  BY <1>0, <1>1, <1>4, <1>5, <1>6, <1>7, Rereads

(* ... the "l", ...                                                        *)
LEMMA LongStep ==
  ASSUME PrintFmtAssumption, AskedOK, Next, NEW i \in 1..Len(asked), Within(i, 4), Has(asked[i], 5)
  PROVE  Still /\ b' = b /\ Within(i, 4 + 1)'
<1> DEFINE d == asked[i]
<1>0. 4 \in 0..5 /\ 4 \in 0..4 /\ 4 + 1 = 5
  OBVIOUS
<1>1. /\ d \in Directive /\ d.conv # "text" /\ at = "escape" /\ ch = Here(i, 4)
      /\ pos = EndOf(i-1) + Read(d, 4) + 1 /\ EndOf(i-1) \in Nat /\ Read(d, 4) \in Nat
      /\ e = Parsed(d, 4) /\ args = ArgsFrom(TakenBy(i-1) + Taken(d, 4))
  BY <1>0, WithinIs
<1>2. ch = "l" /\ d.longs = 1
  <2>1. d.longs = 1
    BY DEF Has
  <2> QED
    BY <1>1, <2>1, HereIs
<1>3. Long
  BY <1>1, <1>2, WhileEscape
<1>4. /\ e' = [e EXCEPT !.lflag = @ + 1]
      /\ pos' = pos + 1 /\ args' = args /\ reswitch
  BY <1>3, Zenon DEF Long
<1>5. e' = Parsed(d, 5)
  BY <1>1, <1>4, ParsedSteps
<1>6. Read(d, 5) = Read(d, 4) + 1 /\ Taken(d, 5) = Taken(d, 4)
  BY <1>1, <1>2, ReadIs, TakenIs
<1>7. pos' = EndOf(i-1) + Read(d, 5) + 1
  BY <1>1, <1>4, <1>6
<1> QED
  BY <1>0, <1>1, <1>4, <1>5, <1>6, <1>7, Rereads

(* The width or the precision, as digits or as an argument.                *)
LEMMA AmountThere ==
  ASSUME PrintFmtAssumption, AskedOK, NEW i \in 1..Len(asked), asked[i].conv # "text",
         NEW k \in {1, 3}, Has(asked[i], k+1)
  PROVE  LET d == asked[i]
             v == AmountAt(d, k)
             w == Amount(d, v)
         IN  /\ v # -1
             /\ d.star => /\ Here(i, k) = "*" /\ Read(d, k+1) = Read(d, k) + 1
                          /\ Taken(d, k+1) = Taken(d, k) + 1
                          /\ Arguments(d)[Taken(d, k) + 1] = v
             /\ ~d.star => /\ Digits(i, k, w) /\ ValueOf(w) = v
                           /\ w[1] \in {Digit[j] : j \in 2..10}
                           /\ Taken(d, k+1) = Taken(d, k)
<1> DEFINE d == asked[i]
           v == AmountAt(d, k)
           w == Amount(d, v)
<1>1. d \in Directive
  BY AskedIs
<1>2. d.star \in BOOLEAN /\ d.width \in {-1} \cup Widths /\ d.prec \in {-1, 2}
  BY <1>1, DirectiveIs DEF WidthGiven
<1>3. k = 1 => d.width # -1 /\ v = d.width /\ Has(d, 2)
  <2> SUFFICES ASSUME k = 1 PROVE d.width # -1 /\ v = d.width /\ Has(d, 2)
    OBVIOUS
  <2>1. v = d.width /\ Has(d, 2)
    BY DEF AmountAt
  <2>2. d.width # -1
    BY <2>1 DEF Has
  <2> QED
    BY <2>1, <2>2
<1>4. k = 3 => d.prec # -1 /\ v = d.prec /\ Has(d, 4)
  <2> SUFFICES ASSUME k = 3 PROVE d.prec # -1 /\ v = d.prec /\ Has(d, 4)
    OBVIOUS
  <2>1. v = d.prec /\ Has(d, 4)
    BY DEF AmountAt
  <2>2. d.prec # -1
    BY <2>1 DEF Has
  <2> QED
    BY <2>1, <2>2
<1> HIDE DEF v
<1>5. v # -1 /\ v \in Widths \cup {2}
  BY <1>2, <1>3, <1>4
<1>6. /\ d.star => w = <<"*">>
      /\ ~d.star => ValueOf(w) = v /\ w[1] \in {Digit[j] : j \in 2..10}
  <2> HIDE DEF d
  <2> QED
    BY <1>2, <1>5, AmountIs
<1>7. /\ Has(d, 2) => IF d.star THEN Here(i, 1) = "*" ELSE Digits(i, 1, Amount(d, d.width))
      /\ Has(d, 4) => IF d.star THEN Here(i, 3) = "*" ELSE Digits(i, 3, Amount(d, d.prec))
  BY HereIs
<1>8. /\ d.width # -1 => Read(d, 2) = Read(d, 1) + Len(Amount(d, d.width))
      /\ d.prec # -1 => Read(d, 4) = Read(d, 3) + Len(Amount(d, d.prec))
  BY <1>1, ReadIs
<1>9. /\ Taken(d, 1) = 0 /\ Taken(d, 2) = Starred(d, d.width) /\ Taken(d, 3) = Taken(d, 2)
      /\ Taken(d, 4) = Starred(d, d.width) + Starred(d, d.prec)
      /\ Starred(d, d.width) \in Nat /\ Starred(d, d.prec) \in Nat
  BY TakenIs
<1>10. /\ d.star /\ d.width # -1 => Arguments(d)[Taken(d, 1) + 1] = d.width
       /\ d.star /\ d.prec # -1 => Arguments(d)[Taken(d, 3) + 1] = d.prec
  BY <1>1, ArgumentsAre
<1> HIDE DEF d
<1>11. ASSUME d.star
       PROVE  /\ Here(i, k) = "*" /\ Read(d, k+1) = Read(d, k) + 1
              /\ Taken(d, k+1) = Taken(d, k) + 1
              /\ Arguments(d)[Taken(d, k) + 1] = v
  <2>1. Len(w) = 1
    BY <1>6, <1>11
  <2> HIDE DEF w
  <2>2. \A x : x # -1 => Starred(d, x) = 1
    BY <1>11 DEF Starred
  <2>3. CASE k = 1
    <3>1. d.width # -1 /\ v = d.width /\ Starred(d, d.width) = 1
      BY <1>3, <2>2, <2>3
    <3>2. Taken(d, 2) = Taken(d, 1) + 1
      BY <1>9, <3>1
    <3>3. Read(d, 2) = Read(d, 1) + 1
      BY <1>8, <2>1, <3>1 DEF w
    <3> QED
      BY <1>3, <1>7, <1>10, <1>11, <2>3, <3>2, <3>3
  <2>4. CASE k = 3
    <3>1. d.prec # -1 /\ v = d.prec /\ Starred(d, d.prec) = 1
      BY <1>4, <2>2, <2>4
    <3>2. Taken(d, 4) = Taken(d, 3) + 1
      BY <1>9, <3>1
    <3>3. Read(d, 4) = Read(d, 3) + 1
      BY <1>8, <2>1, <3>1 DEF w
    <3> QED
      BY <1>4, <1>7, <1>10, <1>11, <2>4, <3>2, <3>3
  <2> QED
    BY <2>3, <2>4
<1>12. ASSUME ~d.star
       PROVE  Digits(i, k, w) /\ Taken(d, k+1) = Taken(d, k)
  <2>1. \A x : Starred(d, x) = 0
    BY <1>12 DEF Starred
  <2>2. CASE k = 1
    <3>1. Taken(d, 2) = Taken(d, 1)
      BY <1>9, <2>1
    <3> QED
      BY <1>3, <1>7, <1>12, <2>2, <3>1
  <2>3. CASE k = 3
    <3>1. Taken(d, 4) = Taken(d, 3)
      BY <1>9, <2>1
    <3> QED
      BY <1>4, <1>7, <1>12, <2>3, <3>1
  <2> QED
    BY <2>2, <2>3
<1> QED
  BY <1>5, <1>6, <1>11, <1>12 DEF d, v

(* ... a starred count, which takes an argument ...                        *)
LEMMA StarStep ==
  ASSUME PrintFmtAssumption, AskedOK, Next, NEW i \in 1..Len(asked), NEW k \in {1, 3}, Within(i, k),
         Has(asked[i], k+1), asked[i].star
  PROVE  Still /\ b' = b /\ Within(i, k+1)'
<1> DEFINE d == asked[i]
           v == AmountAt(d, k)
<1>0. k \in 0..5 /\ k \in 0..4 /\ k + 1 \in {2, 4}
  OBVIOUS
<1>1. /\ d \in Directive /\ d.conv # "text" /\ at = "escape" /\ ch = Here(i, k)
      /\ pos = EndOf(i-1) + Read(d, k) + 1 /\ EndOf(i-1) \in Nat /\ Read(d, k) \in Nat
      /\ e = Parsed(d, k) /\ args = ArgsFrom(TakenBy(i-1) + Taken(d, k))
      /\ TakenBy(i-1) \in Nat /\ Taken(d, k) \in Nat
  BY <1>0, WithinIs
<1>3. /\ ch = "*" /\ Read(d, k+1) = Read(d, k) + 1 /\ Taken(d, k+1) = Taken(d, k) + 1
      /\ Arguments(d)[Taken(d, k) + 1] = v
  BY <1>1, AmountThere
<1>4. Star
  BY <1>1, <1>3, WhileEscape
<1>5. process_precision(Head(args)) /\ args' = Tail(args) /\ pos' = pos + 1 /\ reswitch
  BY <1>4, Zenon DEF Star
<1>6. Head(args) = v /\ Tail(args) = ArgsFrom(TakenBy(i-1) + Taken(d, k+1))
  <2> DEFINE j == Taken(d, k) + 1
  <2>1. j \in 1..Len(Arguments(d))
    <3>1. Len(Arguments(d)) = Taken(d, 5) + Owns(d) /\ Owns(d) \in {0, 1}
      BY <1>1, ArgumentsAre DEF Owns
    <3>2. Taken(d, k+1) <= Taken(d, 5) /\ Taken(d, k+1) \in Nat /\ Taken(d, 5) \in Nat
      <4>1. k + 1 \in 0..5 /\ 5 \in 0..5
        BY <1>0
      <4> QED
        BY <4>1, TakenIs
    <3> DEFINE t == Taken(d, 5)
               l == Len(Arguments(d))
    <3>3. j = Taken(d, k+1) /\ j > 0
      BY <1>1, <1>3
    <3>4. l = t + Owns(d) /\ j <= t /\ j \in Nat /\ j > 0 /\ t \in Nat /\ Owns(d) \in {0, 1}
      BY <3>1, <3>2, <3>3
    <3> HIDE DEF j, l, t
    <3>5. j \in 1..l
      BY <3>4
    <3> QED
      BY <3>5 DEF l
  <2>2. TakenBy(i-1) + (j-1) = TakenBy(i-1) + Taken(d, k)
    BY <1>1
  <2>3. /\ Head(ArgsFrom(TakenBy(i-1) + (j-1))) = Arguments(d)[j]
        /\ Tail(ArgsFrom(TakenBy(i-1) + (j-1))) = ArgsFrom(TakenBy(i-1) + j)
    BY <2>1, ArgsAre
  <2> QED
    BY <1>1, <1>3, <2>2, <2>3
<1>7. e' = Parsed(d, k+1)
  <2>1. process_precision(AmountAt(d, k))
    BY <1>5, <1>6
  <2> QED
    BY <1>1, <2>1, Processed
<1>8. pos' = EndOf(i-1) + Read(d, k+1) + 1
  BY <1>1, <1>3, <1>5
<1>9. args' = ArgsFrom(TakenBy(i-1) + Taken(d, k+1))
  BY <1>5, <1>6
<1> QED
  BY <1>0, <1>5, <1>7, <1>8, <1>9, Rereads

(* ... and a count in digits bring the reading to the next part.           *)
LEMMA CountStep ==
  ASSUME PrintFmtAssumption, AskedOK, Next, NEW i \in 1..Len(asked), NEW k \in {1, 3}, Within(i, k),
         Has(asked[i], k+1), ~asked[i].star
  PROVE  Still /\ b' = b /\ Within(i, k+1)'
<1> DEFINE d == asked[i]
           v == AmountAt(d, k)
           w == Amount(d, v)
           p == EndOf(i-1) + Read(d, k)
<1>0. k \in 0..5 /\ k \in 0..4 /\ k + 1 \in {2, 4} /\ k + 1 \in 0..5
  OBVIOUS
<1>1. /\ d \in Directive /\ d.conv # "text" /\ at = "escape" /\ ch = Here(i, k)
      /\ pos = EndOf(i-1) + Read(d, k) + 1 /\ EndOf(i-1) \in Nat /\ Read(d, k) \in Nat
      /\ e = Parsed(d, k) /\ args = ArgsFrom(TakenBy(i-1) + Taken(d, k))
  BY <1>0, WithinIs
<1>3. Digits(i, k, w) /\ Taken(d, k+1) = Taken(d, k)
  BY <1>1, AmountThere
<1>4. /\ w \in Seq(DigitsOf(10)) /\ Len(w) > 0 /\ Read(d, k+1) = Read(d, k) + Len(w)
      /\ \A j \in 1..Len(w) : fmt[p + j] = w[j]
  BY <1>3, Zenon DEF Digits
<1>5. w[1] \in {Digit[j] : j \in 2..10} /\ ValueOf(w) = v
  BY <1>1, AmountThere
<1> HIDE DEF w, v, p
<1>6. p \in Nat /\ pos = p + 1 /\ Len(w) \in Nat
  BY <1>1, <1>4 DEF p
<1>7. ch = w[1] /\ ch \in {Digit[j] : j \in 2..10}
  <2>1. 1 \in 1..Len(w)
    BY <1>4, <1>6
  <2> QED
    BY <1>4, <1>5, <1>6, <2>1 DEF ch
<1>8. Count
  BY <1>1, <1>7, WhileEscape
<1>9. p + Len(w) + 1 <= Len(fmt) /\ fmt[p + Len(w) + 1] \notin DigitsOf(10)
  <2>1. Here(i, k+1) \notin DigitsOf(10)
    BY <1>0, <1>1, NoDigitNext
  <2>2. EndOf(i-1) + Read(d, k+1) + 1 <= Len(fmt)
    BY <1>0, <1>1, HereIs
  <2>3. EndOf(i-1) + Read(d, k+1) = p + Len(w)
    BY <1>1, <1>4, <1>6 DEF p
  <2> QED
    BY <2>1, <2>2, <2>3 DEF Here
<1> DEFINE e1 == CHOOSE j \in (p+1)+1 .. Len(fmt) : DigitsEnd(fmt, p+1, j)
<1>10. e1 = p + Len(w) + 1 /\ SubSeq(fmt, p+1, e1 - 1) = w
  <2>1. \E X : fmt \in Seq(X)
    <3>1. FlattenSeq(Formats) \in Seq(Chars)
      <4>1. /\ Formats \in Seq(Seq(Chars)) /\ Len(Formats) = Len(asked) /\ Len(asked) \in Nat
        BY AskedIs
      <4>2. Len(Formats) \in 0..Len(Formats)
        BY <4>1
      <4> QED
        BY <4>1, <4>2, PiecesAre
    <3> DEFINE F == FlattenSeq(Formats)
    <3>2. fmt = Append(F, "NUL")
      BY DEF AskedOK
    <3> HIDE DEF F
    <3>3. F \in Seq(Chars)
      BY <3>1 DEF F
    <3>4. F \in Seq(Chars \cup {"NUL"})
      BY <3>3
    <3>5. fmt \in Seq(Chars \cup {"NUL"})
      BY <3>2, <3>4
    <3> QED
      BY <3>5
  <2>2. PICK X : fmt \in Seq(X)
    BY <2>1
  <2> QED
    BY <1>4, <1>6, <1>9, <2>2, Counted
<1>11. /\ process_precision(ValueOf(SubSeq(fmt, pos, e1 - 1)))
       /\ pos' = e1 /\ args' = args /\ reswitch
  <2>1. pos + 1 = (p + 1) + 1 /\ pos = p + 1
    BY <1>6
  <2> DEFINE end == CHOOSE j \in pos+1 .. Len(fmt) : DigitsEnd(fmt, pos, j)
  <2>2. end = e1
    BY <2>1
  <2>3. /\ process_precision(ValueOf(SubSeq(fmt, pos, end - 1)))
        /\ pos' = end /\ args' = args /\ reswitch
    BY <1>8, Zenon DEF Count, ValueOf, DigitsEnd
  <2> QED
    BY <2>2, <2>3
<1>12. process_precision(v)
  BY <1>5, <1>6, <1>10, <1>11
<1>13. e' = Parsed(d, k+1)
  <2>1. process_precision(AmountAt(d, k))
    BY <1>12 DEF v
  <2> QED
    BY <1>1, <2>1, Processed
<1>14. pos' = EndOf(i-1) + Read(d, k+1) + 1
  <2>1. EndOf(i-1) + Read(d, k+1) = p + Len(w)
    BY <1>1, <1>4, <1>6 DEF p
  <2> QED
    BY <1>10, <1>11, <2>1
<1>15. args' = ArgsFrom(TakenBy(i-1) + Taken(d, k+1))
  BY <1>1, <1>3, <1>11
<1> QED
  BY <1>0, <1>11, <1>13, <1>14, <1>15, Rereads

-----------------------------------------------------------------------------
(* The conversion itself.                                                  *)
LEMMA OwnArgument ==
  ASSUME PrintFmtAssumption, AskedOK, NEW i \in 1..Len(asked), Within(i, 5)
  PROVE  LET d == asked[i] IN
         /\ SubSeq(args, Owns(d) + 1, Len(args)) = ArgsFrom(TakenBy(i))
         /\ d.conv \in Takes => args # <<>> /\ Head(args) = d.arg
         /\ d.conv \notin Takes => args = ArgsFrom(TakenBy(i))
<1> DEFINE d == asked[i]
           q == TakenBy(i-1) + Taken(d, 5)
<1>0. 5 \in 0..5
  OBVIOUS
<1>1. /\ d \in Directive /\ i - 1 \in 0..Len(asked) /\ args = ArgsFrom(q)
      /\ TakenBy(i-1) \in Nat /\ Taken(d, 5) \in Nat
  BY <1>0, WithinIs
<1>2. Len(Arguments(d)) = Taken(d, 5) + Owns(d) /\ TakenBy(i) = TakenBy(i-1) + Len(Arguments(d))
  BY <1>1, ArgumentsAre, ArgsAre
<1>3. CASE d.conv \in Takes
  <2> DEFINE j == Taken(d, 5) + 1
  <2>1. Owns(d) = 1
    BY <1>3 DEF Owns
  <2>2. /\ j \in 1..Len(Arguments(d)) /\ TakenBy(i-1) + (j-1) = q /\ TakenBy(i-1) + j = TakenBy(i)
        /\ Arguments(d)[j] = d.arg
    <3>1. Arguments(d)[j] = d.arg
      BY <1>1, <1>3, ArgumentsAre
    <3> QED
      BY <1>1, <1>2, <2>1, <3>1
  <2>3. LET a    == ArgsFrom(TakenBy(i-1) + (j-1))
            rest == ArgsFrom(TakenBy(i-1) + j)
        IN  a # <<>> /\ Head(a) = Arguments(d)[j] /\ SubSeq(a, 1 + 1, Len(a)) = rest
    BY <2>2, ArgsAre
  <2>4. /\ args # <<>> /\ Head(args) = d.arg
        /\ SubSeq(args, 1 + 1, Len(args)) = ArgsFrom(TakenBy(i))
    BY <1>1, <2>2, <2>3
  <2> QED
    BY <1>3, <2>1, <2>4
<1>4. CASE d.conv \notin Takes
  <2>1. Owns(d) = 0
    BY <1>4 DEF Owns
  <2>2. q = TakenBy(i) /\ q \in Nat
    BY <1>1, <1>2, <2>1
  <2>3. args \in Seq(Arg)
    BY <1>1, <2>2, ArgsAre
  <2>4. SubSeq(args, 0 + 1, Len(args)) = args
    BY <2>3
  <2> QED
    BY <1>1, <1>4, <2>1, <2>2, <2>4
<1> QED
  BY <1>3, <1>4

(* The options when a conversion is reached.                               *)
LEMMA OptionsRead ==
  ASSUME NEW d, e = Parsed(d, 5)
  PROVE  /\ e.width = WidthOf(d) /\ e.precision = d.prec /\ e.padc = PadOf(d)
         /\ e.lflag = d.longs /\ e.altflag = AltOf(d)
<1>1. ASSUME NEW c, NEW w, NEW p, NEW l, NEW a
      PROVE  LET r == Known(c, w, p, l, a)
             IN  r.padc = c /\ r.width = w /\ r.precision = p /\ r.lflag = l /\ r.altflag = a
  BY DEF Known
<1>2. e = Known(PadOf(d), WidthOf(d), d.prec, d.longs, AltOf(d))
  BY ParsedIs
<1> QED
  BY <1>1, <1>2

(* A conversion that prints the right text ends its directive.             *)
LEMMA Converted ==
  ASSUME PrintFmtAssumption, AskedOK, BufferOK, size \in Nat, size > 0,
         NEW i \in 1..Len(asked), Within(i, 5), asked[i].conv # "cut",
         NEW s \in Seq(Txt), Right => s = Expected(asked[i]),
         NEW chars, Conversion(chars, s, Owns(asked[i]))
  PROVE  Still /\ e' = e /\ BufferOK' /\ Between(i)'
<1> DEFINE d == asked[i]
           q == Pieces(Texts, i-1)
<1>0. 5 \in 0..5
  OBVIOUS
<1>1. /\ d \in Directive /\ d.conv # "text" /\ i - 1 \in 0..Len(asked)
      /\ pos = EndOf(i-1) + Read(d, 5) + 1 /\ EndOf(i-1) \in Nat /\ Read(d, 5) \in Nat
      /\ Shows(q) /\ q \in Seq(Txt)
  BY <1>0, WithinIs
<1>2. /\ Put(s) /\ args' = SubSeq(args, Owns(d) + 1, Len(args)) /\ pos' = pos + 1
      /\ at' = "text" /\ e' = e /\ Still
  BY Zenon DEF Conversion, Still
<1>3. BufferOK' /\ \A w \in Seq(Txt) : b = Printed(w) => b' = Printed(w \o s)
  <2>1. size' = size
    BY <1>2 DEF Still
  <2> QED
    BY <1>2, <2>1, Putting
<1>4. args' = ArgsFrom(TakenBy(i))
  BY <1>2, OwnArgument
<1>5. Pieces(Texts, i) = q \o Expected(d)
  BY TextsAre
<1>6. Right => b' = Printed(Pieces(Texts, i))
  BY <1>1, <1>3, <1>5 DEF Shows
<1>7. pos' = EndOf(i) + 1
  <2>1. EndOf(i) = EndOf(i-1) + Len(Render(d))
    BY FormatIs
  <2>2. Len(Render(d)) = Read(d, 5) + 1
    BY <1>1, Rendered DEF ConvLen
  <2> QED
    BY <1>1, <1>2, <2>1, <2>2
<1> QED
  BY <1>2, <1>3, <1>4, <1>6, <1>7, ToBetween

(* Every conversion does.                                                  *)
LEMMA ConversionStep ==
  ASSUME PrintFmtAssumption, AskedOK, BufferOK, size \in Nat, size > 0, Next,
         NEW i \in 1..Len(asked), Within(i, 5), asked[i].conv \notin {"!", "cut"}
  PROVE  Still /\ e' = e /\ BufferOK' /\ Between(i)'
<1> DEFINE d == asked[i]
<1>0. 5 \in 0..5
  OBVIOUS
<1>1. /\ d \in Directive /\ d.conv # "text" /\ at = "escape" /\ ch = Here(i, 5) /\ e = Parsed(d, 5)
  BY <1>0, WithinIs
<1>2. ch = d.conv
  BY <1>1, HereIs
<1>3. d.conv \in {"o", "%"} \cup Takes
  BY <1>1, DirectiveIs DEF Plain, Takes
<1>4. d.conv \in Takes => arg = d.arg /\ Owns(d) = 1
  BY OwnArgument DEF arg, Owns
<1>5. d.conv \notin Takes => Owns(d) = 0
  BY DEF Owns
<1>6. /\ e.width = WidthOf(d) /\ e.precision = d.prec /\ e.padc = PadOf(d)
      /\ e.lflag = d.longs /\ e.altflag = AltOf(d)
  BY <1>1, OptionsRead
<1>7. ASSUME NEW s, s \in Seq(Txt), Right => s = Expected(d),
             NEW chars, Conversion(chars, s, Owns(d))
      PROVE  Still /\ e' = e /\ BufferOK' /\ Between(i)'
  BY <1>7, Converted
<1>8. CASE d.conv = "d"
  <2> DEFINE s == printd(getint(arg, e.lflag))
  <2>1. Decimal
    BY <1>1, <1>2, <1>8, WhileEscape
  <2>2. Conversion({"d"}, s, 1) /\ Owns(d) = 1 /\ arg = d.arg
    BY <1>4, <1>8, <2>1 DEF Decimal, Takes
  <2>3. s \in Seq(Txt) /\ (Right => s = Expected(d))
    <3>1. getint(arg, e.lflag) = NumberAsked(d) /\ Radix(d) = 10
      BY <1>6, <1>8, <2>2 DEF getint, NumberAsked, Radix
    <3>2. \A k : number(k, 10) = printnum(k, Radix(d), WidthOf(d), PadOf(d))
      BY <1>6, <3>1 DEF number
    <3>3. s = IF NumberAsked(d) < 0
              THEN <<"-">> \o printnum(-NumberAsked(d), Radix(d), WidthOf(d), PadOf(d))
              ELSE printnum(NumberAsked(d), Radix(d), WidthOf(d), PadOf(d))
      BY <3>1, <3>2 DEF printd
    <3> HIDE DEF s
    <3> QED
      BY <1>1, <1>8, <3>3, NumberPrinted
  <2> HIDE DEF s
  <2> QED
    BY <1>7, <2>2, <2>3
<1>9. CASE d.conv \in {"u", "x"}
  <2> DEFINE s == number(getuint(arg, e.lflag), Radix(d))
  <2>1. Radix(d) = IF d.conv = "x" THEN 16 ELSE 10
    BY DEF Radix
  <2>2. /\ d.conv = "u" => Unsigned
        /\ d.conv = "x" => Hex
    BY <1>1, <1>2, WhileEscape
  <2>3. /\ Owns(d) = 1 /\ arg = d.arg
        /\ Conversion({"u"}, s, 1) \/ Conversion({"x"}, s, 1)
    <3>1. Owns(d) = 1 /\ arg = d.arg
      BY <1>4, <1>9 DEF Takes
    <3>2. CASE d.conv = "u"
      BY <2>1, <2>2, <3>1, <3>2 DEF Unsigned
    <3>3. CASE d.conv = "x"
      BY <2>1, <2>2, <3>1, <3>3 DEF Hex
    <3> QED
      BY <1>9, <3>2, <3>3
  <2>4. s \in Seq(Txt) /\ (Right => s = Expected(d))
    <3>1. getuint(arg, e.lflag) = NumberAsked(d)
      BY <1>6, <1>9, <2>3 DEF getuint, NumberAsked
    <3>2. s = printnum(NumberAsked(d), Radix(d), WidthOf(d), PadOf(d))
      BY <1>6, <3>1 DEF number
    <3>3. NumberAsked(d) \in Int /\ NumberAsked(d) >= 0
      BY <1>1, <1>9, NumberPrinted
    <3> HIDE DEF s
    <3>4. s = IF NumberAsked(d) < 0
              THEN <<"-">> \o printnum(-NumberAsked(d), Radix(d), WidthOf(d), PadOf(d))
              ELSE printnum(NumberAsked(d), Radix(d), WidthOf(d), PadOf(d))
      BY <3>2, <3>3
    <3> QED
      BY <1>1, <1>9, <3>4, NumberPrinted
  <2> HIDE DEF s
  <2> QED
    BY <1>7, <2>3, <2>4
<1>10. CASE d.conv = "p"
  <2> DEFINE s == <<"0", "x">> \o number(arg, 16)
  <2>1. Pointer
    BY <1>1, <1>2, <1>10, WhileEscape
  <2>2. Conversion({"p"}, s, 1) /\ Owns(d) = 1 /\ arg = d.arg
    BY <1>4, <1>10, <2>1 DEF Pointer, Takes
  <2>3. s = <<"0", "x">> \o printnum(d.arg, 16, WidthOf(d), PadOf(d))
    BY <1>6, <2>2 DEF number
  <2> HIDE DEF s
  <2>4. s \in Seq(Txt) /\ s = Expected(d)
    BY <1>1, <1>10, <2>3, PointerPrinted
  <2> QED
    BY <1>7, <2>2, <2>4
<1>11. CASE d.conv = "c"
  <2> DEFINE s == <<arg>>
  <2>1. Character
    BY <1>1, <1>2, <1>11, WhileEscape
  <2>2. Conversion({"c"}, s, 1) /\ Owns(d) = 1 /\ arg = d.arg
    BY <1>4, <1>11, <2>1 DEF Character, Takes
  <2>3. s = Expected(d) /\ Expected(d) \in Seq(Txt)
    BY <1>1, <1>11, <2>2, ExpectedIs
  <2> HIDE DEF s
  <2> QED
    BY <1>7, <2>2, <2>3
<1>12. CASE d.conv = "e"
  <2> DEFINE s == printerr(Signed(arg, IntBits))
  <2>1. Error
    BY <1>1, <1>2, <1>12, WhileEscape
  <2>2. Conversion({"e"}, s, 1) /\ Owns(d) = 1 /\ arg = d.arg
    BY <1>4, <1>12, <2>1 DEF Error, Takes
  <2>3. s = Expected(d) /\ Expected(d) \in Seq(Txt)
    BY <1>1, <1>12, <2>2, ErrorPrinted
  <2> HIDE DEF s
  <2> QED
    BY <1>7, <2>2, <2>3
<1>13. CASE d.conv = "s"
  <2> DEFINE s == printstr(StringOf(arg), e.width, e.precision, e.padc, e.altflag)
  <2>1. String
    BY <1>1, <1>2, <1>13, WhileEscape
  <2>2. Conversion({"s"}, s, 1) /\ Owns(d) = 1 /\ arg = d.arg
    BY <1>4, <1>13, <2>1 DEF String, Takes
  <2>3. s = printstr(StringOf(d.arg), WidthOf(d), d.prec, PadOf(d), AltOf(d))
    BY <1>6, <2>2
  <2> HIDE DEF s
  <2>4. s = Expected(d) /\ Expected(d) \in Seq(Txt)
    BY <1>1, <1>13, <2>3, StringPrinted
  <2> QED
    BY <1>7, <2>2, <2>4
<1>14. CASE d.conv = "o"
  <2> DEFINE s == <<"X", "X", "X">>
  <2>1. Octal
    BY <1>1, <1>2, <1>14, WhileEscape
  <2>2. Conversion({"o"}, s, 0) /\ Owns(d) = 0
    BY <1>5, <1>14, <2>1 DEF Octal, Takes
  <2>3. s = Expected(d) /\ Expected(d) \in Seq(Txt)
    BY <1>1, <1>14, ExpectedIs
  <2> HIDE DEF s
  <2> QED
    BY <1>7, <2>2, <2>3
<1>15. CASE d.conv = "%"
  <2> DEFINE s == <<"%">>
  <2>1. Percent
    BY <1>1, <1>2, <1>15, WhileEscape
  <2>2. Conversion({"%"}, s, 0) /\ Owns(d) = 0
    BY <1>5, <1>15, <2>1 DEF Percent, Takes
  <2>3. s = Expected(d) /\ Expected(d) \in Seq(Txt)
    BY <1>1, <1>15, ExpectedIs
  <2> HIDE DEF s
  <2> QED
    BY <1>7, <2>2, <2>3
<1> QED
  BY <1>3, <1>8, <1>9, <1>10, <1>11, <1>12, <1>13, <1>14, <1>15 DEF Takes

(* The default case goes back to the "%" of the escape it is in.           *)
LEMMA UnrecognizedStep ==
  ASSUME PrintFmtAssumption, AskedOK, BufferOK, size \in Nat, size > 0, Next,
         NEW i \in 1..Len(asked), Within(i, 5), asked[i].conv \in {"!", "cut"}
  PROVE  Still /\ e' = e /\ BufferOK' /\ Literally(i, 1)'
<1> DEFINE d == asked[i]
           r == Render(d)
           p == EndOf(i-1)
           q == Pieces(Texts, i-1)
<1>0. 5 \in 0..5
  OBVIOUS
<1>1. /\ d \in Directive /\ d.conv # "text" /\ at = "escape" /\ ch = Here(i, 5)
      /\ i - 1 \in 0..Len(asked)
      /\ pos = p + Read(d, 5) + 1 /\ p \in Nat /\ Read(d, 5) \in Nat \ {0}
      /\ args = ArgsFrom(TakenBy(i-1) + Taken(d, 5)) /\ Shows(q) /\ q \in Seq(Txt)
  BY <1>0, WithinIs
<1>2. ch = IF d.conv = "cut" THEN "NUL" ELSE d.conv
  BY <1>1, HereIs
<1>3. Unrecognized
  BY <1>1, <1>2, WhileEscape
<1>4. /\ Put(<<"%">>) /\ pos' = BackFrom(pos) + 1 /\ at' = "text" /\ args' = args /\ e' = e /\ Still
  BY <1>3, Zenon DEF Unrecognized, Still
<1>5. /\ r \in Seq(Chars) /\ r[1] = "%" /\ Len(r) = Read(d, 5) + ConvLen(d)
      /\ \A j \in 2..Len(r) : r[j] \in Inner
  BY <1>1, Rendered
<1>6. \A j \in 1..Len(r) : fmt[p + j] = r[j]
  BY FormatIs
<1>7. ConvLen(d) \in {0, 1}
  BY DEF ConvLen
<1> HIDE DEF d, r, p, q
<1>8. fmt[p + 1] = "%" /\ p + 1 \in 1..pos /\ pos \in Nat
  <2>1. 1 \in 1..Len(r)
    BY <1>1, <1>5, <1>7
  <2>2. fmt[p + 1] = "%"
    BY <1>5, <1>6, <2>1
  <2>3. p \in Nat /\ Read(d, 5) \in Nat /\ pos = p + Read(d, 5) + 1
    BY <1>1
  <2> QED
    BY <2>2, <2>3
<1>9. \A k \in (p+1)+1 .. pos : fmt[k] # "%"
  <2> TAKE k \in (p+1)+1 .. pos
  <2>1. CASE k = pos
    BY <1>2, <2>1 DEF ch, d
  <2>2. CASE k # pos
    <3>1. k - p \in 2..Len(r) /\ k - p \in 1..Len(r) /\ p + (k - p) = k
      BY <1>1, <1>5, <1>7, <1>8, <2>2
    <3>2. fmt[k] \in Inner
      BY <1>5, <1>6, <3>1
    <3> QED
      BY <3>2 DEF Inner
  <2> QED
    BY <2>1, <2>2
<1>10. BackFrom(pos) = p + 1
  <2> DEFINE S(j) == fmt[j] = "%" /\ \A k \in j+1 .. pos : fmt[k] # "%"
  <2>1. S(p + 1)
    BY <1>8, <1>9
  <2>2. ASSUME NEW j \in 1..pos, S(j) PROVE j = p + 1
    <3>1. ~(j < p + 1)
      <4> SUFFICES ASSUME j < p + 1 PROVE FALSE
        OBVIOUS
      <4>1. p + 1 \in j+1 .. pos
        BY <1>1, <1>8
      <4> QED
        BY <1>8, <2>2, <4>1
    <3>2. ~(p + 1 < j)
      <4> SUFFICES ASSUME p + 1 < j PROVE FALSE
        OBVIOUS
      <4>1. j \in (p+1)+1 .. pos
        BY <1>1, <1>8
      <4> QED
        BY <1>9, <2>2, <4>1
    <3> QED
      BY <1>1, <1>8, <3>1, <3>2
  <2>3. BackFrom(pos) = CHOOSE j \in 1..pos : S(j)
    BY Zenon DEF BackFrom
  <2> HIDE DEF S
  <2> QED
    BY <1>8, <2>1, <2>2, <2>3
<1>11. <<"%">> \in Seq(Txt)
  BY CharsAreText
<1>12. BufferOK' /\ \A w \in Seq(Txt) : b = Printed(w) => b' = Printed(w \o <<"%">>)
  <2> DEFINE s == <<"%">>
  <2>1. s \in Seq(Txt) /\ Put(s) /\ size' = size
    BY <1>4, <1>11 DEF Still
  <2> HIDE DEF s
  <2>2. /\ BufferOK'
        /\ \A w \in Seq(Txt) : b = Printed(w) => b' = Printed(w \o s)
    BY <2>1, Putting
  <2> QED
    BY <2>2 DEF s
<1>13. SubSeq(r, 1, 1) = <<"%">>
  <2> DEFINE x == SubSeq(r, 1, 1)
             y == <<"%">>
  <2>1. x \in Seq(Chars) /\ Len(x) = 1 /\ x[1] = "%"
    BY <1>1, <1>5, <1>7
  <2>2. y \in Seq(Chars) /\ Len(y) = 1 /\ y[1] = "%"
    <3>1. "%" \in Chars
      BY DEF Chars
    <3> QED
      BY <3>1
  <2> HIDE DEF x, y
  <2>3. x = y
    BY <2>1, <2>2
  <2> QED
    BY <2>3 DEF x, y
<1>14. Right => b' = Printed(q \o SubSeq(r, 1, 1))
  BY <1>1, <1>12, <1>13 DEF Shows
<1>15. args' = ArgsFrom(TakenBy(i))
  <2>1. d.conv \notin Takes
    BY DEF Takes, d
  <2> QED
    BY <1>4, <2>1, OwnArgument DEF d
<1>16. pos' = p + 1 + 1
  BY <1>4, <1>10
<1> QED
  BY <1>4, <1>12, <1>14, <1>15, <1>16, ToLiterally DEF d, r, p, q

-----------------------------------------------------------------------------
(* Within a directive: past the parts it does not have, to one it has or   *)
(* to its conversion.                                                      *)
Next1(i, k) == Within(i, k) /\ (k = 5 \/ Has(asked[i], k+1))

(* From any place within a directive the parts it does not have may be     *)
(* passed over.                                                            *)
LEMMA PastMissing ==
  ASSUME PrintFmtAssumption, AskedOK, NEW i \in 1..Len(asked), NEW k \in 0..5, Within(i, k)
  PROVE  \E m \in 0..5 : Next1(i, m)
<1> DEFINE d == asked[i]
<1>1. d \in Directive
  BY AskedIs
<1>2. ASSUME NEW m \in 0..4, Within(i, m)
      PROVE  Next1(i, m) \/ Within(i, m+1)
  <2>1. CASE Has(d, m+1)
    BY <1>2, <2>1 DEF Next1
  <2>2. CASE ~Has(d, m+1)
    <3>1. /\ Read(d, m+1) = Read(d, m) /\ Parsed(d, m+1) = Parsed(d, m)
          /\ Taken(d, m+1) = Taken(d, m)
      BY <1>1, <2>2, Skip
    <3>2. Within(i, m+1)
      BY <1>2, <3>1, Zenon DEF Within
    <3> QED
      BY <3>2
  <2> QED
    BY <2>1, <2>2
<1>3. Within(i, 5) => Next1(i, 5)
  BY DEF Next1
<1>4. /\ Within(i, 4) => Next1(i, 4) \/ Within(i, 5)
      /\ Within(i, 3) => Next1(i, 3) \/ Within(i, 4)
      /\ Within(i, 2) => Next1(i, 2) \/ Within(i, 3)
      /\ Within(i, 1) => Next1(i, 1) \/ Within(i, 2)
      /\ Within(i, 0) => Next1(i, 0) \/ Within(i, 1)
  <2>1. 0 + 1 = 1 /\ 1 + 1 = 2 /\ 2 + 1 = 3 /\ 3 + 1 = 4 /\ 4 + 1 = 5
    OBVIOUS
  <2>2. 0 \in 0..4 /\ 1 \in 0..4 /\ 2 \in 0..4 /\ 3 \in 0..4 /\ 4 \in 0..4
    OBVIOUS
  <2> QED
    BY <1>2, <2>1, <2>2
<1>5. k = 0 \/ k = 1 \/ k = 2 \/ k = 3 \/ k = 4 \/ k = 5
  OBVIOUS
<1>6. Next1(i, 0) \/ Next1(i, 1) \/ Next1(i, 2) \/ Next1(i, 3) \/ Next1(i, 4) \/ Next1(i, 5)
  BY <1>3, <1>4, <1>5
<1>7. 0 \in 0..5 /\ 1 \in 0..5 /\ 2 \in 0..5 /\ 3 \in 0..5 /\ 4 \in 0..5 /\ 5 \in 0..5
  OBVIOUS
<1> QED
  BY <1>6, <1>7

(* A step from within a directive leads to a place the invariant knows ... *)
LEMMA WithinStep ==
  ASSUME PrintFmtAssumption, AskedOK, EOK, BufferOK, size \in Nat, size > 0, Next,
         NEW i \in 1..Len(asked), NEW k \in 0..5, Within(i, k)
  PROVE  Still /\ EOK' /\ BufferOK' /\ Located'
<1>1. PICK m \in 0..5 : Next1(i, m)
  BY PastMissing
<1>2. Within(i, m) /\ asked[i] \in Directive
  BY <1>1, AskedIs DEF Next1
<1>3. CASE m # 5
  <2>1. m \in 0..4 /\ Has(asked[i], m+1)
    BY <1>1, <1>3 DEF Next1
  <2>2. Still /\ b' = b /\ Within(i, m+1)'
    <3>1. CASE m = 0
      BY <1>2, <2>1, <3>1, FlagStep
    <3>2. CASE m = 2
      BY <1>2, <2>1, <3>2, DotStep
    <3>3. CASE m = 4
      BY <1>2, <2>1, <3>3, LongStep
    <3>4. CASE m \in {1, 3}
      <4>1. CASE asked[i].star
        BY <1>2, <2>1, <3>4, <4>1, StarStep
      <4>2. CASE ~asked[i].star
        BY <1>2, <2>1, <3>4, <4>2, CountStep
      <4> QED
        BY <4>1, <4>2
    <3> QED
      BY <2>1, <3>1, <3>2, <3>3, <3>4
  <2>3. m + 1 \in 0..5
    BY <2>1
  <2>4. EOK'
    <3>1. e' = Parsed(asked[i], m+1)
      <4>1. asked' = asked
        BY <2>2 DEF Still
      <4> DEFINE l == m + 1
      <4>2. Within(i, l)'
        BY <2>2
      <4> HIDE DEF l
      <4>3. e' = Parsed(asked'[i], l)
        BY <4>2, Zenon DEF Within
      <4> QED
        BY <4>1, <4>3 DEF l
    <3>2. OptionsOK(Parsed(asked[i], m+1))
      BY <1>2, <2>3, OptionsAre
    <3>3. OptionsOK(e')
      BY <3>1, <3>2
    <3> QED
      BY <3>3 DEF EOK, OptionsOK
  <2>5. BufferOK'
    BY <2>2 DEF BufferOK, Still
  <2>6. Located'
    <3>1. asked' = asked
      BY <2>2 DEF Still
    <3>2. \E j \in 1..Len(asked), l \in 0..5 : Within(j, l)'
      BY <2>2, <2>3
    <3>3. \E j \in 1..Len(asked'), l \in 0..5 : Within(j, l)'
      BY <3>1, <3>2
    <3> QED
      BY <3>3 DEF Located
  <2> QED
    BY <2>2, <2>4, <2>5, <2>6
<1>4. CASE m = 5
  <2>1. CASE asked[i].conv \notin {"!", "cut"}
    <3>1. Still /\ e' = e /\ BufferOK' /\ Between(i)'
      BY <1>2, <1>4, <2>1, ConversionStep
    <3>2. EOK'
      BY <3>1 DEF EOK, OptionsOK
    <3>3. Located'
      <4>1. asked' = asked /\ i \in 0..Len(asked)
        BY <3>1 DEF Still
      <4>2. \E j \in 0..Len(asked') : Between(j)'
        BY <3>1, <4>1
      <4> QED
        BY <4>2 DEF Located
    <3> QED
      BY <3>1, <3>2, <3>3
  <2>2. CASE asked[i].conv \in {"!", "cut"}
    <3>1. Still /\ e' = e /\ BufferOK' /\ Literally(i, 1)'
      BY <1>2, <1>4, <2>2, UnrecognizedStep
    <3>2. EOK'
      BY <3>1 DEF EOK, OptionsOK
    <3>3. Located'
      <4>1. asked' = asked
        BY <3>1 DEF Still
      <4>2. 1 \in 1..Len(Render(asked[i]))
        <5>1. Render(asked[i]) \in Seq(Chars) /\ Len(Render(asked[i])) > 0
          BY <1>2, ExpectedIs
        <5> QED
          BY <5>1
      <4>3. \E j \in 1..Len(asked') : \E l \in 1..Len(Render(asked'[j])) : Literally(j, l)'
        BY <3>1, <4>1, <4>2
      <4> QED
        BY <4>3 DEF Located
    <3> QED
      BY <3>1, <3>2, <3>3
  <2> QED
    BY <2>1, <2>2
<1> QED
  BY <1>3, <1>4

(* ... one from between two directives likewise ...                        *)
LEMMA BetweenStep ==
  ASSUME PrintFmtAssumption, AskedOK, EOK, BufferOK, size \in Nat, size > 0, Next,
         NEW i \in 0..Len(asked), Between(i)
  PROVE  Still /\ EOK' /\ BufferOK' /\ Located'
<1>0. Len(asked) \in Nat
  BY AskedIs
<1>1. CASE i = Len(asked)
  <2>1. Still /\ e' = e /\ b' = b /\ Finished'
    BY <1>1, ReturnStep
  <2>2. EOK' /\ BufferOK' /\ Located'
    BY <2>1 DEF EOK, OptionsOK, BufferOK, Located, Still
  <2> QED
    BY <2>1, <2>2
<1>2. CASE i # Len(asked)
  <2> DEFINE j == i + 1
  <2>1. j \in 1..Len(asked) /\ j \in 0..Len(asked) /\ j - 1 = i
    BY <1>0, <1>2
  <2> HIDE DEF j
  <2>2. Between(j-1) /\ asked[j] \in Directive
    BY <2>1, AskedIs
  <2>3. CASE asked[j].conv = "text"
    <3>1. Still /\ e' = e /\ BufferOK' /\ Between(j)'
      BY <2>1, <2>2, <2>3, TextStep
    <3>2. EOK'
      BY <3>1 DEF EOK, OptionsOK
    <3>3. \E l \in 0..Len(asked') : Between(l)'
      BY <2>1, <3>1 DEF Still
    <3> QED
      BY <3>1, <3>2, <3>3 DEF Located
  <2>4. CASE asked[j].conv # "text"
    <3>1. Still /\ b' = b /\ Within(j, 0)'
      BY <2>1, <2>2, <2>4, EscapeStep
    <3>2. EOK'
      <4>1. e' = Parsed(asked'[j], 0)
        BY <3>1, Zenon DEF Within
      <4>2. e' = Parsed(asked[j], 0)
        BY <3>1, <4>1 DEF Still
      <4>3. OptionsOK(Parsed(asked[j], 0))
        <5>1. 0 \in 0..5
          OBVIOUS
        <5> QED
          BY <2>2, <5>1, OptionsAre
      <4> QED
        BY <4>2, <4>3 DEF EOK, OptionsOK
    <3>3. BufferOK'
      BY <3>1 DEF BufferOK, Still
    <3>4. \E l \in 1..Len(asked'), m \in 0..5 : Within(l, m)'
      <4>1. 0 \in 0..5 /\ asked' = asked
        BY <3>1 DEF Still
      <4> QED
        BY <2>1, <3>1, <4>1
    <3> QED
      BY <3>1, <3>2, <3>3, <3>4 DEF Located
  <2> QED
    BY <2>3, <2>4
<1> QED
  BY <1>1, <1>2

(* ... and one in an escape that is printed literally.                     *)
LEMMA LiterallyStep ==
  ASSUME PrintFmtAssumption, AskedOK, EOK, BufferOK, size \in Nat, size > 0, Next,
         NEW i \in 1..Len(asked), NEW k \in 1..Len(Render(asked[i])), Literally(i, k)
  PROVE  Still /\ EOK' /\ BufferOK' /\ Located'
<1>1. Render(asked[i]) \in Seq(Chars)
  BY AskedIs, ExpectedIs
<1>2. Len(Render(asked[i])) \in Nat
  BY <1>1
<1>3. CASE k = Len(Render(asked[i]))
  <2>1. Between(i) /\ i \in 0..Len(asked)
    BY <1>3, LiteralEnd
  <2> QED
    BY <2>1, BetweenStep
<1>4. CASE k # Len(Render(asked[i]))
  <2>1. Still /\ e' = e /\ BufferOK' /\ Literally(i, k+1)'
    BY <1>2, <1>4, LiteralStep
  <2>2. EOK'
    BY <2>1 DEF EOK, OptionsOK
  <2>3. Located'
    <3>1. asked' = asked
      BY <2>1 DEF Still
    <3>2. k + 1 \in 1..Len(Render(asked[i]))
      BY <1>2, <1>4
    <3>3. \E j \in 1..Len(asked') : \E l \in 1..Len(Render(asked'[j])) : Literally(j, l)'
      BY <2>1, <3>1, <3>2
    <3> QED
      BY <3>3 DEF Located
  <2> QED
    BY <2>1, <2>2, <2>3
<1> QED
  BY <1>3, <1>4

-----------------------------------------------------------------------------
(* Whole behaviours.                                                       *)
LEMMA FreshOptions ==
  ASSUME PrintFmtAssumption
  PROVE  OptionsOK(Fresh)
<1> DEFINE W == -1 .. Power(2, LongBits) - 1
<1>1. -1 \in W
  <2>1. 2 \in Nat \ {0} /\ LongBits \in Nat
    BY DEF PrintFmtAssumption
  <2>2. Power(2, LongBits) \in Nat \ {0}
    BY <2>1, Powers
  <2> QED
    BY <2>2
<1>2. ASSUME NEW c \in {Blank, "0", "-"}, NEW w \in W
      PROVE  OptionsOK(Known(c, w, w, 0, 0))
  BY DEF OptionsOK, Known
<1>3. Fresh = Known(Blank, -1, -1, 0, 0) /\ Blank \in {Blank, "0", "-"}
  BY Zenon DEF Fresh, Known
<1> HIDE DEF W
<1> QED
  BY <1>1, <1>2, <1>3

(* A format is begun in a state of the invariant.                          *)
LEMMA InitOK ==
  ASSUME PrintFmtAssumption, Init
  PROVE  FormatInv
<1>1. PICK k \in 0..MaxDirectives : asked \in [1..k -> Directive]
  BY DEF Init
<1>2. MaxDirectives \in Nat /\ size \in Sizes /\ size \in Nat
  BY DEF PrintFmtAssumption, Init
<1>3. asked \in Seq(Directive) /\ Len(asked) = k /\ DOMAIN asked = 1..Len(asked)
  BY <1>1, <1>2
<1>4. /\ ConcatOf(Render, asked) = FlattenSeq(Formats)
      /\ ConcatOf(Arguments, asked) = FlattenSeq(ArgLists)
  <2>1. /\ [i \in DOMAIN asked |-> Render(asked[i])] = Formats
        /\ [i \in DOMAIN asked |-> Arguments(asked[i])] = ArgLists
    BY <1>3 DEF Formats, ArgLists
  <2> QED
    BY <2>1, Zenon DEF ConcatOf
<1>5. /\ \A i \in 1..Len(asked) : asked[i].conv = "cut" => i = Len(asked)
      /\ fmt = Append(FlattenSeq(Formats), "NUL") /\ args = FlattenSeq(ArgLists)
      /\ pos = 1 /\ e = Fresh /\ b = [buf |-> <<>>, cnt |-> 0]
      /\ at = IF size < 1 THEN "done" ELSE "text"
  BY <1>4, Zenon DEF Init
<1>6. AskedOK
  BY <1>2, <1>3, <1>5 DEF AskedOK
<1>7. EOK
  BY <1>5, FreshOptions DEF EOK
<1>8. BufferOK
  <2>1. b.buf = <<>> /\ b.cnt = 0
    BY <1>5
  <2>2. <<>> \in Seq(Txt) /\ Len(<<>>) = 0
    OBVIOUS
  <2> QED
    BY <1>2, <2>1, <2>2 DEF BufferOK
<1>9. CASE size = 0
  BY <1>5, <1>6, <1>7, <1>8, <1>9 DEF FormatInv, Refused
<1>10. CASE size # 0
  <2>1. size > 0 /\ at = "text"
    BY <1>2, <1>5, <1>10
  <2>2. EndOf(0) = 0 /\ args = ArgsFrom(TakenBy(0)) /\ Pieces(Texts, 0) = <<>>
    BY <1>5, <1>6, FormatIs, ArgsAre, TextsAre
  <2>3. pos = EndOf(0) + 1
    BY <1>5, <2>2
  <2>4. b = Printed(<<>>)
    <3>1. SubSeq(<<>>, 1, Least(size - 1, Len(<<>>))) = <<>> /\ Len(<<>>) = 0
      <4>1. Least(size - 1, Len(<<>>)) = 0
        BY <1>2, <2>1 DEF Least
      <4> QED
        BY <4>1
    <3> QED
      BY <1>5, <3>1 DEF Printed
  <2>5. Between(0)
    BY <2>1, <2>2, <2>3, <2>4 DEF Between, Shows
  <2>6. 0 \in 0..Len(asked)
    BY <1>1, <1>2, <1>3
  <2>7. Located
    BY <2>5, <2>6 DEF Located
  <2> QED
    BY <1>6, <1>7, <1>8, <2>1, <2>7 DEF FormatInv
<1> QED
  BY <1>9, <1>10

(* Every step keeps it.                                                    *)
LEMMA NextOK ==
  ASSUME PrintFmtAssumption, FormatInv, [Next]_vars
  PROVE  FormatInv'
<1>1. AskedOK /\ EOK /\ BufferOK /\ size \in Nat
  <2>1. Sizes \subseteq Nat
    BY DEF PrintFmtAssumption
  <2> QED
    BY <2>1 DEF FormatInv, AskedOK
<1>2. CASE UNCHANGED vars
  <2>1. Still /\ e' = e /\ b' = b /\ at' = at /\ pos' = pos /\ args' = args
    BY <1>2 DEF vars, Still
  <2>2. /\ Formats' = Formats /\ ArgLists' = ArgLists /\ Texts' = Texts
        /\ size' = size /\ asked' = asked /\ fmt' = fmt /\ AskedOK'
    BY <1>1, <2>1, Kept DEF Still
  <2>3. EOK' /\ BufferOK'
    BY <1>1, <2>1 DEF EOK, OptionsOK, BufferOK, Still
  <2>4. Refused => Refused'
    BY <2>1, <2>2 DEF Refused
  <2>5. CASE Refused
    BY <2>2, <2>3, <2>4, <2>5 DEF FormatInv
  <2>6. CASE size > 0 /\ Located
    <3>1. Finished => Finished'
      BY <2>1, <2>2, Zenon DEF Finished, Shows, Printed
    <3>2. \A i : Between(i) => Between(i)'
      BY <2>1, <2>2, Zenon DEF Between, Shows, EndOf, TakenBy, ArgsFrom, Pieces, Printed
    <3>3. \A i, k : Within(i, k) => Within(i, k)'
      BY <2>1, <2>2, Zenon DEF Within, Shows, EndOf, TakenBy, ArgsFrom, Pieces, Printed
    <3>4. \A i, k : Literally(i, k) => Literally(i, k)'
      BY <2>1, <2>2, Zenon DEF Literally, Shows, EndOf, TakenBy, ArgsFrom, Pieces, Printed
    <3>5. Located'
      BY <2>2, <2>6, <3>1, <3>2, <3>3, <3>4, Zenon DEF Located
    <3> QED
      BY <2>2, <2>3, <2>6, <3>5 DEF FormatInv
  <2> QED
    BY <2>5, <2>6 DEF FormatInv
<1>3. CASE Next
  <2>1. at # "done"
    <3>1. at \in {"text", "escape"}
      BY <1>3, Guards DEF Next
    <3> QED
      BY <3>1
  <2>2. size > 0 /\ Located /\ ~Finished
    BY <2>1 DEF FormatInv, Refused, Finished
  <2>3. Still /\ EOK' /\ BufferOK' /\ Located'
    <3>1. ASSUME NEW i \in 0..Len(asked), Between(i)
          PROVE  Still /\ EOK' /\ BufferOK' /\ Located'
      BY <1>1, <1>3, <2>2, <3>1, BetweenStep
    <3>2. ASSUME NEW i \in 1..Len(asked), NEW k \in 0..5, Within(i, k)
          PROVE  Still /\ EOK' /\ BufferOK' /\ Located'
      BY <1>1, <1>3, <2>2, <3>2, WithinStep
    <3>3. ASSUME NEW i \in 1..Len(asked), NEW k \in 1..Len(Render(asked[i])), Literally(i, k)
          PROVE  Still /\ EOK' /\ BufferOK' /\ Located'
      BY <1>1, <1>3, <2>2, <3>3, LiterallyStep
    <3> QED
      BY <2>2, <3>1, <3>2, <3>3, Zenon DEF Located
  <2>4. AskedOK' /\ size' > 0
    BY <1>1, <2>2, <2>3, Kept
  <2> QED
    BY <2>3, <2>4 DEF FormatInv
<1> QED
  BY <1>2, <1>3

(* In its states nothing is read or stored out of range.                   *)
LEMMA InvImpliesType ==
  ASSUME PrintFmtAssumption, FormatInv
  PROVE  TypeOK
<1>1. AskedOK /\ EOK /\ BufferOK /\ size \in Nat
  <2>1. Sizes \subseteq Nat
    BY DEF PrintFmtAssumption
  <2> QED
    BY <2>1 DEF FormatInv, AskedOK
<1> DEFINE n == Len(asked)
<1>2. n \in Nat /\ n <= MaxDirectives
  <2>1. n \in 0..MaxDirectives
    BY <1>1 DEF AskedOK
  <2>2. MaxDirectives \in Nat
    BY DEF PrintFmtAssumption
  <2> QED
    BY <2>1, <2>2
<1>3. /\ Len(fmt) = EndOf(n) + 1 /\ \A i \in 0..n : EndOf(i) \in Nat /\ EndOf(i) < Len(fmt)
      /\ \A i \in 1..n : EndOf(i) = EndOf(i-1) + Len(Render(asked[i]))
  BY <1>1, FormatIs
<1>4. EndOf(n) \in Nat /\ Len(fmt) \in Nat /\ Len(fmt) >= 1
  <2>1. n \in 0..n
    BY <1>2
  <2> QED
    BY <1>3, <2>1
<1>5. \A i \in 1..n : asked[i] \in Directive
  BY <1>1, AskedIs
<1> DEFINE Place == pos \in 1..Len(fmt) /\ at \in {"text", "escape", "done"}
                    /\ (at = "escape" /\ ch \in {"*", "d", "u", "x", "p", "c", "e", "s"} => args # <<>>)
<1>6. Refused => Place
  BY <1>4 DEF Refused
<1>7. Finished => Place
  BY DEF Finished
<1>8. ASSUME NEW i \in 0..n, Between(i)
      PROVE  Place
  <2>1. at = "text" /\ pos = EndOf(i) + 1 /\ EndOf(i) \in Nat /\ EndOf(i) < Len(fmt)
    BY <1>3, <1>8 DEF Between
  <2> QED
    BY <1>4, <2>1
<1>9. ASSUME NEW i \in 1..n, NEW k \in 1..Len(Render(asked[i])), Literally(i, k)
      PROVE  Place
  <2> DEFINE p == EndOf(i-1)
             l == Len(Render(asked[i]))
  <2>1. at = "text" /\ pos = p + k + 1
    BY <1>9 DEF Literally
  <2>2. i \in 0..n /\ i - 1 \in 0..n
    BY <1>2
  <2>3. p \in Nat /\ p + l < Len(fmt)
    BY <1>3, <2>2
  <2>4. l \in Nat
    <3>1. Render(asked[i]) \in Seq(Chars)
      BY <1>5, ExpectedIs
    <3> QED
      BY <3>1
  <2>5. k \in 1..l
    OBVIOUS
  <2> HIDE DEF p, l
  <2>6. pos \in 1..Len(fmt)
    BY <1>4, <2>1, <2>3, <2>4, <2>5
  <2> QED
    BY <2>1, <2>6
<1>10. ASSUME NEW i \in 1..n, NEW k \in 0..5, Within(i, k)
       PROVE  Place
  <2>1. PICK m \in 0..5 : Next1(i, m)
    BY <1>1, <1>10, PastMissing
  <2>2. Within(i, m)
    BY <2>1 DEF Next1
  <2> DEFINE d == asked[i]
  <2>3. /\ d \in Directive /\ d.conv # "text" /\ at = "escape" /\ ch = Here(i, m)
        /\ pos \in Nat /\ pos <= Len(fmt) /\ pos = EndOf(i-1) + Read(d, m) + 1
        /\ EndOf(i-1) \in Nat /\ Read(d, m) \in Nat
        /\ args = ArgsFrom(TakenBy(i-1) + Taken(d, m)) /\ TakenBy(i-1) \in Nat /\ Taken(d, m) \in Nat
    BY <1>1, <2>2, WithinIs
  <2>4. pos \in 1..Len(fmt)
    BY <1>4, <2>3
  <2>5. ch \in {"*", "d", "u", "x", "p", "c", "e", "s"} => args # <<>>
    <3> SUFFICES ASSUME ch \in {"*", "d", "u", "x", "p", "c", "e", "s"}
                 PROVE  args # <<>>
      OBVIOUS
    <3>1. CASE m = 5
      <4>1. ch = IF d.conv = "cut" THEN "NUL" ELSE d.conv
        BY <1>1, <2>3, <3>1, HereIs
      <4>2. d.conv \in Takes
        BY <2>3, <4>1, DirectiveIs DEF Takes, Plain
      <4> QED
        BY <1>1, <2>2, <3>1, <4>2, OwnArgument
    <3>2. CASE m \in {0, 2, 4}
      <4>1. /\ Has(d, 1) => Here(i, 0) = d.flag
            /\ Has(d, 3) => Here(i, 2) = "."
            /\ Has(d, 5) => Here(i, 4) = "l"
        BY <1>1, <2>3, HereIs
      <4>2. Has(d, m+1)
        BY <2>1, <3>2 DEF Next1
      <4>3. Has(d, 1) => d.flag \in {"0", "-", "#"}
        <5>1. Has(d, 1) => d.flag # NoFlag
          BY DEF Has
        <5>2. d.flag \in {NoFlag, "0", "-", "#"}
          BY <2>3, DirectiveIs
        <5> QED
          BY <5>1, <5>2
      <4>4. ch \in {"0", "-", "#", ".", "l"}
        <5>1. CASE m = 0
          BY <2>3, <4>1, <4>2, <4>3, <5>1
        <5>2. CASE m = 2
          BY <2>3, <4>1, <4>2, <5>2
        <5>3. CASE m = 4
          BY <2>3, <4>1, <4>2, <5>3
        <5> QED
          BY <3>2, <5>1, <5>2, <5>3
      <4> QED
        BY <4>4
    <3>3. CASE m \in {1, 3}
      <4>1. Has(d, m+1) /\ m + 1 \in 0..5
        BY <2>1, <3>3 DEF Next1
      <4>2. CASE d.star
        <5>1. /\ Taken(d, m+1) = Taken(d, m) + 1
          BY <1>1, <2>3, <3>3, <4>1, <4>2, AmountThere
        <5>2. /\ Len(Arguments(d)) = Taken(d, 5) + Owns(d) /\ Taken(d, m+1) <= Taken(d, 5)
              /\ Owns(d) \in {0, 1} /\ Taken(d, 5) \in Nat /\ Taken(d, m+1) \in Nat
          <6>1. 5 \in 0..5
            OBVIOUS
          <6> QED
            BY <2>3, <4>1, <6>1, ArgumentsAre, TakenIs DEF Owns
        <5> DEFINE j == Taken(d, m) + 1
        <5>3. j \in 1..Len(Arguments(d)) /\ TakenBy(i-1) + (j-1) = TakenBy(i-1) + Taken(d, m)
          <6> DEFINE t == Taken(d, m)
                     l == Len(Arguments(d))
          <6>1. t \in Nat /\ j = t + 1 /\ t + 1 <= Taken(d, 5) /\ l = Taken(d, 5) + Owns(d)
                /\ Taken(d, 5) \in Nat /\ Owns(d) \in {0, 1} /\ TakenBy(i-1) \in Nat
            BY <2>3, <5>1, <5>2
          <6> HIDE DEF t, l, j
          <6>2. j \in 1..l /\ TakenBy(i-1) + (j-1) = TakenBy(i-1) + t
            BY <6>1
          <6> QED
            BY <6>2 DEF t, l
        <5>4. ArgsFrom(TakenBy(i-1) + (j-1)) # <<>>
          BY <1>1, <5>3, ArgsAre
        <5> QED
          BY <2>3, <5>3, <5>4
      <4>3. CASE ~d.star
        <5> DEFINE w == Amount(d, AmountAt(d, m))
        <5>1. Digits(i, m, w) /\ w[1] \in {Digit[j] : j \in 2..10}
          BY <1>1, <2>3, <3>3, <4>1, <4>3, AmountThere
        <5> HIDE DEF w
        <5>2. 1 \in 1..Len(w) /\ \A j \in 1..Len(w) : fmt[EndOf(i-1) + Read(d, m) + j] = w[j]
          BY <5>1 DEF Digits
        <5>3. ch = w[1]
          BY <2>3, <5>2 DEF Here
        <5>4. ch \in {"1", "2", "3", "4", "5", "6", "7", "8", "9"}
          BY <5>1, <5>3, DigitChars
        <5> QED
          BY <5>4
      <4> QED
        BY <4>2, <4>3
    <3> QED
      BY <3>1, <3>2, <3>3
  <2> QED
    BY <2>3, <2>4, <2>5
<1>11. Place
  BY <1>6, <1>7, <1>8, <1>9, <1>10, Zenon DEF FormatInv, Located
<1> HIDE DEF Place
<1>12. EOK /\ (size = 0 \/ Len(b.buf) < size)
  BY <1>1 DEF BufferOK
<1> QED
  BY <1>2, <1>11, <1>12, Zenon DEF TypeOK, EOK, OptionsOK, Place

(* When such a state is done, what was asked for is printed.               *)
LEMMA InvImpliesPrinted ==
  ASSUME PrintFmtAssumption, FormatInv, Right
  PROVE  PrintsWhatWasAsked
<1> SUFFICES ASSUME Done, size > 0
             PROVE  LET whole == ConcatOf(Expected, asked)
                    IN  /\ b.cnt = Len(whole)
                        /\ b.buf = SubSeq(whole, 1, Least(size - 1, Len(whole)))
                        /\ args = <<>>
  BY DEF PrintsWhatWasAsked
<1>1. AskedOK /\ Located
  BY DEF FormatInv, Refused
<1>2. Finished
  BY <1>1 DEF Located, Done, Between, Within, Literally
<1> DEFINE whole == FlattenSeq(Texts)
<1>3. args = <<>> /\ b = Printed(whole)
  BY <1>2 DEF Finished, Shows
<1>4. ConcatOf(Expected, asked) = whole
  <2>1. asked \in Seq(Directive)
    BY <1>1 DEF AskedOK
  <2>2. DOMAIN asked = 1..Len(asked)
    BY <2>1
  <2>3. [i \in DOMAIN asked |-> Expected(asked[i])] = Texts
    BY <2>2 DEF Texts
  <2> QED
    BY <2>3, Zenon DEF ConcatOf
<1> HIDE DEF whole
<1>5. b.cnt = Len(whole) /\ b.buf = SubSeq(whole, 1, Least(size - 1, Len(whole)))
  BY <1>3 DEF Printed
<1> QED
  BY <1>3, <1>4, <1>5

(* FormatInv holds of every state: the format is read directive by         *)
(* directive, with the arguments and the text so far of just those.        *)
THEOREM FormatInvariant ==
  ASSUME PrintFmtAssumption
  PROVE  Spec => []FormatInv
<1>1. Init => FormatInv
  BY InitOK
<1>2. FormatInv /\ [Next]_vars => FormatInv'
  BY NextOK
<1> QED
  BY <1>1, <1>2, PTL DEF Spec

(* vprintfmt() never reads past the end of the format or of the argument   *)
(* list, keeps its options in range, and vsnprintf() keeps room for NUL.   *)
THEOREM FormatTypeCorrect ==
  ASSUME PrintFmtAssumption
  PROVE  Spec => []TypeOK
<1>1. FormatInv => TypeOK
  BY InvImpliesType
<1> QED
  BY <1>1, FormatInvariant, PTL

(* When no number is asked for with "-", vsnprintf() prints what was asked *)
(* for, whatever the directives, arguments, widths and size.               *)
THEOREM FormatPrints ==
  ASSUME PrintFmtAssumption, "-" \notin NumFlags
  PROVE  Spec => []PrintsWhatWasAsked
<1>1. FormatInv => PrintsWhatWasAsked
  BY InvImpliesPrinted DEF Right
<1> QED
  BY <1>1, FormatInvariant, PTL
=============================================================================
