------------------------------ MODULE Wsc_proofs -----------------------------
(***************************************************************************)
(* Proofs about the WonderSwan library: first WscRom, for every size of a  *)
(* bank, every program and every set of ROMs, then WscIrq, for every set   *)
(* of interrupts and handlers.                                             *)
(*                                                                         *)
(* The invariant of WscIrq, IrqInv, says, beside what the properties say,  *)
(* what the start-up code has done by when, that an enabled interrupt has  *)
(* an owner, and what main knows in the middle of set_hw_irq: either       *)
(* interrupts are off and no handler runs, or the interrupt it installs    *)
(* has no owner yet and no handler changes REG_INT_ENABLE.                 *)
(***************************************************************************)
EXTENDS WscRom, WscIrq, FiniteSetTheorems, WellFoundedInduction, TLAPS

-----------------------------------------------------------------------------
(* Division and remainder.                                                 *)

LEMMA Euclid ==
    ASSUME NEW a \in Int, NEW b \in Nat \ {0}
    PROVE  /\ a \div b \in Int /\ a % b \in 0..(b - 1)
           /\ a = (a \div b) * b + (a % b)
  OBVIOUS

\* Multiples of b are b apart.
LEMMA Apart ==
    ASSUME NEW b \in Nat \ {0}, NEW j \in Int, NEW k \in Int
    PROVE  /\ j <= k => j * b <= k * b
           /\ j * b < k * b + b => j <= k
<1>1. ASSUME NEW x \in Int, NEW y \in Int, x <= y PROVE x * b <= y * b
  <2> DEFINE e == y - x
  <2>1. e \in Nat /\ y = x + e BY <1>1
  <2> HIDE DEF e
  <2>2. y * b = x * b + e * b BY <2>1
  <2>3. e * b >= 0 /\ x * b \in Int /\ e * b \in Int BY <2>1
  <2> QED BY <2>2, <2>3
<1>2. k + 1 <= j => k * b + b <= j * b
  <2> SUFFICES ASSUME k + 1 <= j PROVE k * b + b <= j * b OBVIOUS
  <2>1. (k + 1) * b <= j * b BY <1>1
  <2> QED BY <2>1
<1>3. j * b \in Int /\ k * b \in Int OBVIOUS
<1> QED BY <1>1, <1>2, <1>3

LEMMA DivMod ==
    ASSUME NEW b \in Nat \ {0}, NEW q \in Int, NEW r \in Int, 0 <= r, r < b
    PROVE  (q * b + r) \div b = q /\ (q * b + r) % b = r
<1> DEFINE a == q * b + r
           c == a \div b
           d == a % b
<1>1. a \in Int OBVIOUS
<1> HIDE DEF a
<1>2. c \in Int /\ d \in Int /\ 0 <= d /\ d < b /\ a = c * b + d BY <1>1, Euclid
<1> HIDE DEF c, d
<1>3. q * b + r = c * b + d BY <1>2 DEF a
<1>4. q * b \in Int /\ c * b \in Int BY <1>2
<1>5. q * b < c * b + b /\ c * b < q * b + b BY <1>2, <1>3, <1>4
<1>6. q <= c /\ c <= q BY <1>2, <1>5, Apart
<1>7. q = c BY <1>2, <1>6
<1>8. d = r BY <1>2, <1>3, <1>4, <1>7
<1> QED BY <1>7, <1>8 DEF a, c, d

LEMMA Multiple ==
    ASSUME NEW a \in Int, a % Bank = 0
    PROVE  a \div Bank \in Int /\ a = (a \div Bank) * Bank
<1> DEFINE q == a \div Bank
<1>1. Bank \in Nat \ {0} BY LayoutAssumption
<1>2. q \in Int /\ a = q * Bank + (a % Bank) BY <1>1, Euclid
<1> HIDE DEF q
<1>3. q * Bank \in Int BY <1>1, <1>2
<1>4. q \in Int /\ a = q * Bank BY <1>2, <1>3
<1> QED BY <1>4 DEF q

-----------------------------------------------------------------------------
(* Sizes.                                                                  *)

Banks(n) == (n + Bank - 1) \div Bank

\* A size is rounded up to the least number of banks that holds it.
LEMMA Rounded ==
    ASSUME NEW n \in Nat
    PROVE  /\ Banks(n) \in Nat
           /\ RoundUp(n) = Banks(n) * Bank /\ RoundUp(n) \in Nat
           /\ RoundUp(n) \div Bank = Banks(n)
           /\ n <= RoundUp(n)
           /\ \A m \in Nat : n <= m * Bank => RoundUp(n) <= m * Bank
<1> USE LayoutAssumption
<1> DEFINE k == Banks(n)
           r == (n + Bank - 1) % Bank
<1>1. Bank \in Nat \ {0} OBVIOUS
<1>2. k \in Int /\ r \in 0..(Bank - 1) /\ n + Bank - 1 = k * Bank + r
  <2> DEFINE a == n + Bank - 1
  <2>1. a \in Int OBVIOUS
  <2> HIDE DEF a
  <2>2. /\ a \div Bank \in Int /\ a % Bank \in 0..(Bank - 1)
        /\ a = (a \div Bank) * Bank + (a % Bank)
    BY <1>1, <2>1, Euclid
  <2> QED BY <2>2 DEF a, Banks
<1>3. RoundUp(n) = k * Bank BY DEF RoundUp, Banks
<1> HIDE DEF k, r
<1>4. k * Bank \in Int BY <1>1, <1>2
<1>5. n <= k * Bank /\ k * Bank < n + Bank BY <1>1, <1>2, <1>4
<1>6. k \in Nat
  <2>1. 0 * Bank < k * Bank + Bank BY <1>1, <1>4, <1>5
  <2>2. 0 <= k BY <2>1, <1>1, <1>2, Apart
  <2> QED BY <2>2, <1>2
<1>7. (k * Bank) \div Bank = k
  <2>1. (k * Bank + 0) \div Bank = k BY <1>1, <1>2, DivMod
  <2>2. k * Bank + 0 = k * Bank BY <1>4
  <2> QED BY <2>1, <2>2
<1>8. ASSUME NEW m \in Nat, n <= m * Bank PROVE k * Bank <= m * Bank
  <2>1. m * Bank \in Nat BY <1>1
  <2>2. k * Bank < m * Bank + Bank BY <1>1, <1>4, <1>5, <1>8, <2>1
  <2>3. k <= m BY <2>2, <1>1, <1>2, Apart
  <2> QED BY <2>3, <1>1, <1>2, Apart
<1> QED BY <1>3, <1>4, <1>5, <1>6, <1>7, <1>8 DEF k

LEMMA ProgramTypes ==
    ASSUME NEW p \in Program
    PROVE  /\ p.start \in Nat /\ p.code \in Nat \ {0}
           /\ p.data \in Nat /\ p.aux \in Nat
           /\ p.start + p.code <= 16 * Bank
           /\ p.data <= MaxData /\ p.data + Meta < Bank
<1>1. /\ p \in [start : Starts, code : 1..MaxCode, data : 0..MaxData, aux : 0..MaxAux]
      /\ p.start + p.code <= 16 * Bank
  BY DEF Program, Top
<1>2. /\ p.start \in Starts /\ p.code \in 1..MaxCode
      /\ p.data \in 0..MaxData /\ p.aux \in 0..MaxAux
  BY <1>1
<1>3. /\ p.start \in Nat /\ p.code \in Nat \ {0}
      /\ p.data \in Nat /\ p.aux \in Nat /\ p.data <= MaxData
  <2>1. MaxCode \in Nat /\ MaxData \in Nat /\ MaxAux \in Nat /\ Starts \subseteq Nat
    BY LayoutAssumption
  <2> DEFINE s == p.start   c == p.code   d == p.data   x == p.aux
  <2>2. s \in Starts /\ c \in 1..MaxCode /\ d \in 0..MaxData /\ x \in 0..MaxAux
    BY <1>2
  <2> HIDE DEF s, c, d, x
  <2>3. s \in Nat /\ c \in Nat \ {0} /\ d \in Nat /\ x \in Nat /\ d <= MaxData
    BY <2>1, <2>2
  <2> QED BY <2>3 DEF s, c, d, x
<1> QED BY <1>1, <1>3, LayoutAssumption

\* Where an aligned program starts, and the banks of Padded.
LEMMA PaddedBanks ==
    ASSUME NEW p \in Program, p.start % Bank = 0
    PROVE  /\ \E k \in Nat \ {0} : Padded(p) = k * Bank
           /\ p.code <= Padded(p)
           /\ IsLarge(p) => 16 * Bank - p.start <= Padded(p)
           /\ p.data + Meta < Padded(p)
           /\ Padded(p) \in {RoundUp(p.code), 16 * Bank - p.start}
<1> USE LayoutAssumption
<1> DEFINE s == p.start \div Bank
           c == Banks(p.code)
<1>1. Bank \in Nat \ {0} OBVIOUS
<1>2. /\ p.start \in Nat /\ p.code \in Nat \ {0} /\ p.data + Meta < Bank
      /\ p.start + p.code <= 16 * Bank /\ p.data \in Nat
  BY ProgramTypes
<1>3. s \in Int /\ p.start = s * Bank
  <2>1. p.start \in Int BY <1>2
  <2> QED BY <2>1, Multiple
<1>4. c \in Nat /\ RoundUp(p.code) = c * Bank /\ p.code <= c * Bank BY <1>2, Rounded
<1> HIDE DEF s, c
<1>5. s * Bank \in Nat /\ c * Bank \in Nat BY <1>2, <1>3, <1>4
<1>6. 16 * Bank - p.start = (16 - s) * Bank BY <1>1, <1>3
<1>7. ASSUME NEW k \in Int, Padded(p) = k * Bank, p.code <= k * Bank
      PROVE  k \in Nat \ {0} /\ Bank <= k * Bank
  <2>1. k * Bank \in Int BY <1>1
  <2>2. 0 * Bank < k * Bank + Bank /\ ~(k = 0) BY <1>1, <1>2, <1>7, <2>1
  <2>3. 0 <= k BY <2>2, <1>1, Apart
  <2>4. 1 <= k BY <2>2, <2>3
  <2>5. 1 * Bank <= k * Bank BY <2>4, <1>1, Apart
  <2> QED BY <2>4, <2>5
<1>8. CASE Padded(p) = c * Bank /\ ~(IsLarge(p) /\ c * Bank < 16 * Bank - p.start)
  <2>1. c \in Nat \ {0} /\ Bank <= c * Bank BY <1>4, <1>7, <1>8
  <2> QED BY <2>1, <1>1, <1>2, <1>4, <1>5, <1>8
<1>9. CASE Padded(p) = 16 * Bank - p.start
  <2>1. 16 - s \in Int /\ Padded(p) = (16 - s) * Bank /\ p.code <= (16 - s) * Bank
    BY <1>1, <1>2, <1>3, <1>6, <1>9
  <2>2. 16 - s \in Nat \ {0} /\ Bank <= (16 - s) * Bank BY <2>1, <1>7
  <2> QED BY <2>1, <2>2, <1>1, <1>2, <1>6, <1>9
<1> QED BY <1>4, <1>8, <1>9 DEF Padded, Top

\* What a program takes at the end of the ROM is whole banks, and enough.
LEMMA CodeBanks ==
    ASSUME NEW p \in Program, p.start % Bank = 0
    PROVE  /\ \E k \in Nat \ {0} : CodeSize(p) = k * Bank
           /\ p.code + p.data + Meta <= CodeSize(p)
<1> USE LayoutAssumption
<1>1. PICK k \in Nat \ {0} : Padded(p) = k * Bank BY PaddedBanks
<1>2. /\ p.code <= k * Bank /\ p.data + Meta < k * Bank
  BY <1>1, PaddedBanks
<1>3. p.code \in Nat /\ p.data \in Nat /\ p.data + Meta < Bank BY ProgramTypes
<1>4. k * Bank \in Nat OBVIOUS
<1> DEFINE P == k * Bank
           c == p.code
           d == p.data
<1>5. Crowded(p) <=> P - d - Meta >= 0 /\ c > P - d - Meta
  BY <1>1 DEF Crowded
<1>6. CASE Crowded(p)
  <2>1. CodeSize(p) = P + Bank BY <1>1, <1>6 DEF CodeSize
  <2>2. P + Bank = (k + 1) * Bank /\ k + 1 \in Nat \ {0} OBVIOUS
  <2> HIDE DEF P, c, d
  <2>3. c + d + Meta <= P + Bank BY <1>2, <1>3, <1>4 DEF P, c, d
  <2>4. \E n \in Nat \ {0} : CodeSize(p) = n * Bank BY <2>1, <2>2, Zenon
  <2>5. p.code + p.data + Meta <= CodeSize(p) BY <2>1, <2>3 DEF c, d
  <2> QED BY <2>4, <2>5
<1>7. CASE ~Crowded(p)
  <2>1. CodeSize(p) = P BY <1>1, <1>7 DEF CodeSize
  <2> HIDE DEF P, c, d
  <2>2. c + d + Meta <= P BY <1>2, <1>3, <1>4, <1>5, <1>7 DEF P, c, d
  <2> QED BY <2>1, <2>2 DEF P, c, d
<1> QED BY <1>6, <1>7

LEMMA LeastOf ==
    ASSUME NEW S, S \subseteq RomBanks, S # {}
    PROVE  Least(S) \in S
<1>1. S \subseteq Nat BY LayoutAssumption
<1> DEFINE R == {q \in Nat \X Nat : q[1] < q[2]}
<1>2. IsWellFoundedOn(R, Nat) BY NatLessThanWellFounded DEF OpToRel
<1>3. \E x \in S : \A y \in S : ~ (<<y, x>> \in R)
  <2> HIDE DEF R
  <2> QED BY <1>1, <1>2, WFMin
<1>4. \E x \in S : \A y \in S : x <= y
  <2>1. PICK x \in S : \A y \in S : ~ (<<y, x>> \in R) BY <1>3
  <2>2. ASSUME NEW y \in S, ~ (x <= y) PROVE FALSE
    <3>1. <<y, x>> \in R BY <1>1, <2>2
    <3> QED BY <2>1, <3>1
  <2> QED BY <2>2
<1> QED BY <1>4 DEF Least

\* The ROM of a program that is not refused: b banks, the last k of them for it.
Fits(p, b, k) ==
    /\ b \in RomBanks /\ k \in 1..b
    /\ RomSize(p) = b * Bank /\ CodeSize(p) = k * Bank
    /\ TextSeg(p) = (256 - k) % 256 /\ DataSeg(p) = (256 - b) % 256
    /\ p.aux <= b * Bank - k * Bank
    /\ p.code + p.data + Meta <= k * Bank
    /\ IsLarge(p) => 16 * Bank - p.start = k * Bank

LEMMA Sizes ==
    ASSUME NEW p \in Program, ~Refused(p)
    PROVE  \E b, k \in Nat : Fits(p, b, k)
<1> USE LayoutAssumption
<1>1. p.start % Bank = 0 /\ RomsFor(Needed(p)) # {} /\ ~(Crowded(p) /\ IsLarge(p))
  BY DEF Refused
<1>2. PICK k \in Nat \ {0} : CodeSize(p) = k * Bank BY <1>1, CodeBanks
<1>3. /\ p.start \in Nat /\ p.code \in Nat \ {0} /\ p.data \in Nat /\ p.aux \in Nat
      /\ p.start + p.code <= 16 * Bank
  BY ProgramTypes
<1> DEFINE b == Least(RomsFor(Needed(p)))
           x == RoundUp(p.aux)
<1>4. b \in RomBanks /\ Needed(p) <= b * Bank
  <2>1. RomsFor(Needed(p)) \subseteq RomBanks BY DEF RomsFor
  <2>2. b \in RomsFor(Needed(p)) BY <1>1, <2>1, LeastOf
  <2> QED BY <2>2 DEF RomsFor
<1>5. RomSize(p) = b * Bank BY DEF RomSize
<1> HIDE DEF b
<1>6. x \in Nat /\ p.aux <= x /\ Needed(p) = k * Bank + x
  BY <1>2, <1>3, Rounded DEF Needed
<1> HIDE DEF x
<1>7. b \in 1..256 /\ b \in Nat BY <1>4
<1>8. k * Bank \in Nat /\ b * Bank \in Nat BY <1>7
<1>9. k <= b
  <2>1. k * Bank < b * Bank + Bank BY <1>4, <1>6, <1>8
  <2> QED BY <2>1, <1>7, Apart
<1>10. p.aux <= b * Bank - k * Bank BY <1>3, <1>4, <1>6, <1>8
<1>11. ASSUME NEW n \in Nat PROVE (n * Bank) \div Bank = n
  <2>1. (n * Bank + 0) \div Bank = n BY DivMod
  <2>2. n * Bank + 0 = n * Bank OBVIOUS
  <2> QED BY <2>1, <2>2
<1>12. TextSeg(p) = (256 - k) % 256 BY <1>2, <1>11 DEF TextSeg
<1>13. DataSeg(p) = (256 - b) % 256 BY <1>5, <1>7, <1>11 DEF DataSeg
<1>14. p.code + p.data + Meta <= k * Bank BY <1>1, <1>2, CodeBanks
<1>15. ASSUME IsLarge(p) PROVE 16 * Bank - p.start = k * Bank
  <2>1. ~Crowded(p) /\ CodeSize(p) = Padded(p) BY <1>1, <1>15 DEF CodeSize
  <2>2. /\ Padded(p) \in {RoundUp(p.code), 16 * Bank - p.start}
        /\ 16 * Bank - p.start <= Padded(p)
    BY <1>1, <1>15, PaddedBanks
  <2>3. RoundUp(p.code) <= 16 * Bank - p.start
    <3> DEFINE s == p.start \div Bank
    <3>3. s \in Int /\ p.start = s * Bank
      <4>1. p.start \in Int /\ p.start % Bank = 0 BY <1>1, <1>3
      <4> QED BY <4>1, Multiple
    <3> HIDE DEF s
    <3>4. 16 * Bank - p.start = (16 - s) * Bank BY <3>3
    <3>5. p.code <= (16 - s) * Bank /\ (16 - s) * Bank \in Int BY <1>3, <3>3, <3>4
    <3>6. 16 - s \in Nat
      <4>1. 0 * Bank < (16 - s) * Bank + Bank BY <1>3, <3>3, <3>5
      <4>2. 0 <= 16 - s BY <4>1, <3>3, Apart
      <4> QED BY <4>2, <3>3
    <3>7. PICK m \in Nat : m = 16 - s BY <3>6
    <3>8. p.code \in Nat /\ p.code <= m * Bank BY <1>3, <3>5, <3>7
    <3>9. RoundUp(p.code) <= m * Bank BY <3>8, Rounded
    <3> QED BY <3>4, <3>7, <3>9
  <2>4. 16 * Bank - p.start \in Int /\ RoundUp(p.code) \in Nat BY <1>3, Rounded
  <2> QED BY <1>2, <2>1, <2>2, <2>3, <2>4
<1>16. k \in 1..b BY <1>7, <1>9
<1> QED
  BY <1>2, <1>4, <1>5, <1>7, <1>10, <1>12, <1>13, <1>14, <1>15, <1>16 DEF Fits

-----------------------------------------------------------------------------
(* The ROM, and what of it the processor sees.                             *)

\* Counted from the end of the address space, bank 256 - j is j-th from the end
\* of a ROM of b banks.
LEMMA BankOf ==
    ASSUME NEW b \in 1..256, NEW j \in 1..b
    PROVE  /\ (256 - j) % 256 \in 0..255
           /\ j < 256 => (256 - j) % 256 = 256 - j
           /\ (((256 - j) % 256) - 256) % b = b - j
<1>1. b \in Nat \ {0} /\ b - j \in Int /\ 0 <= b - j /\ b - j < b OBVIOUS
<1>2. CASE j = 256
  <2>1. b = 256 /\ (256 - j) % 256 = 0 BY <1>2
  <2> QED BY <2>1, <1>2
<1>3. CASE j < 256
  <2>1. (256 - j) % 256 = 256 - j BY <1>3
  <2>2. (-1 * b + (b - j)) % b = b - j BY <1>1, DivMod
  <2>3. -1 * b + (b - j) = 0 - j OBVIOUS
  <2>4. (256 - j) - 256 = 0 - j OBVIOUS
  <2> QED BY <2>1, <2>2, <2>3, <2>4
<1> QED BY <1>2, <1>3

\* wscromtool's data bank and GET_DATA_BANK add up to bank n of the ROM.
LEMMA DataBankOf ==
    ASSUME NEW b \in 1..256, NEW n \in 0..(b - 1)
    PROVE  (n + ((256 - b) % 256)) % 256 = (256 - (b - n)) % 256
<1>1. CASE b = 256 BY <1>1
<1>2. CASE b < 256
  <2>1. (256 - b) % 256 = 256 - b BY <1>2
  <2> QED BY <2>1
<1> QED BY <1>1, <1>2

\* Program, initial data and raw data do not cover each other.
LEMMA Cells ==
    ASSUME NEW p \in Program, NEW b \in Nat, NEW k \in Nat, Fits(p, b, k)
    PROVE  /\ DOMAIN Image(p) = 0..(b * Bank - 1)
           /\ \A i \in 0..(p.code - 1) : Image(p)[(b - k) * Bank + i] = <<"code", i>>
           /\ \A i \in 0..(p.aux - 1) : Image(p)[i] = <<"aux", i>>
           /\ \A i \in 0..(p.data - 1) :
                 Image(p)[b * Bank - p.data - Meta + i] = <<"data", i>>
           /\ \A i \in DOMAIN Image(p) : Image(p)[i] \in Cell
<1> USE LayoutAssumption
<1> DEFINE size == b * Bank
           codeAt == size - k * Bank
           dataAt == size - p.data - Meta
           I == Image(p)
<1>1. /\ p.code \in Nat /\ p.data \in Nat /\ p.aux \in Nat
  BY ProgramTypes
<1>2. /\ RomSize(p) = size /\ CodeSize(p) = k * Bank /\ k <= b
      /\ p.aux <= codeAt /\ p.code + p.data + Meta <= k * Bank
  BY DEF Fits
<1>3. I = [i \in 0..(size - 1) |->
             IF i >= size - Meta THEN <<"meta", i - (size - Meta)>>
             ELSE IF i >= dataAt THEN <<"data", i - dataAt>>
             ELSE IF codeAt <= i /\ i < codeAt + p.code THEN <<"code", i - codeAt>>
             ELSE IF i < p.aux THEN <<"aux", i>> ELSE <<"zero", 0>>]
  BY <1>2 DEF Image
<1> HIDE DEF I
<1>4. size \in Nat /\ k * Bank \in Nat /\ k * Bank <= size
  BY <1>2, Apart
<1>5. codeAt \in Nat /\ dataAt \in Nat /\ codeAt + p.code <= dataAt /\ dataAt < size
  BY <1>1, <1>2, <1>4
<1>6. (b - k) * Bank = codeAt OBVIOUS
<1> HIDE DEF size
<1>7. ASSUME NEW i \in 0..(p.code - 1) PROVE I[codeAt + i] = <<"code", i>>
  <2> DEFINE x == codeAt + i
  <2>1. x \in 0..(size - 1) /\ ~(x >= size - Meta) /\ ~(x >= dataAt)
        /\ codeAt <= x /\ x < codeAt + p.code /\ x - codeAt = i
    BY <1>1, <1>4, <1>5
  <2> HIDE DEF x, codeAt, dataAt
  <2>2. I[x] = <<"code", i>> BY <1>3, <2>1
  <2> QED BY <2>2 DEF x
<1>8. ASSUME NEW i \in 0..(p.aux - 1) PROVE I[i] = <<"aux", i>>
  <2>1. i \in 0..(size - 1) /\ ~(i >= size - Meta) /\ ~(i >= dataAt)
        /\ ~(codeAt <= i) /\ i < p.aux
    BY <1>1, <1>2, <1>4, <1>5
  <2> HIDE DEF codeAt, dataAt
  <2> QED BY <1>3, <2>1
<1>9. ASSUME NEW i \in 0..(p.data - 1) PROVE I[dataAt + i] = <<"data", i>>
  <2> DEFINE x == dataAt + i
  <2>1. x \in 0..(size - 1) /\ ~(x >= size - Meta) /\ x >= dataAt /\ x - dataAt = i
    BY <1>1, <1>4, <1>5
  <2> HIDE DEF x, codeAt, dataAt
  <2>2. I[x] = <<"data", i>> BY <1>3, <2>1
  <2> QED BY <2>2 DEF x
<1>10. ASSUME NEW i \in 0..(size - 1) PROVE I[i] \in Cell
  <2>1. i >= size - Meta => i - (size - Meta) \in Nat BY <1>4, <1>10
  <2>2. i >= dataAt => i - dataAt \in Nat BY <1>5, <1>10
  <2>3. codeAt <= i => i - codeAt \in Nat BY <1>5, <1>10
  <2>4. i \in Nat BY <1>10
  <2> HIDE DEF codeAt, dataAt
  <2> QED BY <1>3, <2>1, <2>2, <2>3, <2>4 DEF Cell
<1> QED BY <1>3, <1>6, <1>7, <1>8, <1>9, <1>10 DEF I, size, dataAt

\* InRom and Read for the ROM r.
At(r, v, o) == r[((v - 256) % (Cardinality(DOMAIN r) \div Bank)) * Bank + o]
Sees(r, r0, r1, a) ==
    LET w == a \div Bank
    IN  At(r, IF w = 2 THEN r0 ELSE IF w = 3 THEN r1 ELSE 240 + w, a % Bank)

\* r is a ROM of b banks; v selects the j-th of them from the end, and Unit is what
\* it has at offset o.  Address a is offset o of the first or second window, or of
\* the j-th bank from the end above them.
Offset == 0..(Bank - 1)
RomOf(r, b) == b \in 1..256 /\ DOMAIN r = 0..(b * Bank - 1)
Selects(v, j, b) == j \in 1..b /\ v = (256 - j) % 256
Unit(r, b, j, o) == r[(b - j) * Bank + o]
InFirst(a, o) == a = 2 * Bank + o
InSecond(a, o) == a = 3 * Bank + o
Above(a, j, o, b) == j \in 1..b /\ j <= 12 /\ a = (16 - j) * Bank + o

LEMMA BankAt ==
    ASSUME NEW r, NEW b, NEW j, NEW v, NEW o \in Offset, RomOf(r, b), Selects(v, j, b)
    PROVE  At(r, v, o) = Unit(r, b, j, o)
<1> USE LayoutAssumption DEF RomOf, Selects, Offset
<1>1. Cardinality(DOMAIN r) = b * Bank
  <2>1. b * Bank \in Nat \ {0}
    <3>1. 1 * Bank <= b * Bank BY Apart
    <3> QED BY <3>1
  <2>2. 0 \in Int /\ b * Bank - 1 \in Int /\ ~(0 > b * Bank - 1) BY <2>1
  <2>3. Cardinality(0..(b * Bank - 1)) = b * Bank - 1 - 0 + 1 BY <2>2, FS_Interval
  <2> QED BY <2>1, <2>3
<1>2. (b * Bank) \div Bank = b
  <2>1. (b * Bank + 0) \div Bank = b BY DivMod
  <2> QED BY <2>1
<1>3. (v - 256) % b = b - j BY BankOf
<1>4. At(r, v, o) = r[((v - 256) % b) * Bank + o] BY <1>1, <1>2 DEF At
<1> HIDE LayoutAssumption DEF RomOf, Selects, Offset
<1> QED BY <1>3, <1>4, Zenon DEF Unit

LEMMA FirstAt ==
    ASSUME NEW r, NEW b, NEW j, NEW v, NEW o \in Offset, NEW a, NEW r1,
           RomOf(r, b), Selects(v, j, b), InFirst(a, o)
    PROVE  Sees(r, v, r1, a) = Unit(r, b, j, o)
<1>1. At(r, v, o) = Unit(r, b, j, o) BY BankAt
<1>2. (2 * Bank + o) \div Bank = 2 /\ (2 * Bank + o) % Bank = o
  BY LayoutAssumption, DivMod DEF Offset
<1> QED BY <1>1, <1>2 DEF Sees, InFirst

LEMMA SecondAt ==
    ASSUME NEW r, NEW b, NEW j, NEW v, NEW o \in Offset, NEW a, NEW r0,
           RomOf(r, b), Selects(v, j, b), InSecond(a, o)
    PROVE  Sees(r, r0, v, a) = Unit(r, b, j, o)
<1>1. At(r, v, o) = Unit(r, b, j, o) BY BankAt
<1>2. (3 * Bank + o) \div Bank = 3 /\ (3 * Bank + o) % Bank = o
  BY LayoutAssumption, DivMod DEF Offset
<1> QED BY <1>1, <1>2 DEF Sees, InSecond

LEMMA AboveAt ==
    ASSUME NEW r, NEW b, NEW j, NEW o \in Offset, NEW a, NEW r0, NEW r1,
           RomOf(r, b), Above(a, j, o, b)
    PROVE  Sees(r, r0, r1, a) = Unit(r, b, j, o)
<1> DEFINE w == 16 - j
<1>1. w \in Nat /\ w # 2 /\ w # 3 BY DEF Above, RomOf
<1>2. Selects(240 + w, j, b)
  <2>1. 240 + w = 256 - j /\ j \in 1..b /\ j < 256 /\ b \in 1..256
    BY DEF Above, RomOf
  <2> QED BY <2>1, BankOf DEF Selects
<1>3. Bank \in Nat \ {0} /\ o \in Int /\ 0 <= o /\ o < Bank
  BY LayoutAssumption DEF Offset
<1>4. a = w * Bank + o BY DEF Above
<1> HIDE DEF w
<1>5. (w * Bank + o) \div Bank = w /\ (w * Bank + o) % Bank = o BY <1>1, <1>3, DivMod
<1>6. At(r, 240 + w, o) = Unit(r, b, j, o) BY <1>2, BankAt
<1> QED BY <1>1, <1>4, <1>5, <1>6 DEF Sees

-----------------------------------------------------------------------------
(* The invariant.                                                          *)

\* What wscromtool wrote stays as it is ...
Laid == stage \notin {"linked", "refused"} =>
    /\ ~Refused(prog) /\ rom = Image(prog)
    /\ boot = [jump |-> IF IsLarge(prog) THEN 4 * Bank ELSE 2 * Bank,
               text |-> TextSeg(prog), data |-> DataSeg(prog)]

Declined == stage = "refused" => Refused(prog)

\* ... a program keeps the window it runs in ...
InWindow ==
    /\ stage \in {"cstart", "cleared", "copied"} => rom0 = boot.text
    /\ stage = "main" /\ ~IsLarge(prog) => rom0 = boot.text

\* ... and this is how far wsccrt0 has brought RAM.
Filled ==
    /\ stage = "cleared" => ram = [c \in RamCell |-> <<"zero", 0>>]
    /\ stage = "copied" =>
          ram = [c \in RamCell |-> IF c < EndData THEN <<"data", c - BegData>>
                                   ELSE <<"zero", 0>>]
    /\ stage = "main" => ram[EndData] = <<"banks", boot.text + 256 * boot.data>>

IInv == TypeOK /\ Laid /\ Declined /\ InWindow /\ Filled

\* The ROM has b banks, the program the last k of them.
LaidAs(b, k) ==
    /\ Fits(prog, b, k) /\ b \in 1..256 /\ k \in 1..b
    /\ DOMAIN rom = 0..(b * Bank - 1)
    /\ boot.text = (256 - k) % 256 /\ boot.data = (256 - b) % 256
    /\ \A i \in 0..(prog.code - 1) : rom[(b - k) * Bank + i] = <<"code", i>>
    /\ \A i \in 0..(prog.aux - 1) : rom[i] = <<"aux", i>>
    /\ \A i \in 0..(prog.data - 1) :
          rom[b * Bank - prog.data - Meta + i] = <<"data", i>>

LEMMA LaidSizes ==
    ASSUME TypeOK, Laid, stage \notin {"linked", "refused"}
    PROVE  \E b, k \in Nat : LaidAs(b, k)
<1>1. prog \in Program /\ ~Refused(prog) /\ rom = Image(prog) BY DEF TypeOK, Laid
<1>2. PICK b, k \in Nat : Fits(prog, b, k) BY <1>1, Sizes
<1>3. b \in 1..256 /\ k \in 1..b /\ TextSeg(prog) = (256 - k) % 256
      /\ DataSeg(prog) = (256 - b) % 256
  BY <1>2, LayoutAssumption DEF Fits
<1>4. boot.text = (256 - k) % 256 /\ boot.data = (256 - b) % 256
  BY <1>3 DEF Laid
<1>5. /\ DOMAIN rom = 0..(b * Bank - 1)
      /\ \A i \in 0..(prog.code - 1) : rom[(b - k) * Bank + i] = <<"code", i>>
      /\ \A i \in 0..(prog.aux - 1) : rom[i] = <<"aux", i>>
      /\ \A i \in 0..(prog.data - 1) :
            rom[b * Bank - prog.data - Meta + i] = <<"data", i>>
  <2> DEFINE p == prog
             r == rom
  <2>1. p \in Program /\ r = Image(p) /\ Fits(p, b, k) BY <1>1, <1>2
  <2> HIDE DEF p, r
  <2>2. /\ DOMAIN r = 0..(b * Bank - 1)
        /\ \A i \in 0..(p.code - 1) : r[(b - k) * Bank + i] = <<"code", i>>
        /\ \A i \in 0..(p.aux - 1) : r[i] = <<"aux", i>>
        /\ \A i \in 0..(p.data - 1) : r[b * Bank - p.data - Meta + i] = <<"data", i>>
    BY <2>1, Cells
  <2> QED BY <2>2 DEF p, r
<1> QED BY <1>2, <1>3, <1>4, <1>5 DEF LaidAs

LEMMA RamTypes ==
    ASSUME NEW p \in Program
    PROVE  BegData + p.data \in RamCell /\ BegData + p.data \in Nat
  BY ProgramTypes, LayoutAssumption DEF RamCell

\* Initial data stands where wsccrt0 looks for it: before the metadata in the last bank.
LEMMA DataThere ==
    ASSUME TypeOK, Laid, stage \notin {"linked", "refused"},
           NEW i \in 0..(prog.data - 1)
    PROVE  InitialData(i) = <<"data", i>>
<1> USE LayoutAssumption
<1>a. PICK b, k \in Nat : LaidAs(b, k) BY LaidSizes
<1>1. /\ b \in 1..256 /\ DOMAIN rom = 0..(b * Bank - 1)
      /\ rom[b * Bank - prog.data - Meta + i] = <<"data", i>>
  BY <1>a DEF LaidAs
<1>b. b \in 1..256 /\ b \in Int BY <1>1
<1>2. prog.data \in Nat /\ prog.data + Meta < Bank BY ProgramTypes DEF TypeOK
<1>3. PICK o \in 0..(Bank - 1) : o = Bank - Meta - prog.data + i BY <1>2
<1>4. PosMetadata - prog.data + i = 15 * Bank + o BY <1>2, <1>3 DEF PosMetadata
<1>5. (b - 1) * Bank + o = b * Bank - prog.data - Meta + i
  <2>1. (b - 1) * Bank = b * Bank - Bank /\ b * Bank \in Int BY <1>b
  <2> QED BY <1>2, <1>3, <2>1
<1>c. 1 \in 1..b BY <1>b
<1>6. PICK j \in 1..b : j = 1 BY <1>c
<1>7. j <= 12 /\ 15 * Bank + o = (16 - j) * Bank + o BY <1>6
<1>8. PICK r, r0, r1, a : r = rom /\ r0 = rom0 /\ r1 = rom1 /\ a = 15 * Bank + o
  OBVIOUS
<1>9. RomOf(r, b) /\ Above(a, j, o, b) /\ o \in Offset
  BY <1>1, <1>7, <1>8 DEF RomOf, Above, Offset
<1>10. Sees(r, r0, r1, a) = Unit(r, b, j, o) BY <1>9, AboveAt
<1>11. Read(rom0, rom1, a) = Sees(r, r0, r1, a) BY <1>8 DEF Read, InRom, Sees, At
<1>12. Unit(r, b, j, o) = <<"data", i>> BY <1>1, <1>5, <1>6, <1>8 DEF Unit
<1> QED BY <1>4, <1>8, <1>10, <1>11, <1>12 DEF InitialData

LEMMA InitInv == Init => IInv
<1> SUFFICES ASSUME Init PROVE IInv
  OBVIOUS
<1> USE LayoutAssumption DEF Init
<1>1. TypeOK
  <2>1. stage \in Stages /\ prog \in Program BY DEF Stages
  <2>2. DOMAIN rom = {} OBVIOUS
  <2>3. boot \in [jump : {0, 2 * Bank, 4 * Bank}, text : 0..255, data : 0..255] OBVIOUS
  <2>4. ram \in [RamCell -> Cell] BY DEF Cell
  <2> QED BY <2>1, <2>2, <2>3, <2>4 DEF TypeOK
<1> QED BY <1>1 DEF IInv, Laid, Declined, InWindow, Filled, EndData

LEMMA RomToolInv == IInv /\ RomTool => IInv'
<1> SUFFICES ASSUME IInv, RomTool PROVE IInv'
  OBVIOUS
<1> USE LayoutAssumption
<1>1. prog \in Program /\ ~Refused(prog) BY DEF IInv, TypeOK, RomTool
<1>2. PICK b, k \in Nat : Fits(prog, b, k) BY <1>1, Sizes
<1>3. b \in 1..256 /\ k \in 1..b /\ TextSeg(prog) = (256 - k) % 256
      /\ DataSeg(prog) = (256 - b) % 256
  BY <1>2 DEF Fits
<1>4. TypeOK'
  <2>1. /\ DOMAIN rom' \subseteq Nat
        /\ \A i \in DOMAIN rom' : rom'[i] \in Cell
    BY <1>1, <1>2, Cells DEF RomTool
  <2>2. TextSeg(prog) \in 0..255 /\ DataSeg(prog) \in 0..255 BY <1>3
  <2>3. boot' \in [jump : {0, 2 * Bank, 4 * Bank}, text : 0..255, data : 0..255]
    BY <2>2 DEF RomTool
  <2> QED BY <2>1, <2>3 DEF IInv, TypeOK, RomTool, Stages, RamCell
<1>5. Laid' BY <1>1 DEF RomTool, Laid
<1>6. Declined' /\ InWindow' /\ Filled' BY DEF RomTool, Declined, InWindow, Filled
<1> QED BY <1>4, <1>5, <1>6 DEF IInv

LEMMA RomToolRefusesInv == IInv /\ RomToolRefuses => IInv'
<1> SUFFICES ASSUME IInv, RomToolRefuses PROVE IInv'
  OBVIOUS
<1>1. TypeOK' BY DEF IInv, TypeOK, RomToolRefuses, Stages, RamCell
<1>2. Laid' /\ Declined' BY DEF RomToolRefuses, Laid, Declined
<1>3. InWindow' /\ Filled' BY DEF RomToolRefuses, InWindow, Filled
<1> QED BY <1>1, <1>2, <1>3 DEF IInv

LEMMA ResetInv == IInv /\ Reset => IInv'
<1> SUFFICES ASSUME IInv, Reset PROVE IInv'
  OBVIOUS
<1>1. TypeOK' BY LayoutAssumption DEF IInv, TypeOK, Reset, Stages, RamCell
<1>2. Laid' BY DEF IInv, Reset, Laid
<1>3. Declined' /\ InWindow' /\ Filled' BY DEF Reset, Declined, InWindow, Filled
<1> QED BY <1>1, <1>2, <1>3 DEF IInv

LEMMA BootstrapInv == IInv /\ Bootstrap => IInv'
<1> SUFFICES ASSUME IInv, Bootstrap PROVE IInv'
  OBVIOUS
<1>1. TypeOK' BY DEF IInv, TypeOK, Bootstrap, Stages, RamCell
<1>2. Laid' BY DEF IInv, Bootstrap, Laid
<1>3. Declined' /\ InWindow' /\ Filled' BY DEF Bootstrap, Declined, InWindow, Filled
<1> QED BY <1>1, <1>2, <1>3 DEF IInv

LEMMA ClearRamInv == IInv /\ ClearRam => IInv'
<1> SUFFICES ASSUME IInv, ClearRam PROVE IInv'
  OBVIOUS
<1>1. ram' \in [RamCell -> Cell] BY DEF ClearRam, Cell
<1>2. TypeOK' BY <1>1 DEF IInv, TypeOK, ClearRam, Stages, RamCell
<1>3. Laid' BY DEF IInv, ClearRam, Laid
<1>4. Declined' /\ InWindow' BY DEF IInv, ClearRam, Declined, InWindow
<1>5. Filled' BY DEF ClearRam, Filled, RamCell
<1> QED BY <1>2, <1>3, <1>4, <1>5 DEF IInv

LEMMA CopyDataInv == IInv /\ CopyData => IInv'
<1> SUFFICES ASSUME IInv, CopyData PROVE IInv'
  OBVIOUS
<1> USE LayoutAssumption
<1>1. prog \in Program /\ prog.data \in Nat BY ProgramTypes DEF IInv, TypeOK
<1>2. ASSUME NEW c \in RamCell, c < EndData
      PROVE  InitialData(c - BegData) = <<"data", c - BegData>> /\ c - BegData \in Nat
  <2>1. c - BegData \in 0..(prog.data - 1) BY <1>1, <1>2 DEF RamCell, EndData
  <2>2. TypeOK /\ Laid /\ stage \notin {"linked", "refused"} BY DEF IInv, CopyData
  <2>3. InitialData(c - BegData) = <<"data", c - BegData>> BY <2>1, <2>2, DataThere
  <2> QED BY <2>1, <2>3
<1>3. ram = [c \in RamCell |-> <<"zero", 0>>] BY DEF IInv, Filled, CopyData
<1>4. ram' = [c \in RamCell |-> IF c < EndData THEN <<"data", c - BegData>>
                                ELSE <<"zero", 0>>]
  BY <1>2, <1>3 DEF CopyData
<1>5. ram' \in [RamCell -> Cell] BY <1>2, <1>4 DEF Cell
<1>6. TypeOK' BY <1>5 DEF IInv, TypeOK, CopyData, Stages, RamCell
<1>7. Laid' BY DEF IInv, CopyData, Laid
<1>8. Declined' /\ InWindow' BY DEF IInv, CopyData, Declined, InWindow
<1>9. Filled' BY <1>4 DEF CopyData, Filled, RamCell, EndData
<1> QED BY <1>6, <1>7, <1>8, <1>9 DEF IInv

LEMMA StoreBanksInv == IInv /\ StoreBanks => IInv'
<1> SUFFICES ASSUME IInv, StoreBanks PROVE IInv'
  OBVIOUS
<1>1. EndData \in RamCell BY RamTypes DEF IInv, TypeOK, EndData
<1>2. boot.text + 256 * boot.data \in Nat
  <2>1. boot.text \in 0..255 /\ boot.data \in 0..255 BY DEF IInv, TypeOK
  <2> DEFINE t == boot.text
             d == boot.data
  <2>2. t \in 0..255 /\ d \in 0..255 BY <2>1
  <2> HIDE DEF t, d
  <2>3. t + 256 * d \in Nat BY <2>2
  <2> QED BY <2>3 DEF t, d
<1>3. ram \in [RamCell -> Cell] BY DEF IInv, TypeOK
<1>4. ram' = [ram EXCEPT ![EndData] = <<"banks", boot.text + 256 * boot.data>>]
  BY DEF StoreBanks
<1>5. <<"banks", boot.text + 256 * boot.data>> \in Cell BY <1>2 DEF Cell
<1>6. ram' \in [RamCell -> Cell] BY <1>3, <1>4, <1>5
<1>7. TypeOK' BY <1>6 DEF IInv, TypeOK, StoreBanks, Stages, RamCell
<1>8. Laid' BY DEF IInv, StoreBanks, Laid
<1>9. Declined' /\ InWindow' BY DEF IInv, StoreBanks, Declined, InWindow
<1>10. Filled'
  <2>1. ram'[EndData] = <<"banks", boot.text + 256 * boot.data>> BY <1>1, <1>3, <1>4
  <2>2. EndData' = EndData /\ boot' = boot BY DEF StoreBanks, EndData
  <2> QED BY <2>1, <2>2 DEF Filled, StoreBanks
<1> QED BY <1>7, <1>8, <1>9, <1>10 DEF IInv

LEMMA WriteVariablesInv == IInv /\ WriteVariables => IInv'
<1> SUFFICES ASSUME IInv, WriteVariables PROVE IInv'
  OBVIOUS
<1>1. EndData \in RamCell BY RamTypes DEF IInv, TypeOK, EndData
<1>2. ram \in [RamCell -> Cell] BY DEF IInv, TypeOK
<1>3. ram' = [c \in RamCell |-> IF c = EndData THEN ram[c] ELSE <<"own", 0>>]
  BY DEF WriteVariables
<1>4. <<"own", 0>> \in Cell BY DEF Cell
<1>5. ram' \in [RamCell -> Cell] BY <1>2, <1>3, <1>4
<1>6. TypeOK' BY <1>5 DEF IInv, TypeOK, WriteVariables, Stages, RamCell
<1>7. Laid' BY DEF IInv, WriteVariables, Laid
<1>8. Declined' /\ InWindow' BY DEF IInv, WriteVariables, Declined, InWindow
<1>9. Filled'
  <2>1. ram'[EndData] = ram[EndData] BY <1>1, <1>3
  <2>2. EndData' = EndData /\ boot' = boot /\ stage = "main" /\ stage' = "main"
    BY DEF WriteVariables, EndData
  <2> QED BY <2>1, <2>2 DEF IInv, Filled
<1> QED BY <1>6, <1>7, <1>8, <1>9 DEF IInv

LEMMA SelectBankInv == IInv /\ SelectBank => IInv'
<1> SUFFICES ASSUME IInv, SelectBank PROVE IInv'
  OBVIOUS
<1> USE LayoutAssumption
<1>1. stage = "main" /\ prog \in Program /\ boot.data \in 0..255 /\ boot.text \in 0..255
  BY DEF IInv, TypeOK, SelectBank
<1>2. DataBank \in Int
  <2>1. ram[EndData] = <<"banks", boot.text + 256 * boot.data>>
    BY <1>1 DEF IInv, Filled
  <2> DEFINE t == boot.text
             d == boot.data
  <2>2. t \in 0..255 /\ d \in 0..255 BY <1>1
  <2>3. DataBank = (t + 256 * d) \div 256 BY <2>1 DEF DataBank
  <2> HIDE DEF t, d
  <2> QED BY <2>2, <2>3
<1>3. AuxBanks \in Nat
  <2>1. prog.aux \in Nat BY <1>1, ProgramTypes
  <2> QED BY <2>1, Rounded DEF AuxBanks
<1>4. \A n \in 0..(AuxBanks - 1) : GetDataBank(n) \in 0..255
  BY <1>2, <1>3 DEF GetDataBank
<1>5. rom0' \in 0..255 /\ rom1' \in 0..255 BY <1>4 DEF SelectBank, IInv, TypeOK
<1>6. TypeOK' BY <1>5 DEF IInv, TypeOK, SelectBank, Stages, RamCell
<1>7. Laid' BY DEF IInv, SelectBank, Laid
<1>8. Declined' BY DEF IInv, SelectBank, Declined
<1>9. InWindow' BY DEF IInv, SelectBank, InWindow, IsLarge
<1>10. Filled' BY DEF IInv, SelectBank, Filled, EndData, RamCell
<1> QED BY <1>6, <1>7, <1>8, <1>9, <1>10 DEF IInv

LEMMA StutterInv == IInv /\ UNCHANGED vars => IInv'
BY DEF IInv, TypeOK, Laid, Declined, InWindow, Filled, EndData, RamCell, vars

LEMMA NextInv == IInv /\ [Next]_vars => IInv'
BY RomToolInv, RomToolRefusesInv, ResetInv, BootstrapInv, ClearRamInv, CopyDataInv,
   StoreBanksInv, WriteVariablesInv, SelectBankInv, StutterInv DEF Next

-----------------------------------------------------------------------------
(* What follows.                                                           *)

LEMMA Invariant == Spec => []IInv
<1>1. Init => IInv BY InitInv
<1>2. IInv /\ [Next]_vars => IInv' BY NextInv
<1> QED BY <1>1, <1>2, PTL DEF Spec

\* rom.c load_rom, wsccrt0.asm: whatever program, ROM and data there are, cells of the
\* ROM and of RAM, banks and addresses are what they are meant to be.
THEOREM TypeCorrect == Spec => []TypeOK
<1>1. IInv => TypeOK BY DEF IInv
<1> QED BY <1>1, Invariant, PTL

LEMMA CodeThere ==
    ASSUME IInv, stage \in Running, prog.start \in {2 * Bank, 4 * Bank}
    PROVE  CodeInPlace
<1> USE LayoutAssumption
<1>1. /\ TypeOK /\ Laid /\ InWindow /\ stage \notin {"linked", "refused"}
      /\ prog \in Program
  BY DEF IInv, TypeOK, Running
<1>a. PICK b, k \in Nat : LaidAs(b, k) BY <1>1, LaidSizes
<1>2. /\ Fits(prog, b, k) /\ b \in 1..256 /\ k \in 1..b
      /\ DOMAIN rom = 0..(b * Bank - 1)
      /\ boot.text = (256 - k) % 256
      /\ \A i \in 0..(prog.code - 1) : rom[(b - k) * Bank + i] = <<"code", i>>
  BY <1>a DEF LaidAs
<1>3. prog.code \in Nat /\ prog.data \in Nat BY <1>1, ProgramTypes
<1>4. CASE prog.start = 2 * Bank
  <2>1. ~IsLarge(prog) BY <1>4 DEF IsLarge
  <2>2. boot.jump = prog.start BY <1>1, <1>4, <2>1 DEF Laid
  <2>3. rom0 = boot.text BY <1>1, <2>1 DEF InWindow, Running
  <2>4. ASSUME NEW i \in 0..(prog.code - 1), i < Bank
        PROVE  Shows(rom0, rom1, prog.start + i, <<"code", i>>)
    <3>1. i \in 0..(Bank - 1) BY <1>3, <2>4
    <3>2. PICK r, u, v, a : r = rom /\ u = rom0 /\ v = rom1 /\ a = prog.start + i
      OBVIOUS
    <3>3. Sees(r, u, v, a) = Unit(r, b, k, i)
      <4>1. RomOf(r, b) /\ Selects(u, k, b) BY <1>2, <2>3, <3>2 DEF RomOf, Selects
      <4>2. i \in Offset /\ InFirst(a, i) BY <1>4, <3>1, <3>2 DEF Offset, InFirst
      <4> QED BY <4>1, <4>2, FirstAt
    <3>4. Read(rom0, rom1, a) = Sees(r, u, v, a) BY <3>2 DEF Read, InRom, Sees, At
    <3>5. Unit(r, b, k, i) = <<"code", i>> BY <1>2, <3>2 DEF Unit
    <3> QED BY <3>2, <3>3, <3>4, <3>5 DEF Shows
  <2> QED BY <2>1, <2>2, <2>4 DEF CodeInPlace
<1>5. CASE prog.start = 4 * Bank
  <2>1. IsLarge(prog) BY <1>5 DEF IsLarge
  <2>2. boot.jump = prog.start BY <1>1, <1>5, <2>1 DEF Laid
  <2>3. k = 12
    <3>1. 16 * Bank - prog.start = k * Bank BY <1>2, <2>1 DEF Fits
    <3>2. 12 * Bank + 0 = k * Bank + 0 BY <1>5, <3>1
    <3>3. (12 * Bank + 0) \div Bank = 12 BY DivMod
    <3>4. (k * Bank + 0) \div Bank = k BY <1>2, DivMod
    <3> QED BY <3>2, <3>3, <3>4
  <2>4. ASSUME NEW i \in 0..(prog.code - 1)
        PROVE  Shows(rom0, rom1, prog.start + i, <<"code", i>>)
    <3>1. i \in Nat /\ i < 12 * Bank
      <4>1. prog.code + prog.data + Meta <= k * Bank BY <1>2 DEF Fits
      <4> QED BY <1>3, <2>3, <2>4, <4>1
    <3>2. /\ i \div Bank \in Int /\ i % Bank \in 0..(Bank - 1)
          /\ i = (i \div Bank) * Bank + (i % Bank)
      <4>1. Bank \in Nat \ {0} /\ i \in Int BY <3>1
      <4> QED BY <4>1, Euclid
    <3> DEFINE q == i \div Bank
               o == i % Bank
    <3>a. q \in Int /\ o \in 0..(Bank - 1) /\ i = q * Bank + o BY <3>2
    <3> HIDE DEF q, o
    <3>3. q \in 0..11
      <4>1. q * Bank \in Int BY <3>a
      <4>2. q * Bank < 11 * Bank + Bank BY <3>1, <3>a, <4>1
      <4>3. 0 * Bank < q * Bank + Bank BY <3>1, <3>a, <4>1
      <4>4. q <= 11 BY <3>a, <4>2, Apart
      <4>5. 0 <= q BY <3>a, <4>3, Apart
      <4> QED BY <3>a, <4>4, <4>5
    <3>4. PICK j \in 1..b : j = 12 - q BY <1>2, <2>3, <3>3
    <3>5. prog.start + i = (16 - j) * Bank + o /\ j <= 12 BY <1>2, <1>5, <3>a, <3>3, <3>4
    <3>6. (b - j) * Bank + o = (b - k) * Bank + i BY <1>2, <2>3, <3>a, <3>3, <3>4
    <3>7. PICK r, u, v, a : r = rom /\ u = rom0 /\ v = rom1 /\ a = prog.start + i
      OBVIOUS
    <3>8. Sees(r, u, v, a) = Unit(r, b, j, o)
      <4>1. RomOf(r, b) BY <1>2, <3>7 DEF RomOf
      <4>2. Above(a, j, o, b) BY <3>5, <3>7 DEF Above
      <4>3. o \in Offset BY <3>a DEF Offset
      <4> QED BY <4>1, <4>2, <4>3, AboveAt
    <3>9. Read(rom0, rom1, a) = Sees(r, u, v, a) BY <3>7 DEF Read, InRom, Sees, At
    <3>10. Unit(r, b, j, o) = <<"code", i>> BY <1>2, <3>6, <3>7 DEF Unit
    <3> QED BY <3>7, <3>8, <3>9, <3>10 DEF Shows
  <2> QED BY <2>1, <2>2, <2>4 DEF CodeInPlace
<1> QED BY <1>4, <1>5

\* rom.c load_rom, wscrom.h bootstrap: as long as aligned programs start where the
\* targets wsc and wscl put them, the code stands where it was linked.
THEOREM CodeStands ==
    ASSUME \A s \in Starts : s % Bank = 0 => s \in {2 * Bank, 4 * Bank}
    PROVE  Spec => []CodeInPlace
<1>1. IInv => CodeInPlace
  <2> SUFFICES ASSUME IInv, stage \in Running PROVE CodeInPlace BY DEF CodeInPlace
  <2>1. ~Refused(prog) /\ prog \in Program BY DEF IInv, TypeOK, Laid, Running
  <2>2. prog.start % Bank = 0 BY <2>1 DEF Refused
  <2>3. prog.start \in Starts BY <2>1 DEF Program
  <2> QED BY <2>2, <2>3, CodeThere
<1> QED BY <1>1, Invariant, PTL

LEMMA BanksThere == IInv => DataBanksFound
<1> SUFFICES ASSUME IInv, stage = "main", NEW i \in 0..(prog.aux - 1)
             PROVE  LET v == GetDataBank(i \div Bank) IN
                    /\ Shows(v, rom1, 2 * Bank + (i % Bank), <<"aux", i>>)
                    /\ Shows(rom0, v, 3 * Bank + (i % Bank), <<"aux", i>>)
  BY DEF DataBanksFound
<1> USE LayoutAssumption
<1>1. TypeOK /\ Laid /\ stage \notin {"linked", "refused"} /\ prog \in Program
  BY DEF IInv, TypeOK
<1>a. PICK b, k \in Nat : LaidAs(b, k) BY <1>1, LaidSizes
<1>2. /\ Fits(prog, b, k) /\ b \in 1..256 /\ k \in 1..b
      /\ DOMAIN rom = 0..(b * Bank - 1)
      /\ boot.data = (256 - b) % 256
      /\ \A n \in 0..(prog.aux - 1) : rom[n] = <<"aux", n>>
  BY <1>a DEF LaidAs
<1>b. b \in 1..256 /\ b \in Int BY <1>2
<1>3. prog.aux \in Nat BY <1>1, ProgramTypes
<1>4. i \in Nat /\ i < b * Bank
  <2>1. prog.aux <= b * Bank - k * Bank BY <1>2 DEF Fits
  <2>2. k * Bank \in Nat /\ b * Bank \in Nat BY <1>2
  <2> QED BY <1>3, <2>1, <2>2
<1> DEFINE q == i \div Bank
           o == i % Bank
<1>5. q \in Int /\ o \in 0..(Bank - 1) /\ i = q * Bank + o BY <1>4, Euclid
<1>6. DataBank = boot.data
  <2>1. ram[EndData] = <<"banks", boot.text + 256 * boot.data>> BY DEF IInv, Filled
  <2> DEFINE t == boot.text
             d == boot.data
  <2>2. t \in 0..255 /\ d \in 0..255 BY <1>1 DEF TypeOK
  <2>3. DataBank = (t + 256 * d) \div 256 BY <2>1 DEF DataBank
  <2> HIDE DEF t, d
  <2>4. DataBank = d BY <2>2, <2>3
  <2> QED BY <2>4 DEF d
<1>7. PICK v : v = GetDataBank(q) OBVIOUS
<1>8. v = (q + ((256 - b) % 256)) % 256 BY <1>2, <1>6, <1>7 DEF GetDataBank, q
<1> HIDE DEF q, o
<1>9. q \in 0..(b - 1)
  <2>1. q * Bank \in Int /\ b * Bank \in Int /\ (b - 1) * Bank = b * Bank - Bank BY <1>b, <1>5
  <2>2. q * Bank < (b - 1) * Bank + Bank BY <1>b, <1>4, <1>5, <2>1
  <2>3. 0 * Bank < q * Bank + Bank BY <1>4, <1>5, <2>1
  <2>4. q <= b - 1 BY <1>b, <1>5, <2>2, Apart
  <2>5. 0 <= q BY <1>5, <2>3, Apart
  <2> QED BY <1>b, <1>5, <2>4, <2>5
<1>10. PICK j \in 1..b : j = b - q BY <1>b, <1>9
<1>11. v = (256 - j) % 256
  <2>1. (q + ((256 - b) % 256)) % 256 = (256 - (b - q)) % 256 BY <1>b, <1>9, DataBankOf
  <2> QED BY <1>8, <1>10, <2>1
<1>12. (b - j) * Bank + o = i BY <1>b, <1>5, <1>9, <1>10
<1>13. PICK r, r0, r1, a, c : /\ r = rom /\ r0 = rom0 /\ r1 = rom1
                             /\ a = 2 * Bank + o /\ c = 3 * Bank + o
  OBVIOUS
<1>14. RomOf(r, b) /\ Selects(v, j, b) BY <1>2, <1>11, <1>13 DEF RomOf, Selects
<1>15. o \in Offset /\ InFirst(a, o) /\ InSecond(c, o)
  BY <1>5, <1>13 DEF Offset, InFirst, InSecond
<1>16. Sees(r, v, r1, a) = Unit(r, b, j, o) BY <1>14, <1>15, FirstAt
<1>17. Sees(r, r0, v, c) = Unit(r, b, j, o) BY <1>14, <1>15, SecondAt
<1>18. /\ Read(v, rom1, a) = Sees(r, v, r1, a)
       /\ Read(rom0, v, c) = Sees(r, r0, v, c)
  BY <1>13 DEF Read, InRom, Sees, At
<1>19. Unit(r, b, j, o) = <<"aux", i>> BY <1>2, <1>12, <1>13 DEF Unit
<1>20. Read(v, rom1, a) = <<"aux", i>> /\ Read(rom0, v, c) = <<"aux", i>>
  BY <1>16, <1>17, <1>18, <1>19
<1> QED BY <1>7, <1>13, <1>20 DEF Shows, q, o

\* libwsc.h GET_DATA_BANK: every unit of the --data file is found in its bank, through
\* either window, whatever is selected in the other.
THEOREM BanksFound == Spec => []DataBanksFound
<1> QED BY BanksThere, Invariant, PTL

LEMMA RefusalRight == IInv => RefusedOnlyIfTooBig
<1> SUFFICES ASSUME IInv, stage = "refused", prog.start % Bank = 0,
                    LET size == prog.code + prog.data + Meta IN
                    /\ ~(IsLarge(prog) /\ prog.start + size > Top)
                    /\ \E b \in RomBanks : \E c \in 0..b :
                          /\ size <= c * Bank
                          /\ IsLarge(prog) => Top - prog.start <= c * Bank
                          /\ ~(prog.aux > (b - c) * Bank)
             PROVE  FALSE
  BY DEF RefusedOnlyIfTooBig
<1> USE LayoutAssumption
<1> DEFINE size == prog.code + prog.data + Meta
<1>1. Refused(prog) /\ prog \in Program BY DEF IInv, Declined, TypeOK
<1>2. /\ prog.start \in Nat /\ prog.code \in Nat \ {0}
      /\ prog.data \in Nat /\ prog.aux \in Nat
  BY <1>1, ProgramTypes
<1>a. PICK b \in RomBanks : \E c \in 0..b :
         /\ size <= c * Bank
         /\ IsLarge(prog) => Top - prog.start <= c * Bank
         /\ ~(prog.aux > (b - c) * Bank)
  OBVIOUS
<1>3. PICK c \in 0..b :
         /\ size <= c * Bank
         /\ IsLarge(prog) => Top - prog.start <= c * Bank
         /\ ~(prog.aux > (b - c) * Bank)
  BY <1>a
<1>4. b \in RomBanks /\ b \in Nat /\ c \in Nat /\ b - c \in Nat /\ c * Bank \in Nat /\ b * Bank \in Nat
  BY <1>3
<1>5. PICK k \in Nat \ {0} : Padded(prog) = k * Bank BY <1>1, PaddedBanks
<1>6. k * Bank \in Nat BY <1>5
<1>7. Crowded(prog) => size > k * Bank BY <1>2, <1>5, <1>6 DEF Crowded
<1>8. ~(IsLarge(prog) /\ Crowded(prog))
  <2> SUFFICES ASSUME IsLarge(prog), Crowded(prog) PROVE FALSE OBVIOUS
  <2>1. 16 * Bank - prog.start <= k * Bank BY <1>1, <1>5, PaddedBanks
  <2>2. prog.start + size > Top BY <1>2, <1>6, <1>7, <2>1 DEF Top
  <2> QED BY <2>2
<1>9. CodeSize(prog) <= c * Bank
  <2>1. Padded(prog) \in {RoundUp(prog.code), 16 * Bank - prog.start}
    BY <1>1, PaddedBanks
  <2>2. prog.code <= c * Bank BY <1>2, <1>3, <1>4
  <2>3. RoundUp(prog.code) <= c * Bank BY <1>2, <1>4, <2>2, Rounded
  <2>4. ~IsLarge(prog) => Padded(prog) = RoundUp(prog.code) BY DEF Padded
  <2>5. k * Bank <= c * Bank BY <1>3, <1>5, <2>1, <2>3, <2>4 DEF Top
  <2>6. CASE ~Crowded(prog) BY <1>5, <2>5, <2>6 DEF CodeSize
  <2>7. CASE Crowded(prog)
    <3>1. k * Bank < c * Bank
      <4>1. size \in Nat BY <1>2
      <4> HIDE DEF size
      <4> QED BY <1>3, <1>4, <1>6, <1>7, <2>7, <4>1
    <3>2. ~(c <= k) BY <1>4, <1>5, <1>6, <3>1, Apart
    <3>3. (k + 1) * Bank <= c * Bank BY <1>4, <1>5, <3>2, Apart
    <3>4. CodeSize(prog) = k * Bank + Bank BY <1>5, <2>7 DEF CodeSize
    <3>5. (k + 1) * Bank = k * Bank + Bank OBVIOUS
    <3> QED BY <3>3, <3>4, <3>5
  <2> QED BY <2>6, <2>7
<1>10. RoundUp(prog.aux) <= (b - c) * Bank
  <2>1. prog.aux <= (b - c) * Bank BY <1>2, <1>3, <1>4
  <2> QED BY <1>2, <1>4, <2>1, Rounded
<1>11. (b - c) * Bank = b * Bank - c * Bank BY <1>4
<1>12. CodeSize(prog) \in Nat /\ RoundUp(prog.aux) \in Nat
  <2>1. PICK n \in Nat \ {0} : CodeSize(prog) = n * Bank BY <1>1, CodeBanks
  <2> QED BY <1>2, <2>1, Rounded
<1>13. Needed(prog) <= b * Bank BY <1>4, <1>9, <1>10, <1>11, <1>12 DEF Needed
<1>14. b \in RomsFor(Needed(prog)) BY <1>4, <1>13 DEF RomsFor
<1> QED BY <1>1, <1>8, <1>14 DEF Refused

\* rom.c load_rom: a program is refused only if no ROM could have held it.
THEOREM RefusedRightly == Spec => []RefusedOnlyIfTooBig
<1> QED BY RefusalRight, Invariant, PTL

LEMMA StartClean ==
    ASSUME IInv, [Next]_vars, stage # "main", stage' = "main"
    PROVE  /\ \A c \in RamCell \ {EndData} :
                 ram'[c] = IF c < EndData THEN <<"data", c - BegData>> ELSE <<"zero", 0>>
           /\ FirstBank' = rom0
<1>1. StoreBanks
  BY DEF Next, vars, RomTool, RomToolRefuses, Reset, Bootstrap, ClearRam, CopyData,
         WriteVariables, SelectBank
<1>2. /\ ram = [c \in RamCell |-> IF c < EndData THEN <<"data", c - BegData>>
                                  ELSE <<"zero", 0>>]
      /\ rom0 = boot.text
  BY <1>1 DEF IInv, Filled, InWindow, StoreBanks
<1>3. ram' = [ram EXCEPT ![EndData] = <<"banks", boot.text + 256 * boot.data>>]
      /\ EndData' = EndData
  BY <1>1 DEF StoreBanks, EndData
<1>4. EndData \in RamCell BY RamTypes DEF IInv, TypeOK, EndData
<1>5. \A c \in RamCell \ {EndData} : ram'[c] = ram[c] BY <1>2, <1>3
<1>6. FirstBank' = boot.text
  <2>1. ram'[EndData] = <<"banks", boot.text + 256 * boot.data>> BY <1>2, <1>3, <1>4
  <2> DEFINE t == boot.text
             d == boot.data
  <2>2. t \in 0..255 /\ d \in 0..255 BY DEF IInv, TypeOK
  <2>3. FirstBank' = (t + 256 * d) % 256 BY <1>3, <2>1 DEF FirstBank
  <2> HIDE DEF t, d
  <2>4. FirstBank' = t BY <2>2, <2>3
  <2> QED BY <2>4 DEF t
<1> QED BY <1>2, <1>5, <1>6

\* rom.c load_rom, wsccrt0.asm: main finds its initialised variables, zero everywhere
\* else and its own bank, however often the console is reset.
THEOREM CleanStart == Spec => MainStartsClean
<1>1. IInv /\ [Next]_vars =>
        [stage # "main" /\ stage' = "main" =>
            /\ \A c \in RamCell \ {EndData} :
                  ram'[c] = IF c < EndData THEN <<"data", c - BegData>>
                            ELSE <<"zero", 0>>
            /\ FirstBank' = rom0]_vars
  BY StartClean
<1> QED BY <1>1, Invariant, PTL DEF Spec, MainStartsClean

-----------------------------------------------------------------------------
(* The interrupts *)

Stored == {"store", "stored-off", "stored-seg", "enable"}

Starting ==
    cpu \in Start =>
        /\ ~iflag /\ serving = Idle /\ call = NoCall
        /\ \A n \in Irq : owner[n] = None
        /\ cpu # "vectors" => base = 8
        /\ cpu \in {"ack", "sti"} => enable = {}
        /\ cpu = "sti" => stale \cap enable = {}

Started ==
    cpu \notin Start =>
        /\ base = 8
        /\ \A n \in enable : owner[n] # None
        /\ stale \cap enable = {}
        /\ cpu \notin Setting => call = NoCall

Serving == /\ serving # Idle => ~iflag /\ cpu \in Setting \cup {"main"}
           /\ cpu \in Ended => ~iflag

Calling ==
    cpu \in Setting =>
        /\ call.irq \in Irq /\ call.handler \in Handler
        /\ \/ ~iflag /\ serving = Idle
           \/ style = "plain" /\ owner[call.irq] = None
        /\ cpu # "ack-one" => call.irq \notin stale
        /\ cpu \in Stored => call.irqs = enable \cup {call.irq}
        /\ cpu = "enable" =>
              vec[base + call.irq] = [off |-> call.handler, seg |-> call.handler]

IrqInv == /\ IrqTypeOK /\ Starting /\ Started /\ Serving /\ Calling
        /\ InstalledStays /\ VectorReady

-----------------------------------------------------------------------------
\* The priority among pending interrupts (WscIrq First) picks one of them.
LEMMA FirstPending ==
    ASSUME NEW S, S \subseteq 0..7, S # {}
    PROVE  (CHOOSE n \in S : \A m \in S : m <= n) \in S
<1>1. \E n \in S : \A m \in S : m <= n
  <2>7. CASE 7 \in S
    BY <2>7
  <2>6. CASE 7 \notin S /\ 6 \in S
    BY <2>6
  <2>5. CASE S \subseteq 0..5 /\ 5 \in S
    BY <2>5
  <2>4. CASE S \subseteq 0..4 /\ 4 \in S
    BY <2>4
  <2>3. CASE S \subseteq 0..3 /\ 3 \in S
    BY <2>3
  <2>2. CASE S \subseteq 0..2 /\ 2 \in S
    BY <2>2
  <2>1. CASE S \subseteq 0..1 /\ 1 \in S
    BY <2>1
  <2>0. CASE S \subseteq 0..0
    <3>1. PICK x \in S : x \in 0..0
      BY <2>0
    <3>2. \A m \in 0..0 : m = 0
      OBVIOUS
    <3> QED BY <2>0, <3>1, <3>2
  <2> QED BY <2>0, <2>1, <2>2, <2>3, <2>4, <2>5, <2>6, <2>7
<1> QED BY <1>1

\* wsccrt0.asm: whatever state a reset leaves the controller in.
LEMMA IrqInvInit == IrqInit => IrqInv
<1> SUFFICES ASSUME IrqInit PROVE IrqInv
  OBVIOUS
<1> USE IrqAssumption DEF IrqInit, Start, Setting, Ended, Vector, Word, None, Idle, NoCall
<1>1. IrqTypeOK
  BY DEF IrqTypeOK
<1>2. Starting /\ Started /\ Serving /\ Calling
  BY DEF Starting, Started, Serving, Calling
<1>3. InstalledStays /\ VectorReady
  BY DEF InstalledStays, VectorReady
<1> QED BY <1>1, <1>2, <1>3 DEF IrqInv

\* wsccrt0.asm: each instruction of the start-up code.
LEMMA StartStep ==
    ASSUME IrqInv, SetVectors \/ DisableAll \/ AckAll \/ EnterMain
    PROVE  IrqInv'
<1> USE IrqAssumption DEF IrqInv, IrqTypeOK, Start, Setting, Ended, Stored, Vector, Word,
        None, Idle, NoCall, Starting, Started, Serving, Calling, InstalledStays,
        VectorReady
<1>1. CASE SetVectors
  BY <1>1 DEF SetVectors
<1>2. CASE DisableAll
  BY <1>2 DEF DisableAll
<1>3. CASE AckAll
  BY <1>3 DEF AckAll
<1>4. CASE EnterMain
  BY <1>4 DEF EnterMain, machine
<1> QED BY <1>1, <1>2, <1>3, <1>4

\* irq.c set_hw_irq, the write of REG_INT_ENABLE: what is enabled has an owner.
LEMMA NewlyEnabled ==
    ASSUME IrqInv, WriteEnable
    PROVE  Started'
<1>1. /\ cpu = "enable" /\ cpu \notin Start /\ cpu \in Stored /\ cpu \in Setting
      /\ cpu' = "main" /\ call' = NoCall /\ base' = base /\ stale' = stale
  BY DEF WriteEnable, Start, Stored, Setting
<1>2. /\ base = 8 /\ (\A n \in enable : owner[n] # None) /\ stale \cap enable = {}
  BY <1>1 DEF IrqInv, Started
<1>3. call.irq \in Irq /\ call.handler \in Handler /\ call.irq \notin stale
  BY <1>1 DEF IrqInv, Calling
<1>4. enable' = enable \cup {call.irq}
  BY <1>1 DEF IrqInv, Calling, WriteEnable
<1>5. \A n \in Irq : owner'[n] = IF n = call.irq THEN call.handler ELSE owner[n]
  BY <1>3 DEF IrqInv, IrqTypeOK, WriteEnable
<1>6. call.handler # None
  BY <1>3, IrqAssumption DEF None
<1>7. enable \subseteq Irq
  BY DEF IrqInv, IrqTypeOK
<1>8. \A n \in enable' : owner'[n] # None
  BY <1>2, <1>3, <1>4, <1>5, <1>6, <1>7
<1> QED BY <1>1, <1>2, <1>3, <1>4, <1>8 DEF Started

\* irq.c set_hw_irq in main: from the call to the return, with handlers between
\* any two steps.
LEMMA CallStep ==
    ASSUME IrqInv, DisableIrq \/ EnableIrq \/ Call \/ SetHwIrq
    PROVE  IrqInv'
<1> USE IrqAssumption DEF IrqInv, IrqTypeOK, Start, Setting, Ended, Stored, Vector, Word,
        None, Idle, NoCall, Starting, Started, Serving, Calling, InstalledStays,
        VectorReady
<1>1. CASE DisableIrq
  BY <1>1 DEF DisableIrq, machine
<1>2. CASE EnableIrq
  BY <1>2 DEF EnableIrq, machine
<1>3. CASE Call
  <2>1. IrqTypeOK'
    BY <1>3 DEF Call, machine
  <2>2. (Starting /\ Started /\ Serving /\ VectorReady)'
    BY <1>3 DEF Call, machine
  <2>3. Calling'
    <3>1. PICK n \in Irq, h \in Handler :
             /\ ~iflag \/ (style = "plain" /\ n \notin enable)
             /\ call' = [irq |-> n, handler |-> h, irqs |-> {}]
      BY <1>3 DEF Call
    <3>2. /\ cpu' = "ack-one" /\ cpu = "main" /\ serving' = Idle
          /\ UNCHANGED <<style, iflag, owner>>
      BY <1>3 DEF Call
    <3>3. call'.irq = n /\ call'.handler = h
      BY <3>1
    <3>4. n \notin enable => owner[n] = None
      BY <3>2
    <3> QED BY <3>1, <3>2, <3>3, <3>4
  <2>4. InstalledStays'
    BY <1>3 DEF Call, machine
  <2> QED BY <2>1, <2>2, <2>3, <2>4 DEF IrqInv
<1>4. CASE AckOne
  <2>1. IrqTypeOK'
    BY <1>4 DEF AckOne, Acked, Bit
  <2>2. (Starting /\ Started /\ Serving /\ VectorReady)'
    BY <1>4 DEF AckOne, Acked, Bit
  <2>3. Calling'
    BY <1>4 DEF AckOne, Acked, Bit
  <2>4. InstalledStays'
    BY <1>4 DEF AckOne, Acked, Bit
  <2> QED BY <2>1, <2>2, <2>3, <2>4 DEF IrqInv
<1>5. CASE ReadEnable
  BY <1>5 DEF ReadEnable, WithNew, Bit, machine
<1>6. CASE StoreHalf
  <2>1. IrqTypeOK'
    <3>1. base + call.irq \in Vector /\ call.handler \in Word
      BY <1>6 DEF StoreHalf
    <3>2. vec' \in [Vector -> [off : Word, seg : Word]]
      <4>1. CASE vec' = [vec EXCEPT ![base + call.irq].off = call.handler]
        BY <3>1, <4>1
      <4>2. CASE vec' = [vec EXCEPT ![base + call.irq].seg = call.handler]
        BY <3>1, <4>2
      <4> QED BY <1>6, <4>1, <4>2 DEF StoreHalf
    <3> QED BY <1>6, <3>2 DEF StoreHalf
  <2>2. (Starting /\ Started /\ Serving /\ VectorReady)'
    BY <1>6 DEF StoreHalf
  <2>3. Calling'
    BY <1>6 DEF StoreHalf
  <2>4. InstalledStays'
    BY <1>6 DEF StoreHalf
  <2> QED BY <2>1, <2>2, <2>3, <2>4 DEF IrqInv
<1>7. CASE StoreRest
  <2>1. IrqTypeOK'
    BY <1>7 DEF StoreRest
  <2>2. (Starting /\ Started /\ Serving /\ VectorReady)'
    BY <1>7 DEF StoreRest
  <2>3. Calling'
    <3>0. base = 8 /\ call.irq \in 0..7
      BY <1>7 DEF StoreRest
    <3>1. base + call.irq \in Vector
      BY <3>0
    <3>2. vec'[base + call.irq] = [off |-> call.handler, seg |-> call.handler]
      BY <1>7, <3>1 DEF StoreRest
    <3>3. /\ cpu' = "enable" /\ cpu \in Stored
          /\ UNCHANGED <<style, iflag, base, enable, call, serving, owner, stale>>
      BY <1>7 DEF StoreRest
    <3> QED BY <3>2, <3>3
  <2>4. InstalledStays'
    <3>1. /\ cpu' = "enable" /\ cpu \in Setting /\ base = 8 /\ serving = Idle
          /\ UNCHANGED <<iflag, base, enable, call, owner>>
      BY <1>7 DEF StoreRest
    <3>2. \A n \in Irq : n # call.irq => vec'[base + n] = vec[base + n]
      <4>1. call.irq \in 0..7 /\ \A n \in Irq : n \in 0..7
        BY <1>7 DEF StoreRest
      <4>2. \A v \in Vector : v # base + call.irq => vec'[v] = vec[v]
        BY <1>7 DEF StoreRest
      <4>3. \A n \in 0..7 : n # call.irq => 8 + n \in Vector /\ 8 + n # 8 + call.irq
        BY <4>1
      <4> QED BY <3>1, <4>1, <4>2, <4>3
    <3>3. owner[call.irq] # None => ~iflag
      BY <3>1
    <3> QED BY <3>1, <3>2, <3>3
  <2> QED BY <2>1, <2>2, <2>3, <2>4 DEF IrqInv
<1>8. CASE WriteEnable
  <2>1. IrqTypeOK'
    BY <1>8 DEF WriteEnable
  <2>2. (Starting /\ Started /\ Serving /\ VectorReady)'
    <3>5. Started'
      BY <1>8, NewlyEnabled
    <3>6. (Starting /\ Serving /\ VectorReady)'
      BY <1>8 DEF WriteEnable
    <3> QED BY <3>5, <3>6
  <2>3. Calling'
    BY <1>8 DEF WriteEnable
  <2>4. InstalledStays'
    BY <1>8 DEF WriteEnable
  <2> QED BY <2>1, <2>2, <2>3, <2>4 DEF IrqInv
<1> QED BY <1>1, <1>2, <1>3, <1>4, <1>5, <1>6, <1>7, <1>8 DEF SetHwIrq

\* The vector of a pending interrupt that can be taken belongs to its owner.
LEMMA Whole ==
    ASSUME IrqInv, iflag, serving = Idle, Pending # {}
    PROVE  /\ First \in enable /\ First \in Irq /\ cpu \notin Start \cup Ended
           /\ Target(base + First) = owner[First] /\ owner[First] \in Handler
<1>1. First \in Pending
  BY FirstPending, IrqAssumption DEF First, Pending, IrqInv, IrqTypeOK
<1>2. First \in enable /\ First \in Irq
  BY <1>1 DEF Pending, IrqInv, IrqTypeOK
<1>3. cpu \notin Start \cup Ended
  BY DEF IrqInv, Starting, Serving
<1>4. owner[First] # None
  BY <1>2, <1>3 DEF IrqInv, Started
<1>5. vec[base + First] = [off |-> owner[First], seg |-> owner[First]]
  BY <1>2, <1>4 DEF IrqInv, InstalledStays
<1>6. owner[First] \in Handler
  BY <1>2, <1>4 DEF IrqInv, IrqTypeOK
<1> QED BY <1>2, <1>3, <1>5, <1>6 DEF Target

\* The hardware latches and takes interrupts; handlers run, and install others.
LEMMA HandlerStep ==
    ASSUME IrqInv, (\E n \in Irq : Event(n)) \/ Dispatch \/ Handle \/ Raise
    PROVE  IrqInv'
<1>2. CASE Dispatch
  <2>1. /\ serving' = [irq |-> First, by |-> owner[First], acked |-> FALSE]
        /\ cpu' = cpu /\ ~iflag' /\ iflag' \in BOOLEAN
        /\ First \in Irq /\ owner[First] \in Handler /\ cpu \notin Start \cup Ended
    BY <1>2, Whole DEF Dispatch
  <2>2. UNCHANGED <<style, base, enable, status, vec, call, owner, stale>>
    BY <1>2 DEF Dispatch, machine
  <2>3. iflag
    BY <1>2 DEF Dispatch
  <2> QED
    BY <2>1, <2>2, <2>3 DEF IrqInv, IrqTypeOK, Start, Setting, Ended, Stored, Word,
        Starting, Started, Serving, Calling, InstalledStays, VectorReady
<1> USE IrqAssumption DEF IrqInv, IrqTypeOK, Start, Setting, Ended, Stored, Vector, Word,
        None, Idle, NoCall, Starting, Started, Serving, Calling, InstalledStays,
        VectorReady
<1>1. CASE \E n \in Irq : Event(n)
  BY <1>1 DEF Event
<1>3. CASE Install
  <2>1. IrqTypeOK'
    BY <1>3 DEF Install, WithNew, Acked, Bit
  <2>2. (Starting /\ Started /\ Serving /\ VectorReady)'
    BY <1>3 DEF Install, WithNew, Acked, Bit
  <2>3. Calling'
    BY <1>3 DEF Install, WithNew, Acked, Bit
  <2>4. InstalledStays'
    <3>1. PICK n \in Irq, h \in Handler :
             /\ vec' = [vec EXCEPT ![base + n] = [off |-> h, seg |-> h]]
             /\ enable' = enable \cup {n}
             /\ owner' = [owner EXCEPT ![n] = h]
      BY <1>3 DEF Install, WithNew, Bit
    <3>2. cpu = "main" /\ base = 8 /\ UNCHANGED <<cpu, iflag, base, call>>
      BY <1>3 DEF Install
    <3>3. \A m \in Irq : vec'[base + m] = IF m = n THEN [off |-> h, seg |-> h]
                                           ELSE vec[base + m]
      BY <3>1, <3>2
    <3>4. \A m \in Irq : owner'[m] = IF m = n THEN h ELSE owner[m]
      BY <3>1
    <3> QED BY <3>1, <3>2, <3>3, <3>4
  <2> QED BY <2>1, <2>2, <2>3, <2>4 DEF IrqInv
<1>4. CASE AckServed
  BY <1>4 DEF AckServed
<1>5. CASE Return
  BY <1>5 DEF Return, machine
<1>6. CASE Raise
  BY <1>6 DEF Raise, machine
<1> QED BY <1>1, <1>2, <1>3, <1>4, <1>5, <1>6 DEF Handle

\* Every step keeps the invariant.
LEMMA IrqInvNext == IrqInv /\ [IrqNext]_irqvars => IrqInv'
<1> SUFFICES ASSUME IrqInv, [IrqNext]_irqvars PROVE IrqInv'
  OBVIOUS
<1>1. CASE UNCHANGED irqvars
  BY <1>1 DEF irqvars, machine, IrqInv, IrqTypeOK, Starting, Started, Serving, Calling,
      InstalledStays, VectorReady
<1> QED BY <1>1, StartStep, CallStep, HandlerStep DEF IrqNext

\* Every reachable state satisfies the inductive invariant (wsccrt0.asm, irq.c).
THEOREM IrqInvariant == IrqSpec => []IrqInv
BY IrqInvInit, IrqInvNext, PTL DEF IrqSpec

\* The registers and vectors stay in their ranges (wsccrt0.asm, irq.c).
THEOREM IrqTypes == IrqSpec => []IrqTypeOK
<1>1. IrqInv => IrqTypeOK
  BY DEF IrqInv
<1> QED BY <1>1, IrqInvariant, PTL

\* No interrupt is ever taken through a vector that is not a handler's, between
\* the two halves of a store included (irq.c set_hw_irq, wsccrt0.asm).
THEOREM NeverWild == IrqSpec => []VectorReady
<1>1. IrqInv => VectorReady
  BY DEF IrqInv
<1> QED BY <1>1, IrqInvariant, PTL

\* An installed handler stays installed and its interrupt enabled (irq.c
\* set_hw_irq, whose read of REG_INT_ENABLE is separate from its write).
THEOREM NoneLost == IrqSpec => []InstalledStays
<1>1. IrqInv => InstalledStays
  BY DEF IrqInv
<1> QED BY <1>1, IrqInvariant, PTL

\* A handler never runs for an event from before its installation (irq.c
\* set_hw_irq, wsccrt0.asm).
THEOREM NoneStale == IrqSpec => NoStaleEvent
<1>1. IrqInv /\ [IrqNext]_irqvars =>
        [serving = Idle /\ serving' # Idle => serving'.irq \notin stale]_irqvars
  <2> SUFFICES ASSUME IrqInv, IrqNext, serving = Idle, serving' # Idle
               PROVE  serving'.irq \notin stale
    OBVIOUS
  <2>1. Dispatch
    BY DEF IrqNext, SetVectors, DisableAll, AckAll, EnterMain, DisableIrq, EnableIrq, Call,
        SetHwIrq, AckOne, ReadEnable, StoreHalf, StoreRest, WriteEnable, Event,
        Handle, Install, AckServed, Return, Raise
  <2>2. serving'.irq = First /\ First \in enable /\ cpu \notin Start
    BY <2>1, Whole DEF Dispatch
  <2> QED BY <2>2 DEF IrqInv, Started
<1> QED BY <1>1, IrqInvariant, PTL DEF IrqSpec, NoStaleEvent

=============================================================================
