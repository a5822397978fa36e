---------------------------- MODULE WscFs_proofs -----------------------------
(***************************************************************************)
(* Proofs about WscFs, for every capacity of a bank, any number of files   *)
(* of any sizes and any number of changes of them.                         *)
(***************************************************************************)
EXTENDS WscFs, WellFoundedInduction, TLAPS

Packed == {"pack", "build", "done"}
Writing == {"build", "done"}

\* How far each pass has got.
Progress ==
    /\ Len(disk) > 0
    /\ pc = "table" => Len(size) <= Len(disk) /\ bin = <<>> /\ capacity = <<>>
    /\ pc \in Packed =>
          /\ Len(size) = Len(disk)
          /\ Len(bin) <= Len(disk)
          /\ Len(capacity) > 0
          /\ \A f \in DOMAIN bin : bin[f] <= Len(capacity)
          /\ \/ Len(capacity) <= Len(bin)
             \/ Len(bin) = 0 /\ Len(capacity) = 1 /\ capacity[1] = Bank
    /\ pc \in Writing => Len(bin) = Len(disk) /\ Len(macro) <= Len(disk)
    /\ header = "closed" <=> pc = "done"
    /\ pc = "done" => Len(macro) = Len(disk)

\* Files of one bank one after the other: at[f] is where f begins.
Lined(at) ==
    \A f, g \in DOMAIN bin : f < g /\ bin[f] = bin[g] => at[f] + size[f] <= at[g]

Place == [DOMAIN bin -> 0..Bank]

\* While packing the units used of a bank are those of the files in it ...
Planned ==
    pc = "pack" => \E at \in Place :
        Lined(at) /\ \A f \in DOMAIN bin : at[f] + size[f] <= Used(bin[f])

\* ... and while writing no bank is filled beyond where its next file begins.
Followed ==
    pc \in Writing => \E at \in Place :
        /\ Lined(at)
        /\ \A f \in DOMAIN bin : at[f] + size[f] <= Bank
        /\ \A g \in DOMAIN bin : g > Len(macro) => capacity[bin[g]] <= at[g]

\* What has been written is described, and nothing comes after it in its bank
\* below the units that are used.
Described ==
    pc \in Writing => \A f \in DOMAIN macro :
        /\ macro[f].bank = bin[f] - 1 /\ macro[f].size = size[f]
        /\ macro[f].offs + size[f] <= capacity[bin[f]]
        /\ macro[f].offs + size[f] <= Bank

Start(f) == macro[f].bank * Bank + macro[f].offs

Stored ==
    pc \in Writing => \A f \in DOMAIN macro : \A k \in 0..(size[f] - 1) :
        Start(f) + k \in DOMAIN out /\ out[Start(f) + k] = <<f, k>>

IInv == TypeOK /\ Progress /\ Planned /\ Followed /\ Described /\ Stored /\ PackedTight

-----------------------------------------------------------------------------
LEMMA SeqShape ==
    ASSUME NEW S, NEW s \in Seq(S)
    PROVE  /\ Len(s) \in Nat /\ DOMAIN s = 1..Len(s)
           /\ \A i \in 1..Len(s) : s[i] \in S
OBVIOUS

\* What TypeOK says of single files and banks.
LEMMA Shapes ==
    ASSUME TypeOK
    PROVE  /\ DOMAIN size = 1..Len(size) /\ DOMAIN bin = 1..Len(bin)
           /\ DOMAIN capacity = 1..Len(capacity)
           /\ Len(disk) \in Nat /\ Len(size) \in Nat /\ Len(bin) \in Nat
           /\ Len(capacity) \in Nat
           /\ \A f \in 1..Len(size) : size[f] \in 0..Bank
           /\ \A f \in 1..Len(bin) : bin[f] \in 1..Len(disk)
           /\ \A b \in 1..Len(capacity) : capacity[b] \in 0..Bank
<1>1. disk \in Seq(Sizes) /\ size \in Seq(0..Bank) /\ bin \in Seq(1..Len(disk))
  BY DEF TypeOK
<1>2. capacity \in Seq(0..Bank) BY DEF TypeOK
<1> QED BY <1>1, <1>2, SeqShape

LEMMA Macros ==
    ASSUME TypeOK
    PROVE  /\ DOMAIN macro = 1..Len(macro) /\ Len(macro) \in Nat
           /\ \A f \in 1..Len(macro) :
                 macro[f] \in [bank : 0..(Len(disk) - 1), offs : 0..Bank, size : 0..Bank]
<1>1. macro \in Seq([bank : 0..(Len(disk) - 1), offs : 0..Bank, size : 0..Bank])
  BY DEF TypeOK
<1> QED BY <1>1, SeqShape

\* What Progress says while there are banks.
LEMMA Midway ==
    ASSUME TypeOK, Progress, pc \in Packed
    PROVE  /\ Len(size) = Len(disk) /\ Len(bin) <= Len(disk) /\ Len(capacity) > 0
           /\ \A f \in 1..Len(bin) : bin[f] \in 1..Len(capacity)
           /\ \/ Len(capacity) <= Len(bin)
              \/ Len(bin) = 0 /\ Len(capacity) = 1 /\ capacity[1] = Bank
<1>1. /\ Len(size) = Len(disk) /\ Len(bin) <= Len(disk) /\ Len(capacity) > 0
      /\ \A f \in DOMAIN bin : bin[f] <= Len(capacity)
      /\ \/ Len(capacity) <= Len(bin)
         \/ Len(bin) = 0 /\ Len(capacity) = 1 /\ capacity[1] = Bank
  BY Zenon DEF Progress
<1> QED BY <1>1, Shapes

\* Units of two banks do not coincide.
LEMMA BanksApart ==
    ASSUME NEW a \in Nat, NEW b \in Nat, NEW x \in Nat, NEW y \in Nat, a # b, x < Bank, y < Bank
    PROVE  a * Bank + x # b * Bank + y
<1> USE SizeAssumption
<1>1. ASSUME NEW c \in Nat, NEW d \in Nat, NEW u \in Nat, NEW v \in Nat, c < d, u < Bank
      PROVE  c * Bank + u < d * Bank + v
  <2>1. PICK e \in Nat : d = c + 1 + e BY <1>1
  <2>2. d * Bank = c * Bank + Bank + e * Bank BY <2>1
  <2>3. e * Bank \in Nat /\ c * Bank \in Nat BY SMT
  <2> HIDE SizeAssumption
  <2> QED BY <1>1, <2>2, <2>3, SizeAssumption
<1>2. CASE a < b BY <1>1, <1>2
<1>3. CASE b < a BY <1>1, <1>3
<1> QED BY <1>2, <1>3

LEMMA FirstHasRoom ==
    ASSUME NEW f, capacity \in Seq(0..Bank), WithRoom(f) # {}
    PROVE  Min(WithRoom(f)) \in WithRoom(f)
<1> DEFINE S == WithRoom(f)
<1>1. S \subseteq Nat BY DEF WithRoom
<1> DEFINE R == {p \in Nat \X Nat : p[1] < p[2]}
<1>2. IsWellFoundedOn(R, Nat) BY NatLessThanWellFounded DEF OpToRel
<1> HIDE DEF S
<1>3. \E x \in S : \A y \in S : ~ (<<y, x>> \in R)
  <2> HIDE DEF R
  <2> QED BY <1>1, <1>2, WFMin DEF S
<1>4. \E x \in S : \A y \in S : x <= y
  <2>1. PICK x \in S : \A y \in S : ~ (<<y, x>> \in R) BY <1>3
  <2>2. ASSUME NEW y \in S, ~ (x <= y) PROVE FALSE
    <3>1. <<y, x>> \in R BY <1>1, <2>2
    <3> QED BY <2>1, <3>1
  <2> QED BY <2>2
<1> QED BY <1>4 DEF Min, S

LEMMA InitInv == Init => IInv
<1> SUFFICES ASSUME Init PROVE IInv
  OBVIOUS
<1> USE SizeAssumption DEF Init
<1>1. PICK n \in 1..MaxFiles : disk \in [1..n -> Sizes \ {Gone}] BY DEF Init
<1>2. disk \in Seq(Sizes) /\ Len(disk) = n BY <1>1
<1>3. TypeOK BY <1>2 DEF TypeOK
<1>4. Progress BY <1>2 DEF Progress, Packed, Writing
<1> QED BY <1>3, <1>4 DEF IInv, Planned, Followed, Described, Stored, PackedTight, Writing

\* Steps that touch neither banks, macros nor binary.
LEMMA StatInv == ASSUME IInv, Stat PROVE IInv'
<1> USE SizeAssumption DEF IInv, Stat, Missing, TooLarge
<1>1. TypeOK' BY DEF TypeOK, Sizes, Gone
<1>2. Progress' BY DEF TypeOK, Progress, Packed, Writing
<1> QED BY <1>1, <1>2 DEF Planned, Followed, Described, Stored, PackedTight, Writing

LEMMA ChangeInv == ASSUME IInv, Change PROVE IInv'
<1> USE SizeAssumption DEF IInv, Change, Files
<1>1. Len(disk') = Len(disk) /\ disk' \in Seq(Sizes) BY DEF TypeOK
<1>2. TypeOK' BY <1>1 DEF TypeOK
<1>3. Progress' BY <1>1 DEF TypeOK, Progress, Packed, Writing
<1>4. Planned' BY DEF Planned, Lined, Place, Used
<1>5. Followed' BY DEF Followed, Lined, Place, Writing
<1>6. Described' /\ Stored' /\ PackedTight'
  BY DEF Described, Stored, Start, PackedTight, Used, Writing
<1> QED BY <1>2, <1>3, <1>4, <1>5, <1>6

LEMMA FailInv ==
    ASSUME IInv, StatFails \/ NoBinary \/ NoHeader \/ FileFails
    PROVE  IInv'
<1> USE SizeAssumption DEF IInv
<1>1. CASE StatFails \/ NoBinary \/ NoHeader
  <2>1. TypeOK'
    <3>1. CASE StatFails BY <3>1 DEF StatFails, TypeOK
    <3>2. CASE NoBinary BY <3>2 DEF NoBinary, TypeOK
    <3>3. CASE NoHeader BY <3>3 DEF NoHeader, TypeOK
    <3> QED BY <1>1, <3>1, <3>2, <3>3
  <2>2. Progress'
    BY <1>1 DEF StatFails, NoBinary, NoHeader, TypeOK, Progress, Packed, Writing
  <2> QED
    BY <1>1, <2>1, <2>2
    DEF StatFails, NoBinary, NoHeader, Planned, Followed, Described, Stored, PackedTight, Writing
<1>2. CASE FileFails
  <2> USE <1>2 DEF FileFails
  <2> DEFINE f == Len(macro) + 1
             m == [bank |-> bin[f] - 1, offs |-> capacity[bin[f]], size |-> size[f]]
  <2>1. m \in [bank : 0..(Len(disk) - 1), offs : 0..Bank, size : 0..Bank]
    <3>1. f \in 1..Len(disk) BY DEF TypeOK, Progress, Packed, Writing
    <3>2. f \in DOMAIN bin /\ f \in DOMAIN size
      BY <3>1, Shapes DEF Progress, Packed, Writing
    <3>3. bin[f] \in 1..Len(disk) /\ bin[f] <= Len(capacity)
      BY <3>2, Shapes DEF Progress, Packed
    <3>4. capacity[bin[f]] \in 0..Bank /\ size[f] \in 0..Bank
      BY <3>2, <3>3, Shapes
    <3> QED BY <3>3, <3>4
  <2>2. TypeOK' BY <2>1 DEF TypeOK, Describe
  <2>3. Progress' BY DEF TypeOK, Progress, Packed, Writing
  <2> QED BY <2>2, <2>3 DEF Planned, Followed, Described, Stored, PackedTight, Writing
<1> QED BY <1>1, <1>2

LEMMA TableBuiltInv == ASSUME IInv, TableBuilt PROVE IInv'
<1> USE SizeAssumption DEF IInv, TableBuilt
<1>1. TypeOK' BY DEF TypeOK, Progress, Packed, Writing
<1>2. Progress' BY DEF TypeOK, Progress, Packed, Writing
<1>3. Planned'
  <2>1. bin' = <<>> BY DEF Progress
  <2>2. [x \in {} |-> 0] \in Place' BY <2>1 DEF Place
  <2> QED BY <2>1, <2>2 DEF Planned, Lined
<1>4. PackedTight' BY DEF Progress, PackedTight
<1> QED BY <1>1, <1>2, <1>3, <1>4 DEF Followed, Described, Stored, Writing

LEMMA CloseInv == ASSUME IInv, Close PROVE IInv'
<1> USE SizeAssumption DEF IInv, Close
<1>1. TypeOK' BY DEF TypeOK
<1>2. Progress' BY DEF TypeOK, Progress, Packed, Writing
<1>3. Followed' BY DEF Followed, Lined, Place, Writing
<1>4. Described' /\ Stored' BY DEF Described, Stored, Start, Writing
<1> QED BY <1>1, <1>2, <1>3, <1>4 DEF Planned, PackedTight

LEMMA OutputsInv == ASSUME IInv, Outputs PROVE IInv'
<1> USE SizeAssumption DEF IInv, Outputs
<1>1. TypeOK'
  <2>1. DOMAIN capacity = 1..Len(capacity) /\ Len(capacity) \in Nat BY Shapes
  <2>3. capacity' \in Seq(0..Bank) /\ Len(capacity') = Len(capacity) BY <2>1
  <2>2. macro' = <<>> /\ out' = <<>> /\ header' = "open" /\ pc' = "build" OBVIOUS
  <2> QED BY <2>2, <2>3 DEF TypeOK
<1>2. Progress' BY DEF TypeOK, Progress, Packed, Writing
<1>3. Followed'
  <2>1. PICK at \in Place : Lined(at) /\ \A f \in DOMAIN bin : at[f] + size[f] <= Used(bin[f])
    BY DEF Planned
  <2>2. \A f \in DOMAIN bin : bin[f] \in DOMAIN capacity
    BY Shapes DEF Progress, Packed
  <2>3. ASSUME NEW f \in DOMAIN bin PROVE at[f] + size[f] <= Bank
    <3>1. capacity[bin[f]] \in 0..Bank BY <2>2, Shapes
    <3>2. f \in DOMAIN size BY Shapes DEF Progress, Packed
    <3>3. size[f] \in 0..Bank /\ at[f] \in 0..Bank BY <2>1, <3>2, Shapes DEF Place
    <3> QED BY <2>1, <3>1, <3>3 DEF Used
  <2>4. \A g \in DOMAIN bin : capacity'[bin[g]] <= at[g] BY <2>1, <2>2 DEF Place
  <2>5. at \in Place' /\ Lined(at)' BY <2>1 DEF Place, Lined
  <2> QED BY <2>3, <2>4, <2>5 DEF Followed
<1>4. Described' /\ Stored' BY DEF Described, Stored
<1> QED BY <1>1, <1>2, <1>3, <1>4 DEF Planned, PackedTight

\* Where a file goes there is room; a new bank is opened only when there is none
\* in the last one or, without --keep-order, in any.
LEMMA Target ==
    ASSUME IInv, pc = "pack", NEW f, f = Len(bin) + 1, f <= Len(disk),
           NEW b, b = IF keep THEN NextBank(f) ELSE FirstBank(f)
    PROVE  \/ b \in 1..Len(capacity) /\ capacity[b] >= size[f] /\ (keep => b = Len(capacity))
           \/ /\ b = Len(capacity) + 1
              /\ \A c \in 1..Len(capacity) :
                    (keep => c = Len(capacity)) => capacity[c] < size[f]
<1>0. TypeOK /\ Progress /\ pc \in Packed BY Zenon DEF IInv, Packed
<1>1. Len(capacity) \in 1..Len(capacity) BY <1>0, Midway, Shapes
<1>2. f \in 1..Len(size) BY <1>0, Midway, Shapes
<1>3. \A c \in 1..Len(capacity) : ~Room(f, c) => capacity[c] < size[f]
  BY <1>0, <1>2, Shapes DEF Room
<1>4. CASE keep BY <1>1, <1>3, <1>4 DEF NextBank, Room
<1>5. CASE ~keep
  <2>1. DOMAIN capacity = 1..Len(capacity) BY <1>0, Shapes
  <2>2. CASE WithRoom(f) # {}
    <3>1. b \in WithRoom(f) BY <1>0, <1>5, <2>2, FirstHasRoom DEF FirstBank, TypeOK
    <3> QED BY <3>1, <2>1, <1>5 DEF WithRoom, Room
  <2>3. CASE WithRoom(f) = {}
    <3>1. b = Len(capacity) + 1 BY <1>5, <2>3 DEF FirstBank
    <3>2. \A c \in 1..Len(capacity) : ~Room(f, c) BY <2>1, <2>3 DEF WithRoom
    <3> QED BY <3>1, <3>2, <1>3
  <2> QED BY <2>2, <2>3
<1> QED BY <1>4, <1>5

\* A file f is packed into bank b, when there are n banks.
Packs(f, b, n) ==
    /\ pc = "pack" /\ n = Len(capacity) /\ f = Len(bin) + 1 /\ f <= Len(disk)
    /\ \/ b \in 1..n /\ capacity[b] >= size[f] /\ (keep => b = n)
       \/ /\ b = n + 1
          /\ \A c \in 1..n : (keep => c = n) => capacity[c] < size[f]
    /\ Put(f, b)
    /\ UNCHANGED <<pc, keep, disk, changes, size, macro, banks, header, out>>

\* What packing does to the banks and the room in them.
LEMMA PutRoom ==
    ASSUME TypeOK, NEW f, NEW b, NEW n, Packs(f, b, n), size[f] \in 0..Bank
    PROVE  /\ DOMAIN capacity' = 1..Len(capacity') /\ capacity' \in Seq(0..Bank)
           /\ Len(capacity') = (IF b <= n THEN n ELSE n + 1)
           /\ capacity'[b] = (IF b <= n THEN capacity[b] - size[f] ELSE Bank - size[f])
           /\ \A c \in 1..n : c # b => capacity'[c] = capacity[c]
<1> USE SizeAssumption
<1>0. /\ capacity \in Seq(0..Bank) /\ n \in Nat
      /\ \A c \in 1..n : capacity[c] \in 0..Bank
  BY Shapes DEF TypeOK, Packs
<1>3. /\ n = Len(capacity) /\ Put(f, b)
      /\ \/ b \in 1..n /\ capacity[b] >= size[f]
         \/ b = n + 1
  BY Zenon DEF Packs
<1>1. CASE b \in 1..n /\ capacity[b] >= size[f]
  <2>1. capacity' = [capacity EXCEPT ![b] = @ - size[f]] BY <1>0, <1>1, <1>3 DEF Put
  <2>2. capacity[b] - size[f] \in 0..Bank BY <1>0, <1>1
  <2>3. capacity' \in Seq(0..Bank)
    <3>1. capacity' \in [1..n -> 0..Bank] BY <1>0, <1>3, <2>1, <2>2, SeqShape
    <3> QED BY <1>0, <3>1
  <2>4. Len(capacity') = n BY <1>0, <1>3, <2>1
  <2> QED BY <1>0, <1>1, <2>1, <2>3, <2>4, SeqShape
<1>2. CASE b = n + 1
  <2>1. capacity' = Append(capacity, Bank - size[f]) BY <1>0, <1>2, <1>3 DEF Put
  <2>2. Bank - size[f] \in 0..Bank OBVIOUS
  <2>3. capacity' \in Seq(0..Bank) /\ Len(capacity') = n + 1 BY <1>0, <1>3, <2>1, <2>2
  <2>4. capacity'[n + 1] = Bank - size[f] BY <1>0, <1>3, <2>1, <2>2
  <2>5. \A c \in 1..n : capacity'[c] = capacity[c] BY <1>0, <1>3, <2>1, <2>2
  <2> QED BY <1>0, <1>2, <2>3, <2>4, <2>5, SeqShape
<1> QED BY <1>1, <1>2, <1>3

LEMMA PackIs == ASSUME IInv, Pack PROVE \E f, b, n : Packs(f, b, n)
<1> DEFINE f == Len(bin) + 1
           b == IF keep THEN NextBank(f) ELSE FirstBank(f)
<1>0. TypeOK /\ pc = "pack" BY DEF IInv, Pack
<1>1. Len(bin) < Len(disk) /\ Put(f, b) BY DEF Pack
<1>2. f <= Len(disk) BY <1>0, <1>1, Shapes
<1> HIDE DEF f, b
<1>3. f = Len(bin) + 1 BY DEF f
<1>4. b = IF keep THEN NextBank(f) ELSE FirstBank(f) BY DEF b
<1>5. \/ b \in 1..Len(capacity) /\ capacity[b] >= size[f] /\ (keep => b = Len(capacity))
      \/ /\ b = Len(capacity) + 1
         /\ \A c \in 1..Len(capacity) : (keep => c = Len(capacity)) => capacity[c] < size[f]
  BY <1>0, <1>2, <1>3, <1>4, Target
<1>6. Packs(f, b, Len(capacity)) BY <1>0, <1>1, <1>2, <1>3, <1>5 DEF Packs, Pack
<1> QED BY <1>6

\* The numbers after the step.
LEMMA PacksNumbers ==
    ASSUME IInv, NEW f, NEW b, NEW n, Packs(f, b, n)
    PROVE  /\ f \in Nat /\ f > 0 /\ n \in Nat /\ n > 0 /\ b \in 1..(n + 1)
           /\ Len(bin) = f - 1 /\ Len(bin') = f /\ DOMAIN bin' = 1..f /\ DOMAIN bin = 1..(f - 1)
           /\ bin'[f] = b /\ \A g \in 1..(f - 1) : bin'[g] = bin[g] /\ bin[g] \in 1..n
           /\ bin' \in Seq(1..Len(disk))
           /\ \A g \in 1..f : size[g] \in 0..Bank
           /\ DOMAIN capacity' = 1..Len(capacity') /\ capacity' \in Seq(0..Bank)
           /\ Len(capacity') = (IF b <= n THEN n ELSE n + 1) /\ Len(capacity') <= f
           /\ capacity'[b] = (IF b <= n THEN capacity[b] - size[f] ELSE Bank - size[f])
           /\ \A c \in 1..n : capacity[c] \in 0..Bank /\ (c # b => capacity'[c] = capacity[c])
<1> USE SizeAssumption
<1>1. /\ TypeOK /\ Progress /\ pc \in Packed /\ n = Len(capacity) /\ f = Len(bin) + 1
      /\ f <= Len(disk)
      /\ \/ b \in 1..n /\ capacity[b] >= size[f] /\ (keep => b = n)
         \/ /\ b = n + 1
            /\ \A c \in 1..n : (keep => c = n) => capacity[c] < size[f]
  <2>1. TypeOK /\ Progress BY DEF IInv
  <2>2. pc = "pack" /\ pc \in Packed BY Zenon DEF Packs, Packed
  <2>3. n = Len(capacity) /\ f = Len(bin) + 1 /\ f <= Len(disk) BY Zenon DEF Packs
  <2>4. \/ b \in 1..n /\ capacity[b] >= size[f] /\ (keep => b = n)
        \/ /\ b = n + 1
           /\ \A c \in 1..n : (keep => c = n) => capacity[c] < size[f]
    BY Zenon DEF Packs
  <2> QED BY <2>1, <2>2, <2>3, <2>4
<1>2. /\ Len(size) = Len(disk) /\ Len(disk) \in Nat /\ n \in Nat /\ n > 0 /\ Len(bin) \in Nat
      /\ \A g \in 1..Len(size) : size[g] \in 0..Bank
      /\ \A g \in 1..Len(bin) : bin[g] \in 1..n
      /\ \A c \in 1..n : capacity[c] \in 0..Bank
      /\ DOMAIN bin = 1..Len(bin)
  BY <1>1, Shapes, Midway
\* The first file always goes to the first bank.
<1>3. \/ n <= Len(bin)
      \/ Len(bin) = 0 /\ n = 1 /\ capacity[1] = Bank
  <2>1. \/ Len(capacity) <= Len(bin)
        \/ Len(bin) = 0 /\ Len(capacity) = 1 /\ capacity[1] = Bank
    BY <1>1, Midway
  <2>2. n = Len(capacity) BY <1>1
  <2> QED BY <2>1, <2>2
<1>4. b \in 1..(n + 1) /\ b <= f /\ b \in 1..Len(disk)
  <2>1. size[f] \in 0..Bank BY <1>1, <1>2
  <2>2. CASE n <= Len(bin) BY <1>1, <1>2, <2>2
  <2>3. CASE Len(bin) = 0 /\ n = 1 /\ capacity[1] = Bank
    <3>1. b # n + 1 BY <1>1, <1>2, <2>1, <2>3
    <3> QED BY <1>1, <1>2, <2>3, <3>1
  <2> QED BY <1>3, <2>2, <2>3
<1>5. bin' = Append(bin, b) /\ bin \in Seq(1..Len(disk)) BY <1>1 DEF Packs, Put, TypeOK
<1>6. bin' \in Seq(1..Len(disk)) /\ Len(bin') = f BY <1>1, <1>2, <1>4, <1>5
<1>7. bin'[f] = b /\ \A g \in 1..Len(bin) : bin'[g] = bin[g] BY <1>1, <1>2, <1>4, <1>5
<1>8. DOMAIN bin' = 1..f BY <1>6, SeqShape
<1>9. /\ DOMAIN capacity' = 1..Len(capacity') /\ capacity' \in Seq(0..Bank)
      /\ Len(capacity') = (IF b <= n THEN n ELSE n + 1)
      /\ capacity'[b] = (IF b <= n THEN capacity[b] - size[f] ELSE Bank - size[f])
      /\ \A c \in 1..n : c # b => capacity'[c] = capacity[c]
  <2>1. size[f] \in 0..Bank BY <1>1, <1>2
  <2>2. TypeOK BY <1>1
  <2> QED BY <2>1, <2>2, PutRoom
<1>10. Len(capacity') <= f
  <2>1. Len(capacity') = (IF b <= n THEN n ELSE n + 1) BY <1>9
  <2>2. f = Len(bin) + 1 BY <1>1
  <2> QED BY <2>1, <2>2, <1>2, <1>3, <1>4
<1>11. f \in Nat /\ f > 0 /\ Len(bin) = f - 1 /\ \A g \in 1..f : size[g] \in 0..Bank
  BY <1>1, <1>2
<1> QED BY <1>1, <1>2, <1>4, <1>6, <1>7, <1>8, <1>9, <1>10, <1>11

LEMMA PacksFiles ==
    ASSUME IInv, NEW f, NEW b, NEW n, Packs(f, b, n)
    PROVE  /\ f \in Nat /\ n \in Nat /\ DOMAIN bin' = 1..f /\ DOMAIN bin = 1..(f - 1)
           /\ bin'[f] = b /\ \A g \in 1..(f - 1) : bin'[g] = bin[g] /\ bin[g] \in 1..n
BY PacksNumbers, Zenon

LEMMA PacksBanks ==
    ASSUME IInv, NEW f, NEW b, NEW n, Packs(f, b, n)
    PROVE  \A c \in 1..n : capacity[c] \in 0..Bank /\ (c # b => capacity'[c] = capacity[c])
BY PacksNumbers

LEMMA PacksProgress ==
    ASSUME IInv, NEW f, NEW b, NEW n, Packs(f, b, n)
    PROVE  TypeOK' /\ Progress'
<1> USE SizeAssumption
<1>0. TypeOK /\ Progress /\ pc = "pack" BY DEF IInv, Packs
<1>1. UNCHANGED <<pc, keep, disk, changes, size, macro, banks, header, out>> BY DEF Packs
<1>2. f <= Len(disk) BY Zenon DEF Packs
<1>3. Len(disk) \in Nat /\ Len(size) = Len(disk) BY <1>0, Shapes, Midway DEF Packed
<1>4. TypeOK'
  <2>1. /\ bin' \in Seq(1..Len(disk)) /\ capacity' \in Seq(0..Bank)
        /\ Len(capacity') <= f /\ f \in Nat /\ Len(capacity') \in Nat
    BY PacksNumbers, SeqShape
  <2>2. Len(capacity') <= Len(disk) BY <1>2, <1>3, <2>1
  <2> QED BY <1>0, <1>1, <2>1, <2>2 DEF TypeOK
<1>5. Progress'
  <2>1. /\ Len(capacity') > 0 /\ Len(capacity') <= f /\ Len(bin') = f /\ DOMAIN bin' = 1..f
    BY PacksNumbers
  <2>4. ASSUME NEW g \in 1..f PROVE bin'[g] <= Len(capacity')
    <3>1. /\ f \in Nat /\ n \in Nat /\ b \in 1..(n + 1) /\ bin'[f] = b
          /\ Len(capacity') = IF b <= n THEN n ELSE n + 1
      BY PacksNumbers
    <3>2. CASE g # f
      <4>1. g \in 1..(f - 1) BY <3>1, <3>2
      <4>2. bin'[g] \in 1..n BY <4>1, PacksNumbers
      <4> QED BY <3>1, <4>2
    <3> QED BY <3>1, <3>2
  <2>2. Len(disk) > 0 BY <1>0 DEF Progress
  <2>3. header # "closed" BY <1>0 DEF Progress
  <2> QED BY <1>0, <1>1, <1>2, <1>3, <2>1, <2>2, <2>3, <2>4 DEF Progress, Packed, Writing
<1> QED BY <1>4, <1>5

LEMMA PacksPlanned ==
    ASSUME IInv, NEW f, NEW b, NEW n, Packs(f, b, n)
    PROVE  Planned'
<1> USE SizeAssumption
<1>1. UNCHANGED <<pc, keep, disk, changes, size, macro, banks, header, out>> BY DEF Packs
<1>2. PICK at \in Place : Lined(at) /\ \A g \in DOMAIN bin : at[g] + size[g] <= Used(bin[g])
  BY Zenon DEF IInv, Planned, Packs
<1>3. \/ b \in 1..n /\ capacity[b] >= size[f]
      \/ b = n + 1
  BY Zenon DEF Packs
<1> DEFINE u == IF b <= n THEN Bank - capacity[b] ELSE 0
           at2 == [g \in 1..f |-> IF g = f THEN u ELSE at[g]]
<1>4. u \in 0..Bank /\ u + size[f] = Bank - capacity'[b]
  <2>1. f \in Nat /\ f > 0 /\ n \in Nat /\ \A g \in 1..f : size[g] \in 0..Bank BY PacksNumbers
  <2>2. size[f] \in 0..Bank BY <2>1
  <2>3. CASE b \in 1..n
    <3>1. capacity[b] \in 0..Bank BY <2>3, PacksNumbers
    <3>2. capacity'[b] = capacity[b] - size[f] BY <2>3, PacksNumbers
    <3> QED BY <2>2, <2>3, <3>1, <3>2
  <2>4. CASE b = n + 1
    <3>1. ~(b <= n) BY <2>1, <2>4
    <3>2. capacity'[b] = Bank - size[f] BY <3>1, PacksNumbers
    <3> QED BY <2>2, <3>1, <3>2
  <2> QED BY <1>3, <2>3, <2>4
<1>5. \A g \in 1..(f - 1) :
         /\ at[g] \in 0..Bank /\ at[g] + size[g] <= Bank - capacity[bin[g]]
         /\ capacity'[bin[g]] <= capacity[bin[g]] /\ size[g] \in 0..Bank
  <2> TAKE g \in 1..(f - 1)
  <2>1. g \in DOMAIN bin BY PacksNumbers
  <2>2. at[g] \in 0..Bank /\ at[g] + size[g] <= Used(bin[g]) BY <1>2, <2>1 DEF Place
  <2>3. size[g] \in 0..Bank /\ bin[g] \in 1..n /\ capacity[bin[g]] \in 0..Bank
    <3>1. bin[g] \in 1..n BY PacksFiles
    <3>2. g \in 1..f /\ \A h \in 1..f : size[h] \in 0..Bank BY PacksNumbers
    <3> QED BY <3>1, <3>2, PacksBanks
  <2>4. capacity'[bin[g]] <= capacity[bin[g]]
    <3>1. CASE bin[g] = b
      <4>1. size[f] \in 0..Bank BY PacksNumbers
      <4>2. capacity'[b] = capacity[b] - size[f] BY <3>1, <2>3, PacksNumbers
      <4> QED BY <3>1, <4>1, <4>2, <2>3
    <3>2. CASE bin[g] # b
      <4>1. capacity'[bin[g]] = capacity[bin[g]] BY <3>2, <2>3, PacksNumbers
      <4> QED BY <4>1, <2>3
    <3> QED BY <3>1, <3>2
  <2> QED BY <2>2, <2>3, <2>4 DEF Used
<1>6. at2 \in [DOMAIN bin' -> 0..Bank]
  <2>1. DOMAIN bin' = 1..f /\ f \in Nat BY PacksNumbers
  <2>2. \A g \in 1..f : at2[g] \in 0..Bank BY <1>4, <1>5, <2>1
  <2> QED BY <2>1, <2>2
<1>7. \A g \in 1..f : at2[g] + size[g] <= Bank - capacity'[bin'[g]]
  <2> TAKE g \in 1..f
  <2>1. f \in Nat /\ n \in Nat BY PacksNumbers
  <2>2. CASE g = f
    <3>1. bin'[g] = b /\ at2[g] = u BY <2>2, PacksFiles
    <3>2. capacity'[b] \in 0..Bank
      <4>1. /\ capacity' \in Seq(0..Bank) /\ b \in 1..(n + 1)
            /\ Len(capacity') = (IF b <= n THEN n ELSE n + 1)
        BY PacksNumbers
      <4>2. b \in 1..Len(capacity') BY <2>1, <4>1
      <4> QED BY <4>1, <4>2, SeqShape
    <3> QED BY <2>2, <3>1, <3>2, <1>4
  <2>3. CASE g # f
    <3>1. g \in 1..(f - 1) BY <2>1, <2>3
    <3>2. bin'[g] = bin[g] /\ bin[g] \in 1..n BY <3>1, PacksNumbers
    <3>3. capacity[bin[g]] \in 0..Bank /\ capacity'[bin[g]] \in Int
      <4>1. capacity' \in Seq(0..Bank) /\ n <= Len(capacity') BY <2>1, PacksNumbers
      <4>2. bin[g] \in 1..Len(capacity') BY <3>2, <4>1, <2>1, SeqShape
      <4>3. capacity'[bin[g]] \in 0..Bank BY <4>1, <4>2, SeqShape
      <4>4. capacity[bin[g]] \in 0..Bank BY <3>2, PacksBanks
      <4> QED BY <4>3, <4>4
    <3> QED BY <2>3, <3>1, <3>2, <3>3, <1>5
  <2> QED BY <2>2, <2>3
<1>8. \A g, h \in 1..f : g < h /\ bin'[g] = bin'[h] => at2[g] + size[g] <= at2[h]
  <2> SUFFICES ASSUME NEW g \in 1..f, NEW h \in 1..f, g < h, bin'[g] = bin'[h]
               PROVE  at2[g] + size[g] <= at2[h]
    OBVIOUS
  <2>1. f \in Nat /\ g \in 1..(f - 1) /\ g # f BY PacksFiles
  <2>2. bin'[g] = bin[g] /\ bin[g] \in 1..n BY <2>1, PacksNumbers
  <2>3. at2[g] = at[g] BY <2>1
  <2>4. CASE h = f
    <3>1. bin'[f] = b /\ n \in Nat BY PacksNumbers
    <3>4. bin'[g] = bin'[f] BY <2>4
    <3>5. bin[g] = b BY <2>2, <3>1, <3>4
    <3>3. bin[g] = b /\ b <= n BY <2>2, <3>1, <3>5
    <3>2. at2[h] = u BY <2>4
    <3> QED BY <2>1, <2>3, <3>2, <3>3, <1>5
  <2>5. CASE h # f
    <3>1. h \in 1..(f - 1) BY <2>1, <2>5
    <3>2. bin[g] = bin[h] /\ g \in DOMAIN bin /\ h \in DOMAIN bin BY <2>1, <2>2, <3>1, PacksFiles
    <3>3. at[g] + size[g] <= at[h] BY <1>2, <3>2 DEF Lined
    <3> QED BY <2>3, <2>5, <3>3
  <2> QED BY <2>4, <2>5
<1>9. size' = size /\ DOMAIN bin' = 1..f BY <1>1, PacksNumbers
<1>10. PICK a : a = at2 OBVIOUS
<1> HIDE DEF at2
<1>11. a \in Place' BY <1>6, <1>10 DEF Place
<1>12. Lined(a)' BY <1>8, <1>9, <1>10 DEF Lined
<1>13. \A g \in 1..f : a[g] + size'[g] <= Used(bin[g])' BY <1>7, <1>9, <1>10 DEF Used
<1> QED BY <1>9, <1>11, <1>12, <1>13 DEF Planned

LEMMA PacksTight ==
    ASSUME IInv, NEW f, NEW b, NEW n, Packs(f, b, n)
    PROVE  PackedTight'
<1> USE SizeAssumption
<1>1. pc = "pack" /\ PackedTight /\ keep' = keep BY DEF IInv, Packs
<1>2. \/ b \in 1..n /\ capacity[b] >= size[f] /\ (keep => b = n)
      \/ /\ b = n + 1
         /\ \A c \in 1..n : (keep => c = n) => capacity[c] < size[f]
  BY Zenon DEF Packs
<1>3. n = Len(capacity) /\ DOMAIN capacity = 1..n BY Shapes DEF Packs, IInv
<1>4. f \in Nat /\ n \in Nat /\ size[f] \in 0..Bank BY PacksNumbers
<1>5. \A c \in 1..n : capacity[c] \in 0..Bank /\ capacity'[c] \in 0..Bank
                      /\ capacity'[c] <= capacity[c]
  <2> TAKE c \in 1..n
  <2>1. CASE c = b
    <3>1. capacity'[c] = capacity[c] - size[f] /\ capacity[c] \in 0..Bank
      BY <2>1, <1>4, PacksNumbers
    <3> QED BY <3>1, <2>1, <1>2, <1>4
  <2>2. CASE c # b BY <2>2, PacksBanks
  <2> QED BY <2>1, <2>2
<1>6. ASSUME NEW c \in DOMAIN capacity', NEW d \in DOMAIN capacity', c < d, keep => d = c + 1
      PROVE  (Bank - capacity'[c]) + (Bank - capacity'[d]) > Bank
  <2>1. c \in Nat /\ d \in Nat /\ c > 0 /\ d <= Len(capacity')
    <3>1. DOMAIN capacity' = 1..Len(capacity') /\ capacity' \in Seq(0..Bank)
      BY PacksNumbers
    <3>2. Len(capacity') \in Nat BY <3>1, SeqShape
    <3>3. c \in 1..Len(capacity') /\ d \in 1..Len(capacity') BY <1>6, <3>1
    <3> QED BY <3>2, <3>3
  <2>2. Len(capacity') = IF b <= n THEN n ELSE n + 1 BY PacksNumbers
  <2>3. c \in 1..n BY <1>4, <1>6, <2>1, <2>2
  <2>4. CASE d <= n
    <3>1. d \in 1..n BY <2>1, <2>4, <1>4
    <3>2. Used(c) + Used(d) > Bank BY <1>1, <1>3, <1>6, <2>3, <3>1 DEF PackedTight
    <3> QED BY <3>1, <3>2, <2>3, <1>5 DEF Used
  <2>5. CASE d > n
    <3>1. b = n + 1 /\ d = n + 1 BY <2>1, <2>2, <2>5, <1>2, <1>4
    <3>2. capacity'[d] = Bank - size[f] BY <3>1, <1>4, PacksNumbers
    <3>3. keep => c = n BY <3>1, <1>6, <1>4, <2>1
    <3>4. capacity[c] < size[f] BY <1>2, <1>4, <2>3, <3>1, <3>3
    <3> QED BY <3>2, <3>4, <1>4, <1>5, <2>3
  <2> QED BY <2>1, <2>4, <2>5, <1>4
<1>7. ASSUME keep, NEW g \in 1..f, NEW h \in 1..f, g < h PROVE bin'[g] <= bin'[h]
  <2>1. g \in 1..(f - 1) BY <1>4, <1>7
  <2>2. bin'[g] = bin[g] /\ bin[g] \in 1..n BY <2>1, PacksNumbers
  <2>3. CASE h = f
    <3>1. bin'[h] = b BY <2>3, PacksNumbers
    <3> QED BY <1>2, <1>4, <1>7, <2>2, <3>1
  <2>4. CASE h # f
    <3>1. h \in 1..(f - 1) BY <1>4, <2>4
    <3>2. bin'[h] = bin[h] /\ g \in DOMAIN bin /\ h \in DOMAIN bin BY <2>1, <3>1, PacksFiles
    <3>3. bin[g] <= bin[h] BY <1>1, <1>7, <3>2 DEF PackedTight
    <3> QED BY <2>2, <3>2, <3>3
  <2> QED BY <2>3, <2>4
<1>8. DOMAIN bin' = 1..f BY PacksNumbers
<1> QED BY <1>1, <1>6, <1>7, <1>8 DEF PackedTight, Used

LEMMA PackInv == ASSUME IInv, Pack PROVE IInv'
<1>1. PICK f, b, n : Packs(f, b, n) BY PackIs
<1>2. pc' = "pack" BY <1>1 DEF Packs
<1>3. TypeOK' /\ Progress' /\ Planned' /\ PackedTight'
  BY <1>1, PacksProgress, PacksPlanned, PacksTight
<1> QED BY <1>2, <1>3 DEF IInv, Followed, Described, Stored, Writing

\* File f is added to bank b, of which c units are used.
Adds(f, b, c) ==
    /\ AddFile
    /\ pc = "build" /\ f = Len(macro) + 1 /\ f <= Len(disk)
    /\ b = bin[f] /\ c = capacity[b]

LEMMA AddFileIs == ASSUME IInv, AddFile PROVE \E f, b, c : Adds(f, b, c)
<1>1. Len(macro) \in Nat /\ Len(disk) \in Nat /\ Len(macro) < Len(disk) /\ pc = "build"
  BY Shapes, Macros DEF IInv, AddFile
<1>2. Adds(Len(macro) + 1, bin[Len(macro) + 1], capacity[bin[Len(macro) + 1]])
  BY <1>1 DEF Adds
<1> QED BY <1>2

\* The numbers before the step.
LEMMA AddsBefore ==
    ASSUME IInv, NEW f, NEW b, NEW c, Adds(f, b, c)
    PROVE  /\ TypeOK /\ Progress /\ Len(disk) \in Nat
           /\ f \in 1..Len(disk) /\ Len(macro) = f - 1 /\ DOMAIN macro = 1..(f - 1)
           /\ DOMAIN bin = 1..Len(disk) /\ Len(size) = Len(disk)
           /\ \A g \in 1..Len(disk) :
                 size[g] \in 0..Bank /\ bin[g] \in 1..Len(capacity) /\ bin[g] \in 1..Len(disk)
           /\ Len(capacity) \in Nat /\ DOMAIN capacity = 1..Len(capacity)
           /\ \A d \in 1..Len(capacity) : capacity[d] \in 0..Bank
           /\ b = bin[f] /\ b \in 1..Len(capacity) /\ c = capacity[b] /\ c \in 0..Bank
           /\ c + size[f] <= Bank
<1>1. TypeOK /\ Progress /\ pc = "build" /\ pc \in Packed /\ pc \in Writing
  BY Zenon DEF IInv, Adds, Packed, Writing
<1>2. f = Len(macro) + 1 /\ f <= Len(disk) /\ b = bin[f] /\ c = capacity[b] BY Zenon DEF Adds
<1>3. Len(bin) = Len(disk) BY <1>1, Zenon DEF Progress
<1>4. Len(macro) \in Nat /\ DOMAIN macro = 1..Len(macro) BY <1>1, Macros
<1>5. /\ Len(disk) \in Nat /\ DOMAIN bin = 1..Len(disk) /\ Len(size) = Len(disk)
      /\ Len(capacity) \in Nat /\ DOMAIN capacity = 1..Len(capacity)
      /\ \A d \in 1..Len(capacity) : capacity[d] \in 0..Bank
      /\ \A g \in 1..Len(disk) :
            size[g] \in 0..Bank /\ bin[g] \in 1..Len(capacity) /\ bin[g] \in 1..Len(disk)
  BY <1>1, <1>3, Shapes, Midway
<1>6. f \in 1..Len(disk) BY <1>2, <1>4, <1>5
<1>7. b \in 1..Len(capacity) /\ c \in 0..Bank BY <1>2, <1>5, <1>6
<1>8. c + size[f] <= Bank
  <2>1. PICK at \in Place :
           /\ Lined(at) /\ \A g \in DOMAIN bin : at[g] + size[g] <= Bank
           /\ \A g \in DOMAIN bin : g > Len(macro) => capacity[bin[g]] <= at[g]
    BY <1>1, Zenon DEF IInv, Followed
  <2>2. f \in DOMAIN bin /\ f > Len(macro) BY <1>2, <1>4, <1>5, <1>6
  <2>3. at[f] \in 0..Bank /\ size[f] \in 0..Bank BY <2>1, <2>2, <1>5, <1>6 DEF Place
  <2>4. c <= at[f] /\ at[f] + size[f] <= Bank BY <1>2, <2>1, <2>2
  <2> QED BY <2>3, <2>4, <1>7, SizeAssumption
<1> QED BY <1>1, <1>2, <1>4, <1>5, <1>6, <1>7, <1>8

\* ... and after it.
LEMMA AddsAfter ==
    ASSUME IInv, NEW f, NEW b, NEW c, Adds(f, b, c)
    PROVE  /\ UNCHANGED <<pc, keep, disk, changes, size, bin, banks, header>>
           /\ macro' \in Seq([bank : 0..(Len(disk) - 1), offs : 0..Bank, size : 0..Bank])
           /\ Len(macro') = f /\ DOMAIN macro' = 1..f
           /\ macro'[f] = [bank |-> b - 1, offs |-> c, size |-> size[f]]
           /\ \A g \in 1..(f - 1) : macro'[g] = macro[g]
           /\ capacity' \in Seq(0..Bank) /\ Len(capacity') = Len(capacity)
           /\ capacity'[b] = c + size[f]
           /\ \A d \in 1..Len(capacity) : d # b => capacity'[d] = capacity[d]
<1> USE SizeAssumption
<1> DEFINE M == [bank : 0..(Len(disk) - 1), offs : 0..Bank, size : 0..Bank]
           m == [bank |-> b - 1, offs |-> c, size |-> size[f]]
<1>1. UNCHANGED <<pc, keep, disk, changes, size, bin, banks, header>> BY DEF Adds, AddFile
<1>2. f = Len(macro) + 1 /\ b = bin[f] /\ c = capacity[b] BY Zenon DEF Adds
<1>3. macro' = Append(macro, m) BY <1>2 DEF Adds, AddFile, Describe
<1>4. m \in M
  <2>1. b \in 1..Len(disk) /\ c \in 0..Bank /\ size[f] \in 0..Bank /\ Len(disk) \in Nat
    BY AddsBefore
  <2> QED BY <2>1
<1>5. macro \in Seq(M) /\ Len(macro) = f - 1 /\ f \in Nat
  <2>1. TypeOK BY AddsBefore
  <2>2. macro \in Seq(M) BY <2>1 DEF TypeOK
  <2>3. Len(disk) \in Nat /\ f \in 1..Len(disk) /\ Len(macro) = f - 1 BY AddsBefore
  <2> QED BY <2>2, <2>3
<1> HIDE DEF m, M
<1>6. /\ macro' \in Seq(M) /\ Len(macro') = f /\ macro'[f] = m
      /\ \A g \in 1..(f - 1) : macro'[g] = macro[g]
  BY <1>3, <1>4, <1>5
<1>7. DOMAIN macro' = 1..f BY <1>6, SeqShape
<1>8. capacity' = [capacity EXCEPT ![b] = c + size[f]] BY <1>2 DEF Adds, AddFile
<1>9. /\ capacity \in Seq(0..Bank) /\ b \in 1..Len(capacity) /\ Len(capacity) \in Nat
      /\ DOMAIN capacity = 1..Len(capacity) /\ c + size[f] \in 0..Bank
  <2>1. c \in 0..Bank /\ size[f] \in 0..Bank /\ c + size[f] <= Bank BY AddsBefore
  <2>2. capacity \in Seq(0..Bank) BY AddsBefore DEF TypeOK
  <2> QED BY <2>1, <2>2, AddsBefore
<1>10. capacity' \in Seq(0..Bank) /\ Len(capacity') = Len(capacity)
  <2>1. capacity' \in [1..Len(capacity) -> 0..Bank] BY <1>8, <1>9, SeqShape
  <2> QED BY <2>1, <1>9
<1>11. /\ capacity'[b] = c + size[f]
       /\ \A d \in 1..Len(capacity) : d # b => capacity'[d] = capacity[d]
  BY <1>8, <1>9
<1> QED BY <1>1, <1>6, <1>7, <1>10, <1>11 DEF m, M

LEMMA AddsTyped ==
    ASSUME IInv, NEW f, NEW b, NEW c, Adds(f, b, c)
    PROVE  TypeOK' /\ Progress'
<1> USE SizeAssumption
<1>1. UNCHANGED <<pc, keep, disk, changes, size, bin, banks, header>> BY AddsAfter
<1>2. pc = "build" BY DEF Adds
<1>3. TypeOK'
  <2>1. DOMAIN out' \subseteq Nat
    <3>1. PICK g : /\ g = Len(macro) + 1
                   /\ DOMAIN out' = DOMAIN out \cup Written(g)
      BY DEF Adds, AddFile
    <3>2. g = f /\ f \in 1..Len(disk) /\ bin[f] = b /\ capacity[b] = c /\ b \in 1..Len(disk)
          /\ c \in 0..Bank /\ size[f] \in 0..Bank
      BY <3>1, AddsBefore
    <3>3. (b - 1) * Bank \in Nat
      <4>1. b - 1 \in Nat /\ Bank \in Nat BY <3>2
      <4> QED BY <4>1
    <3>4. Written(f) \subseteq Nat BY <3>2, <3>3 DEF Written, Position
    <3> QED BY <3>1, <3>2, <3>4, AddsBefore DEF TypeOK
  <2>2. /\ macro' \in Seq([bank : 0..(Len(disk) - 1), offs : 0..Bank, size : 0..Bank])
        /\ capacity' \in Seq(0..Bank) /\ Len(capacity') = Len(capacity)
    BY AddsAfter
  <2>3. TypeOK BY AddsBefore
  <2> QED BY <1>1, <2>1, <2>2, <2>3 DEF TypeOK
<1>4. Progress'
  <2>1. Len(capacity') = Len(capacity) /\ Len(macro') = f /\ f <= Len(disk) /\ Progress
    <3>1. Len(capacity') = Len(capacity) /\ Len(macro') = f BY AddsAfter
    <3>2. Len(disk) \in Nat /\ f \in 1..Len(disk) /\ Progress BY AddsBefore
    <3> QED BY <3>1, <3>2
  <2>2. \/ Len(capacity) <= Len(bin)
        \/ Len(bin) = 0 /\ Len(capacity) = 1 /\ capacity[1] = Bank
    BY <1>2, AddsBefore, Midway DEF Packed
  <2>3. Len(bin) > 0 /\ Len(bin) = Len(disk) BY <1>2, <2>1 DEF Progress, Writing
  <2>4. Len(capacity) <= Len(bin) BY <2>2, <2>3
  <2> QED BY <1>1, <1>2, <2>1, <2>4 DEF Progress, Packed, Writing
<1> QED BY <1>3, <1>4

LEMMA AddsFollowed ==
    ASSUME IInv, NEW f, NEW b, NEW c, Adds(f, b, c)
    PROVE  Followed'
<1> USE SizeAssumption
<1>1. bin' = bin /\ size' = size /\ pc = "build" BY AddsAfter DEF Adds
<1>2. PICK at \in Place :
         /\ Lined(at) /\ \A g \in DOMAIN bin : at[g] + size[g] <= Bank
         /\ \A g \in DOMAIN bin : g > Len(macro) => capacity[bin[g]] <= at[g]
  BY <1>1, Zenon DEF IInv, Followed, Writing
<1>3. /\ f \in 1..Len(disk) /\ Len(disk) \in Nat /\ Len(macro) = f - 1 /\ DOMAIN bin = 1..Len(disk)
      /\ b = bin[f] /\ c = capacity[b] /\ c \in 0..Bank /\ size[f] \in 0..Bank
  BY AddsBefore
<1>4. ASSUME NEW g \in DOMAIN bin, g > f PROVE capacity'[bin[g]] <= at[g]
  <2>1. g > Len(macro) /\ at[g] \in 0..Bank /\ bin[g] \in 1..Len(capacity) /\ capacity[bin[g]] <= at[g]
    <3>1. g > Len(macro) BY <1>3, <1>4
    <3> QED BY <1>2, <1>3, <3>1, AddsBefore DEF Place
  <2>2. CASE bin[g] = b
    <3>1. f \in DOMAIN bin /\ f > Len(macro) BY <1>3
    <3>2. at[f] \in 0..Bank /\ c <= at[f] BY <1>2, <1>3, <3>1 DEF Place
    <3>3. at[f] + size[f] <= at[g] BY <1>2, <1>3, <1>4, <2>2, <3>1 DEF Lined
    <3>4. capacity'[b] = c + size[f] BY AddsAfter
    <3> QED BY <2>1, <2>2, <3>2, <3>3, <3>4, <1>3
  <2>3. CASE bin[g] # b
    <3>1. capacity'[bin[g]] = capacity[bin[g]] BY <2>1, <2>3, AddsAfter, ZenonT(60)
    <3> QED BY <2>1, <3>1
  <2> QED BY <2>2, <2>3
<1>5. Len(macro') = f BY AddsAfter
<1>6. at \in Place' /\ Lined(at)' BY <1>1, <1>2 DEF Place, Lined
<1> QED BY <1>1, <1>2, <1>4, <1>5, <1>6 DEF Followed

LEMMA AddsDescribed ==
    ASSUME IInv, NEW f, NEW b, NEW c, Adds(f, b, c)
    PROVE  Described'
<1> USE SizeAssumption
<1>1. bin' = bin /\ size' = size /\ pc = "build" BY AddsAfter DEF Adds
<1>2. /\ f \in 1..Len(disk) /\ Len(disk) \in Nat /\ DOMAIN macro = 1..(f - 1)
      /\ b = bin[f] /\ b \in 1..Len(capacity) /\ c = capacity[b] /\ c \in 0..Bank
      /\ size[f] \in 0..Bank /\ c + size[f] <= Bank
  BY AddsBefore
<1>3. DOMAIN macro' = 1..f /\ capacity'[b] = c + size[f] BY AddsAfter
<1>4. ASSUME NEW g \in 1..f
      PROVE  /\ macro'[g].bank = bin[g] - 1 /\ macro'[g].size = size[g]
             /\ macro'[g].offs + size[g] <= capacity'[bin[g]]
             /\ macro'[g].offs + size[g] <= Bank
  <2>1. CASE g = f
    <3>1. macro'[f] = [bank |-> b - 1, offs |-> c, size |-> size[f]] BY AddsAfter
    <3> QED BY <2>1, <3>1, <1>2, <1>3
  <2>2. CASE g # f
    <3>1. g \in 1..(f - 1) /\ g \in 1..Len(disk) BY <1>2, <2>2
    <3>2. macro'[g] = macro[g] BY <3>1, AddsAfter
    <3>3. /\ macro[g].bank = bin[g] - 1 /\ macro[g].size = size[g]
          /\ macro[g].offs + size[g] <= capacity[bin[g]]
          /\ macro[g].offs + size[g] <= Bank
      BY <1>1, <1>2, <3>1, Zenon DEF IInv, Described, Writing
    <3>4. macro[g].offs \in 0..Bank /\ size[g] \in 0..Bank /\ bin[g] \in 1..Len(capacity)
      <4>1. macro[g] \in [bank : 0..(Len(disk) - 1), offs : 0..Bank, size : 0..Bank]
        BY <1>2, <3>1, Macros, AddsBefore
      <4> QED BY <3>1, <4>1, AddsBefore
    <3>5. capacity[bin[g]] <= capacity'[bin[g]]
      <4>1. CASE bin[g] = b BY <4>1, <1>2, <1>3
      <4>2. CASE bin[g] # b
        <5>1. capacity'[bin[g]] = capacity[bin[g]] BY <3>4, <4>2, AddsAfter, ZenonT(60)
        <5>2. capacity[bin[g]] \in 0..Bank BY <3>4, AddsBefore
        <5> QED BY <5>1, <5>2
      <4> QED BY <4>1, <4>2
    <3>6. capacity[bin[g]] \in 0..Bank /\ capacity'[bin[g]] \in 0..Bank
      <4>1. capacity[bin[g]] \in 0..Bank BY <3>4, AddsBefore
      <4>2. capacity' \in Seq(0..Bank) /\ Len(capacity') = Len(capacity) BY AddsAfter
      <4> QED BY <3>4, <4>1, <4>2, SeqShape
    <3> QED BY <3>2, <3>3, <3>4, <3>5, <3>6
  <2> QED BY <2>1, <2>2
<1> QED BY <1>1, <1>3, <1>4 DEF Described

LEMMA AddsStored ==
    ASSUME IInv, NEW f, NEW b, NEW c, Adds(f, b, c)
    PROVE  Stored'
<1> USE SizeAssumption
<1>1. bin' = bin /\ size' = size /\ pc = "build" BY AddsAfter DEF Adds
<1>2. /\ f \in 1..Len(disk) /\ Len(disk) \in Nat /\ DOMAIN macro = 1..(f - 1)
      /\ Len(macro) = f - 1
      /\ b = bin[f] /\ b \in 1..Len(capacity) /\ c = capacity[b] /\ c \in 0..Bank
      /\ Len(capacity) \in Nat /\ size[f] \in 0..Bank /\ c + size[f] <= Bank
  BY AddsBefore
<1>3. DOMAIN macro' = 1..f BY AddsAfter
<1> DEFINE P == (b - 1) * Bank + c
           W == P..(P + size[f] - 1)
<1>4. (b - 1) * Bank \in Nat
  <2>1. b - 1 \in Nat BY <1>2
  <2> QED BY <2>1
<1>5. out' = [p \in DOMAIN out \cup W |-> IF p \in W THEN <<f, p - P>> ELSE out[p]]
  <2>1. f = Len(macro) + 1 BY Zenon DEF Adds
  <2> QED BY <1>2, <2>1 DEF Adds, AddFile, Written, Position
<1>6. ASSUME NEW g \in 1..f, NEW k \in 0..(size[g] - 1)
      PROVE  Start(g)' + k \in DOMAIN out' /\ out'[Start(g)' + k] = <<g, k>>
  <2>1. CASE g = f
    <3>1. macro'[f] = [bank |-> b - 1, offs |-> c, size |-> size[f]] BY AddsAfter
    <3>2. Start(g)' = P BY <2>1, <3>1 DEF Start
    <3>3. P \in Nat /\ k \in Nat /\ k <= size[f] - 1
      <4>1. P \in Nat
        <5>1. c \in 0..Bank BY <1>2
        <5>2. PICK q \in Nat : q = (b - 1) * Bank BY <1>4
        <5>3. P = q + c BY <5>2
        <5> HIDE DEF P
        <5> QED BY <5>1, <5>3
      <4>2. k \in 0..(size[f] - 1) /\ size[f] \in 0..Bank BY <1>2, <1>6, <2>1
      <4> HIDE DEF P
      <4> QED BY <4>1, <4>2
    <3> HIDE DEF P
    <3>4. P + k \in W /\ (P + k) - P = k BY <3>3, <1>2
    <3> HIDE DEF W
    <3>5. P + k \in DOMAIN out' /\ out'[P + k] = <<f, (P + k) - P>> BY <1>5, <3>4
    <3> QED BY <2>1, <3>2, <3>4, <3>5
  <2>2. CASE g # f
    <3>1. g \in 1..(f - 1) /\ g \in DOMAIN macro /\ g \in 1..Len(disk) BY <1>2, <2>2
    <3>2. macro'[g] = macro[g] BY <3>1, AddsAfter
    <3>3. /\ macro[g].bank = bin[g] - 1 /\ macro[g].size = size[g]
          /\ macro[g].offs + size[g] <= capacity[bin[g]]
          /\ macro[g].offs + size[g] <= Bank
      BY <1>1, <3>1, Zenon DEF IInv, Described, Writing
    <3>4. /\ macro[g].offs \in 0..Bank /\ size[g] \in 0..Bank /\ bin[g] \in 1..Len(capacity)
      <4>1. macro[g] \in [bank : 0..(Len(disk) - 1), offs : 0..Bank, size : 0..Bank]
        BY <1>2, <3>1, Macros, AddsBefore
      <4> QED BY <3>1, <4>1, AddsBefore
    <3>5. Start(g) + k \in DOMAIN out /\ out[Start(g) + k] = <<g, k>>
      BY <1>1, <1>6, <3>1, Zenon DEF IInv, Stored, Writing
    <3>6. Start(g)' = Start(g) BY <3>2 DEF Start
    <3>7. Start(g) + k \notin W
      <4> SUFFICES ASSUME Start(g) + k \in W PROVE FALSE
        OBVIOUS
      <4>1. PICK a : a = bin[g] - 1 OBVIOUS
      <4>2. PICK o : o = macro[g].offs OBVIOUS
      <4>3. PICK q : q = (b - 1) * Bank OBVIOUS
      <4>4. /\ a \in Nat /\ o \in Nat /\ k \in Nat /\ k < size[g] /\ size[g] \in Nat
            /\ o + size[g] <= Bank /\ o + size[g] <= capacity[bin[g]]
        <5>1. k \in 0..(size[g] - 1) /\ Bank \in Nat BY <1>6
        <5>2. size[g] \in 0..Bank /\ o \in 0..Bank BY <3>4, <4>2
        <5>3. o + size[g] <= capacity[bin[g]] /\ o + size[g] <= Bank BY <3>3, <4>2
        <5>4. bin[g] \in 1..Len(capacity) /\ Len(capacity) \in Nat BY <1>2, <3>4
        <5>5. a \in Nat BY <5>4, <4>1
        <5> QED BY <5>1, <5>2, <5>3, <5>5
      <4>11. /\ b \in Nat /\ b > 0 /\ c \in Nat /\ size[f] \in Nat /\ c + size[f] <= Bank
        <5>1. b \in 1..Len(capacity) /\ Len(capacity) \in Nat BY <1>2
        <5>2. c \in 0..Bank /\ size[f] \in 0..Bank /\ c + size[f] <= Bank /\ Bank \in Nat BY <1>2
        <5> QED BY <5>1, <5>2
      <4>5. a * Bank \in Nat /\ q \in Nat /\ Bank \in Nat BY <4>3, <4>4, <1>4
      <4>6. Start(g) + k = a * Bank + (o + k)
        <5>1. Start(g) = a * Bank + o BY <3>3, <4>1, <4>2 DEF Start
        <5> QED BY <5>1, <4>4, <4>5
      <4>7. W = (q + c)..(q + c + size[f] - 1) BY <4>3
      <4> HIDE DEF W, P
      <4>8. /\ a * Bank + (o + k) >= q + c /\ a * Bank + (o + k) < q + c + size[f]
        <5>1. Start(g) + k \in (q + c)..(q + c + size[f] - 1) BY <4>7
        <5> QED BY <5>1, <4>4, <4>5, <4>6, <4>11
      <4>9. CASE bin[g] = b
        <5>1. a * Bank = q BY <4>1, <4>3, <4>9
        <5>2. o + size[g] <= c BY <4>4, <4>9, <1>2
        <5> QED BY <5>1, <5>2, <4>4, <4>5, <4>8, <4>11
      <4>10. CASE bin[g] # b
        <5>1. b - 1 \in Nat BY <4>11
        <5>7. bin[g] \in Nat
          <6>1. bin[g] \in 1..Len(capacity) BY <3>4
          <6> QED BY <6>1
        <5>2. a # b - 1 BY <4>1, <4>10, <4>11, <5>7
        <5>3. PICK y : y = (a * Bank + (o + k)) - q OBVIOUS
        <5>4. y \in Nat /\ y < Bank BY <5>3, <4>4, <4>5, <4>8, <4>11
        <5>5. a * Bank + (o + k) = (b - 1) * Bank + y BY <5>3, <4>3, <4>4, <4>5
        <5>6. o + k \in Nat /\ o + k < Bank BY <4>4, <4>5
        <5> QED BY <4>4, <5>1, <5>2, <5>4, <5>5, <5>6, BanksApart
      <4> QED BY <4>9, <4>10
    <3> HIDE DEF W, P
    <3> QED BY <1>5, <3>5, <3>6, <3>7
  <2> QED BY <2>1, <2>2
<1> QED BY <1>1, <1>3, <1>6 DEF Stored

LEMMA AddFileInv == ASSUME IInv, AddFile PROVE IInv'
<1>1. PICK f, b, c : Adds(f, b, c) BY AddFileIs
<1>2. pc' = "build" BY <1>1, AddsAfter DEF Adds
<1>3. TypeOK' /\ Progress' /\ Followed' /\ Described' /\ Stored'
  BY <1>1, AddsTyped, AddsFollowed, AddsDescribed, AddsStored
<1> QED BY <1>2, <1>3 DEF IInv, Planned, PackedTight

-----------------------------------------------------------------------------
LEMMA StepInv == IInv /\ [Next]_vars => IInv'
<1> SUFFICES ASSUME IInv, [Next]_vars PROVE IInv'
  OBVIOUS
<1>1. CASE Stat BY <1>1, StatInv
<1>2. CASE TableBuilt BY <1>2, TableBuiltInv
<1>3. CASE Pack BY <1>3, PackInv
<1>4. CASE Outputs BY <1>4, OutputsInv
<1>5. CASE AddFile BY <1>5, AddFileInv
<1>6. CASE StatFails \/ NoBinary \/ NoHeader \/ FileFails BY <1>6, FailInv
<1>7. CASE Close BY <1>7, CloseInv
<1>8. CASE Change BY <1>8, ChangeInv
<1>9. CASE UNCHANGED vars
  BY <1>9, ZenonT(60) DEF vars, IInv, TypeOK, Progress, Planned, Followed, Described, Stored, PackedTight,
              Lined, Place, Used, Start
<1> QED BY <1>1, <1>2, <1>3, <1>4, <1>5, <1>6, <1>7, <1>8, <1>9 DEF Next

\* The invariant that relates what packing planned, what the header says and what
\* the binary holds, for any capacity, files and changes.
THEOREM Invariant == Spec => []IInv
BY InitInv, StepInv, PTL DEF Spec

\* fs.c: every variable keeps its type; above all there are never more banks than
\* files, which is the room malloc'ed for them.
THEOREM TypeCorrect == Spec => []TypeOK
<1>1. IInv => TypeOK BY DEF IInv
<1> QED BY <1>1, Invariant, PTL

\* fs.c next_fit, repeat_next_fit: no bank is opened that could be spared by
\* joining two banks of the packing.
THEOREM Tight == Spec => []PackedTight
<1>1. IInv => PackedTight BY DEF IInv
<1> QED BY <1>1, Invariant, PTL

\* fs.c build_data_file: a finished header leads to every unit of every file.
THEOREM Found == Spec => []FilesFound
<1>1. ASSUME IInv PROVE FilesFound
  <2> SUFFICES ASSUME header = "closed" PROVE FilesFound
    BY DEF FilesFound
  <2>1. TypeOK /\ Progress /\ pc = "done" /\ pc \in Writing
    BY <1>1, Zenon DEF IInv, Progress, Writing
  <2>2. Len(macro) = Len(disk) /\ DOMAIN macro = 1..Len(disk)
    BY <2>1, Macros DEF Progress
  <2>3. ASSUME NEW f \in Files, NEW k \in Units(f)
        PROVE  LET p == macro[f].bank * Bank + macro[f].offs + k IN
               /\ macro[f].offs + k < Bank
               /\ p \in DOMAIN out /\ out[p] = <<f, k>>
    <3>1. f \in DOMAIN macro BY <2>2, <2>3 DEF Files
    <3>2. macro[f].size = size[f] /\ macro[f].offs + size[f] <= Bank
      BY <1>1, <2>1, <3>1, Zenon DEF IInv, Described
    <3>3. k \in 0..(size[f] - 1) BY <2>3, <3>2 DEF Units
    <3>4. Start(f) + k \in DOMAIN out /\ out[Start(f) + k] = <<f, k>>
      BY <1>1, <2>1, <3>1, <3>3, Zenon DEF IInv, Stored
    <3>5. macro[f].offs \in Nat /\ size[f] \in Nat
      <4>1. macro[f] \in [bank : 0..(Len(disk) - 1), offs : 0..Bank, size : 0..Bank]
        BY <2>1, <2>2, <3>1, Macros
      <4> QED BY <3>2, <4>1
    <3>6. macro[f].offs + k < Bank BY <3>2, <3>3, <3>5, SizeAssumption
    <3> QED BY <3>4, <3>6 DEF Start
  <2> QED BY <2>2, <2>3 DEF FilesFound
<1> QED BY <1>1, Invariant, PTL
-----------------------------------------------------------------------------
(* How many banks there are.  A bank is opened only by a file that does    *)
(* not fit into those there are, so that the last one has a unit in it.    *)

Counted ==
    /\ pc \in Packed /\ Len(capacity) > 1 =>
          \E f \in DOMAIN bin : bin[f] = Len(capacity) /\ size[f] > 0
    /\ pc \in Writing =>
          /\ banks = Len(capacity)
          /\ \A p \in DOMAIN out : p < Len(capacity) * Bank

LEMMA CountedStill ==
    ASSUME Counted,
           \/ pc' \notin Packed
           \/ pc \in Packed /\ pc' = pc
           \/ pc = "build" /\ pc' = "done",
           pc' \in Packed => UNCHANGED <<size, bin, capacity, banks, out>>
    PROVE  Counted'
BY DEF Counted, Packed, Writing

LEMMA CountedTable == ASSUME TableBuilt PROVE Counted'
BY DEF TableBuilt, Counted, Writing

LEMMA CountedPack == ASSUME IInv, Counted, Pack PROVE Counted'
<1> USE SizeAssumption
<1>1. PICK f, b, n : Packs(f, b, n) BY PackIs
<1>2. pc = "pack" /\ pc' = "pack" /\ size' = size /\ n = Len(capacity) BY <1>1 DEF Packs
<1>3. SUFFICES ASSUME Len(capacity') > 1
               PROVE  \E g \in DOMAIN bin' : bin'[g] = Len(capacity') /\ size[g] > 0
  BY <1>2 DEF Counted, Writing
<1>4. /\ f \in Nat /\ f > 0 /\ n \in Nat /\ n > 0 /\ DOMAIN bin' = 1..f /\ DOMAIN bin = 1..(f - 1)
      /\ bin'[f] = b /\ \A g \in 1..(f - 1) : bin'[g] = bin[g]
      /\ Len(capacity') = (IF b <= n THEN n ELSE n + 1)
      /\ size[f] \in 0..Bank /\ capacity[n] \in 0..Bank
  <2>1. /\ f \in Nat /\ f > 0 /\ n \in Nat /\ n > 0 /\ DOMAIN bin' = 1..f
        /\ DOMAIN bin = 1..(f - 1) /\ bin'[f] = b /\ \A g \in 1..(f - 1) : bin'[g] = bin[g]
        /\ Len(capacity') = (IF b <= n THEN n ELSE n + 1)
        /\ \A g \in 1..f : size[g] \in 0..Bank
    BY <1>1, PacksNumbers
  <2>2. \A d \in 1..n : capacity[d] \in 0..Bank BY <1>1, PacksBanks
  <2> QED BY <2>1, <2>2
<1>5. CASE b <= n
  <2>1. PICK g \in DOMAIN bin : bin[g] = Len(capacity) /\ size[g] > 0
    BY <1>2, <1>3, <1>4, <1>5 DEF Counted, Packed
  <2>2. g \in DOMAIN bin' /\ bin'[g] = Len(capacity') BY <1>2, <1>4, <1>5, <2>1
  <2> QED BY <2>1, <2>2
<1>6. CASE ~ (b <= n)
  <2>1. \/ b \in 1..n
        \/ b = n + 1 /\ \A c \in 1..n : (keep => c = n) => capacity[c] < size[f]
    BY <1>1, Zenon DEF Packs
  <2>2. b = n + 1 /\ capacity[n] < size[f] BY <1>4, <1>6, <2>1
  <2>3. f \in DOMAIN bin' /\ bin'[f] = Len(capacity') /\ size[f] > 0 BY <1>4, <1>6, <2>2
  <2> QED BY <2>3
<1> QED BY <1>5, <1>6

LEMMA CountedOutputs == ASSUME IInv, Counted, Outputs PROVE Counted'
<1>1. Len(capacity') = Len(capacity)
  <2>1. DOMAIN capacity = 1..Len(capacity) /\ Len(capacity) \in Nat BY Shapes DEF IInv
  <2> QED BY <2>1 DEF Outputs
<1>2. DOMAIN out' = {} BY DEF Outputs
<1> QED BY <1>1, <1>2 DEF Counted, Outputs, Packed

\* Bank b ends where the next one begins, which is not beyond the end of the last.
LEMMA BankEnds ==
    ASSUME NEW b \in Nat, NEW n \in Nat, b > 0, b <= n
    PROVE  /\ (b - 1) * Bank \in Nat /\ n * Bank \in Nat
           /\ (b - 1) * Bank + Bank <= n * Bank
<1> USE SizeAssumption
<1>1. PICK e \in Nat : n = b + e BY n - b \in Nat, n = b + (n - b)
<1>2. PICK a \in Nat : a = b - 1 OBVIOUS
<1>3. n * Bank = a * Bank + Bank + e * Bank BY <1>1, <1>2
<1>4. a * Bank \in Nat /\ e * Bank \in Nat BY SMT
<1> QED BY <1>2, <1>3, <1>4

LEMMA CountedAdds == ASSUME IInv, Counted, AddFile PROVE Counted'
<1> USE SizeAssumption
<1>1. PICK f, b, c : Adds(f, b, c) BY AddFileIs
<1>2. /\ UNCHANGED <<pc, size, bin, banks>> /\ Len(capacity') = Len(capacity) /\ pc = "build"
  BY <1>1, AddsAfter DEF Adds
<1>3. /\ f \in 1..Len(disk) /\ b = bin[f] /\ c = capacity[b] /\ b \in 1..Len(capacity)
      /\ Len(capacity) \in Nat /\ c \in 0..Bank /\ size[f] \in 0..Bank /\ c + size[f] <= Bank
  BY <1>1, AddsBefore
<1>4. DOMAIN out' = DOMAIN out \cup Written(f)
  <2>1. f = Len(macro) + 1 BY <1>1, Zenon DEF Adds
  <2> QED BY <1>1, <2>1 DEF Adds, AddFile
<1>5. \A p \in Written(f) : p < Len(capacity) * Bank
  <2>1. /\ (b - 1) * Bank \in Nat /\ Len(capacity) * Bank \in Nat
        /\ (b - 1) * Bank + Bank <= Len(capacity) * Bank
    <3>1. b \in Nat /\ b > 0 /\ b <= Len(capacity) /\ Len(capacity) \in Nat BY <1>3
    <3> QED BY <3>1, BankEnds, Zenon
  <2>2. PICK q \in Nat : q = (b - 1) * Bank BY <2>1
  <2>3. PICK e \in Nat : e = Len(capacity) * Bank BY <2>1
  <2>4. Written(f) = (q + c)..(q + c + size[f] - 1) BY <1>3, <2>2 DEF Written, Position
  <2>5. q + Bank <= e BY <2>1, <2>2, <2>3
  <2>6. ASSUME NEW p \in Written(f) PROVE p < e
    <3>1. p \in (q + c)..(q + c + size[f] - 1) BY <2>4
    <3>2. PICK k \in Nat : k = size[f] /\ c + k <= Bank BY <1>3
    <3>3. c \in Nat /\ Bank \in Nat BY <1>3
    <3> QED BY <3>1, <3>2, <3>3, <2>5
  <2> QED BY <2>3, <2>6
<1> QED BY <1>2, <1>4, <1>5 DEF Counted, Packed, Writing

\* Len(capacity) never differs from NUM_BANKS, and no unit is written behind it.
THEOREM CountedAlways == Spec => []Counted
<1>1. Init => Counted BY DEF Init, Counted, Packed, Writing
<1>2. ASSUME IInv, Counted, [Next]_vars PROVE Counted'
  <2>1. CASE Stat \/ StatFails \/ NoBinary \/ NoHeader \/ FileFails
    BY <1>2, <2>1, CountedStill DEF Stat, StatFails, NoBinary, NoHeader, FileFails, Packed
  <2>2. CASE Close \/ Change \/ UNCHANGED vars
    <3>1. CASE Close BY <1>2, <3>1, CountedStill DEF Close, Packed
    <3>2. CASE Change BY <1>2, <3>2, CountedStill DEF Change, Packed
    <3>3. CASE UNCHANGED vars BY <1>2, <3>3, CountedStill DEF vars, Packed
    <3> QED BY <2>2, <3>1, <3>2, <3>3
  <2>3. CASE TableBuilt BY <2>3, CountedTable
  <2>4. CASE Pack BY <1>2, <2>4, CountedPack
  <2>5. CASE Outputs BY <1>2, <2>5, CountedOutputs
  <2>6. CASE AddFile BY <1>2, <2>6, CountedAdds
  <2> QED BY <1>2, <2>1, <2>2, <2>3, <2>4, <2>5, <2>6 DEF Next
<1> QED BY <1>1, <1>2, Invariant, PTL DEF Spec

\* A set of numbers below a bound has a greatest one.
LEMMA Greatest ==
    ASSUME NEW S \in SUBSET Nat, S # {}, NEW n \in Nat, \A p \in S : p < n
    PROVE  Max(S) \in S /\ \A p \in S : p <= Max(S)
<1> DEFINE T == {m \in Nat : \A p \in S : p <= m}
           R == {p \in Nat \X Nat : p[1] < p[2]}
<1>1. T \subseteq Nat /\ n \in T OBVIOUS
<1>2. IsWellFoundedOn(R, Nat) BY NatLessThanWellFounded DEF OpToRel
<1>3. PICK m \in T : \A y \in T : ~ (<<y, m>> \in R)
  <2> HIDE DEF R, T
  <2> QED BY <1>1, <1>2, WFMin
<1>4. m \in S
  <2> SUFFICES ASSUME m \notin S PROVE FALSE
    OBVIOUS
  <2>1. \A p \in S : p <= m - 1 BY <1>3
  <2>4. PICK p \in S : p <= m - 1 BY <2>1
  <2>2. m - 1 \in T BY <2>1, <2>4
  <2>3. <<m - 1, m>> \in R BY <2>2
  <2> QED BY <1>3, <2>2, <2>3
<1>5. \E x \in S : \A y \in S : x >= y BY <1>3, <1>4
<1> QED BY <1>5 DEF Max

LEMMA DivBank ==
    ASSUME NEW k \in Nat, NEW x \in Nat, k * Bank <= x, x < k * Bank + Bank
    PROVE  x \div Bank = k
<1> USE SizeAssumption
<1> DEFINE c == x \div Bank
           d == x % Bank
<1>1. c \in Int /\ d \in 0..(Bank - 1) /\ x = c * Bank + d OBVIOUS
<1>2. c \in Nat
  <2> SUFFICES ASSUME c < 0 PROVE FALSE
    BY <1>1
  <2> HIDE DEF c, d
  <2>1. PICK e \in Nat : c = -1 - e BY <1>1, -1 - c \in Nat, c = -1 - (-1 - c)
  <2>2. c * Bank = -Bank - e * Bank BY <2>1
  <2>3. e * Bank \in Nat BY SMT
  <2> QED BY <1>1, <2>2, <2>3
<1> HIDE DEF c, d
<1>3. k * Bank \in Nat /\ c * Bank \in Nat BY <1>2
<1>4. ASSUME NEW i \in Nat, NEW j \in Nat, i < j PROVE i * Bank + Bank <= j * Bank
  <2>1. i + 1 \in Nat /\ i + 1 > 0 /\ i + 1 <= j /\ (i + 1) - 1 = i BY <1>4
  <2> QED BY <2>1, BankEnds
<1>5. ~ (c < k) /\ ~ (k < c) BY <1>1, <1>2, <1>3, <1>4
<1>6. c = k BY <1>2, <1>5
<1> QED BY <1>6 DEF c

\* fs.c build_data_file, rom.c load_rom: NUM_BANKS is the number of banks that the
\* binary takes, for any capacity, files and changes of files.
THEOREM Agree == Spec => []BanksAgree
<1>1. ASSUME IInv, Counted PROVE BanksAgree
  <2> USE SizeAssumption
  <2> SUFFICES ASSUME header = "closed", NEW h \in Files, macro[h].size > 0
               PROVE  banks = (Max(DOMAIN out) \div Bank) + 1
    BY DEF BanksAgree
  <2>1. TypeOK /\ Progress /\ pc = "done" /\ pc \in Writing /\ pc \in Packed
    BY <1>1, Zenon DEF IInv, Progress, Writing, Packed
  <2>2. Len(macro) = Len(disk) /\ DOMAIN macro = 1..Len(disk) /\ DOMAIN bin = 1..Len(disk)
    BY <2>1, Macros, Shapes DEF Progress
  <2>3. /\ Len(capacity) \in Nat /\ Len(capacity) > 0 /\ Len(size) = Len(disk)
        /\ \A f \in 1..Len(disk) : bin[f] \in 1..Len(capacity) /\ size[f] \in 0..Bank
    BY <2>1, <2>2, Midway, Shapes
  <2> DEFINE n == Len(capacity)
  <2>4. /\ banks = n /\ \A p \in DOMAIN out : p < n * Bank
        /\ n > 1 => \E f \in DOMAIN bin : bin[f] = n /\ size[f] > 0
    BY <1>1, <2>1, Zenon DEF Counted
  <2>5. PICK f \in 1..Len(disk) : bin[f] = n /\ size[f] > 0
    <3>1. CASE n > 1 BY <2>2, <2>4, <3>1
    <3>2. CASE ~ (n > 1)
      <4>1. h \in 1..Len(disk) BY DEF Files
      <4>2. macro[h].size = size[h] BY <1>1, <2>1, <2>2, <4>1, Zenon DEF IInv, Described
      <4>3. bin[h] = n BY <2>3, <4>1, <3>2
      <4> QED BY <4>1, <4>2, <4>3
    <3> QED BY <3>1, <3>2
  <2>6. macro[f].bank = bin[f] - 1 /\ macro[f].offs \in Nat
    <3>1. macro[f].bank = bin[f] - 1
      BY <1>1, <2>1, <2>2, <2>5, Zenon DEF IInv, Described
    <3>2. macro[f] \in [bank : 0..(Len(disk) - 1), offs : 0..Bank, size : 0..Bank]
      BY <2>1, <2>2, <2>5, Macros
    <3> QED BY <3>1, <3>2
  <2>7. 0 \in 0..(size[f] - 1) BY <2>3, <2>5
  <2>8. Start(f) + 0 \in DOMAIN out
    BY <1>1, <2>1, <2>2, <2>5, <2>7, Zenon DEF IInv, Stored
  <2>9. PICK q \in Nat : q = (n - 1) * Bank /\ n * Bank \in Nat /\ q + Bank = n * Bank
    <3>1. PICK m \in Nat : n = m + 1 BY <2>3, n - 1 \in Nat, n = (n - 1) + 1
    <3>2. m * Bank \in Nat BY <3>1
    <3>3. n * Bank = m * Bank + Bank /\ n - 1 = m BY <3>1
    <3> QED BY <3>2, <3>3
  <2>10. Start(f) + 0 >= q
    <3>1. Start(f) = q + macro[f].offs BY <2>5, <2>6, <2>9 DEF Start
    <3> QED BY <3>1, <2>6, <2>9
  <2> HIDE DEF n
  <2>11. DOMAIN out \in SUBSET Nat /\ DOMAIN out # {} BY <2>1, <2>8 DEF TypeOK
  <2>12. Max(DOMAIN out) \in DOMAIN out /\ \A p \in DOMAIN out : p <= Max(DOMAIN out)
    BY <2>4, <2>9, <2>11, Greatest
  <2>13. PICK x \in Nat : x = Max(DOMAIN out) BY <2>11, <2>12
  <2>14. (n - 1) * Bank <= x /\ x < (n - 1) * Bank + Bank
    <3>1. x < n * Bank BY <2>4, <2>12, <2>13
    <3>2. Start(f) + 0 <= x /\ Start(f) + 0 \in Nat BY <2>8, <2>11, <2>12, <2>13
    <3> QED BY <2>9, <2>10, <3>1, <3>2
  <2>15. n \in Nat /\ n - 1 \in Nat BY <2>3 DEF n
  <2>16. x \div Bank = n - 1 BY <2>14, <2>15, DivBank
  <2> QED BY <2>4, <2>13, <2>15, <2>16
<1> QED BY <1>1, Invariant, CountedAlways, PTL
=============================================================================
