-------------------------------- MODULE WscFs --------------------------------
(***************************************************************************)
(* wscromtool fs (bld/wscromtool/c/fs.c): files are packed into banks and  *)
(* written to one binary, the raw data of WscRom, with a C header that     *)
(* says in which bank, where and how long each of them is.  The program    *)
(* that is compiled against the header reaches a file as WscRom's          *)
(* DataBanksFound promises.  Sizes are taken in one pass over the files,   *)
(* contents in a later one, and other programs may change files all along. *)
(*                                                                         *)
(* Files are numbers, in the order of the command line; a unit of a file   *)
(* is the token <<file, position>>.                                        *)
(***************************************************************************)
EXTENDS Integers, Sequences, FiniteSetsExt

CONSTANTS
    Bank,       \* MAX_BIN_CAPACITY, and the largest file allowed (65536)
    MaxFiles,   \* bound: files on the command line
    MaxChange   \* bound: changes of files while the tool runs

ASSUME SizeAssumption == Bank \in Nat \ {0} /\ MaxFiles \in Nat \ {0} /\ MaxChange \in Nat

VARIABLES
    pc,         \* table, pack, build, done; failed, or headless (see NoHeader)
    keep,       \* keep_order
    disk,       \* the files' present sizes, or Gone
    changes,    \* how often disk has changed
    size,       \* files[].size, as far as the current pass has got
    bin,        \* files[].bin_id, likewise
    capacity,   \* bins[].capacity: room left when packing, units used when writing
    macro,      \* BANK_, OFFS_ and SIZE_ of the files written into the header
    banks,      \* NUM_BANKS
    header,     \* "old" before the run, then "open", and "closed" by its #endif
    out         \* the binary, a function on the positions written to

vars == <<pc, keep, disk, changes, size, bin, capacity, macro, banks, header, out>>

Gone == -1
Files == 1..Len(disk)
Sizes == {Gone} \cup 0..(Bank + 1)

-----------------------------------------------------------------------------
(* build_file_table.                                                       *)

Missing(f) == disk[f] = Gone
TooLarge(f) == disk[f] > Bank

Stat ==
    /\ pc = "table" /\ Len(size) < Len(disk)
    /\ LET f == Len(size) + 1 IN
       /\ ~Missing(f) /\ ~TooLarge(f)
       /\ size' = Append(size, disk[f])
    /\ UNCHANGED <<pc, keep, disk, changes, bin, capacity, macro, banks, header, out>>

StatFails ==
    /\ pc = "table" /\ Len(size) < Len(disk)
    /\ LET f == Len(size) + 1 IN Missing(f) \/ TooLarge(f)
    /\ pc' = "failed"
    /\ UNCHANGED <<keep, disk, changes, size, bin, capacity, macro, banks, header, out>>

TableBuilt ==
    /\ pc = "table" /\ Len(size) = Len(disk)
    /\ pc' = "pack"
    /\ capacity' = <<Bank>>
    /\ UNCHANGED <<keep, disk, changes, size, bin, macro, banks, header, out>>

-----------------------------------------------------------------------------
(* next_fit and repeat_next_fit, one file a step.                          *)

\* File f goes to bank b, a new one if b is none of those there are.
Put(f, b) ==
    /\ bin' = Append(bin, b)
    /\ capacity' = IF b <= Len(capacity)
                   THEN [capacity EXCEPT ![b] = @ - size[f]]
                   ELSE Append(capacity, Bank - size[f])

MoreRoom(f, b) == capacity[b] > size[f]                \* mutant: > for >=
Room(f, b) == capacity[b] >= size[f]
NextBank(f) == IF Room(f, Len(capacity)) THEN Len(capacity) ELSE Len(capacity) + 1

WithRoom(f) == {b \in DOMAIN capacity : Room(f, b)}
NewOnly(f) == NextBank(f)                              \* mutant: no look back
FirstBank(f) == IF WithRoom(f) # {} THEN Min(WithRoom(f)) ELSE Len(capacity) + 1

Pack ==
    /\ pc = "pack" /\ Len(bin) < Len(disk)
    /\ LET f == Len(bin) + 1 IN Put(f, IF keep THEN NextBank(f) ELSE FirstBank(f))
    /\ UNCHANGED <<pc, keep, disk, changes, size, macro, banks, header, out>>

-----------------------------------------------------------------------------
(* build_data_file.                                                        *)

\* Both outputs are truncated as they are opened, the binary first.
Outputs ==
    /\ pc = "pack" /\ Len(bin) = Len(disk)
    /\ pc' = "build"
    /\ capacity' = [b \in DOMAIN capacity |-> 0]
    /\ header' = "open" /\ macro' = <<>> /\ banks' = Len(capacity)
    /\ out' = <<>>
    /\ UNCHANGED <<keep, disk, changes, size, bin>>

NoBinary ==
    /\ pc = "pack" /\ Len(bin) = Len(disk)
    /\ pc' = "failed"
    /\ UNCHANGED <<keep, disk, changes, size, bin, capacity, macro, banks, header, out>>

\* The header cannot be opened: the binary is gone, the old header is not.
NoHeader ==
    /\ pc = "pack" /\ Len(bin) = Len(disk)
    /\ pc' = "headless"
    /\ out' = <<>>
    /\ UNCHANGED <<keep, disk, changes, size, bin, capacity, macro, banks, header>>

Describe(f) ==
    macro' = Append(macro, [bank |-> bin[f] - 1, offs |-> capacity[bin[f]], size |-> size[f]])

Short(f) == Missing(f) \/ disk[f] < size[f]

Position(f) == (bin[f] - 1) * Bank + capacity[bin[f]]
Written(f) == Position(f)..(Position(f) + size[f] - 1)

\* mutant: the length read is not compared with the size
AddWhatIsThere ==
    /\ pc = "build" /\ Len(macro) < Len(disk)
    /\ LET f == Len(macro) + 1
           read == {p \in Written(f) : p - Position(f) < disk[f]} IN
       /\ ~Missing(f)
       /\ Describe(f)
       /\ out' = [p \in DOMAIN out \cup read |->
                    IF p \in read THEN <<f, p - Position(f)>> ELSE out[p]]
       /\ capacity' = [capacity EXCEPT ![bin[f]] = @ + size[f]]
    /\ UNCHANGED <<pc, keep, disk, changes, size, bin, banks, header>>

AddFile ==
    /\ pc = "build" /\ Len(macro) < Len(disk)
    /\ LET f == Len(macro) + 1 IN
       /\ ~Short(f)
       /\ Describe(f)
       /\ out' = [p \in DOMAIN out \cup Written(f) |->
                    IF p \in Written(f) THEN <<f, p - Position(f)>> ELSE out[p]]
       /\ capacity' = [capacity EXCEPT ![bin[f]] = @ + size[f]]
    /\ UNCHANGED <<pc, keep, disk, changes, size, bin, banks, header>>

\* The file is gone or shorter than it was: both outputs stay as they are.
FileFails ==
    /\ pc = "build" /\ Len(macro) < Len(disk)
    /\ LET f == Len(macro) + 1 IN Short(f) /\ Describe(f)
    /\ pc' = "failed"
    /\ UNCHANGED <<keep, disk, changes, size, bin, capacity, banks, header, out>>

Close ==
    /\ pc = "build" /\ Len(macro) = Len(disk)
    /\ pc' = "done" /\ header' = "closed"
    /\ UNCHANGED <<keep, disk, changes, size, bin, capacity, macro, banks, out>>

-----------------------------------------------------------------------------
\* Another program writes or removes a file.
Change ==
    /\ pc \in {"table", "pack", "build"} /\ changes < MaxChange
    /\ \E f \in Files, s \in Sizes : s # disk[f] /\ disk' = [disk EXCEPT ![f] = s]
    /\ changes' = changes + 1
    /\ UNCHANGED <<pc, keep, size, bin, capacity, macro, banks, header, out>>

Init ==
    /\ pc = "table"
    /\ keep \in BOOLEAN
    /\ disk \in UNION {[1..n -> Sizes \ {Gone}] : n \in 1..MaxFiles}
    /\ changes = 0
    /\ size = <<>> /\ bin = <<>> /\ capacity = <<>>
    /\ macro = <<>> /\ banks = 0
    /\ header = "old" /\ out = <<>>

Next ==
    \/ Stat \/ StatFails \/ TableBuilt
    \/ Pack
    \/ Outputs \/ NoBinary \/ NoHeader
    \/ AddFile \/ FileFails \/ Close
    \/ Change

Spec == Init /\ [][Next]_vars

-----------------------------------------------------------------------------
TypeOK ==
    /\ pc \in {"table", "pack", "build", "done", "failed", "headless"}
    /\ keep \in BOOLEAN
    /\ disk \in Seq(Sizes) /\ changes \in 0..MaxChange
    /\ size \in Seq(0..Bank) /\ bin \in Seq(1..Len(disk)) /\ capacity \in Seq(0..Bank)
    /\ Len(capacity) <= Len(disk)      \* malloc( num_files * sizeof( bin_t ) )
    /\ macro \in Seq([bank : 0..(Len(disk) - 1), offs : 0..Bank, size : 0..Bank])
    /\ banks \in 0..Len(disk)
    /\ header \in {"old", "open", "closed"}
    /\ DOMAIN out \subseteq Nat

Units(f) == 0..(macro[f].size - 1)

\* fs.c build_data_file, libwsc.h GET_DATA_BANK: with a header that compiles, the
\* program finds every unit of every file in the bank and at the offset the header
\* names, without leaving the bank, whatever happened to the files meanwhile.
FilesFound ==
    header = "closed" =>
        /\ Len(macro) = Len(disk)
        /\ \A f \in Files : \A k \in Units(f) :
              LET p == macro[f].bank * Bank + macro[f].offs + k IN
              /\ macro[f].offs + k < Bank
              /\ p \in DOMAIN out /\ out[p] = <<f, k>>

\* fs.c build_data_file, rom.c load_rom: NUM_BANKS is the number of banks the ROM
\* tool reserves for the binary, which ends with its last file and is rounded up.
BanksAgree ==
    header = "closed" /\ (\E f \in Files : macro[f].size > 0) =>
        banks = (Max(DOMAIN out) \div Bank) + 1

Used(b) == Bank - capacity[b]

\* fs.c next_fit, repeat_next_fit: with --keep-order no bank and the one after it
\* would fit into one, and the files are in the order of the command line; without
\* it no two banks at all would fit into one.
PackedTight ==
    pc = "pack" =>
        /\ \A b, c \in DOMAIN capacity :
              b < c /\ (keep => c = b + 1) => Used(b) + Used(c) > Bank
        /\ keep => \A f, g \in DOMAIN bin : f < g => bin[f] <= bin[g]
=============================================================================
