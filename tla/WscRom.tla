------------------------------- MODULE WscRom --------------------------------
(***************************************************************************)
(* From a linked WonderSwan program to its main(): wscromtool's rom        *)
(* command lays program, initialised data and raw data banks out in a      *)
(* cartridge (bld/wscromtool/c/rom.c); on reset the bootstrap in the last  *)
(* bytes of the ROM selects a bank and jumps to wsccrt0                    *)
(* (bld/libwsc/startup/a/wsccrt0.asm), which brings RAM into the state the *)
(* program was linked for.  The two sides are written in different         *)
(* languages and agree only on the layout.                                 *)
(*                                                                         *)
(* Memory is counted in units; a cell holds a token that says what it is.  *)
(* The part of RAM below __begdata, the interrupt vectors, is WscIrq's.    *)
(***************************************************************************)
EXTENDS Integers, FiniteSets

CONSTANTS
    Bank,      \* units in a bank, which is a segment and all of RAM (65536)
    Meta,      \* units of rom_metadata_t (26)
    BegData,   \* __begdata (0x100)
    RomBanks,  \* banks of the ROMs there are: rom_size_table
    MaxCode,   \* bound: units of code
    MaxData,   \* bound: units of initialised data
    MaxAux,    \* bound: units of raw data
    Starts,    \* where programs are linked: 2 * Bank (wsc), 4 * Bank (wscl)
    AtReset    \* what the bank registers ROM0 and ROM1 may hold after a reset

ASSUME LayoutAssumption ==
    /\ Bank \in Nat /\ Meta \in Nat \ {0} /\ BegData \in Nat
    /\ Meta <= BegData /\ BegData < Bank
    /\ RomBanks \subseteq 1..256 /\ RomBanks # {}
    /\ MaxCode \in Nat \ {0} /\ MaxAux \in Nat
    /\ MaxData \in Nat /\ BegData + MaxData < Bank
    /\ Starts \subseteq Nat /\ AtReset \subseteq 0..255 /\ AtReset # {}

VARIABLES
    stage,  \* how far the program has got
    prog,   \* what the linker and the user hand to wscromtool
    rom,    \* the cartridge, a function on its units
    boot,   \* the bootstrap in rom_metadata_t: where to jump, and AX
    ram,    \* RAM from __begdata on
    rom0,   \* REG_BANK_ROM0, the bank seen at $2000:0000
    rom1    \* REG_BANK_ROM1, the bank seen at $3000:0000

vars == <<stage, prog, rom, boot, ram, rom0, rom1>>

-----------------------------------------------------------------------------
(* wscromtool rom.                                                         *)

\* 1 MB of address space: 16 segments.  code: units from __romstart to the
\* end of the linked file; data: from __begdata to __enddata; aux: the --data
\* file.
Top == 16 * Bank
Program == {p \in [start : Starts, code : 1..MaxCode, data : 0..MaxData,
                   aux : 0..MaxAux] : p.start + p.code <= Top}
IsLarge(p) == p.start >= 4 * Bank          \* offset >= LARGE_OFFSET

RoundUp(n) == ((n + Bank - 1) \div Bank) * Bank

\* The ROM a large program needs always fills $4000:0000 to $ffff:ffff.
Unpadded(p) == RoundUp(p.code)                          \* mutant: no padding
Padded(p) == IF IsLarge(p) /\ RoundUp(p.code) < Top - p.start
             THEN Top - p.start ELSE RoundUp(p.code)

\* Code, initial data and metadata do not fit together: the comparison is made
\* on unsigned numbers, so a negative room passes for a huge one.
Crowded(p) == LET room == Padded(p) - p.data - Meta
              IN  room >= 0 /\ p.code > room

\* romsta: what the program takes at the end of the ROM.
CodeSize(p) == IF Crowded(p) THEN Padded(p) + Bank ELSE Padded(p)

\* find_rom_size: the first size in the table that is no less than n.
RomsAbove(n) == {b \in RomBanks : n < b * Bank}         \* mutant: < for <=
RomsFor(n) == {b \in RomBanks : n <= b * Bank}
Least(S) == CHOOSE b \in S : \A c \in S : b <= c
Needed(p) == CodeSize(p) + RoundUp(p.aux)
RomSize(p) == Least(RomsFor(Needed(p))) * Bank

TextSeg(p) == (256 - CodeSize(p) \div Bank) % 256
NoPadSeg(p) == (256 - Needed(p) \div Bank) % 256        \* mutant: before rounding
DataSeg(p) == (256 - RomSize(p) \div Bank) % 256

\* load_rom and patch_rom_metadata write the cleared buffer in this order: raw
\* data, code, initial data, metadata; a later one covers an earlier.
Image(p) ==
    LET size == RomSize(p)
        codeAt == size - CodeSize(p)
        dataAt == size - p.data - Meta
    IN [i \in 0..(size - 1) |->
          IF i >= size - Meta THEN <<"meta", i - (size - Meta)>>
          ELSE IF i >= dataAt THEN <<"data", i - dataAt>>
          ELSE IF codeAt <= i /\ i < codeAt + p.code THEN <<"code", i - codeAt>>
          ELSE IF i < p.aux THEN <<"aux", i>> ELSE <<"zero", 0>>]

Refused(p) == \/ p.start % Bank # 0
              \/ Crowded(p) /\ IsLarge(p)
              \/ RomsFor(Needed(p)) = {}

RomTool ==
    /\ stage = "linked" /\ ~Refused(prog)
    /\ rom' = Image(prog)
    /\ boot' = [jump |-> IF IsLarge(prog) THEN 4 * Bank ELSE 2 * Bank,
                text |-> TextSeg(prog), data |-> DataSeg(prog)]
    /\ stage' = "rom"
    /\ UNCHANGED <<prog, ram, rom0, rom1>>

RomToolRefuses ==
    /\ stage = "linked" /\ Refused(prog)
    /\ stage' = "refused"
    /\ UNCHANGED <<prog, rom, boot, ram, rom0, rom1>>

-----------------------------------------------------------------------------
(* The console.                                                            *)

\* Bank b of the 256 that can be selected: a ROM answers for the last ones,
\* and again below them.
InRom(b, off) == rom[((b - 256) % (Cardinality(DOMAIN rom) \div Bank)) * Bank + off]

\* What the processor reads at linear address a in ROM, with r0 and r1 in the
\* bank registers; REG_BANK_ROM2 is $ff and makes segment w show bank $f0 + w.
Read(r0, r1, a) ==
    LET w == a \div Bank
    IN  InRom(IF w = 2 THEN r0 ELSE IF w = 3 THEN r1 ELSE 240 + w, a % Bank)

\* Power on, or the reset of a running program, whose RAM stays as it is.  The
\* processor starts in the last 16 bytes of the ROM, which jump to the bootstrap.
Reset ==
    /\ stage \in {"rom", "main"}
    /\ stage' = "reset"
    /\ rom0' \in AtReset /\ rom1' \in AtReset
    /\ UNCHANGED <<prog, rom, boot, ram>>

\* mov ax, data:text / out REG_BANK_ROM0, al / jmp far
Bootstrap ==
    /\ stage = "reset"
    /\ rom0' = boot.text
    /\ stage' = "cstart"
    /\ UNCHANGED <<prog, rom, boot, ram, rom1>>

-----------------------------------------------------------------------------
(* wsccrt0.  The bootstrap's AX waits in BX, that is in boot.              *)

RamCell == BegData..(Bank - 1)
EndData == BegData + prog.data

ClearRam ==
    /\ stage = "cstart"
    /\ ram' = [c \in RamCell |-> <<"zero", 0>>]
    /\ stage' = "cleared"
    /\ UNCHANGED <<prog, rom, boot, rom0, rom1>>

\* si counts from $f000:POS_METADATA down by the length, di up from __begdata.
PosMetadata == 15 * Bank + Bank - Meta
FromMetadata(k) == Read(rom0, rom1, PosMetadata + k)    \* mutant: si not lowered
InitialData(k) == Read(rom0, rom1, PosMetadata - prog.data + k)
CopyData ==
    /\ stage = "cleared"
    /\ ram' = [c \in RamCell |-> IF c < EndData THEN InitialData(c - BegData)
                                 ELSE ram[c]]
    /\ stage' = "copied"
    /\ UNCHANGED <<prog, rom, boot, rom0, rom1>>

\* di has stopped at __enddata, where __wsc_first_bank and __wsc_data_bank are;
\* after the interrupt controller (WscIrq) comes main.
StoreBanks ==
    /\ stage = "copied"
    /\ ram' = [ram EXCEPT ![EndData] = <<"banks", boot.text + 256 * boot.data>>]
    /\ stage' = "main"
    /\ UNCHANGED <<prog, rom, boot, rom0, rom1>>

-----------------------------------------------------------------------------
(* The program: it writes its variables and selects banks of raw data,     *)
(* never in the window it runs in.                                         *)

FirstBank == ram[EndData][2] % 256          \* __wsc_first_bank
DataBank == ram[EndData][2] \div 256        \* __wsc_data_bank
GetDataBank(n) == (n + DataBank) % 256      \* GET_DATA_BANK
AuxBanks == RoundUp(prog.aux) \div Bank

WriteVariables ==
    /\ stage = "main"
    /\ ram' = [c \in RamCell |-> IF c = EndData THEN ram[c] ELSE <<"own", 0>>]
    /\ UNCHANGED <<stage, prog, rom, boot, rom0, rom1>>

SelectBank ==
    /\ stage = "main"
    /\ \E n \in 0..(AuxBanks - 1) :
          \/ rom1' = GetDataBank(n) /\ UNCHANGED rom0
          \/ IsLarge(prog) /\ rom0' = GetDataBank(n) /\ UNCHANGED rom1
    /\ UNCHANGED <<stage, prog, rom, boot, ram>>

Init ==
    /\ stage = "linked"
    /\ prog \in Program
    /\ rom = <<>>
    /\ boot = [jump |-> 0, text |-> 0, data |-> 0]
    /\ ram = [c \in RamCell |-> <<"any", 0>>]
    /\ rom0 = 0 /\ rom1 = 0

Next ==
    \/ RomTool \/ RomToolRefuses
    \/ Reset \/ Bootstrap
    \/ ClearRam \/ CopyData \/ StoreBanks
    \/ WriteVariables \/ SelectBank

Spec == Init /\ [][Next]_vars

-----------------------------------------------------------------------------
Stages == {"linked", "refused", "rom", "reset", "cstart", "cleared", "copied", "main"}
Running == {"cstart", "cleared", "copied", "main"}
Cell == {"meta", "data", "code", "aux", "zero", "any", "own", "banks"} \X Nat

TypeOK ==
    /\ stage \in Stages
    /\ prog \in Program
    /\ DOMAIN rom \subseteq Nat /\ \A i \in DOMAIN rom : rom[i] \in Cell
    /\ boot \in [jump : {0, 2 * Bank, 4 * Bank}, text : 0..255, data : 0..255]
    /\ ram \in [RamCell -> Cell]
    /\ rom0 \in 0..255 /\ rom1 \in 0..255

Shows(r0, r1, a, token) == Read(r0, r1, a) = token

\* rom.c load_rom, wscrom.h bootstrap, specs.sp: the bootstrap jumps to the first
\* instruction, and from there on the code stands where it was linked, whatever
\* raw data banks the program selects: all of a wscl program, the first bank of
\* a wsc program.
CodeInPlace ==
    stage \in Running =>
        /\ boot.jump = prog.start
        /\ \A i \in 0..(prog.code - 1) :
              IsLarge(prog) \/ i < Bank => Shows(rom0, rom1, prog.start + i, <<"code", i>>)

\* README.md "leaving 917504 bytes for compiled code and data" for target wsc:
\* every instruction of any program stands where it was linked.
AllCodeInPlace ==
    stage \in Running =>
        \A i \in 0..(prog.code - 1) : Shows(rom0, rom1, prog.start + i, <<"code", i>>)

\* rom.c load_rom, wsccrt0.asm: at every entry of main, after a reset as after
\* power on, the initialised variables have their values, the others are zero,
\* and __wsc_first_bank is the bank main runs in.
MainStartsClean ==
    [][stage # "main" /\ stage' = "main" =>
          /\ \A c \in RamCell \ {EndData} :
                ram'[c] = IF c < EndData THEN <<"data", c - BegData>> ELSE <<"zero", 0>>
          /\ FirstBank' = rom0]_vars

\* libwsc.h GET_DATA_BANK: the raw data bank a program asks for by its number in
\* the --data file is the one it gets, in either window.
DataBanksFound ==
    stage = "main" =>
        \A i \in 0..(prog.aux - 1) :
            LET b == GetDataBank(i \div Bank) IN
            /\ Shows(b, rom1, 2 * Bank + (i % Bank), <<"aux", i>>)
            /\ Shows(rom0, b, 3 * Bank + (i % Bank), <<"aux", i>>)

\* rom.c load_rom: an aligned program is refused only when it does not fit the
\* address space with its data, or when no ROM can be divided into whole banks for
\* the program (all that a wscl program can address) and for its raw data.
RefusedOnlyIfTooBig ==
    stage = "refused" /\ prog.start % Bank = 0 =>
        LET size == prog.code + prog.data + Meta IN
        \/ IsLarge(prog) /\ prog.start + size > Top
        \/ \A b \in RomBanks : \A c \in 0..b :
              /\ size <= c * Bank
              /\ IsLarge(prog) => Top - prog.start <= c * Bank
              => prog.aux > (b - c) * Bank
=============================================================================
