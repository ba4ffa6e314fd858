------------------------------ MODULE SpiFlash ------------------------------
(***************************************************************************)
(* spi_flash: one program that reads, writes or erases a part of a flash   *)
(* chip through its MTD device, run again and again on the same chip.      *)
(*                                                                         *)
(* Offsets and lengths are unsigned int, so their sums wrap at Word.  The  *)
(* chip is external, as the program uses it: erasing makes cells blank a   *)
(* block at a time, writing to a cell that is not blank spoils it, and an  *)
(* operation may fail after a part of it is done.  A cell is 0 when it is  *)
(* blank, k when it holds byte k of the file that is written, Junk else.   *)
(***************************************************************************)
EXTENDS Integers, Sequences

CONSTANTS Word,        \* unsigned int wraps here
          ChipSize,    \* mtd_info.size
          EraseSizes,  \* mtd_info.erasesize, for the chips that are looked at
          Step,        \* READ_STEP, WRITE_STEP and ERASE_STEP
          FileSize,    \* the file that is written
          Offsets, Lengths,   \* the -o and -l that are given
          MaxRuns      \* bound: runs of the program

ASSUME FlashAssumption ==
    /\ Word \in Nat /\ ChipSize \in Nat /\ FileSize \in Nat /\ MaxRuns \in Nat
    /\ Step \in Nat \ {0}
    /\ ChipSize < Word /\ FileSize < Word
    /\ EraseSizes \subseteq Nat \ {0}
    /\ \A e \in EraseSizes : ChipSize % e = 0
    /\ Offsets \subseteq 0..Word - 1 /\ Lengths \subseteq 0..Word - 1

VARIABLES chip, eraseSize,           \* the device
          saved,                     \* the file that a read has written
          op, offset, length,        \* the operation, operate_offset, operate_length
          withFile, saving,          \* -f was given; file_fd >= 0
          total,                     \* bytes_read_total, bytes_write_total, bytes_erase_total
          isEraseDone, foolproof,    \* the flag and the thread that prints dots
          pc, ret,
          runs, fragile,             \* runs so far; calls may fail, the program may be killed
          before                     \* ghost: the chip when this run began

request == <<op, offset, withFile>>
device  == <<chip, eraseSize>>
dots    == <<isEraseDone, foolproof>>
history == <<runs, fragile, before>>
vars    == <<device, saved, request, length, saving, total, dots, pc, ret, history>>

Cells == 0..ChipSize - 1

Junk == -1

Sum(a, b)  == (a + b) % Word
Diff(a, b) == (a - b) % Word

End(r) == pc' = "shell" /\ ret' = r

Init ==
    /\ chip \in {[a \in Cells |-> x] : x \in {Junk, 0}} /\ eraseSize \in EraseSizes
    /\ saved = <<>>
    /\ op = "read" /\ offset = 0 /\ length = 0 /\ withFile = FALSE /\ saving = FALSE
    /\ total = 0
    /\ isEraseDone = TRUE /\ foolproof = "none"
    /\ pc = "shell" /\ ret = -1
    /\ runs = 0 /\ fragile \in BOOLEAN
    /\ before = chip

-----------------------------------------------------------------------------
(* Faulty variants of the definitions below, caught by the properties at the
   end of this module. *)

(* the whole step is taken although less is left *)
NeedWholeStep == Step

(* nothing is refused because of its end *)
InChipAlways == TRUE

(* each step starts at the offset *)
AddressOfFirst(k) == offset + k

(* the thread is not waited for *)
JoinNothing(r) ==
    /\ End(r)
    /\ UNCHANGED <<device, saved, request, length, saving, total, dots, history>>

(* the total is not advanced *)
AdvanceNot == total' = total

-----------------------------------------------------------------------------
(* parse_args and the start of main: a write needs a file, an erase takes
   none.  What parse_args refuses, and a device that cannot be opened or
   asked for its size, end the run before it has done anything. *)
Start ==
    /\ pc = "shell" /\ runs < MaxRuns
    /\ op' \in {"read", "write", "erase"}
    /\ offset' \in Offsets /\ length' \in Lengths
    /\ withFile' \in (CASE op' = "read" -> BOOLEAN [] op' = "write" -> {TRUE} [] op' = "erase" -> {FALSE})
    /\ saving' = FALSE
    /\ total' = 0
    /\ isEraseDone' = TRUE /\ foolproof' = "none"
    /\ pc' = "check" /\ ret' = -1
    /\ runs' = runs + 1
    /\ before' = chip
    /\ UNCHANGED <<device, saved, fragile>>

(* operate_length: what -l says, or all there is *)
Length ==
    IF length # 0 THEN length
    ELSE IF op = "write" THEN FileSize ELSE Diff(ChipSize, offset)

InChip == Sum(offset, Length) <= ChipSize

Refused ==
    \/ op = "write" /\ length > FileSize
    \/ ~InChip
    \/ op = "erase" /\ (offset % eraseSize # 0 \/ Length % eraseSize # 0)

Refuse ==
    /\ pc = "check"
    /\ Refused
    /\ length' = Length
    /\ End(-1)
    /\ UNCHANGED <<device, saved, request, saving, total, dots, history>>

(* The file to read into is truncated, or is not opened and nobody cares;
   the one to write from is opened or the run ends.  lseek fails beyond the
   end of the chip. *)
Open ==
    /\ pc = "check" /\ op \in {"read", "write"}
    /\ ~Refused
    /\ length' = Length
    /\ saving' \in (IF op = "read" /\ withFile THEN (IF fragile THEN BOOLEAN ELSE {TRUE}) ELSE {FALSE})
    /\ saved' = IF saving' THEN <<>> ELSE saved
    /\ \/ offset <= ChipSize /\ pc' = "transfer" /\ UNCHANGED ret
       \/ (offset > ChipSize \/ fragile) /\ End(-1)
    /\ UNCHANGED <<device, request, total, dots, history>>

Ask ==
    /\ pc = "check" /\ op = "erase"
    /\ ~Refused
    /\ length' = Length
    /\ pc' = "confirm"
    /\ UNCHANGED <<device, saved, request, saving, total, dots, ret, history>>

-----------------------------------------------------------------------------
(* The loops of flash_read, flash_write and flash_erase_op *)
Need == IF length - total >= Step THEN Step ELSE length - total

Address(k) == offset + total + k

Advance == total' = total + Need

(* the bytes of the next step, as many of them as the chip has *)
Ahead(n) == {k \in 0..n - 1 : Address(k) < ChipSize}

Reads(n) == [k \in 1..n |-> chip[Address(k - 1)]]

(* NOR flash: a write can only clear bits. *)
Programmed(old, byte) == IF old \in {0, byte} THEN byte ELSE Junk

Program(n) ==
    chip' = [a \in Cells |->
                IF \E k \in 0..n - 1 : a = Address(k)
                THEN Programmed(chip[a], a - offset + 1) ELSE chip[a]]

InReach == Ahead(Need) = 0..Need - 1

Transferred ==
    /\ pc \in {"transfer", "erase"}
    /\ total >= length
    /\ End(0)
    /\ UNCHANGED <<device, saved, request, length, saving, total, dots, history>>

ReadStep ==
    /\ pc = "transfer" /\ op = "read" /\ total < length
    /\ InReach
    /\ saved' = IF saving THEN saved \o Reads(Need) ELSE saved
    /\ Advance
    /\ UNCHANGED <<device, request, length, saving, dots, pc, ret, history>>

(* The chip gives fewer bytes, or the file takes fewer. *)
ReadFails ==
    /\ pc = "transfer" /\ op = "read" /\ total < length
    /\ ~InReach \/ fragile
    /\ \E n \in 0..Need - 1 :
          saved' = IF saving /\ InReach THEN saved \o Reads(n) ELSE saved
    /\ End(-1)
    /\ UNCHANGED <<device, request, length, saving, total, dots, history>>

WriteStep ==
    /\ pc = "transfer" /\ op = "write" /\ total < length
    /\ InReach
    /\ Program(Need)
    /\ Advance
    /\ UNCHANGED <<eraseSize, saved, request, length, saving, dots, pc, ret, history>>

WriteFails ==
    /\ pc = "transfer" /\ op = "write" /\ total < length
    /\ \/ ~InReach /\ \E n \in 0..Need : Ahead(Need) = 0..n - 1 /\ Program(n)
       \/ fragile /\ \E n \in 0..Need - 1 : Program(n)
    /\ End(-1)
    /\ UNCHANGED <<eraseSize, saved, request, length, saving, total, dots, history>>

-----------------------------------------------------------------------------
(* "Erase offset=, len=? y/N" *)
Confirm ==
    /\ pc = "confirm"
    /\ \/ /\ pc' = IF offset = 0 /\ length = ChipSize THEN "erase_all" ELSE "erase"
          /\ UNCHANGED ret
       \/ End(-1)
    /\ UNCHANGED <<device, saved, request, length, saving, total, dots, history>>

(* MEMERASE: whole blocks of the chip, or nothing *)
Erasable(n) == Address(n) <= ChipSize /\ Address(0) % eraseSize = 0 /\ n % eraseSize = 0

Blank(n) ==
    chip' = [a \in Cells |-> IF \E k \in 0..n - 1 : a = Address(k) THEN 0 ELSE chip[a]]

EraseStep ==
    /\ pc = "erase" /\ total < length
    /\ Erasable(Need)
    /\ Blank(Need)
    /\ Advance
    /\ UNCHANGED <<eraseSize, saved, request, length, saving, dots, pc, ret, history>>

EraseFails ==
    /\ pc = "erase" /\ total < length
    /\ \/ ~Erasable(Need) /\ UNCHANGED chip
       \/ fragile /\ Erasable(Need) /\ \E n \in 0..Need - 1 : n % eraseSize = 0 /\ Blank(n)
    /\ End(-1)
    /\ UNCHANGED <<eraseSize, saved, request, length, saving, total, dots, history>>

(* ERASE_ALL: one call for the whole chip, while another thread prints dots.
   That thread may not start, which only is reported. *)
EraseAllStart ==
    /\ pc = "erase_all"
    /\ isEraseDone' = FALSE
    /\ foolproof' \in (IF fragile THEN {"running", "none"} ELSE {"running"})
    /\ pc' = "erase_ioctl"
    /\ UNCHANGED <<device, saved, request, length, saving, total, ret, history>>

EraseAllIoctl ==
    /\ pc = "erase_ioctl"
    /\ \/ Blank(ChipSize) /\ pc' = "joining"
       \/ /\ fragile /\ pc' = "joining_failed"
          /\ \E n \in 0..ChipSize - 1 : n % eraseSize = 0 /\ Blank(n)
    /\ isEraseDone' = TRUE
    /\ UNCHANGED <<eraseSize, saved, request, length, saving, total, foolproof, ret, history>>

(* wait_foolproof_thread, and what flash_erase returns *)
Join(r) ==
    /\ foolproof # "running"
    /\ End(r)
    /\ UNCHANGED <<device, saved, request, length, saving, total, dots, history>>

EraseAllEnd ==
    \/ pc = "joining" /\ Join(0)
    \/ pc = "joining_failed" /\ Join(-1)

(* foolproof_thread: looks at the flag every 100 ms *)
Foolproof ==
    /\ foolproof = "running"
    /\ isEraseDone
    /\ foolproof' = "ended"
    /\ UNCHANGED <<device, saved, request, length, saving, total, isEraseDone, pc, ret, history>>

(* The program is killed or the power fails, or it crashes because it joins
   a thread that was never created. *)
Kill ==
    /\ fragile /\ pc # "shell"
    /\ End(-1)
    /\ foolproof' = "none"
    /\ UNCHANGED <<device, saved, request, length, saving, total, isEraseDone, history>>

Run == Refuse \/ Open \/ Ask \/ Transferred \/ ReadStep \/ ReadFails \/ WriteStep \/ WriteFails
         \/ EraseStep \/ EraseFails \/ EraseAllStart \/ EraseAllIoctl \/ EraseAllEnd

Next == Start \/ Run \/ Confirm \/ Foolproof \/ Kill

(* The program runs, and so does its second thread.  Nobody has to start it,
   nor to answer its question. *)
Spec == Init /\ [][Next]_vars /\ WF_vars(Run) /\ WF_vars(Foolproof)
-----------------------------------------------------------------------------
(* Whatever fails, and whenever the program is killed: no cell outside of
   what was asked for is touched, a read touches none, and no write or erase
   goes further than one step beyond what it has counted. *)
RangeOnly ==
    \A a \in Cells :
        chip[a] # before[a] =>
            /\ op # "read"
            /\ a >= offset /\ a < offset + length
            /\ (op = "erase" /\ offset = 0 /\ length = ChipSize) \/ a < offset + total + Step

(* When the program says that it has succeeded, the operation was done to
   each byte of the range: a read has saved them in order, a write has put
   each byte of the file where it belongs and once, an erase left blanks. *)
Done ==
    pc = "shell" /\ ret = 0 =>
        /\ op = "read" /\ saving => saved = [k \in 1..length |-> chip[offset + k - 1]]
        /\ op = "write" => \A k \in 0..length - 1 :
                              chip[offset + k] = Programmed(before[offset + k], k + 1)
        /\ op = "erase" => \A k \in 0..length - 1 : chip[offset + k] = 0

(* A range that goes beyond the chip is refused before anything is written
   or erased.  The sum is an unsigned int: of the ranges that make it wrap,
   an erase blanks what they have of the chip, and fails then. *)
BeyondChipUntouched ==
    ChipSize < offset + length /\ offset + length < Word => chip = before

(* No thread prints dots when the program has ended or works on. *)
FoolproofJoined ==
    foolproof = "running" => pc \in {"erase_ioctl", "joining", "joining_failed"}

(* Whatever was asked for, the program comes to an end, once the question
   of an erase has been answered. *)
Returns == pc \notin {"shell", "confirm"} ~> pc \in {"shell", "confirm"}
=============================================================================
