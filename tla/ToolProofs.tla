---------------------------- MODULE ToolProofs ----------------------------
(***************************************************************************)
(* What the tools of the board promise.                                    *)
(*                                                                         *)
(* The flash tool, for chips, steps and files of any size and any numbers  *)
(* an unsigned int of any width holds: no cell outside of the range is     *)
(* touched, what lies beyond the chip is refused, and success means that   *)
(* each byte of the range was dealt with.  The invariant follows the       *)
(* operation: what a loop has done to the first `total' bytes of the range *)
(* (Progress), that it stays in the chip (Stages, Fits), and what no step  *)
(* ever touches (RangeOnly).  StepsLeft bounds the length of a run.        *)
(*                                                                         *)
(* The tools that wait for a time, for days of any length, all time-outs   *)
(* and any number of timers: ClockInv says where the clock is at every     *)
(* place, against the end of the last sleep and what it is measured from.  *)
(*                                                                         *)
(* The tools that set up a line, for any addresses and any list of rates:  *)
(* NetInv adds to SettingsInForce which settings are asked for.  UartInv   *)
(* says that at most one question is on its way or open (OneQuestion), and *)
(* where none is (Quiet), or which one (Asked).                            *)
(***************************************************************************)
EXTENDS SpiFlash, ClockTools, LineTools, TLAPS

ErasePCs == {"confirm", "erase", "erase_all", "erase_ioctl", "joining", "joining_failed"}
WholePCs == {"erase_all", "erase_ioctl", "joining", "joining_failed"}

Types ==
    /\ chip \in [Cells -> Int] /\ before \in [Cells -> Int] /\ eraseSize \in EraseSizes
    /\ saved \in Seq(Int) /\ saving \in BOOLEAN
    /\ op \in {"read", "write", "erase"} /\ offset \in Nat /\ length \in Nat /\ total \in Nat
    /\ pc \in {"shell", "check", "transfer"} \cup ErasePCs

Stages ==
    /\ pc # "shell" => ret = -1
    /\ pc \in {"check", "confirm", "erase_all"} => chip = before /\ total = 0
    /\ pc = "transfer" => op \in {"read", "write"} /\ offset + total <= ChipSize
    /\ pc \in ErasePCs => op = "erase"
    /\ pc \in WholePCs => offset = 0 /\ length = ChipSize /\ total = 0
    /\ pc # "check" => total <= length

Fits == pc \notin {"shell", "check"} \/ chip # before => Sum(offset, length) <= ChipSize

Progress ==
    /\ pc = "transfer" /\ op = "read" /\ saving =>
          Len(saved) = total /\ \A k \in 1..total : saved[k] = chip[offset + k - 1]
    /\ pc = "transfer" /\ op = "write" =>
          \A a \in Cells : chip[a] = IF offset <= a /\ a < offset + total
                                     THEN Programmed(before[a], a - offset + 1) ELSE before[a]
    /\ pc = "erase" => \A k \in 0..total - 1 : offset + k \in Cells /\ chip[offset + k] = 0
    /\ pc = "joining" => \A a \in Cells : chip[a] = 0

IInv == Types /\ Stages /\ Fits /\ RangeOnly /\ Progress /\ Done /\ FoolproofJoined

-----------------------------------------------------------------------------
LEMMA NoWrap == ASSUME NEW w \in Nat, NEW x \in Nat, x < w  PROVE x % w = x
OBVIOUS

LEMMA FurtherOn ==
    ASSUME NEW a \in Int, NEW o \in Nat, NEW t \in Nat, NEW u \in Nat, NEW s \in Nat,
           u >= t, a < o + t + s
    PROVE  a < o + u + s
OBVIOUS

LEMMA ConcatFacts ==
    ASSUME NEW s \in Seq(Int), NEW t \in Seq(Int)
    PROVE  /\ Len(s \o t) = Len(s) + Len(t)
           /\ \A k \in 1..Len(s) : (s \o t)[k] = s[k]
           /\ \A k \in Len(s) + 1..Len(s) + Len(t) : (s \o t)[k] = t[k - Len(s)]
OBVIOUS

LEMMA DiffIsNat == ASSUME NEW a \in Nat, NEW b \in Nat  PROVE Diff(a, b) \in Nat
<1>1. Word \in Nat /\ Word > 0
  BY FlashAssumption
<1> QED  BY <1>1 DEF Diff

LEMMA LengthIsNat == Types => Length \in Nat
BY FlashAssumption, DiffIsNat DEF Types, Length

LEMMA NeedFacts ==
    ASSUME Types, total <= length
    PROVE  /\ Need \in Nat /\ Need <= Step /\ total + Need <= length /\ total + Need \in Nat
           /\ total < length => Need > 0
BY FlashAssumption DEF Types, Need

LEMMA ReachFacts ==
    ASSUME Types, total < length, InReach
    PROVE  offset + total + Need <= ChipSize
<1>1. Need \in Nat /\ Need > 0
  BY NeedFacts DEF Types
<1>2. Need - 1 \in Ahead(Need)
  BY <1>1 DEF InReach
<1> QED  BY <1>1, <1>2, FlashAssumption DEF Ahead, Address, Types

LEMMA AddressRange ==
    ASSUME NEW a \in Int, NEW n \in Nat, offset \in Nat, total \in Nat
    PROVE  (\E k \in 0..n - 1 : a = Address(k)) <=> (offset + total <= a /\ a < offset + total + n)
<1>1. ASSUME NEW k \in 0..n - 1, a = Address(k)
      PROVE  offset + total <= a /\ a < offset + total + n
  BY <1>1 DEF Address
<1>2. ASSUME offset + total <= a, a < offset + total + n
      PROVE  \E k \in 0..n - 1 : a = Address(k)
  <2> DEFINE k == a - (offset + total)
  <2>1. k \in 0..n - 1 /\ a = offset + total + k
    BY <1>2
  <2> QED  BY <2>1 DEF Address
<1> QED  BY <1>1, <1>2

(* What writing n bytes, and what erasing n cells, does to the chip. *)
LEMMA ProgramAt ==
    ASSUME Types, NEW n \in Nat, Program(n)
    PROVE  /\ chip' \in [Cells -> Int]
           /\ \A a \in Cells :
                 chip'[a] = IF offset + total <= a /\ a < offset + total + n
                            THEN Programmed(chip[a], a - offset + 1) ELSE chip[a]
<1>1. \A a \in Cells : a \in Int /\ chip[a] \in Int
  BY FlashAssumption DEF Types, Cells
<1>2. \A a \in Cells : (\E k \in 0..n - 1 : a = Address(k)) <=> (offset + total <= a /\ a < offset + total + n)
  BY <1>1, AddressRange DEF Types
<1>3. \A a \in Cells : Programmed(chip[a], a - offset + 1) \in Int
  BY <1>1 DEF Programmed, Junk, Types
<1> QED  BY <1>1, <1>2, <1>3 DEF Program

LEMMA BlankAt ==
    ASSUME Types, NEW n \in Nat, Blank(n)
    PROVE  /\ chip' \in [Cells -> Int]
           /\ \A a \in Cells :
                 chip'[a] = IF offset + total <= a /\ a < offset + total + n THEN 0 ELSE chip[a]
<1>1. \A a \in Cells : a \in Int /\ chip[a] \in Int
  BY FlashAssumption DEF Types, Cells
<1>2. \A a \in Cells : (\E k \in 0..n - 1 : a = Address(k)) <=> (offset + total <= a /\ a < offset + total + n)
  BY <1>1, AddressRange DEF Types
<1> QED  BY <1>1, <1>2 DEF Blank

(* What one step changes lies in the range, and no further than a step
   beyond what is counted. *)
LEMMA StepInRange ==
    ASSUME IInv, op # "read", pc \notin {"shell", "check"}, total < length,
           NEW n \in 0..Need, Program(n) \/ Blank(n),
           UNCHANGED <<op, offset, length, before>>, total' = total \/ total' = total + Need
    PROVE  RangeOnly'
<1>1. /\ Types /\ RangeOnly /\ total <= length /\ n \in Nat /\ Step \in Nat
      /\ offset \in Nat /\ total \in Nat /\ length \in Nat
  BY NeedFacts, FlashAssumption DEF IInv, Types
<1>2. n <= Step /\ total + n <= length /\ Need \in Nat
  BY <1>1, NeedFacts DEF Types
<1>3. ASSUME NEW a \in Cells, chip'[a] # before[a]
      PROVE  /\ a >= offset /\ a < offset + length
             /\ (op = "erase" /\ offset = 0 /\ length = ChipSize) \/ a < offset + total' + Step
  <2>0. a \in Int
    BY FlashAssumption DEF Cells
  <2>1. chip'[a] # chip[a] => offset + total <= a /\ a < offset + total + n
    BY <1>1, ProgramAt, BlankAt
  <2>2. CASE chip'[a] # chip[a]
    BY <1>1, <1>2, <2>0, <2>1, <2>2
  <2>3. CASE chip'[a] = chip[a]
    <3>1. /\ a >= offset /\ a < offset + length
          /\ (op = "erase" /\ offset = 0 /\ length = ChipSize) \/ a < offset + total + Step
      BY <1>1, <1>3, <2>3 DEF RangeOnly
    <3>2. total' \in Nat /\ total' >= total
      BY <1>1, <1>2
    <3>3. a < offset + total + Step => a < offset + total' + Step
      BY <1>1, <2>0, <3>2, FurtherOn
    <3> QED  BY <3>1, <3>3
  <2> QED  BY <2>2, <2>3
<1> QED  BY <1>3 DEF RangeOnly

-----------------------------------------------------------------------------
LEMMA InitIInv == Init => IInv
<1> SUFFICES ASSUME Init  PROVE IInv
  OBVIOUS
<1> USE FlashAssumption
<1>1. chip \in [Cells -> Int] /\ before = chip
  BY DEF Init, Junk
<1>2. Types
  <2>1. /\ chip \in [Cells -> Int] /\ before \in [Cells -> Int] /\ eraseSize \in EraseSizes
        /\ saved \in Seq(Int) /\ offset \in Nat /\ length \in Nat /\ total \in Nat
    BY <1>1 DEF Init
  <2>2. saving \in BOOLEAN /\ op \in {"read", "write", "erase"}
        /\ pc \in {"shell", "check", "transfer"} \cup ErasePCs
    BY DEF Init
  <2> QED  BY <2>1, <2>2 DEF Types
<1> QED  BY <1>1, <1>2 DEF IInv, Init, Stages, Fits, RangeOnly, Progress, Done, FoolproofJoined, ErasePCs, WholePCs

LEMMA StartKeepsIInv == IInv /\ Start => IInv'
<1> SUFFICES ASSUME IInv, Start  PROVE IInv'
  OBVIOUS
<1> USE FlashAssumption
<1>1. /\ op' \in {"read", "write", "erase"} /\ offset' \in Offsets /\ length' \in Lengths
      /\ saving' = FALSE /\ total' = 0 /\ foolproof' = "none" /\ pc' = "check" /\ ret' = -1
      /\ before' = chip /\ chip' = chip /\ eraseSize' = eraseSize /\ saved' = saved
  BY DEF Start, device
<1>2. Types'
  <2>1. offset' \in Nat /\ length' \in Nat /\ total' \in Nat /\ saving' \in BOOLEAN
    <3>1. Offsets \subseteq Nat /\ Lengths \subseteq Nat
      OBVIOUS
    <3> QED  BY <1>1, <3>1
  <2> QED  BY <1>1, <2>1 DEF IInv, Types
<1> QED
  BY <1>1, <1>2 DEF IInv, Stages, Fits, RangeOnly, Progress, Done, FoolproofJoined, ErasePCs, WholePCs

(* The three ways out of "check" *)
LEMMA CheckKeepsIInv == IInv /\ (Refuse \/ Open \/ Ask) => IInv'
<1> SUFFICES ASSUME IInv, Refuse \/ Open \/ Ask  PROVE IInv'
  OBVIOUS
<1> USE FlashAssumption
<1>0. /\ Types /\ pc = "check" /\ chip = before /\ total = 0 /\ ret = -1 /\ foolproof # "running"
  BY DEF IInv, Stages, FoolproofJoined, Refuse, Open, Ask
<1>1. /\ length' = Length /\ UNCHANGED <<chip, eraseSize, op, offset, total, foolproof, before>>
  BY DEF Refuse, Open, Ask, device, request, dots, history
<1>2. /\ saved' \in Seq(Int) /\ saving' \in BOOLEAN /\ length' \in Nat
  <2>1. saved \in Seq(Int) /\ saving \in BOOLEAN /\ Length \in Nat
    BY <1>0, LengthIsNat DEF Types
  <2>2. CASE Open
    <3>1. saving' \in BOOLEAN
      BY <2>2 DEF Open
    <3>2. saved' = IF saving' THEN <<>> ELSE saved
      BY <2>2 DEF Open
    <3> QED  BY <1>1, <2>1, <3>1, <3>2
  <2>3. CASE Refuse \/ Ask
    <3>1. UNCHANGED <<saved, saving>>
      BY <2>3 DEF Refuse, Ask
    <3> QED  BY <1>1, <2>1, <3>1
  <2> QED  BY <2>2, <2>3
<1>3. /\ pc' \in {"shell", "transfer", "confirm"} /\ ret' = -1
      /\ pc' = "transfer" => op \in {"read", "write"} /\ offset <= ChipSize
      /\ pc' = "confirm" => op = "erase"
      /\ pc' # "shell" => InChip
  BY <1>0 DEF Refuse, Open, Ask, End, Refused
<1>4. Types'
  BY <1>0, <1>1, <1>2, <1>3 DEF Types, ErasePCs
<1>5. Stages'
  BY <1>0, <1>1, <1>2, <1>3 DEF Stages, Types, ErasePCs, WholePCs
<1>6. Fits'
  BY <1>0, <1>1, <1>3 DEF Fits, InChip
<1>7. RangeOnly' /\ Done' /\ FoolproofJoined'
  BY <1>0, <1>1, <1>3 DEF RangeOnly, Done, FoolproofJoined
<1>8. Progress'
  <2>1. \A a \in Cells : a \in Int
    BY DEF Cells
  <2>2. pc' = "transfer" /\ saving' => Len(saved') = 0
    BY <1>0 DEF Refuse, Open, Ask, End
  <2> QED  BY <1>0, <1>1, <1>3, <2>1, <2>2 DEF Progress, Types
<1> QED  BY <1>4, <1>5, <1>6, <1>7, <1>8 DEF IInv

(* Ends that leave chip and request as they are and report a failure *)
LEMMA FailureKeepsIInv ==
    ASSUME IInv, pc # "check", End(-1), saved' \in Seq(Int), foolproof' = "none" \/ foolproof' = foolproof,
           UNCHANGED <<chip, eraseSize, op, offset, length, saving, total, before>>,
           foolproof' # "running"
    PROVE  IInv'
<1>1. Types'
  BY DEF IInv, Types, End
<1> QED
  BY <1>1 DEF IInv, Stages, Fits, RangeOnly, Progress, Done, FoolproofJoined, End, ErasePCs, WholePCs

LEMMA ReadKeepsIInv == IInv /\ (ReadStep \/ ReadFails) => IInv'
<1> SUFFICES ASSUME IInv, ReadStep \/ ReadFails  PROVE IInv'
  OBVIOUS
<1> USE FlashAssumption
<1>0. /\ Types /\ pc = "transfer" /\ op = "read" /\ total < length /\ foolproof # "running"
      /\ saved \in Seq(Int) /\ chip \in [Cells -> Int] /\ offset \in Nat /\ total \in Nat /\ length \in Nat
  BY DEF IInv, Types, FoolproofJoined, ReadStep, ReadFails
<1>1. /\ Need \in Nat /\ Need > 0 /\ total + Need <= length /\ total + Need \in Nat
  BY <1>0, NeedFacts
<1>2. ASSUME NEW n \in 0..Need, InReach
      PROVE  Reads(n) \in Seq(Int) /\ Len(Reads(n)) = n /\ \A k \in 1..n : Reads(n)[k] = chip[offset + total + (k - 1)]
  <2>1. \A k \in 1..n : offset + total + (k - 1) \in Cells
    BY <1>0, <1>1, <1>2, ReachFacts DEF Cells
  <2>2. \A k \in 1..n : chip[Address(k - 1)] \in Int
    BY <1>0, <2>1 DEF Address
  <2>3. Reads(n) \in [1..n -> Int] /\ n \in Nat
    BY <1>1, <2>2 DEF Reads
  <2> QED  BY <2>3 DEF Reads, Address
<1>3. CASE ReadFails
  <2>1. saved' \in Seq(Int)
    <3>1. PICK n \in 0..Need - 1 : saved' = IF saving /\ InReach THEN saved \o Reads(n) ELSE saved
      BY <1>3 DEF ReadFails
    <3>2. n \in 0..Need
      BY <1>1, <3>1
    <3>3. InReach => saved \o Reads(n) \in Seq(Int)
      BY <1>0, <1>2, <3>2
    <3> QED  BY <1>0, <3>1, <3>3
  <2> QED  BY <1>0, <1>3, <2>1, FailureKeepsIInv DEF ReadFails, device, request, dots, history
<1>4. CASE ReadStep
  <2>1. /\ InReach /\ total' = total + Need
        /\ saved' = IF saving THEN saved \o Reads(Need) ELSE saved
        /\ UNCHANGED <<chip, eraseSize, op, offset, length, saving, foolproof, pc, ret, before>>
    BY <1>4 DEF ReadStep, Advance, device, request, dots, history
  <2>2. offset + total' <= ChipSize
    BY <1>0, <1>1, <2>1, ReachFacts
  <2>3. Reads(Need) \in Seq(Int) /\ Len(Reads(Need)) = Need
        /\ \A k \in 1..Need : Reads(Need)[k] = chip[offset + total + (k - 1)]
    BY <1>1, <1>2, <2>1, SMTT(30)
  <2>4. Types'
    BY <1>0, <1>1, <2>1, <2>3 DEF Types
  <2>5. Stages'
    BY <1>0, <1>1, <2>1, <2>2 DEF IInv, Stages, ErasePCs, WholePCs
  <2>6. Fits' /\ Done' /\ FoolproofJoined'
    BY <1>0, <2>1 DEF IInv, Fits, Done, FoolproofJoined
  <2>7. RangeOnly'
    BY <1>0, <2>1 DEF IInv, RangeOnly
  <2>8. Progress'
    <3> SUFFICES ASSUME saving
                 PROVE  Len(saved') = total' /\ \A k \in 1..total' : saved'[k] = chip[offset + k - 1]
      BY <1>0, <2>1 DEF Progress
    <3>1. Len(saved) = total /\ \A k \in 1..total : saved[k] = chip[offset + k - 1]
      BY <1>0 DEF IInv, Progress
    <3>2. /\ Len(saved \o Reads(Need)) = total + Need
          /\ \A k \in 1..total : (saved \o Reads(Need))[k] = saved[k]
          /\ \A k \in total + 1..total + Need : (saved \o Reads(Need))[k] = Reads(Need)[k - total]
      <4> DEFINE more == Reads(Need)
      <4>1. more \in Seq(Int) /\ Len(more) = Need /\ Len(saved) = total
        BY <2>3, <3>1
      <4> HIDE DEF more
      <4>2. /\ Len(saved \o more) = total + Need
            /\ \A k \in 1..total : (saved \o more)[k] = saved[k]
            /\ \A k \in total + 1..total + Need : (saved \o more)[k] = more[k - total]
        BY <1>0, <4>1, ConcatFacts
      <4> QED  BY <4>2 DEF more
    <3>3. ASSUME NEW k \in 1..total'  PROVE saved'[k] = chip[offset + k - 1]
      <4>1. CASE k \in 1..total
        BY <2>1, <3>1, <3>2, <4>1
      <4>2. CASE k \in total + 1..total + Need
        <5>1. k - total \in 1..Need /\ offset + total + ((k - total) - 1) = offset + k - 1
          BY <1>0, <1>1, <4>2
        <5>2. \A j \in 1..Need : Reads(Need)[j] = chip[offset + total + (j - 1)]
          BY <2>3
        <5>3. Reads(Need)[k - total] = chip[offset + total + ((k - total) - 1)]
          BY <5>1, <5>2
        <5>4. saved'[k] = Reads(Need)[k - total]
          BY <2>1, <3>2, <4>2
        <5> QED  BY <5>1, <5>3, <5>4
      <4>3. k \in 1..total \/ k \in total + 1..total + Need
        BY <1>0, <1>1, <2>1
      <4> QED  BY <4>1, <4>2, <4>3
    <3> QED  BY <2>1, <3>2, <3>3
  <2> QED  BY <2>4, <2>5, <2>6, <2>7, <2>8 DEF IInv
<1> QED  BY <1>3, <1>4

(* A step that changes the chip and fails *)
LEMMA SpoiltKeepsIInv ==
    ASSUME IInv, op # "read", pc \notin {"shell", "check"}, total < length,
           NEW n \in 0..Need, Program(n) \/ Blank(n), End(-1),
           UNCHANGED <<eraseSize, saved, op, offset, length, saving, total, foolproof, before>>,
           foolproof # "running"
    PROVE  IInv'
<1>1. RangeOnly'
  BY StepInRange
<1>2. Types /\ total <= length /\ total \in Nat /\ length \in Nat /\ n \in Nat
  BY NeedFacts DEF IInv, Types
<1>3. chip' \in [Cells -> Int]
  BY <1>2, ProgramAt, BlankAt
<1>4. Types'
  BY <1>2, <1>3 DEF Types, End
<1> QED
  BY <1>1, <1>2, <1>4 DEF IInv, Stages, Fits, Progress, Done, FoolproofJoined, End, ErasePCs, WholePCs

LEMMA WriteKeepsIInv == IInv /\ (WriteStep \/ WriteFails) => IInv'
<1> SUFFICES ASSUME IInv, WriteStep \/ WriteFails  PROVE IInv'
  OBVIOUS
<1> USE FlashAssumption
<1>0. /\ Types /\ pc = "transfer" /\ op = "write" /\ total < length /\ foolproof # "running"
      /\ offset \in Nat /\ total \in Nat /\ length \in Nat
  BY DEF IInv, Types, FoolproofJoined, WriteStep, WriteFails
<1>1. /\ Need \in Nat /\ Need > 0 /\ total + Need <= length /\ total + Need \in Nat
  BY <1>0, NeedFacts
<1>2. CASE WriteFails
  <2>1. PICK n \in 0..Need : Program(n)
    BY <1>1, <1>2 DEF WriteFails
  <2>2. End(-1) /\ UNCHANGED <<eraseSize, saved, op, offset, length, saving, total, foolproof, before>>
    BY <1>2 DEF WriteFails, request, dots, history
  <2> QED  BY <1>0, <2>1, <2>2, SpoiltKeepsIInv
<1>3. CASE WriteStep
  <2>1. /\ InReach /\ total' = total + Need /\ Program(Need)
        /\ UNCHANGED <<eraseSize, saved, op, offset, length, saving, foolproof, pc, ret, before>>
    BY <1>3 DEF WriteStep, Advance, request, dots, history
  <2>2. offset + total + Need <= ChipSize
    BY <1>0, <2>1, ReachFacts
  <2>3. /\ chip' \in [Cells -> Int]
        /\ \A a \in Cells : chip'[a] = IF offset + total <= a /\ a < offset + total + Need
                                       THEN Programmed(chip[a], a - offset + 1) ELSE chip[a]
    BY <1>0, <1>1, <2>1, ProgramAt
  <2>4. Types'
    BY <1>0, <1>1, <2>1, <2>3 DEF Types
  <2>5. Stages'
    BY <1>0, <1>1, <2>1, <2>2 DEF IInv, Stages, ErasePCs, WholePCs
  <2>6. Fits' /\ Done' /\ FoolproofJoined'
    BY <1>0, <2>1 DEF IInv, Fits, Done, FoolproofJoined
  <2>7. RangeOnly'
    <3>1. Need \in 0..Need
      BY <1>1
    <3> QED  BY <1>0, <2>1, <3>1, StepInRange
  <2>8. Progress'
    <3>1. ASSUME NEW a \in Cells
          PROVE  chip'[a] = IF offset <= a /\ a < offset + total'
                            THEN Programmed(before[a], a - offset + 1) ELSE before[a]
      <4>0. a \in Int
        BY DEF Cells
      <4>1. chip[a] = IF offset <= a /\ a < offset + total
                      THEN Programmed(before[a], a - offset + 1) ELSE before[a]
        BY <1>0 DEF IInv, Progress
      <4>2. CASE offset + total <= a /\ a < offset + total + Need
        <5>1. chip[a] = before[a]
          BY <1>0, <4>0, <4>1, <4>2
        <5> QED  BY <1>0, <1>1, <2>1, <2>3, <4>0, <4>2, <5>1
      <4>3. CASE ~(offset + total <= a /\ a < offset + total + Need)
        <5>1. chip'[a] = chip[a]
          BY <2>3, <4>3
        <5>2. (offset <= a /\ a < offset + total') <=> (offset <= a /\ a < offset + total)
          BY <1>0, <1>1, <2>1, <4>0, <4>3
        <5> QED  BY <4>1, <5>1, <5>2
      <4> QED  BY <4>2, <4>3
    <3> QED  BY <1>0, <2>1, <3>1 DEF Progress
  <2> QED  BY <2>4, <2>5, <2>6, <2>7, <2>8 DEF IInv
<1> QED  BY <1>2, <1>3

LEMMA TransferredKeepsIInv == IInv /\ Transferred => IInv'
<1> SUFFICES ASSUME IInv, Transferred  PROVE IInv'
  OBVIOUS
<1> USE FlashAssumption
<1>0. /\ Types /\ pc \in {"transfer", "erase"} /\ total = length /\ foolproof # "running"
      /\ offset \in Nat /\ length \in Nat
      /\ pc' = "shell" /\ ret' = 0
      /\ UNCHANGED <<chip, eraseSize, saved, op, offset, length, saving, total, foolproof, before>>
  BY DEF IInv, Types, Stages, FoolproofJoined, Transferred, End, device, request, dots, history
<1>1. Types' /\ Stages' /\ RangeOnly' /\ Progress' /\ FoolproofJoined'
  BY <1>0 DEF IInv, Types, Stages, RangeOnly, Progress, FoolproofJoined, ErasePCs, WholePCs
<1>2. Fits'
  BY <1>0 DEF IInv, Fits
<1>3. op = "read" /\ saving => saved = [k \in 1..length |-> chip[offset + k - 1]]
  <2> SUFFICES ASSUME op = "read", saving  PROVE saved = [k \in 1..length |-> chip[offset + k - 1]]
    OBVIOUS
  <2>1. pc = "transfer"
    BY <1>0 DEF IInv, Stages, ErasePCs
  <2>2. saved \in Seq(Int) /\ Len(saved) = length /\ \A k \in 1..length : saved[k] = chip[offset + k - 1]
    BY <1>0, <2>1 DEF IInv, Progress, Types
  <2> QED  BY <2>2
<1>4. op = "write" => \A k \in 0..length - 1 : chip[offset + k] = Programmed(before[offset + k], k + 1)
  <2> SUFFICES ASSUME op = "write", NEW k \in 0..length - 1
               PROVE  chip[offset + k] = Programmed(before[offset + k], k + 1)
    OBVIOUS
  <2>1. pc = "transfer"
    BY <1>0 DEF IInv, Stages, ErasePCs
  <2>2. offset + length <= ChipSize
    BY <1>0, <2>1 DEF IInv, Stages
  <2>3. /\ offset + k \in Cells /\ offset <= offset + k /\ offset + k < offset + total
        /\ (offset + k) - offset + 1 = k + 1
    BY <1>0, <2>2 DEF Cells
  <2> QED  BY <2>1, <2>3 DEF IInv, Progress
<1>5. op = "erase" => \A k \in 0..length - 1 : chip[offset + k] = 0
  <2>1. op = "erase" => pc = "erase"
    BY <1>0 DEF IInv, Stages
  <2> QED  BY <1>0, <2>1 DEF IInv, Progress
<1>6. Done'
  BY <1>0, <1>3, <1>4, <1>5 DEF Done
<1> QED  BY <1>1, <1>2, <1>6 DEF IInv

LEMMA EraseKeepsIInv == IInv /\ (EraseStep \/ EraseFails) => IInv'
<1> SUFFICES ASSUME IInv, EraseStep \/ EraseFails  PROVE IInv'
  OBVIOUS
<1> USE FlashAssumption
<1>0. /\ Types /\ pc = "erase" /\ op = "erase" /\ total < length /\ foolproof # "running"
      /\ offset \in Nat /\ total \in Nat /\ length \in Nat
  BY DEF IInv, Types, Stages, FoolproofJoined, EraseStep, EraseFails, ErasePCs
<1>1. /\ Need \in Nat /\ Need > 0 /\ total + Need <= length /\ total + Need \in Nat
  BY <1>0, NeedFacts
<1>2. CASE EraseFails
  <2>1. End(-1) /\ UNCHANGED <<eraseSize, saved, op, offset, length, saving, total, foolproof, before>>
    BY <1>2 DEF EraseFails, request, dots, history
  <2>2. CASE chip' = chip
    <3>1. saved' \in Seq(Int)
      BY <1>0, <2>1 DEF Types
    <3> QED  BY <1>0, <2>1, <2>2, <3>1, FailureKeepsIInv
  <2>3. CASE \E n \in 0..Need - 1 : Blank(n)
    <3>1. PICK n \in 0..Need : Blank(n)
      BY <1>1, <2>3
    <3> QED  BY <1>0, <2>1, <3>1, SpoiltKeepsIInv
  <2> QED  BY <1>2, <2>2, <2>3 DEF EraseFails
<1>3. CASE EraseStep
  <2>1. /\ Erasable(Need) /\ total' = total + Need /\ Blank(Need)
        /\ UNCHANGED <<eraseSize, saved, op, offset, length, saving, foolproof, pc, ret, before>>
    BY <1>3 DEF EraseStep, Advance, request, dots, history
  <2>2. offset + total + Need <= ChipSize
    BY <2>1 DEF Erasable, Address
  <2>3. /\ chip' \in [Cells -> Int]
        /\ \A a \in Cells : chip'[a] = IF offset + total <= a /\ a < offset + total + Need THEN 0 ELSE chip[a]
    BY <1>0, <1>1, <2>1, BlankAt
  <2>4. Types'
    BY <1>0, <1>1, <2>1, <2>3 DEF Types
  <2>5. Stages'
    BY <1>0, <1>1, <2>1 DEF IInv, Stages, ErasePCs, WholePCs
  <2>6. Fits' /\ Done' /\ FoolproofJoined'
    BY <1>0, <2>1 DEF IInv, Fits, Done, FoolproofJoined
  <2>7. RangeOnly'
    <3>1. Need \in 0..Need
      BY <1>1
    <3> QED  BY <1>0, <2>1, <3>1, StepInRange
  <2>8. Progress'
    <3>1. ASSUME NEW k \in 0..total' - 1
          PROVE  offset + k \in Cells /\ chip'[offset + k] = 0
      <4>1. CASE k \in 0..total - 1
        <5>1. offset + k \in Cells /\ chip[offset + k] = 0
          BY <1>0, <4>1 DEF IInv, Progress
        <5> QED  BY <2>3, <5>1
      <4>2. CASE k >= total
        <5>1. /\ offset + k \in Cells
              /\ offset + total <= offset + k /\ offset + k < offset + total + Need
          BY <1>0, <1>1, <2>1, <2>2, <4>2 DEF Cells
        <5> QED  BY <2>3, <5>1
      <4> QED  BY <1>0, <1>1, <2>1, <4>1, <4>2
    <3> QED  BY <1>0, <2>1, <3>1 DEF Progress
  <2> QED  BY <2>4, <2>5, <2>6, <2>7, <2>8 DEF IInv
<1> QED  BY <1>2, <1>3

LEMMA WholeEraseKeepsIInv == IInv /\ (Confirm \/ EraseAllStart \/ EraseAllIoctl \/ EraseAllEnd) => IInv'
<1> SUFFICES ASSUME IInv, Confirm \/ EraseAllStart \/ EraseAllIoctl \/ EraseAllEnd  PROVE IInv'
  OBVIOUS
<1> USE FlashAssumption DEF device, request, dots, history
<1>0. Types
  BY DEF IInv
<1>1. CASE Confirm
  <2>1. /\ pc = "confirm" /\ pc' \in {"erase_all", "erase", "shell"}
        /\ pc' = "erase_all" => offset = 0 /\ length = ChipSize
        /\ ret' = -1
        /\ UNCHANGED <<chip, eraseSize, saved, op, offset, length, saving, total, foolproof, before>>
    BY <1>1 DEF Confirm, End, IInv, Stages
  <2>2. total = 0 /\ chip = before /\ op = "erase" /\ foolproof # "running"
    BY <2>1 DEF IInv, Stages, ErasePCs, FoolproofJoined
  <2>3. Types' /\ Stages'
    BY <1>0, <2>1, <2>2 DEF IInv, Types, Stages, ErasePCs, WholePCs
  <2>4. Fits' /\ RangeOnly' /\ Done' /\ FoolproofJoined'
    BY <2>1, <2>2 DEF IInv, Fits, RangeOnly, Done, FoolproofJoined
  <2>5. Progress'
    BY <2>1, <2>2 DEF Progress
  <2> QED  BY <2>3, <2>4, <2>5 DEF IInv
<1>2. CASE EraseAllStart
  <2>1. /\ pc = "erase_all" /\ pc' = "erase_ioctl"
        /\ UNCHANGED <<chip, eraseSize, saved, op, offset, length, saving, total, ret, before>>
    BY <1>2 DEF EraseAllStart
  <2>2. Types' /\ Stages'
    BY <1>0, <2>1 DEF IInv, Types, Stages, ErasePCs, WholePCs
  <2>3. Fits' /\ RangeOnly' /\ Done' /\ FoolproofJoined' /\ Progress'
    BY <2>1 DEF IInv, Fits, RangeOnly, Done, FoolproofJoined, Progress
  <2> QED  BY <2>2, <2>3 DEF IInv
<1>3. CASE EraseAllIoctl
  <2>1. /\ pc = "erase_ioctl"
        /\ UNCHANGED <<eraseSize, saved, op, offset, length, saving, total, foolproof, ret, before>>
    BY <1>3 DEF EraseAllIoctl
  <2>2. PICK n \in 0..ChipSize : /\ Blank(n) /\ pc' \in {"joining", "joining_failed"}
                                 /\ pc' = "joining" => n = ChipSize
    BY <1>3 DEF EraseAllIoctl
  <2>3. op = "erase" /\ offset = 0 /\ length = ChipSize /\ total = 0
    BY <2>1 DEF IInv, Stages, ErasePCs, WholePCs
  <2>4. /\ chip' \in [Cells -> Int]
        /\ \A a \in Cells : chip'[a] = IF 0 <= a /\ a < n THEN 0 ELSE chip[a]
    BY <1>0, <2>2, <2>3, BlankAt
  <2>5. Types' /\ Stages'
    BY <1>0, <2>1, <2>2, <2>3, <2>4 DEF IInv, Types, Stages, ErasePCs, WholePCs
  <2>6. RangeOnly'
    BY <2>1, <2>3 DEF RangeOnly, Cells
  <2>7. Fits' /\ Done' /\ FoolproofJoined'
    BY <2>1, <2>2 DEF IInv, Fits, Done, FoolproofJoined
  <2>8. Progress'
    BY <2>1, <2>2, <2>4 DEF Progress, Cells
  <2> QED  BY <2>5, <2>6, <2>7, <2>8 DEF IInv
<1>4. CASE EraseAllEnd
  <2>1. /\ pc \in {"joining", "joining_failed"} /\ foolproof # "running" /\ pc' = "shell"
        /\ ret' = IF pc = "joining" THEN 0 ELSE -1
        /\ UNCHANGED <<chip, eraseSize, saved, op, offset, length, saving, total, foolproof, before>>
    BY <1>4 DEF EraseAllEnd, Join, End
  <2>2. op = "erase" /\ offset = 0 /\ length = ChipSize
    BY <2>1 DEF IInv, Stages, ErasePCs, WholePCs
  <2>3. Types' /\ Stages'
    BY <1>0, <2>1 DEF IInv, Types, Stages, ErasePCs, WholePCs
  <2>4. Fits' /\ RangeOnly' /\ FoolproofJoined' /\ Progress'
    BY <2>1 DEF IInv, Fits, RangeOnly, FoolproofJoined, Progress
  <2>5. Done'
    <3>1. pc = "joining" => \A k \in 0..length - 1 : chip[offset + k] = 0
      BY <2>2 DEF IInv, Progress, Cells
    <3> QED  BY <2>1, <2>2, <3>1 DEF Done
  <2> QED  BY <2>3, <2>4, <2>5 DEF IInv
<1> QED  BY <1>1, <1>2, <1>3, <1>4

LEMMA NextIInv == IInv /\ [Next]_vars => IInv'
<1> SUFFICES ASSUME IInv, [Next]_vars  PROVE IInv'
  OBVIOUS
<1>1. CASE Foolproof
  BY <1>1 DEF Foolproof, IInv, Types, Stages, Fits, RangeOnly, Progress, Done, FoolproofJoined,
       device, request, history
<1>2. CASE Kill
  <2>1. /\ End(-1) /\ pc # "shell" /\ foolproof' = "none"
        /\ UNCHANGED <<chip, eraseSize, saved, op, offset, length, saving, total, before>>
    BY <1>2 DEF Kill, device, request, history
  <2>2. saved' \in Seq(Int) /\ Types /\ total \in Nat /\ length \in Nat
    BY <2>1 DEF IInv, Types
  <2>3. CASE pc # "check"
    BY <2>1, <2>2, <2>3, FailureKeepsIInv
  <2>4. CASE pc = "check"
    <3>1. chip = before /\ total = 0
      BY <2>4 DEF IInv, Stages
    <3> QED  BY <2>1, <2>2, <3>1 DEF IInv, Types, Stages, Fits, RangeOnly, Progress, Done, FoolproofJoined,
               End, ErasePCs, WholePCs
  <2> QED  BY <2>3, <2>4
<1>3. CASE UNCHANGED vars
  BY <1>3 DEF vars, IInv, Types, Stages, Fits, RangeOnly, Progress, Done, FoolproofJoined,
       device, request, dots, history
<1> QED
  BY <1>1, <1>2, <1>3, StartKeepsIInv, CheckKeepsIInv, ReadKeepsIInv, WriteKeepsIInv,
     TransferredKeepsIInv, EraseKeepsIInv, WholeEraseKeepsIInv DEF Next, Run

-----------------------------------------------------------------------------
(* The inductive invariant holds throughout. *)
THEOREM FlashInvariant == Spec => []IInv
BY InitIInv, NextIInv, PTL DEF Spec

(* flash_read, flash_write and flash_erase_op touch nothing that they were
   not asked to, whenever they are stopped. *)
THEOREM FlashRangeOnly == Spec => []RangeOnly
BY FlashInvariant, PTL DEF IInv

(* What main returns 0 for has been done to every byte of the range. *)
THEOREM FlashDone == Spec => []Done
BY FlashInvariant, PTL DEF IInv

(* The thread that prints dots is joined before flash_erase returns. *)
THEOREM FlashFoolproofJoined == Spec => []FoolproofJoined
BY FlashInvariant, PTL DEF IInv

(* parse_args refuses what ends beyond the chip, as long as its sum does not
   wrap. *)
THEOREM FlashBeyondChipUntouched == Spec => []BeyondChipUntouched
<1>1. IInv => BeyondChipUntouched
  <2> SUFFICES ASSUME IInv, ChipSize < offset + length, offset + length < Word, chip # before
               PROVE  FALSE
    BY DEF BeyondChipUntouched
  <2>1. offset + length \in Nat /\ Word \in Nat /\ ChipSize \in Nat
    BY FlashAssumption DEF IInv, Types
  <2>2. (offset + length) % Word = offset + length
    BY <2>1, NoWrap
  <2> QED  BY <2>1, <2>2 DEF IInv, Fits, Sum
<1> QED  BY <1>1, FlashInvariant, PTL

-----------------------------------------------------------------------------
(* The steps that a run of the program can still take, at most: one for each
   byte, and those around the loop or the erasure of the whole chip. *)
Printing == IF foolproof = "running" THEN 1 ELSE 0

StepsLeft ==
    CASE pc = "shell"                         -> 0
      [] pc = "check"                         -> Length + 6
      [] pc = "confirm"                       -> length + 5
      [] pc = "erase_all"                     -> 4
      [] pc = "erase_ioctl"                   -> Printing + 2
      [] pc \in {"joining", "joining_failed"} -> Printing + 1
      [] pc \in {"transfer", "erase"}         -> length - total + 1

Places == {"shell", "check", "transfer"} \cup ErasePCs

LEMMA StepsLeftIsNat == IInv => StepsLeft \in Nat
<1> SUFFICES ASSUME IInv  PROVE StepsLeft \in Nat
  OBVIOUS
<1>1. /\ pc \in Places /\ length \in Nat /\ total \in Nat /\ Length \in Nat
      /\ pc # "check" => total <= length
  BY LengthIsNat DEF IInv, Types, Stages, Places
<1>2. Printing \in 0..1
  BY DEF Printing
<1> QED  BY <1>1, <1>2 DEF StepsLeft, Places, ErasePCs

LEMMA StepsLeftIsNatNext == IInv' => (StepsLeft \in Nat)'
BY StepsLeftIsNat, PTL

LEMMA ItEnds ==
    ASSUME Refuse \/ Transferred \/ ReadFails \/ WriteFails \/ EraseFails \/ EraseAllEnd \/ Kill
    PROVE  pc' = "shell"
<1>1. CASE Refuse
  BY <1>1 DEF Refuse, End
<1>2. CASE Transferred
  BY <1>2 DEF Transferred, End
<1>3. CASE ReadFails
  BY <1>3 DEF ReadFails, End
<1>4. CASE WriteFails
  BY <1>4 DEF WriteFails, End
<1>5. CASE EraseFails
  BY <1>5 DEF EraseFails, End
<1>6. CASE EraseAllEnd
  BY <1>6 DEF EraseAllEnd, Join, End
<1>7. CASE Kill
  BY <1>7 DEF Kill, End
<1> QED  BY <1>1, <1>2, <1>3, <1>4, <1>5, <1>6, <1>7

(* The operation ends, or the program does. *)
LEMMA EndLeaves ==
    ASSUME IInv, pc # "shell", pc' = "shell"
    PROVE  StepsLeft' < StepsLeft
<1>1. /\ pc \in Places /\ length \in Nat /\ total \in Nat /\ Length \in Nat
      /\ pc # "check" => total <= length
  BY LengthIsNat DEF IInv, Types, Stages, Places
<1>2. Printing \in 0..1
  BY DEF Printing
<1>3. StepsLeft' = 0
  BY DEF StepsLeft
<1>4. StepsLeft > 0
  BY <1>1, <1>2 DEF StepsLeft, Places, ErasePCs
<1> QED  BY <1>3, <1>4

(* A step of a loop deals with a byte at least. *)
LEMMA LoopLeaves ==
    ASSUME IInv, pc \in {"transfer", "erase"}, total < length, Advance, UNCHANGED <<pc, length>>
    PROVE  StepsLeft' < StepsLeft
<1>1. length \in Nat /\ total \in Nat /\ Need \in Nat /\ Need > 0
  BY FlashAssumption DEF IInv, Types, Need
<1>2. total' = total + Need
  BY DEF Advance
<1>3. StepsLeft = length - total + 1 /\ StepsLeft' = length - total' + 1
  BY DEF StepsLeft
<1> QED  BY <1>1, <1>2, <1>3

LEMMA CheckLeaves ==
    ASSUME IInv, Open \/ Ask \/ Confirm, pc' # "shell"
    PROVE  StepsLeft' < StepsLeft
<1>1. length \in Nat /\ total \in Nat /\ Length \in Nat
  BY LengthIsNat DEF IInv, Types
<1>2. pc \in {"check", "confirm"} /\ total = 0 /\ total' = total
  BY DEF IInv, Stages, Open, Ask, Confirm
<1>3. CASE Open
  <2>1. pc = "check" /\ pc' = "transfer" /\ length' = Length
    BY <1>3 DEF Open, End
  <2>2. StepsLeft = Length + 6 /\ StepsLeft' = Length - 0 + 1
    BY <1>2, <2>1 DEF StepsLeft
  <2> QED  BY <1>1, <2>2
<1>4. CASE Ask
  <2>1. pc = "check" /\ pc' = "confirm" /\ length' = Length
    BY <1>4 DEF Ask
  <2>2. StepsLeft = Length + 6 /\ StepsLeft' = Length + 5
    BY <2>1 DEF StepsLeft
  <2> QED  BY <1>1, <2>2
<1>5. CASE Confirm
  <2>1. pc = "confirm" /\ pc' \in {"erase_all", "erase"} /\ length' = length
    BY <1>5 DEF Confirm, End
  <2>2. StepsLeft = length + 5 /\ StepsLeft' = IF pc' = "erase" THEN length - 0 + 1 ELSE 4
    BY <1>2, <2>1 DEF StepsLeft
  <2> QED  BY <1>1, <2>2
<1> QED  BY <1>3, <1>4, <1>5

LEMMA WholeEraseLeaves ==
    ASSUME IInv, EraseAllStart \/ EraseAllIoctl \/ Foolproof
    PROVE  StepsLeft' < StepsLeft
<1>1. Printing' = 0 \/ Printing' = 1
  BY DEF Printing
<1>2. CASE EraseAllStart
  <2>1. pc = "erase_all" /\ pc' = "erase_ioctl"
    BY <1>2 DEF EraseAllStart
  <2>2. StepsLeft = 4 /\ StepsLeft' = Printing' + 2
    BY <2>1 DEF StepsLeft
  <2>3. Printing' + 2 < 4
    BY <1>1
  <2> QED  BY <2>2, <2>3
<1>3. CASE EraseAllIoctl
  <2>1. Printing' = Printing
    BY <1>3 DEF EraseAllIoctl, Printing
  <2>2. StepsLeft = Printing + 2 /\ StepsLeft' = Printing' + 1
    BY <1>3 DEF EraseAllIoctl, StepsLeft
  <2> QED  BY <1>1, <2>1, <2>2
<1>4. CASE Foolproof
  <2>1. Printing = 1 /\ Printing' = 0
    BY <1>4 DEF Foolproof, Printing
  <2>2. pc \in {"erase_ioctl", "joining", "joining_failed"} /\ pc' = pc
    BY <1>4 DEF Foolproof, IInv, FoolproofJoined
  <2>3. \/ StepsLeft = Printing + 2 /\ StepsLeft' = Printing' + 2
        \/ StepsLeft = Printing + 1 /\ StepsLeft' = Printing' + 1
    BY <2>2 DEF StepsLeft
  <2> QED  BY <2>1, <2>3
<1> QED  BY <1>2, <1>3, <1>4

(* Each step of a run, whoever takes it, brings the run nearer to its end:
   no loop of the tool goes round without a byte dealt with. *)
THEOREM FlashAdvances == Spec => [][pc # "shell" => StepsLeft' \in Nat /\ StepsLeft' < StepsLeft]_vars
<1>1. IInv /\ IInv' /\ [Next]_vars => [pc # "shell" => StepsLeft' \in Nat /\ StepsLeft' < StepsLeft]_vars
  <2> SUFFICES ASSUME IInv, IInv', Next, pc # "shell"
               PROVE  StepsLeft' \in Nat /\ StepsLeft' < StepsLeft
    OBVIOUS
  <2>1. StepsLeft' \in Nat
    BY StepsLeftIsNatNext
  <2>2. CASE Refuse \/ Transferred \/ ReadFails \/ WriteFails \/ EraseFails \/ EraseAllEnd \/ Kill
    <3>1. pc' = "shell"
      BY <2>2, ItEnds
    <3> QED  BY <2>1, <3>1, EndLeaves
  <2>3. CASE ReadStep \/ WriteStep \/ EraseStep
    <3>1. pc \in {"transfer", "erase"} /\ total < length /\ Advance /\ UNCHANGED <<pc, length>>
      <4>1. CASE ReadStep
        BY <4>1 DEF ReadStep
      <4>2. CASE WriteStep
        BY <4>2 DEF WriteStep
      <4>3. CASE EraseStep
        BY <4>3 DEF EraseStep
      <4> QED  BY <2>3, <4>1, <4>2, <4>3
    <3> QED  BY <2>1, <3>1, LoopLeaves
  <2>4. CASE Open \/ Ask \/ Confirm
    <3>1. CASE pc' = "shell"
      BY <2>1, <3>1, EndLeaves
    <3>2. CASE pc' # "shell"
      BY <2>1, <2>4, <3>2, CheckLeaves
    <3> QED  BY <2>1, <3>1, <3>2
  <2>5. CASE EraseAllStart \/ EraseAllIoctl \/ Foolproof
    BY <2>1, <2>5, WholeEraseLeaves
  <2>6. ~Start
    BY DEF Start
  <2> QED  BY <2>2, <2>3, <2>4, <2>5, <2>6 DEF Next, Run
<1> QED  BY <1>1, FlashInvariant, PTL DEF Spec

-----------------------------------------------------------------------------
(* The tools that wait for a time.  With `prompt', a step takes no time, and
   so the clock is where the tool's last sleep left it. *)
ClockTypes ==
    /\ tool \in {"alarm", "write", "watchdog", "timer"}
    /\ prompt \in BOOLEAN /\ mayFail \in BOOLEAN
    /\ clock \in Nat /\ wake \in Nat /\ given \in Nat
    /\ tool # "watchdog" => ~running

AlarmPlaces == {"now", "set", "on", "compare", "read", "rang"}

AlarmInv ==
    tool = "alarm" =>
        /\ given \in 0..Day - 1 /\ now \in 0..Day - 1
        /\ place \in AlarmPlaces \cup {"done", "failed", "refused"}
        /\ place \in {"on", "compare", "read", "rang"} => ring \in Nat /\ ring % Day = given
        /\ place = "rang" => ring <= clock

(* No call fails, and no step takes any time. *)
AlarmPrompt ==
    tool = "alarm" /\ prompt /\ ~mayFail =>
        /\ place \in {"now", "set", "on", "compare"} => clock < Day /\ wake = 0
        /\ place \in {"set", "on", "compare"} => now = clock
        /\ place \in {"on", "compare"} => ring = given + (IF given < clock THEN Day ELSE 0)
        /\ place = "read" => ring = given /\ wake = given + 1 /\ clock <= wake
        /\ place = "rang" => wake = given + 1 /\ clock = wake

TimerInv ==
    tool = "timer" =>
        /\ timeout \in Nat \ {0} /\ started \in Seq(Nat) /\ times \in Nat
        /\ place \in {"create", "left", "all", "delete", "done", "failed"}
        /\ place = "create" => /\ wake = 0
                              /\ \A i \in 1..Len(started) : started[i] <= clock /\ (prompt => started[i] = clock)
        /\ place \in {"left", "all"} =>
              LET slept == IF place = "left" THEN timeout \div 2 ELSE timeout
              IN /\ Len(started) = times /\ (prompt => clock <= wake)
                 /\ \A i \in 1..times : /\ started[i] + slept <= wake
                                        /\ prompt => started[i] + slept = wake

DogInv ==
    tool = "watchdog" =>
        /\ timeout \in Nat \ {0} /\ pause \in Nat /\ fed \in Nat /\ running \in BOOLEAN
        /\ place \in {"open", "set", "get", "loop", "feed", "close", "closed", "failed", "reset"}
        /\ place \in {"open", "failed"} => ~running
        /\ prompt /\ place \in {"open", "set", "get", "loop", "close"} => wake <= clock
        /\ prompt /\ place \in {"set", "get", "loop"} => fed = clock
        /\ prompt /\ place = "feed" => wake = fed + pause /\ clock <= wake
        /\ prompt /\ place = "close" => clock <= fed + pause

ClockInv == ClockTypes /\ AlarmInv /\ AlarmPrompt /\ TimerInv /\ DogInv

-----------------------------------------------------------------------------
(* Days and times of day. *)
LEMMA Midnight ==
    ASSUME NEW d \in Nat \ {0}, NEW n \in Nat
    PROVE  n % d \in 0..d - 1 /\ \E k \in Nat : n - (n % d) = d * k
<1>1. n % d \in 0..d - 1 /\ n \div d \in Nat
  OBVIOUS
<1>2. n - (n % d) = d * (n \div d)
  OBVIOUS
<1> QED  BY <1>1, <1>2, Zenon

LEMMA TimeOfDay ==
    ASSUME NEW d \in Nat \ {0}, NEW k \in Int, NEW g \in 0..d - 1
    PROVE  ((d * k) + g) % d = g
OBVIOUS

LEMMA DayLater ==
    ASSUME NEW d \in Nat, NEW k \in Nat
    PROVE  d * k \in Nat /\ d * (k + 1) = (d * k) + d
OBVIOUS

(* The next second after n that is g in its day. *)
Next24(d, n, g) == (n - (n % d)) + g + (IF g < n % d THEN d ELSE 0)

LEMMA NextOccurrence ==
    ASSUME NEW d \in Nat \ {0}, NEW n \in Nat, NEW g \in 0..d - 1
    PROVE  Next24(d, n, g) \in Nat /\ Next24(d, n, g) % d = g
<1> DEFINE r == Next24(d, n, g)
<1>0. \E k \in Nat : n - (n % d) = d * k
  BY Midnight, Zenon
<1> PICK k \in Nat : n - (n % d) = d * k
  BY <1>0, Zenon
<1>9. k \in Int /\ k + 1 \in Int
  OBVIOUS
<1> DEFINE today == d * k
<1>1. today \in Nat /\ d * (k + 1) = today + d
  BY DayLater
<1>2. (today + g) % d = g
  BY <1>9, TimeOfDay, Zenon
<1>3. ((d * (k + 1)) + g) % d = g
  BY <1>9, TimeOfDay, Zenon
<1>4. n - (n % d) = today
  OBVIOUS
<1> HIDE DEF today
<1>5. r = (today + g) + (IF g < n % d THEN d ELSE 0)
  BY <1>4 DEF Next24
<1> SUFFICES r \in Nat /\ r % d = g
  OBVIOUS
<1> HIDE DEF r
<1>6. CASE g < n % d
  <2>1. r = (today + g) + d
    BY <1>5, <1>6
  <2>2. r = (d * (k + 1)) + g /\ r \in Nat
    BY <1>1, <2>1
  <2> QED  BY <1>3, <2>2
<1>7. CASE ~(g < n % d)
  <2>1. r = today + g /\ r \in Nat
    BY <1>1, <1>5, <1>7
  <2> QED  BY <1>2, <2>1
<1> QED  BY <1>6, <1>7

LEMMA Halves ==
    ASSUME NEW t \in Nat
    PROVE  t \div 2 \in Nat /\ t = t \div 2 + (IF t % 2 = 0 THEN t \div 2 ELSE t \div 2 + 1)
OBVIOUS

LEMMA WholeTimes ==
    ASSUME NEW t \in Nat \ {0}, NEW x \in Nat, x >= t
    PROVE  x \div t >= 1 /\ (x = t => x \div t = 1)
<1>1. x \div t >= 1
  OBVIOUS
<1>2. t \div t = 1
  OBVIOUS
<1> QED  BY <1>1, <1>2

-----------------------------------------------------------------------------
LEMMA ClockStarts == mayFail \in BOOLEAN /\ ClockInit => ClockInv
<1> SUFFICES ASSUME mayFail \in BOOLEAN, ClockInit  PROVE ClockInv
  OBVIOUS
<1>0. Day \in Nat \ {0} /\ Timeouts \subseteq Nat \ {0} /\ Sleeps \in Nat /\ Times \in Nat /\ Horizon \in Nat
  BY ClockAssumption
<1>1. /\ wake = 0 /\ now = 0 /\ fed = 0 /\ running = FALSE /\ started = <<>> /\ prompt \in BOOLEAN
  BY DEF ClockInit, ClockRest
<1>2. /\ tool \in {"alarm", "write", "watchdog", "timer"} /\ clock \in Nat /\ given \in Nat
  BY <1>0 DEF ClockInit
<1>3. tool = "alarm" => place = "now" /\ clock \in 0..Day - 1 /\ given \in 0..Day - 1
  BY DEF ClockInit
<1>4. tool = "watchdog" => place = "open" /\ timeout \in Timeouts /\ pause \in 0..Sleeps
  BY DEF ClockInit
<1>5. tool = "timer" => place = "create" /\ timeout \in Timeouts /\ times \in 1..Times
  BY DEF ClockInit
<1>6. ClockTypes
  BY <1>1, <1>2 DEF ClockTypes
<1>7. AlarmInv /\ AlarmPrompt
  BY <1>0, <1>1, <1>3 DEF AlarmInv, AlarmPrompt, AlarmPlaces
<1>8. DogInv
  <2> SUFFICES ASSUME tool = "watchdog"  PROVE DogInv
    BY DEF DogInv
  <2>1. place = "open" /\ timeout \in Timeouts /\ pause \in 0..Sleeps
    BY <1>4
  <2>2. timeout \in Nat \ {0} /\ pause \in Nat
    BY <1>0, <2>1
  <2>3. wake <= clock /\ fed \in Nat
    BY <1>1, <1>2
  <2>4. running \in BOOLEAN /\ ~running
    BY <1>1, Zenon
  <2> QED  BY <2>1, <2>2, <2>3, <2>4 DEF DogInv
<1>9. TimerInv
  <2>1. Len(started) = 0 /\ started \in Seq(Nat)
    BY <1>1
  <2> SUFFICES ASSUME tool = "timer"  PROVE TimerInv
    BY DEF TimerInv
  <2>2. place = "create" /\ timeout \in Timeouts /\ times \in 1..Times
    BY <1>5
  <2>3. timeout \in Nat \ {0} /\ times \in Nat
    BY <1>0, <2>2
  <2> QED  BY <1>1, <1>2, <2>1, <2>2, <2>3 DEF TimerInv
<1> QED  BY <1>6, <1>7, <1>8, <1>9 DEF ClockInv

LEMMA AlarmSteps == ClockInv /\ Alarm => ClockInv'
<1> SUFFICES ASSUME ClockInv, Alarm  PROVE ClockInv'
  OBVIOUS
<1> USE DEF At, Go, Fails
<1>0. tool = "alarm" /\ Day \in Nat \ {0} /\ ClockTypes /\ clock \in Nat /\ given \in 0..Day - 1 /\ now \in 0..Day - 1
  BY ClockAssumption DEF ClockInv, ClockTypes, AlarmInv, Alarm, AlarmNow, AlarmSet, AlarmOn, AlarmCompare,
     AlarmRead, AlarmOff, AlarmFails
<1>1. clock % Day \in 0..Day - 1
  BY <1>0, Midnight
<1>2. clock < Day => clock % Day = clock
  BY <1>0, NoWrap
<1> DEFINE t == clock % Day
<1>3. SUFFICES UNCHANGED <<tool, mayFail, prompt, clock, given, running>> /\ wake' \in Nat /\ AlarmInv' /\ AlarmPrompt'
  BY <1>0 DEF ClockInv, ClockTypes, TimerInv, DogInv
<1>4. CASE AlarmNow
  <2>1. /\ place = "now" /\ place' = "set" /\ now' \in 0..Day - 1
        /\ ~mayFail => now' = t
        /\ UNCHANGED <<tool, mayFail, prompt, clock, given, running, wake, ring>>
    BY <1>1, <1>4 DEF AlarmNow, time, arguments, dog
  <2> HIDE DEF t
  <2>2. AlarmInv'
    BY <2>1, <1>0 DEF ClockInv, AlarmInv, AlarmPlaces
  <2>3. AlarmPrompt'
    <3>1. clock < Day => t = clock
      BY <1>2 DEF t
    <3> QED  BY <2>1, <1>0, <3>1 DEF ClockInv, AlarmPrompt
  <2> QED  BY <2>1, <2>2, <2>3, <1>0 DEF ClockTypes
<1>5. CASE AlarmSet
  <2>1. /\ place = "set" /\ place' = "on"
        /\ ring' = (clock - (clock % Day)) + given + (IF given < clock % Day THEN Day ELSE 0)
        /\ UNCHANGED <<tool, mayFail, prompt, clock, given, running, wake, now>>
    BY <1>5 DEF AlarmSet, time, arguments, dog
  <2>2. ring' \in Nat /\ ring' % Day = given
    <3>1. ring' = Next24(Day, clock, given)
      BY <2>1, Zenon DEF Next24
    <3> QED  BY <1>0, <3>1, NextOccurrence, Zenon
  <2>3. clock < Day => ring' = given + (IF given < clock THEN Day ELSE 0)
    <3>1. clock < Day => ring' = (clock - clock) + given + (IF given < clock THEN Day ELSE 0)
      BY <2>1, <1>2, Zenon
    <3> QED  BY <1>0, <3>1
  <2>4. AlarmInv'
    BY <2>1, <2>2, <1>0 DEF ClockInv, AlarmInv, AlarmPlaces
  <2>5. AlarmPrompt'
    BY <2>1, <2>3, <1>0 DEF ClockInv, AlarmPrompt
  <2> QED  BY <2>1, <2>4, <2>5, <1>0 DEF ClockTypes
<1>6. CASE AlarmOn
  <2>1. /\ place = "on" /\ place' = "compare"
        /\ UNCHANGED <<tool, mayFail, prompt, clock, given, running, wake, now, ring>>
    BY <1>6 DEF AlarmOn, time, arguments, dog
  <2> QED  BY <2>1, <1>0 DEF ClockInv, ClockTypes, AlarmInv, AlarmPlaces, AlarmPrompt
<1>7. CASE AlarmCompare
  <2>1. /\ place = "compare"
        /\ UNCHANGED <<tool, mayFail, prompt, clock, given, running, now, ring>>
    BY <1>7 DEF AlarmCompare, time, alarm, arguments, dog
  <2>2. CASE given < now
    <3>1. place' = "refused" /\ wake' = wake
      BY <1>0, <1>7, <2>2 DEF AlarmCompare, Compare
    <3> QED  BY <2>1, <3>1, <1>0 DEF ClockInv, ClockTypes, AlarmInv, AlarmPlaces, AlarmPrompt
  <2>3. CASE ~(given < now)
    <3>1. place' = "read" /\ wake' = clock + ((given - now) + 1)
      BY <1>0, <1>7, <2>3 DEF AlarmCompare, Compare, Sleep
    <3>2. wake' \in Nat /\ clock <= wake'
      BY <1>0, <2>3, <3>1
    <3>3. AlarmInv'
      BY <2>1, <3>1, <1>0 DEF ClockInv, AlarmInv, AlarmPlaces
    <3>4. AlarmPrompt'
      BY <2>1, <2>3, <3>1, <3>2, <1>0 DEF ClockInv, AlarmPrompt
    <3> QED  BY <2>1, <3>2, <3>3, <3>4
  <2> QED  BY <2>2, <2>3
<1>8. CASE AlarmRead
  <2>1. /\ place = "read" /\ place' = "rang" /\ clock >= wake /\ clock >= ring
        /\ UNCHANGED <<tool, mayFail, prompt, clock, given, running, wake, now, ring>>
    BY <1>8 DEF AlarmRead, Awake, clockVars, time, alarm, arguments, dog
  <2>2. AlarmInv'
    BY <2>1, <1>0 DEF ClockInv, AlarmInv, AlarmPlaces
  <2>3. AlarmPrompt'
    BY <2>1, <1>0 DEF ClockInv, ClockTypes, AlarmPrompt
  <2> QED  BY <2>1, <2>2, <2>3, <1>0 DEF ClockTypes
<1>9. CASE AlarmOff \/ AlarmFails
  <2>1. /\ place' \in {"done", "failed"}
        /\ UNCHANGED <<tool, mayFail, prompt, clock, given, running, wake, now>>
    BY <1>9 DEF AlarmOff, AlarmFails, clockVars, time, alarm, arguments, dog
  <2> QED  BY <2>1, <1>0 DEF ClockInv, ClockTypes, AlarmInv, AlarmPlaces, AlarmPrompt
<1> QED  BY <1>4, <1>5, <1>6, <1>7, <1>8, <1>9 DEF Alarm

LEMMA WriteSteps == ClockInv /\ (WriteRtc \/ WriteRtcFails) => ClockInv'
BY DEF WriteRtc, WriteRtcFails, At, Go, Fails, clockVars, time, alarm, arguments, dog, ClockInv, ClockTypes,
     AlarmInv, AlarmPrompt, TimerInv, DogInv

LEMMA DogSteps == ClockInv /\ Dog => ClockInv'
<1> SUFFICES ASSUME ClockInv, Dog  PROVE ClockInv'
  OBVIOUS
<1> USE DEF At, Go, Fails
<1>0. ClockTypes /\ clock \in Nat /\ wake \in Nat /\ Timeouts \subseteq Nat \ {0}
  BY ClockAssumption DEF ClockInv, ClockTypes
<1>1. tool = "watchdog"
  BY <1>0 DEF Dog, DogOpen, DogSet, DogGet, DogLoop, DogFeed, DogFails, DogOpenFails, DogClose, Reset, Due,
     ClockTypes
<1>2. DogInv /\ timeout \in Nat \ {0} /\ pause \in Nat /\ fed \in Nat
  BY <1>1 DEF ClockInv, DogInv
<1>3. UNCHANGED <<tool, mayFail, prompt, clock, given, pause>>
  BY DEF Dog, DogOpen, DogSet, DogGet, DogLoop, DogFeed, DogFails, DogOpenFails, DogClose, Reset,
     clockVars, time, alarm, arguments, dog
<1>4. SUFFICES wake' \in Nat /\ DogInv'
  BY <1>0, <1>1, <1>3 DEF ClockInv, ClockTypes, AlarmInv, AlarmPrompt, TimerInv
<1>5. CASE DogOpen
  <2>1. /\ place = "open" /\ place' = "set" /\ running' = TRUE /\ fed' = clock
        /\ UNCHANGED <<wake, timeout>>
    BY <1>5 DEF DogOpen, arguments
  <2> QED  BY <1>0, <1>1, <1>2, <1>3, <2>1 DEF DogInv
<1>6. CASE DogSet
  <2>1. /\ place = "set" /\ place' = "get" /\ fed' = clock /\ timeout' \in Timeouts
        /\ UNCHANGED <<wake, running>>
    BY <1>6 DEF DogSet
  <2>2. timeout' \in Nat \ {0}
    BY <1>0, <2>1
  <2> QED  BY <1>0, <1>1, <1>2, <1>3, <2>1, <2>2 DEF DogInv
<1>7. CASE DogGet
  <2>1. place = "get" /\ place' = "loop" /\ UNCHANGED <<wake, running, fed, timeout>>
    BY <1>7 DEF DogGet, clockVars, arguments, dog
  <2> QED  BY <1>0, <1>1, <1>2, <1>3, <2>1 DEF DogInv
<1>8. CASE DogLoop
  <2>1. /\ place = "loop" /\ UNCHANGED <<running, fed, timeout>>
        /\ \/ place' = "feed" /\ wake' = clock + pause
           \/ place' = "close" /\ wake' = wake
    BY <1>8 DEF DogLoop, Sleep, arguments, dog
  <2> QED  BY <1>0, <1>1, <1>2, <1>3, <2>1 DEF DogInv
<1>9. CASE DogFeed
  <2>1. place = "feed" /\ place' = "loop" /\ clock >= wake /\ fed' = clock /\ UNCHANGED <<wake, running, timeout>>
    BY <1>9 DEF DogFeed, Awake, arguments
  <2> QED  BY <1>0, <1>1, <1>2, <1>3, <2>1 DEF DogInv
<1>10. CASE DogFails
  <2>1. /\ place \in {"set", "get", "feed"} /\ place' = "close" /\ clock >= wake
        /\ UNCHANGED <<wake, running, fed, timeout>>
    BY <1>10 DEF DogFails, Awake, clockVars, arguments, dog
  <2> QED  BY <1>0, <1>1, <1>2, <1>3, <2>1 DEF DogInv
<1>11. CASE DogOpenFails
  <2>1. place = "open" /\ place' = "failed" /\ UNCHANGED <<wake, running, fed, timeout>>
    BY <1>11 DEF DogOpenFails, clockVars, arguments, dog
  <2> QED  BY <1>0, <1>1, <1>2, <1>3, <2>1 DEF DogInv
<1>12. CASE DogClose
  <2>1. place' = "closed" /\ fed' = clock /\ running' \in BOOLEAN /\ UNCHANGED <<wake, timeout>>
    BY <1>12 DEF DogClose, arguments
  <2> QED  BY <1>0, <1>1, <1>2, <1>3, <2>1 DEF DogInv
<1>13. CASE Reset
  <2>1. place' = "reset" /\ running' = FALSE /\ UNCHANGED <<wake, fed, timeout>>
    BY <1>13 DEF Reset, arguments
  <2> QED  BY <1>0, <1>1, <1>2, <1>3, <2>1 DEF DogInv
<1> QED
  BY <1>5, <1>6, <1>7, <1>8, <1>9, <1>10, <1>11, <1>12, <1>13 DEF Dog

LEMMA TimerSteps == ClockInv /\ Timer => ClockInv'
<1> SUFFICES ASSUME ClockInv, Timer  PROVE ClockInv'
  OBVIOUS
<1> USE DEF At, Go, Fails
<1>0. /\ tool = "timer" /\ ClockTypes /\ clock \in Nat /\ wake \in Nat
      /\ UNCHANGED <<tool, mayFail, prompt, clock, given, running, timeout, times>>
  BY DEF ClockInv, ClockTypes, Timer, TimerCreate, TimerHalf, TimerLeft, TimerAll, TimerDelete, TimerFails,
     clockVars, time, alarm, arguments, dog
<1>1. TimerInv /\ timeout \in Nat \ {0} /\ times \in Nat /\ started \in Seq(Nat)
  BY <1>0 DEF ClockInv, TimerInv
<1> DEFINE half == timeout \div 2
<1>2. half \in Nat /\ Rest \in Nat /\ timeout = half + Rest
  BY <1>1, Halves DEF Rest
<1> HIDE DEF half
<1>3. SUFFICES wake' \in Nat /\ TimerInv'
  BY <1>0 DEF ClockInv, ClockTypes, AlarmInv, AlarmPrompt, DogInv
<1>4. CASE TimerCreate
  <2>1. place = "create" /\ place' = "create" /\ wake' = wake /\ started' = Append(started, clock)
    BY <1>4 DEF TimerCreate
  <2>2. started' \in Seq(Nat) /\ Len(started') = Len(started) + 1
    BY <1>0, <1>1, <2>1
  <2>3. \A i \in 1..Len(started') : started'[i] = clock \/ (i \in 1..Len(started) /\ started'[i] = started[i])
    BY <1>0, <1>1, <2>1
  <2>4. \A i \in 1..Len(started') : started'[i] <= clock /\ (prompt => started'[i] = clock)
    BY <1>0, <1>1, <2>1, <2>3 DEF TimerInv
  <2> QED  BY <1>0, <1>1, <2>1, <2>2, <2>4 DEF TimerInv
<1>5. CASE TimerHalf
  <2>1. /\ place = "create" /\ place' = "left" /\ Len(started) = times /\ wake' = clock + half
        /\ started' = started
    BY <1>5 DEF TimerHalf, Sleep, half
  <2>2. \A i \in 1..times : started[i] \in Nat /\ started[i] <= clock /\ (prompt => started[i] = clock)
    BY <1>0, <1>1, <2>1 DEF TimerInv
  <2>3. wake' \in Nat /\ clock <= wake'
    BY <1>0, <1>2, <2>1
  <2>4. \A i \in 1..times : started[i] + half <= wake' /\ (prompt => started[i] + half = wake')
    BY <1>0, <1>2, <2>1, <2>2
  <2> QED  BY <1>0, <1>1, <2>1, <2>3, <2>4 DEF TimerInv, half
<1>6. CASE TimerLeft
  <2>1. /\ place = "left" /\ place' = "all" /\ clock >= wake /\ wake' = clock + Rest
        /\ started' = started
    BY <1>6 DEF TimerLeft, Sleep, Awake
  <2>2. /\ Len(started) = times /\ (prompt => clock <= wake)
        /\ \A i \in 1..times : started[i] + half <= wake /\ (prompt => started[i] + half = wake)
    BY <1>0, <1>1, <2>1 DEF TimerInv, half
  <2>3. \A i \in 1..times : started[i] \in Nat
    BY <1>1, <2>2
  <2>4. wake' \in Nat /\ clock <= wake'
    BY <1>0, <1>2, <2>1
  <2>5. \A i \in 1..times : started[i] + timeout <= wake' /\ (prompt => started[i] + timeout = wake')
    <3>1. ASSUME NEW a \in Nat, a + half <= wake  PROVE a + timeout <= wake'
      BY <1>0, <1>2, <2>1, <3>1
    <3>2. ASSUME NEW a \in Nat, a + half = wake, clock <= wake  PROVE a + timeout = wake'
      BY <1>0, <1>2, <2>1, <3>2
    <3> QED  BY <2>2, <2>3, <3>1, <3>2, Zenon
  <2> QED  BY <1>0, <1>1, <2>1, <2>2, <2>4, <2>5 DEF TimerInv
<1>7. CASE TimerAll
  <2>1. place' = "delete" /\ wake' = clock + 2 /\ started' = started
    BY <1>7 DEF TimerAll, Sleep
  <2> QED  BY <1>0, <1>1, <2>1 DEF TimerInv
<1>8. CASE TimerDelete
  <2>1. /\ place = "delete" /\ wake' = wake
        /\ \/ place' = "done" /\ started' = started
           \/ place' = place /\ started # <<>> /\ started' = Tail(started)
    BY <1>8 DEF TimerDelete
  <2>2. started' \in Seq(Nat)
    BY <1>1, <2>1
  <2> QED  BY <1>0, <1>1, <2>1, <2>2 DEF TimerInv
<1>9. CASE TimerFails
  <2>1. place' = "failed" /\ wake' = wake /\ started' = started
    BY <1>9 DEF TimerFails, clockVars
  <2> QED  BY <1>0, <1>1, <2>1 DEF TimerInv
<1> QED  BY <1>4, <1>5, <1>6, <1>7, <1>8, <1>9 DEF Timer

(* With `prompt', time goes on only up to the end of a sleep, or to the
   alarm. *)
LEMMA TickSteps == ClockInv /\ Tick => ClockInv'
<1> SUFFICES ASSUME ClockInv, Tick  PROVE ClockInv'
  OBVIOUS
<1>1. /\ clock' = clock + 1 /\ clock \in Nat /\ wake \in Nat /\ ClockTypes
      /\ UNCHANGED <<tool, place, mayFail, prompt, wake, given, now, ring, timeout, pause, times, fed, running, started>>
  BY DEF Tick, alarm, arguments, dog, ClockInv, ClockTypes
<1>2. prompt => clock < wake \/ (At("alarm", "read") /\ clock < ring) \/ At("watchdog", "closed")
  <2>1. prompt => ~(clock >= wake) \/ (tool = "alarm" /\ place = "read" /\ clock < ring) \/ (tool = "watchdog" /\ place = "closed")
    BY DEF Tick, Waiting, Awake, At
  <2> QED  BY <1>1, <2>1 DEF At
<1>3. ClockTypes'
  BY <1>1 DEF ClockTypes
<1>4. AlarmInv'
  BY <1>1 DEF ClockInv, AlarmInv, AlarmPlaces
<1>5. AlarmPrompt'
  BY <1>1, <1>2 DEF ClockInv, AlarmInv, AlarmPrompt, At
<1>6. TimerInv'
  <2>1. CASE tool = "timer"
    <3>1. prompt => clock + 1 <= wake
      BY <1>1, <1>2, <2>1 DEF At
    <3>2. TimerInv /\ started \in Seq(Nat)
      BY <2>1 DEF ClockInv, TimerInv
    <3>3. place = "create" => ~prompt /\ \A i \in 1..Len(started) : started[i] <= clock + 1
      BY <1>1, <2>1, <3>1, <3>2 DEF TimerInv
    <3> QED  BY <1>1, <2>1, <3>1, <3>2, <3>3 DEF TimerInv
  <2> QED  BY <2>1, <1>1 DEF TimerInv
<1>7. DogInv'
  BY <1>1, <1>2 DEF ClockInv, DogInv, At
<1> QED  BY <1>3, <1>4, <1>5, <1>6, <1>7 DEF ClockInv

LEMMA ClockSteps == ClockInv /\ [ClockNext]_<<tool, place, mayFail, clockVars>> => ClockInv'
<1>1. ClockInv /\ UNCHANGED <<tool, place, mayFail, clockVars>> => ClockInv'
  BY DEF clockVars, time, alarm, arguments, dog, ClockInv, ClockTypes, AlarmInv, AlarmPrompt, TimerInv, DogInv
<1> QED  BY <1>1, AlarmSteps, WriteSteps, DogSteps, TimerSteps, TickSteps DEF ClockNext

(* The inductive invariant of csky_rtc_example, csky_wdt_example and
   csky_timer_example. *)
THEOREM ClockInvariant == ClockSpec => []ClockInv
BY ClockStarts, ClockSteps, PTL DEF ClockSpec

(* alarm_rtc reports the alarm at the time of day that was asked for, and
   csky_timer_example says that all timers have expired when each has. *)
THEOREM ClockOnTime == ClockSpec => []OnTime
<1>1. ClockInv => AlarmOnTime
  <2> SUFFICES ASSUME ClockInv, tool = "alarm", place = "rang"
               PROVE  /\ \E t \in 0..clock : t % Day = given
                      /\ prompt /\ ~mayFail => clock - given \in 0..1
    BY DEF AlarmOnTime, At
  <2>1. clock \in Nat /\ given \in Nat
    BY DEF ClockInv, ClockTypes
  <2>2. ring \in Nat /\ ring <= clock /\ ring % Day = given
    BY DEF ClockInv, AlarmInv
  <2>3. ring \in 0..clock
    BY <2>1, <2>2
  <2>4. prompt /\ ~mayFail => clock = given + 1
    BY DEF ClockInv, AlarmPrompt
  <2> QED  BY <2>1, <2>2, <2>3, <2>4
<1>2. ClockInv => TimersOnTime
  <2> SUFFICES ASSUME ClockInv, tool = "timer", place = "all", clock >= wake, NEW i \in 1..times
               PROVE  Expired(i) >= 1 /\ (prompt => Expired(i) = 1)
    BY DEF TimersOnTime, At, Awake
  <2>1. /\ clock \in Nat /\ wake \in Nat /\ timeout \in Nat \ {0} /\ started[i] \in Nat
        /\ started[i] + timeout <= wake
        /\ prompt => started[i] + timeout = wake /\ clock <= wake
    BY DEF ClockInv, ClockTypes, TimerInv
  <2> DEFINE past == clock - started[i]
  <2>2. past \in Nat /\ past >= timeout /\ (prompt => past = timeout)
    BY <2>1
  <2>3. Expired(i) = past \div timeout
    BY DEF Expired
  <2> HIDE DEF past
  <2> QED  BY <2>1, <2>2, <2>3, WholeTimes
<1> QED  BY <1>1, <1>2, ClockInvariant, PTL DEF OnTime

(* csky_wdt_example feeds the watchdog in time until it closes it. *)
THEOREM ClockFedInTime == ClockSpec => []FedInTime
<1>1. ClockInv => FedInTime
  <2> SUFFICES ASSUME ClockInv, tool = "watchdog", place \notin {"closed", "reset"}, prompt, pause < timeout, running
               PROVE  clock < fed + timeout
    BY DEF FedInTime, Due, ClockInv, ClockTypes, DogInv
  <2> QED  BY DEF ClockInv, ClockTypes, DogInv
<1> QED  BY <1>1, ClockInvariant, PTL

-----------------------------------------------------------------------------
(* The tools that set up a line. *)
NetInv ==
    tool = "netsetting" =>
        /\ asked \in Seq(Addresses)
        /\ iface \in [ip : Addresses \cup {NULL}, mask : Addresses \cup {NULL}, gateway : Addresses \cup {NULL}]
        /\ place \in {"show", "ip", "mask", "gateway", "done", "refused", "failed"}
        /\ place = "show" => asked = <<>>
        /\ place = "ip" => Len(asked) >= 1
        /\ place = "mask" => Len(asked) >= 2
        /\ place = "gateway" => Len(asked) = 3
        /\ Len(asked) <= 3
        /\ SettingsInForce

QuietPlaces == {"ask", "size7", "size8", "final", "restore"}

LineTypes ==
    /\ turn \in 1..Len(Rates) /\ rate \in Nat /\ defRate \in Nat /\ peerRate \in Nat
    /\ out \in Seq(Nat \cup {NULL}) /\ in \in Seq({"Y", "?"}) /\ question \in Nat \cup {NULL}
    /\ place \in QuietPlaces \cup {"configure", "change", "answer", "begin", "done", "failed"}

(* A question is the last of what is on its way, and while it has not been
   answered nothing is. *)
OneQuestion ==
    /\ out # <<>> => rate = peerRate
    /\ question # NULL => out = <<>>
    /\ \A i \in 1..Len(out) : out[i] # NULL => i = Len(out)

(* No question is open.  At first nothing is on its way either, and the tool
   is going to take the terminal's rate. *)
Quiet ==
    /\ place \in QuietPlaces =>
          /\ question = NULL /\ in = <<>> /\ rate = peerRate
          /\ \A i \in 1..Len(out) : out[i] = NULL
    /\ place = "configure" =>
          question = NULL /\ in = <<>> /\ out = <<>> /\ peerRate = FirstRate

(* One question is on its way, or asked, or answered with one letter. *)
Asked ==
    place \in {"change", "answer", "begin"} =>
        LET r == IF place = "begin" THEN rate ELSE Rates[turn]
        IN /\ \A i \in 1..Len(out) : out[i] \in {NULL, r}
           /\ question \in {NULL, r}
           /\ question # NULL \/ out # <<>> => in = <<>>
           /\ in # <<>> => peerRate = r /\ Len(in) = 1
           /\ place = "answer" => out = <<>> /\ rate = r
           /\ place = "begin" => rate = peerRate

UartInv ==
    tool = "uart" /\ patient =>
        /\ ~garbled
        /\ LineTypes /\ OneQuestion /\ Quiet /\ Asked
        /\ place = "done" => out = <<>> /\ question = NULL

LineInv ==
    /\ tool \in {"netsetting", "uart"}
    /\ tool = "netsetting" => ~garbled
    /\ NetInv /\ UartInv

LEMMA RateTried == \A k \in 1..Len(Rates) : Rates[k] \in Nat /\ Rates[k] # NULL
BY LineAssumption

LEMMA LineStarts == mayFail \in BOOLEAN /\ LineInit => LineInv
<1> SUFFICES ASSUME LineInit  PROVE LineInv
  OBVIOUS
<1>1. /\ peerRate = FirstRate /\ out = <<>> /\ in = <<>> /\ turn = 1
      /\ question = NULL /\ garbled = FALSE
      /\ rate \in {FirstRate} \cup {Rates[k] : k \in DOMAIN Rates} /\ defRate = rate
  BY DEF LineInit, LineRest
<1>2. FirstRate \in Nat /\ Rates \in Seq(Nat) /\ Len(Rates) \in Nat \ {0}
  BY LineAssumption
<1>3. CASE tool = "netsetting"
  <2>1. /\ asked \in UNION {[1..k -> Addresses] : k \in 0..3}
        /\ place = (IF asked = <<>> THEN "show" ELSE "ip")
    BY <1>3 DEF LineInit
  <2>2. PICK k \in 0..3 : asked \in [1..k -> Addresses]
    BY <2>1
  <2>3. asked \in Seq(Addresses) /\ Len(asked) = k /\ (asked # <<>> => k >= 1)
    BY <2>2
  <2>4. SettingsInForce
    BY <2>1 DEF SettingsInForce, Reported
  <2>5. iface \in [ip : Addresses \cup {NULL}, mask : Addresses \cup {NULL}, gateway : Addresses \cup {NULL}]
    BY DEF LineInit, LineRest
  <2> QED  BY <1>1, <1>3, <2>1, <2>3, <2>4, <2>5 DEF LineInv, NetInv, UartInv
<1>4. CASE tool = "uart"
  <2>1. place = "configure"
    BY <1>4 DEF LineInit
  <2>2. LineTypes
    <3>1. rate \in Nat
      BY <1>1, <1>2, RateTried
    <3> QED  BY <1>1, <1>2, <2>1, <3>1 DEF LineTypes, QuietPlaces
  <2>3. Len(out) = 0
    BY <1>1
  <2>4. OneQuestion /\ Quiet /\ Asked
    BY <1>1, <2>1, <2>3 DEF OneQuestion, Quiet, Asked, QuietPlaces
  <2> QED  BY <1>1, <1>4, <2>1, <2>2, <2>4 DEF LineInv, NetInv, UartInv
<1> QED  BY <1>3, <1>4 DEF LineInit

(* An address drops the netmask and the route, a netmask the route: so they
   are set in this order. *)
LEMMA NetSteps == LineInv /\ Net => LineInv'
<1> SUFFICES ASSUME LineInv, Net  PROVE LineInv'
  OBVIOUS
<1> USE DEF At, Go, Fails
<1>0. tool = "netsetting" /\ UNCHANGED <<tool, asked, garbled>>
  BY DEF Net, NetShow, NetSetIp, NetSetMask, NetSetGateway, NetRefuse, NetFails, lineVars, net
<1>1. /\ tool = "netsetting" /\ tool' = tool /\ asked' = asked /\ NetInv /\ asked \in Seq(Addresses)
      /\ Len(asked) \in 0..3
  <2>1. NetInv
    BY Zenon DEF LineInv
  <2>2. asked \in Seq(Addresses) /\ Len(asked) <= 3
    BY <1>0, <2>1, Zenon DEF NetInv
  <2>3. Len(asked) \in Nat
    BY <2>2
  <2> DEFINE n == Len(asked)
  <2> HIDE DEF n
  <2>4. n \in 0..3
    <3>1. n \in Nat /\ n <= 3
      BY <2>2, <2>3, Zenon DEF n
    <3> QED  BY <3>1
  <2> QED  BY <1>0, <2>1, <2>2, <2>4, Zenon DEF n
<1> DEFINE n == Len(asked)
<1>8. n \in 0..3
  BY <1>1
<1> HIDE DEF n
<1>9. ~garbled /\ garbled' = garbled
  BY <1>0, Zenon DEF LineInv
<1>10. After(1) = (IF n > 1 THEN "mask" ELSE "done") /\ After(2) = (IF n > 2 THEN "gateway" ELSE "done")
  <2>1. <<"ip", "mask", "gateway">>[2] = "mask" /\ <<"ip", "mask", "gateway">>[3] = "gateway"
    OBVIOUS
  <2>2. 1 + 1 = 2 /\ 2 + 1 = 3
    OBVIOUS
  <2>3. (1 < n <=> n > 1) /\ (2 < n <=> n > 2)
    BY <1>8
  <2> QED  BY <2>1, <2>2, <2>3, Zenon DEF After, n
<1>2. SUFFICES NetInv'
  BY <1>1, <1>9 DEF LineInv, UartInv
<1> DEFINE settings == <<iface.ip, iface.mask, iface.gateway>>
<1>3. CASE NetShow
  <2>1. place = "show" /\ place' = "done" /\ iface' = iface /\ asked = <<>> /\ Len(asked) = 0
    BY <1>1, <1>3 DEF NetShow, lineVars, net, NetInv
  <2>2. SettingsInForce'
    BY <1>1, <2>1 DEF SettingsInForce, Reported
  <2> QED  BY <1>1, <2>1, <2>2 DEF NetInv
<1>4. CASE NetSetIp
  <2>1. /\ place = "ip" /\ n >= 1 /\ place' = After(1)
        /\ iface' = [ip |-> asked[1], mask |-> NULL, gateway |-> NULL]
    BY <1>1, <1>4 DEF NetSetIp, NetInv, n
  <2>2. \/ place' = "mask" /\ n >= 2
        \/ place' = "done" /\ n = 1
    <3>1. CASE n > 1
      BY <1>8, <1>10, <2>1, <3>1
    <3>2. CASE ~(n > 1)
      <4>1. n = 1
        BY <1>8, <2>1, <3>2
      <4> QED  BY <1>10, <2>1, <3>2, <4>1, Zenon
    <3> QED  BY <3>1, <3>2
  <2>3. Reported' = 1
    BY <1>1, <2>2 DEF Reported, n
  <2>4. settings'[1] = asked'[1]
    BY <1>1, <2>1
  <2>5. SettingsInForce'
    BY <2>3, <2>4 DEF SettingsInForce
  <2>6. iface' \in [ip : Addresses \cup {NULL}, mask : Addresses \cup {NULL}, gateway : Addresses \cup {NULL}]
    <3>1. 1 \in 1..n
      BY <1>8, <2>1
    <3>2. asked[1] \in Addresses
      BY <1>1, <3>1 DEF n
    <3> QED  BY <2>1, <3>2
  <2> QED  BY <1>1, <2>2, <2>5, <2>6 DEF NetInv, n
<1>5. CASE NetSetMask
  <2>1. /\ place = "mask" /\ n >= 2 /\ place' = After(2)
        /\ iface' = [iface EXCEPT !.mask = asked[2],
                                   !.gateway = IF iface.mask = asked[2] THEN @ ELSE NULL]
    BY <1>1, <1>5 DEF NetSetMask, NetInv, n
  <2>2. \/ place' = "gateway" /\ n = 3
        \/ place' = "done" /\ n = 2
    <3>1. CASE n > 2
      <4>1. n = 3
        BY <1>8, <3>1
      <4> QED  BY <1>10, <2>1, <3>1, <4>1, Zenon
    <3>2. CASE ~(n > 2)
      <4>1. n = 2
        BY <1>8, <2>1, <3>2
      <4> QED  BY <1>10, <2>1, <3>2, <4>1, Zenon
    <3> QED  BY <3>1, <3>2
  <2>3. Reported' = 2
    BY <1>1, <2>2 DEF Reported, n
  <2>4. asked[1] = iface.ip
    BY <1>1, <2>1 DEF NetInv, SettingsInForce, Reported
  <2>5. asked[1] \in Addresses /\ asked[2] \in Addresses
    BY <1>1, <2>1 DEF n
  <2>6. /\ iface' \in [ip : Addresses \cup {NULL}, mask : Addresses \cup {NULL}, gateway : Addresses \cup {NULL}]
        /\ iface'.ip = iface.ip /\ iface'.mask = asked[2]
    BY <1>1, <2>1, <2>5 DEF NetInv, n
  <2>7. settings'[1] = asked'[1] /\ settings'[2] = asked'[2]
    BY <1>1, <2>4, <2>6
  <2>8. SettingsInForce'
    BY <2>3, <2>7 DEF SettingsInForce
  <2> QED  BY <1>1, <2>2, <2>6, <2>8 DEF NetInv, n
<1>6. CASE NetSetGateway
  <2>1. /\ place = "gateway" /\ n = 3 /\ place' = "done"
        /\ iface' = [iface EXCEPT !.gateway = asked[3]]
    BY <1>1, <1>6 DEF NetSetGateway, NetInv, After, n
  <2>2. Reported' = 3
    BY <1>1, <2>1 DEF Reported, n
  <2>3. asked[1] = iface.ip /\ asked[2] = iface.mask
    BY <1>1, <2>1 DEF NetInv, SettingsInForce, Reported
  <2>4. asked[3] \in Addresses
    <3>1. 3 \in 1..n
      BY <2>1
    <3> QED  BY <1>1, <3>1 DEF n
  <2>5. /\ iface' \in [ip : Addresses \cup {NULL}, mask : Addresses \cup {NULL}, gateway : Addresses \cup {NULL}]
        /\ iface'.ip = iface.ip /\ iface'.mask = iface.mask /\ iface'.gateway = asked[3]
    BY <1>1, <2>1, <2>4 DEF NetInv, n
  <2>6. settings'[1] = asked'[1] /\ settings'[2] = asked'[2] /\ settings'[3] = asked'[3]
    BY <1>1, <2>3, <2>5
  <2>7. SettingsInForce'
    BY <2>2, <2>6 DEF SettingsInForce
  <2> QED  BY <1>1, <2>1, <2>5, <2>7 DEF NetInv, n
<1>7. CASE NetRefuse \/ NetFails
  <2>1. place' \in {"refused", "failed"} /\ iface' = iface
    BY <1>7 DEF NetRefuse, NetFails, lineVars, net
  <2>2. SettingsInForce'
    BY <2>1 DEF SettingsInForce, Reported
  <2> QED  BY <1>1, <2>1, <2>2 DEF NetInv, n
<1> QED  BY <1>3, <1>4, <1>5, <1>6, <1>7 DEF Net

-----------------------------------------------------------------------------
(* The serial line.  The lemmas below are for a person who types one Y for
   each question. *)
LEMMA HeadTail ==
    ASSUME NEW S, NEW s \in Seq(S), s # <<>>
    PROVE  /\ Head(s) \in S /\ Head(s) = s[1] /\ Tail(s) \in Seq(S) /\ Len(Tail(s)) = Len(s) - 1 /\ Len(s) \in Nat \ {0}
           /\ \A i \in 1..Len(Tail(s)) : i + 1 \in 1..Len(s) /\ Tail(s)[i] = s[i + 1]
OBVIOUS

LEMMA Appended ==
    ASSUME NEW S, NEW s \in Seq(S), NEW x \in S
    PROVE  /\ Append(s, x) \in Seq(S) /\ Len(Append(s, x)) = Len(s) + 1 /\ Len(s) \in Nat
           /\ \A i \in 1..Len(s) + 1 : IF i = Len(s) + 1 THEN Append(s, x)[i] = x
                                       ELSE i \in 1..Len(s) /\ Append(s, x)[i] = s[i]
OBVIOUS

(* What is sent without asking keeps the terminal at the rate of the tool. *)
LEMMA Told ==
    ASSUME UartInv, tool = "uart", patient,
           place' \in QuietPlaces, out' = Append(out, NULL), question' = NULL, question = NULL,
           in' = <<>>, rate' \in Nat, defRate' \in Nat, peerRate' = peerRate, rate' = peerRate,
           turn' \in 1..Len(Rates), garbled' = garbled, tool' = tool, patient' = patient,
           \A i \in 1..Len(out) : out[i] = NULL
    PROVE  UartInv'
<1>1. /\ LineTypes /\ OneQuestion /\ ~garbled
  BY DEF UartInv
<1>2. /\ out' \in Seq(Nat \cup {NULL}) /\ \A i \in 1..Len(out') : out'[i] = NULL
  BY <1>1, Appended DEF LineTypes
<1>3. place' \notin {"configure", "change", "answer", "begin", "done"}
  BY DEF QuietPlaces
<1>4. LineTypes'
  BY <1>1, <1>2, <1>3 DEF LineTypes
<1>5. OneQuestion' /\ Quiet' /\ Asked'
  BY <1>2, <1>3 DEF OneQuestion, Quiet, Asked
<1> QED  BY <1>1, <1>3, <1>4, <1>5, Zenon DEF UartInv

(* A question is put behind what is on its way. *)
LEMMA AsksFor ==
    ASSUME UartInv, tool = "uart", patient, place \in QuietPlaces, NEW r \in Nat,
           (place' = "change" /\ Rates[turn] = r) \/ (place' = "begin" /\ rate = r),
           out' = Append(out, r), question' = question, in' = in, rate' = rate, defRate' = defRate, peerRate' = peerRate, turn' = turn,
           garbled' = garbled, tool' = tool, patient' = patient
    PROVE  UartInv'
<1>1. /\ LineTypes /\ OneQuestion /\ ~garbled /\ question = NULL /\ in = <<>> /\ rate = peerRate
      /\ \A i \in 1..Len(out) : out[i] = NULL
  BY DEF UartInv, Quiet
<1>2. /\ out' \in Seq(Nat \cup {NULL}) /\ \A i \in 1..Len(out') : out'[i] \in {NULL, r} /\ (out'[i] # NULL => i = Len(out'))
  BY <1>1, Appended DEF LineTypes
<1>3. place' \notin QuietPlaces \cup {"configure", "answer", "done"}
  BY DEF QuietPlaces
<1>4. LineTypes'
  BY <1>1, <1>2 DEF LineTypes
<1>5. OneQuestion'
  BY <1>1, <1>2 DEF OneQuestion
<1>6. Asked'
  BY <1>1, <1>2, <1>3 DEF Asked
<1> QED  BY <1>1, <1>3, <1>4, <1>5, <1>6, Zenon DEF UartInv, Quiet

(* The steps of main. *)
LEMMA LineSteps == LineInv /\ patient /\ Line => UartInv'
<1> SUFFICES ASSUME LineInv, patient, Line  PROVE UartInv'
  OBVIOUS
<1> USE DEF Uart, At, Go, Fails, Drained, Write
<1>0. /\ tool = "uart" /\ tool' = tool
      /\ peerRate' = peerRate /\ question' = question /\ patient' = patient
  BY DEF Line, UartConfigure, UartAsk, UartChange, UartReadOther, UartConfirm, UartSize, UartFinalAsk,
     UartBegin, UartRestore, UartFails, lineVars, person
<1>10. garbled' = garbled
  BY DEF Line, UartConfigure, UartAsk, UartChange, UartReadOther, UartConfirm, UartSize, UartFinalAsk,
     UartBegin, UartRestore, UartFails, lineVars, person
<1>1. UartInv /\ LineTypes /\ OneQuestion /\ Quiet /\ Asked /\ ~garbled
  BY <1>0, Zenon DEF LineInv, UartInv
<1>11. patient /\ patient'
  BY <1>0, Zenon
<1>2. /\ turn \in 1..Len(Rates) /\ Len(Rates) \in Nat /\ Rates[turn] \in Nat /\ Rates[turn] # NULL
      /\ defRate \in Nat /\ rate \in Nat /\ rate # NULL /\ in \in Seq({"Y", "?"}) /\ out \in Seq(Nat \cup {NULL})
  BY <1>1, RateTried, LineAssumption DEF LineTypes
<1>3. place \in QuietPlaces => /\ question = NULL /\ in = <<>> /\ rate = peerRate
                               /\ \A i \in 1..Len(out) : out[i] = NULL
  BY <1>1 DEF Quiet
<1>12. CASE UartConfigure
  <2>1. /\ place = "configure" /\ place' \in QuietPlaces /\ rate' = FirstRate /\ defRate' = rate
        /\ out' = Append(out, NULL) /\ in' = in /\ turn' = turn
    BY <1>12 DEF UartConfigure, QuietPlaces
  <2>2. /\ question = NULL /\ in = <<>> /\ out = <<>> /\ peerRate = FirstRate
        /\ \A i \in 1..Len(out) : out[i] = NULL
    BY <1>1, <2>1 DEF Quiet
  <2>3. FirstRate \in Nat
    BY LineAssumption
  <2> QED  BY <1>0, <1>1, <1>10, <1>11, <1>2, <2>1, <2>2, <2>3, Told
<1>4. CASE UartSize("size7", 7, "size8") \/ UartSize("size8", 8, "final")
  <2>1. /\ place \in QuietPlaces /\ place' \in QuietPlaces /\ defRate' = defRate
        /\ out' = Append(out, NULL) /\ rate' = rate /\ in' = in /\ turn' = turn
    BY <1>4 DEF UartSize, QuietPlaces
  <2> QED  BY <1>0, <1>1, <1>10, <1>11, <1>2, <1>3, <2>1, Told
<1>5. CASE UartAsk \/ UartFinalAsk
  <2>1. /\ defRate' = defRate /\ rate' = rate /\ in' = in /\ turn' = turn /\ place \in QuietPlaces
        /\ \/ place' = "change" /\ out' = Append(out, Rates[turn])
           \/ place' = "begin" /\ out' = Append(out, rate)
    BY <1>5 DEF UartAsk, UartFinalAsk, QuietPlaces
  <2>2. CASE place' = "change" /\ out' = Append(out, Rates[turn])
    BY <1>0, <1>1, <1>10, <1>11, <1>2, <2>1, <2>2, AsksFor
  <2>3. CASE place' = "begin" /\ out' = Append(out, rate)
    BY <1>0, <1>1, <1>10, <1>11, <1>2, <2>1, <2>3, AsksFor
  <2> QED  BY <2>1, <2>2, <2>3
<1>6. CASE UartChange
  <2>1. /\ place = "change" /\ place' = "answer" /\ out = <<>> /\ rate' = Rates[turn]
        /\ out' = out /\ in' = in /\ turn' = turn /\ defRate' = defRate
    BY <1>6 DEF UartChange
  <2>2. LineTypes'
    BY <1>0, <1>1, <1>2, <2>1 DEF LineTypes
  <2>3. Quiet'
    BY <2>1 DEF Quiet, QuietPlaces
  <2>4. OneQuestion'
    BY <1>0, <1>1, <2>1 DEF OneQuestion
  <2>5. Asked'
    BY <1>0, <1>1, <2>1 DEF Asked
  <2>6. place' # "done"
    BY <2>1
  <2> QED  BY <1>1, <1>10, <2>2, <2>3, <2>4, <2>5, <2>6, Zenon DEF UartInv
<1>7. CASE UartReadOther("answer") \/ UartReadOther("begin")
  <2>1. /\ place \in {"answer", "begin"} /\ place' = place /\ in # <<>> /\ in' = Tail(in)
        /\ rate' = rate /\ out' = out /\ turn' = turn /\ defRate' = defRate
    BY <1>7 DEF UartReadOther
  <2>2. in' \in Seq({"Y", "?"})
    BY <1>2, <2>1, HeadTail
  <2>3. Len(in) = 1
    BY <1>1, <2>1 DEF Asked
  <2>4. in' = <<>>
    BY <1>2, <2>1, <2>2, <2>3, HeadTail
  <2>5. LineTypes'
    BY <1>0, <1>1, <2>1, <2>2 DEF LineTypes
  <2>6. Quiet'
    BY <2>1 DEF Quiet, QuietPlaces
  <2>7. OneQuestion'
    BY <1>0, <1>1, <2>1 DEF OneQuestion
  <2>8. Asked'
    BY <1>0, <1>1, <2>1, <2>4 DEF Asked
  <2>9. place' # "done"
    BY <2>1
  <2> QED  BY <1>1, <1>10, <2>5, <2>6, <2>7, <2>8, <2>9, Zenon DEF UartInv
<1>8. CASE UartConfirm \/ UartBegin
  <2>1. /\ place \in {"answer", "begin"} /\ place' \in QuietPlaces /\ in # <<>> /\ in' = Tail(in)
        /\ out' = Append(out, NULL) /\ rate' = rate /\ defRate' = defRate
    BY <1>8 DEF UartConfirm, UartBegin, QuietPlaces
  <2>2. turn' \in 1..Len(Rates)
    BY <1>2, <1>8 DEF UartConfirm, UartBegin
  <2>3. question = NULL /\ out = <<>> /\ Len(in) = 1 /\ rate = peerRate
    BY <1>1, <2>1 DEF Asked
  <2>4. in' = <<>>
    BY <1>2, <2>1, <2>3, HeadTail
  <2>5. \A i \in 1..Len(out) : out[i] = NULL
    BY <2>3
  <2>6. rate' \in Nat /\ defRate' \in Nat /\ rate' = peerRate
    BY <1>2, <2>1, <2>3
  <2>7. question' = NULL /\ peerRate' = peerRate /\ tool' = tool /\ tool = "uart"
    BY <1>0, <2>3
  <2>8. UartInv
    BY <1>1
  <2> QED  BY <1>10, <1>11, <2>1, <2>2, <2>3, <2>4, <2>5, <2>6, <2>7, <2>8, Told
<1>9. CASE UartRestore \/ UartFails
  <2>1. /\ out' = out /\ in' = in /\ turn' = turn /\ defRate' = defRate
        /\ \/ place' = "done" /\ place = "restore" /\ out = <<>> /\ rate' = defRate
           \/ place' = "failed" /\ rate' = rate
    BY <1>9 DEF UartRestore, UartFails, lineVars, serial
  <2>2. LineTypes'
    BY <1>0, <1>1, <2>1, LineAssumption DEF LineTypes
  <2>3. Quiet' /\ Asked'
    BY <2>1 DEF Quiet, Asked, QuietPlaces
  <2>4. OneQuestion'
    BY <1>0, <1>1, <2>1 DEF OneQuestion
  <2>5. place' = "done" => out' = <<>> /\ question' = NULL
    BY <1>0, <1>3, <2>1 DEF QuietPlaces
  <2> QED  BY <1>1, <1>10, <2>2, <2>3, <2>4, <2>5, Zenon DEF UartInv
<1> QED  BY <1>12, <1>4, <1>5, <1>6, <1>7, <1>8, <1>9 DEF Line

(* What has been sent arrives. *)
LEMMA TransmitSteps == LineInv /\ patient /\ Transmit => UartInv'
<1> SUFFICES ASSUME LineInv, patient, Transmit  PROVE UartInv'
  OBVIOUS
<1>1. /\ tool = "uart" /\ out # <<>> /\ out' = Tail(out)
      /\ question' = (IF rate = peerRate /\ Head(out) # NULL THEN Head(out) ELSE question)
      /\ tool' = tool /\ place' = place /\ rate' = rate /\ in' = in /\ turn' = turn /\ defRate' = defRate
      /\ peerRate' = peerRate
  BY DEF Transmit
<1>2. UartInv /\ LineTypes /\ OneQuestion /\ Quiet /\ Asked /\ ~garbled /\ place # "done"
  BY <1>1, Zenon DEF LineInv, UartInv
<1>3. rate = peerRate /\ question = NULL
  BY <1>1, <1>2 DEF OneQuestion
<1>4. ~garbled'
  BY <1>2, <1>3, Zenon DEF Transmit
<1>5. out \in Seq(Nat \cup {NULL})
  BY <1>2 DEF LineTypes
<1>6. /\ Head(out) \in Nat \cup {NULL} /\ Head(out) = out[1] /\ out' \in Seq(Nat \cup {NULL}) /\ Len(out') = Len(out) - 1 /\ Len(out) \in Nat \ {0}
      /\ \A i \in 1..Len(out') : i + 1 \in 1..Len(out) /\ out'[i] = out[i + 1]
  BY <1>1, <1>5, HeadTail
<1>7. question' = Head(out) \/ question' = NULL
  BY <1>1, <1>3
<1>8. question' # NULL => out' = <<>>
  <2> SUFFICES ASSUME question' # NULL  PROVE out' = <<>>
    OBVIOUS
  <2>1. out[1] # NULL
    BY <1>6, <1>7
  <2>2. 1 \in 1..Len(out)
    BY <1>6
  <2>3. 1 = Len(out)
    BY <1>2, <2>1, <2>2 DEF OneQuestion
  <2>4. Len(out') = 0
    <3>1. Len(out') = 1 - 1
      BY <1>6, <2>3, Zenon
    <3> QED  BY <3>1
  <2>5. out' \in Seq(Nat \cup {NULL})
    BY <1>6
  <2> QED  BY <2>4, <2>5
<1>9. LineTypes'
  BY <1>1, <1>2, <1>6, <1>7 DEF LineTypes
<1>10. OneQuestion'
  <2>1. ASSUME NEW i \in 1..Len(out'), out'[i] # NULL  PROVE i = Len(out')
    <3>1. i + 1 \in 1..Len(out) /\ out[i + 1] # NULL
      BY <1>6, <2>1
    <3>2. i + 1 = Len(out)
      BY <1>2, <3>1 DEF OneQuestion
    <3> QED  BY <1>6, <3>2
  <2> QED  BY <1>1, <1>3, <1>8, <2>1 DEF OneQuestion
<1>11. Quiet'
  <2> SUFFICES ASSUME place \in QuietPlaces
               PROVE  question' = NULL /\ in = <<>> /\ \A i \in 1..Len(out') : out'[i] = NULL
    BY <1>1, <1>2, <1>3 DEF Quiet
  <2>1. in = <<>> /\ \A i \in 1..Len(out) : out[i] = NULL
    BY <1>2 DEF Quiet
  <2> QED  BY <1>6, <1>7, <2>1
<1>12. Asked'
  <2> SUFFICES ASSUME place \in {"change", "answer", "begin"}  PROVE Asked'
    BY <1>1 DEF Asked
  <2> DEFINE r == IF place = "begin" THEN rate ELSE Rates[turn]
  <2>1. r' = r
    BY <1>1
  <2>2. /\ \A i \in 1..Len(out) : out[i] \in {NULL, r}
        /\ in = <<>> /\ place # "answer"
    BY <1>1, <1>2 DEF Asked
  <2>3. /\ \A i \in 1..Len(out') : out'[i] \in {NULL, r}
        /\ question' \in {NULL, r}
    BY <1>6, <1>7, <2>2
  <2> QED  BY <1>1, <1>3, <2>1, <2>2, <2>3 DEF Asked
<1> QED  BY <1>1, <1>2, <1>4, <1>9, <1>10, <1>11, <1>12, Zenon DEF UartInv

(* The terminal takes the rate of the question, and one letter is typed. *)
LEMMA TypeSteps == LineInv /\ patient /\ Type => UartInv'
<1> SUFFICES ASSUME LineInv, patient, Type  PROVE UartInv'
  OBVIOUS
<1> DEFINE letter == IF rate = question THEN "Y" ELSE "?"
<1>1. /\ tool = "uart" /\ question # NULL /\ peerRate' = question /\ in' = Append(in, letter) /\ question' = NULL
      /\ tool' = tool /\ place' = place /\ rate' = rate /\ out' = out /\ turn' = turn /\ defRate' = defRate
  BY DEF Type
<1>2. UartInv /\ LineTypes /\ OneQuestion /\ Quiet /\ Asked /\ ~garbled /\ garbled' = garbled /\ place # "done"
  BY <1>1, Zenon DEF Type, LineInv, UartInv
<1>3. out = <<>> /\ place \notin QuietPlaces \cup {"configure"}
  BY <1>1, <1>2 DEF OneQuestion, Quiet
<1>4. in \in Seq({"Y", "?"}) /\ question \in Nat
  BY <1>1, <1>2 DEF LineTypes
<1>5. in' \in Seq({"Y", "?"})
  BY <1>1, <1>4, Appended
<1>6. LineTypes'
  BY <1>1, <1>2, <1>4, <1>5 DEF LineTypes
<1>7. OneQuestion' /\ Quiet'
  BY <1>1, <1>3 DEF OneQuestion, Quiet
<1>8. Asked'
  <2> SUFFICES ASSUME place \in {"change", "answer", "begin"}  PROVE Asked'
    BY <1>1 DEF Asked
  <2> DEFINE r == IF place = "begin" THEN rate ELSE Rates[turn]
  <2>1. /\ question = r /\ in = <<>>
        /\ place = "answer" => rate = r
    BY <1>1, <1>2 DEF Asked
  <2>2. Len(in') = 1
    BY <1>1, <1>4, <2>1
  <2> QED  BY <1>1, <1>3, <2>1, <2>2 DEF Asked
<1> QED  BY <1>1, <1>2, <1>6, <1>7, <1>8, Zenon DEF UartInv

LEMMA LineNextSteps == LineInv /\ [LineNext]_<<tool, place, mayFail, lineVars>> => LineInv'
<1> SUFFICES ASSUME LineInv, [LineNext]_<<tool, place, mayFail, lineVars>>  PROVE LineInv'
  OBVIOUS
<1>1. CASE UNCHANGED <<tool, place, mayFail, lineVars>>
  BY <1>1 DEF lineVars, net, serial, person, LineInv, NetInv, UartInv, SettingsInForce, Reported, LineTypes,
     OneQuestion, Quiet, Asked
<1>2. CASE Net
  BY <1>2, NetSteps
<1>3. CASE Line \/ Transmit \/ Type
  <2>1. tool = "uart" /\ tool' = tool
    BY <1>3 DEF Line, UartConfigure, UartAsk, UartChange, UartReadOther, UartConfirm, UartSize, UartFinalAsk,
       UartBegin, UartRestore, UartFails, Transmit, Type, Uart, At, Fails
  <2>2. patient' = patient
    BY <1>3 DEF Line, UartConfigure, UartAsk, UartChange, UartReadOther, UartConfirm, UartSize, UartFinalAsk,
       UartBegin, UartRestore, UartFails, Transmit, Type, Uart, lineVars, person
  <2>3. UartInv'
    <3>1. CASE ~patient
      BY <2>2, <3>1, Zenon DEF UartInv
    <3>2. CASE patient
      BY <1>3, <3>2, LineSteps, TransmitSteps, TypeSteps
    <3> QED  BY <3>1, <3>2
  <2> QED  BY <2>1, <2>3 DEF LineInv, NetInv
<1> QED  BY <1>1, <1>2, <1>3 DEF LineNext

(* The inductive invariant of csky_netsetting_example and csky_uart_example. *)
THEOREM LineInvariant == LineSpec => []LineInv
BY LineStarts, LineNextSteps, PTL DEF LineSpec

(* What csky_netsetting_example has reported as set stays in force. *)
THEOREM LineSettingsInForce == LineSpec => []SettingsInForce
<1>1. LineInv => SettingsInForce
  BY DEF LineInv, NetInv, SettingsInForce
<1> QED  BY <1>1, LineInvariant, PTL

(* csky_uart_example sends nothing at a rate that the terminal does not
   have, when its questions are answered with one Y each. *)
THEOREM LineSameRate == LineSpec => []SameRate
<1>1. LineInv => SameRate
  BY Zenon DEF LineInv, UartInv, SameRate
<1> QED  BY <1>1, LineInvariant, PTL
=============================================================================
