---------------------------- MODULE StorageProofs ----------------------------
(***************************************************************************)
(* The storage test tells the truth about files of any size, for a buffer  *)
(* of any size: what it reports of a read is so (Verdict), and as long as  *)
(* no write is short what it has written is the pattern (WrittenIsWhole).  *)
(*                                                                         *)
(* Every round starts at the beginning of the buffer, so the argument is   *)
(* that rounds begin at whole multiples of its size (Whole), up to the     *)
(* last one.                                                               *)
(***************************************************************************)
EXTENDS Storage, TLAPS

Whole(n) == \E q \in Nat : n = q * BufferSize

Types ==
    /\ made \subseteq Names /\ files \in [Names -> Seq(Nat)]
    /\ op \in {"write", "read", "writeperf", "readperf"}
    /\ size \in Nat \ {0} /\ iterations \in 0..MaxIterations
    /\ i \in Nat /\ count \in Nat
    /\ pc \in {"shell", "open", "loop"} /\ ret \in Int /\ runs \in Nat
    /\ narrow \in BOOLEAN /\ wasShort \in BOOLEAN

Rounds ==
    /\ pc # "shell" => i < iterations /\ ret = 0 /\ runs > 0 /\ (Perf => iterations = 1)
    /\ pc = "open" => count = 0
    /\ pc = "loop" => count <= size /\ (op = "read" \/ ~wasShort => count = size \/ Whole(count))
    /\ pc = "loop" /\ op \in {"write", "writeperf"} => count <= Len(files[File])

ReadSoFar ==
    pc # "shell" /\ op = "read" =>
        /\ \A n \in 0..i - 1 : Right(files[n], size)
        /\ pc = "loop" => Right(files[i], count)

WrittenSoFar ==
    ~wasShort =>
        /\ \A n \in Names : Right(files[n], Len(files[n]))
        /\ pc # "shell" /\ op = "write" => \A n \in 0..i - 1 : Len(files[n]) >= size

IInv == Types /\ Rounds /\ ReadSoFar /\ WrittenSoFar /\ Verdict /\ WrittenIsWhole

-----------------------------------------------------------------------------
LEMMA RoundsOfBuffer ==
    ASSUME NEW b \in Nat \ {0}, NEW q \in Nat, NEW r \in 0..b - 1
    PROVE  (q * b + r) % b = r
BY SMTT(60)

LEMMA NextMultiple == ASSUME NEW b \in Nat, NEW q \in Nat  PROVE (q + 1) * b = q * b + b
OBVIOUS

LEMMA ZeroIsWhole == Whole(0)
<1>1. 0 = 0 * BufferSize
  BY StorageAssumption
<1> QED  BY <1>1 DEF Whole

(* A round that starts at a multiple of the buffer's size sees the pattern
   where the buffer's beginning is. *)
LEMMA InStep ==
    ASSUME NEW n \in Nat, Whole(n), NEW k \in 1..BufferSize
    PROVE  (n + k - 1) % BufferSize = k - 1
<1>1. PICK q \in Nat : n = q * BufferSize
  BY DEF Whole
<1>2. BufferSize \in Nat \ {0} /\ k - 1 \in 0..BufferSize - 1
  BY StorageAssumption
<1>3. (q * BufferSize + (k - 1)) % BufferSize = k - 1
  BY <1>2, RoundsOfBuffer
<1>4. n + k - 1 = q * BufferSize + (k - 1)
  BY <1>1, <1>2
<1> QED  BY <1>3, <1>4

LEMMA ChunkFacts ==
    ASSUME Types, count < size
    PROVE  /\ Chunk \in Nat /\ Chunk > 0 /\ Chunk <= BufferSize /\ count + Chunk <= size
           /\ Whole(count) => count + Chunk = size \/ Whole(count + Chunk)
<1>1. BufferSize \in Nat \ {0} /\ size \in Nat /\ count \in Nat
  BY StorageAssumption DEF Types
<1>2. /\ Chunk \in Nat /\ Chunk > 0 /\ Chunk <= BufferSize /\ count + Chunk <= size
      /\ count + Chunk = size \/ Chunk = BufferSize
  BY <1>1 DEF Chunk
<1>3. ASSUME Whole(count), Chunk = BufferSize  PROVE Whole(count + Chunk)
  <2>1. PICK q \in Nat : count = q * BufferSize
    BY <1>3 DEF Whole
  <2>2. q + 1 \in Nat /\ (q + 1) * BufferSize = q * BufferSize + BufferSize
    BY <1>1, NextMultiple
  <2> QED  BY <1>3, <2>1, <2>2 DEF Whole
<1> QED  BY <1>2, <1>3

LEMMA FileIsName == ASSUME Types, Rounds, pc # "shell"  PROVE File \in Names
BY StorageAssumption DEF Types, Rounds, File, Plain, Names

(* What a read finds *)
LEMMA ReadFacts ==
    ASSUME NEW f \in Seq(Nat), NEW p \in Nat, p <= Len(f), NEW n \in Nat
    PROVE  /\ Len(ReadAt(f, p, n)) \in Nat
           /\ Len(ReadAt(f, p, n)) < n => Len(f) < p + n
           /\ Len(ReadAt(f, p, n)) = n => Len(f) >= p + n /\ \A k \in 1..n : ReadAt(f, p, n)[k] = f[p + k]
<1> DEFINE last == IF p + n > Len(f) THEN Len(f) ELSE p + n
<1>1. Len(f) \in Nat /\ last \in Nat /\ last >= p /\ last <= Len(f)
  OBVIOUS
<1>2. ReadAt(f, p, n) = SubSeq(f, p + 1, last)
  BY DEF ReadAt
<1>3. /\ Len(SubSeq(f, p + 1, last)) = last - p
      /\ \A k \in 1..last - p : SubSeq(f, p + 1, last)[k] = f[p + k]
  BY <1>1
<1> QED  BY <1>1, <1>2, <1>3

(* What a write leaves *)
LEMMA OverwrittenFacts ==
    ASSUME NEW f \in Seq(Nat), NEW p \in Nat, p <= Len(f), NEW n \in Nat
    PROVE  /\ Overwritten(f, p, n) \in Seq(Nat)
           /\ Len(Overwritten(f, p, n)) \in Nat
           /\ Len(Overwritten(f, p, n)) >= Len(f) /\ Len(Overwritten(f, p, n)) >= p + n
           /\ Len(Overwritten(f, p, n)) <= p + n \/ Len(Overwritten(f, p, n)) = Len(f)
           /\ \A k \in 1..Len(Overwritten(f, p, n)) :
                 Overwritten(f, p, n)[k] = IF k > p /\ k <= p + n THEN k - p - 1 ELSE f[k]
<1> DEFINE m == IF p + n > Len(f) THEN p + n ELSE Len(f)
           g == [k \in 1..m |-> IF k > p /\ k <= p + n THEN k - p - 1 ELSE f[k]]
<1>1. m \in Nat /\ m >= Len(f) /\ m >= p + n /\ (m <= p + n \/ m = Len(f)) /\ Len(f) \in Nat
  OBVIOUS
<1>2. Overwritten(f, p, n) = g
  BY DEF Overwritten
<1>3. ASSUME NEW k \in 1..m  PROVE (IF k > p /\ k <= p + n THEN k - p - 1 ELSE f[k]) \in Nat
  <2>1. CASE k > p /\ k <= p + n
    BY <2>1
  <2>2. CASE ~(k > p /\ k <= p + n)
    <3>1. k \in 1..Len(f)
      BY <1>1, <2>2
    <3> QED  BY <2>2, <3>1
  <2> QED  BY <2>1, <2>2
<1> HIDE DEF m
<1>4. g \in [1..m -> Nat]
  BY <1>3
<1>5. g \in Seq(Nat) /\ Len(g) = m
  BY <1>1, <1>4
<1> QED  BY <1>1, <1>2, <1>5

LEMMA RightStarts == \A f : Len(f) \in Nat => Right(f, 0)
BY DEF Right

(* One more round that matched *)
LEMMA RightGrows ==
    ASSUME NEW f \in Seq(Nat), NEW p \in Nat, Right(f, p), Whole(p),
           NEW n \in 0..BufferSize, Len(f) >= p + n,
           \A k \in 1..n : f[p + k] = k - 1
    PROVE  Right(f, p + n)
<1>0. BufferSize \in Nat
  BY StorageAssumption
<1>1. ASSUME NEW k \in 1..p + n  PROVE f[k] = (k - 1) % BufferSize
  <2>1. CASE k <= p
    BY <2>1 DEF Right
  <2>2. CASE k > p
    <3>1. k - p \in 1..n /\ k - p \in 1..BufferSize /\ p + (k - p) = k /\ p + (k - p) - 1 = k - 1
      BY <1>0, <2>2
    <3>2. f[p + (k - p)] = (k - p) - 1
      BY <3>1
    <3>3. (p + (k - p) - 1) % BufferSize = (k - p) - 1
      BY <3>1, InStep
    <3> QED  BY <3>1, <3>2, <3>3
  <2> QED  BY <2>1, <2>2
<1> QED  BY <1>1 DEF Right

(* A write round in step leaves the pattern. *)
LEMMA OverwrittenRight ==
    ASSUME NEW f \in Seq(Nat), NEW p \in Nat, p <= Len(f), Whole(p), NEW n \in 0..BufferSize,
           Right(f, Len(f))
    PROVE  Right(Overwritten(f, p, n), Len(Overwritten(f, p, n)))
<1> DEFINE g == Overwritten(f, p, n)
<1>0. BufferSize \in Nat /\ n \in Nat
  BY StorageAssumption
<1>1. /\ g \in Seq(Nat) /\ Len(g) \in Nat /\ Len(f) \in Nat
      /\ Len(g) <= p + n \/ Len(g) = Len(f)
      /\ \A k \in 1..Len(g) : g[k] = IF k > p /\ k <= p + n THEN k - p - 1 ELSE f[k]
  BY <1>0, OverwrittenFacts
<1> HIDE DEF g
<1>2. ASSUME NEW k \in 1..Len(g)  PROVE g[k] = (k - 1) % BufferSize
  <2>1. CASE k > p /\ k <= p + n
    <3>1. k - p \in 1..BufferSize /\ p + (k - p) - 1 = k - 1 /\ (k - p) - 1 = k - p - 1
      BY <1>0, <2>1
    <3>2. (p + (k - p) - 1) % BufferSize = (k - p) - 1
      BY <3>1, InStep
    <3> QED  BY <1>1, <2>1, <3>1, <3>2
  <2>2. CASE ~(k > p /\ k <= p + n)
    <3>1. k \in 1..Len(f)
      BY <1>0, <1>1, <2>2
    <3> QED  BY <1>1, <2>2, <3>1 DEF Right
  <2> QED  BY <2>1, <2>2
<1> QED  BY <1>1, <1>2 DEF Right, g

-----------------------------------------------------------------------------
LEMMA InitIInv == Init => IInv
<1> SUFFICES ASSUME Init  PROVE IInv
  OBVIOUS
<1> USE StorageAssumption
<1>1. Types
  BY DEF Init, Types, Names
<1>2. \A n \in Names : files[n] = <<>>
  BY DEF Init
<1>3. \A n \in Names : Right(files[n], Len(files[n]))
  BY <1>2 DEF Right
<1> QED
  BY <1>1, <1>3 DEF Init, IInv, Rounds, ReadSoFar, WrittenSoFar, Verdict, WrittenIsWhole

LEMMA MainKeepsIInv == IInv /\ Main => IInv'
<1> SUFFICES ASSUME IInv, Main  PROVE IInv'
  OBVIOUS
<1> USE StorageAssumption
<1>1. /\ op' \in {"write", "read", "writeperf", "readperf"} /\ size' \in Sizes
      /\ iterations' \in IF op' \in {"write", "read"} THEN 1..MaxIterations ELSE {1}
      /\ i' = 0 /\ count' = 0 /\ runs' = runs + 1
      /\ \/ op' \in {"writeperf", "readperf"} /\ pc' = "shell" /\ ret' = -1
         \/ pc' = "open" /\ ret' = 0
      /\ UNCHANGED <<made, files, narrow, wasShort>>
  BY DEF Main, Return
<1>2. /\ size' \in Nat \ {0} /\ iterations' \in 1..MaxIterations /\ runs' \in Nat /\ runs' > 0
      /\ (op' \notin {"write", "read"} => iterations' = 1)
  BY <1>1 DEF IInv, Types
<1>3. Types'
  BY <1>1, <1>2 DEF IInv, Types
<1>4. Rounds'
  BY <1>1, <1>2 DEF Rounds, Perf
<1>5. ReadSoFar' /\ Verdict'
  BY <1>1 DEF ReadSoFar, Verdict
<1>6. WrittenSoFar' /\ WrittenIsWhole'
  BY <1>1 DEF IInv, WrittenSoFar, WrittenIsWhole
<1> QED  BY <1>3, <1>4, <1>5, <1>6 DEF IInv

(* Ends that leave the files as they are and report neither success nor
   something about a file *)
LEMMA EndKeepsIInv ==
    ASSUME IInv, pc' = "shell", ret' \in {-1, -2, -5}, made' \subseteq Names,
           UNCHANGED <<files, args, i, count, runs, narrow, wasShort>>
    PROVE  IInv'
<1>1. Types'
  BY DEF IInv, Types, args
<1> QED
  BY <1>1 DEF IInv, Rounds, ReadSoFar, WrittenSoFar, Verdict, WrittenIsWhole, args

LEMMA OpenKeepsIInv == IInv /\ (OpenToWrite \/ OpenToRead) => IInv'
<1> SUFFICES ASSUME IInv, OpenToWrite \/ OpenToRead  PROVE IInv'
  OBVIOUS
<1>1. /\ pc = "open" /\ UNCHANGED <<files, args, i, count, runs, narrow, wasShort>>
      /\ (pc' = "loop" /\ ret' = ret) \/ (pc' = "shell" /\ ret' = -1)
  BY DEF OpenToWrite, OpenToRead, Return
<1>2. Types /\ File \in Names /\ made' \subseteq Names
  BY <1>1, FileIsName DEF IInv, OpenToWrite, OpenToRead, Types
<1>3. CASE pc' = "shell" /\ ret' = -1
  BY <1>1, <1>2, <1>3, EndKeepsIInv
<1>4. CASE pc' = "loop" /\ ret' = ret
  <2>1. Types'
    BY <1>1, <1>2, <1>4 DEF Types, args
  <2>2. count = 0 /\ i \in Names /\ Len(files[File]) \in Nat /\ Len(files[i]) \in Nat
    BY <1>1, <1>2, StorageAssumption DEF IInv, Rounds, Types, Names
  <2>3. Rounds'
    BY <1>1, <1>2, <1>4, <2>2, ZeroIsWhole DEF IInv, Rounds, Types, File, Perf, args
  <2>4. ReadSoFar'
    BY <1>1, <1>4, <2>2, RightStarts DEF IInv, ReadSoFar, args
  <2>5. WrittenSoFar' /\ Verdict' /\ WrittenIsWhole'
    BY <1>1, <1>4 DEF IInv, WrittenSoFar, Verdict, WrittenIsWhole, args
  <2> QED  BY <2>1, <2>3, <2>4, <2>5 DEF IInv
<1> QED  BY <1>1, <1>3, <1>4

LEMMA WriteKeepsIInv == IInv /\ WriteRound => IInv'
<1> SUFFICES ASSUME IInv, WriteRound  PROVE IInv'
  OBVIOUS
<1> USE StorageAssumption
<1>0. /\ Types /\ pc = "loop" /\ op \in {"write", "writeperf"} /\ count < size /\ File \in Names
      /\ UNCHANGED <<args, i, runs, narrow>>
  BY FileIsName DEF IInv, WriteRound
<1>1. /\ Chunk \in Nat /\ Chunk > 0 /\ Chunk <= BufferSize /\ count + Chunk <= size
      /\ Whole(count) => count + Chunk = size \/ Whole(count + Chunk)
  BY <1>0, ChunkFacts
<1>2. CASE Return(-2) /\ UNCHANGED <<made, files, count, wasShort>>
  <2>1. made \subseteq Names
    BY <1>0 DEF Types
  <2> QED  BY <1>0, <1>2, <2>1, EndKeepsIInv DEF Return
<1>3. ASSUME NEW n \in 1..Chunk, Write(n)  PROVE IInv'
  <2>1. /\ files' = [files EXCEPT ![File] = Overwritten(files[File], count, n)]
        /\ count' = count + n /\ wasShort' = (wasShort \/ n < Chunk)
        /\ UNCHANGED <<made, pc, ret>>
    BY <1>3 DEF Write
  <2>2. /\ n \in Nat /\ n \in 0..BufferSize /\ count + n <= size /\ count \in Nat /\ size \in Nat
        /\ files[File] \in Seq(Nat) /\ count <= Len(files[File]) /\ BufferSize \in Nat
    BY <1>0, <1>1 DEF Types, IInv, Rounds
  <2> DEFINE g == Overwritten(files[File], count, n)
  <2>3. /\ g \in Seq(Nat) /\ Len(g) \in Nat /\ Len(g) >= Len(files[File]) /\ Len(g) >= count + n
    BY <2>2, OverwrittenFacts
  <2>4. ~wasShort /\ Right(files[File], Len(files[File])) => Right(g, Len(g))
    <3> SUFFICES ASSUME ~wasShort, Right(files[File], Len(files[File]))  PROVE Right(g, Len(g))
      OBVIOUS
    <3>1. Whole(count)
      BY <1>0, <2>2 DEF IInv, Rounds
    <3> QED  BY <2>2, <3>1, OverwrittenRight
  <2> HIDE DEF g
  <2>5. /\ files' \in [Names -> Seq(Nat)] /\ files'[File] = g
        /\ \A m \in Names : m # File => files'[m] = files[m]
    BY <1>0, <2>1, <2>3 DEF Types, g
  <2>6. ~wasShort' => ~wasShort /\ n = Chunk
    <3>1. ~wasShort' => ~wasShort /\ ~(n < Chunk)
      BY <2>1, Zenon
    <3> QED  BY <1>1, <3>1
  <2>7. wasShort' \in BOOLEAN
    BY <2>1, Zenon
  <2>8. Types'
    BY <1>0, <2>1, <2>2, <2>5, <2>7 DEF Types, args
  <2>9. File' = File
    BY <1>0 DEF File, Perf, args
  <2>10. Rounds'
    <3>1. ~wasShort' => count' = size \/ Whole(count')
      <4> SUFFICES ASSUME ~wasShort'  PROVE count' = size \/ Whole(count')
        OBVIOUS
      <4>1. Whole(count)
        BY <1>0, <2>2, <2>6 DEF IInv, Rounds
      <4> QED  BY <1>1, <2>1, <2>6, <4>1
    <3>2. count' <= Len(files'[File])
      BY <2>1, <2>3, <2>5
    <3> QED  BY <1>0, <2>1, <2>2, <2>9, <3>1, <3>2 DEF IInv, Rounds, Perf, args
  <2>11. ReadSoFar' /\ Verdict'
    BY <1>0, <2>1 DEF ReadSoFar, Verdict, args
  <2>12. WrittenSoFar'
    <3> SUFFICES ASSUME ~wasShort'
                 PROVE  /\ \A m \in Names : Right(files'[m], Len(files'[m]))
                        /\ op = "write" => \A m \in 0..i - 1 : Len(files'[m]) >= size
      BY <1>0, <2>1 DEF WrittenSoFar, args
    <3>1. \A m \in Names : Right(files'[m], Len(files'[m]))
      BY <1>0, <2>4, <2>5, <2>6 DEF IInv, WrittenSoFar
    <3>2. ASSUME op = "write", NEW m \in 0..i - 1  PROVE Len(files'[m]) >= size
      <4>1. m \in Names /\ m # File
        BY <1>0, <3>2 DEF IInv, Rounds, Types, Names, File, Perf
      <4> QED  BY <1>0, <2>5, <2>6, <3>2, <4>1 DEF IInv, WrittenSoFar
    <3> QED  BY <3>1, <3>2
  <2>13. WrittenIsWhole'
    BY <1>0, <2>1, <2>12 DEF WrittenSoFar, WrittenIsWhole
  <2> QED  BY <2>8, <2>10, <2>11, <2>12, <2>13 DEF IInv
<1>4. CASE Write(Chunk)
  BY <1>1, <1>3, <1>4
<1>5. CASE \E n \in 1..Chunk - 1 : Write(n)
  BY <1>1, <1>3, <1>5
<1> QED  BY <1>2, <1>4, <1>5 DEF WriteRound

LEMMA ReadKeepsIInv == IInv /\ (ReadRound \/ ReadPerfRound) => IInv'
<1> SUFFICES ASSUME IInv, ReadRound \/ ReadPerfRound  PROVE IInv'
  OBVIOUS
<1> USE StorageAssumption
<1>0. /\ Types /\ pc = "loop" /\ count < size /\ File \in Names
      /\ UNCHANGED <<made, files, args, i, runs, narrow, wasShort>>
      /\ count \in Nat /\ size \in Nat /\ files[File] \in Seq(Nat)
  BY FileIsName DEF IInv, ReadRound, ReadPerfRound, Types
<1>1. /\ Chunk \in Nat /\ Chunk > 0 /\ Chunk <= BufferSize /\ count + Chunk <= size
      /\ Whole(count) => count + Chunk = size \/ Whole(count + Chunk)
  BY <1>0, ChunkFacts
<1> DEFINE data == ReadAt(files[File], count, Chunk)
<1>2. CASE Return(-2) /\ UNCHANGED count
  <2>1. made' \subseteq Names
    BY <1>0 DEF Types
  <2> QED  BY <1>0, <1>2, <2>1, EndKeepsIInv DEF Return
<1>3. CASE ReadRound
  <2>1. /\ op = "read" /\ File = i /\ Whole(count) /\ Right(files[i], count) /\ count <= Len(files[i])
        /\ \A n \in 0..i - 1 : Right(files[n], size)
        /\ i \in Asked /\ Len(files[i]) \in Nat
    BY <1>0, <1>3 DEF ReadRound, File, Perf, IInv, Rounds, ReadSoFar, Right, Asked, Types
  <2>2. /\ Len(data) \in Nat
        /\ Len(data) < Chunk => Len(files[i]) < count + Chunk
        /\ Len(data) = Chunk =>
              Len(files[i]) >= count + Chunk /\ \A k \in 1..Chunk : data[k] = files[i][count + k]
    <3>1. files[i] \in Seq(Nat) /\ data = ReadAt(files[i], count, Chunk)
      BY <1>0, <2>1
    <3> HIDE DEF data
    <3>2. /\ Len(ReadAt(files[i], count, Chunk)) \in Nat
          /\ Len(ReadAt(files[i], count, Chunk)) < Chunk => Len(files[i]) < count + Chunk
          /\ Len(ReadAt(files[i], count, Chunk)) = Chunk =>
                /\ Len(files[i]) >= count + Chunk
                /\ \A k \in 1..Chunk : ReadAt(files[i], count, Chunk)[k] = files[i][count + k]
      BY <1>0, <1>1, <2>1, <3>1, ReadFacts
    <3> QED  BY <3>1, <3>2
  <2> HIDE DEF data
  <2>3. CASE Len(data) < Chunk /\ Return(-3) /\ UNCHANGED count
    <3>1. Len(files[i]) < size
      BY <1>0, <1>1, <2>1, <2>2, <2>3
    <3>2. Types' /\ Rounds' /\ ReadSoFar' /\ WrittenSoFar' /\ WrittenIsWhole'
      BY <1>0, <2>3 DEF IInv, Types, Rounds, ReadSoFar, WrittenSoFar, WrittenIsWhole, Return, args
    <3>3. Verdict'
      BY <1>0, <2>1, <2>3, <3>1 DEF Verdict, Return, args, Asked, Perf, Plain
    <3> QED  BY <3>2, <3>3 DEF IInv
  <2>4. CASE Len(data) = Chunk /\ ~Matches(data) /\ Return(-4) /\ count' = count + Chunk
    <3>1. ~Right(files[i], size)
      <4>1. PICK k \in 1..Chunk : data[k] # k - 1
        BY <2>4 DEF Matches
      <4>2. k \in 1..BufferSize /\ count + k \in 1..size
        BY <1>0, <1>1
      <4>3. (count + k - 1) % BufferSize = k - 1
        BY <1>0, <2>1, <4>2, InStep
      <4>4. data[k] = files[i][count + k]
        BY <2>2, <2>4
      <4>5. Right(files[i], size) => files[i][count + k] = (count + k - 1) % BufferSize
        <5> SUFFICES ASSUME Right(files[i], size)
                     PROVE  files[i][count + k] = (count + k - 1) % BufferSize
          OBVIOUS
        <5> DEFINE place == count + k
        <5>1. place \in 1..size /\ place - 1 = count + k - 1 /\ place = count + k
          BY <1>0, <4>2
        <5> HIDE DEF place
        <5>2. files[i][place] = (place - 1) % BufferSize
          BY <5>1 DEF Right
        <5> QED  BY <5>1, <5>2
      <4> QED  BY <4>1, <4>3, <4>4, <4>5
    <3>2. count' \in Nat
      BY <1>0, <1>1, <2>4
    <3>3. Types' /\ Rounds' /\ ReadSoFar' /\ WrittenSoFar' /\ WrittenIsWhole'
      BY <1>0, <2>4, <3>2 DEF IInv, Types, Rounds, ReadSoFar, WrittenSoFar, WrittenIsWhole, Return, args
    <3>4. Verdict'
      BY <1>0, <2>1, <2>4, <3>1 DEF Verdict, Return, args, Asked, Perf, Plain
    <3> QED  BY <3>3, <3>4 DEF IInv
  <2>5. CASE Len(data) = Chunk /\ Matches(data) /\ UNCHANGED <<pc, ret>> /\ count' = count + Chunk
    <3>1. Right(files[i], count + Chunk)
      <4>1. \A k \in 1..Chunk : files[i][count + k] = k - 1
        BY <2>2, <2>5 DEF Matches
      <4>2. Chunk \in 0..BufferSize /\ files[i] \in Seq(Nat)
        BY <1>0, <1>1, <2>1
      <4> QED  BY <1>0, <2>1, <2>2, <2>5, <4>1, <4>2, RightGrows
    <3>2. Types'
      BY <1>0, <1>1, <2>5 DEF Types, args
    <3>3. Rounds'
      BY <1>0, <1>1, <2>1, <2>5 DEF IInv, Rounds, Perf, args
    <3>4. ReadSoFar'
      BY <1>0, <2>1, <2>5, <3>1 DEF ReadSoFar, args
    <3>5. WrittenSoFar' /\ WrittenIsWhole' /\ Verdict'
      BY <1>0, <2>5 DEF IInv, WrittenSoFar, WrittenIsWhole, Verdict, args
    <3> QED  BY <3>2, <3>3, <3>4, <3>5 DEF IInv
  <2>6. \/ Return(-2) /\ UNCHANGED count
        \/ Len(data) < Chunk /\ Return(-3) /\ UNCHANGED count
        \/ /\ Len(data) = Chunk /\ count' = count + Len(data)
           /\ IF Matches(data) THEN UNCHANGED <<pc, ret>> ELSE Return(-4)
    BY <1>3 DEF ReadRound, data
  <2> QED  BY <1>2, <2>3, <2>4, <2>5, <2>6
<1>4. CASE ReadPerfRound
  <2>1. op = "readperf"
    BY <1>4 DEF ReadPerfRound
  <2>2. CASE Return(-3) /\ UNCHANGED count
    BY <1>0, <2>1, <2>2 DEF IInv, Types, Rounds, ReadSoFar, WrittenSoFar, WrittenIsWhole, Verdict, Return, args
  <2>3. CASE count' = count + Chunk /\ UNCHANGED <<pc, ret>>
    <3>1. Types'
      BY <1>0, <1>1, <2>3 DEF Types, args
    <3>2. Rounds'
      BY <1>0, <1>1, <2>1, <2>3 DEF IInv, Rounds, Perf, args
    <3> QED  BY <1>0, <2>1, <2>3, <3>1, <3>2 DEF IInv, ReadSoFar, WrittenSoFar, WrittenIsWhole, Verdict, args
  <2> QED  BY <1>2, <1>4, <2>2, <2>3 DEF ReadPerfRound
<1> QED  BY <1>3, <1>4

LEMMA FileEndsKeepsIInv == IInv /\ FileEnds => IInv'
<1> SUFFICES ASSUME IInv, FileEnds  PROVE IInv'
  OBVIOUS
<1> USE StorageAssumption
<1>0. /\ Types /\ pc = "loop" /\ count >= size /\ i' = i + 1 /\ count' = 0 /\ File \in Names
      /\ UNCHANGED <<made, files, args, runs, narrow, wasShort>>
      /\ \/ i + 1 < iterations /\ pc' = "open" /\ ret' = ret
         \/ ~(i + 1 < iterations) /\ pc' = "shell" /\ ret' = 0
      /\ count \in Nat /\ size \in Nat /\ i \in Nat /\ iterations \in Nat
  BY FileIsName DEF IInv, FileEnds, Return, Types
<1>1. count = size /\ i < iterations /\ ret = 0
  BY <1>0 DEF IInv, Rounds
<1>2. Types'
  BY <1>0 DEF Types, args
<1>3. Rounds'
  BY <1>0, <1>1 DEF IInv, Rounds, Perf, args
<1>4. op = "read" => \A n \in 0..i : Right(files[n], size)
  <2> SUFFICES ASSUME op = "read", NEW n \in 0..i  PROVE Right(files[n], size)
    OBVIOUS
  <2>1. n \in 0..i - 1 \/ n = i
    BY <1>0
  <2> QED  BY <1>0, <1>1, <2>1 DEF IInv, ReadSoFar
<1>5. op = "write" /\ ~wasShort => \A n \in 0..i : Len(files[n]) >= size
  <2> SUFFICES ASSUME op = "write", ~wasShort, NEW n \in 0..i  PROVE Len(files[n]) >= size
    OBVIOUS
  <2>1. n \in 0..i - 1 \/ n = i
    BY <1>0
  <2>2. Len(files[i]) >= size
    BY <1>0, <1>1 DEF IInv, Rounds, File, Perf
  <2> QED  BY <1>0, <2>1, <2>2 DEF IInv, WrittenSoFar
<1>6. i' - 1 = i /\ 0..i' - 1 = 0..i
  BY <1>0
<1>7. pc' = "shell" => iterations - 1 = i
  BY <1>0, <1>1
<1>8. ReadSoFar'
  BY <1>0, <1>4, <1>6 DEF ReadSoFar, args
<1>9. Verdict'
  BY <1>0, <1>4, <1>7 DEF Verdict, Asked, Perf, args
<1>10. WrittenSoFar'
  BY <1>0, <1>5, <1>6 DEF IInv, WrittenSoFar, args
<1>11. WrittenIsWhole'
  <2> SUFFICES ASSUME ~wasShort, pc' = "shell", op \in {"write", "writeperf"}, NEW n \in Asked
               PROVE  Right(files[n], size)
    BY <1>0, <1>10 DEF WrittenSoFar, WrittenIsWhole, Asked, Perf, Plain, args
  <2>1. n \in Names /\ Len(files[n]) >= size
    <3>1. CASE op = "write"
      BY <1>0, <1>1, <1>5, <1>7, <3>1 DEF Asked, Perf, Names, Types
    <3>2. CASE op = "writeperf"
      BY <1>0, <1>1, <3>2 DEF Asked, Perf, Names, File, IInv, Rounds
    <3> QED  BY <3>1, <3>2
  <2>2. Right(files[n], Len(files[n])) /\ Len(files[n]) \in Nat
    BY <1>0, <2>1 DEF IInv, WrittenSoFar, Types
  <2> QED  BY <1>0, <2>1, <2>2 DEF Right
<1> QED  BY <1>2, <1>3, <1>8, <1>9, <1>10, <1>11 DEF IInv

LEMMA NextIInv == IInv /\ [Next]_vars => IInv'
<1> SUFFICES ASSUME IInv, [Next]_vars  PROVE IInv'
  OBVIOUS
<1>1. CASE Killed
  <2>1. made' \subseteq Names
    BY <1>1 DEF Killed, IInv, Types
  <2> QED  BY <1>1, <2>1, EndKeepsIInv DEF Killed, Return
<1>2. CASE UNCHANGED vars
  BY <1>2 DEF vars, args, IInv, Types, Rounds, ReadSoFar, WrittenSoFar, Verdict, WrittenIsWhole,
       File, Perf, Asked, Plain
<1> QED
  BY <1>1, <1>2, MainKeepsIInv, OpenKeepsIInv, WriteKeepsIInv, ReadKeepsIInv, FileEndsKeepsIInv DEF Next

-----------------------------------------------------------------------------
(* The inductive invariant holds throughout. *)
THEOREM StorageInvariant == Spec => []IInv
BY InitIInv, NextIInv, PTL DEF Spec

(* What read_file returns is so. *)
THEOREM StorageVerdict == Spec => []Verdict
BY StorageInvariant, PTL DEF IInv

(* What write_file and write_perf report as written is there and is the
   pattern, as long as no write was short. *)
THEOREM StorageWrittenIsWhole == Spec => []WrittenIsWhole
BY StorageInvariant, PTL DEF IInv
=============================================================================
