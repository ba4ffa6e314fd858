------------------------------ MODULE Storage ------------------------------
(***************************************************************************)
(* storage: one program that writes a fixed pattern to numbered files,     *)
(* reads such files back and compares, or measures either on one file.     *)
(* It is run again and again on the same storage and may be killed.        *)
(*                                                                         *)
(* The pattern is the buffer data_prep fills; a byte is its place in the   *)
(* buffer, so a file is right when byte k is k % BufferSize.  The storage  *)
(* is external: a read gives all there is up to what was asked for; a      *)
(* write may fail, or, when the storage is Narrow, take only the first     *)
(* part of what it was given.                                              *)
(***************************************************************************)
EXTENDS Integers, Sequences

CONSTANTS BufferSize,   \* BUFFER_SIZE
          Sizes,        \* the sizes that are given
          MaxIterations,
          PerfSize,     \* the performance tests refuse sizes up to this one
          MaxRuns       \* bound: runs of the program

ASSUME StorageAssumption ==
    /\ BufferSize \in Nat \ {0} /\ MaxIterations \in Nat \ {0} /\ MaxRuns \in Nat
    /\ Sizes \subseteq Nat \ {0} /\ PerfSize \in Nat

VARIABLES made, files,          \* the names that exist; their bytes (the plain name comes last)
          op, size, iterations, \* the arguments
          i, count,             \* the loops' variables
          pc, ret,              \* ret: what the operation returns, -5 when killed; main returns 0
          runs, narrow,         \* runs so far; writes may be short
          wasShort              \* ghost: a write was short

args == <<op, size, iterations>>
vars == <<made, files, args, i, count, pc, ret, runs, narrow, wasShort>>

Names == 0..MaxIterations

Plain == MaxIterations

Init ==
    /\ made = {} /\ files = [n \in Names |-> <<>>]
    /\ op = "read" /\ size = 1 /\ iterations = 0
    /\ i = 0 /\ count = 0 /\ pc = "shell" /\ ret = 0
    /\ runs = 0 /\ narrow \in BOOLEAN /\ wasShort = FALSE

-----------------------------------------------------------------------------
Return(r) == pc' = "shell" /\ ret' = r

(* Faulty variants of the definitions below, caught by the properties at
   the end of this module. *)

(* the comparison stops one byte early *)
MatchesButLast(data) == \A k \in 1..Len(data) - 1 : data[k] = k - 1

(* the last file is left out *)
FileEndsEarly ==
    /\ pc = "loop" /\ count >= size
    /\ i' = i + 1 /\ count' = 0
    /\ IF i + 2 < iterations THEN pc' = "open" /\ UNCHANGED ret ELSE Return(0)
    /\ UNCHANGED <<made, files, args, runs, narrow, wasShort>>

-----------------------------------------------------------------------------
Perf == op \in {"writeperf", "readperf"}

File == IF Perf THEN Plain ELSE i

(* what a round of a loop asks for *)
Chunk == IF size - count > BufferSize THEN BufferSize ELSE size - count

(* the bytes that are there when n bytes of the buffer are written at
   position p of f *)
Overwritten(f, p, n) ==
    [k \in 1..IF p + n > Len(f) THEN p + n ELSE Len(f) |->
        IF k > p /\ k <= p + n THEN k - p - 1 ELSE f[k]]

(* what a read of n bytes at position p gives *)
ReadAt(f, p, n) == SubSeq(f, p + 1, IF p + n > Len(f) THEN Len(f) ELSE p + n)

(* the strncmp with the buffer *)
Matches(data) == \A k \in 1..Len(data) : data[k] = k - 1

-----------------------------------------------------------------------------
(* main: the performance tests work on one file and refuse small sizes. *)
Main ==
    /\ pc = "shell" /\ runs < MaxRuns
    /\ op' \in {"write", "read", "writeperf", "readperf"} /\ size' \in Sizes
    /\ iterations' \in IF op' \in {"write", "read"} THEN 1..MaxIterations ELSE {1}
    /\ i' = 0 /\ count' = 0 /\ runs' = runs + 1
    /\ IF op' \in {"writeperf", "readperf"} /\ size' <= PerfSize
       THEN Return(-1) ELSE pc' = "open" /\ ret' = 0
    /\ UNCHANGED <<made, files, narrow, wasShort>>

(* open for writing: an existing file keeps its bytes *)
OpenToWrite ==
    /\ pc = "open" /\ op \in {"write", "writeperf"}
    /\ \/ made' = made \cup {File} /\ pc' = "loop" /\ UNCHANGED ret
       \/ UNCHANGED made /\ Return(-1)
    /\ UNCHANGED <<files, args, i, count, runs, narrow, wasShort>>

OpenToRead ==
    /\ pc = "open" /\ op \in {"read", "readperf"}
    /\ \/ File \in made /\ pc' = "loop" /\ UNCHANGED ret
       \/ Return(-1)
    /\ UNCHANGED <<made, files, args, i, count, runs, narrow, wasShort>>

(* write(): what it was given, or less; the next round starts at the
   beginning of the buffer again *)
Write(n) ==
    /\ files' = [files EXCEPT ![File] = Overwritten(@, count, n)]
    /\ count' = count + n /\ wasShort' = (wasShort \/ n < Chunk)
    /\ UNCHANGED <<made, pc, ret>>

WriteRound ==
    /\ pc = "loop" /\ op \in {"write", "writeperf"} /\ count < size
    /\ \/ Write(Chunk)
       \/ narrow /\ \E n \in 1..Chunk - 1 : Write(n)
       \/ Return(-2) /\ UNCHANGED <<made, files, count, wasShort>>
    /\ UNCHANGED <<args, i, runs, narrow>>

(* One round of read_file: an error, too few bytes, or a comparison. *)
ReadRound ==
    /\ pc = "loop" /\ op = "read" /\ count < size
    /\ LET data == ReadAt(files[File], count, Chunk)
       IN  \/ Return(-2) /\ UNCHANGED count
           \/ Len(data) < Chunk /\ Return(-3) /\ UNCHANGED count
           \/ /\ Len(data) = Chunk /\ count' = count + Len(data)
              /\ IF Matches(data) THEN UNCHANGED <<pc, ret>> ELSE Return(-4)
    /\ UNCHANGED <<made, files, args, i, runs, narrow, wasShort>>

(* One round of read_perf, which compares nothing. *)
ReadPerfRound ==
    /\ pc = "loop" /\ op = "readperf" /\ count < size
    /\ LET n == Len(ReadAt(files[File], count, Chunk))
       IN  \/ Return(-2) /\ UNCHANGED count
           \/ n < Chunk /\ Return(-3) /\ UNCHANGED count
           \/ n = Chunk /\ count' = count + n /\ UNCHANGED <<pc, ret>>
    /\ UNCHANGED <<made, files, args, i, runs, narrow, wasShort>>

(* The file is closed and the next one opened. *)
FileEnds ==
    /\ pc = "loop" /\ count >= size
    /\ i' = i + 1 /\ count' = 0
    /\ IF i + 1 < iterations THEN pc' = "open" /\ UNCHANGED ret ELSE Return(0)
    /\ UNCHANGED <<made, files, args, runs, narrow, wasShort>>

(* The program is killed, or the board loses its power after what was
   written reached the storage. *)
Killed ==
    /\ pc # "shell" /\ Return(-5)
    /\ UNCHANGED <<made, files, args, i, count, runs, narrow, wasShort>>

Next ==
    \/ Main \/ OpenToWrite \/ OpenToRead \/ WriteRound \/ ReadRound \/ ReadPerfRound
    \/ FileEnds \/ Killed

Spec == Init /\ [][Next]_vars

-----------------------------------------------------------------------------
Asked == IF Perf THEN {Plain} ELSE 0..iterations - 1

(* the first n bytes of f are the pattern *)
Right(f, n) == Len(f) >= n /\ \A k \in 1..n : f[k] = (k - 1) % BufferSize

(* read_file tells the truth, whatever runs, failures and kills went
   before: it returns 0 only when all the files it was asked for hold the
   pattern, -3 only when one is too short, -4 only when one is wrong. *)
Verdict ==
    pc = "shell" /\ op = "read" =>
        /\ runs > 0 /\ ret = 0 => \A n \in Asked : Right(files[n], size)
        /\ ret = -3 => \E n \in Asked : Len(files[n]) < size
        /\ ret = -4 => \E n \in Asked : ~Right(files[n], size)

(* As long as no write was short, a write that returns 0 has made all its
   files, as long as they were asked to be; and a file holds nothing but the
   pattern, in spite of writes that failed or were killed, and of shorter
   ones over longer files (write_file, write_perf). *)
WrittenIsWhole ==
    ~wasShort =>
        /\ pc = "shell" /\ runs > 0 /\ ret = 0 /\ op \in {"write", "writeperf"} =>
              \A n \in Asked : Right(files[n], size)
        /\ \A n \in Names : Right(files[n], Len(files[n]))

=============================================================================
