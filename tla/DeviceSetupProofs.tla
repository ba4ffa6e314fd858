------------------------- MODULE DeviceSetupProofs -------------------------
(***************************************************************************)
(* The properties of DeviceSetup for every size of the struct's arrays and *)
(* every number of buffers that a driver may grant, up to twice that size. *)
(*                                                                         *)
(* IInv says what each stage leaves behind (Filled), and of the            *)
(* descriptors (Described) that the struct and the process agree on what   *)
(* is open, which fields are still zero, and which numbers are still free, *)
(* so that an open always finds one; and it counts the entries the loops   *)
(* past the end of an array have spoiled (Counted).                        *)
(***************************************************************************)
EXTENDS DeviceSetup, TLAPS

BeforeFile == {"controls", "output", "map_output", "capture", "map_capture", "queue", "stream_on", "file"}
AfterFile  == {"create_feeder", "create_mfc", "create_daemon", "join"}

(* The struct and the table agree. *)
Agree ==
    /\ \A r \in Resources : fd[r] > 0 => table[fd[r]] = r
    /\ \A d \in Descs : table[d] \in Resources /\ d # 0 => fd[table[d]] = d

(* The fields of what has not been opened yet. *)
Unopened ==
    /\ pc = "input" => \A r \in Resources : fd[r] = 0
    /\ pc = "fb" => fd["fb"] = 0 /\ fd["mfc"] = 0 /\ fd["file"] = 0
    /\ pc = "mfc" => fd["mfc"] = 0 /\ fd["file"] = 0
    /\ pc \in BeforeFile => fd["file"] = 0

FreeFrom(t, k) == \A d \in Descs : d >= k => t[d] = "free"

(* The numbers that are free at each stage. *)
FreeLeft ==
    /\ pc = "input" => FreeFrom(table, 3)
    /\ pc = "fb" => FreeFrom(table, 4)
    /\ pc = "mfc" => FreeFrom(table, 6)
    /\ pc \in BeforeFile => FreeFrom(table, 7)

(* What has been opened when no call has failed. *)
Opened ==
    ~failed =>
        /\ pc \notin {"input", "over"} => fd["input"] > 0 /\ table[0] # "free"
        /\ pc \notin {"input", "fb", "over"} /\ program # "encode" => fd["fb"] > 0
        /\ pc \in BeforeFile \cup AfterFile => fd["mfc"] > 0

Described ==
    /\ pc # "over" => Agree
    /\ pc = "over" => \A d \in Descs : table[d] \in Resources => d = 0
    /\ Unopened /\ FreeLeft /\ Opened

(* The loops that have not begun, and what the stages that are over have
   left when no call has failed. *)
Untouched ==
    /\ pc \in {"input", "fb", "mfc", "controls", "output"} => outMapped = 0
    /\ pc \in {"input", "fb", "mfc", "controls", "output", "map_output", "capture"} =>
          capMapped = 0 /\ queued = 0
    /\ pc = "map_capture" => queued = 0

Filled ==
    ~failed =>
        /\ pc \in {"map_output", "capture", "map_capture", "queue", "stream_on", "file"} \cup AfterFile
              => outCnt > 0
        /\ pc \in {"capture", "map_capture", "queue", "stream_on", "file"} \cup AfterFile
              => outMapped = outCnt
        /\ pc \in {"map_capture", "queue", "stream_on", "file"} \cup AfterFile
              => granted > 0 /\ capCnt = granted
        /\ pc \in {"queue", "stream_on", "file"} \cup AfterFile => capMapped = granted
        /\ pc \in {"stream_on", "file"} \cup AfterFile => queued = granted
        /\ pc \in {"file"} \cup AfterFile => streaming
        /\ pc \notin {"create_mfc", "create_daemon", "join"} => threads = {}

(* The buffers that n rounds over an array of max entries have spoiled. *)
SpoiledBy(n, max) == {k \in Nat : max + k < n}

Counted ==
    ~failed => /\ outSpoiled = SpoiledBy(outMapped, MaxOut)
               /\ capSpoiled = SpoiledBy(capMapped, MaxCap)

IInv == TypeOK /\ Described /\ Untouched /\ Filled /\ Counted

-----------------------------------------------------------------------------
(* One round more spoils one entry more, or none. *)
LEMMA RoundSpoils ==
    ASSUME NEW n \in Nat, NEW max \in Nat
    PROVE  /\ SpoiledBy(n, max) \cup Spoils(n, max) = SpoiledBy(n + 1, max)
           /\ Spoils(n, max) \subseteq Nat
<1>1. CASE n < max
  <2>1. Spoils(n, max) = {}
    BY <1>1 DEF Spoils
  <2>2. \A k \in Nat : (max + k < n <=> max + k < n + 1)
    BY <1>1
  <2> QED  BY <2>1, <2>2 DEF SpoiledBy
<1>2. CASE n >= max
  <2>1. Spoils(n, max) = {n - max} /\ n - max \in Nat
    BY <1>2 DEF Spoils
  <2>2. \A k \in Nat : (max + k < n + 1 <=> (max + k < n \/ k = n - max))
    BY <1>2
  <2> QED  BY <2>1, <2>2 DEF SpoiledBy
<1> QED  BY <1>1, <1>2

(* What follows a stage, in each of the programs (main, video_init). *)
LEMMA Follows ==
    ASSUME program \in Programs
    PROVE  /\ Order[program]["input"] = IF program = "encode" THEN "mfc" ELSE "fb"
           /\ Order[program]["fb"] = "mfc"
           /\ Order[program]["mfc"] = IF program = "encode" THEN "controls" ELSE "output"
           /\ Order[program]["controls"] = "output"
           /\ Order[program]["output"] = "map_output"
           /\ Order[program]["map_output"] = "capture"
           /\ Order[program]["capture"] = "map_capture"
           /\ Order[program]["map_capture"] = "queue"
           /\ Order[program]["queue"] = "stream_on"
           /\ Order[program]["stream_on"] = "file"
           /\ Order[program]["file"] = "create_feeder"
           /\ Order[program]["create_feeder"] = "create_mfc"
           /\ Order[program]["create_mfc"] = "create_daemon"
           /\ Order[program]["create_daemon"] = "join"
           /\ Order[program]["join"] = "cleanup"
           /\ Order[program]["cleanup"] = "over"
<1>1. CASE program = "decode"
  <2>1. Order[program] = DecodeMain
    BY <1>1 DEF Order, Programs
  <2> QED  BY <1>1, <2>1 DEF DecodeMain
<1>2. CASE program = "play"
  <2>1. Order[program] = DecodeMain
    BY <1>2 DEF Order, Programs, VideoInit
  <2> QED  BY <1>2, <2>1 DEF DecodeMain
<1>3. CASE program = "encode"
  <2>1. Order[program] = EncodeMain
    BY <1>3 DEF Order, Programs
  <2> QED  BY <1>3, <2>1 DEF EncodeMain, DecodeMain
<1> QED  BY <1>1, <1>2, <1>3 DEF Programs

LEMMA StageNames ==
    Stages = {"input", "fb", "mfc", "over", "cleanup"} \cup BeforeFile \cup AfterFile
BY DEF Stages, DecodeMain, BeforeFile, AfterFile

(* open(2) finds a free descriptor as long as those from k on are free. *)
LEMMA LowestIsFree ==
    ASSUME NEW t, NEW k \in 3..7, FreeFrom(t, k)
    PROVE  /\ Lowest(t) \in Descs /\ t[Lowest(t)] = "free" /\ Lowest(t) <= k
           /\ \A e \in 0..Lowest(t) - 1 : t[e] # "free"
<1> DEFINE IsLowest(d) == t[d] = "free" /\ \A e \in 0..d - 1 : t[e] # "free"
<1>1. 0..7 \subseteq Descs /\ Descs \subseteq Nat
  BY SetupAssumption DEF Descs
<1>2. t[k] = "free"
  BY <1>1 DEF FreeFrom
<1>3. \E d \in Descs : IsLowest(d)
  <2>1. CASE t[0] = "free"  BY <2>1, <1>1
  <2>2. CASE t[0] # "free" /\ t[1] = "free"  BY <2>2, <1>1
  <2>3. CASE t[0] # "free" /\ t[1] # "free" /\ t[2] = "free"  BY <2>3, <1>1
  <2>4. CASE t[0] # "free" /\ t[1] # "free" /\ t[2] # "free"
    <3> DEFINE F(d) == t[d] # "free"
    <3>1. CASE t[3] = "free"  BY <2>4, <3>1, <1>1
    <3>2. CASE F(3) /\ t[4] = "free"  BY <2>4, <3>2, <1>1
    <3>3. CASE F(3) /\ F(4) /\ t[5] = "free"  BY <2>4, <3>3, <1>1
    <3>4. CASE F(3) /\ F(4) /\ F(5) /\ t[6] = "free"  BY <2>4, <3>4, <1>1
    <3>5. CASE F(3) /\ F(4) /\ F(5) /\ F(6) /\ t[7] = "free"  BY <2>4, <3>5, <1>1
    <3>6. F(3) /\ F(4) /\ F(5) /\ F(6) => t[7] = "free"  BY <1>2
    <3> QED  BY <3>1, <3>2, <3>3, <3>4, <3>5, <3>6
  <2> QED  BY <2>1, <2>2, <2>3, <2>4
<1>4. Lowest(t) \in Descs /\ IsLowest(Lowest(t))
  BY <1>3 DEF Lowest
<1>5. Lowest(t) <= k
  <2> SUFFICES ASSUME ~(Lowest(t) <= k)  PROVE FALSE
    OBVIOUS
  <2>1. Lowest(t) \in Descs
    BY <1>4
  <2> HIDE DEF IsLowest
  <2>2. Lowest(t) \in Nat
    BY <2>1, <1>1
  <2>3. k \in Nat
    OBVIOUS
  <2>4. k \in 0..Lowest(t) - 1
    BY <2>2, <2>3
  <2> QED  BY <1>2, <1>4, <2>4 DEF IsLowest
<1> QED  BY <1>4, <1>5

-----------------------------------------------------------------------------
LEMMA InitIInv == Init => IInv
<1> SUFFICES ASSUME Init  PROVE IInv
  OBVIOUS
<1>1. 0..7 \subseteq Descs /\ Descs \subseteq Nat /\ MaxTable \in Nat /\ MaxTable >= 8
  BY SetupAssumption DEF Descs
<1>2. /\ table \in [Descs -> {"std", "free"}] /\ FreeFrom(table, 3)
      /\ fd = [r \in Resources |-> 0]
  BY <1>1 DEF Init, FreeFrom
<1>3. TypeOK
  <2>1. fd \in [Resources -> -1..MaxTable - 1] /\ table \in [Descs -> Resources \cup {"std", "free", "backlight"}]
    BY <1>1, <1>2
  <2>2. pc \in Stages
    BY StageNames DEF Init
  <2>3. failed \in BOOLEAN /\ streaming \in BOOLEAN
    BY Zenon DEF Init
  <2> QED  BY <2>1, <2>2, <2>3 DEF Init, TypeOK
<1>4. Agree
  BY <1>2 DEF Agree, Resources
<1>5. Described
  BY <1>2, <1>4 DEF Init, Described, Unopened, FreeLeft, Opened, BeforeFile, AfterFile
<1>6. Counted
  <2>1. \A k \in Nat : ~(MaxOut + k < 0) /\ ~(MaxCap + k < 0)
    BY SetupAssumption
  <2> QED  BY <2>1 DEF Init, Counted, SpoiledBy
<1> QED  BY <1>3, <1>5, <1>6 DEF Init, IInv, Untouched, Filled, AfterFile

(* A stage that opens nothing leaves the descriptors as they are described:
   the files before and after the output file is opened. *)
LEMMA DescribedKept ==
    ASSUME IInv, UNCHANGED <<program, fd, table>>, failed => failed', failed' \in BOOLEAN,
           \/ pc \in BeforeFile /\ pc' \in BeforeFile \cup {"cleanup"}
           \/ pc \in AfterFile /\ pc' \in AfterFile \cup {"cleanup"}
    PROVE  Described'
<1>1. Agree' /\ pc # "over" /\ pc' # "over"
  BY DEF IInv, Described, Agree, BeforeFile, AfterFile
<1>2. Unopened' /\ FreeLeft'
  BY DEF IInv, Described, Unopened, FreeLeft, FreeFrom, BeforeFile, AfterFile
<1>3. Opened'
  BY DEF IInv, TypeOK, Described, Opened, BeforeFile, AfterFile
<1> QED  BY <1>1, <1>2, <1>3 DEF Described

(* Giving a free descriptor d to a resource that has none, in a table that
   differs from the process's by the backlight at most. *)
LEMMA OpensAgree ==
    ASSUME TypeOK, Agree, NEW r \in Resources, fd[r] = 0, NEW t, NEW k \in 3..7, FreeFrom(t, k),
           t \in [Descs -> Resources \cup {"std", "free", "backlight"}],
           \A d \in Descs : t[d] = table[d] \/ (table[d] = "free" /\ t[d] = "backlight"),
           Opens(r, t)
    PROVE  /\ Agree' /\ FreeFrom(table', k + 1)
           /\ fd' \in [Resources -> -1..MaxTable - 1]
           /\ table' \in [Descs -> Resources \cup {"std", "free", "backlight"}]
           /\ fd'[r] = Lowest(t) /\ fd'[r] >= 0
           /\ \A q \in Resources \ {r} : fd'[q] = fd[q]
           /\ t[0] # "free" => fd'[r] > 0 /\ table'[0] # "free"
           /\ fd'[r] > 0 => table'[0] # "free"
<1> DEFINE d == Lowest(t)
<1>1. d \in Descs /\ t[d] = "free" /\ d <= k /\ \A e \in 0..d - 1 : t[e] # "free"
  BY LowestIsFree
<1>2. 0..7 \subseteq Descs /\ Descs \subseteq Nat /\ Descs = 0..MaxTable - 1 /\ MaxTable \in Nat
  BY SetupAssumption DEF Descs
<1>3. fd' = [fd EXCEPT ![r] = d] /\ table' = [t EXCEPT ![d] = r]
  BY DEF Opens
<1> HIDE DEF d
<1>4. fd \in [Resources -> -1..MaxTable - 1]
  BY DEF TypeOK
<1>5. /\ fd' \in [Resources -> -1..MaxTable - 1]
      /\ table' \in [Descs -> Resources \cup {"std", "free", "backlight"}]
      /\ fd'[r] = d /\ table'[d] = r /\ d >= 0
      /\ \A q \in Resources \ {r} : fd'[q] = fd[q]
      /\ \A e \in Descs \ {d} : table'[e] = t[e]
  BY <1>1, <1>2, <1>3, <1>4
<1>6. FreeFrom(table', k + 1)
  BY <1>1, <1>2, <1>5 DEF FreeFrom
<1>7. \A q \in Resources : fd'[q] > 0 => table'[fd'[q]] = q
  <2> SUFFICES ASSUME NEW q \in Resources, fd'[q] > 0, q # r  PROVE table'[fd'[q]] = q
    BY <1>5
  <2>1. fd[q] > 0 /\ fd[q] \in Descs /\ fd'[q] = fd[q]
    BY <1>2, <1>4, <1>5
  <2>2. table[fd[q]] = q
    BY <2>1 DEF Agree
  <2>3. t[fd[q]] = q
    BY <2>1, <2>2 DEF Resources
  <2>4. fd[q] # d
    BY <1>1, <2>3 DEF Resources
  <2> QED  BY <1>5, <2>1, <2>3, <2>4
<1>8. \A e \in Descs : table'[e] \in Resources /\ e # 0 => fd'[table'[e]] = e
  <2> SUFFICES ASSUME NEW e \in Descs, table'[e] \in Resources, e # 0, e # d  PROVE fd'[table'[e]] = e
    BY <1>5
  <2>1. table'[e] = t[e] /\ t[e] = table[e]
    BY <1>5 DEF Resources
  <2>2. fd[table[e]] = e
    BY <2>1 DEF Agree
  <2>3. table[e] # r
    BY <2>2
  <2> QED  BY <1>5, <2>1, <2>2, <2>3
<1>9. /\ t[0] # "free" => d > 0 /\ table'[0] # "free"
      /\ d > 0 => table'[0] # "free"
  BY <1>1, <1>2, <1>5 DEF Resources
<1> QED  BY <1>5, <1>6, <1>7, <1>8, <1>9 DEF Agree, d

(* An open that fails. *)
LEMMA OpenFailsAgree ==
    ASSUME TypeOK, Agree, NEW r \in Resources, fd[r] = 0, NEW t,
           t \in [Descs -> Resources \cup {"std", "free", "backlight"}],
           \A d \in Descs : t[d] = table[d] \/ (table[d] = "free" /\ t[d] = "backlight"),
           OpenFails(r, t)
    PROVE  /\ Agree'
           /\ fd' \in [Resources -> -1..MaxTable - 1]
           /\ table' \in [Descs -> Resources \cup {"std", "free", "backlight"}]
<1>1. MaxTable \in Nat /\ MaxTable >= 8 /\ Descs = 0..MaxTable - 1
  BY SetupAssumption DEF Descs
<1>2. fd \in [Resources -> -1..MaxTable - 1] /\ fd' = [fd EXCEPT ![r] = -1] /\ table' = t
  BY DEF TypeOK, OpenFails
<1>3. fd' \in [Resources -> -1..MaxTable - 1] /\ fd'[r] = -1 /\ \A q \in Resources \ {r} : fd'[q] = fd[q]
  BY <1>1, <1>2
<1>4. \A q \in Resources : fd'[q] > 0 => table'[fd'[q]] = q
  <2> SUFFICES ASSUME NEW q \in Resources, fd'[q] > 0  PROVE t[fd'[q]] = q
    BY <1>2
  <2>1. q # r /\ fd'[q] = fd[q] /\ fd[q] \in Descs
    BY <1>1, <1>2, <1>3
  <2> QED  BY <2>1 DEF Agree, Resources
<1>5. \A e \in Descs : table'[e] \in Resources /\ e # 0 => fd'[table'[e]] = e
  <2> SUFFICES ASSUME NEW e \in Descs, t[e] \in Resources, e # 0  PROVE fd'[t[e]] = e
    BY <1>2
  <2>1. t[e] = table[e] /\ fd[table[e]] = e
    BY DEF Agree, Resources
  <2> QED  BY <1>3, <2>1
<1> QED  BY <1>2, <1>3, <1>4, <1>5 DEF Agree

-----------------------------------------------------------------------------
LEMMA InputKeepsIInv == IInv /\ OpenInput => IInv'
<1> SUFFICES ASSUME IInv, OpenInput  PROVE IInv'
  OBVIOUS
<1>1. /\ TypeOK /\ Agree /\ pc = "input" /\ pc' \in {"fb", "mfc", "cleanup"}
      /\ program' = program /\ program \in Programs
      /\ UNCHANGED <<panel, outputs, capture, stream, threads>>
      /\ FreeFrom(table, 3) /\ \A r \in Resources : fd[r] = 0
      /\ "input" \in Resources /\ 3 \in 3..7
  BY Follows DEF IInv, TypeOK, Described, Unopened, FreeLeft, OpenInput, At, Goes, Fails, Resources
<1>2. table \in [Descs -> Resources \cup {"std", "free", "backlight"}]
  BY <1>1 DEF TypeOK
<1>3. CASE OpenFails("input", table) /\ Fails
  <2>1. /\ Agree' /\ fd' \in [Resources -> -1..MaxTable - 1]
        /\ table' \in [Descs -> Resources \cup {"std", "free", "backlight"}]
    BY <1>1, <1>2, <1>3, OpenFailsAgree
  <2>2. pc' = "cleanup" /\ failed' = TRUE
    BY <1>3 DEF Fails
  <2> QED  BY <1>1, <2>1, <2>2, StageNames DEF IInv, TypeOK, Described, Unopened, FreeLeft, Opened,
            Untouched, Filled, Counted, BeforeFile, AfterFile, outputs, capture, stream
<1>4. CASE Opens("input", table)
  <2>1. /\ Agree' /\ FreeFrom(table', 3 + 1)
        /\ fd' \in [Resources -> -1..MaxTable - 1]
        /\ table' \in [Descs -> Resources \cup {"std", "free", "backlight"}]
        /\ fd'["input"] > 0 => table'[0] # "free"
        /\ \A q \in Resources \ {"input"} : fd'[q] = fd[q]
    BY <1>1, <1>2, <1>4, OpensAgree
  <2>2. FreeFrom(table', 4) /\ FreeFrom(table', 6)
    BY <2>1, SetupAssumption DEF FreeFrom, Descs
  <2>3. \/ /\ pc' = IF program = "encode" THEN "mfc" ELSE "fb"
           /\ failed' = failed /\ fd'["input"] > 0
        \/ pc' = "cleanup" /\ failed' = TRUE
    BY <1>1, <1>4, Follows, <2>1 DEF OpenInput, OpenFails, Opens, At, Goes, Fails
  <2> QED  BY <1>1, <2>1, <2>2, <2>3, StageNames DEF IInv, TypeOK, Described, Unopened, FreeLeft, Opened,
            Untouched, Filled, Counted, BeforeFile, AfterFile, Resources, outputs, capture, stream
<1> QED  BY <1>3, <1>4 DEF OpenInput
LEMMA FbKeepsIInv == IInv /\ OpenFb => IInv'
<1> SUFFICES ASSUME IInv, OpenFb  PROVE IInv'
  OBVIOUS
<1>1. /\ TypeOK /\ Agree /\ pc = "fb" /\ program' = program /\ program \in Programs
      /\ UNCHANGED <<outputs, capture, stream, threads>>
      /\ FreeFrom(table, 4) /\ fd["fb"] = 0 /\ fd["mfc"] = 0 /\ fd["file"] = 0
      /\ "fb" \in Resources /\ 4 \in 3..7 /\ 5 \in 3..7
      /\ Order[program]["fb"] = "mfc" /\ panel' \in {panel, "dark"}
  BY Follows DEF IInv, TypeOK, Described, Unopened, FreeLeft, OpenFb, At, Goes, Fails, Resources
<1>2. table \in [Descs -> Resources \cup {"std", "free", "backlight"}]
  BY <1>1 DEF TypeOK
<1>3. PICK t \in WithBacklight :
        \/ OpenFails("fb", t) /\ Fails
        \/ Opens("fb", t) /\ Fails
        \/ Opens("fb", t) /\ Goes
  BY DEF OpenFb
<1>4. /\ t \in [Descs -> Resources \cup {"std", "free", "backlight"}] /\ FreeFrom(t, 5)
      /\ \A d \in Descs : t[d] = table[d] \/ (table[d] = "free" /\ t[d] = "backlight")
  <2>1. Lowest(table) \in Descs /\ table[Lowest(table)] = "free" /\ Lowest(table) <= 4
    BY <1>1, LowestIsFree
  <2>2. Descs \subseteq Nat
    BY SetupAssumption DEF Descs
  <2>3. CASE t = table
    BY <1>1, <1>2, <2>2, <2>3 DEF FreeFrom
  <2>4. CASE t = [table EXCEPT ![Lowest(table)] = "backlight"]
    BY <1>1, <1>2, <2>1, <2>2, <2>4 DEF FreeFrom
  <2> QED  BY <2>3, <2>4 DEF WithBacklight
<1>5. CASE OpenFails("fb", t) /\ Fails
  <2>1. /\ Agree' /\ fd' \in [Resources -> -1..MaxTable - 1]
        /\ table' \in [Descs -> Resources \cup {"std", "free", "backlight"}]
    BY <1>1, <1>4, <1>5, OpenFailsAgree
  <2>2. pc' = "cleanup" /\ failed' = TRUE
    BY <1>5 DEF Fails
  <2> QED  BY <1>1, <2>1, <2>2, StageNames DEF IInv, TypeOK, Described, Unopened, FreeLeft, Opened,
            Untouched, Filled, Counted, BeforeFile, AfterFile, outputs, capture, stream
<1>6. CASE Opens("fb", t) /\ (Fails \/ Goes)
  <2>1. /\ Agree' /\ FreeFrom(table', 5 + 1)
        /\ fd' \in [Resources -> -1..MaxTable - 1]
        /\ table' \in [Descs -> Resources \cup {"std", "free", "backlight"}]
        /\ \A q \in Resources \ {"fb"} : fd'[q] = fd[q]
        /\ t[0] # "free" => fd'["fb"] > 0 /\ table'[0] # "free"
    BY <1>1, <1>4, <1>6, OpensAgree
  <2>2. \/ pc' = "mfc" /\ failed' = failed
        \/ pc' = "cleanup" /\ failed' = TRUE
    BY <1>1, <1>6 DEF Goes, Fails
  <2>3. ~failed => fd["input"] > 0 /\ t[0] # "free"
    BY <1>1, <1>4, SetupAssumption DEF IInv, Described, Opened, Descs
  <2>4. Opened'
    BY <1>1, <2>1, <2>2, <2>3 DEF IInv, TypeOK, Described, Opened, BeforeFile, AfterFile, Resources
  <2>5. Unopened' /\ FreeLeft'
    BY <1>1, <2>1, <2>2 DEF Unopened, FreeLeft, BeforeFile, Resources
  <2> QED  BY <1>1, <2>1, <2>2, <2>4, <2>5, StageNames DEF IInv, TypeOK, Described,
            Untouched, Filled, Counted, BeforeFile, AfterFile, outputs, capture, stream
<1> QED  BY <1>3, <1>5, <1>6

LEMMA MfcKeepsIInv == IInv /\ OpenMfc => IInv'
<1> SUFFICES ASSUME IInv, OpenMfc  PROVE IInv'
  OBVIOUS
<1>1. /\ TypeOK /\ Agree /\ pc = "mfc" /\ program' = program /\ program \in Programs
      /\ UNCHANGED <<panel, outputs, capture, stream, threads>>
      /\ FreeFrom(table, 6) /\ fd["mfc"] = 0 /\ fd["file"] = 0
      /\ "mfc" \in Resources /\ 6 \in 3..7
      /\ Order[program]["mfc"] \in {"controls", "output"}
  BY Follows DEF IInv, TypeOK, Described, Unopened, FreeLeft, OpenMfc, At, Resources
<1>2. table \in [Descs -> Resources \cup {"std", "free", "backlight"}]
  BY <1>1 DEF TypeOK
<1>3. CASE OpenFails("mfc", table) /\ Fails
  <2>1. /\ Agree' /\ fd' \in [Resources -> -1..MaxTable - 1]
        /\ table' \in [Descs -> Resources \cup {"std", "free", "backlight"}]
    BY <1>1, <1>2, <1>3, OpenFailsAgree
  <2>2. pc' = "cleanup" /\ failed' = TRUE
    BY <1>3 DEF Fails
  <2> QED  BY <1>1, <2>1, <2>2, StageNames DEF IInv, TypeOK, Described, Unopened, FreeLeft, Opened,
            Untouched, Filled, Counted, BeforeFile, AfterFile, outputs, capture, stream
<1>4. CASE Opens("mfc", table) /\ (Fails \/ Goes)
  <2>1. /\ Agree' /\ FreeFrom(table', 6 + 1)
        /\ fd' \in [Resources -> -1..MaxTable - 1]
        /\ table' \in [Descs -> Resources \cup {"std", "free", "backlight"}]
        /\ \A q \in Resources \ {"mfc"} : fd'[q] = fd[q]
        /\ table[0] # "free" => fd'["mfc"] > 0 /\ table'[0] # "free"
    BY <1>1, <1>2, <1>4, OpensAgree
  <2>2. \/ pc' \in {"controls", "output"} /\ failed' = failed
        \/ pc' = "cleanup" /\ failed' = TRUE
    BY <1>1, <1>4 DEF Goes, Fails
  <2>3. Opened'
    BY <1>1, <2>1, <2>2 DEF IInv, TypeOK, Described, Opened, BeforeFile, AfterFile, Resources
  <2>4. Unopened' /\ FreeLeft'
    BY <1>1, <2>1, <2>2 DEF Unopened, FreeLeft, BeforeFile, Resources
  <2> QED  BY <1>1, <2>1, <2>2, <2>3, <2>4, StageNames DEF IInv, TypeOK, Described,
            Untouched, Filled, Counted, BeforeFile, AfterFile, outputs, capture, stream
<1> QED  BY <1>3, <1>4 DEF OpenMfc

LEMMA FileKeepsIInv == IInv /\ OpenFile => IInv'
<1> SUFFICES ASSUME IInv, OpenFile  PROVE IInv'
  OBVIOUS
<1>1. /\ TypeOK /\ Agree /\ pc = "file" /\ program' = program /\ program \in Programs
      /\ UNCHANGED <<panel, outputs, capture, stream, threads>>
      /\ FreeFrom(table, 7) /\ fd["file"] = 0 /\ "file" \in Resources /\ 7 \in 3..7
      /\ Order[program]["file"] = "create_feeder"
  BY Follows DEF IInv, TypeOK, Described, Unopened, FreeLeft, OpenFile, At, Resources, BeforeFile
<1>2. table \in [Descs -> Resources \cup {"std", "free", "backlight"}]
  BY <1>1 DEF TypeOK
<1>3. \/ pc' = "create_feeder" /\ failed' = failed
      \/ pc' = "cleanup" /\ failed' = TRUE
  BY <1>1 DEF OpenFile, Goes, Fails
<1>4. CASE UNCHANGED files
  <2>1. Agree'
    BY <1>1, <1>4 DEF files, Agree
  <2> QED  BY <1>1, <1>3, <1>4, <2>1, StageNames DEF IInv, TypeOK, Described, Unopened, FreeLeft, Opened,
            Untouched, Filled, Counted, BeforeFile, AfterFile, files, outputs, capture, stream
<1>5. CASE Opens("file", table)
  <2>1. /\ Agree' /\ fd' \in [Resources -> -1..MaxTable - 1]
        /\ table' \in [Descs -> Resources \cup {"std", "free", "backlight"}]
        /\ \A q \in Resources \ {"file"} : fd'[q] = fd[q]
        /\ table[0] # "free" => table'[0] # "free"
    BY <1>1, <1>2, <1>5, OpensAgree
  <2> QED  BY <1>1, <1>3, <2>1, StageNames DEF IInv, TypeOK, Described, Unopened, FreeLeft, Opened,
            Untouched, Filled, Counted, BeforeFile, AfterFile, Resources, outputs, capture, stream
<1> QED  BY <1>4, <1>5 DEF OpenFile
(* The stages that open nothing, up to the stream. *)
LEMMA BuffersKeepIInv ==
    ASSUME IInv, SetControls \/ SetupOutput \/ MapOutput \/ SetupCapture \/ MapCapture \/ QueueCapture \/ StreamOn
    PROVE  IInv'
<1>1. /\ TypeOK /\ program \in Programs /\ UNCHANGED <<program, files, panel, threads>>
      /\ MaxOut \in Nat /\ MaxCap \in Nat /\ outMapped \in Nat /\ capMapped \in Nat
  BY SetupAssumption DEF IInv, TypeOK, At, SetControls, SetupOutput, MapOutput, SetupCapture,
       MapCapture, QueueCapture, StreamOn, stream
<1>2. UNCHANGED <<program, fd, table>>
  BY <1>1 DEF files
<1>3. ASSUME NEW from \in BeforeFile, NEW to \in BeforeFile, pc = from,
             \/ pc' = to /\ failed' = failed
             \/ pc' = "cleanup" /\ failed' = TRUE
      PROVE  Described' /\ pc' \in Stages /\ failed' \in BOOLEAN
  <2>1. failed \in BOOLEAN
    BY <1>1, Zenon DEF TypeOK
  <2>2. failed' \in BOOLEAN /\ (failed => failed')
    <3>1. CASE failed' = failed  BY <2>1, <3>1, Zenon
    <3>2. CASE failed' = TRUE  BY <3>2, Zenon
    <3> QED  BY <1>3, <3>1, <3>2, Zenon
  <2>3. pc \in BeforeFile /\ pc' \in BeforeFile \cup {"cleanup"}
    BY <1>3
  <2> QED  BY <1>2, <2>2, <2>3, DescribedKept, StageNames
<1>4. CASE SetControls
  <2>1. /\ pc = "controls" /\ UNCHANGED <<outputs, capture, stream>>
        /\ \/ pc' = "output" /\ failed' = failed
           \/ pc' = "cleanup" /\ failed' = TRUE
    BY <1>1, <1>4, Follows DEF SetControls, At, Goes, Fails
  <2>2. Described' /\ pc' \in Stages /\ failed' \in BOOLEAN
    BY <1>3, <2>1 DEF BeforeFile
  <2> QED  BY <1>1, <2>1, <2>2 DEF IInv, TypeOK, Untouched, Filled, Counted, AfterFile, files, outputs, capture, stream
<1>5. CASE SetupOutput
  <2>1. /\ pc = "output" /\ UNCHANGED <<outMapped, outSpoiled, capture, stream>>
        /\ \/ outCnt' \in OutGrants /\ pc' = "map_output" /\ failed' = failed
           \/ outCnt' = outCnt /\ pc' = "cleanup" /\ failed' = TRUE
    BY <1>1, <1>5, Follows DEF SetupOutput, At, Goes, Fails
  <2>2. Described' /\ pc' \in Stages /\ failed' \in BOOLEAN
    BY <1>3, <2>1 DEF BeforeFile
  <2>3. outMapped = 0 /\ outMapped' = 0 /\ outCnt \in Nat
    BY <1>1, <2>1 DEF IInv, TypeOK, Untouched
  <2>4. outCnt' \in Nat /\ (outCnt' > 0 \/ (pc' = "cleanup" /\ failed'))
    <3>1. ASSUME NEW n \in OutGrants  PROVE n \in Nat /\ n > 0
      BY SetupAssumption
    <3> QED  BY <2>1, <2>3, <3>1
  <2> QED  BY <1>1, <2>1, <2>2, <2>3, <2>4 DEF IInv, TypeOK, Untouched, Filled, Counted, AfterFile, files, outputs, capture, stream
<1>6. CASE MapOutput
  <2>1. /\ pc = "map_output" /\ UNCHANGED <<outCnt, capture, stream>>
        /\ \/ /\ outMapped >= outCnt /\ outMapped' = outMapped /\ pc' = "capture" /\ failed' = failed
              /\ outSpoiled' = outSpoiled
           \/ /\ outMapped < outCnt /\ outMapped' = outMapped + 1 /\ pc' = "map_output" /\ failed' = failed
              /\ outSpoiled' = outSpoiled \cup Spoils(outMapped, MaxOut)
           \/ /\ outMapped' = outMapped /\ pc' = "cleanup" /\ failed' = TRUE
              /\ outSpoiled' \in {outSpoiled, outSpoiled \cup Spoils(outMapped, MaxOut)}
    BY <1>1, <1>6, Follows DEF TypeOK, MapOutput, LoopEnds, At, Goes, Stays, Fails
  <2>2. Described' /\ pc' \in Stages /\ failed' \in BOOLEAN
    BY <1>3, <2>1 DEF BeforeFile
  <2>3. outSpoiled' \subseteq Nat /\ Counted'
    <3>1. /\ SpoiledBy(outMapped, MaxOut) \cup Spoils(outMapped, MaxOut) = SpoiledBy(outMapped + 1, MaxOut)
          /\ Spoils(outMapped, MaxOut) \subseteq Nat /\ outSpoiled \subseteq Nat
      BY <1>1, RoundSpoils DEF TypeOK
    <3>2. outSpoiled' \subseteq Nat
      BY <2>1, <3>1
    <3>3. ~failed' => /\ outSpoiled' = SpoiledBy(outMapped', MaxOut)
                      /\ capSpoiled' = SpoiledBy(capMapped', MaxCap)
      BY <2>1, <3>1, Zenon DEF IInv, Counted, outputs, capture
    <3> QED  BY <3>2, <3>3 DEF Counted, SpoiledBy
  <2> QED  BY <1>1, <2>1, <2>2, <2>3 DEF IInv, TypeOK, Untouched, Filled, AfterFile, files, outputs, capture, stream
<1>7. CASE SetupCapture
  <2>1. /\ pc = "capture" /\ UNCHANGED <<outputs, capMapped, capSpoiled, stream>>
        /\ \/ capCnt' \in CapGrants /\ granted' = capCnt' /\ pc' = "map_capture" /\ failed' = failed
           \/ capCnt' = capCnt /\ granted' = granted /\ pc' = "cleanup" /\ failed' = TRUE
    BY <1>1, <1>7, Follows DEF SetupCapture, At, Goes, Fails
  <2>2. Described' /\ pc' \in Stages /\ failed' \in BOOLEAN
    BY <1>3, <2>1 DEF BeforeFile
  <2>3. capMapped' = 0 /\ queued' = 0 /\ capCnt \in Nat /\ granted \in Nat
    BY <1>1, <2>1 DEF IInv, TypeOK, Untouched, stream
  <2>4. capCnt' \in Nat /\ granted' \in Nat /\ (granted' > 0 \/ (pc' = "cleanup" /\ failed'))
    <3>1. ASSUME NEW n \in CapGrants  PROVE n \in Nat /\ n > 0
      BY SetupAssumption
    <3> QED  BY <2>1, <2>3, <3>1
  <2> QED  BY <1>1, <2>1, <2>2, <2>3, <2>4 DEF IInv, TypeOK, Untouched, Filled, Counted, AfterFile, files, outputs, capture, stream
<1>8. CASE MapCapture
  <2>1. /\ pc = "map_capture" /\ UNCHANGED <<outputs, capCnt, granted, stream>>
        /\ \/ /\ capMapped >= capCnt /\ capMapped' = capMapped /\ pc' = "queue" /\ failed' = failed
              /\ capSpoiled' = capSpoiled
           \/ /\ capMapped < capCnt /\ capMapped' = capMapped + 1 /\ pc' = "map_capture" /\ failed' = failed
              /\ capSpoiled' = capSpoiled \cup Spoils(capMapped, MaxCap)
           \/ /\ capMapped' = capMapped /\ pc' = "cleanup" /\ failed' = TRUE
              /\ capSpoiled' \in {capSpoiled, capSpoiled \cup Spoils(capMapped, MaxCap)}
    BY <1>1, <1>8, Follows DEF TypeOK, MapCapture, LoopEnds, At, Goes, Stays, Fails
  <2>2. Described' /\ pc' \in Stages /\ failed' \in BOOLEAN
    BY <1>3, <2>1 DEF BeforeFile
  <2>3. capSpoiled' \subseteq Nat /\ Counted'
    <3>1. /\ SpoiledBy(capMapped, MaxCap) \cup Spoils(capMapped, MaxCap) = SpoiledBy(capMapped + 1, MaxCap)
          /\ Spoils(capMapped, MaxCap) \subseteq Nat /\ capSpoiled \subseteq Nat
      BY <1>1, RoundSpoils DEF TypeOK
    <3>2. capSpoiled' \subseteq Nat
      BY <2>1, <3>1
    <3>3. ~failed' => /\ outSpoiled' = SpoiledBy(outMapped', MaxOut)
                      /\ capSpoiled' = SpoiledBy(capMapped', MaxCap)
      BY <2>1, <3>1, Zenon DEF IInv, Counted, outputs, capture
    <3> QED  BY <3>2, <3>3 DEF Counted, SpoiledBy
  <2> QED  BY <1>1, <2>1, <2>2, <2>3 DEF IInv, TypeOK, Untouched, Filled, AfterFile, files, outputs, capture, stream
<1>9. CASE QueueCapture
  <2>1. /\ pc = "queue" /\ UNCHANGED <<outputs, capture, streaming>>
        /\ \/ queued >= capCnt /\ queued' = queued /\ pc' = "stream_on" /\ failed' = failed
           \/ queued < capCnt /\ queued' = queued + 1 /\ pc' = "queue" /\ failed' = failed
           \/ queued' = queued /\ pc' = "cleanup" /\ failed' = TRUE
    BY <1>1, <1>9, Follows DEF TypeOK, QueueCapture, LoopEnds, At, Goes, Stays, Fails
  <2>2. Described' /\ pc' \in Stages /\ failed' \in BOOLEAN
    BY <1>3, <2>1 DEF BeforeFile
  <2> QED  BY <1>1, <2>1, <2>2 DEF IInv, TypeOK, Untouched, Filled, Counted, AfterFile, files, outputs, capture, stream
<1>10. CASE StreamOn
  <2>1. /\ pc = "stream_on" /\ UNCHANGED <<outputs, capture, queued>>
        /\ \/ streaming' = TRUE /\ pc' = "file" /\ failed' = failed
           \/ streaming' = streaming /\ pc' = "cleanup" /\ failed' = TRUE
    BY <1>1, <1>10, Follows DEF StreamOn, At, Goes, Fails
  <2>2. Described' /\ pc' \in Stages /\ failed' \in BOOLEAN
    BY <1>3, <2>1 DEF BeforeFile
  <2>3. streaming' \in BOOLEAN
    BY <1>1, <2>1 DEF TypeOK
  <2> QED  BY <1>1, <2>1, <2>2, <2>3 DEF IInv, TypeOK, Untouched, Filled, Counted, AfterFile, files, outputs, capture, stream
<1> QED  BY <1>4, <1>5, <1>6, <1>7, <1>8, <1>9, <1>10

(* The threads come and go. *)
LEMMA CreateKeepsIInv ==
    ASSUME IInv, NEW t \in Threads, NEW from \in {"create_feeder", "create_mfc", "create_daemon"},
           Create(from, t)
    PROVE  IInv'
<1>1. /\ TypeOK /\ program \in Programs /\ UNCHANGED <<program, files, panel, outputs, capture, stream>>
      /\ pc = from /\ threads' \subseteq threads \cup {t}
      /\ \/ pc' \in {"create_mfc", "create_daemon", "join"} /\ failed' = failed
         \/ pc' = "cleanup" /\ failed' = TRUE
  BY Follows DEF IInv, TypeOK, Create, At, Goes, Fails
<1>2. failed' \in BOOLEAN /\ (failed => failed') /\ pc' \in Stages
  BY <1>1, StageNames DEF TypeOK, AfterFile
<1>3. UNCHANGED <<program, fd, table>> /\ pc \in AfterFile /\ pc' \in AfterFile \cup {"cleanup"}
  BY <1>1 DEF files, AfterFile
<1>4. Described'
  BY <1>2, <1>3, DescribedKept
<1> QED  BY <1>1, <1>2, <1>4 DEF IInv, TypeOK, Untouched, Filled, Counted, AfterFile, files, outputs, capture, stream

LEMMA EndKeepsIInv ==
    ASSUME IInv, ThreadEnds \/ Join
    PROVE  IInv'
<1>1. CASE ThreadEnds
  BY <1>1 DEF IInv, ThreadEnds, TypeOK, Described, Agree, Unopened, FreeLeft, FreeFrom, Opened,
            Untouched, Filled, Counted, AfterFile, files, outputs, capture, stream
<1>2. CASE Join
  <2>1. /\ TypeOK /\ pc = "join" /\ pc' = "cleanup" /\ failed' = failed
        /\ UNCHANGED <<program, files, panel, outputs, capture, stream, threads>> /\ threads = {}
    BY <1>2, Follows DEF IInv, TypeOK, Join, At, Goes
  <2>2. Described'
    BY <2>1, DescribedKept DEF TypeOK, files, AfterFile
  <2> QED  BY <2>1, <2>2, StageNames DEF IInv, TypeOK, Untouched, Filled, Counted, AfterFile, files, outputs, capture, stream
<1> QED  BY <1>1, <1>2

LEMMA CleanupKeepsIInv == IInv /\ Cleanup => IInv'
<1> SUFFICES ASSUME IInv, Cleanup  PROVE IInv'
  OBVIOUS
<1>1. /\ TypeOK /\ Agree /\ pc = "cleanup" /\ pc' = "over" /\ failed' = failed
      /\ UNCHANGED <<program, panel, outputs, capture, stream, threads>>
      /\ fd' = [fd EXCEPT !["file"] = 0]
      /\ table' = [d \in Descs |-> IF \E r \in Resources : d \in Closes(r) THEN "free" ELSE table[d]]
  BY Follows DEF IInv, TypeOK, Described, Cleanup, At, Goes
<1>2. /\ fd' \in [Resources -> -1..MaxTable - 1]
      /\ table' \in [Descs -> Resources \cup {"std", "free", "backlight"}]
  BY <1>1, SetupAssumption DEF TypeOK, Resources
<1>3. \A d \in Descs : table'[d] \in Resources => d = 0
  <2> SUFFICES ASSUME NEW d \in Descs, d # 0, table[d] \in Resources
               PROVE  \E r \in Resources : d \in Closes(r)
    BY <1>1 DEF Resources
  <2>1. fd[table[d]] = d /\ d > 0
    BY <1>1, SetupAssumption DEF Agree, Descs
  <2> QED  BY <2>1 DEF Closes
<1>4. Described'
  BY <1>1, <1>3 DEF Described, Unopened, FreeLeft, Opened, BeforeFile, AfterFile
<1> QED  BY <1>1, <1>2, <1>4, StageNames DEF IInv, TypeOK, Untouched, Filled, Counted, AfterFile, outputs, capture, stream

-----------------------------------------------------------------------------
LEMMA NextKeepsIInv == IInv /\ [Next]_vars => IInv'
<1> SUFFICES ASSUME IInv, [Next]_vars  PROVE IInv'
  OBVIOUS
<1>1. CASE OpenInput  BY <1>1, InputKeepsIInv
<1>2. CASE OpenFb  BY <1>2, FbKeepsIInv
<1>3. CASE OpenMfc  BY <1>3, MfcKeepsIInv
<1>4. CASE OpenFile  BY <1>4, FileKeepsIInv
<1>5. CASE SetControls \/ SetupOutput \/ MapOutput \/ SetupCapture \/ MapCapture \/ QueueCapture \/ StreamOn
  BY <1>5, BuffersKeepIInv
<1>6. CASE CreateFeeder \/ CreateMfc \/ CreateDaemon
  <2>1. CASE Create("create_feeder", "feeder")
    <3>1. "feeder" \in Threads
      BY DEF Threads
    <3> QED  BY <2>1, <3>1, CreateKeepsIInv
  <2>2. CASE Create("create_mfc", "mfc")
    <3>1. "mfc" \in Threads
      BY DEF Threads
    <3> QED  BY <2>2, <3>1, CreateKeepsIInv
  <2>3. CASE Create("create_daemon", "daemon")
    <3>1. "daemon" \in Threads
      BY DEF Threads
    <3> QED  BY <2>3, <3>1, CreateKeepsIInv
  <2> QED  BY <1>6, <2>1, <2>2, <2>3 DEF CreateFeeder, CreateMfc, CreateDaemon
<1>7. CASE ThreadEnds \/ Join  BY <1>7, EndKeepsIInv
<1>8. CASE Cleanup  BY <1>8, CleanupKeepsIInv
<1>9. CASE UNCHANGED vars
  BY <1>9 DEF vars, files, outputs, capture, stream, IInv, TypeOK, Described, Agree, Unopened, FreeLeft,
       FreeFrom, Opened, Untouched, Filled, Counted
<1> QED  BY <1>1, <1>2, <1>3, <1>4, <1>5, <1>6, <1>7, <1>8, <1>9 DEF Next

LEMMA IInvImplies == IInv => ReadyForThreads /\ OwnsWhatItCloses /\ NothingLeft
<1> SUFFICES ASSUME IInv  PROVE ReadyForThreads /\ OwnsWhatItCloses /\ NothingLeft
  OBVIOUS
<1>1. ReadyForThreads
  <2> SUFFICES ASSUME threads # {}, ~failed
               PROVE  /\ streaming
                      /\ outCnt > 0 /\ outMapped = outCnt
                      /\ \A n \in 0..outCnt - 1 : n \in outSpoiled <=> MaxOut + n < outCnt
                      /\ granted > 0 /\ capMapped = granted /\ queued = granted
                      /\ \A n \in 0..granted - 1 : n \in capSpoiled <=> MaxCap + n < granted
                      /\ \A r \in Devices(program) : fd[r] > 0 /\ table[fd[r]] = r
    BY DEF ReadyForThreads
  <2>1. pc \in {"create_mfc", "create_daemon", "join"} /\ pc \in AfterFile
    BY DEF IInv, Filled, AfterFile
  <2>2. \A r \in Devices(program) : r \in Resources /\ fd[r] > 0
    BY <2>1 DEF IInv, Described, Opened, Devices, Resources
  <2>3. \A r \in Devices(program) : table[fd[r]] = r
    BY <2>1, <2>2 DEF IInv, Described, Agree
  <2>4. outMapped = outCnt /\ capMapped = granted /\ outCnt \in Nat /\ granted \in Nat
    BY <2>1 DEF IInv, TypeOK, Filled
  <2>5. \A n \in 0..outCnt - 1 : n \in outSpoiled <=> MaxOut + n < outCnt
    BY <2>4 DEF IInv, Counted, SpoiledBy
  <2>6. \A n \in 0..granted - 1 : n \in capSpoiled <=> MaxCap + n < granted
    BY <2>4 DEF IInv, Counted, SpoiledBy
  <2> QED  BY <2>1, <2>2, <2>3, <2>5, <2>6 DEF IInv, Filled
<1>2. OwnsWhatItCloses
  BY DEF IInv, Described, Agree, OwnsWhatItCloses, Closes
<1>3. NothingLeft
  BY DEF IInv, Described, NothingLeft
<1> QED  BY <1>1, <1>2, <1>3

LEMMA SetupInductive == Spec => []IInv
BY InitIInv, NextKeepsIInv, PTL DEF Spec

(* No loop of the set-up leaves the buffers it is about, whatever numbers of
   buffers the driver grants in the place of those asked for.  (That it
   leaves the struct's arrays is another matter: the next theorem.) *)
THEOREM SetupTypeOK == Spec => []TypeOK
<1>1. IInv => TypeOK
  BY DEF IInv
<1> QED  BY <1>1, SetupInductive, PTL

(* "Now we're safe to run the threads": a thread only runs when the stream
   is on and every buffer is mapped and queued, unless a call has failed;
   and the address of every buffer is in its place exactly when no grant is
   larger than the struct's array, or the buffer is none of the first ones
   that the excess has spoiled.  For every size of the arrays and every
   grant up to twice that size. *)
THEOREM SetupReadyForThreads == Spec => []ReadyForThreads
BY IInvImplies, SetupInductive, PTL

(* cleanup closes no descriptor twice, and none of another's, wherever the
   set-up failed. *)
THEOREM SetupOwnsWhatItCloses == Spec => []OwnsWhatItCloses
BY IInvImplies, SetupInductive, PTL

(* cleanup leaves nothing open but the backlight and a descriptor zero. *)
THEOREM SetupNothingLeft == Spec => []NothingLeft
BY IInvImplies, SetupInductive, PTL
=============================================================================
