--------------------------- MODULE MpiChunksProofs ---------------------------
(***************************************************************************)
(* Every piece lands where it belongs, for every number of ranks, every    *)
(* length and both limits.                                                 *)
(***************************************************************************)
EXTENDS MpiChunks, TLAPS

-----------------------------------------------------------------------------
(* Arithmetic of rows.                                                     *)
LEMMA RowsDoNotOverlap ==
  ASSUME NEW a \in Nat, NEW b \in Nat, NEW s \in Nat, a < b
  PROVE  (a + 1) * s <= b * s
OBVIOUS

(* Place x of row j belongs to row j.                                      *)
LEMMA RowOfIndex ==
  ASSUME NEW s \in Nat, NEW j \in Nat, NEW x \in 0 .. s - 1
  PROVE  /\ j * s + x \in Nat
         /\ Row(j * s + x, s) = j
         /\ Off(j * s + x, s) = x
<1> DEFINE k == j * s + x
<1>1. k \in Nat /\ j * s \in Nat /\ j <= k
  <2>1. s >= 1
    OBVIOUS
  <2>2. j * s \in Nat /\ j * s >= j
    BY <2>1
  <2> QED
    BY <2>2
<1>2. j * s <= k /\ k < (j + 1) * s
  <2>1. (j + 1) * s = j * s + s
    OBVIOUS
  <2> QED
    BY <1>1, <2>1
<1>3. ASSUME NEW i \in 0 .. k, i * s <= k, k < (i + 1) * s
      PROVE  i = j
  <2>1. CASE i < j
    <3>1. (i + 1) * s <= j * s
      BY <2>1, RowsDoNotOverlap
    <3>2. (i + 1) * s \in Nat
      OBVIOUS
    <3> QED
      BY <1>1, <1>2, <1>3, <3>1, <3>2
  <2>2. CASE j < i
    <3>1. (j + 1) * s <= i * s
      BY <2>2, RowsDoNotOverlap
    <3>2. (j + 1) * s \in Nat /\ i * s \in Nat
      OBVIOUS
    <3> QED
      BY <1>1, <1>2, <1>3, <3>1, <3>2
  <2> QED
    BY <2>1, <2>2
<1>4. j \in 0 .. k
  BY <1>1
<1>5. Row(k, s) = j
  BY <1>2, <1>3, <1>4 DEF Row
<1> QED
  BY <1>1, <1>5 DEF Off

(* Every index is a place of a row.                                        *)
LEMMA IndexHasRow ==
  ASSUME NEW s \in Nat, NEW m \in Nat, NEW k \in 0 .. m * s - 1
  PROVE  /\ Row(k, s) \in 0 .. m - 1
         /\ Off(k, s) \in 0 .. s - 1
         /\ k = Row(k, s) * s + Off(k, s)
<1>1. s # 0
  OBVIOUS
<1> DEFINE q == k \div s
           x == k - q * s
<1>2. q \in Nat /\ s * q <= k /\ k < s * q + s
  BY <1>1
<1>3. x \in 0 .. s - 1 /\ k = q * s + x
  <2>1. q * s = s * q /\ s * q \in Nat
    BY <1>2
  <2> QED
    BY <1>2, <2>1
<1> HIDE DEF q, x
<1>4. Row(k, s) = q /\ Off(k, s) = x
  BY <1>2, <1>3, RowOfIndex
<1>5. q < m
  <2>1. SUFFICES ASSUME ~(q < m) PROVE FALSE
    OBVIOUS
  <2>2. m * s <= q * s
    BY <1>2, <2>1
  <2>3. m * s \in Nat /\ q * s \in Nat
    BY <1>2
  <2> QED
    BY <1>3, <2>2, <2>3
<1> QED
  BY <1>2, <1>3, <1>4, <1>5

(* Rounding up covers the length, and one piece less does not.             *)
LEMMA DivCeilBounds ==
  ASSUME NEW a \in Nat, NEW c \in Nat \ {0}
  PROVE  /\ DivCeil(a, c) \in Nat
         /\ a <= DivCeil(a, c) * c
         /\ DivCeil(a, c) * c < a + c
<1> DEFINE t == a + c - 1
           d == t \div c
<1>1. t \in Nat
  OBVIOUS
<1>2. d \in Nat /\ c * d <= t /\ t < c * d + c
  BY <1>1
<1>3. c * d = d * c /\ c * d \in Nat
  BY <1>2
<1> QED
  BY <1>2, <1>3 DEF DivCeil

LEMMA EvenShare ==
  ASSUME NEW a \in Nat, NEW c \in Nat \ {0}
  PROVE  (a * c) \div c = a /\ (c * a) \div c = a
OBVIOUS

-----------------------------------------------------------------------------
(* The lengths of a call.                                                  *)
LEMMA JobSizes ==
  ASSUME job \in Jobs
  PROVE  /\ job.op \in {"gather", "scatter", "transpose"}
         /\ n \in Nat /\ w \in Nat \ {0} /\ w <= SEND_BUFFER_MAX
         /\ n * w \in Nat /\ w * n = n * w
         /\ NChunks \in Nat /\ NTransposes \in Nat /\ NRounds \in Nat
<1>1. /\ job.op \in {"gather", "scatter", "transpose"}
      /\ n \in Nat /\ w \in Nat \ {0} /\ w <= SEND_BUFFER_MAX
  BY ChunksAssumption DEF n, w
<1>2. n * w \in Nat /\ w * n = n * w
  BY <1>1
<1>3. NChunks \in Nat /\ NTransposes \in Nat
  BY <1>1, <1>2, DivCeilBounds, ChunksAssumption DEF NChunks, NTransposes
<1> QED
  BY <1>1, <1>2, <1>3 DEF NRounds

(* The piece of a round of gather_vec or scatter_vec: not empty, the next  *)
(* CHUNK_SIZE bytes or the rest, and the buffer has the room for it.       *)
LEMMA ChunkOfRound ==
  ASSUME job \in Jobs, round \in Nat, round < NChunks, size = CHUNK_SIZE * w
  PROVE  /\ ChunkStart \in Nat /\ ChunkEnd \in Nat /\ ChunkLen \in Nat \ {0}
         /\ ChunkStart < n /\ ChunkEnd <= n
         /\ ChunkEnd = ChunkStart + ChunkLen
         /\ ChunkEnd = IF round + 1 = NChunks THEN n ELSE (round + 1) * CHUNK_SIZE
         /\ ChunkBuffer = w * ChunkLen
         /\ round + 1 < NChunks => ChunkBuffer = CHUNK_SIZE * w
<1> DEFINE c == CHUNK_SIZE
           d == NChunks
<1>1. n \in Nat /\ w \in Nat \ {0} /\ c \in Nat \ {0} /\ d \in Nat
  BY JobSizes, ChunksAssumption
<1>2. n <= d * c /\ d * c < n + c
  BY <1>1, DivCeilBounds DEF NChunks
<1> HIDE DEF c, d
<1>3. /\ (round + 1) * c = round * c + c
      /\ round * c \in Nat /\ (round + 1) * c \in Nat
  BY <1>1
<1>4. d * c \in Nat
  BY <1>1
<1>5. (round + 1) * c <= d * c
  <2>1. round + 1 <= d
    BY <1>1 DEF d
  <2> QED
    BY <1>1, <2>1
<1>6. round * c < n
  BY <1>1, <1>2, <1>3, <1>4, <1>5
<1>7. ASSUME round + 1 < d PROVE (round + 1) * c < n
  <2>1. (round + 1 + 1) * c <= d * c
    BY <1>1, <1>7
  <2>2. (round + 1 + 1) * c = (round + 1) * c + c
    BY <1>1
  <2> QED
    BY <1>1, <1>2, <1>3, <1>4, <2>1, <2>2
<1>8. ASSUME round + 1 = d PROVE n <= round * c + c
  BY <1>2, <1>3, <1>8
<1>9. ChunkStart = round * c /\ ChunkEnd = IF round * c + c < n THEN round * c + c ELSE n
  BY DEF ChunkStart, ChunkEnd, c
<1>10. round + 1 <= d
  BY <1>1 DEF d
<1>11. ChunkEnd = IF round + 1 = d THEN n ELSE (round + 1) * c
  BY <1>1, <1>3, <1>7, <1>8, <1>9, <1>10
<1>12. /\ ChunkStart \in Nat /\ ChunkEnd \in Nat /\ ChunkLen \in Nat \ {0}
       /\ ChunkStart < n /\ ChunkEnd <= n /\ ChunkEnd = ChunkStart + ChunkLen
       /\ ChunkLen <= c
  BY <1>1, <1>3, <1>6, <1>9 DEF ChunkLen
<1>13. /\ ChunkBuffer = w * ChunkLen
       /\ round + 1 < d => ChunkBuffer = c * w
  <2>1. CASE ChunkLen < c
    <3>1. ~(round + 1 < d)
      BY <1>1, <1>3, <1>9, <1>11, <1>12, <2>1
    <3>2. ChunkLen * w = w * ChunkLen
      BY <1>1, <1>12
    <3> QED
      BY <2>1, <3>1, <3>2 DEF ChunkBuffer, c
  <2>2. CASE ChunkLen = c
    <3>1. c * w = w * c
      BY <1>1
    <3> QED
      BY <1>1, <2>2, <3>1 DEF ChunkBuffer, c
  <2> QED
    BY <1>1, <1>12, <2>1, <2>2
<1> QED
  BY <1>11, <1>12, <1>13 DEF c, d

(* The piece of a round of the transpose stays inside the row, and the     *)
(* last one ends it.                                                       *)
LEMMA PieceOfRound ==
  ASSUME job \in Jobs, round \in Nat, round < NTransposes, size = SEND_BUFFER_MAX,
         copyStarts = round * (SEND_BUFFER_MAX \div w)
  PROVE  /\ copyStarts \in Nat /\ SendPerWorld \in Nat
         /\ copyStarts + SendPerWorld <= n
         /\ IF round + 1 = NTransposes
            THEN copyStarts + SendPerWorld = n
            ELSE /\ copyStarts + SendPerWorld = (round + 1) * (SEND_BUFFER_MAX \div w)
                 /\ SendBuffer = SEND_BUFFER_MAX
         /\ SendBuffer \in Nat
<1> DEFINE s == SEND_BUFFER_MAX
           t == NTransposes
           u == s \div w
<1>1. n \in Nat /\ w \in Nat \ {0} /\ s \in Nat \ {0} /\ t \in Nat /\ n * w \in Nat
  BY JobSizes, ChunksAssumption
<1>2. t * s < n * w + s
  BY <1>1, DivCeilBounds DEF NTransposes
<1>3. u \in Nat /\ w * u <= s
  BY <1>1
<1> HIDE DEF s, t, u
<1>4. round + 1 <= t
  BY <1>1 DEF t
<1>5. ASSUME NEW i \in Nat, i + 1 <= t PROVE i * u < n
  <2>1. (i + 1) * s <= t * s
    BY <1>1, <1>5
  <2>2. (i + 1) * s = i * s + s /\ i * s \in Nat /\ t * s \in Nat
    BY <1>1
  <2>3. i * s < n * w
    BY <1>1, <1>2, <2>1, <2>2
  <2>4. i * (w * u) <= i * s
    BY <1>1, <1>3
  <2>5. i * (w * u) = (i * u) * w /\ i * u \in Nat /\ (i * u) * w \in Nat
    BY <1>1, <1>3
  <2>6. (i * u) * w < n * w
    BY <1>1, <2>2, <2>3, <2>4, <2>5
  <2>7. ASSUME n <= i * u PROVE FALSE
    <3>1. n * w <= (i * u) * w
      BY <1>1, <2>5, <2>7
    <3> QED
      BY <1>1, <2>5, <2>6, <3>1
  <2> QED
    BY <1>1, <2>5, <2>7
<1>6. copyStarts = round * u /\ copyStarts \in Nat /\ copyStarts < n
  BY <1>3, <1>4, <1>5 DEF u, s
<1>7. CASE round + 1 = t
  <2>1. SendBuffer = (n - copyStarts) * w
    BY <1>1, <1>7 DEF SendBuffer, t
  <2>2. n - copyStarts \in Nat
    BY <1>1, <1>6
  <2>3. SendPerWorld = n - copyStarts /\ SendBuffer \in Nat
    BY <1>1, <2>1, <2>2, EvenShare DEF SendPerWorld
  <2> QED
    BY <1>1, <1>6, <1>7, <2>2, <2>3 DEF t
<1>8. CASE round + 1 # t
  <2>1. SendBuffer = s
    BY <1>1, <1>8 DEF SendBuffer, t, s
  <2>2. SendPerWorld = u
    BY <2>1 DEF SendPerWorld, u
  <2>3. (round + 1) * u = round * u + u
    BY <1>3
  <2>4. (round + 1) * u < n
    BY <1>1, <1>4, <1>5, <1>8
  <2> QED
    BY <1>1, <1>3, <1>6, <1>8, <2>1, <2>2, <2>3, <2>4 DEF t, u, s
<1> QED
  BY <1>7, <1>8

-----------------------------------------------------------------------------
(* The inductive invariant: besides the bytes in their places, how far the *)
(* rounds are and what that says of the buffer.                            *)
IInv == ChunksTypeOK /\ RoundsInStep /\ EachByteInItsPlace

(* What the call is does not change while it runs.                         *)
LEMMA JobStays ==
  ASSUME job' = job
  PROVE  /\ n' = n /\ w' = w /\ Ranks' = Ranks
         /\ NChunks' = NChunks /\ NTransposes' = NTransposes /\ NRounds' = NRounds
         /\ \A r, k : Target(r, k)' = Target(r, k) /\ Place(k)' = Place(k)
<1>1. n' = n /\ w' = w /\ Ranks' = Ranks
  BY DEF n, w, Ranks
<1>2. NChunks' = NChunks /\ NTransposes' = NTransposes
  BY <1>1 DEF NChunks, NTransposes
<1>3. \A r, k : Target(r, k)' = Target(r, k) /\ Place(k)' = Place(k)
  BY <1>1 DEF Target, Place, LocalByte, SendByte
<1> QED
  BY <1>1, <1>2, <1>3 DEF NRounds

(* What a rank has before the call, and what it is promised, are bytes.    *)
LEMMA BytesAreBytes ==
  ASSUME job \in Jobs, NEW r \in Ranks, NEW k \in 0 .. MemLen(job, r) - 1
  PROVE  /\ MemLen(job, r) \in Nat
         /\ Target(r, k) \in Byte
         /\ FirstMem(job, r)[k] \in Byte
         /\ FirstMem(job, r)[k] = IF job.op = "transpose" THEN <<r, k>> ELSE Blank
         /\ job.op # "scatter" => /\ MemLen(job, r) > 0 => MemLen(job, r) = w * n
                                  /\ Row(k, n) \in Ranks
                                  /\ Off(k, n) \in 0 .. n - 1
                                  /\ k = Row(k, n) * n + Off(k, n)
         /\ Place(k) \in 0 .. n - 1
<1>1. n \in Nat /\ w \in Nat \ {0} /\ w * n \in Nat /\ r \in Nat
  BY JobSizes DEF Ranks, RanksOf, w
<1>2. MemLen(job, r) \in {0, n, w * n} /\ (job.op # "scatter" => MemLen(job, r) \in {0, w * n})
  BY JobSizes DEF MemLen, n, w
<1>3. MemLen(job, r) \in Nat
  BY <1>1, <1>2
<1>4. ASSUME job.op # "scatter"
      PROVE  /\ MemLen(job, r) = w * n
             /\ Row(k, n) \in Ranks /\ Off(k, n) \in 0 .. n - 1
             /\ k = Row(k, n) * n + Off(k, n)
  <2>1. MemLen(job, r) = w * n
    BY <1>1, <1>2, <1>4
  <2> QED
    BY <1>1, <2>1, IndexHasRow DEF Ranks, RanksOf, w
<1>5. Place(k) \in 0 .. n - 1
  BY <1>4, JobSizes DEF Place, MemLen, n
<1>6. FirstMem(job, r)[k] = IF job.op = "transpose" THEN <<r, k>> ELSE Blank
  BY DEF FirstMem
<1>7. FirstMem(job, r)[k] \in Byte
  BY <1>1, <1>3, <1>6 DEF Byte, Blank
<1>8. Target(r, k) \in Byte
  <2>1. CASE job.op = "gather"
    BY <1>4, <2>1 DEF Target, LocalByte, Byte, Ranks, RanksOf
  <2>2. CASE job.op = "scatter"
    <3>1. r * n + k \in Int
      BY <1>1
    <3> QED
      BY <2>2, <3>1, <1>1 DEF Target, SendByte, Byte, ROOT_RANK
  <2>3. CASE job.op = "transpose"
    <3>1. r * n + Off(k, n) \in Nat
      BY <1>1, <1>4, <2>3
    <3> QED
      BY <1>4, <2>3, <3>1 DEF Target, Byte, Ranks, RanksOf
  <2> QED
    BY <2>1, <2>2, <2>3, JobSizes
<1> QED
  BY <1>3, <1>4, <1>5, <1>6, <1>7, <1>8

(* A step that leaves each vector right for the new count of moved bytes   *)
(* preserves what the invariant says of the memory.                        *)
LEMMA MemoryAfterStep ==
  ASSUME job \in Jobs, job' = job,
         mem' = [r \in Ranks |-> mem'[r]],
         \A r \in Ranks :
           /\ mem'[r] = [k \in 0 .. MemLen(job, r) - 1 |-> mem'[r][k]]
           /\ \A k \in 0 .. MemLen(job, r) - 1 :
                mem'[r][k] = IF Place(k) < Moved' THEN Target(r, k) ELSE FirstMem(job, r)[k]
  PROVE  /\ EachByteInItsPlace'
         /\ mem' = [r \in Ranks' |-> mem'[r]]
         /\ \A r \in Ranks' : mem'[r] \in [0 .. MemLen(job', r) - 1 -> Byte]
<1>1. ASSUME NEW r \in Ranks
      PROVE  /\ mem'[r] \in [0 .. MemLen(job, r) - 1 -> Byte]
             /\ DOMAIN mem'[r] = 0 .. MemLen(job, r) - 1
  <2>1. ASSUME NEW k \in 0 .. MemLen(job, r) - 1 PROVE mem'[r][k] \in Byte
    BY <1>1, <2>1, BytesAreBytes
  <2> QED
    BY <1>1, <2>1
<1>2. \A r \in Ranks : \A k \in DOMAIN mem'[r] :
        mem'[r][k] = IF Place(k)' < Moved' THEN Target(r, k)' ELSE FirstMem(job', r)[k]
  <2>1. \A r, k : Target(r, k)' = Target(r, k) /\ Place(k)' = Place(k)
    BY JobStays
  <2>2. ASSUME NEW r \in Ranks, NEW k \in DOMAIN mem'[r]
        PROVE  mem'[r][k] = IF Place(k)' < Moved' THEN Target(r, k)' ELSE FirstMem(job', r)[k]
    <3>1. k \in 0 .. MemLen(job, r) - 1
      BY <1>1, <2>2
    <3>2. mem'[r][k] = IF Place(k) < Moved' THEN Target(r, k) ELSE FirstMem(job, r)[k]
      BY <2>2, <3>1
    <3>3. Target(r, k)' = Target(r, k) /\ Place(k)' = Place(k)
      BY <2>1
    <3>4. FirstMem(job', r) = FirstMem(job, r)
      OBVIOUS
    <3> QED
      BY <3>2, <3>3, <3>4
  <2> QED
    BY <2>2
<1>3. EachByteInItsPlace'
  BY <1>2, JobStays DEF EachByteInItsPlace
<1> QED
  BY <1>1, <1>3, JobStays

(* Before the call nothing has been moved and nothing has been promised.   *)
LEMMA InitIInv == Init => IInv
<1> SUFFICES ASSUME Init PROVE IInv
  OBVIOUS
<1>1. job \in Jobs /\ round = 0 /\ copyStarts = 0
  BY DEF Init
<1>2. /\ n \in Nat /\ w \in Nat \ {0} /\ n * w \in Nat
      /\ NRounds \in Nat /\ NChunks \in Nat /\ NTransposes \in Nat
  BY <1>1, JobSizes
<1>3. mem = [r \in Ranks |-> FirstMem(job, r)]
  BY DEF Init, Ranks
<1>4. size \in Nat /\ (job.op # "transpose" => size = CHUNK_SIZE * w)
      /\ (job.op = "transpose" => size = SEND_BUFFER_MAX)
  BY <1>2, ChunksAssumption DEF Init, w
<1>5. ASSUME NEW r \in Ranks
      PROVE  mem[r] \in [0 .. MemLen(job, r) - 1 -> Byte]
  <2>1. mem[r] = FirstMem(job, r)
    BY <1>3
  <2>2. \A k \in 0 .. MemLen(job, r) - 1 : FirstMem(job, r)[k] \in Byte
    BY <1>1, BytesAreBytes
  <2> QED
    BY <2>1, <2>2 DEF FirstMem
<1>6. ChunksTypeOK
  BY <1>1, <1>2, <1>3, <1>4, <1>5 DEF ChunksTypeOK
<1>7. NTransposes = 0 => n = 0
  <2>1. n * w <= NTransposes * SEND_BUFFER_MAX
    BY <1>2, DivCeilBounds, ChunksAssumption DEF NTransposes
  <2>2. n # 0 => n * w # 0
    BY <1>2
  <2> QED
    BY <1>2, <2>1, <2>2, ChunksAssumption
<1>8. RoundsInStep
  <2>1. SEND_BUFFER_MAX \div w \in Nat
    BY <1>2, ChunksAssumption
  <2>2. 0 * (SEND_BUFFER_MAX \div w) = 0
    BY <2>1
  <2> QED
    BY <1>1, <1>4, <1>7, <2>2 DEF RoundsInStep
<1>9. EachByteInItsPlace
  <2>1. Moved <= 0
    <3>1. NChunks = 0 => n = 0
      <4>1. n <= NChunks * CHUNK_SIZE
        BY <1>2, DivCeilBounds, ChunksAssumption DEF NChunks
      <4> QED
        BY <1>2, <4>1, ChunksAssumption
    <3>2. 0 * CHUNK_SIZE = 0
      BY ChunksAssumption
    <3> QED
      BY <1>1, <1>2, <3>1, <3>2 DEF Moved, ChunkStart
  <2>2. Moved \in Int
    <3>1. ChunkStart \in Int
      BY <1>1, ChunksAssumption DEF ChunkStart
    <3> QED
      BY <1>1, <1>2, <3>1 DEF Moved
  <2>3. ASSUME NEW r \in Ranks, NEW k \in 0 .. MemLen(job, r) - 1
        PROVE  ~(Place(k) < Moved)
    <3>1. Place(k) \in 0 .. n - 1
      BY <1>1, BytesAreBytes
    <3> QED
      BY <1>2, <2>1, <2>2, <3>1
  <2>4. \A r \in Ranks : DOMAIN mem[r] = 0 .. MemLen(job, r) - 1 /\ mem[r] = FirstMem(job, r)
    BY <1>3, <1>5
  <2> QED
    BY <2>3, <2>4 DEF EachByteInItsPlace
<1> QED
  BY <1>6, <1>8, <1>9 DEF IInv

(* The rest of the invariant after a step of a gather or a scatter.        *)
LEMMA RoundsAfterChunk ==
  ASSUME IInv, job' = job, job.op # "transpose", copyStarts' = copyStarts,
         round < NChunks,
         \/ round' = NChunks /\ size' = size
         \/ round' = round + 1 /\ size' = ChunkBuffer
  PROVE  RoundsInStep' /\ round' \in 0 .. NRounds' /\ size' \in Nat /\ copyStarts' \in 0 .. n'
<1>1. /\ job \in Jobs /\ round \in Nat /\ size \in Nat /\ copyStarts = 0
      /\ size = CHUNK_SIZE * w /\ NRounds = NChunks
  BY JobSizes DEF IInv, ChunksTypeOK, RoundsInStep, NRounds
<1>2. n \in Nat /\ NChunks \in Nat /\ w \in Nat
  BY <1>1, JobSizes
<1>3. ChunkBuffer \in Nat /\ (round + 1 < NChunks => ChunkBuffer = CHUNK_SIZE * w)
  <2>1. /\ ChunkLen \in Nat /\ ChunkBuffer = w * ChunkLen
        /\ round + 1 < NChunks => ChunkBuffer = CHUNK_SIZE * w
    BY <1>1, ChunkOfRound
  <2> QED
    BY <1>2, <2>1
<1>4. n' = n /\ w' = w /\ NChunks' = NChunks /\ NRounds' = NRounds /\ job'.op # "transpose"
  BY JobStays
<1> QED
  BY <1>1, <1>2, <1>3, <1>4 DEF RoundsInStep

LEMMA GatherWholeStep == IInv /\ GatherWhole => IInv'
<1> SUFFICES ASSUME IInv, GatherWhole PROVE IInv'
  OBVIOUS
<1>1. /\ job \in Jobs /\ job' = job /\ job.op = "gather" /\ round < NChunks
      /\ round' = NChunks /\ size' = size /\ copyStarts' = copyStarts
  BY DEF GatherWhole, IInv, ChunksTypeOK
<1>2. n \in Nat /\ w \in Nat \ {0} /\ ROOT_RANK \in Ranks
  BY <1>1, JobSizes DEF ROOT_RANK, Ranks, RanksOf, w
<1>3. Moved' = n
  BY <1>1, JobStays DEF Moved
<1>4. /\ mem = [r \in Ranks |-> mem[r]]
      /\ \A r \in Ranks : mem[r] \in [0 .. MemLen(job, r) - 1 -> Byte]
  BY DEF IInv, ChunksTypeOK
<1>5. mem' = [mem EXCEPT ![ROOT_RANK] =
               [k \in 0 .. w * n - 1 |-> LocalByte(Row(k, n), Off(k, n))]]
  BY DEF GatherWhole
<1>6. mem' = [r \in Ranks |-> mem'[r]]
  BY <1>4, <1>5
<1>7. ASSUME NEW r \in Ranks
      PROVE  /\ mem'[r] = [k \in 0 .. MemLen(job, r) - 1 |-> mem'[r][k]]
             /\ \A k \in 0 .. MemLen(job, r) - 1 :
                  mem'[r][k] = IF Place(k) < Moved' THEN Target(r, k) ELSE FirstMem(job, r)[k]
  <2>1. CASE r = ROOT_RANK
    <3>1. MemLen(job, r) = w * n
      BY <1>1, <2>1 DEF MemLen, w, n
    <3>2. mem'[r] = [k \in 0 .. w * n - 1 |-> LocalByte(Row(k, n), Off(k, n))]
      BY <1>2, <1>4, <1>5, <2>1
    <3>3. ASSUME NEW k \in 0 .. w * n - 1
          PROVE  mem'[r][k] = Target(r, k) /\ Place(k) < Moved'
      <4>1. Place(k) \in 0 .. n - 1
        BY <1>1, <1>7, <3>1, BytesAreBytes
      <4> QED
        BY <1>1, <1>2, <1>3, <3>2, <4>1 DEF Target
    <3> QED
      BY <3>1, <3>2, <3>3
  <2>2. CASE r # ROOT_RANK
    <3>1. MemLen(job, r) = 0 /\ mem'[r] = mem[r]
      BY <1>1, <1>4, <1>5, <1>7, <2>2 DEF MemLen
    <3>2. 0 .. MemLen(job, r) - 1 = {}
      BY <3>1
    <3> QED
      BY <1>4, <1>7, <3>1, <3>2
  <2> QED
    BY <2>1, <2>2
<1>8. /\ EachByteInItsPlace' /\ mem' = [r \in Ranks' |-> mem'[r]]
      /\ \A r \in Ranks' : mem'[r] \in [0 .. MemLen(job', r) - 1 -> Byte]
  BY <1>1, <1>6, <1>7, MemoryAfterStep
<1>9. RoundsInStep' /\ round' \in 0 .. NRounds' /\ size' \in Nat /\ copyStarts' \in 0 .. n'
  BY <1>1, RoundsAfterChunk
<1> QED
  BY <1>1, <1>8, <1>9 DEF IInv, ChunksTypeOK

LEMMA ScatterWholeStep == IInv /\ ScatterWhole => IInv'
<1> SUFFICES ASSUME IInv, ScatterWhole PROVE IInv'
  OBVIOUS
<1>1. /\ job \in Jobs /\ job' = job /\ job.op = "scatter" /\ round < NChunks
      /\ round' = NChunks /\ size' = size /\ copyStarts' = copyStarts
  BY DEF ScatterWhole, IInv, ChunksTypeOK
<1>2. Moved' = n
  BY <1>1, JobStays DEF Moved
<1>3. mem' = [r \in Ranks |-> [k \in 0 .. n - 1 |-> SendByte(r * n + k)]]
  BY DEF ScatterWhole
<1>4. mem' = [r \in Ranks |-> mem'[r]]
  BY <1>3
<1>5. n \in Nat
  BY <1>1, JobSizes
<1>6. ASSUME NEW r \in Ranks
      PROVE  /\ mem'[r] = [k \in 0 .. MemLen(job, r) - 1 |-> mem'[r][k]]
             /\ \A k \in 0 .. MemLen(job, r) - 1 :
                  mem'[r][k] = IF Place(k) < Moved' THEN Target(r, k) ELSE FirstMem(job, r)[k]
  <2>1. MemLen(job, r) = n
    BY <1>1 DEF MemLen, n
  <2>2. mem'[r] = [k \in 0 .. n - 1 |-> SendByte(r * n + k)]
    BY <1>3, <1>6
  <2>3. ASSUME NEW k \in 0 .. n - 1
        PROVE  mem'[r][k] = Target(r, k) /\ Place(k) < Moved'
    BY <1>1, <1>2, <1>5, <2>2 DEF Target, Place
  <2> QED
    BY <2>1, <2>2, <2>3
<1>7. /\ EachByteInItsPlace' /\ mem' = [r \in Ranks' |-> mem'[r]]
      /\ \A r \in Ranks' : mem'[r] \in [0 .. MemLen(job', r) - 1 -> Byte]
  BY <1>1, <1>4, <1>6, MemoryAfterStep
<1>8. RoundsInStep' /\ round' \in 0 .. NRounds' /\ size' \in Nat /\ copyStarts' \in 0 .. n'
  BY <1>1, RoundsAfterChunk
<1> QED
  BY <1>1, <1>7, <1>8 DEF IInv, ChunksTypeOK

(* A chunk takes the bytes from ChunkStart up to ChunkEnd.                 *)
LEMMA ChunkMoves ==
  ASSUME IInv, job' = job, job.op # "transpose", round < NChunks, round' = round + 1
  PROVE  /\ Moved = ChunkStart /\ Moved' = ChunkEnd
         /\ size = CHUNK_SIZE * w /\ round \in Nat
<1>1. /\ job \in Jobs /\ round \in Nat /\ size = CHUNK_SIZE * w
  BY JobSizes DEF IInv, ChunksTypeOK, RoundsInStep, NRounds
<1>2. n' = n /\ NChunks' = NChunks /\ NChunks \in Nat
  BY <1>1, JobStays, JobSizes
<1>3. Moved = ChunkStart
  BY <1>1, <1>2 DEF Moved
<1>4. ChunkEnd = IF round + 1 = NChunks THEN n ELSE (round + 1) * CHUNK_SIZE
  BY <1>1, ChunkOfRound
<1>5. ChunkStart' = (round + 1) * CHUNK_SIZE
  BY DEF ChunkStart
<1>6. Moved' = IF round' = NChunks THEN n ELSE ChunkStart'
  BY <1>2 DEF Moved
<1> QED
  BY <1>1, <1>3, <1>4, <1>5, <1>6

(* A place of a short row, in a dense buffer of such rows.                 *)
LEMMA DenseIndex ==
  ASSUME NEW m \in Nat, NEW s \in Nat, NEW j \in 0 .. m - 1, NEW x \in 0 .. s - 1
  PROVE  j * s + x \in 0 .. m * s - 1
<1>1. (j + 1) * s <= m * s /\ (j + 1) * s = j * s + s
  <2>1. j + 1 <= m /\ j \in Nat
    OBVIOUS
  <2> QED
    BY <2>1
<1>2. j * s \in Nat /\ m * s \in Nat
  OBVIOUS
<1> QED
  BY <1>1, <1>2

(* What the root finds in its buffer when the room is the chunk's.         *)
LEMMA GatheredAt ==
  ASSUME w \in Nat, NEW s \in Nat, NEW j \in 0 .. w - 1, NEW x \in 0 .. s - 1
  PROVE  Gathered(s, s)[j * s + x] = LocalByte(j, ChunkStart + x)
<1> DEFINE k == j * s + x
<1>1. k \in 0 .. w * s - 1
  BY DenseIndex
<1>2. Row(k, s) = j /\ Off(k, s) = x
  <2>1. j \in Nat
    OBVIOUS
  <2> QED
    BY <2>1, RowOfIndex
<1> HIDE DEF k
<1>3. Gathered(s, s)[k] = IF Off(k, s) < s THEN LocalByte(Row(k, s), ChunkStart + Off(k, s))
                                          ELSE Blank
  BY <1>1 DEF Gathered
<1>4. x < s
  OBVIOUS
<1>5. Gathered(s, s)[k] = LocalByte(j, ChunkStart + x)
  BY <1>2, <1>3, <1>4
<1> QED
  BY <1>5 DEF k

LEMMA GatherChunkStep == IInv /\ GatherChunk => IInv'
<1> SUFFICES ASSUME IInv, GatherChunk PROVE IInv'
  OBVIOUS
<1>1. /\ job \in Jobs /\ job' = job /\ job.op = "gather" /\ round < NChunks
      /\ round' = round + 1 /\ size' = ChunkBuffer /\ copyStarts' = copyStarts
  BY DEF GatherChunk, IInv, ChunksTypeOK
<1>2. /\ Moved = ChunkStart /\ Moved' = ChunkEnd
      /\ size = CHUNK_SIZE * w /\ round \in Nat
  BY <1>1, ChunkMoves
<1>3. /\ ChunkStart \in Nat /\ ChunkEnd \in Nat /\ ChunkLen \in Nat \ {0}
      /\ ChunkEnd <= n /\ ChunkEnd = ChunkStart + ChunkLen /\ ChunkBuffer = w * ChunkLen
  BY <1>1, <1>2, ChunkOfRound
<1>4. n \in Nat /\ w \in Nat \ {0} /\ ROOT_RANK \in Ranks
  BY <1>1, JobSizes DEF ROOT_RANK, Ranks, RanksOf, w
<1>5. size' \div w = ChunkLen
  <2>1. (w * ChunkLen) \div w = ChunkLen
    BY <1>3, <1>4, EvenShare
  <2> QED
    BY <1>1, <1>3, <2>1
<1>6. mem' = [mem EXCEPT ![ROOT_RANK] =
           [k \in 0 .. w * n - 1 |->
              IF ChunkStart <= Off(k, n) /\ Off(k, n) < ChunkEnd
              THEN Gathered(ChunkLen, ChunkLen)[Row(k, n) * ChunkLen + Off(k, n) - ChunkStart]
              ELSE mem[ROOT_RANK][k]]]
  BY <1>5 DEF GatherChunk
<1>7. /\ mem = [r \in Ranks |-> mem[r]]
      /\ \A r \in Ranks : mem[r] \in [0 .. MemLen(job, r) - 1 -> Byte]
      /\ EachByteInItsPlace
  BY DEF IInv, ChunksTypeOK
<1>8. mem' = [r \in Ranks |-> mem'[r]]
  BY <1>6, <1>7
<1>9. ASSUME NEW r \in Ranks
      PROVE  /\ mem'[r] = [k \in 0 .. MemLen(job, r) - 1 |-> mem'[r][k]]
             /\ \A k \in 0 .. MemLen(job, r) - 1 :
                  mem'[r][k] = IF Place(k) < Moved' THEN Target(r, k) ELSE FirstMem(job, r)[k]
  <2>1. CASE r = ROOT_RANK
    <3>1. MemLen(job, r) = w * n
      BY <1>1, <2>1 DEF MemLen, w, n
    <3>2. mem'[r] = [k \in 0 .. w * n - 1 |->
              IF ChunkStart <= Off(k, n) /\ Off(k, n) < ChunkEnd
              THEN Gathered(ChunkLen, ChunkLen)[Row(k, n) * ChunkLen + Off(k, n) - ChunkStart]
              ELSE mem[r][k]]
      BY <1>4, <1>6, <1>7, <2>1
    <3>3. ASSUME NEW k \in 0 .. w * n - 1
          PROVE  mem'[r][k] = IF Place(k) < Moved' THEN Target(r, k) ELSE FirstMem(job, r)[k]
      <4>1. /\ Row(k, n) \in 0 .. w - 1 /\ Off(k, n) \in 0 .. n - 1
            /\ Place(k) = Off(k, n) /\ Target(r, k) = LocalByte(Row(k, n), Off(k, n))
        BY <1>1, <1>4, IndexHasRow DEF Place, Target
      <4>2. mem[r][k] = IF Off(k, n) < ChunkStart THEN Target(r, k) ELSE FirstMem(job, r)[k]
        <5>1. k \in DOMAIN mem[r]
          BY <1>7, <1>9, <3>1, <3>3
        <5> QED
          BY <1>2, <1>7, <1>9, <4>1, <5>1 DEF EachByteInItsPlace
      <4>3. CASE ChunkStart <= Off(k, n) /\ Off(k, n) < ChunkEnd
        <5> DEFINE x == Off(k, n) - ChunkStart
        <5>1. x \in 0 .. ChunkLen - 1
          BY <1>3, <4>1, <4>3
        <5>2. Gathered(ChunkLen, ChunkLen)[Row(k, n) * ChunkLen + x] =
                LocalByte(Row(k, n), ChunkStart + x)
          <6> HIDE DEF x
          <6> QED
            BY <1>3, <1>4, <4>1, <5>1, GatheredAt
        <5>3. Row(k, n) * ChunkLen + Off(k, n) - ChunkStart = Row(k, n) * ChunkLen + x
          BY <1>3, <4>1
        <5>4. ChunkStart + x = Off(k, n)
          BY <1>3, <4>1
        <5>5. mem'[r][k] = LocalByte(Row(k, n), Off(k, n))
          BY <3>2, <3>3, <4>3, <5>2, <5>3, <5>4
        <5> QED
          BY <1>2, <4>1, <4>3, <5>5
      <4>4. CASE ~(ChunkStart <= Off(k, n) /\ Off(k, n) < ChunkEnd)
        <5>1. mem'[r][k] = mem[r][k]
          BY <3>2, <3>3, <4>4
        <5> QED
          BY <1>2, <1>3, <4>1, <4>2, <4>4, <5>1
      <4> QED
        BY <4>3, <4>4
    <3> QED
      BY <3>1, <3>2, <3>3
  <2>2. CASE r # ROOT_RANK
    <3>1. MemLen(job, r) = 0 /\ mem'[r] = mem[r]
      BY <1>1, <1>6, <1>7, <1>9, <2>2 DEF MemLen
    <3>2. 0 .. MemLen(job, r) - 1 = {}
      BY <3>1
    <3> QED
      BY <1>7, <1>9, <3>1, <3>2
  <2> QED
    BY <2>1, <2>2
<1>10. /\ EachByteInItsPlace' /\ mem' = [r \in Ranks' |-> mem'[r]]
       /\ \A r \in Ranks' : mem'[r] \in [0 .. MemLen(job', r) - 1 -> Byte]
  BY <1>1, <1>8, <1>9, MemoryAfterStep
<1>11. RoundsInStep' /\ round' \in 0 .. NRounds' /\ size' \in Nat /\ copyStarts' \in 0 .. n'
  BY <1>1, RoundsAfterChunk
<1> QED
  BY <1>1, <1>10, <1>11 DEF IInv, ChunksTypeOK

(* What the root packs for a rank.                                         *)
LEMMA PackedAt ==
  ASSUME w \in Nat, NEW s \in Nat, NEW j \in 0 .. w - 1, NEW x \in 0 .. s - 1
  PROVE  /\ j * s + x \in 0 .. w * s - 1
         /\ Packed(s)[j * s + x] = SendByte(j * n + ChunkStart + x)
<1> DEFINE k == j * s + x
<1>1. k \in 0 .. w * s - 1
  BY DenseIndex
<1>2. Row(k, s) = j /\ Off(k, s) = x
  <2>1. j \in Nat
    OBVIOUS
  <2> QED
    BY <2>1, RowOfIndex
<1> HIDE DEF k
<1>3. Packed(s)[k] = SendByte(Row(k, s) * n + ChunkStart + Off(k, s))
  BY <1>1 DEF Packed
<1>4. Packed(s)[k] = SendByte(j * n + ChunkStart + x)
  BY <1>2, <1>3
<1> QED
  BY <1>1, <1>4 DEF k

LEMMA ScatterChunkStep == IInv /\ ScatterChunk => IInv'
<1> SUFFICES ASSUME IInv, ScatterChunk PROVE IInv'
  OBVIOUS
<1>1. /\ job \in Jobs /\ job' = job /\ job.op = "scatter" /\ round < NChunks
      /\ round' = round + 1 /\ size' = ChunkBuffer /\ copyStarts' = copyStarts
  BY DEF ScatterChunk, IInv, ChunksTypeOK
<1>2. /\ Moved = ChunkStart /\ Moved' = ChunkEnd
      /\ size = CHUNK_SIZE * w /\ round \in Nat
  BY <1>1, ChunkMoves
<1>3. /\ ChunkStart \in Nat /\ ChunkEnd \in Nat /\ ChunkLen \in Nat \ {0}
      /\ ChunkEnd <= n /\ ChunkEnd = ChunkStart + ChunkLen /\ ChunkBuffer = w * ChunkLen
  BY <1>1, <1>2, ChunkOfRound
<1>4. n \in Nat /\ w \in Nat \ {0}
  BY <1>1, JobSizes
<1>5. size' \div w = ChunkLen
  <2>1. (w * ChunkLen) \div w = ChunkLen
    BY <1>3, <1>4, EvenShare
  <2> QED
    BY <1>1, <1>3, <2>1
<1>6. mem' = [r \in Ranks |->
           [k \in 0 .. n - 1 |->
              IF ChunkStart <= k /\ k < ChunkEnd
              THEN IF r * ChunkLen + k - ChunkStart < w * ChunkLen
                   THEN Packed(ChunkLen)[r * ChunkLen + k - ChunkStart] ELSE Blank
              ELSE mem[r][k]]]
  BY <1>5 DEF ScatterChunk
<1>7. /\ \A r \in Ranks : mem[r] \in [0 .. MemLen(job, r) - 1 -> Byte]
      /\ EachByteInItsPlace
  BY DEF IInv, ChunksTypeOK
<1>8. mem' = [r \in Ranks |-> mem'[r]]
  BY <1>6
<1>9. ASSUME NEW r \in Ranks
      PROVE  /\ mem'[r] = [k \in 0 .. MemLen(job, r) - 1 |-> mem'[r][k]]
             /\ \A k \in 0 .. MemLen(job, r) - 1 :
                  mem'[r][k] = IF Place(k) < Moved' THEN Target(r, k) ELSE FirstMem(job, r)[k]
  <2>1. MemLen(job, r) = n
    BY <1>1 DEF MemLen, n
  <2>2. mem'[r] =
           [k \in 0 .. n - 1 |->
              IF ChunkStart <= k /\ k < ChunkEnd
              THEN IF r * ChunkLen + k - ChunkStart < w * ChunkLen
                   THEN Packed(ChunkLen)[r * ChunkLen + k - ChunkStart] ELSE Blank
              ELSE mem[r][k]]
    BY <1>6, <1>9
  <2>3. r \in 0 .. w - 1 /\ r \in Nat
    BY <1>4, <1>9 DEF Ranks, RanksOf, w
  <2>4. ASSUME NEW k \in 0 .. n - 1
        PROVE  mem'[r][k] = IF Place(k) < Moved' THEN Target(r, k) ELSE FirstMem(job, r)[k]
    <3>1. Place(k) = k /\ Target(r, k) = SendByte(r * n + k)
      BY <1>1 DEF Place, Target
    <3>2. mem[r][k] = IF k < ChunkStart THEN Target(r, k) ELSE FirstMem(job, r)[k]
      <4>1. k \in DOMAIN mem[r]
        BY <1>7, <1>9, <2>1, <2>4
      <4> QED
        BY <1>2, <1>7, <1>9, <3>1, <4>1 DEF EachByteInItsPlace
    <3>3. CASE ChunkStart <= k /\ k < ChunkEnd
      <4> DEFINE x == k - ChunkStart
      <4>1. x \in 0 .. ChunkLen - 1
        BY <1>3, <3>3
      <4>2. ChunkStart + x = k
        BY <1>3
      <4>3. r * ChunkLen \in Nat /\ r * n \in Nat /\ w * ChunkLen \in Nat
        BY <1>3, <1>4, <2>3
      <4>4. r * ChunkLen + k - ChunkStart = r * ChunkLen + x
        BY <1>3, <4>3
      <4>5. r * n + ChunkStart + x = r * n + k
        BY <1>3, <4>3
      <4> HIDE DEF x
      <4>6. /\ r * ChunkLen + x \in 0 .. w * ChunkLen - 1
            /\ Packed(ChunkLen)[r * ChunkLen + x] = SendByte(r * n + ChunkStart + x)
        BY <1>3, <1>4, <2>3, <4>1, PackedAt
      <4>7. r * ChunkLen + x < w * ChunkLen
        BY <4>3, <4>6
      <4>8. mem'[r][k] = SendByte(r * n + k)
        BY <2>2, <2>4, <3>3, <4>4, <4>5, <4>6, <4>7
      <4> QED
        BY <1>2, <3>1, <3>3, <4>8
    <3>4. CASE ~(ChunkStart <= k /\ k < ChunkEnd)
      <4>1. mem'[r][k] = mem[r][k]
        BY <2>2, <2>4, <3>4
      <4> QED
        BY <1>2, <1>3, <2>4, <3>1, <3>2, <3>4, <4>1
    <3> QED
      BY <3>3, <3>4
  <2> QED
    BY <2>1, <2>2, <2>4
<1>10. /\ EachByteInItsPlace' /\ mem' = [r \in Ranks' |-> mem'[r]]
       /\ \A r \in Ranks' : mem'[r] \in [0 .. MemLen(job', r) - 1 -> Byte]
  BY <1>1, <1>8, <1>9, MemoryAfterStep
<1>11. RoundsInStep' /\ round' \in 0 .. NRounds' /\ size' \in Nat /\ copyStarts' \in 0 .. n'
  BY <1>1, RoundsAfterChunk
<1> QED
  BY <1>1, <1>10, <1>11 DEF IInv, ChunksTypeOK

(* What a rank receives from another in a round of the transpose.          *)
LEMMA ReceivedAt ==
  ASSUME w \in Nat, SendPerWorld \in Nat, NEW r \in 0 .. w - 1,
         NEW j \in 0 .. w - 1, NEW x \in 0 .. SendPerWorld - 1
  PROVE  Received(r)[j * SendPerWorld + x] = mem[j][r * n + copyStarts + x]
<1> DEFINE s == SendPerWorld
           k == j * s + x
           l == r * s + x
<1>1. r \in Nat /\ j \in Nat
  OBVIOUS
<1>2. s \in Nat /\ x \in 0 .. s - 1
  OBVIOUS
<1> HIDE DEF s
<1>3. k \in 0 .. w * s - 1 /\ l \in 0 .. w * s - 1
  BY <1>2, DenseIndex
<1>4. Row(k, s) = j /\ Off(k, s) = x /\ Row(l, s) = r /\ Off(l, s) = x
  BY <1>1, <1>2, RowOfIndex
<1> HIDE DEF k
<1>5. Received(r)[k] = Sent(Row(k, s))[r * s + Off(k, s)]
  BY <1>3 DEF Received, s
<1>6. Received(r)[k] = Sent(j)[l]
  BY <1>4, <1>5
<1> HIDE DEF l
<1>7. Sent(j)[l] = mem[j][Row(l, s) * n + copyStarts + Off(l, s)]
  BY <1>3 DEF Sent, s
<1>8. Received(r)[k] = mem[j][r * n + copyStarts + x]
  BY <1>4, <1>6, <1>7
<1> QED
  BY <1>8 DEF k, s

LEMMA TransposePieceStep == IInv /\ TransposePiece => IInv'
<1> SUFFICES ASSUME IInv, TransposePiece PROVE IInv'
  OBVIOUS
<1> DEFINE s == SendPerWorld
<1>1. /\ job \in Jobs /\ job' = job /\ job.op = "transpose" /\ round < NTransposes
      /\ round' = round + 1 /\ size' = SendBuffer /\ copyStarts' = copyStarts + s
      /\ mem' = [r \in Ranks |-> Transposed(r)]
  BY DEF TransposePiece, IInv, ChunksTypeOK
<1>2. /\ round \in Nat /\ size = SEND_BUFFER_MAX
      /\ copyStarts = round * (SEND_BUFFER_MAX \div w)
  BY <1>1, JobSizes DEF IInv, ChunksTypeOK, RoundsInStep, NRounds
<1>3. /\ copyStarts \in Nat /\ s \in Nat /\ copyStarts + s <= n
      /\ SendBuffer \in Nat
      /\ IF round + 1 = NTransposes
         THEN copyStarts + s = n
         ELSE /\ copyStarts + s = (round + 1) * (SEND_BUFFER_MAX \div w)
              /\ SendBuffer = SEND_BUFFER_MAX
  BY <1>1, <1>2, PieceOfRound
<1>4. /\ n \in Nat /\ w \in Nat \ {0} /\ NTransposes \in Nat /\ w * n \in Nat
      /\ Ranks = 0 .. w - 1
  BY <1>1, JobSizes DEF Ranks, RanksOf, w
<1>5. Moved = copyStarts /\ Moved' = copyStarts + s
  BY <1>1 DEF Moved
<1>6. /\ \A r \in Ranks : mem[r] \in [0 .. MemLen(job, r) - 1 -> Byte]
      /\ EachByteInItsPlace
  BY DEF IInv, ChunksTypeOK
<1>7. mem' = [r \in Ranks |-> mem'[r]]
  BY <1>1
<1>8. ASSUME NEW r \in Ranks PROVE MemLen(job, r) = w * n
  BY <1>1 DEF MemLen, w, n
<1>9. ASSUME NEW r \in Ranks, NEW k \in 0 .. w * n - 1
      PROVE  mem[r][k] = IF Off(k, n) < copyStarts THEN <<Row(k, n), r * n + Off(k, n)>>
                                                   ELSE <<r, k>>
  <2>1. k \in DOMAIN mem[r] /\ k \in 0 .. MemLen(job, r) - 1
    BY <1>6, <1>8, <1>9
  <2>2. /\ Place(k) = Off(k, n) /\ Target(r, k) = <<Row(k, n), r * n + Off(k, n)>>
        /\ FirstMem(job, r)[k] = <<r, k>>
    BY <1>1, <2>1 DEF Place, Target, FirstMem
  <2>3. mem[r][k] = IF Place(k) < Moved THEN Target(r, k) ELSE FirstMem(job, r)[k]
    BY <1>6, <1>9, <2>1 DEF EachByteInItsPlace
  <2> QED
    BY <1>5, <2>2, <2>3
<1>10. ASSUME NEW r \in Ranks
       PROVE  /\ mem'[r] = [k \in 0 .. MemLen(job, r) - 1 |-> mem'[r][k]]
              /\ \A k \in 0 .. MemLen(job, r) - 1 :
                   mem'[r][k] = IF Place(k) < Moved' THEN Target(r, k) ELSE FirstMem(job, r)[k]
  <2>1. mem'[r] = Transposed(r)
    BY <1>1, <1>10
  <2>2. mem'[r] = [k \in 0 .. w * n - 1 |->
           IF copyStarts <= Off(k, n) /\ Off(k, n) < copyStarts + s
           THEN Received(r)[Row(k, n) * s + Off(k, n) - copyStarts]
           ELSE mem[r][k]]
    BY <2>1 DEF Transposed
  <2>3. ASSUME NEW k \in 0 .. w * n - 1
        PROVE  mem'[r][k] = IF Place(k) < Moved' THEN Target(r, k) ELSE FirstMem(job, r)[k]
    <3> DEFINE j == Row(k, n)
               b == Off(k, n)
    <3>1. /\ Place(k) = b /\ Target(r, k) = <<j, r * n + b>>
          /\ FirstMem(job, r)[k] = <<r, k>>
      BY <1>1, <1>8, <1>10, <2>3 DEF Place, Target, FirstMem
    <3>2. j \in 0 .. w - 1 /\ b \in 0 .. n - 1
      BY <1>4, <2>3, IndexHasRow
    <3>3. mem[r][k] = IF b < copyStarts THEN <<j, r * n + b>> ELSE <<r, k>>
      BY <1>9, <1>10, <2>3
    <3>4. mem'[r][k] = IF copyStarts <= b /\ b < copyStarts + s
                       THEN Received(r)[j * s + b - copyStarts] ELSE mem[r][k]
      BY <2>2, <2>3
    <3>5. CASE copyStarts <= b /\ b < copyStarts + s
      <4> DEFINE x == b - copyStarts
      <4> HIDE DEF j, b
      <4>1. x \in 0 .. s - 1 /\ copyStarts + x = b
        BY <1>3, <3>2, <3>5
      <4>2. r \in 0 .. w - 1 /\ r \in Nat
        BY <1>4, <1>10
      <4>3. j * s \in Nat /\ r * n \in Nat
        BY <1>3, <1>4, <3>2, <4>2
      <4>4. j * s + b - copyStarts = j * s + x /\ r * n + copyStarts + x = r * n + b
        BY <1>3, <3>2, <4>1, <4>3
      <4> HIDE DEF x
      <4>5. Received(r)[j * s + x] = mem[j][r * n + copyStarts + x]
        BY <1>3, <1>4, <3>2, <4>1, <4>2, ReceivedAt
      <4>6. /\ r * n + b \in 0 .. w * n - 1
            /\ Off(r * n + b, n) = b
        BY <1>4, <3>2, <4>2, DenseIndex, RowOfIndex
      <4>7. mem[j][r * n + b] = <<j, r * n + b>>
        <5>1. j \in Ranks
          BY <1>4, <3>2
        <5>2. ~(b < copyStarts)
          BY <1>3, <3>2, <3>5
        <5> QED
          BY <1>9, <4>6, <5>1, <5>2
      <4>8. mem'[r][k] = Target(r, k)
        BY <3>1, <3>4, <3>5, <4>4, <4>5, <4>7
      <4> QED
        BY <1>5, <3>1, <3>5, <4>8
    <3>6. CASE ~(copyStarts <= b /\ b < copyStarts + s)
      <4> HIDE DEF j, b
      <4>1. mem'[r][k] = mem[r][k]
        BY <3>4, <3>6
      <4>2. b < copyStarts <=> b < copyStarts + s
        BY <1>3, <3>2, <3>6
      <4> QED
        BY <1>5, <3>1, <3>3, <4>1, <4>2
    <3> QED
      BY <3>5, <3>6
  <2> QED
    BY <1>8, <1>10, <2>2, <2>3
<1>11. /\ EachByteInItsPlace' /\ mem' = [r \in Ranks' |-> mem'[r]]
       /\ \A r \in Ranks' : mem'[r] \in [0 .. MemLen(job', r) - 1 -> Byte]
  BY <1>1, <1>7, <1>10, MemoryAfterStep
<1>12. /\ n' = n /\ w' = w /\ NTransposes' = NTransposes /\ NRounds' = NTransposes
  BY <1>1, JobStays DEF NRounds
<1>13. RoundsInStep'
  BY <1>1, <1>3, <1>12 DEF RoundsInStep
<1>14. round' \in 0 .. NRounds' /\ size' \in Nat /\ copyStarts' \in 0 .. n'
  BY <1>1, <1>2, <1>3, <1>4, <1>12
<1> QED
  BY <1>1, <1>11, <1>13, <1>14 DEF IInv, ChunksTypeOK

-----------------------------------------------------------------------------
LEMMA NextKeepsIInv == IInv /\ [Next]_vars => IInv'
<1> SUFFICES ASSUME IInv, [Next]_vars PROVE IInv'
  OBVIOUS
<1>1. CASE UNCHANGED vars
  <2>1. job' = job /\ round' = round /\ size' = size /\ copyStarts' = copyStarts /\ mem' = mem
    BY <1>1 DEF vars
  <2> QED
    BY <2>1, ZenonT(60) DEF IInv, ChunksTypeOK, RoundsInStep, EachByteInItsPlace, NRounds, NTransposes,
                NChunks, Moved, Place, Target, ChunkStart, Ranks, n, w, LocalByte, SendByte
<1>2. CASE Next
  <2>1. CASE Returned
    BY <1>1, <2>1 DEF Returned
  <2> QED
    BY <1>2, <2>1, GatherWholeStep, GatherChunkStep, ScatterWholeStep, ScatterChunkStep,
       TransposePieceStep DEF Next
<1> QED
  BY <1>1, <1>2

LEMMA IInvHolds == Spec => []IInv
BY InitIInv, NextKeepsIInv, PTL DEF Spec

(* The operations keep to their types: no index leaves its vector.         *)
THEOREM ChunksTypeCorrect == Spec => []ChunksTypeOK
<1>1. IInv => ChunksTypeOK
  BY DEF IInv
<1> QED
  BY <1>1, IInvHolds, PTL

(* gather_vec, scatter_vec and all_to_all_transpose put each byte where    *)
(* they promise it and touch nothing else, whatever the length, the number *)
(* of ranks and the limits.                                                *)
THEOREM BytesArrive == Spec => []EachByteInItsPlace
<1>1. IInv => EachByteInItsPlace
  BY DEF IInv
<1> QED
  BY <1>1, IInvHolds, PTL

(* When the call returns nothing is left to move.                          *)
THEOREM NothingLeftBehind == Spec => []AllMovedAtReturn
<1>1. IInv => AllMovedAtReturn
  BY DEF IInv, RoundsInStep, AllMovedAtReturn, Moved, NRounds
<1> QED
  BY <1>1, IInvHolds, PTL

(* The root's buffer has room for exactly what the leaves send or receive. *)
THEOREM BuffersFit == Spec => []BufferFitsTheChunk
<1>1. IInv => BufferFitsTheChunk
  <2> SUFFICES ASSUME IInv, job.op # "transpose", round < NChunks
               PROVE  ChunkBuffer = w * ChunkLen
    BY DEF BufferFitsTheChunk
  <2>1. job \in Jobs /\ round \in Nat /\ size = CHUNK_SIZE * w
    BY JobSizes DEF IInv, ChunksTypeOK, RoundsInStep, NRounds
  <2> QED
    BY <2>1, ChunkOfRound
<1> QED
  BY <1>1, IInvHolds, PTL

(* No call of the transpose exceeds SEND_BUFFER_MAX when the world size    *)
(* divides it.                                                             *)
THEOREM TransposeWithinLimit == Spec => []LastPieceWithinLimit
<1>1. IInv => LastPieceWithinLimit
  <2> SUFFICES ASSUME IInv, job.op = "transpose", SEND_BUFFER_MAX % w = 0, round < NTransposes
               PROVE  SendBuffer <= SEND_BUFFER_MAX
    BY DEF LastPieceWithinLimit
  <2> DEFINE s == SEND_BUFFER_MAX
             u == s \div w
  <2>1. /\ job \in Jobs /\ round \in Nat /\ size = s /\ copyStarts = round * u
    BY JobSizes DEF IInv, ChunksTypeOK, RoundsInStep, NRounds
  <2>2. /\ n \in Nat /\ w \in Nat \ {0} /\ NTransposes \in Nat /\ n * w \in Nat
        /\ s \in Nat \ {0}
    BY <2>1, JobSizes, ChunksAssumption
  <2>3. u \in Nat /\ u * w = s
    BY <2>2
  <2>4. n * w <= NTransposes * s
    BY <2>2, DivCeilBounds DEF NTransposes
  <2> HIDE DEF s, u
  <2>5. CASE round # NTransposes - 1
    BY <2>1, <2>2, <2>5 DEF SendBuffer, s
  <2>6. CASE round = NTransposes - 1
    <3>1. SendBuffer = (n - copyStarts) * w
      BY <2>6 DEF SendBuffer
    <3>2. (n - copyStarts) * w = n * w - copyStarts * w
      <4>1. copyStarts \in Int
        BY <2>1, <2>3
      <4> QED
        BY <2>2, <4>1
    <3>3. copyStarts * w = round * s
      BY <2>1, <2>2, <2>3
    <3>4. NTransposes * s = round * s + s
      BY <2>1, <2>2, <2>6
    <3>5. round * s \in Nat
      BY <2>1, <2>2
    <3> QED
      BY <2>2, <2>4, <3>1, <3>2, <3>3, <3>4, <3>5 DEF s
  <2> QED
    BY <2>5, <2>6
<1> QED
  BY <1>1, IInvHolds, PTL
=============================================================================
