------------------------------ MODULE MpiChunks ------------------------------
(***************************************************************************)
(* gather_vec, scatter_vec and all_to_all_transpose of MPIConfig: a vector *)
(* that is too long for one MPI call is moved in pieces, and each piece is *)
(* copied between strided places of the long vectors and a dense buffer.   *)
(*                                                                         *)
(* A step is one MPI call made by all ranks (SpmdProver is about ranks     *)
(* that make them at different times).  A byte is known by the rank and    *)
(* the offset it starts from, so a byte that arrives at a wrong place, or  *)
(* twice, or not at all, shows.                                            *)
(***************************************************************************)
EXTENDS Integers

CONSTANTS
  CHUNK_SIZE,       \* what a rank may gather or scatter in one call
  SEND_BUFFER_MAX,  \* what a rank may send to all the others in one call
  Jobs              \* the calls: operation, world size, bytes of each rank

(* A gather or a scatter is for n bytes of each rank; in a transpose a     *)
(* rank holds n bytes for each rank.  A piece has a byte for each rank.    *)
ASSUME ChunksAssumption ==
  /\ CHUNK_SIZE \in Nat \ {0}
  /\ SEND_BUFFER_MAX \in Nat \ {0}
  /\ Jobs \subseteq [op : {"gather", "scatter", "transpose"}, w : Nat \ {0}, n : Nat]
  /\ \A j \in Jobs : j.w <= SEND_BUFFER_MAX

ROOT_RANK == 0
RanksOf(j) == 0 .. j.w - 1
Byte  == Int \X Nat
Blank == <<-1, 0>>

VARIABLES
  job,         \* the call
  round,       \* pieces moved so far
  size,        \* length of the dense buffer: chunk_buffer_u8, send_buf, send
  copyStarts,  \* copy_starts of the transpose
  mem          \* the vector each rank receives into

vars == <<job, round, size, copyStarts, mem>>

Ranks == RanksOf(job)
n == job.n
w == job.w

-----------------------------------------------------------------------------
(* A flat vector of rows, one for each rank: the row of an index and the   *)
(* place in it.                                                            *)
Row(k, stride) == CHOOSE j \in 0 .. k : j * stride <= k /\ k < (j + 1) * stride
Off(k, stride) == k - Row(k, stride) * stride

DivFloor(a, b) == a \div b
DivCeil(a, b) == (a + b - 1) \div b
NChunks       == DivCeil(n, CHUNK_SIZE)
NTransposes   == DivCeil(n * w, SEND_BUFFER_MAX)

(* gather_vec and scatter_vec: the piece of this round, and the buffer cut *)
(* down to it when it is a short one.                                      *)
ChunkStart == round * CHUNK_SIZE
ChunkEnd   == IF ChunkStart + CHUNK_SIZE < n THEN ChunkStart + CHUNK_SIZE ELSE n
ChunkLen   == ChunkEnd - ChunkStart
ChunkBufferKept == size
ChunkBuffer == IF ChunkLen < CHUNK_SIZE THEN ChunkLen * w ELSE size

(* all_to_all_transpose: the last round takes all that is left.            *)
SendBuffer   == IF round = NTransposes - 1 THEN (n - copyStarts) * w ELSE size
SendPerWorld == SendBuffer \div w

(* The vector a rank receives into, as the caller made it.                 *)
MemLen(j, r) == CASE j.op = "gather"    -> IF r = ROOT_RANK THEN j.w * j.n ELSE 0
                  [] j.op = "scatter"   -> j.n
                  [] j.op = "transpose" -> j.w * j.n
FirstMem(j, r) ==
  [k \in 0 .. MemLen(j, r) - 1 |-> IF j.op = "transpose" THEN <<r, k>> ELSE Blank]

(* The vectors that are only read: local_vec, and send_vec at the root.    *)
LocalByte(r, k) == <<r, k>>
SendByte(k)     == <<ROOT_RANK, k>>

Init ==
  /\ job \in Jobs
  /\ round = 0
  /\ size = IF job.op = "transpose" THEN SEND_BUFFER_MAX ELSE CHUNK_SIZE * job.w
  /\ copyStarts = 0
  /\ mem = [r \in RanksOf(job) |-> FirstMem(job, r)]

-----------------------------------------------------------------------------
(* One rank alone copies, and one chunk goes from vector to vector.        *)
GatherWhole ==
  /\ job.op = "gather"
  /\ round < NChunks
  /\ w = 1 \/ NChunks = 1
  /\ mem' = [mem EXCEPT ![ROOT_RANK] =
               [k \in 0 .. w * n - 1 |-> LocalByte(Row(k, n), Off(k, n))]]
  /\ round' = NChunks
  /\ UNCHANGED <<job, size, copyStarts>>

ScatterWhole ==
  /\ job.op = "scatter"
  /\ round < NChunks
  /\ w = 1 \/ NChunks = 1
  /\ mem' = [r \in Ranks |-> [k \in 0 .. n - 1 |-> SendByte(r * n + k)]]
  /\ round' = NChunks
  /\ UNCHANGED <<job, size, copyStarts>>

(* MPI lays the ranks' pieces out at equal distances in the root's buffer. *)
Gathered(room, len) ==
  [k \in 0 .. w * room - 1 |->
     IF Off(k, room) < len THEN LocalByte(Row(k, room), ChunkStart + Off(k, room))
                           ELSE Blank]

GatherChunk ==
  /\ job.op = "gather"
  /\ round < NChunks
  /\ w > 1 /\ NChunks # 1
  /\ size' = ChunkBuffer
  /\ LET chunk == Gathered(size' \div w, ChunkLen)
     IN  mem' = [mem EXCEPT ![ROOT_RANK] =
           [k \in 0 .. w * n - 1 |->
              IF ChunkStart <= Off(k, n) /\ Off(k, n) < ChunkEnd
              THEN chunk[Row(k, n) * ChunkLen + Off(k, n) - ChunkStart]
              ELSE mem[ROOT_RANK][k]]]
  /\ round' = round + 1
  /\ UNCHANGED <<job, copyStarts>>

(* The root packs a piece for each rank; MPI cuts the buffer evenly.       *)
Packed(len) ==
  [k \in 0 .. w * len - 1 |-> SendByte(Row(k, len) * n + ChunkStart + Off(k, len))]

ScatterChunk ==
  /\ job.op = "scatter"
  /\ round < NChunks
  /\ w > 1 /\ NChunks # 1
  /\ size' = ChunkBuffer
  /\ LET room == size' \div w
     IN  mem' = [r \in Ranks |->
           [k \in 0 .. n - 1 |->
              IF ChunkStart <= k /\ k < ChunkEnd
              THEN LET at == r * room + k - ChunkStart
                   IN  IF at < w * ChunkLen THEN Packed(ChunkLen)[at] ELSE Blank
              ELSE mem[r][k]]]
  /\ round' = round + 1
  /\ UNCHANGED <<job, copyStarts>>

(* Rank r sends each rank its piece and gets one from each.                *)
SentFromRowStart(r) ==
  [k \in 0 .. w * SendPerWorld - 1 |->
     mem[r][Row(k, SendPerWorld) * n + Off(k, SendPerWorld)]]
Sent(r) ==
  [k \in 0 .. w * SendPerWorld - 1 |->
     mem[r][Row(k, SendPerWorld) * n + copyStarts + Off(k, SendPerWorld)]]
Received(r) ==
  [k \in 0 .. w * SendPerWorld - 1 |->
     Sent(Row(k, SendPerWorld))[r * SendPerWorld + Off(k, SendPerWorld)]]

Transposed(r) ==
  [k \in 0 .. w * n - 1 |->
     IF copyStarts <= Off(k, n) /\ Off(k, n) < copyStarts + SendPerWorld
     THEN Received(r)[Row(k, n) * SendPerWorld + Off(k, n) - copyStarts]
     ELSE mem[r][k]]

TransposePieceSkipping ==
  /\ job.op = "transpose"
  /\ round < NTransposes
  /\ mem' = [r \in Ranks |-> Transposed(r)]
  /\ size' = SendBuffer
  /\ copyStarts' = copyStarts + SendBuffer
  /\ round' = round + 1
  /\ UNCHANGED job

TransposePiece ==
  /\ job.op = "transpose"
  /\ round < NTransposes
  /\ mem' = [r \in Ranks |-> Transposed(r)]
  /\ size' = SendBuffer
  /\ copyStarts' = copyStarts + SendPerWorld
  /\ round' = round + 1
  /\ UNCHANGED job

NRounds == IF job.op = "transpose" THEN NTransposes ELSE NChunks
Returned == round = NRounds /\ UNCHANGED vars

Next == GatherWhole \/ GatherChunk \/ ScatterWhole \/ ScatterChunk \/ TransposePiece \/ Returned

Spec == Init /\ [][Next]_vars

-----------------------------------------------------------------------------
ChunksTypeOK ==
  /\ job \in Jobs
  /\ round \in 0 .. NRounds
  /\ size \in Nat
  /\ copyStarts \in 0 .. n
  /\ mem = [r \in Ranks |-> mem[r]]
  /\ \A r \in Ranks : mem[r] \in [0 .. MemLen(job, r) - 1 -> Byte]

(* The buffer is cut in the last round only, and the transpose moves the   *)
(* same share of every row in every round but the last.                    *)
RoundsInStep ==
  IF job.op = "transpose"
  THEN /\ round < NTransposes => /\ size = SEND_BUFFER_MAX
                                 /\ copyStarts = round * (SEND_BUFFER_MAX \div w)
       /\ round = NTransposes => copyStarts = n
  ELSE /\ round < NChunks => size = CHUNK_SIZE * w
       /\ copyStarts = 0

(* How many bytes of each row have been moved.                             *)
Moved == IF job.op = "transpose" THEN copyStarts
         ELSE IF round = NChunks THEN n ELSE ChunkStart

(* What the operation promises to put at index k of rank r.                *)
Target(r, k) ==
  CASE job.op = "gather"    -> LocalByte(Row(k, n), Off(k, n))
    [] job.op = "scatter"   -> SendByte(r * n + k)
    [] job.op = "transpose" -> <<Row(k, n), r * n + Off(k, n)>>
Place(k) == IF job.op = "scatter" THEN k ELSE Off(k, n)

(* Between two rounds every byte whose turn has come is where the          *)
(* operation promises it, and every other place is as it was: in           *)
(* particular the transpose, which works in place, has overwritten nothing *)
(* that a later round still sends.                                         *)
EachByteInItsPlace ==
  \A r \in Ranks : \A k \in DOMAIN mem[r] :
    mem[r][k] = IF Place(k) < Moved THEN Target(r, k) ELSE FirstMem(job, r)[k]

(* When the call returns the whole vector has been moved.                  *)
AllMovedAtReturn == round = NRounds => Moved = n

(* The two sides of a call agree on its length: the root's buffer has room *)
(* for just what each rank sends or receives in this round.  The leaves    *)
(* never see the buffer, and the root alone shortens it.                   *)
BufferFitsTheChunk ==
  job.op # "transpose" /\ w > 1 /\ NChunks # 1 /\ round < NChunks =>
    ChunkBuffer = w * ChunkLen

(* No call exceeds the limit the buffer was made for, the last one, which  *)
(* takes whatever the others left, included.  The code relies on a world   *)
(* size that divides the limit.                                            *)
LastPieceWithinLimit ==
  job.op = "transpose" /\ SEND_BUFFER_MAX % w = 0 /\ round < NTransposes =>
    SendBuffer <= SEND_BUFFER_MAX
=============================================================================
