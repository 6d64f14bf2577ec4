----------------------------- MODULE ScriptProofs -----------------------------
(***************************************************************************)
(* The programs of GkrScript meet the assumptions of the theorems about    *)
(* SpmdProver, whatever the circuit, the commitment scheme, the number of  *)
(* ranks and the other constants.                                          *)
(*                                                                         *)
(* A program is put together from pieces, as the code is from functions,   *)
(* so each assumption becomes a predicate on pieces that survives putting  *)
(* two of them in a row: Keeps, for the placing of syncs, fills and reads, *)
(* and Paired, for locking. A loop is a flattened sequence of pieces, and  *)
(* keeps what concatenation keeps. One lemma per function of the code      *)
(* then leads to the whole programs.                                       *)
(***************************************************************************)
EXTENDS SpmdProofs, GkrScript

(* A piece of a program, by itself, keeps to the discipline.               *)
Quiet(s) == \A i \in 1 .. Len(s) : s[i].op \in QuietOp

(* All ranks make the collective calls and sample, only the root fills.    *)
WellPlaced(s) ==
  \A i \in 1 .. Len(s) :
    /\ s[i].op \in CollectiveOp \cup {"sample"} => s[i].who = "all"
    /\ s[i].op = "fill" => s[i].who = "root"

(* Between positions k and p of s only quiet calls are made.               *)
QuietBetween(s, k, p) == \A q \in k + 1 .. p - 1 : s[q].op \in QuietOp

(* A challenge sampled right after s would be one that all ranks share.    *)
EndsSynced(s) ==
  \/ WorldSize = 1
  \/ \E k \in 1 .. Len(s) : s[k].op = "sync" /\ QuietBetween(s, k, Len(s) + 1)

(* Every point of s is sampled behind a sync, or, if entry allows it, at   *)
(* the start of s, where the piece before it has to end with a sync.       *)
SamplesSynced(s, entry) ==
  \A p \in 1 .. Len(s) : s[p].op = "sample" =>
    \/ entry /\ QuietBetween(s, 0, p)
    \/ \E k \in 1 .. p - 1 : s[k].op = "sync" /\ QuietBetween(s, k, p)

(* Between positions a and b of s there is a call in ops.                  *)
HasBetween(s, ops, a, b) == \E q \in a + 1 .. b - 1 : s[q].op \in ops

(* Between a read of the gates and a fill of the coefficients there is a   *)
(* collective that keeps the two ranks from passing each other.            *)
ReadsFenced(s) ==
  \A p, f \in 1 .. Len(s) : s[p].op = "read" /\ s[f].op = "fill" =>
    /\ f < p => HasBetween(s, RootFirstOp, f, p)
    /\ p < f => HasBetween(s, LeavesFirstOp, p, f)

(* A fill has such collectives before and after it in s, so that it is     *)
(* fenced from the reads of the pieces that come before and after s.       *)
FillsEnclosed(s) ==
  \A f \in 1 .. Len(s) : s[f].op = "fill" =>
    HasBetween(s, LeavesFirstOp, 0, f) /\ HasBetween(s, RootFirstOp, f, Len(s) + 1)

(* The piece s keeps to the discipline, if entry whenever what precedes it *)
(* ends synced.                                                            *)
Keeps(s, entry) ==
  /\ s \in Seq(Op)
  /\ WellPlaced(s)
  /\ WorldSize > 1 => SamplesSynced(s, entry) /\ ReadsFenced(s) /\ FillsEnclosed(s)

-----------------------------------------------------------------------------
(* Where the calls of s and of t are in s \o t.                            *)
LEMMA ConcatElements ==
  ASSUME NEW s \in Seq(Op), NEW t \in Seq(Op)
  PROVE  /\ s \o t \in Seq(Op)
         /\ Len(s) \in Nat /\ Len(t) \in Nat
         /\ Len(s \o t) = Len(s) + Len(t)
         /\ \A i \in 1 .. Len(s) : (s \o t)[i] = s[i]
         /\ \A i \in 1 .. Len(t) : (s \o t)[Len(s) + i] = t[i]
         /\ \A i \in Len(s) + 1 .. Len(s \o t) :
              i - Len(s) \in 1 .. Len(t) /\ (s \o t)[i] = t[i - Len(s)]
BY ConcatProperties, LenProperties

(* A call between two positions of a piece is between the same two of a    *)
(* longer program.                                                         *)
LEMMA ShiftHasBetween ==
  ASSUME NEW s \in Seq(Op), NEW t \in Seq(Op), NEW ops
  PROVE  /\ \A a, b \in Nat : b <= Len(s) + 1 /\ HasBetween(s, ops, a, b) => HasBetween(s \o t, ops, a, b)
         /\ \A a, b \in Nat : b <= Len(t) + 1 /\ HasBetween(t, ops, a, b)
               => HasBetween(s \o t, ops, Len(s) + a, Len(s) + b)
<1>1. ASSUME NEW a \in Nat, NEW b \in Nat, b <= Len(s) + 1, HasBetween(s, ops, a, b)
      PROVE  HasBetween(s \o t, ops, a, b)
  BY <1>1, ConcatElements DEF HasBetween
<1>2. ASSUME NEW a \in Nat, NEW b \in Nat, b <= Len(t) + 1, HasBetween(t, ops, a, b)
      PROVE  HasBetween(s \o t, ops, Len(s) + a, Len(s) + b)
  <2>1. PICK q \in a + 1 .. b - 1 : t[q].op \in ops
    BY <1>2 DEF HasBetween
  <2>2. q \in 1 .. Len(t)
    BY <1>2, <2>1
  <2>3. Len(s) + q \in (Len(s) + a) + 1 .. (Len(s) + b) - 1
    BY <2>1, ConcatElements
  <2>4. (s \o t)[Len(s) + q] = t[q]
    BY <2>2, ConcatElements
  <2> QED BY <2>1, <2>3, <2>4 DEF HasBetween
<1> QED BY <1>1, <1>2

(* A call between two positions is between two that enclose them.          *)
LEMMA WiderHasBetween ==
  ASSUME NEW s, NEW ops, NEW a \in Nat, NEW b \in Nat, NEW c \in Nat, NEW d \in Nat,
         a <= c, d <= b, HasBetween(s, ops, c, d)
  PROVE  HasBetween(s, ops, a, b)
BY DEF HasBetween

(* A stretch of quiet calls in a piece is one in the longer program.       *)
LEMMA ShiftQuietBetween ==
  ASSUME NEW s \in Seq(Op), NEW t \in Seq(Op)
  PROVE  /\ \A a, b \in Nat : b <= Len(s) + 1 /\ QuietBetween(s, a, b) => QuietBetween(s \o t, a, b)
         /\ \A a, b \in Nat : b <= Len(t) + 1 /\ QuietBetween(t, a, b)
               => QuietBetween(s \o t, Len(s) + a, Len(s) + b)
         /\ \A a, b \in Nat : a <= Len(s) /\ b <= Len(t) + 1 /\ QuietBetween(s, a, Len(s) + 1) /\ QuietBetween(t, 0, b)
               => QuietBetween(s \o t, a, Len(s) + b)
<1>1. ASSUME NEW a \in Nat, NEW b \in Nat, b <= Len(s) + 1, QuietBetween(s, a, b)
      PROVE  QuietBetween(s \o t, a, b)
  BY <1>1, ConcatElements DEF QuietBetween
<1>2. ASSUME NEW a \in Nat, NEW b \in Nat, b <= Len(t) + 1, QuietBetween(t, a, b)
      PROVE  QuietBetween(s \o t, Len(s) + a, Len(s) + b)
  <2> SUFFICES ASSUME NEW q \in (Len(s) + a) + 1 .. (Len(s) + b) - 1
               PROVE  (s \o t)[q].op \in QuietOp
    BY DEF QuietBetween
  <2>1. q - Len(s) \in a + 1 .. b - 1
    BY ConcatElements
  <2>2. q \in Len(s) + 1 .. Len(s \o t)
    BY <1>2, ConcatElements
  <2>3. (s \o t)[q] = t[q - Len(s)]
    BY <2>2, ConcatElements
  <2> QED BY <1>2, <2>1, <2>3 DEF QuietBetween
<1>3. ASSUME NEW a \in Nat, NEW b \in Nat, a <= Len(s), b <= Len(t) + 1,
             QuietBetween(s, a, Len(s) + 1), QuietBetween(t, 0, b)
      PROVE  QuietBetween(s \o t, a, Len(s) + b)
  <2> SUFFICES ASSUME NEW q \in a + 1 .. (Len(s) + b) - 1
               PROVE  (s \o t)[q].op \in QuietOp
    BY DEF QuietBetween
  <2>1. CASE q <= Len(s)
    <3>1. q \in a + 1 .. (Len(s) + 1) - 1 /\ q \in 1 .. Len(s)
      BY <2>1, ConcatElements
    <3>2. (s \o t)[q] = s[q]
      BY <3>1, ConcatElements
    <3> QED BY <1>3, <3>1, <3>2 DEF QuietBetween
  <2>2. CASE q > Len(s)
    <3>1. q - Len(s) \in 0 + 1 .. b - 1 /\ q \in Len(s) + 1 .. Len(s \o t)
      BY <1>3, <2>2, ConcatElements
    <3>2. (s \o t)[q] = t[q - Len(s)]
      BY <3>1, ConcatElements
    <3> QED BY <1>3, <3>1, <3>2 DEF QuietBetween
  <2>3. q <= Len(s) \/ q > Len(s)
    BY ConcatElements
  <2> QED BY <2>1, <2>2, <2>3
<1> QED BY <1>1, <1>2, <1>3

(* When two pieces in a row end synced or are quiet.                       *)
LEMMA JoinEnds ==
  ASSUME NEW s \in Seq(Op), NEW t \in Seq(Op)
  PROVE  /\ EndsSynced(t) => EndsSynced(s \o t)
         /\ EndsSynced(s) /\ Quiet(t) => EndsSynced(s \o t)
         /\ Quiet(s) /\ Quiet(t) => Quiet(s \o t)
<1>1. Len(s) \in Nat /\ Len(t) \in Nat /\ Len(s \o t) = Len(s) + Len(t)
  BY ConcatElements
<1>2. ASSUME EndsSynced(t), WorldSize # 1
      PROVE  EndsSynced(s \o t)
  <2>1. PICK k \in 1 .. Len(t) : t[k].op = "sync" /\ QuietBetween(t, k, Len(t) + 1)
    BY <1>2 DEF EndsSynced
  <2>2. /\ Len(s) + k \in 1 .. Len(s \o t)
        /\ (s \o t)[Len(s) + k] = t[k]
    BY <1>1, ConcatElements
  <2>3. QuietBetween(s \o t, Len(s) + k, Len(s) + (Len(t) + 1))
    BY <1>1, <2>1, ShiftQuietBetween
  <2>4. Len(s) + (Len(t) + 1) = Len(s \o t) + 1
    BY <1>1
  <2> QED BY <2>1, <2>2, <2>3, <2>4 DEF EndsSynced
<1>3. ASSUME Quiet(t) PROVE QuietBetween(t, 0, Len(t) + 1)
  BY <1>1, <1>3 DEF Quiet, QuietBetween
<1>4. ASSUME EndsSynced(s), Quiet(t), WorldSize # 1
      PROVE  EndsSynced(s \o t)
  <2>1. PICK k \in 1 .. Len(s) : s[k].op = "sync" /\ QuietBetween(s, k, Len(s) + 1)
    BY <1>4 DEF EndsSynced
  <2>2. /\ k \in 1 .. Len(s \o t)
        /\ (s \o t)[k] = s[k]
    BY <1>1, ConcatElements
  <2>2a. k \in Nat /\ k <= Len(s) /\ Len(t) + 1 \in Nat /\ Len(t) + 1 <= Len(t) + 1
    BY <1>1
  <2>3. QuietBetween(s \o t, k, Len(s) + (Len(t) + 1))
    BY <1>3, <1>4, <2>1, <2>2a, ShiftQuietBetween
  <2>4. Len(s) + (Len(t) + 1) = Len(s \o t) + 1
    BY <1>1
  <2> QED BY <2>1, <2>2, <2>3, <2>4 DEF EndsSynced
<1>5. ASSUME Quiet(s), Quiet(t)
      PROVE  Quiet(s \o t)
  <2> SUFFICES ASSUME NEW i \in 1 .. Len(s \o t)
               PROVE  (s \o t)[i].op \in QuietOp
    BY DEF Quiet
  <2>1. CASE i \in 1 .. Len(s)
    BY <1>5, <2>1, ConcatElements DEF Quiet
  <2>2. CASE i \in Len(s) + 1 .. Len(s \o t)
    BY <1>5, <2>2, ConcatElements DEF Quiet
  <2> QED BY <1>1, <2>1, <2>2
<1>6. WorldSize = 1 => EndsSynced(s \o t)
  BY DEF EndsSynced
<1> QED BY <1>2, <1>4, <1>5, <1>6

(* Two pieces in a row: the calls are placed well,                         *)
LEMMA JoinWellPlaced ==
  ASSUME NEW s \in Seq(Op), NEW t \in Seq(Op), WellPlaced(s), WellPlaced(t)
  PROVE  WellPlaced(s \o t)
<1> SUFFICES ASSUME NEW i \in 1 .. Len(s \o t)
             PROVE  /\ (s \o t)[i].op \in CollectiveOp \cup {"sample"} => (s \o t)[i].who = "all"
                    /\ (s \o t)[i].op = "fill" => (s \o t)[i].who = "root"
  BY DEF WellPlaced
<1>1. CASE i \in 1 .. Len(s)
  <2>1. (s \o t)[i] = s[i]
    BY <1>1, ConcatElements
  <2> QED BY <1>1, <2>1 DEF WellPlaced
<1>2. CASE i \in Len(s) + 1 .. Len(s \o t)
  <2>1. (s \o t)[i] = t[i - Len(s)] /\ i - Len(s) \in 1 .. Len(t)
    BY <1>2, ConcatElements
  <2> QED BY <2>1 DEF WellPlaced
<1>3. Len(s) \in Nat /\ Len(s \o t) = Len(s) + Len(t) /\ Len(t) \in Nat
  BY ConcatElements
<1> QED BY <1>1, <1>2, <1>3

(* every point is sampled behind a sync,                                   *)
LEMMA JoinSamples ==
  ASSUME NEW s \in Seq(Op), NEW t \in Seq(Op), NEW e \in BOOLEAN, NEW f \in BOOLEAN,
         WorldSize # 1, SamplesSynced(s, e), SamplesSynced(t, f),
         f => EndsSynced(s) \/ (e /\ Quiet(s))
  PROVE  SamplesSynced(s \o t, e)
<1>1. Len(s) \in Nat /\ Len(t) \in Nat /\ Len(s \o t) = Len(s) + Len(t)
  BY ConcatElements
<1> SUFFICES ASSUME NEW p \in 1 .. Len(s \o t), (s \o t)[p].op = "sample"
             PROVE  \/ e /\ QuietBetween(s \o t, 0, p)
                    \/ \E k \in 1 .. p - 1 : (s \o t)[k].op = "sync" /\ QuietBetween(s \o t, k, p)
  BY DEF SamplesSynced
<1>2. CASE p \in 1 .. Len(s)
  <2>1. s[p].op = "sample"
    BY <1>2, ConcatElements
  <2>2. CASE e /\ QuietBetween(s, 0, p)
    BY <1>1, <1>2, <2>2, ShiftQuietBetween
  <2>3. ASSUME NEW k \in 1 .. p - 1, s[k].op = "sync", QuietBetween(s, k, p)
        PROVE  (s \o t)[k].op = "sync" /\ QuietBetween(s \o t, k, p)
    <3>1. k \in 1 .. Len(s) /\ k \in Nat /\ p \in Nat /\ p <= Len(s) + 1
      BY <1>1, <1>2
    <3> QED BY <2>3, <3>1, ConcatElements, ShiftQuietBetween
  <2> QED BY <1>2, <2>1, <2>2, <2>3 DEF SamplesSynced
<1>3. CASE p \in Len(s) + 1 .. Len(s \o t)
  <2> DEFINE j == p - Len(s)
  <2>1. j \in 1 .. Len(t) /\ t[j].op = "sample" /\ j \in Nat /\ j <= Len(t) + 1 /\ Len(s) + j = p
    BY <1>1, <1>3, ConcatElements
  <2> HIDE DEF j
  <2>2. ASSUME f, QuietBetween(t, 0, j), EndsSynced(s)
        PROVE  \E k \in 1 .. p - 1 : (s \o t)[k].op = "sync" /\ QuietBetween(s \o t, k, p)
    <3>1. PICK k \in 1 .. Len(s) : s[k].op = "sync" /\ QuietBetween(s, k, Len(s) + 1)
      BY <2>2 DEF EndsSynced
    <3>2. k \in 1 .. p - 1 /\ k \in Nat /\ k <= Len(s)
      BY <1>1, <2>1
    <3>3. QuietBetween(s \o t, k, Len(s) + j)
      BY <2>1, <2>2, <3>1, <3>2, ShiftQuietBetween
    <3> QED BY <2>1, <3>1, <3>2, <3>3, ConcatElements
  <2>3. ASSUME f, QuietBetween(t, 0, j), e, Quiet(s)
        PROVE  e /\ QuietBetween(s \o t, 0, p)
    <3>1. QuietBetween(s, 0, Len(s) + 1)
      BY <1>1, <2>3 DEF Quiet, QuietBetween
    <3>2. QuietBetween(s \o t, 0, Len(s) + j)
      BY <1>1, <2>1, <2>3, <3>1, ShiftQuietBetween
    <3> QED BY <2>1, <2>3, <3>2
  <2>4. ASSUME NEW k \in 1 .. j - 1, t[k].op = "sync", QuietBetween(t, k, j)
        PROVE  \E m \in 1 .. p - 1 : (s \o t)[m].op = "sync" /\ QuietBetween(s \o t, m, p)
    <3>1. k \in 1 .. Len(t) /\ k \in Nat /\ Len(s) + k \in 1 .. p - 1
      BY <1>1, <2>1
    <3>2. QuietBetween(s \o t, Len(s) + k, Len(s) + j)
      BY <2>1, <2>4, <3>1, ShiftQuietBetween
    <3>3. (s \o t)[Len(s) + k] = t[k]
      BY <3>1, ConcatElements
    <3> QED BY <2>1, <2>4, <3>1, <3>2, <3>3
  <2>5. \/ f /\ QuietBetween(t, 0, j)
        \/ \E k \in 1 .. j - 1 : t[k].op = "sync" /\ QuietBetween(t, k, j)
    BY <2>1 DEF SamplesSynced
  <2> QED BY <2>2, <2>3, <2>4, <2>5
<1> QED BY <1>1, <1>2, <1>3

(* every fill is enclosed,                                                 *)
LEMMA JoinFills ==
  ASSUME NEW s \in Seq(Op), NEW t \in Seq(Op), FillsEnclosed(s), FillsEnclosed(t)
  PROVE  FillsEnclosed(s \o t)
<1>1. Len(s) \in Nat /\ Len(t) \in Nat /\ Len(s \o t) = Len(s) + Len(t)
  BY ConcatElements
<1> SUFFICES ASSUME NEW f \in 1 .. Len(s \o t), (s \o t)[f].op = "fill"
             PROVE  /\ HasBetween(s \o t, LeavesFirstOp, 0, f)
                    /\ HasBetween(s \o t, RootFirstOp, f, Len(s \o t) + 1)
  BY DEF FillsEnclosed
<1>2. CASE f \in 1 .. Len(s)
  <2>1. s[f].op = "fill" /\ f \in Nat /\ f <= Len(s) + 1
    BY <1>1, <1>2, ConcatElements
  <2>a. HasBetween(s, LeavesFirstOp, 0, f) /\ HasBetween(s, RootFirstOp, f, Len(s) + 1)
    BY <1>2, <2>1 DEF FillsEnclosed
  <2>b. 0 \in Nat /\ Len(s) + 1 \in Nat /\ Len(s) + 1 <= Len(s) + 1
    BY <1>1
  <2>2. HasBetween(s \o t, LeavesFirstOp, 0, f)
    BY <2>1, <2>a, <2>b, ShiftHasBetween
  <2>3. HasBetween(s \o t, RootFirstOp, f, Len(s) + 1)
    BY <2>1, <2>a, <2>b, ShiftHasBetween
  <2>4. HasBetween(s \o t, RootFirstOp, f, Len(s \o t) + 1)
    <3>1. s \o t \in Seq(Op)
      BY ConcatElements
    <3>2. Len(s) + 1 \in Nat /\ Len(s \o t) + 1 \in Nat /\ Len(s) + 1 <= Len(s \o t) + 1 /\ f <= f
      BY <1>1
    <3> QED BY <2>1, <2>3, <3>1, <3>2, WiderHasBetween
  <2> QED BY <2>2, <2>4
<1>3. CASE f \in Len(s) + 1 .. Len(s \o t)
  <2> DEFINE g == f - Len(s)
  <2>1. g \in 1 .. Len(t) /\ t[g].op = "fill" /\ g \in Nat /\ g <= Len(t) + 1 /\ Len(s) + g = f
    BY <1>1, <1>3, ConcatElements
  <2> HIDE DEF g
  <2>a. HasBetween(t, LeavesFirstOp, 0, g) /\ HasBetween(t, RootFirstOp, g, Len(t) + 1)
    BY <2>1 DEF FillsEnclosed
  <2>b. 0 \in Nat /\ Len(t) + 1 \in Nat /\ Len(t) + 1 <= Len(t) + 1
    BY <1>1
  <2>2. HasBetween(s \o t, LeavesFirstOp, Len(s) + 0, Len(s) + g)
    BY <2>1, <2>a, <2>b, ShiftHasBetween
  <2>3. HasBetween(s \o t, RootFirstOp, Len(s) + g, Len(s) + (Len(t) + 1))
    BY <2>1, <2>a, <2>b, ShiftHasBetween
  <2>4. HasBetween(s \o t, LeavesFirstOp, 0, f)
    <3>1. s \o t \in Seq(Op)
      BY ConcatElements
    <3>2. Len(s) + 0 \in Nat /\ 0 <= Len(s) + 0 /\ f \in Nat /\ f <= f
      BY <1>1, <2>1
    <3> QED BY <2>1, <2>2, <3>1, <3>2, WiderHasBetween
  <2>5. Len(s) + (Len(t) + 1) = Len(s \o t) + 1
    BY <1>1
  <2> QED BY <2>1, <2>3, <2>4, <2>5
<1> QED BY <1>1, <1>2, <1>3

(* and every read is fenced from every fill, by the fences that the fills  *)
(* of each piece have around them.                                         *)
LEMMA JoinReads ==
  ASSUME NEW s \in Seq(Op), NEW t \in Seq(Op), ReadsFenced(s), ReadsFenced(t),
         FillsEnclosed(s), FillsEnclosed(t)
  PROVE  ReadsFenced(s \o t)
<1>1. Len(s) \in Nat /\ Len(t) \in Nat /\ Len(s \o t) = Len(s) + Len(t)
  BY ConcatElements
<1> SUFFICES ASSUME NEW p \in 1 .. Len(s \o t), NEW f \in 1 .. Len(s \o t),
                    (s \o t)[p].op = "read", (s \o t)[f].op = "fill"
             PROVE  /\ f < p => HasBetween(s \o t, RootFirstOp, f, p)
                    /\ p < f => HasBetween(s \o t, LeavesFirstOp, p, f)
  BY DEF ReadsFenced
<1>0. s \o t \in Seq(Op) /\ p \in Nat /\ f \in Nat
  BY <1>1, ConcatElements
<1>2. CASE p \in 1 .. Len(s) /\ f \in 1 .. Len(s)
  <2>1. s[p].op = "read" /\ s[f].op = "fill"
    BY <1>2, ConcatElements
  <2>2. p <= Len(s) + 1 /\ f <= Len(s) + 1
    BY <1>1, <1>2
  <2> QED BY <1>0, <1>2, <2>1, <2>2, ShiftHasBetween DEF ReadsFenced
<1>3. CASE p \in Len(s) + 1 .. Len(s \o t) /\ f \in Len(s) + 1 .. Len(s \o t)
  <2> DEFINE g == f - Len(s)
             j == p - Len(s)
  <2>1. g \in 1 .. Len(t) /\ t[g].op = "fill" /\ g \in Nat /\ g <= Len(t) + 1 /\ Len(s) + g = f
    BY <1>1, <1>3, ConcatElements
  <2>2. j \in 1 .. Len(t) /\ t[j].op = "read" /\ j \in Nat /\ j <= Len(t) + 1 /\ Len(s) + j = p
    BY <1>1, <1>3, ConcatElements
  <2>3. (f < p => g < j) /\ (p < f => j < g)
    BY <1>1
  <2> HIDE DEF g, j
  <2>4. (g < j => HasBetween(t, RootFirstOp, g, j)) /\ (j < g => HasBetween(t, LeavesFirstOp, j, g))
    BY <2>1, <2>2 DEF ReadsFenced
  <2> QED BY <2>1, <2>2, <2>3, <2>4, ShiftHasBetween
<1>4. CASE p \in Len(s) + 1 .. Len(s \o t) /\ f \in 1 .. Len(s)
  <2>1. s[f].op = "fill" /\ f \in Nat /\ Len(s) + 1 \in Nat /\ Len(s) + 1 <= Len(s) + 1
    BY <1>1, <1>4, ConcatElements
  <2>a. HasBetween(s, RootFirstOp, f, Len(s) + 1)
    BY <1>4, <2>1 DEF FillsEnclosed
  <2>2. HasBetween(s \o t, RootFirstOp, f, Len(s) + 1)
    BY <2>1, <2>a, ShiftHasBetween
  <2>3. p \in Nat /\ Len(s) + 1 \in Nat /\ Len(s) + 1 <= p /\ f <= f /\ f < p
    BY <1>1, <1>4
  <2>4. HasBetween(s \o t, RootFirstOp, f, p)
    BY <1>0, <2>1, <2>2, <2>3, WiderHasBetween
  <2> QED BY <1>0, <2>3, <2>4
<1>5. CASE p \in 1 .. Len(s) /\ f \in Len(s) + 1 .. Len(s \o t)
  <2> DEFINE g == f - Len(s)
  <2>1. g \in 1 .. Len(t) /\ t[g].op = "fill" /\ g \in Nat /\ g <= Len(t) + 1 /\ Len(s) + g = f
    BY <1>1, <1>5, ConcatElements
  <2> HIDE DEF g
  <2>a. HasBetween(t, LeavesFirstOp, 0, g) /\ HasBetween(t, RootFirstOp, g, Len(t) + 1)
    BY <2>1 DEF FillsEnclosed
  <2>b. 0 \in Nat /\ Len(t) + 1 \in Nat /\ Len(t) + 1 <= Len(t) + 1
    BY <1>1
  <2>2. HasBetween(s \o t, LeavesFirstOp, Len(s) + 0, Len(s) + g)
    BY <2>1, <2>a, <2>b, ShiftHasBetween
  <2>3. p \in Nat /\ Len(s) + 0 \in Nat /\ p <= Len(s) + 0 /\ f <= f /\ p < f
    BY <1>1, <1>5
  <2>4. HasBetween(s \o t, LeavesFirstOp, p, f)
    BY <1>0, <2>1, <2>2, <2>3, WiderHasBetween
  <2> QED BY <1>0, <2>3, <2>4
<1> QED BY <1>1, <1>2, <1>3, <1>4, <1>5

(* Two pieces in a row keep to the discipline if each does and the first   *)
(* ends synced where the second needs it.                                  *)
LEMMA Join ==
  ASSUME NEW s, NEW t, NEW e \in BOOLEAN, NEW f \in BOOLEAN, Keeps(s, e), Keeps(t, f),
         f => EndsSynced(s) \/ (e /\ Quiet(s))
  PROVE  Keeps(s \o t, e)
<1>1. s \in Seq(Op) /\ t \in Seq(Op)
  BY DEF Keeps
<1>2. s \o t \in Seq(Op) /\ WellPlaced(s \o t)
  BY <1>1, ConcatElements, JoinWellPlaced DEF Keeps
<1>3. ASSUME WorldSize > 1
      PROVE  SamplesSynced(s \o t, e) /\ ReadsFenced(s \o t) /\ FillsEnclosed(s \o t)
  <2>1. WorldSize # 1
    BY <1>3
  <2> QED BY <1>1, <1>3, <2>1, JoinSamples, JoinReads, JoinFills DEF Keeps
<1> QED BY <1>2, <1>3 DEF Keeps

(* Kinds of calls, and pieces made of calls of some kinds only.            *)
Kind   == LocalOp \cup CollectiveOp
Plain  == Kind \ {"sample", "fill"}
Unread == Plain \ {"read"}

(* All calls of the piece s are of the kinds X.                            *)
OnlyOps(s, X) ==
  /\ s \in Seq(Op)
  /\ WellPlaced(s)
  /\ \A i \in 1 .. Len(s) : s[i].op \in X

(* Two pieces of such calls in a row are one.                              *)
LEMMA OnlyJoin ==
  ASSUME NEW X, NEW s, NEW t, OnlyOps(s, X), OnlyOps(t, X)
  PROVE  OnlyOps(s \o t, X)
<1>1. s \in Seq(Op) /\ t \in Seq(Op)
  BY DEF OnlyOps
<1>2. s \o t \in Seq(Op) /\ WellPlaced(s \o t)
  BY <1>1, ConcatElements, JoinWellPlaced DEF OnlyOps
<1>3. ASSUME NEW i \in 1 .. Len(s \o t) PROVE (s \o t)[i].op \in X
  <2>1. CASE i \in 1 .. Len(s)
    <3>1. (s \o t)[i] = s[i]
      BY <1>1, <2>1, ConcatElements
    <3> QED BY <2>1, <3>1 DEF OnlyOps
  <2>2. CASE i \in Len(s) + 1 .. Len(s \o t)
    <3>1. (s \o t)[i] = t[i - Len(s)] /\ i - Len(s) \in 1 .. Len(t)
      BY <1>1, <2>2, ConcatElements
    <3> QED BY <3>1 DEF OnlyOps
  <2>3. i \in 1 .. Len(s) \/ i \in Len(s) + 1 .. Len(s \o t)
    BY <1>1, ConcatElements
  <2> QED BY <2>1, <2>2, <2>3
<1> QED BY <1>2, <1>3 DEF OnlyOps

(* The empty piece is one.                                                 *)
LEMMA OnlyEmpty ==
  ASSUME NEW X PROVE OnlyOps(<<>>, X)
BY DEF OnlyOps, WellPlaced

(* A single call is one.                                                   *)
LEMMA OnlyOne ==
  ASSUME NEW X, NEW o \in Op, o.op \in X,
         o.op \in CollectiveOp \cup {"sample"} => o.who = "all",
         o.op = "fill" => o.who = "root"
  PROVE  OnlyOps(<<o>>, X) /\ Len(<<o>>) = 1 /\ <<o>>[1] = o
BY DEF OnlyOps, WellPlaced

(* Which kinds of calls are disjoint.                                      *)
LEMMA OpKinds ==
  /\ LocalOp \cap CollectiveOp = {}
  /\ "sample" \in LocalOp /\ "fill" \in LocalOp
  /\ QuietOp \subseteq Kind /\ "fill" \notin QuietOp
  /\ RootFirstOp \subseteq Unread /\ LeavesFirstOp \subseteq Unread
BY DEF LocalOp, CollectiveOp, RootFirstOp, LeavesFirstOp, QuietOp, Kind, Plain, Unread

(* A call that all ranks make is a piece of its kind,                      *)
LEMMA OnlyDo ==
  ASSUME NEW X, NEW op \in X \cap Kind, op # "fill",
         NEW what \in Label, NEW l \in Nat, NEW i \in Nat
  PROVE  OnlyOps(Do(op, what, l, i), X)
<1> DEFINE o == [op |-> op, who |-> "all", arg |-> <<what, l, i>>]
<1>1. o \in Op /\ o.op = op /\ o.who = "all"
  BY DEF Op, Arg, Kind
<1> HIDE DEF o
<1>2. OnlyOps(<<o>>, X)
  BY <1>1, OnlyOne
<1> QED BY <1>2 DEF Do, o

(* and so is one that the root makes alone.                                *)
LEMMA OnlyDoRoot ==
  ASSUME NEW X, NEW op \in X \cap LocalOp, op # "sample",
         NEW what \in Label, NEW l \in Nat, NEW i \in Nat
  PROVE  OnlyOps(DoRoot(op, what, l, i), X)
<1> DEFINE o == [op |-> op, who |-> "root", arg |-> <<what, l, i>>]
<1>1. o \in Op /\ o.op = op /\ o.who = "root"
  BY DEF Op, Arg, Kind
<1> HIDE DEF o
<1>2. o.op \notin CollectiveOp \cup {"sample"}
  BY <1>1, OpKinds
<1>3. OnlyOps(<<o>>, X)
  BY <1>1, <1>2, OnlyOne
<1> QED BY <1>3 DEF DoRoot, o

(* A loop over pieces of a set closed under concatenation is in the set.   *)
LEMMA RepeatStaysIn ==
  ASSUME NEW T, <<>> \in T, \A s, t \in T : s \o t \in T,
         NEW n \in Nat, NEW seqs, seqs = [i \in 1 .. n |-> seqs[i]],
         \A i \in 1 .. n : seqs[i] \in T
  PROVE  FlattenSeq(seqs) \in T
<1>1. seqs \in Seq(T) /\ Len(seqs) = n
  OBVIOUS
<1>2. seqs = <<>> \/ n # 0
  BY <1>1
<1> QED BY <1>1, <1>2, FlattenStaysIn

(* A loop over pieces of calls of some kinds is one.                       *)
LEMMA OnlyRepeat ==
  ASSUME NEW X, NEW n \in Nat, NEW seqs, seqs = [i \in 1 .. n |-> seqs[i]],
         \A i \in 1 .. n : OnlyOps(seqs[i], X)
  PROVE  OnlyOps(FlattenSeq(seqs), X)
<1> DEFINE T == {s \in Seq(Op) : OnlyOps(s, X)}
<1>1. \A s : s \in T <=> OnlyOps(s, X)
  BY DEF OnlyOps
<1>2. <<>> \in T /\ \A s, t \in T : s \o t \in T
  BY <1>1, OnlyEmpty, OnlyJoin
<1> HIDE DEF T
<1> QED BY <1>1, <1>2, RepeatStaysIn

(* A loop over pieces that keep to the discipline does.                    *)
LEMMA KeepsRepeat ==
  ASSUME NEW n \in Nat, NEW seqs, seqs = [i \in 1 .. n |-> seqs[i]],
         \A i \in 1 .. n : Keeps(seqs[i], FALSE)
  PROVE  Keeps(FlattenSeq(seqs), FALSE)
<1> DEFINE T == {s \in Seq(Op) : Keeps(s, FALSE)}
<1>1. \A s : s \in T <=> Keeps(s, FALSE)
  BY DEF Keeps
<1>2. <<>> \in T /\ \A s, t \in T : s \o t \in T
  <2>1. Keeps(<<>>, FALSE)
    BY DEF Keeps, WellPlaced, SamplesSynced, ReadsFenced, FillsEnclosed
  <2> QED BY <1>1, <2>1, Join
<1> HIDE DEF T
<1> QED BY <1>1, <1>2, RepeatStaysIn

(* What keeps to the discipline by the kinds of its calls alone.           *)
LEMMA KeepsKinds ==
  ASSUME NEW s
  PROVE  /\ OnlyOps(s, Plain) => Keeps(s, FALSE)
         /\ OnlyOps(s, QuietOp) => Quiet(s) /\ Keeps(s, TRUE)
         /\ OnlyOps(s, Unread) => OnlyOps(s, Plain)
         /\ Keeps(s, FALSE) => Keeps(s, TRUE)
         /\ WorldSize = 1 /\ OnlyOps(s, Kind) => Keeps(s, FALSE)
<1>1. ASSUME OnlyOps(s, Plain) PROVE Keeps(s, FALSE)
  BY <1>1 DEF OnlyOps, Keeps, Plain, SamplesSynced, ReadsFenced, FillsEnclosed
<1>2. ASSUME OnlyOps(s, QuietOp) PROVE Quiet(s) /\ Keeps(s, TRUE)
  <2>1. Quiet(s)
    BY <1>2 DEF OnlyOps, Quiet
  <2>2. \A p \in 1 .. Len(s) : QuietBetween(s, 0, p)
    BY <1>2 DEF OnlyOps, QuietBetween
  <2>3. \A i \in 1 .. Len(s) : s[i].op # "fill"
    BY <1>2, OpKinds DEF OnlyOps
  <2> QED BY <1>2, <2>1, <2>2, <2>3 DEF OnlyOps, Keeps, SamplesSynced, ReadsFenced, FillsEnclosed
<1>3. OnlyOps(s, Unread) => OnlyOps(s, Plain)
  BY DEF OnlyOps, Unread
<1>4. Keeps(s, FALSE) => Keeps(s, TRUE)
  BY DEF Keeps, SamplesSynced
<1>5. WorldSize = 1 /\ OnlyOps(s, Kind) => Keeps(s, FALSE)
  BY DEF Keeps, OnlyOps
<1> QED BY <1>1, <1>2, <1>3, <1>4, <1>5

(* A collective is a piece of its kind, with one rank the empty piece.     *)
LEMMA CollectiveOps ==
  ASSUME NEW X, NEW c \in X \cap CollectiveOp, c \in Label
  PROVE  OnlyOps(Collective(c), X)
<1>1. c \in Kind /\ c # "fill"
  BY OpKinds DEF Kind
<1>2. OnlyOps(Do(c, c, 0, 0), X)
  BY <1>1, OnlyDo
<1> QED BY <1>2, OnlyEmpty DEF Collective, IfMpi

(* After a sync the ranks are synced.                                      *)
LEMMA SyncEnds == EndsSynced(Sync) /\ OnlyOps(Sync, Unread)
<1>1. "sync" \in Unread \cap CollectiveOp
  <2>1. "sync" \in RootFirstOp
    BY DEF RootFirstOp
  <2> QED BY <2>1, OpKinds DEF CollectiveOp
<1>2. OnlyOps(Sync, Unread)
  BY <1>1, CollectiveOps DEF Sync, Label
<1>3. ASSUME WorldSize > 1 PROVE EndsSynced(Sync)
  <2>1. Len(Sync) = 1 /\ Sync[1].op = "sync"
    BY <1>3 DEF Sync, Collective, IfMpi, Do
  <2> QED BY <2>1 DEF EndsSynced, QuietBetween
<1> QED BY <1>2, <1>3, WorldAssumption DEF EndsSynced

-----------------------------------------------------------------------------
(* The types of the constants of GkrScript and of the numbers of rounds.   *)
LEMMA ScriptType ==
  /\ Layers \in Seq([vars : Nat, phase2 : BOOLEAN]) /\ Len(Layers) \in Nat /\ Len(Layers) > 0
  /\ \A l \in 1 .. Len(Layers) : Layers[l].vars \in Nat /\ Layers[l].phase2 \in BOOLEAN
  /\ OutVars \in Nat /\ SimdVars \in Nat /\ NumPI \in Nat /\ NumCoefs \in Nat
  /\ GrindRounds \in Nat /\ NProofs \in Nat
  /\ Pcs \in {"raw", "orion", "kzg"}
  /\ TrailingZeros(WorldSize) \in Nat
  /\ QueryDraws \in Nat /\ ProximityDraws \in Nat
<1>1. WorldSize \in Nat
  BY WorldAssumption
<1>2. IsFiniteSet(1 .. WorldSize)
  BY <1>1, FS_Interval
<1>3. {k \in 1 .. WorldSize : WorldSize % 2^k = 0} \subseteq 1 .. WorldSize
  OBVIOUS
<1>4. TrailingZeros(WorldSize) \in Nat
  BY <1>2, <1>3, FS_Subset, FS_CardinalityType DEF TrailingZeros
<1>5. Layers \in Seq([vars : Nat, phase2 : BOOLEAN]) /\ Len(Layers) > 0
  BY ScriptAssumption
<1>6. Len(Layers) \in Nat /\ \A l \in 1 .. Len(Layers) : Layers[l] \in [vars : Nat, phase2 : BOOLEAN]
  BY <1>5, LenProperties, ElementOfSeq
<1>7. /\ OutVars \in Nat /\ SimdVars \in Nat /\ NumPI \in Nat /\ NumCoefs \in Nat
      /\ GrindRounds \in Nat /\ NProofs \in Nat /\ Pcs \in {"raw", "orion", "kzg"}
  BY ScriptAssumption
<1> QED BY <1>4, <1>5, <1>6, <1>7 DEF QueryDraws, ProximityDraws

(* The kinds of the collectives the scripts call,                          *)
LEMMA PlainCalls ==
  /\ OnlyOps(Gather, Unread) /\ OnlyOps(Bcast, Unread) /\ OnlyOps(Gather, QuietOp) /\ OnlyOps(Bcast, QuietOp)
  /\ OnlyOps(Collective("alltoall"), Unread) /\ OnlyOps(Collective("barrier"), Unread)
  /\ OnlyOps(Collective("alltoall"), QuietOp) /\ OnlyOps(Collective("barrier"), QuietOp)
<1>1. /\ "gather" \in Unread \cap CollectiveOp /\ "bcast" \in Unread \cap CollectiveOp
      /\ "alltoall" \in Unread \cap CollectiveOp /\ "barrier" \in Unread \cap CollectiveOp
  <2>1. /\ "gather" \in LeavesFirstOp /\ "bcast" \in RootFirstOp
        /\ "alltoall" \in RootFirstOp /\ "barrier" \in RootFirstOp
    BY DEF LeavesFirstOp, RootFirstOp
  <2> QED BY <2>1, OpKinds DEF CollectiveOp
<1>2. /\ "gather" \in QuietOp /\ "bcast" \in QuietOp /\ "alltoall" \in QuietOp /\ "barrier" \in QuietOp
  BY DEF QuietOp
<1>3. {"gather", "bcast", "alltoall", "barrier"} \subseteq Label
  BY DEF Label
<1> QED BY <1>1, <1>2, <1>3, CollectiveOps DEF Gather, Bcast

(* and of the other calls.                                                 *)
LEMMA PlainDo ==
  ASSUME NEW what \in Label, NEW l \in Nat, NEW i \in Nat
  PROVE  /\ \A op \in {"append", "refresh", "lock", "unlock", "new", "commit", "finish", "dump"} :
              OnlyOps(Do(op, what, l, i), Unread) /\ OnlyOps(DoRoot(op, what, l, i), Unread)
         /\ OnlyOps(Do("read", what, l, i), Plain)
         /\ OnlyOps(Do("sample", what, l, i), QuietOp) /\ OnlyOps(Do("sample", what, l, i), Kind)
         /\ Keeps(Challenge(what, l, i), FALSE)
<1>1. \A op \in {"append", "refresh", "lock", "unlock", "new", "commit", "finish", "dump"} :
        op \in Unread \cap Kind /\ op \in LocalOp /\ op # "sample" /\ op # "fill"
  <2>1. \A op \in {"append", "refresh", "lock", "unlock", "new", "commit", "finish", "dump"} :
          op \in LocalOp /\ op \notin {"sample", "fill", "read"}
    BY DEF LocalOp
  <2> QED BY <2>1 DEF Unread, Plain, Kind
<1>2. "read" \in Plain \cap Kind /\ "sample" \in QuietOp \cap Kind
  BY DEF Plain, Kind, LocalOp, QuietOp
<1>3. "challenge" \in Unread \cap Kind
  BY DEF Unread, Plain, Kind, CollectiveOp, RootFirstOp
<1>4. CASE WorldSize > 1
  <2>1. OnlyOps(Do("challenge", what, l, i), Unread)
    BY <1>3, OnlyDo
  <2>2. Challenge(what, l, i) = Do("challenge", what, l, i)
    BY <1>4 DEF Challenge
  <2> QED BY <1>1, <1>2, <2>1, <2>2, OnlyDo, OnlyDoRoot, KeepsKinds
<1>5. CASE WorldSize = 1
  <2>1. OnlyOps(Do("sample", what, l, i), Kind)
    BY <1>2, OnlyDo
  <2>2. Challenge(what, l, i) = Do("sample", what, l, i)
    BY <1>5 DEF Challenge
  <2> QED BY <1>1, <1>2, <1>5, <2>1, <2>2, OnlyDo, OnlyDoRoot, KeepsKinds
<1>6. WorldSize > 1 \/ WorldSize = 1
  BY WorldAssumption
<1> QED BY <1>4, <1>5, <1>6

(* Samples of a point are quiet. *)
LEMMA QuietSamples ==
  ASSUME NEW n \in Nat, NEW what \in Label
  PROVE  OnlyOps(Samples(n, what), QuietOp)
<1> DEFINE seqs == [i \in 1 .. n |-> Do("sample", what, 0, i)]
<1>1. ASSUME NEW i \in 1 .. n PROVE OnlyOps(seqs[i], QuietOp)
  <2>1. i \in Nat /\ 0 \in Nat
    OBVIOUS
  <2> QED BY <2>1, PlainDo
<1>2. seqs = [i \in 1 .. n |-> seqs[i]]
  OBVIOUS
<1> HIDE DEF seqs
<1>3. OnlyOps(FlattenSeq(seqs), QuietOp)
  BY <1>1, <1>2, OnlyRepeat
<1> QED BY <1>3 DEF Samples, Repeat, seqs

(* The calls that draw the first points of the output layer, and the       *)
(* gathering of the claim, are quiet.                                      *)
LEMMA QuietGkrStart == OnlyOps(SampleFromTranscript, QuietOp) /\ OnlyOps(CollectivelyEval, QuietOp)
<1>1. OnlyOps(Samples(OutVars, "rz"), QuietOp)
  BY ScriptType, QuietSamples DEF Label
<1>2. OnlyOps(Samples(SimdVars, "r_simd"), QuietOp)
  BY ScriptType, QuietSamples DEF Label
<1>3. OnlyOps(Samples(TrailingZeros(WorldSize), "r_mpi"), QuietOp)
  BY ScriptType, QuietSamples DEF Label
<1>4. OnlyOps(Samples(OutVars, "rz") \o Samples(SimdVars, "r_simd"), QuietOp)
  BY <1>1, <1>2, OnlyJoin
<1> QED BY <1>3, <1>4, OnlyJoin, PlainCalls DEF SampleFromTranscript, CollectivelyEval

(* A sum-check loop keeps to the discipline if evaluating its polynomials  *)
(* neither samples nor reads nor fills.                                    *)
LEMMA KeepsRounds ==
  ASSUME NEW n \in Nat, NEW evals, OnlyOps(evals, Unread), NEW what \in Label, NEW l \in Nat
  PROVE  Keeps(Rounds(n, evals, what, l), FALSE)
<1> DEFINE seqs == [i \in 1 .. n |-> evals \o TranscriptIo(what, l, i)]
<1>1. ASSUME NEW i \in 1 .. n
      PROVE  Keeps(seqs[i], FALSE)
  <2>1. OnlyOps(Do("append", what, l, i), Unread) /\ Keeps(Challenge(what, l, i), FALSE)
    <3>1. i \in Nat
      OBVIOUS
    <3> QED BY <3>1, PlainDo
  <2>2. Keeps(TranscriptIo(what, l, i), FALSE)
    BY <2>1, Join, KeepsKinds DEF TranscriptIo
  <2>3. Keeps(evals \o TranscriptIo(what, l, i), FALSE)
    BY <2>2, Join, KeepsKinds
  <2> QED BY <2>3
<1>2. seqs = [i \in 1 .. n |-> seqs[i]]
  OBVIOUS
<1> HIDE DEF seqs
<1>3. Keeps(FlattenSeq(seqs), FALSE)
  BY <1>1, <1>2, KeepsRepeat
<1> QED BY <1>3 DEF Rounds, Repeat, seqs

(* Pieces that each keep to the discipline, in a row.                      *)
LEMMA Chain ==
  ASSUME NEW s, NEW t, Keeps(s, FALSE), Keeps(t, FALSE)
  PROVE  Keeps(s \o t, FALSE)
BY Join

(* Three pieces in a row.                                                  *)
LEMMA OnlyChain ==
  ASSUME NEW X, NEW s, NEW t, NEW u, OnlyOps(s, X), OnlyOps(t, X), OnlyOps(u, X)
  PROVE  OnlyOps(s \o t \o u, X)
BY OnlyJoin

(* What may be sampled on entry may be sampled after a sync. *)
LEMMA AfterSync ==
  ASSUME NEW s, NEW t, Keeps(s, FALSE), Keeps(t, TRUE)
  PROVE  Keeps(s \o Sync \o t, FALSE) /\ Keeps(Sync \o t, FALSE)
<1>1. Keeps(Sync, FALSE) /\ EndsSynced(Sync) /\ Sync \in Seq(Op) /\ s \in Seq(Op)
  BY SyncEnds, KeepsKinds DEF OnlyOps, Keeps
<1>2. Keeps(s \o Sync, FALSE) /\ EndsSynced(s \o Sync)
  BY <1>1, Join, JoinEnds
<1> QED BY <1>1, <1>2, Join

(* The prover of a layer keeps to the discipline,                          *)
LEMMA KeepsLayer ==
  ASSUME NEW l \in 1 .. Len(Layers)
  PROVE  Keeps(SumcheckProveGkrLayer(l), FALSE)
<1>0. /\ l \in Nat /\ 0 \in Nat /\ 1 \in Nat /\ 2 \in Nat
      /\ Layers[l].vars \in Nat /\ Layers[l].phase2 \in BOOLEAN
      /\ SimdVars \in Nat /\ TrailingZeros(WorldSize) \in Nat
      /\ {"coefs", "x", "y", "simd", "mpi", "vx", "vy"} \subseteq Label
  BY ScriptType DEF Label
<1>1. Keeps(PrepareXVals(l), FALSE)
  BY <1>0, PlainDo, KeepsKinds DEF PrepareXVals
<1>2. Keeps(Rounds(Layers[l].vars, PolyEvalsAtRx, "x", l), FALSE)
  BY <1>0, PlainCalls, KeepsRounds DEF PolyEvalsAtRx, CoefCombineVec
<1>3. Keeps(Rounds(SimdVars, PolyEvalsAtRSimdVar, "simd", l), FALSE)
  BY <1>0, PlainCalls, KeepsRounds DEF PolyEvalsAtRSimdVar, CoefCombineVec
<1>4. Keeps(PrepareMpiVarVals, FALSE)
  BY PlainCalls, OnlyJoin, KeepsKinds DEF PrepareMpiVarVals
<1>5. Keeps(Rounds(TrailingZeros(WorldSize), PolyEvalsAtRMpiVar, "mpi", l), FALSE)
  BY <1>0, OnlyEmpty, KeepsRounds DEF PolyEvalsAtRMpiVar
<1>6. Keeps(Do("append", "vx", l, 0), FALSE) /\ Keeps(Do("append", "vy", l, 0), FALSE)
  BY <1>0, PlainDo, KeepsKinds
<1>7. Keeps(PrepareYVals(l), FALSE)
  <2>1. Keeps(Do("read", "coefs", l, 2), FALSE)
    BY <1>0, PlainDo, KeepsKinds
  <2> QED BY <2>1, PlainCalls, KeepsKinds, Chain DEF PrepareYVals
<1>8. Keeps(Rounds(Layers[l].vars, PolyEvalsAtRy, "y", l), FALSE)
  BY <1>0, PlainCalls, KeepsRounds DEF PolyEvalsAtRy, PolyEvalsAtRx, CoefCombineVec
<1>9. Keeps(VyClaim, FALSE)
  BY PlainCalls, KeepsKinds DEF VyClaim, CoefCombineVec
<1> DEFINE phase2 == PrepareYVals(l) \o Rounds(Layers[l].vars, PolyEvalsAtRy, "y", l)
                       \o VyClaim \o Do("append", "vy", l, 0)
           tail   == IF Layers[l].phase2 THEN phase2 ELSE <<>>
<1>10. Keeps(phase2, FALSE)
  <2>1. Keeps(PrepareYVals(l) \o Rounds(Layers[l].vars, PolyEvalsAtRy, "y", l), FALSE)
    BY <1>7, <1>8, Chain
  <2>2. Keeps(PrepareYVals(l) \o Rounds(Layers[l].vars, PolyEvalsAtRy, "y", l) \o VyClaim, FALSE)
    BY <1>9, <2>1, Chain
  <2> QED BY <1>6, <2>2, Chain
<1>11. Keeps(tail, FALSE)
  <2> HIDE DEF phase2
  <2>1. Keeps(<<>>, FALSE)
    BY OnlyEmpty, KeepsKinds
  <2> QED BY <1>10, <2>1
<1>12. SumcheckProveGkrLayer(l) =
         PrepareXVals(l)
          \o Rounds(Layers[l].vars, PolyEvalsAtRx, "x", l)
          \o Rounds(SimdVars, PolyEvalsAtRSimdVar, "simd", l)
          \o PrepareMpiVarVals
          \o Rounds(TrailingZeros(WorldSize), PolyEvalsAtRMpiVar, "mpi", l)
          \o Do("append", "vx", l, 0)
          \o tail
  BY DEF SumcheckProveGkrLayer
<1> HIDE DEF tail
<1>13. Keeps(PrepareXVals(l) \o Rounds(Layers[l].vars, PolyEvalsAtRx, "x", l), FALSE)
  BY <1>1, <1>2, Chain
<1>14. Keeps(PrepareXVals(l) \o Rounds(Layers[l].vars, PolyEvalsAtRx, "x", l)
               \o Rounds(SimdVars, PolyEvalsAtRSimdVar, "simd", l), FALSE)
  BY <1>13, <1>3, Chain
<1>15. Keeps(PrepareXVals(l) \o Rounds(Layers[l].vars, PolyEvalsAtRx, "x", l)
               \o Rounds(SimdVars, PolyEvalsAtRSimdVar, "simd", l) \o PrepareMpiVarVals, FALSE)
  BY <1>14, <1>4, Chain
<1>16. Keeps(PrepareXVals(l) \o Rounds(Layers[l].vars, PolyEvalsAtRx, "x", l)
               \o Rounds(SimdVars, PolyEvalsAtRSimdVar, "simd", l) \o PrepareMpiVarVals
               \o Rounds(TrailingZeros(WorldSize), PolyEvalsAtRMpiVar, "mpi", l), FALSE)
  BY <1>15, <1>5, Chain
<1>17. Keeps(PrepareXVals(l) \o Rounds(Layers[l].vars, PolyEvalsAtRx, "x", l)
               \o Rounds(SimdVars, PolyEvalsAtRSimdVar, "simd", l) \o PrepareMpiVarVals
               \o Rounds(TrailingZeros(WorldSize), PolyEvalsAtRMpiVar, "mpi", l)
               \o Do("append", "vx", l, 0), FALSE)
  BY <1>16, <1>6, Chain
<1> QED BY <1>11, <1>12, <1>17, Chain

(* and so does that of all layers if a sync precedes it.                   *)
LEMMA KeepsGkrProve == Keeps(GkrProve, TRUE)
<1> DEFINE n == Len(Layers)
           seqs == [k \in 1 .. n |->
             LET l == n + 1 - k
             IN SumcheckProveGkrLayer(l)
                  \o (IF Layers[l].phase2 THEN Challenge("alpha", l, 0) ELSE <<>>)]
           Start == SampleFromTranscript \o CollectivelyEval
<1>1. ASSUME NEW k \in 1 .. n PROVE Keeps(seqs[k], FALSE)
  <2> DEFINE l == n + 1 - k
  <2>1. l \in 1 .. n /\ l \in Nat /\ n \in Nat /\ 0 \in Nat
    BY ScriptType
  <2>2. Keeps(SumcheckProveGkrLayer(l), FALSE)
    BY <2>1, KeepsLayer
  <2>3. Keeps(Challenge("alpha", l, 0), FALSE)
    <3>1. "alpha" \in Label
      BY DEF Label
    <3> HIDE DEF l
    <3> QED BY <2>1, <3>1, PlainDo
  <2>4. Keeps(<<>>, FALSE)
    BY OnlyEmpty, KeepsKinds
  <2>5. Keeps(IF Layers[l].phase2 THEN Challenge("alpha", l, 0) ELSE <<>>, FALSE)
    BY <2>3, <2>4
  <2>6. Keeps(SumcheckProveGkrLayer(l)
                \o (IF Layers[l].phase2 THEN Challenge("alpha", l, 0) ELSE <<>>), FALSE)
    BY <2>2, <2>5, Chain
  <2> QED BY <2>6
<1>2. seqs = [k \in 1 .. n |-> seqs[k]] /\ n \in Nat
  BY ScriptType
<1>3. GkrProve = Start \o FlattenSeq(seqs)
  BY DEF GkrProve, Repeat
<1> HIDE DEF seqs, n
<1>4. Keeps(FlattenSeq(seqs), FALSE)
  BY <1>1, <1>2, KeepsRepeat
<1>5. Keeps(Start, TRUE)
  BY QuietGkrStart, OnlyJoin, KeepsKinds
<1> HIDE DEF Start
<1> QED BY <1>3, <1>4, <1>5, Join

(* The commitment.                                                         *)
Has(s, ops) == \E q \in 1 .. Len(s) : s[q].op \in ops

(* A call in a piece is in the longer program.                             *)
LEMMA HasJoin ==
  ASSUME NEW ops, NEW s \in Seq(Op), NEW t \in Seq(Op), Has(s, ops) \/ Has(t, ops)
  PROVE  Has(s \o t, ops)
<1>1. ASSUME NEW q \in 1 .. Len(s), s[q].op \in ops PROVE Has(s \o t, ops)
  <2>1. q \in 1 .. Len(s \o t) /\ (s \o t)[q] = s[q]
    BY ConcatElements
  <2> QED BY <1>1, <2>1 DEF Has
<1>2. ASSUME NEW q \in 1 .. Len(t), t[q].op \in ops PROVE Has(s \o t, ops)
  <2>1. Len(s) + q \in 1 .. Len(s \o t) /\ (s \o t)[Len(s) + q] = t[q]
    BY ConcatElements
  <2> QED BY <1>2, <2>1 DEF Has
<1> QED BY <1>1, <1>2 DEF Has

(* A gather holds the root back, a barrier all.                            *)
LEMMA GatherHas == WorldSize > 1 => Has(Gather, LeavesFirstOp) /\ Has(Collective("barrier"), RootFirstOp)
<1> SUFFICES ASSUME WorldSize > 1
             PROVE  Has(Gather, LeavesFirstOp) /\ Has(Collective("barrier"), RootFirstOp)
  OBVIOUS
<1>1. Len(Gather) = 1 /\ Gather[1].op = "gather"
  BY DEF Gather, Collective, IfMpi, Do
<1>2. Len(Collective("barrier")) = 1 /\ Collective("barrier")[1].op = "barrier"
  BY DEF Collective, IfMpi, Do
<1> QED BY <1>1, <1>2 DEF Has, LeavesFirstOp, RootFirstOp

(* Every commitment scheme gathers when it commits, so the root waits for  *)
(* the others.                                                             *)
LEMMA CommitGathers ==
  OnlyOps(PcsCommit, Unread) /\ (WorldSize > 1 => Has(PcsCommit, LeavesFirstOp))
<1>1. CASE Pcs \in {"raw", "kzg"}
  <2>1. PcsCommit = Gather
    BY <1>1 DEF PcsCommit, RawCommit, KzgCommit
  <2> QED BY <2>1, PlainCalls, GatherHas
<1>2. CASE Pcs = "orion"
  <2>1. PcsCommit = Collective("alltoall") \o Gather \o Bcast
    BY <1>2 DEF PcsCommit, OrionCommit
  <2>2. /\ Collective("alltoall") \in Seq(Op) /\ Gather \in Seq(Op) /\ Bcast \in Seq(Op)
        /\ Collective("alltoall") \o Gather \in Seq(Op)
    BY PlainCalls, ConcatElements DEF OnlyOps
  <2>3. WorldSize > 1 => Has(Collective("alltoall") \o Gather, LeavesFirstOp)
    BY <2>2, GatherHas, HasJoin
  <2>4. WorldSize > 1 => Has(Collective("alltoall") \o Gather \o Bcast, LeavesFirstOp)
    BY <2>2, <2>3, HasJoin
  <2>5. OnlyOps(Collective("alltoall") \o Gather \o Bcast, Unread)
    BY PlainCalls, OnlyChain
  <2> QED BY <2>1, <2>4, <2>5
<1> QED BY <1>1, <1>2, ScriptType

(* The opening.                                                            *)
LEMMA QuietOrionOpen == OnlyOps(OrionOpen, QuietOp)
<1>0. QueryDraws \in Nat /\ ProximityDraws \in Nat /\ "query" \in Label /\ "proximity" \in Label
  BY ScriptType DEF Label
<1>1. OnlyOps(Samples(QueryDraws, "query"), QuietOp) /\ OnlyOps(Samples(ProximityDraws, "proximity"), QuietOp)
  BY <1>0, QuietSamples
<1>2. OnlyOps(GatherVarlen, QuietOp) /\ OnlyOps(SumVec, QuietOp)
  BY PlainCalls, OnlyJoin DEF GatherVarlen, SumVec
<1>3. OnlyOps(OrionMtOpenings, QuietOp)
  BY <1>1, <1>2, OnlyJoin DEF OrionMtOpenings
<1> DEFINE seqs == [i \in 1 .. ProximityDraws |-> SumVec]
<1>4. \A i \in 1 .. ProximityDraws : OnlyOps(seqs[i], QuietOp)
  BY <1>2
<1>5. seqs = [i \in 1 .. ProximityDraws |-> seqs[i]]
  OBVIOUS
<1>6. OrionOpen = Samples(ProximityDraws, "proximity") \o SumVec \o FlattenSeq(seqs) \o OrionMtOpenings
  BY DEF OrionOpen, Repeat
<1> HIDE DEF seqs
<1>7. OnlyOps(FlattenSeq(seqs), QuietOp)
  BY <1>0, <1>4, <1>5, OnlyRepeat
<1>8. OnlyOps(Samples(ProximityDraws, "proximity") \o SumVec \o FlattenSeq(seqs), QuietOp)
  BY <1>1, <1>2, <1>7, OnlyChain
<1> QED BY <1>3, <1>6, <1>8, OnlyJoin

(* The openings of the schemes: HyperKZG with one rank,                    *)
LEMMA KeepsHyperKzgOpen == WorldSize = 1 => Keeps(HyperKzgOpen, FALSE)
<1> SUFFICES ASSUME WorldSize = 1 PROVE Keeps(HyperKzgOpen, FALSE)
  OBVIOUS
<1>0. {"folded", "beta_x", "evals", "gamma", "beta_x_com", "delta_x"} \subseteq Label /\ 0 \in Nat
  BY DEF Label
<1>1. /\ Keeps(Do("append", "folded", 0, 0), FALSE)
      /\ Keeps(Do("append", "evals", 0, 0), FALSE)
      /\ Keeps(Do("append", "beta_x_com", 0, 0), FALSE)
  BY <1>0, PlainDo, KeepsKinds
<1>2. /\ Keeps(Do("sample", "beta_x", 0, 0), FALSE)
      /\ Keeps(Do("sample", "gamma", 0, 0), FALSE)
      /\ Keeps(Do("sample", "delta_x", 0, 0), FALSE)
  BY <1>0, PlainDo, KeepsKinds
<1>3. Keeps(Do("append", "folded", 0, 0) \o Do("sample", "beta_x", 0, 0), FALSE)
  BY <1>1, <1>2, Chain
<1>4. Keeps(Do("append", "folded", 0, 0) \o Do("sample", "beta_x", 0, 0)
              \o Do("append", "evals", 0, 0), FALSE)
  BY <1>1, <1>3, Chain
<1>5. Keeps(Do("append", "folded", 0, 0) \o Do("sample", "beta_x", 0, 0)
              \o Do("append", "evals", 0, 0) \o Do("sample", "gamma", 0, 0), FALSE)
  BY <1>2, <1>4, Chain
<1>6. Keeps(Do("append", "folded", 0, 0) \o Do("sample", "beta_x", 0, 0)
              \o Do("append", "evals", 0, 0) \o Do("sample", "gamma", 0, 0)
              \o Do("append", "beta_x_com", 0, 0), FALSE)
  BY <1>1, <1>5, Chain
<1> QED BY <1>2, <1>6, Chain DEF HyperKzgOpen

(* A stretch between two syncs: quiet calls, then others, then the sync.   *)
LEMMA Stretch ==
  ASSUME NEW q, NEW u, OnlyOps(q, QuietOp), OnlyOps(u, Unread)
  PROVE  Keeps(q \o u \o Sync, TRUE) /\ EndsSynced(q \o u \o Sync)
<1>1. Keeps(q, TRUE) /\ Keeps(u, FALSE) /\ Keeps(Sync, FALSE) /\ Sync \in Seq(Op)
  BY SyncEnds, KeepsKinds DEF OnlyOps
<1>2. Keeps(q \o u, TRUE)
  BY <1>1, Join
<1>3. Keeps(q \o u \o Sync, TRUE)
  BY <1>1, <1>2, Join
<1> QED BY <1>1, <1>2, <1>3, SyncEnds, JoinEnds DEF Keeps

(* bivariate HyperKZG, whose challenges are each behind a sync but the     *)
(* first,                                                                  *)
LEMMA KeepsHyperBiKzgOpen == Keeps(HyperBiKzgOpen, TRUE)
<1>0. {"folded", "beta_x", "beta_y", "evals", "gamma", "beta_x_com", "beta_y_com",
       "delta_x", "delta_y"} \subseteq Label /\ 0 \in Nat
  BY DEF Label
<1>1. /\ OnlyOps(DoRoot("append", "folded", 0, 0), Unread)
      /\ OnlyOps(DoRoot("append", "evals", 0, 0), Unread)
      /\ OnlyOps(DoRoot("append", "beta_x_com", 0, 0), Unread)
      /\ OnlyOps(DoRoot("append", "beta_y_com", 0, 0), Unread)
  BY <1>0, PlainDo
<1>2. /\ OnlyOps(Do("sample", "beta_x", 0, 0), QuietOp)
      /\ OnlyOps(Do("sample", "beta_y", 0, 0), QuietOp)
      /\ OnlyOps(Do("sample", "gamma", 0, 0), QuietOp)
      /\ OnlyOps(Do("sample", "delta_x", 0, 0), QuietOp)
      /\ OnlyOps(Do("sample", "delta_y", 0, 0), QuietOp)
  BY <1>0, PlainDo
<1>3. Keeps(FoldOracles, TRUE) /\ EndsSynced(FoldOracles)
  <2>1. OnlyOps(Gather \o Gather, QuietOp)
    BY PlainCalls, OnlyJoin
  <2> QED BY <1>1, <2>1, Stretch DEF FoldOracles
<1>4. Keeps(EvalAtBetas, TRUE) /\ EndsSynced(EvalAtBetas)
  <2>1. OnlyOps(Do("sample", "beta_x", 0, 0) \o Do("sample", "beta_y", 0, 0) \o Gather, QuietOp)
    BY <1>2, PlainCalls, OnlyChain
  <2> QED BY <1>1, <2>1, Stretch DEF EvalAtBetas
<1>5. Keeps(QuotientX, TRUE) /\ EndsSynced(QuotientX)
  <2>1. OnlyOps(Do("sample", "gamma", 0, 0) \o Bcast \o Gather, QuietOp)
    BY <1>2, PlainCalls, OnlyChain
  <2> QED BY <1>1, <2>1, Stretch DEF QuotientX
<1>6. Keeps(QuotientY, TRUE) /\ EndsSynced(QuotientY)
  <2>1. OnlyOps(Do("sample", "delta_x", 0, 0) \o Gather, QuietOp)
    BY <1>2, PlainCalls, OnlyJoin
  <2> QED BY <1>1, <2>1, Stretch DEF QuotientY
<1>7. Keeps(OpenAtDeltas, TRUE)
  <2>1. OnlyOps(Do("sample", "delta_y", 0, 0) \o Bcast \o Gather, QuietOp)
    BY <1>2, PlainCalls, OnlyChain
  <2> QED BY <2>1, KeepsKinds DEF OpenAtDeltas
<1>8. \A s, t : Keeps(s, TRUE) /\ EndsSynced(s) /\ Keeps(t, TRUE)
        => Keeps(s \o t, TRUE) /\ (EndsSynced(t) => EndsSynced(s \o t))
  BY Join, JoinEnds DEF Keeps
<1>9. Keeps(FoldOracles \o EvalAtBetas, TRUE) /\ EndsSynced(FoldOracles \o EvalAtBetas)
  BY <1>3, <1>4, <1>8
<1>10. /\ Keeps(FoldOracles \o EvalAtBetas \o QuotientX, TRUE)
       /\ EndsSynced(FoldOracles \o EvalAtBetas \o QuotientX)
  BY <1>5, <1>8, <1>9
<1>11. /\ Keeps(FoldOracles \o EvalAtBetas \o QuotientX \o QuotientY, TRUE)
       /\ EndsSynced(FoldOracles \o EvalAtBetas \o QuotientX \o QuotientY)
  BY <1>6, <1>8, <1>10
<1> QED BY <1>7, <1>8, <1>11 DEF HyperBiKzgOpen

(* and the opening of whichever scheme is chosen, which needs a sync       *)
(* before it.                                                              *)
LEMMA KeepsPcsOpen == Keeps(PcsOpen, TRUE)
<1>1. Keeps(RawOpen, TRUE)
  BY OnlyEmpty, KeepsKinds DEF RawOpen
<1>2. Keeps(OrionOpen, TRUE)
  BY QuietOrionOpen, KeepsKinds
<1>3. Keeps(IF WorldSize > 1 THEN HyperBiKzgOpen ELSE HyperKzgOpen, TRUE)
  <2>1. CASE WorldSize > 1
    BY <2>1, KeepsHyperBiKzgOpen
  <2>2. CASE ~(WorldSize > 1)
    <3>1. WorldSize = 1
      BY <2>2, WorldAssumption
    <3>2. Keeps(HyperKzgOpen, TRUE)
      BY <3>1, KeepsHyperKzgOpen, KeepsKinds
    <3> QED BY <2>2, <3>2
  <2> QED BY <2>1, <2>2
<1>4. CASE Pcs = "raw"
  BY <1>1, <1>4 DEF PcsOpen
<1>5. CASE Pcs = "orion"
  BY <1>2, <1>5 DEF PcsOpen
<1>6. CASE Pcs = "kzg"
  BY <1>3, <1>6 DEF PcsOpen
<1> QED BY <1>4, <1>5, <1>6, ScriptType

(* Proving a claim about the input: lock_proof between the sync and the    *)
(* opening is quiet.                                                       *)
LEMMA KeepsClaim ==
  ASSUME NEW claim \in Nat
  PROVE  Keeps(ProveInputLayerClaim(claim), TRUE)
<1>0. "lock" \in Label /\ "opening" \in Label /\ 0 \in Nat /\ "lock" \in QuietOp \cap Kind
  BY DEF Label, QuietOp, Kind, LocalOp
<1>1. OnlyOps(Do("lock", "lock", 0, 0), QuietOp)
  BY <1>0, OnlyDo
<1>2. Keeps(Do("lock", "lock", 0, 0) \o PcsOpen, TRUE)
  BY <1>1, KeepsPcsOpen, KeepsKinds, Join
<1>3. Keeps(Do("unlock", "lock", 0, 0), FALSE) /\ Keeps(DoRoot("append", "opening", 0, claim), FALSE)
  BY <1>0, PlainDo, KeepsKinds
<1>4. Keeps(Do("lock", "lock", 0, 0) \o PcsOpen \o Do("unlock", "lock", 0, 0), TRUE)
  BY <1>2, <1>3, Join
<1> QED BY <1>3, <1>4, Join DEF ProveInputLayerClaim, Locked

(* Before the first read of the gates. *)
LEMMA UnreadGrind == OnlyOps(Grind, Unread)
<1>0. "grind" \in Label /\ "lock" \in Label /\ 0 \in Nat /\ GrindRounds \in Nat
  BY ScriptType DEF Label
<1> DEFINE seqs == [i \in 1 .. GrindRounds |->
             Do("append", "grind", 0, i) \o Do("refresh", "grind", 0, i)]
<1>1. ASSUME NEW i \in 1 .. GrindRounds PROVE OnlyOps(seqs[i], Unread)
  <2>1. i \in Nat
    BY <1>0
  <2>2. OnlyOps(Do("append", "grind", 0, i) \o Do("refresh", "grind", 0, i), Unread)
    BY <1>0, <2>1, PlainDo, OnlyJoin
  <2> QED BY <2>2
<1>2. seqs = [i \in 1 .. GrindRounds |-> seqs[i]]
  OBVIOUS
<1>3. Grind = IF GrindRounds = 0 THEN <<>>
              ELSE Do("refresh", "grind", 0, 0)
                     \o (Do("lock", "lock", 0, 0) \o (FlattenSeq(seqs) \o Do("append", "grind", 0, 0))
                           \o Do("unlock", "lock", 0, 0))
  BY DEF Grind, Locked, Repeat
<1> HIDE DEF seqs
<1>4. OnlyOps(FlattenSeq(seqs), Unread)
  BY <1>0, <1>1, <1>2, OnlyRepeat
<1>5. /\ OnlyOps(Do("refresh", "grind", 0, 0), Unread) /\ OnlyOps(Do("lock", "lock", 0, 0), Unread)
      /\ OnlyOps(Do("append", "grind", 0, 0), Unread) /\ OnlyOps(Do("unlock", "lock", 0, 0), Unread)
  BY <1>0, PlainDo
<1>6. OnlyOps(FlattenSeq(seqs) \o Do("append", "grind", 0, 0), Unread)
  BY <1>4, <1>5, OnlyJoin
<1>7. OnlyOps(Do("lock", "lock", 0, 0) \o (FlattenSeq(seqs) \o Do("append", "grind", 0, 0))
                \o Do("unlock", "lock", 0, 0), Unread)
  BY <1>5, <1>6, OnlyJoin
<1>8. OnlyOps(Do("refresh", "grind", 0, 0)
                \o (Do("lock", "lock", 0, 0) \o (FlattenSeq(seqs) \o Do("append", "grind", 0, 0))
                      \o Do("unlock", "lock", 0, 0)), Unread)
  BY <1>5, <1>7, OnlyJoin
<1> QED BY <1>3, <1>8, OnlyEmpty

(* The public input is bound before any gate is read,                      *)
LEMMA UnreadBind == OnlyOps(BindPublicInput, Unread)
<1>0. "pi" \in Label /\ 0 \in Nat /\ NumPI \in Nat
  BY ScriptType DEF Label
<1> DEFINE seqs == [i \in 1 .. NumPI |-> DoRoot("append", "pi", 0, i)]
<1>1. ASSUME NEW i \in 1 .. NumPI PROVE OnlyOps(seqs[i], Unread)
  <2>1. i \in Nat
    BY <1>0
  <2> QED BY <1>0, <2>1, PlainDo
<1>2. seqs = [i \in 1 .. NumPI |-> seqs[i]]
  OBVIOUS
<1>3. BindPublicInput = FlattenSeq(seqs) \o Sync
  BY DEF BindPublicInput, Repeat
<1> HIDE DEF seqs
<1>4. OnlyOps(FlattenSeq(seqs), Unread)
  BY <1>0, <1>1, <1>2, OnlyRepeat
<1> QED BY <1>3, <1>4, SyncEnds, OnlyJoin

(* and filling the coefficients is nothing but fills.                      *)
LEMMA OnlyFills == OnlyOps(FillRndCoefs, {"fill"})
<1>0. "coef" \in Label /\ 0 \in Nat /\ NumCoefs \in Nat /\ "fill" \in {"fill"} \cap LocalOp
  BY ScriptType DEF Label, LocalOp
<1> DEFINE seqs == [i \in 1 .. NumCoefs |-> DoRoot("fill", "coef", 0, i)]
<1>1. ASSUME NEW i \in 1 .. NumCoefs PROVE OnlyOps(seqs[i], {"fill"})
  <2>1. i \in Nat
    BY <1>0
  <2>2. OnlyOps(DoRoot("fill", "coef", 0, i), {"fill"})
    BY <1>0, <2>1, OnlyDoRoot
  <2> QED BY <2>2
<1>2. seqs = [i \in 1 .. NumCoefs |-> seqs[i]]
  OBVIOUS
<1>3. FillRndCoefs = FlattenSeq(seqs)
  BY DEF FillRndCoefs, Repeat
<1> HIDE DEF seqs
<1> QED BY <1>0, <1>1, <1>2, <1>3, OnlyRepeat

(* Fills after a call in which the root waits and before the barrier.      *)
LEMMA FillsKeep ==
  ASSUME NEW a, OnlyOps(a, Unread), WorldSize > 1 => Has(a, LeavesFirstOp)
  PROVE  Keeps(a \o ShareRndCoefs, FALSE)
<1> DEFINE b == Collective("barrier")
           s == a \o FillRndCoefs
<1>0. Kind = Unread \cup {"fill", "sample", "read"}
  BY OpKinds DEF Kind, Unread, Plain, LocalOp
<1>1. /\ OnlyOps(b, Unread) /\ OnlyOps(FillRndCoefs, {"fill"})
      /\ a \in Seq(Op) /\ FillRndCoefs \in Seq(Op) /\ b \in Seq(Op)
  BY PlainCalls, OnlyFills DEF OnlyOps
<1> HIDE DEF b
<1> DEFINE t == FillRndCoefs \o b
<1>2. OnlyOps(a, Unread \cup {"fill"}) /\ OnlyOps(FillRndCoefs, Unread \cup {"fill"})
      /\ OnlyOps(b, Unread \cup {"fill"})
  BY <1>1 DEF OnlyOps
<1>3. OnlyOps(t, Unread \cup {"fill"}) /\ t \in Seq(Op)
  BY <1>2, OnlyJoin DEF OnlyOps
<1> HIDE DEF t
<1>4. OnlyOps(a \o t, Unread \cup {"fill"})
  BY <1>2, <1>3, OnlyJoin
<1>5. ASSUME NEW i \in 1 .. Len(a \o t)
      PROVE  (a \o t)[i].op # "sample" /\ (a \o t)[i].op # "read"
  BY <1>4 DEF OnlyOps, Unread, Plain
<1>6. SamplesSynced(a \o t, FALSE) /\ ReadsFenced(a \o t)
  BY <1>5 DEF SamplesSynced, ReadsFenced
<1>7. ASSUME WorldSize > 1, NEW f \in 1 .. Len(a \o t), (a \o t)[f].op = "fill"
      PROVE  /\ HasBetween(a \o t, LeavesFirstOp, 0, f)
             /\ HasBetween(a \o t, RootFirstOp, f, Len(a \o t) + 1)
  <2>1. PICK q \in 1 .. Len(a) : a[q].op \in LeavesFirstOp
    BY <1>7 DEF Has
  <2>2. PICK e \in 1 .. Len(b) : b[e].op \in RootFirstOp
    BY <1>7, GatherHas DEF Has, b
  <2>3. f \in Len(a) + 1 .. Len(a \o t) /\ f - Len(a) \in 1 .. Len(t) /\ t[f - Len(a)].op = "fill"
    <3>1. f \notin 1 .. Len(a)
      <4> SUFFICES ASSUME f \in 1 .. Len(a) PROVE FALSE
        OBVIOUS
      <4>1. a[f].op = "fill" /\ a[f].op \in Unread
        BY <1>1, <1>3, <1>7, ConcatElements DEF OnlyOps
      <4> QED BY <4>1 DEF Unread, Plain
    <3>2. f \in Len(a) + 1 .. Len(a \o t)
      BY <1>1, <1>3, <3>1, ConcatElements
    <3> QED BY <1>1, <1>3, <1>7, <3>2, ConcatElements
  <2>4. f - Len(a) \in 1 .. Len(FillRndCoefs)
    <3> SUFFICES ASSUME f - Len(a) \notin 1 .. Len(FillRndCoefs) PROVE FALSE
      OBVIOUS
    <3> DEFINE g == f - Len(a)
    <3>1. g \in 1 .. Len(FillRndCoefs \o b) /\ (FillRndCoefs \o b)[g].op = "fill"
      BY <2>3 DEF t
    <3> HIDE DEF g
    <3>2. g \in Len(FillRndCoefs) + 1 .. Len(FillRndCoefs \o b)
      <4>1. g \notin 1 .. Len(FillRndCoefs)
        BY DEF g
      <4> QED BY <1>1, <3>1, <4>1, ConcatElements
    <3>3. g - Len(FillRndCoefs) \in 1 .. Len(b) /\ b[g - Len(FillRndCoefs)].op = "fill"
      BY <1>1, <3>1, <3>2, ConcatElements
    <3> QED BY <1>1, <3>3 DEF OnlyOps, Unread, Plain
  <2>5. /\ Len(a) \in Nat /\ Len(t) \in Nat /\ Len(a \o t) = Len(a) + Len(t)
        /\ Len(FillRndCoefs) \in Nat /\ Len(b) \in Nat /\ Len(t) = Len(FillRndCoefs) + Len(b)
    BY <1>1, <1>3, ConcatElements DEF t
  <2>6. q \in 0 + 1 .. f - 1 /\ (a \o t)[q] = a[q]
    BY <1>1, <1>3, <2>3, <2>5, ConcatElements
  <2>7. /\ Len(a) + (Len(FillRndCoefs) + e) \in f + 1 .. Len(a \o t)
        /\ (a \o t)[Len(a) + (Len(FillRndCoefs) + e)] = b[e]
    <3>1. t[Len(FillRndCoefs) + e] = b[e] /\ Len(FillRndCoefs) + e \in 1 .. Len(t)
      BY <1>1, <2>5, ConcatElements DEF t
    <3> DEFINE i == Len(FillRndCoefs) + e
    <3>2. i \in 1 .. Len(t) /\ t[i] = b[e]
      BY <3>1
    <3>3. Len(a) + i \in f + 1 .. Len(a \o t)
      BY <2>3, <2>4, <2>5, <3>2
    <3> HIDE DEF i
    <3>4. \A k \in 1 .. Len(t) : (a \o t)[Len(a) + k] = t[k]
      BY <1>1, <1>3, ConcatElements
    <3>5. (a \o t)[Len(a) + i] = t[i]
      BY ONLY <3>2, <3>4, Zenon
    <3> QED BY <3>2, <3>3, <3>5 DEF i
  <2>8. HasBetween(a \o t, LeavesFirstOp, 0, f)
    BY <2>1, <2>6 DEF HasBetween
  <2>9. Len(a) + (Len(FillRndCoefs) + e) \in f + 1 .. (Len(a \o t) + 1) - 1
    BY <2>5, <2>7
  <2>10. HasBetween(a \o t, RootFirstOp, f, Len(a \o t) + 1)
    BY <2>2, <2>7, <2>9, Zenon DEF HasBetween
  <2> QED BY <2>8, <2>10
<1>8. WorldSize > 1 => FillsEnclosed(a \o t)
  BY <1>7 DEF FillsEnclosed
<1>9. Keeps(a \o t, FALSE)
  BY <1>4, <1>6, <1>8 DEF Keeps, OnlyOps
<1> QED BY <1>9 DEF ShareRndCoefs, t, b

(* A whole proof: the commitment and the barrier enclose the fills.        *)
LEMMA KeepsProve == Keeps(Prove, FALSE)
<1>0. {"new", "com", "coefs", "proof"} \subseteq Label /\ {0, 1, 2} \subseteq Nat
  BY DEF Label
<1>1. /\ OnlyOps(Do("new", "new", 0, 0), Unread) /\ OnlyOps(DoRoot("commit", "com", 0, 0), Unread)
      /\ Keeps(Do("read", "coefs", 0, 0), FALSE) /\ Keeps(Do("finish", "proof", 0, 0), FALSE)
  BY <1>0, PlainDo, KeepsKinds
<1> DEFINE start == Do("new", "new", 0, 0) \o BindPublicInput
           a == start \o PcsCommit \o DoRoot("commit", "com", 0, 0) \o Grind
<1>2. OnlyOps(start, Unread)
  BY <1>1, UnreadBind, OnlyJoin
<1>3. OnlyOps(a, Unread) /\ (WorldSize > 1 => Has(a, LeavesFirstOp))
  <2> HIDE DEF start
  <2>1. OnlyOps(start \o PcsCommit, Unread)
    BY <1>2, CommitGathers, OnlyJoin
  <2>2. WorldSize > 1 => Has(start \o PcsCommit, LeavesFirstOp)
    BY <1>2, CommitGathers, HasJoin DEF OnlyOps
  <2>3. OnlyOps(start \o PcsCommit \o DoRoot("commit", "com", 0, 0), Unread)
    BY <1>1, <2>1, OnlyJoin
  <2>4. WorldSize > 1 => Has(start \o PcsCommit \o DoRoot("commit", "com", 0, 0), LeavesFirstOp)
    BY <1>1, <2>1, <2>2, HasJoin DEF OnlyOps
  <2>5. OnlyOps(a, Unread)
    BY <2>3, UnreadGrind, OnlyJoin
  <2>6. WorldSize > 1 => Has(a, LeavesFirstOp)
    BY <2>3, <2>4, UnreadGrind, HasJoin DEF OnlyOps
  <2> QED BY <2>5, <2>6
<1>4. /\ Keeps(ProveInputLayerClaim(1), TRUE) /\ Keeps(ProveInputLayerClaim(2), TRUE)
      /\ Keeps(<<>>, FALSE)
  BY KeepsClaim, OnlyEmpty, KeepsKinds
<1> DEFINE claim2 == IF Layers[1].phase2 THEN Sync \o ProveInputLayerClaim(2) ELSE <<>>
<1>5. Keeps(claim2, FALSE)
  <2>1. Keeps(Sync \o ProveInputLayerClaim(2), FALSE)
    BY <1>4, AfterSync
  <2> QED BY <1>4, <2>1
<1>6. Prove = a \o ShareRndCoefs \o Do("read", "coefs", 0, 0) \o Sync \o GkrProve
                \o Sync \o ProveInputLayerClaim(1) \o claim2 \o Do("finish", "proof", 0, 0)
  BY DEF Prove
<1> HIDE DEF a, claim2
<1>7. Keeps(a \o ShareRndCoefs, FALSE)
  BY <1>3, FillsKeep
<1>8. Keeps(a \o ShareRndCoefs \o Do("read", "coefs", 0, 0), FALSE)
  BY <1>1, <1>7, Chain
<1>9. Keeps(a \o ShareRndCoefs \o Do("read", "coefs", 0, 0) \o Sync \o GkrProve, FALSE)
  BY <1>8, KeepsGkrProve, AfterSync
<1>10. Keeps(a \o ShareRndCoefs \o Do("read", "coefs", 0, 0) \o Sync \o GkrProve
               \o Sync \o ProveInputLayerClaim(1), FALSE)
  BY <1>4, <1>9, AfterSync
<1>11. Keeps(a \o ShareRndCoefs \o Do("read", "coefs", 0, 0) \o Sync \o GkrProve
               \o Sync \o ProveInputLayerClaim(1) \o claim2, FALSE)
  BY <1>5, <1>10, Chain
<1> QED BY <1>1, <1>6, <1>11, Chain

(* Both programs keep to the discipline.                                   *)
LEMMA KeepsPrograms == Keeps(ProveCommand, FALSE) /\ Keeps(RunBenchmark, FALSE)
<1>0. "file" \in Label /\ 0 \in Nat /\ NProofs \in Nat
  BY ScriptType DEF Label
<1>1. Keeps(DoRoot("dump", "file", 0, 0), FALSE) /\ Keeps(Do("dump", "file", 0, 0), FALSE)
  BY <1>0, PlainDo, KeepsKinds
<1>2. Keeps(Collective("barrier"), FALSE)
  BY PlainCalls, KeepsKinds
<1> DEFINE seqs == [i \in 1 .. NProofs |-> Prove]
<1>3. \A i \in 1 .. NProofs : Keeps(seqs[i], FALSE)
  BY KeepsProve
<1>4. seqs = [i \in 1 .. NProofs |-> seqs[i]]
  OBVIOUS
<1>5. RunBenchmark = Prove \o Do("dump", "file", 0, 0) \o Collective("barrier") \o FlattenSeq(seqs)
  BY DEF RunBenchmark, Repeat
<1> HIDE DEF seqs
<1>6. Keeps(FlattenSeq(seqs), FALSE)
  BY <1>0, <1>3, <1>4, KeepsRepeat
<1>7. Keeps(Prove \o Do("dump", "file", 0, 0), FALSE)
  BY <1>1, KeepsProve, Chain
<1>8. Keeps(Prove \o Do("dump", "file", 0, 0) \o Collective("barrier"), FALSE)
  BY <1>2, <1>7, Chain
<1> QED BY <1>1, <1>5, <1>6, <1>8, KeepsProve, Chain DEF ProveCommand

(* For a whole program, to keep to the discipline is what SpmdProofs       *)
(* asks of it.                                                             *)
LEMMA KeepsMeansDisciplined ==
  ASSUME Keeps(Prog, FALSE)
  PROVE  Disciplined
<1>1. CollectivesOnAllRanks /\ FillsOnRoot
  BY DEF Keeps, WellPlaced, CollectivesOnAllRanks, FillsOnRoot, Calls, Pos
<1>2. ASSUME NEW p \in Calls({"sample"}) PROVE IsSynced(p)
  <2>1. p \in 1 .. Len(Prog) /\ Prog[p].op = "sample" /\ Prog[p].who = "all"
    BY DEF Calls, Pos, Keeps, WellPlaced
  <2>2. CASE WorldSize > 1
    <3>1. PICK k \in 1 .. p - 1 : Prog[k].op = "sync" /\ QuietBetween(Prog, k, p)
      BY <2>1, <2>2 DEF Keeps, SamplesSynced
    <3>2. k \in Calls({"sync"}) /\ k < p
      <4>1. k \in 1 .. Len(Prog) /\ k < p
        BY <2>1, OpType
      <4> QED BY <3>1, <4>1 DEF Calls, Pos
    <3> QED BY <2>1, <3>1, <3>2 DEF IsSynced, IsQuietSince, QuietBetween
  <2> QED BY <2>1, <2>2, WorldAssumption DEF IsSynced
<1>3. ASSUME NEW p \in Calls({"read"}) PROVE IsFenced(p)
  <2>1. p \in 1 .. Len(Prog) /\ Prog[p].op = "read" /\ Len(Prog) \in Nat
    BY OpType DEF Calls, Pos
  <2>2. ASSUME WorldSize > 1, NEW f \in Calls({"fill"})
        PROVE  /\ f < p => \E q \in Calls(RootFirstOp) : f < q /\ q < p
               /\ p < f => \E q \in Calls(LeavesFirstOp) : p < q /\ q < f
    <3>1. f \in 1 .. Len(Prog) /\ Prog[f].op = "fill"
      BY DEF Calls, Pos
    <3>2. /\ f < p => HasBetween(Prog, RootFirstOp, f, p)
          /\ p < f => HasBetween(Prog, LeavesFirstOp, p, f)
      BY <2>1, <2>2, <3>1 DEF Keeps, ReadsFenced
    <3>3. ASSUME NEW ops, NEW i \in 1 .. Len(Prog), NEW j \in 1 .. Len(Prog),
                 HasBetween(Prog, ops, i, j)
          PROVE  \E q \in Calls(ops) : i < q /\ q < j
      <4>1. PICK q \in i + 1 .. j - 1 : Prog[q].op \in ops
        BY <3>3 DEF HasBetween
      <4>2. q \in 1 .. Len(Prog) /\ i < q /\ q < j
        BY <2>1
      <4> QED BY <4>1, <4>2 DEF Calls, Pos
    <3> QED BY <2>1, <3>1, <3>2, <3>3
  <2> QED BY <2>2, WorldAssumption DEF IsFenced
<1> QED BY <1>1, <1>2, <1>3 DEF Disciplined

-----------------------------------------------------------------------------
(* The prover of expander-exec and the benchmark keep to the discipline,   *)
(* for every circuit, commitment scheme, number of ranks and of proofs.    *)
THEOREM ProgramsAreDisciplined ==
  ASSUME Prog \in {ProveCommand, RunBenchmark}
  PROVE  Prog \in Seq(Op) /\ Disciplined
<1>1. Keeps(Prog, FALSE)
  BY KeepsPrograms
<1> QED BY <1>1, KeepsMeansDisciplined DEF Keeps

(* So no rank ever comes to a collective it is left out of, samples a      *)
(* point without a sync, or reads gates without a fence.                   *)
THEOREM DisciplineKept ==
  ASSUME Prog \in {ProveCommand, RunBenchmark}
  PROVE  Spec => []KeepsDiscipline
<1>1. MatchInv => KeepsDiscipline
  <2> SUFFICES ASSUME MatchInv, NEW r \in Rank, Running(r)
               PROVE  /\ Current(r).op \in CollectiveOp => Current(r).who = "all"
                      /\ Current(r).op = "fill" => Current(r).who = "root"
                      /\ Current(r).op = "sample" => IsSynced(pc[r])
                      /\ Current(r).op = "read" => IsFenced(pc[r])
    BY DEF KeepsDiscipline
  <2>1. pc[r] \in Pos
    BY RunningType DEF MatchInv
  <2> QED
    BY <2>1, ProgramsAreDisciplined
    DEF Disciplined, CollectivesOnAllRanks, FillsOnRoot, Calls, Current
<1> QED
  BY <1>1, ProgramsAreDisciplined, MatchInvariant, PTL DEF Disciplined

(* The ranks that run these programs meet in every collective, use the     *)
(* same challenges, as if they read them from one random tape, and never   *)
(* see the coefficients of another proof.                                  *)
THEOREM ProverRanksAgree ==
  ASSUME Prog \in {ProveCommand, RunBenchmark}
  PROVE  /\ Spec => []CollectivesMatch
         /\ Spec => []ChallengeAgreement
         /\ Spec => []CoefReadsCurrent
         /\ Spec => OneSharedTape
<1>1. Disciplined
  BY ProgramsAreDisciplined
<1> QED
  BY <1>1, CollectivesAlwaysMatch, ChallengesAgree, CoefReadsAlwaysCurrent,
     ImplementsOneSharedTape DEF Disciplined

-----------------------------------------------------------------------------
(* Both programs begin with a new transcript.                              *)
Begins(s) == s \in Seq(Op) /\ Len(s) > 0 /\ s[1].op = "new"

(* What begins with a new transcript still does when more calls follow.    *)
LEMMA BeginsJoin ==
  ASSUME NEW s, NEW t, Begins(s), t \in Seq(Op)
  PROVE  Begins(s \o t)
<1>1. s \in Seq(Op) /\ 1 \in 1 .. Len(s)
  BY LenProperties DEF Begins
<1> QED BY <1>1, ConcatElements DEF Begins

(* The pieces that a program is put together from are programs.            *)
LEMMA PiecesAreCalls ==
  ASSUME NEW s, NEW e \in BOOLEAN, NEW X, Keeps(s, e) \/ OnlyOps(s, X)
  PROVE  s \in Seq(Op)
BY DEF Keeps, OnlyOps

(* A proof begins with a new transcript,                                   *)
LEMMA ProveBegins == Begins(Prove)
<1>0. {"new", "com", "coefs", "proof"} \subseteq Label /\ {0, 1, 2} \subseteq Nat
  BY DEF Label
<1> DEFINE claim2 == IF Layers[1].phase2 THEN Sync \o ProveInputLayerClaim(2) ELSE <<>>
<1>1. /\ Do("new", "new", 0, 0) \in Seq(Op) /\ DoRoot("commit", "com", 0, 0) \in Seq(Op)
      /\ Do("read", "coefs", 0, 0) \in Seq(Op) /\ Do("finish", "proof", 0, 0) \in Seq(Op)
  BY <1>0, PlainDo, KeepsKinds DEF Keeps, OnlyOps
<1>2. /\ BindPublicInput \in Seq(Op) /\ PcsCommit \in Seq(Op) /\ Grind \in Seq(Op)
      /\ FillRndCoefs \in Seq(Op) /\ GkrProve \in Seq(Op) /\ Sync \in Seq(Op)
  BY UnreadBind, CommitGathers, UnreadGrind, OnlyFills, KeepsGkrProve, SyncEnds
  DEF Keeps, OnlyOps
<1>3. ProveInputLayerClaim(1) \in Seq(Op) /\ ProveInputLayerClaim(2) \in Seq(Op)
  BY KeepsClaim DEF Keeps
<1>4. claim2 \in Seq(Op) /\ ShareRndCoefs \in Seq(Op)
  BY <1>2, <1>3, PlainCalls, ConcatProperties DEF ShareRndCoefs, OnlyOps
<1>5. Begins(Do("new", "new", 0, 0))
  BY <1>1 DEF Begins, Do
<1>6. Begins(Do("new", "new", 0, 0) \o BindPublicInput \o PcsCommit
             \o DoRoot("commit", "com", 0, 0) \o Grind)
  BY <1>1, <1>2, <1>5, BeginsJoin
<1>7. Prove = Do("new", "new", 0, 0) \o BindPublicInput \o PcsCommit
               \o DoRoot("commit", "com", 0, 0) \o Grind
               \o ShareRndCoefs \o Do("read", "coefs", 0, 0) \o Sync \o GkrProve
               \o Sync \o ProveInputLayerClaim(1) \o claim2 \o Do("finish", "proof", 0, 0)
  BY DEF Prove
<1> HIDE DEF claim2
<1>8. Begins(Do("new", "new", 0, 0) \o BindPublicInput \o PcsCommit
             \o DoRoot("commit", "com", 0, 0) \o Grind
             \o ShareRndCoefs \o Do("read", "coefs", 0, 0) \o Sync \o GkrProve)
  BY <1>1, <1>2, <1>4, <1>6, BeginsJoin
<1> QED BY <1>1, <1>2, <1>3, <1>4, <1>7, <1>8, BeginsJoin

(* and so do both programs.                                                *)
LEMMA ProgramsBegin == Begins(ProveCommand) /\ Begins(RunBenchmark)
<1>1. DoRoot("dump", "file", 0, 0) \in Seq(Op)
  <2>1. "file" \in Label /\ 0 \in Nat
    BY DEF Label
  <2> QED BY <2>1, PlainDo DEF OnlyOps
<1>2. Begins(ProveCommand)
  BY <1>1, ProveBegins, BeginsJoin DEF ProveCommand
<1>3. Begins(RunBenchmark)
  <2>1. "file" \in Label /\ 0 \in Nat /\ NProofs \in Nat
    BY ScriptType DEF Label
  <2>2. Do("dump", "file", 0, 0) \in Seq(Op)
    BY <2>1, PlainDo DEF OnlyOps
  <2>3. Collective("barrier") \in Seq(Op)
    BY PlainCalls DEF OnlyOps
  <2> DEFINE seqs == [i \in 1 .. NProofs |-> Prove]
  <2>4. FlattenSeq(seqs) \in Seq(Op)
    <3>1. \A i \in 1 .. NProofs : Keeps(seqs[i], FALSE)
      BY KeepsProve
    <3>2. seqs = [i \in 1 .. NProofs |-> seqs[i]]
      OBVIOUS
    <3> HIDE DEF seqs
    <3> QED BY <2>1, <3>1, <3>2, KeepsRepeat DEF Keeps
  <2>5. RunBenchmark = Prove \o Do("dump", "file", 0, 0) \o Collective("barrier") \o FlattenSeq(seqs)
    BY DEF RunBenchmark, Repeat
  <2> HIDE DEF seqs
  <2> QED BY <2>2, <2>3, <2>4, <2>5, ProveBegins, BeginsJoin
<1> QED BY <1>2, <1>3

(* Whatever the circuit, the scheme and the number of ranks, a challenge   *)
(* of the root hashes all that the root appended since the commitment, in  *)
(* that order, and nothing else.                                           *)
THEOREM ProverChallengesBind ==
  ASSUME Prog \in {ProveCommand, RunBenchmark}
  PROVE  Spec => []ChallengesBindTranscript
<1>1. StartsNew /\ CollectivesOnAllRanks
  BY ProgramsBegin, ProgramsAreDisciplined DEF StartsNew, Begins, Disciplined
<1> QED BY <1>1, ChallengesBind

-----------------------------------------------------------------------------
(* Locks in the programs: pieces that do not lock, pieces that lock and    *)
(* unlock again, and programs put together from them.                      *)
Free == Kind \ (LockOps \cup {"dump"})

(* At position p of the piece s the proof is locked by a call of s.        *)
LocksIn(s, p) ==
  \E l \in 1 .. Len(s) : /\ s[l].op = "lock" /\ l < p
                         /\ \A u \in 1 .. Len(s) : s[u].op \in Unlocking /\ l < u => p <= u

(* The piece s locks what is open, unlocks what is locked, leaves nothing  *)
(* locked, and dumps only after it has finished.                           *)
Paired(s) ==
  /\ s \in Seq(Op)
  /\ \A p \in 1 .. Len(s) :
       /\ s[p].op \in LockOps => s[p].who = "all"
       /\ s[p].op = "lock" => ~LocksIn(s, p)
       /\ s[p].op = "unlock" => LocksIn(s, p)
       /\ s[p].op = "dump" => \E f \in 1 .. p - 1 : s[f].op = "finish"
  /\ ~LocksIn(s, Len(s) + 1)

(* Up to its end, a program holds the locks of its first part; after it,   *)
(* those of its second part, if the first leaves none behind.              *)
LEMMA LocksJoin ==
  ASSUME NEW s \in Seq(Op), NEW t \in Seq(Op)
  PROVE  /\ \A p \in 1 .. Len(s) + 1 : LocksIn(s \o t, p) <=> LocksIn(s, p)
         /\ ~LocksIn(s, Len(s) + 1) =>
              \A p \in 1 .. Len(t) + 1 : LocksIn(s \o t, Len(s) + p) <=> LocksIn(t, p)
<1> DEFINE m == Len(s)
           n == Len(t)
           st == s \o t
<1>0. /\ m \in Nat /\ n \in Nat /\ Len(st) = m + n
      /\ \A i \in 1 .. m : st[i] = s[i]
      /\ \A i \in 1 .. n : st[m + i] = t[i]
      /\ \A i \in m + 1 .. m + n : i - m \in 1 .. n /\ st[i] = t[i - m]
  BY ConcatElements
<1> HIDE DEF m, n, st
<1>1. ASSUME NEW p \in 1 .. m + 1, LocksIn(s, p) PROVE LocksIn(st, p)
  <2>1. PICK l \in 1 .. m : /\ s[l].op = "lock" /\ l < p
                            /\ \A u \in 1 .. m : s[u].op \in Unlocking /\ l < u => p <= u
    BY <1>1 DEF LocksIn, m
  <2>2. l \in 1 .. Len(st) /\ st[l].op = "lock"
    BY <1>0, <2>1
  <2>3. ASSUME NEW u \in 1 .. Len(st), st[u].op \in Unlocking, l < u PROVE p <= u
    <3>1. CASE u \in 1 .. m
      BY <1>0, <2>1, <2>3, <3>1
    <3>2. CASE u \notin 1 .. m
      BY <1>0, <3>2
    <3> QED BY <3>1, <3>2
  <2> QED BY <2>1, <2>2, <2>3 DEF LocksIn
<1>2. ASSUME NEW p \in 1 .. m + 1, LocksIn(st, p) PROVE LocksIn(s, p)
  <2>1. PICK l \in 1 .. Len(st) : /\ st[l].op = "lock" /\ l < p
                                  /\ \A u \in 1 .. Len(st) : st[u].op \in Unlocking /\ l < u => p <= u
    BY <1>2 DEF LocksIn
  <2>2. l \in 1 .. m /\ s[l].op = "lock"
    <3>1. l \in 1 .. m
      BY <1>0, <2>1
    <3> QED BY <1>0, <2>1, <3>1
  <2>3. ASSUME NEW u \in 1 .. m, s[u].op \in Unlocking, l < u PROVE p <= u
    <3>1. u \in 1 .. Len(st) /\ st[u] = s[u]
      BY <1>0
    <3> QED BY <2>1, <2>3, <3>1
  <2> QED BY <2>1, <2>2, <2>3 DEF LocksIn, m
<1>3. ASSUME NEW p \in 1 .. n + 1, LocksIn(t, p) PROVE LocksIn(st, m + p)
  <2>1. PICK l \in 1 .. n : /\ t[l].op = "lock" /\ l < p
                            /\ \A u \in 1 .. n : t[u].op \in Unlocking /\ l < u => p <= u
    BY <1>3 DEF LocksIn, n
  <2>2. m + l \in 1 .. Len(st) /\ st[m + l].op = "lock" /\ m + l < m + p
    BY <1>0, <2>1
  <2>3. ASSUME NEW u \in 1 .. Len(st), st[u].op \in Unlocking, m + l < u PROVE m + p <= u
    <3>1. u \in m + 1 .. m + n
      BY <1>0, <2>3
    <3>2. u - m \in 1 .. n /\ t[u - m].op \in Unlocking /\ l < u - m
      BY <1>0, <2>3, <3>1
    <3>3. p <= u - m
      BY <2>1, <3>2
    <3> QED BY <1>0, <3>3
  <2> QED BY <2>2, <2>3 DEF LocksIn
<1>4. ASSUME NEW p \in 1 .. n + 1, LocksIn(st, m + p), ~LocksIn(s, m + 1)
      PROVE  LocksIn(t, p)
  <2>1. PICK l \in 1 .. Len(st) :
          /\ st[l].op = "lock" /\ l < m + p
          /\ \A u \in 1 .. Len(st) : st[u].op \in Unlocking /\ l < u => m + p <= u
    BY <1>4 DEF LocksIn
  <2>2. l \notin 1 .. m
    <3> SUFFICES ASSUME l \in 1 .. m PROVE FALSE
      OBVIOUS
    <3>1. s[l].op = "lock" /\ l < m + 1
      BY <1>0, <2>1
    <3>2. PICK u \in 1 .. m : s[u].op \in Unlocking /\ l < u
      BY <1>4, <3>1 DEF LocksIn, m
    <3>3. u \in 1 .. Len(st) /\ st[u] = s[u]
      BY <1>0
    <3>4. m + p <= u
      BY <2>1, <3>2, <3>3
    <3> QED BY <1>0, <3>4
  <2>3. l - m \in 1 .. n /\ t[l - m].op = "lock" /\ l - m < p
    <3>1. l \in m + 1 .. m + n
      BY <1>0, <2>1, <2>2
    <3> QED BY <1>0, <2>1, <3>1
  <2>4. ASSUME NEW u \in 1 .. n, t[u].op \in Unlocking, l - m < u PROVE p <= u
    <3>1. m + u \in 1 .. Len(st) /\ st[m + u] = t[u] /\ l < m + u
      BY <1>0, <2>1, <2>4
    <3>2. m + p <= m + u
      BY <2>1, <2>4, <3>1
    <3> QED BY <1>0, <3>2
  <2> QED BY <2>3, <2>4 DEF LocksIn, n
<1> QED BY <1>1, <1>2, <1>3, <1>4 DEF m, n, st

(* Two such pieces in a row are one.                                       *)
LEMMA JoinPaired ==
  ASSUME NEW s, NEW t, Paired(s), Paired(t)
  PROVE  Paired(s \o t)
<1>0. s \in Seq(Op) /\ t \in Seq(Op) /\ ~LocksIn(s, Len(s) + 1) /\ ~LocksIn(t, Len(t) + 1)
  BY DEF Paired
<1>1. /\ s \o t \in Seq(Op) /\ Len(s) \in Nat /\ Len(t) \in Nat /\ Len(s \o t) = Len(s) + Len(t)
  BY <1>0, ConcatElements
<1>2. ~LocksIn(s \o t, Len(s \o t) + 1)
  <2>1. Len(t) + 1 \in 1 .. Len(t) + 1 /\ Len(s) + (Len(t) + 1) = Len(s \o t) + 1
    BY <1>1
  <2>2. LocksIn(s \o t, Len(s) + (Len(t) + 1)) <=> LocksIn(t, Len(t) + 1)
    BY <1>0, <2>1, LocksJoin
  <2> QED BY <1>0, <2>1, <2>2
<1>3. ASSUME NEW p \in 1 .. Len(s \o t)
      PROVE  /\ (s \o t)[p].op \in LockOps => (s \o t)[p].who = "all"
             /\ (s \o t)[p].op = "lock" => ~LocksIn(s \o t, p)
             /\ (s \o t)[p].op = "unlock" => LocksIn(s \o t, p)
             /\ (s \o t)[p].op = "dump" => \E f \in 1 .. p - 1 : (s \o t)[f].op = "finish"
  <2>1. CASE p \in 1 .. Len(s)
    <3>1. (s \o t)[p] = s[p] /\ p \in 1 .. Len(s) + 1
      BY <1>0, <2>1, ConcatElements
    <3>2. LocksIn(s \o t, p) <=> LocksIn(s, p)
      BY <1>0, <3>1, LocksJoin
    <3>3. \A f \in 1 .. p - 1 : (s \o t)[f] = s[f]
      BY <1>0, <1>1, <2>1, ConcatElements
    <3> QED BY <2>1, <3>1, <3>2, <3>3 DEF Paired
  <2>2. CASE p \in Len(s) + 1 .. Len(s \o t)
    <3> DEFINE k == p - Len(s)
    <3>1. k \in 1 .. Len(t) /\ (s \o t)[p] = t[k] /\ p = Len(s) + k /\ k \in 1 .. Len(t) + 1
      BY <1>0, <1>1, <2>2, ConcatElements
    <3> HIDE DEF k
    <3>2. LocksIn(s \o t, p) <=> LocksIn(t, k)
      BY <1>0, <3>1, LocksJoin
    <3>3. ASSUME NEW f \in 1 .. k - 1
          PROVE  Len(s) + f \in 1 .. p - 1 /\ (s \o t)[Len(s) + f] = t[f]
      BY <1>0, <1>1, <3>1, ConcatElements
    <3>4. (\E f \in 1 .. k - 1 : t[f].op = "finish") => \E f \in 1 .. p - 1 : (s \o t)[f].op = "finish"
      BY <3>3
    <3> QED BY <3>1, <3>2, <3>4 DEF Paired
  <2> QED BY <1>1, <2>1, <2>2
<1> QED BY <1>1, <1>2, <1>3 DEF Paired

(* Locking and unlocking around a piece that does not.                     *)
LEMMA PairedKinds ==
  ASSUME NEW s, OnlyOps(s, Free)
  PROVE  Paired(s)
<1>1. s \in Seq(Op) /\ \A i \in 1 .. Len(s) : s[i].op \notin LockOps /\ s[i].op # "dump"
  BY DEF OnlyOps, Free
<1>2. \A i \in 1 .. Len(s) : s[i].op # "lock" /\ s[i].op # "unlock"
  BY <1>1 DEF LockOps
<1> QED BY <1>1, <1>2 DEF Paired, LocksIn

(* Locking around a piece that does not lock,                              *)
LEMMA PairedBracket ==
  ASSUME NEW s, OnlyOps(s, Free)
  PROVE  Paired(Locked(s))
<1> DEFINE l == Do("lock", "lock", 0, 0)
           u == Do("unlock", "lock", 0, 0)
           n == Len(s)
           t == l \o s \o u
<1>0. "lock" \in Label /\ 0 \in Nat
  BY DEF Label
<1>1. /\ l \in Seq(Op) /\ u \in Seq(Op) /\ s \in Seq(Op)
      /\ Len(l) = 1 /\ l[1].op = "lock" /\ l[1].who = "all"
      /\ Len(u) = 1 /\ u[1].op = "unlock" /\ u[1].who = "all"
  <2>1. OnlyOps(l, Unread) /\ OnlyOps(u, Unread)
    BY <1>0, PlainDo
  <2> QED BY <2>1 DEF OnlyOps, Do
<1> HIDE DEF l, u
<1>2. /\ l \o s \in Seq(Op) /\ Len(l \o s) = n + 1 /\ n \in Nat
      /\ (l \o s)[1] = l[1] /\ \A i \in 2 .. n + 1 : (l \o s)[i] = s[i - 1]
  <2>1. /\ l \o s \in Seq(Op) /\ n \in Nat /\ Len(l \o s) = Len(l) + n
        /\ \A i \in 1 .. Len(l) : (l \o s)[i] = l[i]
        /\ \A i \in Len(l) + 1 .. Len(l \o s) : (l \o s)[i] = s[i - Len(l)]
    BY <1>1, ConcatElements, ZenonT(60)
  <2> QED BY <1>1, <2>1
<1>3. /\ t \in Seq(Op) /\ Len(t) = n + 2
      /\ t[1] = l[1] /\ t[n + 2] = u[1]
      /\ \A i \in 2 .. n + 1 : i - 1 \in 1 .. n /\ t[i] = s[i - 1]
  <2>1. /\ t \in Seq(Op) /\ Len(t) = n + 2
        /\ \A i \in 1 .. n + 1 : t[i] = (l \o s)[i]
        /\ \A i \in n + 2 .. n + 2 : t[i] = u[i - (n + 1)]
    BY <1>1, <1>2, ConcatElements
  <2> QED BY <1>2, <2>1
<1> HIDE DEF t, n
<1>4. \A i \in 2 .. n + 1 : t[i].op \notin LockOps /\ t[i].op # "dump"
  BY <1>3 DEF OnlyOps, Free, n
<1>5. ~LocksIn(t, 1) /\ LocksIn(t, n + 2) /\ ~LocksIn(t, n + 3)
  <2>1. \A i \in 1 .. n + 2 : i = 1 \/ i = n + 2 \/ i \in 2 .. n + 1
    BY <1>2
  <2>2. ~LocksIn(t, 1)
    BY <1>2, <1>3 DEF LocksIn
  <2>3. LocksIn(t, n + 2)
    <3>1. \A v \in 1 .. n + 2 : t[v].op \in Unlocking /\ 1 < v => n + 2 <= v
      BY <1>2, <1>4, <2>1 DEF Unlocking, LockOps
    <3>2. 1 \in 1 .. Len(t) /\ t[1].op = "lock" /\ 1 < n + 2
      BY <1>1, <1>2, <1>3
    <3> QED BY <1>3, <3>1, <3>2 DEF LocksIn
  <2>4. ~LocksIn(t, n + 3)
    <3>1. \A i \in 1 .. n + 2 : t[i].op = "lock" => i = 1
      BY <1>1, <1>3, <1>4, <2>1 DEF LockOps
    <3>2. n + 2 \in 1 .. n + 2 /\ t[n + 2].op \in Unlocking /\ 1 < n + 2 /\ ~(n + 3 <= n + 2)
      BY <1>1, <1>2, <1>3 DEF Unlocking
    <3> QED BY <1>3, <3>1, <3>2 DEF LocksIn
  <2> QED BY <2>2, <2>3, <2>4
<1>6. ASSUME NEW p \in 1 .. Len(t)
      PROVE  /\ t[p].op \in LockOps => t[p].who = "all"
             /\ t[p].op = "lock" => ~LocksIn(t, p)
             /\ t[p].op = "unlock" => LocksIn(t, p)
             /\ t[p].op # "dump"
  <2>1. p = 1 \/ p = n + 2 \/ p \in 2 .. n + 1
    BY <1>2, <1>3
  <2>2. CASE p = 1
    BY <1>1, <1>3, <1>5, <2>2
  <2>3. CASE p = n + 2
    BY <1>1, <1>3, <1>5, <2>3
  <2>4. CASE p \in 2 .. n + 1
    BY <1>4, <2>4 DEF LockOps
  <2> QED BY <2>1, <2>2, <2>3, <2>4
<1>7. Len(t) + 1 = n + 3
  BY <1>2, <1>3
<1>8. Paired(t)
  BY <1>3, <1>5, <1>6, <1>7 DEF Paired
<1> QED BY <1>8 DEF Locked, t, l, u

(* and a loop over such pieces.                                            *)
LEMMA PairedRepeat ==
  ASSUME NEW n \in Nat, NEW seqs, seqs = [i \in 1 .. n |-> seqs[i]],
         \A i \in 1 .. n : Paired(seqs[i])
  PROVE  Paired(FlattenSeq(seqs))
<1> DEFINE T == {s \in Seq(Op) : Paired(s)}
<1>1. \A s : s \in T <=> Paired(s)
  BY DEF Paired
<1>2. <<>> \in T /\ \A s, t \in T : s \o t \in T
  BY <1>1, OnlyEmpty, PairedKinds, JoinPaired
<1> HIDE DEF T
<1> QED BY <1>1, <1>2, RepeatStaysIn

(* Calls that do not lock,                                                 *)
LEMMA FreeDo ==
  ASSUME NEW what \in Label, NEW l \in Nat, NEW i \in Nat
  PROVE  /\ \A op \in {"append", "refresh", "commit", "sample", "read"} :
              OnlyOps(Do(op, what, l, i), Free)
         /\ \A op \in {"append", "commit", "fill"} : OnlyOps(DoRoot(op, what, l, i), Free)
         /\ OnlyOps(TranscriptIo(what, l, i), Free) /\ OnlyOps(Challenge(what, l, i), Free)
<1>1. {"append", "refresh", "commit", "sample", "read", "fill", "challenge"} \subseteq Free \cap Kind
  BY DEF Free, Kind, LocalOp, CollectiveOp, RootFirstOp, LockOps
<1>2. {"append", "commit", "fill"} \subseteq LocalOp
  BY DEF LocalOp
<1>3. \A op \in {"append", "refresh", "commit", "sample", "read", "challenge"} :
        OnlyOps(Do(op, what, l, i), Free)
  BY <1>1, OnlyDo
<1>4. \A op \in {"append", "commit", "fill"} : OnlyOps(DoRoot(op, what, l, i), Free)
  BY <1>1, <1>2, OnlyDoRoot
<1>5. OnlyOps(Challenge(what, l, i), Free)
  BY <1>3 DEF Challenge
<1> QED BY <1>3, <1>4, <1>5, OnlyJoin DEF TranscriptIo

(* collectives, which never do,                                            *)
LEMMA FreeCalls ==
  /\ OnlyOps(Gather, Free) /\ OnlyOps(Bcast, Free) /\ OnlyOps(Sync, Free)
  /\ OnlyOps(Collective("alltoall"), Free) /\ OnlyOps(Collective("barrier"), Free)
  /\ OnlyOps(<<>>, Free)
<1>1. {"gather", "bcast", "sync", "alltoall", "barrier"} \subseteq Free \cap CollectiveOp
  BY DEF Free, Kind, LocalOp, CollectiveOp, RootFirstOp, LeavesFirstOp, LockOps
<1>2. {"gather", "bcast", "sync", "alltoall", "barrier"} \subseteq Label
  BY DEF Label
<1> QED BY <1>1, <1>2, CollectiveOps, OnlyEmpty DEF Gather, Bcast, Sync

(* loops,                                                                  *)
LEMMA FreeRepeats ==
  ASSUME NEW n \in Nat, NEW what \in Label
  PROVE  /\ OnlyOps(Samples(n, what), Free)
         /\ \A evals, l : OnlyOps(evals, Free) /\ l \in Nat => OnlyOps(Rounds(n, evals, what, l), Free)
<1>1. OnlyOps(Samples(n, what), Free)
  <2> DEFINE seqs == [i \in 1 .. n |-> Do("sample", what, 0, i)]
  <2>1. ASSUME NEW i \in 1 .. n PROVE OnlyOps(seqs[i], Free)
    <3>1. i \in Nat /\ 0 \in Nat
      OBVIOUS
    <3> QED BY <3>1, FreeDo
  <2>2. seqs = [i \in 1 .. n |-> seqs[i]]
    OBVIOUS
  <2> HIDE DEF seqs
  <2>3. OnlyOps(FlattenSeq(seqs), Free)
    BY <2>1, <2>2, OnlyRepeat
  <2> QED BY <2>3 DEF Samples, Repeat, seqs
<1>2. ASSUME NEW evals, NEW l \in Nat, OnlyOps(evals, Free)
      PROVE  OnlyOps(Rounds(n, evals, what, l), Free)
  <2> DEFINE seqs == [i \in 1 .. n |-> evals \o TranscriptIo(what, l, i)]
  <2>1. ASSUME NEW i \in 1 .. n PROVE OnlyOps(seqs[i], Free)
    <3>1. i \in Nat
      OBVIOUS
    <3>2. OnlyOps(evals \o TranscriptIo(what, l, i), Free)
      BY <1>2, <3>1, FreeDo, OnlyJoin
    <3> QED BY <3>2
  <2>2. seqs = [i \in 1 .. n |-> seqs[i]]
    OBVIOUS
  <2> HIDE DEF seqs
  <2>3. OnlyOps(FlattenSeq(seqs), Free)
    BY <2>1, <2>2, OnlyRepeat
  <2> QED BY <2>3 DEF Rounds, Repeat, seqs
<1> QED BY <1>1, <1>2

(* the prover of a layer,                                                  *)
LEMMA FreeLayer ==
  ASSUME NEW l \in 1 .. Len(Layers)
  PROVE  OnlyOps(SumcheckProveGkrLayer(l), Free)
<1> DEFINE F == {s \in Seq(Op) : OnlyOps(s, Free)}
<1>0. (\A s : s \in F <=> OnlyOps(s, Free)) /\ \A s, t \in F : s \o t \in F
  BY OnlyJoin DEF OnlyOps
<1>1. /\ l \in Nat /\ 0 \in Nat /\ 1 \in Nat /\ 2 \in Nat
      /\ Layers[l].vars \in Nat /\ Layers[l].phase2 \in BOOLEAN
      /\ SimdVars \in Nat /\ TrailingZeros(WorldSize) \in Nat
      /\ {"coefs", "x", "y", "simd", "mpi", "vx", "vy"} \subseteq Label
  BY ScriptType DEF Label
<1> HIDE DEF F
<1>2. Gather \in F /\ Bcast \in F /\ <<>> \in F
  BY <1>0, FreeCalls
<1>3. /\ PrepareXVals(l) \in F /\ Do("read", "coefs", l, 2) \in F
      /\ Do("append", "vx", l, 0) \in F /\ Do("append", "vy", l, 0) \in F
  BY <1>0, <1>1, FreeDo DEF PrepareXVals
<1>4. /\ Rounds(Layers[l].vars, PolyEvalsAtRx, "x", l) \in F
      /\ Rounds(SimdVars, PolyEvalsAtRSimdVar, "simd", l) \in F
      /\ Rounds(TrailingZeros(WorldSize), PolyEvalsAtRMpiVar, "mpi", l) \in F
      /\ Rounds(Layers[l].vars, PolyEvalsAtRy, "y", l) \in F
  <2>1. OnlyOps(Gather, Free) /\ OnlyOps(<<>>, Free)
    BY FreeCalls
  <2> QED BY <1>0, <1>1, <2>1, FreeRepeats
          DEF PolyEvalsAtRx, PolyEvalsAtRSimdVar, PolyEvalsAtRMpiVar, PolyEvalsAtRy, CoefCombineVec
<1>5. PrepareMpiVarVals \in F /\ PrepareYVals(l) \in F /\ VyClaim \in F
  BY <1>0, <1>2, <1>3 DEF PrepareMpiVarVals, PrepareYVals, VyClaim, CoefCombineVec
<1> QED BY <1>0, <1>2, <1>3, <1>4, <1>5 DEF SumcheckProveGkrLayer

(* that of all layers,                                                     *)
LEMMA FreeGkrProve == OnlyOps(GkrProve, Free)
<1> DEFINE n == Len(Layers)
           seqs == [k \in 1 .. n |->
             LET l == n + 1 - k
             IN SumcheckProveGkrLayer(l)
                  \o (IF Layers[l].phase2 THEN Challenge("alpha", l, 0) ELSE <<>>)]
<1>1. ASSUME NEW k \in 1 .. n PROVE OnlyOps(seqs[k], Free)
  <2> DEFINE l == n + 1 - k
  <2>1. l \in 1 .. n /\ l \in Nat /\ n \in Nat /\ 0 \in Nat /\ "alpha" \in Label
    BY ScriptType DEF Label
  <2>2. OnlyOps(SumcheckProveGkrLayer(l), Free)
    BY <2>1, FreeLayer
  <2>3. OnlyOps(Challenge("alpha", l, 0), Free)
    <3> HIDE DEF l
    <3> QED BY <2>1, FreeDo
  <2>4. OnlyOps(SumcheckProveGkrLayer(l)
                  \o (IF Layers[l].phase2 THEN Challenge("alpha", l, 0) ELSE <<>>), Free)
    BY <2>2, <2>3, FreeCalls, OnlyJoin
  <2> QED BY <2>4
<1>2. seqs = [k \in 1 .. n |-> seqs[k]] /\ n \in Nat
  BY ScriptType
<1>3. GkrProve = SampleFromTranscript \o CollectivelyEval \o FlattenSeq(seqs)
  BY DEF GkrProve, Repeat
<1> HIDE DEF seqs, n
<1>4. OnlyOps(FlattenSeq(seqs), Free)
  BY <1>1, <1>2, OnlyRepeat
<1>5. OnlyOps(SampleFromTranscript, Free)
  <2>1. /\ OnlyOps(Samples(OutVars, "rz"), Free) /\ OnlyOps(Samples(SimdVars, "r_simd"), Free)
        /\ OnlyOps(Samples(TrailingZeros(WorldSize), "r_mpi"), Free)
    BY ScriptType, FreeRepeats DEF Label
  <2> QED BY <2>1, OnlyChain DEF SampleFromTranscript
<1> QED BY <1>3, <1>4, <1>5, FreeCalls, OnlyChain DEF CollectivelyEval

(* and the opening of any scheme, none of which locks.                     *)
LEMMA FreePcsOpen == OnlyOps(PcsOpen, Free)
<1> DEFINE F == {s \in Seq(Op) : OnlyOps(s, Free)}
<1>0. (\A s : s \in F <=> OnlyOps(s, Free)) /\ \A s, t \in F : s \o t \in F
  BY OnlyJoin DEF OnlyOps
<1> HIDE DEF F
<1>1. {"folded", "beta_x", "beta_y", "evals", "gamma", "beta_x_com", "beta_y_com",
       "delta_x", "delta_y", "query", "proximity"} \subseteq Label /\ 0 \in Nat
  BY DEF Label
<1>2. /\ Gather \in F /\ Bcast \in F /\ Sync \in F /\ <<>> \in F
  BY <1>0, FreeCalls
<1>3. \A what \in {"folded", "beta_x", "beta_y", "evals", "gamma", "beta_x_com", "beta_y_com",
                   "delta_x", "delta_y"} :
        /\ Do("append", what, 0, 0) \in F /\ DoRoot("append", what, 0, 0) \in F
        /\ Do("sample", what, 0, 0) \in F
  BY <1>0, <1>1, FreeDo
<1>4. HyperKzgOpen \in F
  BY <1>0, <1>3 DEF HyperKzgOpen
<1>5. HyperBiKzgOpen \in F
  <2>1. FoldOracles \in F /\ EvalAtBetas \in F
    BY <1>0, <1>2, <1>3 DEF FoldOracles, EvalAtBetas
  <2>2. QuotientX \in F /\ QuotientY \in F /\ OpenAtDeltas \in F
    BY <1>0, <1>2, <1>3 DEF QuotientX, QuotientY, OpenAtDeltas
  <2> QED BY <1>0, <2>1, <2>2 DEF HyperBiKzgOpen
<1>6. OrionOpen \in F
  <2> DEFINE seqs == [i \in 1 .. ProximityDraws |-> SumVec]
  <2>1. Samples(ProximityDraws, "proximity") \in F /\ Samples(QueryDraws, "query") \in F
    BY <1>0, <1>1, ScriptType, FreeRepeats
  <2>2. SumVec \in F /\ OrionMtOpenings \in F
    BY <1>0, <1>2, <2>1 DEF SumVec, OrionMtOpenings, GatherVarlen
  <2>3. \A i \in 1 .. ProximityDraws : OnlyOps(seqs[i], Free)
    BY <1>0, <2>2
  <2>4. seqs = [i \in 1 .. ProximityDraws |-> seqs[i]]
    OBVIOUS
  <2>5. OrionOpen = Samples(ProximityDraws, "proximity") \o SumVec \o FlattenSeq(seqs) \o OrionMtOpenings
    BY DEF OrionOpen, Repeat
  <2> HIDE DEF seqs
  <2>6. FlattenSeq(seqs) \in F
    BY <1>0, <2>3, <2>4, ScriptType, OnlyRepeat
  <2> QED BY <1>0, <2>1, <2>2, <2>5, <2>6
<1> QED BY <1>0, <1>2, <1>4, <1>5, <1>6, ScriptType DEF PcsOpen, RawOpen

(* Grinding locks and unlocks,                                             *)
LEMMA PairedGrind == Paired(Grind)
<1> DEFINE seqs == [i \in 1 .. GrindRounds |->
             Do("append", "grind", 0, i) \o Do("refresh", "grind", 0, i)]
           body == FlattenSeq(seqs) \o Do("append", "grind", 0, 0)
<1>0. "grind" \in Label /\ 0 \in Nat /\ GrindRounds \in Nat
  BY ScriptType DEF Label
<1>1. ASSUME NEW i \in 1 .. GrindRounds PROVE OnlyOps(seqs[i], Free)
  <2>1. i \in Nat
    BY <1>0
  <2>2. OnlyOps(Do("append", "grind", 0, i) \o Do("refresh", "grind", 0, i), Free)
    BY <1>0, <2>1, FreeDo, OnlyJoin
  <2> QED BY <2>2
<1>2. seqs = [i \in 1 .. GrindRounds |-> seqs[i]]
  OBVIOUS
<1>3. Grind = IF GrindRounds = 0 THEN <<>>
              ELSE Do("refresh", "grind", 0, 0) \o Locked(body)
  BY DEF Grind, Repeat
<1> HIDE DEF seqs
<1>4. OnlyOps(FlattenSeq(seqs), Free)
  BY <1>0, <1>1, <1>2, OnlyRepeat
<1>5. OnlyOps(Do("refresh", "grind", 0, 0), Free) /\ OnlyOps(Do("append", "grind", 0, 0), Free)
  BY <1>0, FreeDo
<1>6. OnlyOps(body, Free)
  BY <1>4, <1>5, OnlyJoin
<1> HIDE DEF body
<1>7. Paired(Locked(body))
  BY <1>6, PairedBracket
<1>8. Paired(Do("refresh", "grind", 0, 0) \o Locked(body))
  BY <1>5, <1>7, PairedKinds, JoinPaired
<1> QED BY <1>3, <1>8, FreeCalls, PairedKinds

(* and so does proving a claim about the input.                            *)
LEMMA PairedClaim ==
  ASSUME NEW claim \in Nat
  PROVE  Paired(ProveInputLayerClaim(claim))
<1>1. Paired(Locked(PcsOpen))
  BY FreePcsOpen, PairedBracket
<1>2. Paired(DoRoot("append", "opening", 0, claim))
  <2>1. "opening" \in Label /\ 0 \in Nat
    BY DEF Label
  <2> QED BY <2>1, FreeDo, PairedKinds
<1> QED BY <1>1, <1>2, JoinPaired DEF ProveInputLayerClaim

(* A single call that unlocks.                                             *)
LEMMA PairedOne ==
  ASSUME NEW o \in Op, o.op \in {"new", "finish"}, o.who = "all"
  PROVE  Paired(<<o>>) /\ Has(<<o>>, {o.op})
<1>1. <<o>> \in Seq(Op) /\ Len(<<o>>) = 1 /\ <<o>>[1] = o
  OBVIOUS
<1> DEFINE s == <<o>>
<1> HIDE DEF s
<1>2. \A p \in 1 .. Len(s) : s[p] = o
  BY <1>1 DEF s
<1> QED BY <1>1, <1>2 DEF Paired, LocksIn, Has, s

(* A whole proof, which finishes.                                          *)
LEMMA PairedProve == Paired(Prove) /\ Has(Prove, {"finish"})
<1>0. /\ {"new", "com", "coefs", "proof", "pi", "coef"} \subseteq Label /\ {0, 1, 2} \subseteq Nat
      /\ NumPI \in Nat /\ NumCoefs \in Nat
  BY ScriptType DEF Label
<1> DEFINE claim2 == IF Layers[1].phase2 THEN Sync \o ProveInputLayerClaim(2) ELSE <<>>
<1>1. /\ Paired(Do("new", "new", 0, 0)) /\ Paired(Do("finish", "proof", 0, 0))
      /\ Has(Do("finish", "proof", 0, 0), {"finish"})
  <2> DEFINE n == [op |-> "new", who |-> "all", arg |-> <<"new", 0, 0>>]
             f == [op |-> "finish", who |-> "all", arg |-> <<"proof", 0, 0>>]
  <2>1. /\ n \in Op /\ n.op = "new" /\ n.who = "all"
        /\ f \in Op /\ f.op = "finish" /\ f.who = "all"
    BY <1>0 DEF Op, Arg, LocalOp
  <2> HIDE DEF n, f
  <2>2. Paired(<<n>>) /\ Paired(<<f>>) /\ Has(<<f>>, {"finish"})
    BY <2>1, PairedOne
  <2> QED BY <2>2 DEF Do, n, f
<1>2. /\ Paired(DoRoot("commit", "com", 0, 0)) /\ Paired(Do("read", "coefs", 0, 0))
      /\ Paired(GkrProve) /\ Paired(Sync) /\ Paired(<<>>)
  BY <1>0, FreeDo, FreeGkrProve, FreeCalls, PairedKinds
<1>3. Paired(PcsCommit)
  <2>1. OnlyOps(PcsCommit, Free)
    BY FreeCalls, OnlyChain, ScriptType DEF PcsCommit, RawCommit, KzgCommit, OrionCommit
  <2> QED BY <2>1, PairedKinds
<1>4. Paired(BindPublicInput)
  <2> DEFINE seqs == [i \in 1 .. NumPI |-> DoRoot("append", "pi", 0, i)]
  <2>1. ASSUME NEW i \in 1 .. NumPI PROVE OnlyOps(seqs[i], Free)
    <3>1. i \in Nat
      BY <1>0
    <3> QED BY <1>0, <3>1, FreeDo
  <2>2. seqs = [i \in 1 .. NumPI |-> seqs[i]] /\ BindPublicInput = FlattenSeq(seqs) \o Sync
    BY DEF BindPublicInput, Repeat
  <2> HIDE DEF seqs
  <2>3. OnlyOps(FlattenSeq(seqs) \o Sync, Free)
    BY <1>0, <2>1, <2>2, OnlyRepeat, OnlyJoin, FreeCalls
  <2> QED BY <2>2, <2>3, PairedKinds
<1>5. Paired(ShareRndCoefs)
  <2> DEFINE seqs == [i \in 1 .. NumCoefs |-> DoRoot("fill", "coef", 0, i)]
  <2>1. ASSUME NEW i \in 1 .. NumCoefs PROVE OnlyOps(seqs[i], Free)
    <3>1. i \in Nat
      BY <1>0
    <3> QED BY <1>0, <3>1, FreeDo
  <2>2. /\ seqs = [i \in 1 .. NumCoefs |-> seqs[i]]
        /\ ShareRndCoefs = FlattenSeq(seqs) \o Collective("barrier")
    BY DEF ShareRndCoefs, FillRndCoefs, Repeat
  <2> HIDE DEF seqs
  <2>3. OnlyOps(FlattenSeq(seqs) \o Collective("barrier"), Free)
    BY <1>0, <2>1, <2>2, OnlyRepeat, OnlyJoin, FreeCalls
  <2> QED BY <2>2, <2>3, PairedKinds
<1>6. Paired(ProveInputLayerClaim(1)) /\ Paired(claim2)
  BY <1>2, PairedClaim, JoinPaired
<1> DEFINE a == Do("new", "new", 0, 0) \o BindPublicInput \o PcsCommit
                  \o DoRoot("commit", "com", 0, 0) \o Grind
                  \o ShareRndCoefs \o Do("read", "coefs", 0, 0) \o Sync \o GkrProve
                  \o Sync \o ProveInputLayerClaim(1) \o claim2
<1>7. Prove = a \o Do("finish", "proof", 0, 0)
  BY DEF Prove
<1> HIDE DEF claim2
<1>8. Paired(a)
  <2> DEFINE b == Do("new", "new", 0, 0) \o BindPublicInput \o PcsCommit
                    \o DoRoot("commit", "com", 0, 0) \o Grind
             c == b \o ShareRndCoefs \o Do("read", "coefs", 0, 0) \o Sync \o GkrProve
  <2>1. Paired(b)
    BY <1>1, <1>2, <1>3, <1>4, PairedGrind, JoinPaired
  <2>2. a = c \o Sync \o ProveInputLayerClaim(1) \o claim2
    OBVIOUS
  <2> HIDE DEF a, b
  <2>3. Paired(c)
    BY <1>2, <1>5, <2>1, JoinPaired
  <2> HIDE DEF c
  <2> QED BY <1>2, <1>6, <2>2, <2>3, JoinPaired
<1> HIDE DEF a
<1> DEFINE f == Do("finish", "proof", 0, 0)
<1>9. a \in Seq(Op) /\ f \in Seq(Op) /\ Paired(f) /\ Has(f, {"finish"}) /\ Prove = a \o f
  BY <1>1, <1>7, <1>8 DEF Paired
<1> HIDE DEF f
<1>10. Has(a \o f, {"finish"})
  BY <1>9, HasJoin
<1> QED BY <1>8, <1>9, <1>10, JoinPaired

(* A dump after a piece that finishes a proof.                             *)
LEMMA PairedDump ==
  ASSUME NEW s, Paired(s), Has(s, {"finish"}), NEW o \in Op, o.op = "dump"
  PROVE  Paired(s \o <<o>>)
<1> DEFINE t == <<o>>
           n == Len(s)
<1>0. s \in Seq(Op) /\ t \in Seq(Op) /\ Len(t) = 1 /\ t[1] = o /\ n \in Nat
      /\ ~LocksIn(s, n + 1)
  BY LenProperties DEF Paired
<1> HIDE DEF t
<1>1. /\ s \o t \in Seq(Op) /\ Len(s \o t) = n + 1
      /\ (\A i \in 1 .. n : (s \o t)[i] = s[i]) /\ (s \o t)[n + 1] = o
  BY <1>0, ConcatElements
<1>2. \A p \in 1 .. n + 1 : LocksIn(s \o t, p) <=> LocksIn(s, p)
  BY <1>0, LocksJoin
<1>3. ~LocksIn(s \o t, n + 2)
  <2>1. LocksIn(s \o t, n + 2) <=> LocksIn(t, 2)
    <3>1. \A p \in 1 .. Len(t) + 1 : LocksIn(s \o t, n + p) <=> LocksIn(t, p)
      BY <1>0, LocksJoin
    <3>2. 2 \in 1 .. Len(t) + 1
      BY <1>0
    <3> QED BY <3>1, <3>2
  <2>2. ~LocksIn(t, 2)
    BY <1>0 DEF LocksIn
  <2> QED BY <2>1, <2>2
<1>4. PICK f \in 1 .. n : s[f].op = "finish"
  BY DEF Has
<1>5. ASSUME NEW p \in 1 .. Len(s \o t)
      PROVE  /\ (s \o t)[p].op \in LockOps => (s \o t)[p].who = "all"
             /\ (s \o t)[p].op = "lock" => ~LocksIn(s \o t, p)
             /\ (s \o t)[p].op = "unlock" => LocksIn(s \o t, p)
             /\ (s \o t)[p].op = "dump" => \E g \in 1 .. p - 1 : (s \o t)[g].op = "finish"
  <2>1. CASE p \in 1 .. n
    <3>1. \A g \in 1 .. p - 1 : (s \o t)[g] = s[g]
      BY <1>0, <1>1, <2>1
    <3>2. (s \o t)[p] = s[p] /\ (LocksIn(s \o t, p) <=> LocksIn(s, p))
      BY <1>0, <1>1, <1>2, <2>1
    <3> QED BY <2>1, <3>1, <3>2 DEF Paired, n
  <2>2. CASE p = n + 1
    <3>1. f \in 1 .. p - 1 /\ (s \o t)[f].op = "finish" /\ (s \o t)[p] = o
      BY <1>0, <1>1, <1>4, <2>2
    <3> QED BY <3>1 DEF LockOps
  <2> QED BY <1>0, <1>1, <2>1, <2>2
<1>6. ~LocksIn(s \o t, Len(s \o t) + 1)
  <2>1. Len(s \o t) + 1 = n + 2
    BY <1>0, <1>1
  <2> QED BY <1>3, <2>1
<1> QED BY <1>1, <1>5, <1>6 DEF Paired, t

(* Both programs.                                                          *)
LEMMA PairedPrograms == Paired(ProveCommand) /\ Paired(RunBenchmark)
<1> DEFINE o == [op |-> "dump", who |-> "root", arg |-> <<"file", 0, 0>>]
           q == [op |-> "dump", who |-> "all", arg |-> <<"file", 0, 0>>]
           seqs == [i \in 1 .. NProofs |-> Prove]
<1>1. o \in Op /\ q \in Op /\ o.op = "dump" /\ q.op = "dump" /\ NProofs \in Nat
  BY ScriptType DEF Op, Arg, LocalOp, Label
<1>2. /\ ProveCommand = Prove \o <<o>>
      /\ RunBenchmark = Prove \o <<q>> \o Collective("barrier") \o FlattenSeq(seqs)
  BY DEF ProveCommand, RunBenchmark, Do, DoRoot, Repeat
<1>3. (\A i \in 1 .. NProofs : Paired(seqs[i])) /\ seqs = [i \in 1 .. NProofs |-> seqs[i]]
  BY PairedProve
<1> HIDE DEF o, q, seqs
<1>4. Paired(Prove \o <<o>>) /\ Paired(Prove \o <<q>>)
  BY <1>1, PairedProve, PairedDump
<1>5. Paired(Collective("barrier")) /\ Paired(FlattenSeq(seqs))
  BY <1>1, <1>3, FreeCalls, PairedKinds, PairedRepeat
<1> QED BY <1>2, <1>4, <1>5, JoinPaired

(* Whatever the circuit, the scheme and the number of ranks, the ranks of  *)
(* the prover and of the benchmark never wait for each other in a circle,  *)
(* never panic at a lock of the transcript and never write a proof before  *)
(* it is made: until all are done, some rank has a step to take.           *)
THEOREM ProverNeverStuck ==
  ASSUME Prog \in {ProveCommand, RunBenchmark}
  PROVE  Spec => []NeverStuck
<1>1. Paired(Prog)
  BY PairedPrograms
<1>2. \A p \in 1 .. Len(Prog) + 1 : HoldsLock(p) <=> LocksIn(Prog, p)
  BY DEF HoldsLock, LocksIn, Calls, Pos, Unlocking
<1>3. LocksAlternate
  <2>1. ASSUME NEW p \in 1 .. Len(Prog)
        PROVE  (Prog[p].op = "lock" => ~HoldsLock(p)) /\ (Prog[p].op = "unlock" => HoldsLock(p))
    <3>1. p \in 1 .. Len(Prog) + 1
      BY OpType
    <3> QED BY <1>1, <1>2, <3>1 DEF Paired
  <2>2. ASSUME NEW p \in 1 .. Len(Prog), Prog[p].op = "dump"
        PROVE  \E f \in Calls({"finish"}) : f < p
    <3>1. PICK f \in 1 .. p - 1 : Prog[f].op = "finish"
      BY <1>1, <2>2 DEF Paired
    <3>2. f \in 1 .. Len(Prog) /\ f < p
      BY <3>1, OpType
    <3> QED BY <3>1, <3>2 DEF Calls, Pos
  <2> QED BY <1>1, <2>1, <2>2 DEF LocksAlternate, Paired, Calls, Pos
<1> QED BY <1>3, ProgramsAreDisciplined, RanksNeverStuck DEF Disciplined
===============================================================================
