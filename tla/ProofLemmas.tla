------------------------------ MODULE ProofLemmas ------------------------------
(***************************************************************************)
(* Lemmas that the proofs about the prover share: counting the positions   *)
(* of a program, induction, flattened sequences, and what the operations   *)
(* of BytesHashTranscript do to a well-formed transcript.                  *)
(***************************************************************************)
EXTENDS BytesHashTranscript, FiniteSetTheorems, SequenceTheorems, WellFoundedInduction, TLAPS

-----------------------------------------------------------------------------
(* How many members of a set of positions lie before a position.           *)
Count(S, p) == Cardinality(S \cap (1 .. p - 1))

(* Only finitely many positions come before p.                             *)
LEMMA CountType ==
  ASSUME NEW S, NEW p \in Nat
  PROVE  IsFiniteSet(S \cap (1 .. p - 1)) /\ Count(S, p) \in Nat
<1>1. IsFiniteSet(1 .. p - 1)
  BY FS_Interval
<1>2. IsFiniteSet(S \cap (1 .. p - 1))
  BY <1>1, FS_Subset
<1> QED
  BY <1>2, FS_CardinalityType DEF Count

(* No position comes before the first one.                                 *)
LEMMA CountFirst ==
  ASSUME NEW S
  PROVE  Count(S, 1) = 0
<1>1. S \cap (1 .. 1 - 1) = {}
  OBVIOUS
<1> QED
  BY <1>1, FS_EmptySet DEF Count

(* Moving past a position counts it when it belongs to the set.            *)
LEMMA CountNext ==
  ASSUME NEW S, NEW p \in Nat \ {0}
  PROVE  Count(S, p + 1) = IF p \in S THEN Count(S, p) + 1 ELSE Count(S, p)
<1>1. IsFiniteSet(S \cap (1 .. p - 1))
  BY CountType
<1>2. CASE p \in S
  <2>1. S \cap (1 .. (p + 1) - 1) = (S \cap (1 .. p - 1)) \cup {p}
    BY <1>2
  <2>2. p \notin S \cap (1 .. p - 1)
    OBVIOUS
  <2> QED
    BY <1>1, <1>2, <2>1, <2>2, FS_AddElement DEF Count
<1>3. CASE p \notin S
  <2>1. S \cap (1 .. (p + 1) - 1) = S \cap (1 .. p - 1)
    BY <1>3
  <2> QED
    BY <1>3, <2>1 DEF Count
<1> QED
  BY <1>2, <1>3

(* Counting is monotonic, and strictly so past a member.                   *)
LEMMA CountMonotonic ==
  ASSUME NEW S, NEW p \in Nat \ {0}, NEW q \in Nat \ {0}
  PROVE  /\ p <= q => Count(S, p) <= Count(S, q)
         /\ p < q /\ p \in S => Count(S, p) < Count(S, q)
<1>1. ASSUME NEW m \in Nat \ {0}, NEW n \in Nat \ {0}, m <= n
      PROVE  Count(S, m) <= Count(S, n)
  <2>1. S \cap (1 .. m - 1) \subseteq S \cap (1 .. n - 1)
    BY <1>1
  <2> QED
    BY <2>1, CountType, FS_Subset DEF Count
<1>2. ASSUME p < q, p \in S
      PROVE  Count(S, p) < Count(S, q)
  <2>1. Count(S, p + 1) <= Count(S, q)
    BY <1>1, <1>2
  <2>2. Count(S, p + 1) = Count(S, p) + 1
    BY <1>2, CountNext
  <2>3. Count(S, p) \in Nat /\ Count(S, q) \in Nat
    BY CountType
  <2> QED
    BY <2>1, <2>2, <2>3
<1> QED
  BY <1>1, <1>2

(* Members with the same count are the same position.                      *)
LEMMA CountInjective ==
  ASSUME NEW S, NEW p \in Nat \ {0}, NEW q \in Nat \ {0},
         p \in S, q \in S, Count(S, p) = Count(S, q)
  PROVE  p = q
<1>1. Count(S, p) \in Nat
  BY CountType
<1>2. ~(p < q) /\ ~(q < p)
  BY <1>1, CountMonotonic
<1> QED
  BY <1>2

-----------------------------------------------------------------------------
(* Least members and induction over the natural numbers, stated with sets, *)
(* as the theorems of the library take an operator. Both follow from <     *)
(* being well-founded.                                                     *)
LEMMA LeastMember ==
  ASSUME NEW T, T # {}, T \subseteq Nat
  PROVE  \E x \in T : \A y \in T : x <= y
<1> DEFINE R == OpToRel(<, Nat)
<1>1. IsWellFoundedOn(R, Nat)
  BY NatLessThanWellFounded, Zenon
<1>2. PICK x \in T : \A y \in T : ~ (<<y, x>> \in R)
  <2> HIDE DEF R
  <2> QED BY <1>1, WFMin
<1>3. ASSUME NEW y \in T PROVE x <= y
  <2>1. x \in Nat /\ y \in Nat
    OBVIOUS
  <2>2. y < x => <<y, x>> \in R
    BY <2>1, Zenon DEF OpToRel
  <2>3. ~(y < x)
    BY <1>2, <2>2, Zenon
  <2> QED BY <2>1, <2>3
<1> QED BY <1>3

(* A set with zero that is closed under the successor has all the numbers: *)
(* otherwise its complement had a least member.                            *)
LEMMA SetInduction ==
  ASSUME NEW S, 0 \in S, \A n \in Nat : n \in S => n + 1 \in S
  PROVE  Nat \subseteq S
<1> DEFINE T == Nat \ S
<1>1. SUFFICES ASSUME T # {} PROVE FALSE
  OBVIOUS
<1>2. PICK x \in T : \A y \in T : x <= y
  BY <1>1, LeastMember
<1>3. x # 0 /\ x \in Nat
  OBVIOUS
<1>4. x - 1 \in Nat /\ x - 1 \in T
  BY <1>3
<1> QED BY <1>2, <1>3, <1>4

(* Concatenation is associative, in the direction the provers can use.     *)
LEMMA Regroup ==
  ASSUME NEW T, NEW s \in Seq(T), NEW t \in Seq(T), NEW u \in Seq(T)
  PROVE  s \o (t \o u) = (s \o t) \o u
BY ConcatAssociative, SMTT(60)

(* FlattenSeq folds its sequences from the left.                           *)
LEMMA FlattenIsFold ==
  ASSUME NEW seqs, Len(seqs) \in Nat, Len(seqs) > 0
  PROVE  \E f : /\ \A i \in 1 .. Len(seqs) : f[i] = IF i = 1 THEN seqs[i] ELSE f[i - 1] \o seqs[i]
                /\ FlattenSeq(seqs) = f[Len(seqs)]
<1> DEFINE Is(f, n) == f = [i \in 1 .. n |-> IF i = 1 THEN seqs[i] ELSE f[i - 1] \o seqs[i]]
           Exist == {n \in Nat : \E f : Is(f, n)}
<1>1. 0 \in Exist
  <2>1. Is([i \in 1 .. 0 |-> seqs[i]], 0)
    OBVIOUS
  <2> QED BY <2>1
<1>2. ASSUME NEW n \in Nat, n \in Exist
      PROVE  n + 1 \in Exist
  <2>1. PICK f : Is(f, n)
    BY <1>2
  <2> DEFINE g == [i \in 1 .. n + 1 |-> IF i = 1 THEN seqs[i] ELSE f[i - 1] \o seqs[i]]
  <2>2. ASSUME NEW i \in 1 .. n PROVE g[i] = f[i]
    <3>1. g[i] = IF i = 1 THEN seqs[i] ELSE f[i - 1] \o seqs[i]
      OBVIOUS
    <3>2. f[i] = IF i = 1 THEN seqs[i] ELSE f[i - 1] \o seqs[i]
      BY <2>1, Zenon
    <3> QED BY <3>1, <3>2
  <2> DEFINE h == [i \in 1 .. n + 1 |-> IF i = 1 THEN seqs[i] ELSE g[i - 1] \o seqs[i]]
  <2>3. ASSUME NEW i \in 1 .. n + 1 PROVE g[i] = h[i]
    <3>1. i # 1 => i - 1 \in 1 .. n
      OBVIOUS
    <3>2. i # 1 => g[i - 1] = f[i - 1]
      BY <2>2, <3>1
    <3> HIDE DEF g
    <3>3. h[i] = IF i = 1 THEN seqs[i] ELSE g[i - 1] \o seqs[i]
      OBVIOUS
    <3> QED BY <3>2, <3>3 DEF g
  <2>4. g = h
    BY <2>3
  <2>5. Is(g, n + 1)
    BY <2>4
  <2> HIDE DEF g
  <2>6. n + 1 \in Nat
    OBVIOUS
  <2>7. \E e : Is(e, n + 1)
    BY <2>5
  <2> HIDE DEF Is
  <2> QED BY <2>6, <2>7
<1>3. Len(seqs) \in Exist
  <2> HIDE DEF Exist
  <2> QED BY <1>1, <1>2, SetInduction
<1>4. PICK f : Is(f, Len(seqs))
  BY <1>3
<1> DEFINE g == CHOOSE f_1 : Is(f_1, Len(seqs))
<1>5. Is(g, Len(seqs))
  BY <1>4
<1>6. FlattenSeq(seqs) = g[Len(seqs)]
  BY DEF FlattenSeq
<1> HIDE DEF g
<1>7. \A i \in 1 .. Len(seqs) : g[i] = IF i = 1 THEN seqs[i] ELSE g[i - 1] \o seqs[i]
  BY <1>5, Zenon
<1> QED BY <1>6, <1>7

(* A set closed under concatenation holds the flattened sequence of its    *)
(* members.                                                                *)
LEMMA FlattenStaysIn ==
  ASSUME NEW T, <<>> \in T, \A s, t \in T : s \o t \in T,
         NEW n \in Nat, NEW seqs, Len(seqs) = n, seqs = <<>> \/ n # 0,
         \A i \in 1 .. n : seqs[i] \in T
  PROVE  FlattenSeq(seqs) \in T
<1>1. CASE n = 0
  BY <1>1 DEF FlattenSeq
<1>2. CASE n # 0
  <2>0. Len(seqs) \in Nat /\ Len(seqs) > 0
    BY <1>2
  <2>1. PICK f : /\ \A i \in 1 .. Len(seqs) : f[i] = IF i = 1 THEN seqs[i] ELSE f[i - 1] \o seqs[i]
                 /\ FlattenSeq(seqs) = f[Len(seqs)]
    BY <2>0, FlattenIsFold
  <2> DEFINE S == {k \in Nat : k \in 1 .. n => f[k] \in T}
  <2>2. 0 \in S
    OBVIOUS
  <2>3. ASSUME NEW k \in Nat, k \in S
        PROVE  k + 1 \in S
    <3>1. CASE k + 1 \notin 1 .. n
      BY <3>1
    <3>2. CASE k + 1 \in 1 .. n /\ k = 0
      <4>1. f[1] = seqs[1]
        BY <2>1, <3>2
      <4> QED BY <3>2, <4>1
    <3>3. CASE k + 1 \in 1 .. n /\ k # 0
      <4>1. f[k + 1] = f[k] \o seqs[k + 1]
        <5>1. k + 1 \in 1 .. Len(seqs) /\ k + 1 # 1 /\ (k + 1) - 1 = k
          BY <3>3
        <5>2. f[k + 1] = IF k + 1 = 1 THEN seqs[k + 1] ELSE f[(k + 1) - 1] \o seqs[k + 1]
          BY <2>1, <5>1, Zenon
        <5> HIDE DEF S
        <5> QED BY <5>1, <5>2
      <4>2. f[k] \in T
        BY <2>3, <3>3
      <4>3. seqs[k + 1] \in T
        BY <3>3
      <4>4. f[k + 1] \in T
        BY <4>1, <4>2, <4>3
      <4> QED BY <4>4
    <3> QED BY <3>1, <3>2, <3>3
  <2>4. n \in S
    <3> HIDE DEF S
    <3> QED BY <2>2, <2>3, SetInduction
  <2> QED BY <1>2, <2>1, <2>4
<1> QED BY <1>1, <1>2

(* A function on 1 .. n is a sequence of length n.                         *)
LEMMA FunctionIsSeq ==
  ASSUME NEW T, NEW n \in Nat, NEW s, s = [i \in 1 .. n |-> s[i]],
         \A i \in 1 .. n : s[i] \in T
  PROVE  s \in Seq(T) /\ Len(s) = n /\ (s = <<>> \/ n # 0)
<1>1. s \in Seq(T) /\ Len(s) = n
  OBVIOUS
<1> QED BY <1>1

(* FlattenSeq of sequences over T is a sequence over T, and one sequence   *)
(* more is appended at its end.                                            *)
LEMMA FlattenType ==
  ASSUME NEW T, NEW n \in Nat, NEW seqs, seqs = [i \in 1 .. n |-> seqs[i]],
         \A i \in 1 .. n : seqs[i] \in Seq(T)
  PROVE  FlattenSeq(seqs) \in Seq(T)
<1>1. seqs \in Seq(Seq(T)) /\ Len(seqs) = n /\ (seqs = <<>> \/ n # 0)
  BY FunctionIsSeq
<1>2. <<>> \in Seq(T) /\ \A s, t \in Seq(T) : s \o t \in Seq(T)
  BY EmptySeq, ConcatProperties
<1> QED BY <1>1, <1>2, FlattenStaysIn

(* One sequence more at the end is appended to the flattened ones.         *)
LEMMA FlattenNext ==
  ASSUME NEW T, NEW seqs \in Seq(Seq(T)), NEW more \in Seq(Seq(T)),
         Len(more) = Len(seqs) + 1, \A i \in 1 .. Len(seqs) : more[i] = seqs[i]
  PROVE  FlattenSeq(more) = FlattenSeq(seqs) \o more[Len(seqs) + 1]
<1> DEFINE n == Len(seqs)
<1>0. n \in Nat
  BY LenProperties
<1>1. more \in Seq(Seq(T)) /\ Len(more) = n + 1 /\ n + 1 \in Nat /\ n + 1 > 0
      /\ more[n + 1] \in Seq(T) /\ \A i \in 1 .. n : more[i] = seqs[i]
  BY <1>0, ElementOfSeq
<1>2. seqs \in Seq(Seq(T)) /\ Len(seqs) = n
  OBVIOUS
<1> SUFFICES FlattenSeq(more) = FlattenSeq(seqs) \o more[n + 1]
  OBVIOUS
<1> HIDE DEF n
<1>3. PICK g : /\ \A i \in 1 .. n + 1 : g[i] = IF i = 1 THEN more[i] ELSE g[i - 1] \o more[i]
               /\ FlattenSeq(more) = g[n + 1]
  BY <1>1, FlattenIsFold
<1>4. CASE n = 0
  <2>1. seqs = <<>>
    BY <1>2, <1>4, EmptySeq
  <2>2. FlattenSeq(seqs) = <<>>
    BY <2>1 DEF FlattenSeq
  <2>3. FlattenSeq(more) = more[1]
    BY <1>3, <1>4
  <2>4. more[1] \in Seq(T)
    BY <1>1, <1>4
  <2>5. <<>> \o more[1] = more[1]
    BY <2>4, ConcatEmptySeq
  <2> QED BY <1>4, <2>2, <2>3, <2>5
<1>5. CASE n # 0
  <2>1. PICK f : /\ \A i \in 1 .. n : f[i] = IF i = 1 THEN seqs[i] ELSE f[i - 1] \o seqs[i]
                 /\ FlattenSeq(seqs) = f[n]
    <3>1. Len(seqs) \in Nat /\ Len(seqs) > 0
      BY <1>2, <1>5
    <3> QED BY <1>2, <3>1, FlattenIsFold
  <2> DEFINE S == {k \in Nat : k \in 1 .. n => g[k] = f[k]}
  <2>2. ASSUME NEW k \in Nat, k \in S PROVE k + 1 \in S
    <3>1. CASE k + 1 \in 1 .. n
      <4>0. k + 1 \in 1 .. n + 1
        BY <1>0, <3>1
      <4>1. g[k + 1] = IF k + 1 = 1 THEN more[k + 1] ELSE g[(k + 1) - 1] \o more[k + 1]
        BY <1>3, <4>0, Zenon
      <4>1f. f[k + 1] = IF k + 1 = 1 THEN seqs[k + 1] ELSE f[(k + 1) - 1] \o seqs[k + 1]
        BY <2>1, <3>1, Zenon
      <4>1m. more[k + 1] = seqs[k + 1]
        BY <1>1, <3>1
      <4>2. k + 1 # 1 => k \in 1 .. n /\ (k + 1) - 1 = k
        BY <1>0, <3>1, SMTT(60)
      <4>3. k + 1 # 1 => g[k] = f[k]
        BY <2>2, <4>2
      <4>4. g[k + 1] = f[k + 1]
        BY <4>1, <4>1f, <4>1m, <4>2, <4>3
      <4> QED BY <4>4
    <3>2. CASE k + 1 \notin 1 .. n
      BY <3>2
    <3> QED BY <3>1, <3>2
  <2>3. 0 \in S
    OBVIOUS
  <2>4. n \in S
    <3> HIDE DEF S
    <3> QED BY <1>0, <2>2, <2>3, SetInduction
  <2>5. g[n] = f[n]
    BY <1>0, <1>5, <2>4
  <2>6. g[n + 1] = g[n] \o more[n + 1]
    <3>1. n + 1 \in 1 .. n + 1 /\ n + 1 # 1 /\ (n + 1) - 1 = n
      BY <1>0, <1>5
    <3>2. g[n + 1] = IF n + 1 = 1 THEN more[n + 1] ELSE g[(n + 1) - 1] \o more[n + 1]
      BY <1>3, <3>1, Zenon
    <3> QED BY <3>1, <3>2
  <2> QED BY <1>3, <2>1, <2>5, <2>6
<1> QED BY <1>4, <1>5

-----------------------------------------------------------------------------
(* A locked transcript can be cut back to its locking point.               *)
LockOK(t) == t.proof_locked => t.proof_locked_at <= Len(t.proof)

(* Hashing in place yields a digest.                                       *)
LEMMA HashInplaceType ==
  ASSUME NEW Item, NEW d \in Digest(Item)
  PROVE  HashInplace(d) \in Digest(Item)
BY DEF HashInplace, Digest

(* refresh_digest yields a digest and moves the pointer to the end.        *)
LEMMA RefreshType ==
  ASSUME NEW Item, NEW t \in Transcript(Item)
  PROVE  /\ RefreshedDigest(t) \in Digest(Item)
         /\ RefreshDigest(t) \in Transcript(Item)
         /\ LockOK(t) => LockOK(RefreshDigest(t))
<1> DEFINE d == t.digest
<1>1. /\ d \in Digest(Item)
      /\ t.proof \in Seq(Item)
      /\ t.hash_start_index \in Nat
      /\ Len(t.proof) \in Nat
  BY DEF Transcript
<1>2. /\ d.absorbed \in Seq([after : Int, chunk : Seq(Item)])
      /\ d.rehash \in Nat
  BY <1>1 DEF Digest
<1>3. Unhashed(t) \in Seq(Item)
  <2>1. \A i \in t.hash_start_index + 1 .. Len(t.proof) : t.proof[i] \in Item
    BY <1>1, ElementOfSeq
  <2> QED
    BY <1>1, <2>1, SubSeqProperties DEF Unhashed
<1>4. [after |-> d.rehash, chunk |-> Unhashed(t)] \in [after : Int, chunk : Seq(Item)]
  BY <1>2, <1>3
<1>5. HashChunk(d, Unhashed(t)) \in Digest(Item)
  BY <1>2, <1>4, AppendProperties DEF HashChunk, Digest
<1>6. HashInplace(d) \in Digest(Item)
  BY <1>1, HashInplaceType
<1>7. RefreshedDigest(t) \in Digest(Item)
  BY <1>5, <1>6 DEF RefreshedDigest
<1> QED
  BY <1>1, <1>7 DEF RefreshDigest, Transcript, LockOK

(* A new transcript is well formed.                                        *)
LEMMA NewType ==
  ASSUME NEW Item
  PROVE  NewTranscript \in Transcript(Item) /\ LockOK(NewTranscript)
BY EmptySeq DEF NewTranscript, Transcript, Digest, ZeroDigest, LockOK

(* Appending keeps a transcript well formed.                               *)
LEMMA AppendType ==
  ASSUME NEW Item, NEW t \in Transcript(Item), NEW i \in Item, LockOK(t)
  PROVE  AppendItem(t, i) \in Transcript(Item) /\ LockOK(AppendItem(t, i))
<1>1. /\ Append(t.proof, i) \in Seq(Item)
      /\ Len(Append(t.proof, i)) = Len(t.proof) + 1
  BY AppendProperties DEF Transcript
<1> QED
  BY <1>1, SMTT(60) DEF AppendItem, Transcript, LockOK

(* set_state keeps a transcript well formed and leaves nothing unhashed.   *)
LEMMA SetStateType ==
  ASSUME NEW Item, NEW t \in Transcript(Item), NEW d \in Digest(Item), LockOK(t)
  PROVE  SetState(t, d) \in Transcript(Item) /\ LockOK(SetState(t, d))
BY LenProperties DEF SetState, Transcript, LockOK

(* append_commitment keeps a transcript well formed in both builds.        *)
LEMMA CommitType ==
  ASSUME NEW Item, NEW t \in Transcript(Item), NEW i \in Item, LockOK(t)
  PROVE  AppendCommitment(t, i) \in Transcript(Item) /\ LockOK(AppendCommitment(t, i))
<1>1. AppendItem(t, i) \in Transcript(Item) /\ LockOK(AppendItem(t, i))
  BY AppendType
<1>2. HashInitCommitment(i) \in Digest(Item)
  BY DEF HashInitCommitment, Digest, Fresh, PCS_DIGEST_LOOP
<1> QED
  BY <1>1, <1>2, SetStateType DEF AppendCommitment

(* Locking records a locking point inside the proof.                       *)
LEMMA LockType ==
  ASSUME NEW Item, NEW t \in Transcript(Item)
  PROVE  LockProof(t) \in Transcript(Item) /\ LockOK(LockProof(t))
<1>1. t.proof \in Seq(Item) /\ Len(t.proof) \in Nat
  BY DEF Transcript
<1>2. LockProof(t) \in Transcript(Item)
  BY <1>1 DEF LockProof, Transcript
<1>3. /\ LockProof(t).proof = t.proof
      /\ LockProof(t).proof_locked_at = Len(t.proof)
  BY DEF LockProof, Transcript
<1> QED
  BY <1>1, <1>2, <1>3 DEF LockOK

(* Unlocking cuts the proof back and leaves it unlocked.                   *)
LEMMA UnlockType ==
  ASSUME NEW Item, NEW t \in Transcript(Item), LockOK(t), t.proof_locked
  PROVE  UnlockProof(t) \in Transcript(Item) /\ LockOK(UnlockProof(t))
<1>1. /\ t.proof \in Seq(Item)
      /\ t.proof_locked_at \in Nat
      /\ t.proof_locked_at <= Len(t.proof)
      /\ Len(t.proof) \in Nat
  BY DEF Transcript, LockOK
<1>2. SubSeq(t.proof, 1, t.proof_locked_at) \in Seq(Item)
  <2>1. \A i \in 1 .. t.proof_locked_at : t.proof[i] \in Item
    BY <1>1, ElementOfSeq
  <2> QED
    BY <1>1, <2>1, SubSeqProperties
<1>3. RefreshedDigest(t) \in Digest(Item)
  BY RefreshType
<1> QED
  BY <1>1, <1>2, <1>3 DEF UnlockProof, Transcript, LockOK

(* finalize_and_get_proof unlocks a transcript that was left locked.       *)
LEMMA FinalizeType ==
  ASSUME NEW Item, NEW t \in Transcript(Item), LockOK(t)
  PROVE  FinalizeAndGetProof(t) \in Transcript(Item) /\ LockOK(FinalizeAndGetProof(t))
BY UnlockType DEF FinalizeAndGetProof, Transcript
===============================================================================
