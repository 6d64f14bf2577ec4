------------------------ MODULE BytesHashTranscript ------------------------
(***************************************************************************)
(* The Fiat-Shamir transcript of transcript/src/byte_hash_transcript.rs as *)
(* pure operators on a record.                                             *)
(*                                                                         *)
(* Bytes are abstracted to items (one item per appended field element or   *)
(* buffer) and the hash is taken to be collision free, so a digest is      *)
(* represented by the history that produced it:                            *)
(*   absorbed  the chunks hashed into the digest, each with the number of  *)
(*             in-place hashes that came before it (Fresh when the chunk   *)
(*             was hashed alone, without the previous digest);             *)
(*   rehash    the in-place hashes since the last chunk.                   *)
(* Two digests are equal exactly when their histories are.                 *)
(***************************************************************************)
EXTENDS Integers, Sequences, SequencesExt

CONSTANT Recursion   \* built with the cargo feature "recursion"

ASSUME RecursionAssumption == Recursion \in BOOLEAN

Fresh == -1
PCS_DIGEST_LOOP == 1000

ZeroDigest == [absorbed |-> <<>>, rehash |-> 0]

NewTranscript ==
  [digest           |-> ZeroDigest,
   proof            |-> <<>>,
   hash_start_index |-> 0,
   proof_locked     |-> FALSE,
   proof_locked_at  |-> 0]

Unhashed(t) == SubSeq(t.proof, t.hash_start_index + 1, Len(t.proof))

HashInplace(d) == [d EXCEPT !.rehash = @ + 1]

HashChunk(d, chunk) ==
  [absorbed |-> Append(d.absorbed, [after |-> d.rehash, chunk |-> chunk]),
   rehash   |-> 0]

HashInitCommitment(item) ==
  [absorbed |-> << [after |-> Fresh, chunk |-> <<item>>] >>,
   rehash   |-> PCS_DIGEST_LOOP]

(* The digest after refresh_digest: the unhashed tail of the proof, if     *)
(* any, is hashed in, otherwise the digest is hashed in place.             *)
RefreshedDigest(t) ==
  IF Len(t.proof) > t.hash_start_index
  THEN HashChunk(t.digest, Unhashed(t))
  ELSE HashInplace(t.digest)

RefreshDigest(t) ==
  [t EXCEPT !.digest = RefreshedDigest(t), !.hash_start_index = Len(t.proof)]

AppendItem(t, item) == [t EXCEPT !.proof = Append(@, item)]

(* set_state replaces the digest and skips whatever was not hashed yet.    *)
SetState(t, d) == [t EXCEPT !.digest = d, !.hash_start_index = Len(t.proof)]

(* Unless built for recursion, the digest starts over from the commitment. *)
AppendCommitment(t, item) ==
  IF Recursion
  THEN AppendItem(t, item)
  ELSE SetState(AppendItem(t, item), HashInitCommitment(item))

LockProof(t) == [t EXCEPT !.proof_locked = TRUE, !.proof_locked_at = Len(t.proof)]

(* unlock_proof hashes what the locked section appended and then cuts it   *)
(* out of the proof again.                                                 *)
UnlockProof(t) ==
  [t EXCEPT !.digest = IF t.hash_start_index < Len(t.proof)
                       THEN RefreshedDigest(t) ELSE @,
            !.proof            = SubSeq(@, 1, t.proof_locked_at),
            !.hash_start_index = t.proof_locked_at,
            !.proof_locked     = FALSE]

FinalizeAndGetProof(t) == IF t.proof_locked THEN UnlockProof(t) ELSE t

(* The sets the records above belong to, for items of the set Item.        *)
Digest(Item) ==
  [absorbed : Seq([after : Int, chunk : Seq(Item)]), rehash : Nat]

Transcript(Item) ==
  [digest           : Digest(Item),
   proof            : Seq(Item),
   hash_start_index : Nat,
   proof_locked     : BOOLEAN,
   proof_locked_at  : Nat]

(* Every item that a digest depends on, in the order it was absorbed.      *)
BoundItems(d) ==
  FlattenSeq([n \in 1 .. Len(d.absorbed) |-> d.absorbed[n].chunk])
=============================================================================
