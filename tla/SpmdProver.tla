------------------------------ MODULE SpmdProver ------------------------------
(***************************************************************************)
(* The prover as a parallel program: WorldSize ranks run the same program  *)
(* Prog (see GkrScript), each with its own Fiat-Shamir transcript, and     *)
(* communicate through MPI collectives and through the gate coefficients,  *)
(* which all ranks map from one shared memory window.                      *)
(*                                                                         *)
(* A collective takes two steps.  Entering it hands the rank's value to    *)
(* MPI, which matches the n-th collective of one rank with the n-th of     *)
(* every other rank and knows nothing of the call sites.  A rank leaves    *)
(* when the collective's data flow lets it: receivers of a broadcast wait  *)
(* for the root, the root of a gather waits for everybody, a barrier and   *)
(* an all-to-all wait for everybody on every rank.                         *)
(***************************************************************************)
EXTENDS World, Sequences, FiniteSets, BytesHashTranscript

CONSTANT Prog

(* What a call is about, with its layer and its round.                     *)
Label ==
  {"sync", "gather", "bcast", "barrier", "alltoall", "new", "pi", "com", "grind",
   "coef", "coefs", "rz", "r_simd", "r_mpi", "x", "y", "simd", "mpi", "vx", "vy",
   "alpha", "lock", "opening", "proximity", "query", "folded", "evals", "beta_x",
   "beta_y", "gamma", "beta_x_com", "beta_y_com", "delta_x", "delta_y", "proof", "file"}
Arg == Label \X Nat \X Nat

LocalOp      == {"new", "append", "commit", "sample", "fill", "refresh",
                 "read", "lock", "unlock", "finish", "dump"}
RootFirstOp  == {"sync", "challenge", "bcast", "barrier", "alltoall"}
LeavesFirstOp == {"gather", "barrier", "alltoall"}
CollectiveOp == RootFirstOp \cup LeavesFirstOp
Op == [op : LocalOp \cup CollectiveOp, who : {"all", "root"}, arg : Arg]

ASSUME ProgAssumption == Prog \in Seq(Op)

(* Positions of the program, and the ones that make a given call.          *)
Pos       == 1 .. Len(Prog)
Calls(S)  == {p \in Pos : Prog[p].op \in S}
Coefs     == {Prog[p].arg : p \in Calls({"fill"})}
Fills(c)  == {p \in Calls({"fill"}) : Prog[p].arg = c}

(* What a rank appends is tagged with the rank: nothing says that a leaf   *)
(* computes the value the root computes.                                   *)
Item == [what : Arg, by : Rank]
NoDigest == [absorbed |-> <<>>, rehash |-> -1]

VARIABLES
  pc,       \* the next operation of each rank
  inside,   \* is the rank inside the collective at pc?
  tr,       \* the transcript of each rank
  posted,   \* the collectives each rank has entered, in order
  chal,     \* the challenges each rank has adopted, by position
  coef,     \* shared memory: which fill wrote each coefficient, 0 for none
  proofs,   \* the proofs each rank has returned from prove()
  file      \* the proof file on disk, empty before it is written

vars == <<pc, inside, tr, posted, chal, coef, proofs, file>>

Message == [op : CollectiveOp, at : Pos, digest : Digest(Item) \cup {NoDigest}]

TypeOK ==
  /\ pc \in [Rank -> 1 .. Len(Prog) + 1]
  /\ inside \in [Rank -> BOOLEAN]
  /\ tr \in [Rank -> Transcript(Item)]
  /\ posted \in [Rank -> Seq(Message)]
  /\ chal \in [Rank -> SUBSET (Pos \X Digest(Item))]
  /\ coef \in [Coefs -> 0 .. Len(Prog)]
  /\ proofs \in [Rank -> Seq(Seq(Item))]
  /\ file \in Seq(Item)

Init ==
  /\ pc = [r \in Rank |-> 1]
  /\ inside = [r \in Rank |-> FALSE]
  /\ tr = [r \in Rank |-> NewTranscript]
  /\ posted = [r \in Rank |-> <<>>]
  /\ chal = [r \in Rank |-> {}]
  /\ coef = [c \in Coefs |-> 0]
  /\ proofs = [r \in Rank |-> <<>>]
  /\ file = <<>>

-----------------------------------------------------------------------------
Running(r) == pc[r] <= Len(Prog)
Current(r) == Prog[pc[r]]
ItemOf(r)  == [what |-> Current(r).arg, by |-> r]

(* Rank r is about to make the call, and makes it rather than skipping it. *)
At(r, op) ==
  /\ Running(r)
  /\ Current(r).op = op
  /\ Current(r).who = "all" \/ r = ROOT_RANK

Advance(r) == pc' = [pc EXCEPT ![r] = @ + 1]

(* A step of rank r on its own transcript.                                 *)
LocalStep(r, t) ==
  /\ Advance(r)
  /\ tr' = [tr EXCEPT ![r] = t]
  /\ UNCHANGED <<inside, posted, coef>>

(* The rank goes on with the challenge d drawn at its position.            *)
Adopt(r, d) == chal' = [chal EXCEPT ![r] = @ \cup {<<pc[r], d>>}]

SkipRootOnly(r) ==
  /\ Running(r)
  /\ Current(r).who = "root" /\ r # ROOT_RANK
  /\ Advance(r)
  /\ UNCHANGED <<inside, tr, posted, chal, coef, proofs, file>>

New(r) ==
  /\ At(r, "new")
  /\ LocalStep(r, NewTranscript)
  /\ UNCHANGED <<chal, proofs, file>>

AppendOp(r) ==
  /\ At(r, "append")
  /\ LocalStep(r, AppendItem(tr[r], ItemOf(r)))
  /\ UNCHANGED <<chal, proofs, file>>

Commit(r) ==
  /\ At(r, "commit")
  /\ LocalStep(r, AppendCommitment(tr[r], ItemOf(r)))
  /\ UNCHANGED <<chal, proofs, file>>

Refresh(r) ==
  /\ At(r, "refresh")
  /\ LocalStep(r, RefreshDigest(tr[r]))
  /\ UNCHANGED <<chal, proofs, file>>

Sample(r) ==
  /\ At(r, "sample")
  /\ LocalStep(r, RefreshDigest(tr[r]))
  /\ Adopt(r, RefreshedDigest(tr[r]))
  /\ UNCHANGED <<proofs, file>>

(* The root draws a coefficient and writes it through the raw pointer into *)
(* the gates, which the other ranks read.                                  *)
Fill(r) ==
  /\ At(r, "fill")
  /\ Advance(r)
  /\ tr' = [tr EXCEPT ![r] = RefreshDigest(@)]
  /\ Adopt(r, RefreshedDigest(tr[r]))
  /\ coef' = [coef EXCEPT ![Current(r).arg] = pc[r]]
  /\ UNCHANGED <<inside, posted, proofs, file>>

(* evaluate and the sumcheck preparations go through the gates' coefs; the *)
(* rank stays at this position while it reads them.                        *)
ReadCoefs(r) ==
  /\ At(r, "read")
  /\ Advance(r)
  /\ UNCHANGED <<inside, tr, posted, chal, coef, proofs, file>>

(* lock_proof and unlock_proof panic when the proof is locked (is not).    *)
Lock(r) ==
  /\ At(r, "lock")
  /\ ~tr[r].proof_locked
  /\ LocalStep(r, LockProof(tr[r]))
  /\ UNCHANGED <<chal, proofs, file>>

Unlock(r) ==
  /\ At(r, "unlock")
  /\ tr[r].proof_locked
  /\ LocalStep(r, UnlockProof(tr[r]))
  /\ UNCHANGED <<chal, proofs, file>>

Finish(r) ==
  /\ At(r, "finish")
  /\ LocalStep(r, FinalizeAndGetProof(tr[r]))
  /\ proofs' = [proofs EXCEPT ![r] = Append(@, FinalizeAndGetProof(tr[r]).proof)]
  /\ UNCHANGED <<chal, file>>

(* Writes the proof just made over whatever the file held.                 *)
Dump(r) ==
  /\ At(r, "dump")
  /\ proofs[r] # <<>>
  /\ Advance(r)
  /\ file' = proofs[r][Len(proofs[r])]
  /\ UNCHANGED <<inside, tr, posted, chal, coef, proofs>>

-----------------------------------------------------------------------------
(* Mutants: a challenge has no payload; a sync hands over the digest as it *)
(* was before the appended bytes were hashed.                              *)
PayloadOfSyncOnly(r) ==
  IF Current(r).op = "sync" THEN RefreshedDigest(tr[r]) ELSE NoDigest

PayloadUnhashed(r) ==
  IF Current(r).op \in {"sync", "challenge"} THEN tr[r].digest ELSE NoDigest

(* What a rank hands to a collective: a sync its hashed transcript state,  *)
(* a challenge the one it drew itself.                                     *)
Payload(r) ==
  IF Current(r).op \in {"sync", "challenge"}
  THEN RefreshedDigest(tr[r]) ELSE NoDigest

Enter(r) ==
  /\ \E c \in CollectiveOp : At(r, c)
  /\ ~inside[r]
  /\ inside' = [inside EXCEPT ![r] = TRUE]
  /\ posted' = [posted EXCEPT ![r] =
       Append(@, [op |-> Current(r).op, at |-> pc[r], digest |-> Payload(r)])]
  /\ tr' = IF Current(r).op \in {"sync", "challenge"}
           THEN [tr EXCEPT ![r] = RefreshDigest(@)] ELSE tr
  /\ UNCHANGED <<pc, chal, coef, proofs, file>>

(* Has rank q entered the collective that rank r is in?                    *)
HasJoined(q, r) == Len(posted[q]) >= Len(posted[r])

(* What rank r waits for in a collective of the kind op has arrived.       *)
HasArrived(r, op) ==
  /\ op \in RootFirstOp => HasJoined(ROOT_RANK, r)
  /\ op \in LeavesFirstOp /\ (r = ROOT_RANK \/ op # "gather")
       => \A q \in Rank : HasJoined(q, r)

(* Rank r is inside a collective of the kind op that lets it go.           *)
Completes(r, op) ==
  /\ At(r, op)
  /\ inside[r]
  /\ HasArrived(r, op)
  /\ inside' = [inside EXCEPT ![r] = FALSE]
  /\ Advance(r)
  /\ UNCHANGED <<posted, coef, proofs, file>>

(* The root's value in the collective that rank r is in.                   *)
Received(r) == posted[ROOT_RANK][Len(posted[r])].digest

(* Mutants: the received state, or the received challenge, is dropped.     *)
LeaveSyncUnset(r) == Completes(r, "sync") /\ UNCHANGED <<tr, chal>>

LeaveChallengeOwn(r) ==
  /\ Completes(r, "challenge")
  /\ Adopt(r, tr[r].digest)
  /\ UNCHANGED tr

LeaveSync(r) ==
  /\ Completes(r, "sync")
  /\ tr' = [tr EXCEPT ![r] = SetState(@, Received(r))]
  /\ UNCHANGED chal

LeaveChallenge(r) ==
  /\ Completes(r, "challenge")
  /\ Adopt(r, Received(r))
  /\ UNCHANGED tr

(* The data of a gather, a broadcast or an all-to-all touch no transcript. *)
LeaveOther(r) ==
  /\ \E op \in CollectiveOp \ {"sync", "challenge"} : Completes(r, op)
  /\ UNCHANGED <<tr, chal>>

Step(r) ==
  \/ SkipRootOnly(r) \/ New(r) \/ AppendOp(r) \/ Commit(r) \/ Refresh(r)
  \/ Sample(r) \/ Fill(r) \/ ReadCoefs(r) \/ Lock(r) \/ Unlock(r) \/ Finish(r) \/ Dump(r)
  \/ Enter(r) \/ LeaveSync(r) \/ LeaveChallenge(r) \/ LeaveOther(r)

AllDone == \A r \in Rank : ~Running(r)

Done == AllDone /\ UNCHANGED vars

Next == Done \/ \E r \in Rank : Step(r)

(* Every rank is a process of its own that keeps running.                  *)
Spec == Init /\ [][Next]_vars /\ \A r \in Rank : WF_vars(Step(r))

-----------------------------------------------------------------------------
(* The discipline that makes an SPMD program safe, by call sites:          *)
(*   - no rank is left out of a collective, and only the root fills;       *)
(*   - a point is sampled from the rank's own transcript only after a sync *)
(*     with nothing but quiet calls in between, that change no transcript  *)
(*     but by sampling alike on all ranks;                                 *)
(*   - a read of the gates is fenced from the fills before it by a call    *)
(*     that waits for the root, from the fills after it by one in which    *)
(*     the root waits.                                                     *)
QuietOp == {"sample", "read", "lock", "dump", "gather", "bcast", "barrier", "alltoall"}

IsQuietSince(s, p) == s < p /\ \A q \in s + 1 .. p - 1 : Prog[q].op \in QuietOp

CollectivesOnAllRanks == \A p \in Calls(CollectiveOp) : Prog[p].who = "all"

FillsOnRoot == \A p \in Calls({"fill"}) : Prog[p].who = "root"

IsSynced(p) ==
  /\ Prog[p].who = "all"
  /\ WorldSize = 1 \/ \E s \in Calls({"sync"}) : IsQuietSince(s, p)

IsFenced(p) ==
  WorldSize = 1 \/
  \A f \in Calls({"fill"}) :
    /\ f < p => \E q \in Calls(RootFirstOp) : f < q /\ q < p
    /\ p < f => \E q \in Calls(LeavesFirstOp) : p < q /\ q < f

Disciplined ==
  /\ CollectivesOnAllRanks
  /\ FillsOnRoot
  /\ \A p \in Calls({"sample"}) : IsSynced(p)
  /\ \A p \in Calls({"read"}) : IsFenced(p)

(* The programs of prove() keep to it, whatever the circuit: a rank only   *)
(* gets to a sample that is synced and to a read that is fenced, and never *)
(* skips a collective.                                                     *)
KeepsDiscipline ==
  \A r \in Rank : Running(r) =>
    /\ Current(r).op \in CollectiveOp => Current(r).who = "all"
    /\ Current(r).op = "fill" => Current(r).who = "root"
    /\ Current(r).op = "sample" => IsSynced(pc[r])
    /\ Current(r).op = "read" => IsFenced(pc[r])

(* No two ranks are ever in different calls of the same collective: the    *)
(* n-th collective entered by any rank comes from the same place of the    *)
(* program (the is_root() branches of prove and open contain none).        *)
CollectivesMatch ==
  \A r, q \in Rank :
    \A n \in 1 .. Len(posted[r]) :
      n <= Len(posted[q]) => posted[r][n].at = posted[q][n].at

(* All ranks fold, combine and query with the same randomness: the points  *)
(* sampled from a rank's own transcript are as equal as the broadcast ones *)
(* although the ranks append different values in between.                  *)
ChallengeAgreement ==
  \A r, q \in Rank :
    \A c \in chal[r], d \in chal[q] : c[1] = d[1] => c[2] = d[2]

(* The ranks' challenges implement one shared random tape.                 *)
Coin == INSTANCE SharedRandomness WITH Process <- Rank, known <- chal
OneSharedTape == Coin!Spec

(* f is the last position before p that fills coefficient c, 0 if none.    *)
IsLastFill(c, f, p) ==
  /\ f < p
  /\ f # 0 => f \in Fills(c)
  /\ \A g \in Fills(c) : g < p => g <= f

(* While a rank reads the gates, in evaluate or in a layer's sumcheck      *)
(* preparation, every shared coefficient is the one of this very proof: it *)
(* is filled already and the root has not begun to fill the next one.      *)
CoefReadsCurrent ==
  \A r \in Rank :
    At(r, "read") => \A c \in Coefs : IsLastFill(c, coef[c], pc[r])

(* What the root appends at position p.                                    *)
RootItem(p)   == [what |-> Prog[p].arg, by |-> ROOT_RANK]
AppendedAt(p) == IF Prog[p].op \in {"append", "commit"} THEN <<RootItem(p)>> ELSE <<>>

(* The last call of S before p, and what the root appended from it on.     *)
IsLastCall(S, b, p) == b \in Calls(S) /\ b < p /\ \A d \in Calls(S) : d < p => d <= b

ItemsSince(S, p) ==
  LET base == CHOOSE b \in Calls(S) : IsLastCall(S, b, p)
  IN FlattenSeq([i \in 1 .. p - base |-> AppendedAt(base + i - 1)])

(* A transcript starts over with the commitment, in recursion builds only  *)
(* with a new proof.                                                       *)
Restart == IF Recursion THEN {"new"} ELSE {"commit", "new"}

(* A challenge of the root depends on everything it appended since the     *)
(* commitment, locked or not, and in that order: no set_state or unlock    *)
(* skips bytes that were not hashed yet.                                   *)
ChallengesBindTranscript ==
  \A c \in chal[ROOT_RANK] : BoundItems(c[2]) = ItemsSince(Restart, c[1])

(* Rank r has a step to take: it skips the call, the assertion of the call *)
(* holds, or it is let into or out of the collective.                      *)
CanStep(r) ==
  \/ Running(r) /\ Current(r).who = "root" /\ r # ROOT_RANK
  \/ \E op \in LocalOp :
       /\ At(r, op)
       /\ op = "lock" => ~tr[r].proof_locked
       /\ op = "unlock" => tr[r].proof_locked
       /\ op = "dump" => proofs[r] # <<>>
  \/ \E op \in CollectiveOp :
       /\ At(r, op)
       /\ inside[r] => HasArrived(r, op)

(* There is always a rank that goes on until all are done: the ranks never *)
(* wait for each other in a circle, none is at a lock or unlock that would *)
(* panic, and none writes a proof it has not made.                         *)
NeverStuck == AllDone \/ \E r \in Rank : CanStep(r)

(* Every rank gets through its program: no collective waits for ever and   *)
(* no lock or unlock panics.                                               *)
Termination == <>AllDone
=============================================================================
