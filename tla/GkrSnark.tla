------------------------------- MODULE GkrSnark -------------------------------
(***************************************************************************)
(* The prover ranks of SpmdProver and the verifier of                      *)
(* gkr/src/verifier/snark.rs, which reads the proof file the root wrote.   *)
(*                                                                         *)
(* The verifier is one sequential process that runs the program VProg (see *)
(* GkrScript) on its own transcript.  Its algebraic checks (the two sums   *)
(* of a sumcheck round, the final product, the opening) are abstracted:    *)
(* the polynomials of an honest prover satisfy them at the challenges they *)
(* were made for, and at others only by negligible chance.  So they hold   *)
(* exactly when the verifier has drawn the challenges the root used.       *)
(***************************************************************************)
EXTENDS SpmdProver

CONSTANT VProg

VerifierOp == {"expect", "parse", "take", "parsecom", "append", "refresh",
               "sample", "sync", "lock", "unlock"}

ASSUME VProgAssumption ==
  VProg \in Seq([op : VerifierOp, who : {"all"}, arg : Arg])

VARIABLES
  vpc,       \* the verifier's next operation
  vtr,       \* its transcript
  cursor,    \* the items of the proof it has read
  vchal,     \* the challenges it has drawn, in order
  verdict,   \* "none", then "accept" or "reject"
  statement  \* is it called with the public inputs that were "proved"?

vvars == <<vpc, vtr, cursor, vchal, verdict, statement>>

(* A statement can differ from the proved one in its public inputs, when   *)
(* there are any.                                                          *)
SnarkInit ==
  /\ Init
  /\ vpc = 1
  /\ vtr = NewTranscript
  /\ cursor = 0
  /\ vchal = <<>>
  /\ verdict = "none"
  /\ statement \in {"proved"} \cup
       {s \in {"other"} : \E p \in 1 .. Len(VProg) : VProg[p].arg[1] = "pi"}

(* The challenges the root used for the proof, in the order of the program *)
(* (a fill counts: the verifier has to draw the coefficients as well).     *)
ChallengeCalls == Calls({"sample", "fill", "challenge"})
ProverChallenge(n) ==
  LET p == CHOOSE q \in ChallengeCalls :
             Cardinality({b \in ChallengeCalls : b <= q}) = n
  IN (CHOOSE c \in chal[ROOT_RANK] : c[1] = p)[2]

-----------------------------------------------------------------------------
VCurrent == VProg[vpc]
VItem    == [what |-> VCurrent.arg, by |-> ROOT_RANK]

(* The verifier is started on a complete proof file.                       *)
VAt(ops) ==
  /\ file # <<>>
  /\ verdict = "none"
  /\ vpc <= Len(VProg)
  /\ VCurrent.op \in ops

(* The next item of the proof is the one the verifier is looking for; the  *)
(* bytes of any other deserialize to an unrelated value, or not at all.    *)
(* A public input has to be the one the verifier was called with, too.     *)
NextIsExpected ==
  /\ cursor < Len(file)
  /\ file[cursor + 1] = VItem
  /\ VCurrent.op = "expect" => statement = "proved"

VStep(t, n, draws) ==
  /\ vpc' = vpc + 1
  /\ vtr' = t
  /\ cursor' = cursor + n
  /\ vchal' = vchal \o draws
  /\ UNCHANGED <<verdict, statement>>

Read ==
  /\ VAt({"expect", "take"})
  /\ NextIsExpected
  /\ VStep(vtr, 1, <<>>)

Parse ==
  /\ VAt({"parse"})
  /\ NextIsExpected
  /\ VStep(AppendItem(vtr, VItem), 1, <<>>)

ParseCommitment ==
  /\ VAt({"parsecom"})
  /\ NextIsExpected
  /\ VStep(AppendCommitment(vtr, VItem), 1, <<>>)

(* Inside the lock, the values come from the opening just deserialized.    *)
VAppend ==
  /\ VAt({"append"})
  /\ VStep(AppendItem(vtr, VItem), 0, <<>>)

VRefresh ==
  /\ VAt({"refresh"})
  /\ VStep(RefreshDigest(vtr), 0, <<>>)

VSample ==
  /\ VAt({"sample"})
  /\ VStep(RefreshDigest(vtr), 0, <<RefreshedDigest(vtr)>>)

TranscriptVerifierSync ==
  /\ VAt({"sync"})
  /\ VStep(SetState(RefreshDigest(vtr), RefreshedDigest(vtr)), 0, <<>>)

VLock ==
  /\ VAt({"lock"})
  /\ ~vtr.proof_locked
  /\ VStep(LockProof(vtr), 0, <<>>)

VUnlock ==
  /\ VAt({"unlock"})
  /\ vtr.proof_locked
  /\ VStep(UnlockProof(vtr), 0, <<>>)

(* `return false` for the public inputs and the commitment; elsewhere the  *)
(* unrelated value is caught by the checks at the latest, which comes to   *)
(* the same verdict.                                                       *)
RejectProof ==
  /\ VAt({"expect", "take", "parse", "parsecom"})
  /\ ~NextIsExpected
  /\ verdict' = "reject"
  /\ UNCHANGED <<vpc, vtr, cursor, vchal, statement>>

AlgebraicChecksHold ==
  /\ Len(vchal) = Cardinality(ChallengeCalls)
  /\ \A n \in 1 .. Len(vchal) : vchal[n] = ProverChallenge(n)

Decide ==
  /\ vpc > Len(VProg)
  /\ verdict = "none"
  /\ verdict' = IF AlgebraicChecksHold THEN "accept" ELSE "reject"
  /\ UNCHANGED <<vpc, vtr, cursor, vchal, statement>>

VerifierStep ==
  \/ Read \/ Parse \/ ParseCommitment \/ VAppend \/ VRefresh \/ VSample
  \/ TranscriptVerifierSync \/ VLock \/ VUnlock \/ RejectProof \/ Decide

SnarkDone == AllDone /\ verdict # "none" /\ UNCHANGED <<vars, vvars>>

SnarkNext ==
  \/ \E r \in Rank : Step(r) /\ UNCHANGED vvars
  \/ VerifierStep /\ UNCHANGED vars
  \/ SnarkDone

SnarkSpec ==
  /\ SnarkInit
  /\ [][SnarkNext]_<<vars, vvars>>
  /\ \A r \in Rank : WF_vars(Step(r) /\ UNCHANGED vvars)
  /\ WF_vvars(VerifierStep /\ UNCHANGED vars)

-----------------------------------------------------------------------------

(* Whatever the interleaving of the ranks, their proof is written and the  *)
(* verifier decides on it: it accepts the statement that was proved and    *)
(* rejects one with other public inputs.                                   *)
DecidesRightly ==
  <>(verdict = IF statement = "proved" THEN "accept" ELSE "reject")

(* The verifier derives the challenges of the prover one by one, without   *)
(* having seen the locked dialogue of the opening or the MPI messages.     *)
VerifierFollowsProver ==
  \A n \in 1 .. Len(vchal) :
    n <= Cardinality(ChallengeCalls) /\ vchal[n] = ProverChallenge(n)

=============================================================================
