------------------------------ MODULE SpmdProofs ------------------------------
(***************************************************************************)
(* SpmdProver proved about, for every number of ranks and every program.   *)
(*                                                                         *)
(* The state is well typed and the collectives match, provided that no     *)
(* rank is left out of a collective (CollectivesOnAllRanks). A transcript  *)
(* adopts what the root posted at the same number, so that the value is a  *)
(* digest at all rests on the collectives matching; and they match because *)
(* the number of collectives a rank has entered is the number of           *)
(* collective calls before its program position, plus one while it is      *)
(* inside one.                                                             *)
(*                                                                         *)
(* For a program that keeps to the whole discipline (Disciplined) all      *)
(* ranks use the same challenges, they implement one shared random tape,   *)
(* and no rank reads a gate coefficient of another proof. Lastly come the  *)
(* transcripts: what a challenge binds, and that the ranks never get stuck.*)
(***************************************************************************)
EXTENDS SpmdProver, ProofLemmas

(* The collective calls before position p.                                 *)
CollNo(p) == Count(Calls(CollectiveOp), p)

(* The collectives that hand the digest of the root around.                *)
CarriesDigest == {"sync", "challenge"}

(* Message m is what the call at m.at posts, and its number fits.          *)
MessageFits(m, n) ==
  /\ m.at \in Calls(CollectiveOp)
  /\ m.op = Prog[m.at].op
  /\ m.op \in CarriesDigest => m.digest \in Digest(Item)
  /\ n = CollNo(m.at) + 1

(* The parts of the invariant: the transcripts are well formed, a rank is  *)
(* inside no call but a collective, it has posted one message for each     *)
(* collective it entered, and each message is the one that its call posts. *)
LocksOK  == \A r \in Rank : LockOK(tr[r])
InsideOK == \A r \in Rank : inside[r] => pc[r] \in Calls(CollectiveOp)
CountOK  == \A r \in Rank :
  Len(posted[r]) = CollNo(pc[r]) + (IF inside[r] THEN 1 ELSE 0)
PostedOK == \A r \in Rank : \A n \in 1 .. Len(posted[r]) :
  MessageFits(posted[r][n], n)

(* The inductive invariant.                                                *)
MatchInv == TypeOK /\ LocksOK /\ InsideOK /\ CountOK /\ PostedOK

-----------------------------------------------------------------------------
(* The root is a rank.                                                     *)
LEMMA RootIsRank == ROOT_RANK \in Rank /\ Rank \subseteq Int
BY WorldAssumption DEF ROOT_RANK, Rank

(* Every operation of the program is well formed.                          *)
LEMMA OpType ==
  /\ Len(Prog) \in Nat
  /\ \A p \in Pos : /\ p \in Nat \ {0}
                    /\ Prog[p] \in Op
                    /\ Prog[p].op \in LocalOp \cup CollectiveOp
                    /\ Prog[p].who \in {"all", "root"}
                    /\ Prog[p].arg \in Arg
<1>1. Len(Prog) \in Nat /\ \A p \in Pos : Prog[p] \in Op
  BY ProgAssumption DEF Pos
<1> QED
  BY <1>1 DEF Pos, Op

(* The count of collectives steps at a collective call and nowhere else.   *)
LEMMA CollNoNext ==
  ASSUME NEW p \in Nat \ {0}
  PROVE  /\ CollNo(p) \in Nat
         /\ p \in Calls(CollectiveOp) => CollNo(p + 1) = CollNo(p) + 1
         /\ p \notin Calls(CollectiveOp) => CollNo(p + 1) = CollNo(p)
BY CountNext, CountType DEF CollNo

(* What is known of a rank that is about to take a step.                   *)
LEMMA RunningType ==
  ASSUME TypeOK, NEW r \in Rank, Running(r)
  PROVE  /\ pc[r] \in Pos
         /\ pc[r] + 1 \in 1 .. Len(Prog) + 1
         /\ tr[r] \in Transcript(Item)
         /\ ItemOf(r) \in Item
         /\ RefreshedDigest(tr[r]) \in Digest(Item)
<1>1. pc[r] \in Pos /\ pc[r] + 1 \in 1 .. Len(Prog) + 1
  BY OpType DEF TypeOK, Running, Pos
<1>2. tr[r] \in Transcript(Item)
  BY DEF TypeOK
<1>3. ItemOf(r) \in Item
  BY <1>1, OpType DEF ItemOf, Current, Item
<1> QED
  BY <1>1, <1>2, <1>3, RefreshType

-----------------------------------------------------------------------------
(* Steps that enter and leave no collective.                               *)

(* A position with a local call, or one skipped by a leaf, is no           *)
(* collective.                                                             *)
LEMMA NotCollective ==
  ASSUME CollectivesOnAllRanks, NEW r \in Rank, NEW op \in LocalOp,
         \/ At(r, op)
         \/ Current(r).who = "root" /\ r # ROOT_RANK
  PROVE  pc[r] \notin Calls(CollectiveOp)
<1>1. CASE At(r, op)
  BY <1>1 DEF At, Current, Calls, LocalOp, CollectiveOp, RootFirstOp, LeavesFirstOp
<1>2. CASE Current(r).who = "root"
  BY <1>2 DEF CollectivesOnAllRanks, Current
<1> QED
  BY <1>1, <1>2

(* Passing such a position keeps the numbers of the collectives.           *)
LEMMA WalkKeepsCounts ==
  ASSUME MatchInv, NEW r \in Rank, Running(r), pc[r] \notin Calls(CollectiveOp),
         Advance(r), UNCHANGED <<inside, posted>>
  PROVE  InsideOK' /\ CountOK' /\ PostedOK'
<1>1. ~inside[r]
  BY DEF MatchInv, InsideOK
<1>2. /\ pc[r] \in Nat \ {0}
      /\ pc' = [pc EXCEPT ![r] = pc[r] + 1]
      /\ pc \in [Rank -> 1 .. Len(Prog) + 1]
  BY OpType DEF MatchInv, TypeOK, Advance
<1>3. CollNo(pc'[r]) = CollNo(pc[r])
  BY <1>2, CollNoNext
<1>4. InsideOK'
  BY <1>1, <1>2 DEF MatchInv, InsideOK
<1>5. CountOK'
  BY <1>1, <1>2, <1>3 DEF MatchInv, CountOK
<1>6. PostedOK'
  BY DEF MatchInv, PostedOK
<1> QED
  BY <1>4, <1>5, <1>6

(* A local step to a well-formed transcript keeps types and locks.         *)
LEMMA LocalStepType ==
  ASSUME MatchInv, NEW r \in Rank, Running(r),
         NEW t \in Transcript(Item), LockOK(t), LocalStep(r, t)
  PROVE  /\ pc' \in [Rank -> 1 .. Len(Prog) + 1]
         /\ tr' \in [Rank -> Transcript(Item)]
         /\ LocksOK'
<1>1. pc' = [pc EXCEPT ![r] = pc[r] + 1] /\ tr' = [tr EXCEPT ![r] = t]
  BY DEF LocalStep, Advance
<1>2. /\ pc \in [Rank -> 1 .. Len(Prog) + 1]
      /\ tr \in [Rank -> Transcript(Item)]
      /\ pc[r] + 1 \in 1 .. Len(Prog) + 1
  BY RunningType DEF MatchInv, TypeOK
<1>3. LocksOK'
  BY <1>1, <1>2 DEF MatchInv, LocksOK
<1> QED
  BY <1>1, <1>2, <1>3

(* A rank goes on with a digest.                                           *)
LEMMA AdoptType ==
  ASSUME TypeOK, NEW r \in Rank, Running(r), NEW d \in Digest(Item), Adopt(r, d)
  PROVE  chal' \in [Rank -> SUBSET (Pos \X Digest(Item))]
<1>1. pc[r] \in Pos
  BY RunningType
<1> QED
  BY <1>1 DEF TypeOK, Adopt

-----------------------------------------------------------------------------
(* Entering and leaving a collective.                                      *)

(* What a rank posts fits the call it is at.                               *)
LEMMA EnterFits ==
  ASSUME MatchInv, NEW r \in Rank, Enter(r)
  PROVE  LET m == [op |-> Current(r).op, at |-> pc[r], digest |-> Payload(r)]
         IN  /\ Running(r) /\ pc[r] \in Calls(CollectiveOp)
             /\ m \in Message
             /\ MessageFits(m, Len(posted[r]) + 1)
<1> DEFINE m == [op |-> Current(r).op, at |-> pc[r], digest |-> Payload(r)]
<1>1. PICK c \in CollectiveOp : At(r, c)
  BY DEF Enter
<1>2. Running(r) /\ Current(r).op = c
  BY <1>1 DEF At
<1>3. pc[r] \in Pos /\ RefreshedDigest(tr[r]) \in Digest(Item)
  BY <1>2, RunningType DEF MatchInv
<1>4. pc[r] \in Calls(CollectiveOp) /\ Prog[pc[r]].op = c
  BY <1>2, <1>3 DEF Calls, Current
<1>5. /\ Payload(r) \in Digest(Item) \cup {NoDigest}
      /\ Current(r).op \in CarriesDigest => Payload(r) \in Digest(Item)
  BY <1>3 DEF Payload, CarriesDigest
<1>6. m \in Message
  BY <1>2, <1>3, <1>5 DEF Message
<1>7. Len(posted[r]) = CollNo(pc[r])
  BY CollNoNext, OpType, <1>3 DEF Enter, MatchInv, CountOK
<1>8. MessageFits(m, Len(posted[r]) + 1)
  BY <1>2, <1>4, <1>5, <1>7 DEF MessageFits
<1> QED
  BY <1>2, <1>4, <1>6, <1>8

(* Entering adds one message and keeps the invariant.                      *)
LEMMA EnterKeeps ==
  ASSUME MatchInv, NEW r \in Rank, Enter(r)
  PROVE  MatchInv'
<1> DEFINE m == [op |-> Current(r).op, at |-> pc[r], digest |-> Payload(r)]
<1>1. /\ Running(r) /\ pc[r] \in Calls(CollectiveOp)
      /\ m \in Message
      /\ MessageFits(m, Len(posted[r]) + 1)
  BY EnterFits
<1>2. /\ ~inside[r]
      /\ inside' = [inside EXCEPT ![r] = TRUE]
      /\ posted' = [posted EXCEPT ![r] = Append(posted[r], m)]
      /\ UNCHANGED <<pc, chal, coef, proofs, file>>
  BY DEF Enter
<1>3. /\ posted \in [Rank -> Seq(Message)]
      /\ inside \in [Rank -> BOOLEAN]
      /\ tr \in [Rank -> Transcript(Item)]
      /\ LockOK(tr[r])
  BY DEF MatchInv, TypeOK, LocksOK
<1>4. /\ Append(posted[r], m) \in Seq(Message)
      /\ Len(Append(posted[r], m)) = Len(posted[r]) + 1
      /\ \A n \in 1 .. Len(posted[r]) : Append(posted[r], m)[n] = posted[r][n]
      /\ Append(posted[r], m)[Len(posted[r]) + 1] = m
      /\ Len(posted[r]) \in Nat
  BY <1>1, <1>3, AppendProperties
<1>5. RefreshDigest(tr[r]) \in Transcript(Item) /\ LockOK(RefreshDigest(tr[r]))
  BY <1>3, RefreshType
<1>6. tr' \in [Rank -> Transcript(Item)] /\ LocksOK'
  <2>1. CASE tr' = tr
    BY <1>3, <2>1 DEF MatchInv, LocksOK
  <2>2. CASE tr' = [tr EXCEPT ![r] = RefreshDigest(tr[r])]
    BY <1>3, <1>5, <2>2 DEF MatchInv, LocksOK
  <2> QED
    BY <2>1, <2>2 DEF Enter
<1>7. posted' \in [Rank -> Seq(Message)] /\ inside' \in [Rank -> BOOLEAN]
  BY <1>2, <1>3, <1>4
<1>8. TypeOK'
  BY <1>2, <1>6, <1>7 DEF MatchInv, TypeOK
<1>9. InsideOK'
  BY <1>1, <1>2, <1>3 DEF MatchInv, InsideOK
<1>10. CountOK'
  <2>1. Len(posted[r]) = CollNo(pc[r])
    BY <1>1, <1>2, OpType, CollNoNext DEF MatchInv, CountOK, Calls
  <2>2. Len(posted'[r]) = CollNo(pc[r]) + 1 /\ inside'[r]
    BY <1>2, <1>3, <1>4, <2>1
  <2>3. ASSUME NEW q \in Rank, q # r
        PROVE  posted'[q] = posted[q] /\ inside'[q] = inside[q]
    BY <1>2, <1>3, <2>3
  <2> QED
    BY <1>2, <2>2, <2>3 DEF MatchInv, CountOK, CollNo
<1>11. PostedOK'
  <2> SUFFICES ASSUME NEW q \in Rank, NEW n \in 1 .. Len(posted'[q])
               PROVE  MessageFits(posted'[q][n], n)
    BY DEF PostedOK, MessageFits
  <2>1. CASE q # r
    BY <1>2, <1>3, <2>1 DEF MatchInv, PostedOK
  <2>2. CASE q = r /\ n <= Len(posted[r])
    BY <1>2, <1>3, <1>4, <2>2 DEF MatchInv, PostedOK
  <2>3. CASE q = r /\ n > Len(posted[r])
    BY <1>1, <1>2, <1>3, <1>4, <2>3
  <2> QED
    BY <1>4, <2>1, <2>2, <2>3
<1> QED
  BY <1>6, <1>8, <1>9, <1>10, <1>11 DEF MatchInv

(* A rank that leaves a collective has passed the call with its number.    *)
LEMMA LeaveKeepsCounts ==
  ASSUME MatchInv, NEW r \in Rank, NEW op \in CollectiveOp, Completes(r, op)
  PROVE  /\ Running(r) /\ pc[r] \in Calls(CollectiveOp)
         /\ pc' \in [Rank -> 1 .. Len(Prog) + 1]
         /\ inside' \in [Rank -> BOOLEAN]
         /\ InsideOK' /\ CountOK' /\ PostedOK'
<1>1. /\ Running(r) /\ inside[r] /\ Current(r).op = op
      /\ inside' = [inside EXCEPT ![r] = FALSE]
      /\ pc' = [pc EXCEPT ![r] = pc[r] + 1]
      /\ posted' = posted
  BY DEF Completes, At, Advance
<1>2. pc[r] \in Calls(CollectiveOp)
  BY <1>1 DEF MatchInv, InsideOK
<1>3. /\ pc \in [Rank -> 1 .. Len(Prog) + 1]
      /\ inside \in [Rank -> BOOLEAN]
      /\ pc[r] \in Nat \ {0}
      /\ pc[r] + 1 \in 1 .. Len(Prog) + 1
  BY <1>1, RunningType, OpType DEF MatchInv, TypeOK
<1>4. CollNo(pc'[r]) = CollNo(pc[r]) + 1 /\ CollNo(pc[r]) \in Nat
  BY <1>1, <1>2, <1>3, CollNoNext
<1>5. InsideOK'
  BY <1>1, <1>3 DEF MatchInv, InsideOK
<1>6. CountOK'
  BY <1>1, <1>3, <1>4 DEF MatchInv, CountOK
<1>7. PostedOK'
  BY <1>1 DEF MatchInv, PostedOK
<1> QED
  BY <1>1, <1>2, <1>3, <1>5, <1>6, <1>7

(* What a rank receives from the root is the root's message of the same    *)
(* call.                                                                   *)
LEMMA ReceivedFits ==
  ASSUME MatchInv, NEW r \in Rank, NEW op \in RootFirstOp, Completes(r, op)
  PROVE  LET n == Len(posted[r])
         IN  /\ n = CollNo(pc[r]) + 1
             /\ n \in 1 .. Len(posted[ROOT_RANK])
             /\ posted[ROOT_RANK][n].at = pc[r]
             /\ op \in CarriesDigest => Received(r) \in Digest(Item)
<1> DEFINE n == Len(posted[r])
<1> DEFINE m == posted[ROOT_RANK][n]
<1>1. /\ inside[r] /\ Running(r) /\ Current(r).op = op
      /\ Len(posted[ROOT_RANK]) >= n
  BY DEF Completes, At, HasArrived, HasJoined
<1>2. /\ pc[r] \in Calls(CollectiveOp)
      /\ pc[r] \in Nat \ {0}
      /\ CollNo(pc[r]) \in Nat
  BY <1>1, OpType, RunningType, CollNoNext DEF MatchInv, InsideOK
<1>3. n = CollNo(pc[r]) + 1
  BY <1>1, <1>2 DEF MatchInv, CountOK
<1>4. Len(posted[ROOT_RANK]) \in Nat
  BY RootIsRank DEF MatchInv, TypeOK
<1>5. n \in 1 .. Len(posted[ROOT_RANK])
  BY <1>1, <1>2, <1>3, <1>4
<1>6. MessageFits(m, n)
  BY <1>5, RootIsRank DEF MatchInv, PostedOK
<1>7. m.at \in Calls(CollectiveOp) /\ m.at \in Nat \ {0} /\ CollNo(m.at) \in Nat
  BY <1>6, OpType, CollNoNext DEF MessageFits, Calls
<1>8. m.at = pc[r]
  BY <1>2, <1>3, <1>6, <1>7, CountInjective DEF MessageFits, CollNo
<1>9. m.op = op
  BY <1>1, <1>6, <1>8 DEF MessageFits, Current
<1>10. op \in CarriesDigest => Received(r) \in Digest(Item)
  BY <1>6, <1>9 DEF MessageFits, Received
<1> QED
  BY <1>3, <1>5, <1>8, <1>10

-----------------------------------------------------------------------------
(* The inductive invariant.                                                *)

(* It holds when every rank is at the first call.                          *)
LEMMA MatchInit == Init => MatchInv
<1> SUFFICES ASSUME Init PROVE MatchInv
  OBVIOUS
<1>1. /\ 1 \in 1 .. Len(Prog) + 1 /\ 0 \in 0 .. Len(Prog)
      /\ << >> \in Seq(Message) /\ << >> \in Seq(Seq(Item)) /\ << >> \in Seq(Item)
  BY OpType, EmptySeq
<1>2. NewTranscript \in Transcript(Item) /\ LockOK(NewTranscript)
  BY NewType
<1>3. TypeOK
  BY <1>1, <1>2 DEF Init, TypeOK
<1>4. CollNo(1) = 0
  BY CountFirst DEF CollNo
<1>5. LocksOK /\ InsideOK /\ CountOK /\ PostedOK
  BY <1>2, <1>4 DEF Init, LocksOK, InsideOK, CountOK, PostedOK
<1> QED
  BY <1>3, <1>5 DEF MatchInv

(* A step on the rank's own transcript keeps the invariant.                *)
LEMMA LocalKeeps ==
  ASSUME CollectivesOnAllRanks, MatchInv, NEW r \in Rank,
         NEW op \in LocalOp, At(r, op),
         NEW t \in Transcript(Item), LockOK(t), LocalStep(r, t),
         chal' \in [Rank -> SUBSET (Pos \X Digest(Item))],
         proofs' \in [Rank -> Seq(Seq(Item))],
         UNCHANGED file
  PROVE  MatchInv'
<1>1. Running(r) /\ pc[r] \notin Calls(CollectiveOp)
  BY NotCollective DEF At
<1>2. Advance(r) /\ UNCHANGED <<inside, posted, coef>>
  BY DEF LocalStep
<1>3. /\ pc' \in [Rank -> 1 .. Len(Prog) + 1]
      /\ tr' \in [Rank -> Transcript(Item)]
      /\ LocksOK'
  BY <1>1, LocalStepType
<1>4. InsideOK' /\ CountOK' /\ PostedOK'
  BY <1>1, <1>2, WalkKeepsCounts
<1>5. TypeOK'
  BY <1>2, <1>3 DEF MatchInv, TypeOK
<1> QED
  BY <1>3, <1>4, <1>5 DEF MatchInv

(* So does a step that leaves all transcripts alone.                       *)
LEMMA PassKeeps ==
  ASSUME MatchInv, NEW r \in Rank, Running(r), pc[r] \notin Calls(CollectiveOp),
         Advance(r), UNCHANGED <<inside, tr, posted, chal, coef, proofs>>,
         file' \in Seq(Item)
  PROVE  MatchInv'
<1>1. InsideOK' /\ CountOK' /\ PostedOK'
  BY WalkKeepsCounts
<1>2. pc' \in [Rank -> 1 .. Len(Prog) + 1]
  BY RunningType DEF MatchInv, TypeOK, Advance
<1>3. TypeOK' /\ LocksOK'
  BY <1>2 DEF MatchInv, TypeOK, LocksOK
<1> QED
  BY <1>1, <1>3 DEF MatchInv

(* Filling a coefficient keeps the invariant.                              *)
LEMMA FillKeeps ==
  ASSUME CollectivesOnAllRanks, MatchInv, NEW r \in Rank, Fill(r)
  PROVE  MatchInv'
<1>1. At(r, "fill") /\ Running(r) /\ "fill" \in LocalOp
  BY DEF Fill, At, LocalOp
<1>2. /\ pc[r] \in Pos /\ pc[r] + 1 \in 1 .. Len(Prog) + 1
      /\ tr[r] \in Transcript(Item) /\ LockOK(tr[r])
      /\ RefreshedDigest(tr[r]) \in Digest(Item)
  BY <1>1, RunningType DEF MatchInv, LocksOK
<1>3. pc[r] \notin Calls(CollectiveOp)
  BY <1>1, NotCollective
<1>4. InsideOK' /\ CountOK' /\ PostedOK'
  BY <1>1, <1>3, WalkKeepsCounts DEF Fill
<1>5. chal' \in [Rank -> SUBSET (Pos \X Digest(Item))]
  BY <1>1, <1>2, AdoptType DEF Fill, MatchInv
<1>6. RefreshDigest(tr[r]) \in Transcript(Item) /\ LockOK(RefreshDigest(tr[r]))
  BY <1>2, RefreshType
<1>7. tr' \in [Rank -> Transcript(Item)] /\ LocksOK'
  BY <1>6 DEF Fill, MatchInv, TypeOK, LocksOK
<1>8. coef' \in [Coefs -> 0 .. Len(Prog)]
  <2>1. pc[r] \in 0 .. Len(Prog)
    BY <1>2, OpType DEF Pos
  <2> QED
    BY <2>1 DEF Fill, MatchInv, TypeOK
<1>9. pc' \in [Rank -> 1 .. Len(Prog) + 1]
  BY <1>2 DEF Fill, Advance, MatchInv, TypeOK
<1>10. TypeOK'
  BY <1>5, <1>7, <1>8, <1>9 DEF Fill, MatchInv, TypeOK
<1> QED
  BY <1>4, <1>7, <1>10 DEF MatchInv

(* Leaving a collective keeps the invariant.                               *)
LEMMA LeaveKeeps ==
  ASSUME MatchInv, NEW r \in Rank,
         LeaveSync(r) \/ LeaveChallenge(r) \/ LeaveOther(r)
  PROVE  MatchInv'
<1>1. ASSUME NEW op \in CollectiveOp, Completes(r, op),
             tr' \in [Rank -> Transcript(Item)], LocksOK',
             chal' \in [Rank -> SUBSET (Pos \X Digest(Item))]
      PROVE  MatchInv'
  <2>1. /\ pc' \in [Rank -> 1 .. Len(Prog) + 1] /\ inside' \in [Rank -> BOOLEAN]
        /\ InsideOK' /\ CountOK' /\ PostedOK'
    BY <1>1, LeaveKeepsCounts
  <2>2. UNCHANGED <<posted, coef, proofs, file>>
    BY <1>1 DEF Completes
  <2>3. TypeOK'
    BY <1>1, <2>1, <2>2 DEF MatchInv, TypeOK
  <2> QED
    BY <1>1, <2>1, <2>3 DEF MatchInv
<1>2. /\ tr \in [Rank -> Transcript(Item)]
      /\ chal \in [Rank -> SUBSET (Pos \X Digest(Item))]
      /\ LocksOK /\ TypeOK
  BY DEF MatchInv, TypeOK
<1>3. CASE LeaveSync(r)
  <2>1. /\ "sync" \in CollectiveOp /\ "sync" \in RootFirstOp
        /\ "sync" \in CarriesDigest
    BY DEF CollectiveOp, RootFirstOp, CarriesDigest
  <2>2. Completes(r, "sync") /\ tr' = [tr EXCEPT ![r] = SetState(tr[r], Received(r))]
        /\ chal' = chal
    BY <1>3 DEF LeaveSync
  <2>3. Received(r) \in Digest(Item)
    BY <2>1, <2>2, ReceivedFits
  <2>4. /\ SetState(tr[r], Received(r)) \in Transcript(Item)
        /\ LockOK(SetState(tr[r], Received(r)))
    BY <1>2, <2>3, SetStateType DEF LocksOK
  <2>5. tr' \in [Rank -> Transcript(Item)] /\ LocksOK'
    BY <1>2, <2>2, <2>4 DEF LocksOK
  <2> QED
    BY <1>1, <1>2, <2>1, <2>2, <2>5
<1>4. CASE LeaveChallenge(r)
  <2>1. /\ "challenge" \in CollectiveOp /\ "challenge" \in RootFirstOp
        /\ "challenge" \in CarriesDigest
    BY DEF CollectiveOp, RootFirstOp, CarriesDigest
  <2>2. Completes(r, "challenge") /\ Adopt(r, Received(r)) /\ tr' = tr
    BY <1>4 DEF LeaveChallenge
  <2>3. Received(r) \in Digest(Item) /\ Running(r)
    BY <2>1, <2>2, ReceivedFits, LeaveKeepsCounts
  <2>4. chal' \in [Rank -> SUBSET (Pos \X Digest(Item))]
    BY <1>2, <2>2, <2>3, AdoptType
  <2>5. LocksOK'
    BY <1>2, <2>2 DEF LocksOK
  <2> QED
    BY <1>1, <1>2, <2>1, <2>2, <2>4, <2>5
<1>5. CASE LeaveOther(r)
  <2>1. PICK op \in CollectiveOp : Completes(r, op)
    BY <1>5 DEF LeaveOther
  <2>2. tr' = tr /\ chal' = chal
    BY <1>5 DEF LeaveOther
  <2>3. LocksOK'
    BY <1>2, <2>2 DEF LocksOK
  <2> QED
    BY <1>1, <1>2, <2>1, <2>2, <2>3
<1> QED
  BY <1>3, <1>4, <1>5

(* Every action of a rank keeps the invariant.                             *)
LEMMA MatchStep ==
  ASSUME CollectivesOnAllRanks, MatchInv, NEW r \in Rank, Step(r)
  PROVE  MatchInv'
<1>1. /\ tr[r] \in Transcript(Item) /\ LockOK(tr[r])
      /\ chal \in [Rank -> SUBSET (Pos \X Digest(Item))]
      /\ proofs \in [Rank -> Seq(Seq(Item))]
      /\ proofs[r] \in Seq(Seq(Item))
      /\ file \in Seq(Item)
      /\ TypeOK
  BY DEF MatchInv, LocksOK, TypeOK
<1>2. CASE SkipRootOnly(r)
  <2>1. Running(r) /\ pc[r] \notin Calls(CollectiveOp)
    BY <1>2, NotCollective DEF SkipRootOnly, LocalOp
  <2> QED
    BY <1>1, <1>2, <2>1, PassKeeps DEF SkipRootOnly
<1>3. CASE New(r)
  <2>1. At(r, "new") /\ "new" \in LocalOp
    BY <1>3 DEF New, LocalOp
  <2> QED
    BY <1>1, <1>3, <2>1, NewType, LocalKeeps DEF New
<1>4. CASE AppendOp(r)
  <2>1. At(r, "append") /\ "append" \in LocalOp /\ ItemOf(r) \in Item
    BY <1>1, <1>4, RunningType DEF AppendOp, LocalOp, At
  <2> QED
    BY <1>1, <1>4, <2>1, AppendType, LocalKeeps DEF AppendOp
<1>5. CASE Commit(r)
  <2>1. At(r, "commit") /\ "commit" \in LocalOp /\ ItemOf(r) \in Item
    BY <1>1, <1>5, RunningType DEF Commit, LocalOp, At
  <2> QED
    BY <1>1, <1>5, <2>1, CommitType, LocalKeeps DEF Commit
<1>6. CASE Refresh(r)
  <2>1. At(r, "refresh") /\ "refresh" \in LocalOp
    BY <1>6 DEF Refresh, LocalOp
  <2> QED
    BY <1>1, <1>6, <2>1, RefreshType, LocalKeeps DEF Refresh
<1>7. CASE Sample(r)
  <2>1. At(r, "sample") /\ "sample" \in LocalOp /\ Running(r)
    BY <1>7 DEF Sample, LocalOp, At
  <2>2. chal' \in [Rank -> SUBSET (Pos \X Digest(Item))]
    BY <1>1, <1>7, <2>1, RefreshType, AdoptType DEF Sample
  <2> QED
    BY <1>1, <1>7, <2>1, <2>2, RefreshType, LocalKeeps DEF Sample
<1>8. CASE Fill(r)
  BY <1>8, FillKeeps
<1>9. CASE ReadCoefs(r)
  <2>1. At(r, "read") /\ "read" \in LocalOp /\ Running(r)
    BY <1>9 DEF ReadCoefs, LocalOp, At
  <2>2. pc[r] \notin Calls(CollectiveOp)
    BY <2>1, NotCollective
  <2> QED
    BY <1>1, <1>9, <2>1, <2>2, PassKeeps DEF ReadCoefs
<1>10. CASE Lock(r)
  <2>1. At(r, "lock") /\ "lock" \in LocalOp
    BY <1>10 DEF Lock, LocalOp
  <2> QED
    BY <1>1, <1>10, <2>1, LockType, LocalKeeps DEF Lock
<1>11. CASE Unlock(r)
  <2>1. At(r, "unlock") /\ "unlock" \in LocalOp /\ tr[r].proof_locked
    BY <1>11 DEF Unlock, LocalOp
  <2> QED
    BY <1>1, <1>11, <2>1, UnlockType, LocalKeeps DEF Unlock
<1>12. CASE Finish(r)
  <2>1. At(r, "finish") /\ "finish" \in LocalOp
    BY <1>12 DEF Finish, LocalOp
  <2>2. /\ FinalizeAndGetProof(tr[r]) \in Transcript(Item)
        /\ LockOK(FinalizeAndGetProof(tr[r]))
        /\ FinalizeAndGetProof(tr[r]).proof \in Seq(Item)
    BY <1>1, FinalizeType DEF Transcript
  <2>3. Append(proofs[r], FinalizeAndGetProof(tr[r]).proof) \in Seq(Seq(Item))
    BY <1>1, <2>2, AppendProperties
  <2>4. proofs' \in [Rank -> Seq(Seq(Item))]
    BY <1>1, <1>12, <2>3 DEF Finish
  <2> QED
    BY <1>1, <1>12, <2>1, <2>2, <2>4, LocalKeeps DEF Finish
<1>13. CASE Dump(r)
  <2>1. At(r, "dump") /\ "dump" \in LocalOp /\ Running(r)
    BY <1>13 DEF Dump, LocalOp, At
  <2>2. pc[r] \notin Calls(CollectiveOp)
    BY <2>1, NotCollective
  <2>3. Len(proofs[r]) \in 1 .. Len(proofs[r])
    BY <1>1, <1>13, EmptySeq, LenProperties DEF Dump
  <2>4. file' \in Seq(Item)
    BY <1>1, <1>13, <2>3, ElementOfSeq DEF Dump
  <2> QED
    BY <1>1, <1>13, <2>1, <2>2, <2>4, PassKeeps DEF Dump
<1>14. CASE Enter(r)
  BY <1>14, EnterKeeps
<1>15. CASE LeaveSync(r) \/ LeaveChallenge(r) \/ LeaveOther(r)
  BY <1>15, LeaveKeeps
<1> QED
  BY <1>2, <1>3, <1>4, <1>5, <1>6, <1>7, <1>8, <1>9, <1>10, <1>11, <1>12,
     <1>13, <1>14, <1>15 DEF Step

(* Every step keeps the invariant.                                         *)
LEMMA MatchNext ==
  ASSUME CollectivesOnAllRanks, MatchInv, [Next]_vars
  PROVE  MatchInv'
<1>1. CASE UNCHANGED vars
  BY <1>1 DEF vars, MatchInv, TypeOK, LocksOK, InsideOK, CountOK, PostedOK
<1>2. CASE \E r \in Rank : Step(r)
  BY <1>2, MatchStep
<1> QED
  BY <1>1, <1>2 DEF Next, Done

-----------------------------------------------------------------------------
(* The theorems.                                                           *)

(* The invariant holds in every state of every program in which no rank is *)
(* left out of a collective.                                               *)
THEOREM MatchInvariant ==
  ASSUME CollectivesOnAllRanks
  PROVE  Spec => []MatchInv
<1>1. Init => MatchInv
  BY MatchInit
<1>2. MatchInv /\ [Next]_vars => MatchInv'
  BY MatchNext
<1> QED
  BY <1>1, <1>2, PTL DEF Spec

(* The state stays well typed: in particular, what a rank adopts from the  *)
(* root in set_state or as a challenge always is a transcript digest, and  *)
(* never the payload of some other collective.                             *)
THEOREM TypeCorrect ==
  ASSUME CollectivesOnAllRanks
  PROVE  Spec => []TypeOK
<1>1. MatchInv => TypeOK
  BY DEF MatchInv
<1> QED
  BY <1>1, MatchInvariant, PTL

(* The n-th collective of every rank is the same call of the program.      *)
THEOREM CollectivesAlwaysMatch ==
  ASSUME CollectivesOnAllRanks
  PROVE  Spec => []CollectivesMatch
<1>1. MatchInv => CollectivesMatch
  <2> SUFFICES ASSUME MatchInv, NEW r \in Rank, NEW q \in Rank,
                      NEW n \in 1 .. Len(posted[r]), n <= Len(posted[q])
               PROVE  posted[r][n].at = posted[q][n].at
    BY DEF CollectivesMatch
  <2> DEFINE a == posted[r][n].at
             b == posted[q][n].at
  <2>1. Len(posted[q]) \in Nat /\ Len(posted[r]) \in Nat
    BY DEF MatchInv, TypeOK
  <2>2. n \in 1 .. Len(posted[q])
    BY <2>1
  <2>3. MessageFits(posted[r][n], n) /\ MessageFits(posted[q][n], n)
    BY <2>2 DEF MatchInv, PostedOK
  <2>4. /\ a \in Calls(CollectiveOp) /\ b \in Calls(CollectiveOp)
        /\ a \in Nat \ {0} /\ b \in Nat \ {0}
        /\ CollNo(a) + 1 = CollNo(b) + 1
    BY <2>3, OpType DEF MessageFits, Calls
  <2>5. CollNo(a) \in Nat /\ CollNo(b) \in Nat
    BY <2>4, CollNoNext
  <2>6. CollNo(a) = CollNo(b)
    BY <2>4, <2>5
  <2> QED
    BY <2>4, <2>6, CountInjective DEF CollNo
<1> QED
  BY <1>1, MatchInvariant, PTL

-----------------------------------------------------------------------------
(* Agreement of the ranks. A challenge is traced back to what the root     *)
(* posted: a broadcast one is posted itself, and a sampled one is the      *)
(* digest of the last sync, hashed in place as often as points were        *)
(* sampled since.  A read of the gates is placed between fills by the      *)
(* collectives before and after it.                                        *)

(* The sampling calls before p, and a digest hashed in place k times more. *)
SampleNo(p)    == Count(Calls({"sample"}), p)
Rehashed(d, k) == [absorbed |-> d.absorbed, rehash |-> d.rehash + k]

(* The root has entered the collective at p; the digest it posted there.   *)
HasPosted(p)  == CollNo(p) < Len(posted[ROOT_RANK])
RootDigest(p) == posted[ROOT_RANK][CollNo(p) + 1].digest

(* Rank r has not refreshed its digest for a collective it is still in.    *)
AtRest(r) == ~(inside[r] /\ Current(r).op \in CarriesDigest)

(* As long as only quiet calls have followed a sync, the transcript of a   *)
(* rank is the root's of that time but for the points sampled since.       *)
SyncOK ==
  \A r \in Rank : \A s \in Calls({"sync"}) :
    IsQuietSince(s, pc[r]) /\ AtRest(r) =>
      /\ HasPosted(s)
      /\ tr[r].hash_start_index = Len(tr[r].proof)
      /\ tr[r].digest = Rehashed(RootDigest(s), SampleNo(pc[r]) - SampleNo(s))

(* Where rank r's challenge d of position p comes from.                    *)
DrawOK(r, p, d) ==
  /\ p \in Calls({"sample", "fill", "challenge"}) /\ p < pc[r]
  /\ p \in Calls({"fill"}) => r = ROOT_RANK
  /\ p \in Calls({"challenge"}) => HasPosted(p) /\ d = RootDigest(p)
  /\ p \in Calls({"sample"}) =>
       \A s \in Calls({"sync"}) :
         IsQuietSince(s, p) =>
           HasPosted(s) /\ d = Rehashed(RootDigest(s), SampleNo(p) + 1 - SampleNo(s))

(* Every challenge comes from where it should, and a position has at most  *)
(* one.                                                                    *)
DrawsOK  == \A r \in Rank : \A c \in chal[r] : DrawOK(r, c[1], c[2])
DrawOnce == \A r \in Rank : \A c, d \in chal[r] : c[1] = d[1] => c[2] = d[2]

(* Nobody leaves a collective that waits for the root before the root      *)
(* entered it; the root leaves none that waits for the others before they  *)
(* entered it.                                                             *)
RootFirstOK ==
  \A r \in Rank : \A q \in Calls(RootFirstOp) : q < pc[r] => HasPosted(q)

LeavesFirstOK ==
  \A r \in Rank : \A q \in Calls(LeavesFirstOp) :
    q < pc[ROOT_RANK] => CollNo(q) < Len(posted[r])

(* A coefficient is the one of the last fill the root has passed.          *)
CoefOK == \A c \in Coefs : IsLastFill(c, coef[c], pc[ROOT_RANK])

(* The inductive invariant.                                                *)
AgreeInv == SyncOK /\ DrawsOK /\ DrawOnce /\ RootFirstOK /\ LeavesFirstOK /\ CoefOK

-----------------------------------------------------------------------------
(* The shape of a step.                                                    *)

(* Positions and the numbers of the collectives are natural numbers.       *)
LEMMA PositionType ==
  /\ \A S : Calls(S) \subseteq Nat \ {0}
  /\ \A p \in Nat \ {0} : CollNo(p) \in Nat
  /\ \A q \in Calls(RootFirstOp) \cup Calls(LeavesFirstOp) : q \in Calls(CollectiveOp)
  /\ MatchInv => \A r \in Rank : pc[r] \in Nat \ {0}
<1>1. \A S : Calls(S) \subseteq Nat \ {0}
  BY OpType DEF Calls
<1>2. \A p \in Nat \ {0} : CollNo(p) \in Nat
  BY CollNoNext
<1>3. \A q \in Calls(RootFirstOp) \cup Calls(LeavesFirstOp) : q \in Calls(CollectiveOp)
  BY DEF Calls, CollectiveOp
<1>4. ASSUME MatchInv, NEW r \in Rank
      PROVE  pc[r] \in Nat \ {0}
  <2>1. pc[r] \in 1 .. Len(Prog) + 1 /\ Len(Prog) \in Nat
    BY <1>4, OpType DEF MatchInv, TypeOK
  <2> QED
    BY <2>1
<1> QED
  BY <1>1, <1>2, <1>3, <1>4

(* Rank r passes a call that is no collective.                             *)
Walks(r) ==
  /\ (\E op \in LocalOp : At(r, op)) \/ SkipRootOnly(r)
  /\ Advance(r) /\ UNCHANGED <<inside, posted>>

(* A step walks, enters a collective or leaves one.                        *)
LEMMA StepKinds ==
  ASSUME NEW r \in Rank, Step(r)
  PROVE  Running(r) /\ (Walks(r) \/ Enter(r) \/ \E op \in CollectiveOp : Completes(r, op))
<1>1. CASE SkipRootOnly(r)
  BY <1>1 DEF SkipRootOnly, Walks
<1>2. ASSUME NEW op \in LocalOp, At(r, op), Advance(r), UNCHANGED <<inside, posted>>
      PROVE  Running(r) /\ Walks(r)
  BY <1>2 DEF At, Walks
<1>3. CASE New(r) \/ AppendOp(r) \/ Commit(r) \/ Refresh(r) \/ Sample(r)
  BY <1>2, <1>3 DEF New, AppendOp, Commit, Refresh, Sample, LocalStep, LocalOp
<1>4. CASE Fill(r) \/ ReadCoefs(r) \/ Dump(r)
  BY <1>2, <1>4 DEF Fill, ReadCoefs, Dump, LocalOp
<1>5. CASE Lock(r) \/ Unlock(r) \/ Finish(r)
  BY <1>2, <1>5 DEF Lock, Unlock, Finish, LocalStep, LocalOp
<1>6. CASE Enter(r)
  BY <1>6 DEF Enter, At
<1>7. CASE LeaveSync(r) \/ LeaveChallenge(r) \/ LeaveOther(r)
  <2>1. "sync" \in CollectiveOp /\ "challenge" \in CollectiveOp
    BY DEF CollectiveOp, RootFirstOp
  <2>2. PICK op \in CollectiveOp : Completes(r, op)
    BY <1>7, <2>1 DEF LeaveSync, LeaveChallenge, LeaveOther
  <2> QED
    BY <2>2 DEF Completes, At
<1> QED
  BY <1>1, <1>3, <1>4, <1>5, <1>6, <1>7 DEF Step

(* Positions are passed one at a time, and a collective only by leaving it.*)
LEMMA StepMoves ==
  ASSUME CollectivesOnAllRanks, MatchInv, NEW r \in Rank, Step(r)
  PROVE  /\ pc[r] \in Pos /\ pc[r] \in Nat \ {0}
         /\ pc' = pc \/ pc' = [pc EXCEPT ![r] = pc[r] + 1]
         /\ \A q \in Rank : pc[q] \in Nat \ {0}
         /\ pc' # pc /\ pc[r] \in Calls(CollectiveOp) =>
              Completes(r, Prog[pc[r]].op)
<1>1. Running(r) /\ (Walks(r) \/ Enter(r) \/ \E op \in CollectiveOp : Completes(r, op))
  BY StepKinds
<1>2. pc[r] \in Pos /\ pc[r] \in Nat \ {0} /\ \A q \in Rank : pc[q] \in Nat \ {0}
  BY <1>1, RunningType, OpType, SMTT(60) DEF MatchInv, TypeOK
<1>3. pc' = pc \/ pc' = [pc EXCEPT ![r] = pc[r] + 1]
  BY <1>1 DEF Walks, Enter, Completes, Advance
<1>4. ASSUME pc' # pc, pc[r] \in Calls(CollectiveOp)
      PROVE  Completes(r, Prog[pc[r]].op)
  <2>1. ~Walks(r)
    <3>1. CASE \E op \in LocalOp : At(r, op)
      BY <1>4, <3>1, NotCollective
    <3>2. CASE SkipRootOnly(r)
      BY <1>4, <3>2, NotCollective DEF SkipRootOnly, LocalOp
    <3> QED
      BY <3>1, <3>2 DEF Walks
  <2>2. ~Enter(r)
    BY <1>4 DEF Enter
  <2>3. PICK op \in CollectiveOp : Completes(r, op)
    BY <1>1, <2>1, <2>2
  <2> QED
    BY <2>3 DEF Completes, At, Current
<1> QED
  BY <1>2, <1>3, <1>4

(* A step of rank r is nobody else's.                                      *)
LEMMA StepIsLocal ==
  ASSUME MatchInv, NEW r \in Rank, Step(r), NEW q \in Rank, q # r
  PROVE  /\ pc'[q] = pc[q] /\ inside'[q] = inside[q]
         /\ tr'[q] = tr[q] /\ chal'[q] = chal[q]
<1>1. /\ pc \in [Rank -> 1 .. Len(Prog) + 1] /\ inside \in [Rank -> BOOLEAN]
      /\ tr \in [Rank -> Transcript(Item)]
      /\ chal \in [Rank -> SUBSET (Pos \X Digest(Item))]
  BY DEF MatchInv, TypeOK
<1>2. CASE SkipRootOnly(r) \/ New(r) \/ AppendOp(r) \/ Commit(r) \/ Refresh(r)
  BY <1>1, <1>2 DEF SkipRootOnly, New, AppendOp, Commit, Refresh, LocalStep, Advance
<1>3. CASE Sample(r) \/ Fill(r)
  BY <1>1, <1>3 DEF Sample, Fill, LocalStep, Advance, Adopt
<1>4. CASE ReadCoefs(r) \/ Dump(r) \/ Lock(r) \/ Unlock(r) \/ Finish(r)
  BY <1>1, <1>4 DEF ReadCoefs, Dump, Lock, Unlock, Finish, LocalStep, Advance
<1>5. CASE Enter(r)
  BY <1>1, <1>5 DEF Enter
<1>6. CASE LeaveSync(r) \/ LeaveChallenge(r) \/ LeaveOther(r)
  BY <1>1, <1>6 DEF LeaveSync, LeaveChallenge, LeaveOther, Completes, Advance, Adopt
<1> QED
  BY <1>2, <1>3, <1>4, <1>5, <1>6 DEF Step

(* What has been posted stays.                                             *)
LEMMA PostedGrows ==
  ASSUME MatchInv, NEW r \in Rank, Step(r), NEW q \in Rank
  PROVE  /\ Len(posted[q]) \in Nat /\ Len(posted'[q]) \in Nat
         /\ Len(posted[q]) <= Len(posted'[q])
         /\ \A n \in 1 .. Len(posted[q]) : posted'[q][n] = posted[q][n]
<1>1. posted \in [Rank -> Seq(Message)] /\ posted[q] \in Seq(Message)
      /\ Len(posted[q]) \in Nat
  BY DEF MatchInv, TypeOK
<1>2. CASE posted' = posted
  BY <1>1, <1>2
<1>3. CASE Enter(r)
  <2> DEFINE m == [op |-> Current(r).op, at |-> pc[r], digest |-> Payload(r)]
  <2>1. m \in Message
    BY <1>3, EnterFits
  <2>2. posted' = [posted EXCEPT ![r] = Append(posted[r], m)]
    BY <1>3 DEF Enter
  <2>3. CASE q = r
    <3>1. posted'[q] = Append(posted[q], m)
      BY <1>1, <2>2, <2>3
    <3> QED
      BY <1>1, <2>1, <3>1, AppendProperties
  <2>4. CASE q # r
    BY <1>1, <2>2, <2>4
  <2> QED
    BY <2>3, <2>4
<1> QED
  BY <1>2, <1>3, StepKinds DEF Walks, Completes

(* So does the root's record of a collective.                              *)
LEMMA RecordStays ==
  ASSUME MatchInv, NEW r \in Rank, Step(r),
         NEW p \in Calls(CollectiveOp), HasPosted(p)
  PROVE  HasPosted(p)' /\ RootDigest(p)' = RootDigest(p)
<1>1. CollNo(p) \in Nat
  BY OpType, CollNoNext DEF Calls
<1>2. /\ Len(posted[ROOT_RANK]) \in Nat /\ Len(posted'[ROOT_RANK]) \in Nat
      /\ Len(posted[ROOT_RANK]) <= Len(posted'[ROOT_RANK])
      /\ \A n \in 1 .. Len(posted[ROOT_RANK]) :
           posted'[ROOT_RANK][n] = posted[ROOT_RANK][n]
  BY RootIsRank, PostedGrows
<1>3. CollNo(p) + 1 \in 1 .. Len(posted[ROOT_RANK])
  BY <1>1, <1>2 DEF HasPosted
<1> QED
  BY <1>1, <1>2, <1>3 DEF HasPosted, RootDigest

-----------------------------------------------------------------------------
(* Who has to be where when a rank has passed a collective.                *)

(* A passed call that waits for the root has been entered by the root.     *)
LEMMA RootFirstStep ==
  ASSUME CollectivesOnAllRanks, MatchInv, RootFirstOK, NEW r \in Rank, Step(r)
  PROVE  RootFirstOK'
<1> SUFFICES ASSUME NEW p \in Rank, NEW q \in Calls(RootFirstOp), q < pc'[p]
             PROVE  HasPosted(q)'
  BY DEF RootFirstOK, HasPosted
<1>1. q \in Calls(CollectiveOp) /\ q \in Nat \ {0}
  BY OpType DEF Calls, CollectiveOp
<1>2. CASE q < pc[p]
  BY <1>1, <1>2, RecordStays DEF RootFirstOK
<1>3. CASE ~(q < pc[p])
  <2>1. pc' = [pc EXCEPT ![r] = pc[r] + 1] /\ pc' # pc /\ p = r /\ q = pc[r]
    BY <1>1, <1>3, StepMoves, SMTT(60) DEF MatchInv, TypeOK
  <2>2. Completes(r, Prog[q].op) /\ Prog[q].op \in RootFirstOp
    BY <1>1, <2>1, StepMoves DEF Calls
  <2>3. /\ Len(posted[r]) = CollNo(q) + 1
        /\ Len(posted[r]) \in 1 .. Len(posted[ROOT_RANK])
    BY <2>1, <2>2, ReceivedFits
  <2>4. Len(posted[ROOT_RANK]) \in Nat /\ CollNo(q) \in Nat
    BY <1>1, RootIsRank, CollNoNext DEF MatchInv, TypeOK
  <2>5. HasPosted(q)
    BY <2>3, <2>4 DEF HasPosted
  <2> QED
    BY <1>1, <2>5, RecordStays
<1> QED
  BY <1>2, <1>3

(* A passed call in which the root waits has been entered by everybody.    *)
LEMMA LeavesFirstStep ==
  ASSUME CollectivesOnAllRanks, MatchInv, LeavesFirstOK, NEW r \in Rank, Step(r)
  PROVE  LeavesFirstOK'
<1> SUFFICES ASSUME NEW p \in Rank, NEW q \in Calls(LeavesFirstOp),
                    q < pc'[ROOT_RANK]
             PROVE  CollNo(q) < Len(posted'[p])
  BY DEF LeavesFirstOK, CollNo
<1>1. q \in Calls(CollectiveOp) /\ q \in Nat \ {0} /\ CollNo(q) \in Nat
  BY OpType, CollNoNext DEF Calls, CollectiveOp
<1>2. /\ Len(posted[p]) \in Nat /\ Len(posted'[p]) \in Nat
      /\ Len(posted[p]) <= Len(posted'[p])
  BY PostedGrows
<1>3. CASE q < pc[ROOT_RANK]
  <2>1. CollNo(q) < Len(posted[p])
    BY <1>3 DEF LeavesFirstOK
  <2> QED
    BY <1>1, <1>2, <2>1
<1>4. CASE ~(q < pc[ROOT_RANK])
  <2>1. pc' = [pc EXCEPT ![r] = pc[r] + 1] /\ pc' # pc /\ r = ROOT_RANK /\ q = pc[r]
    <3>1. /\ pc \in [Rank -> 1 .. Len(Prog) + 1] /\ pc[r] \in Nat
          /\ pc[ROOT_RANK] \in Nat
      BY PositionType, RootIsRank DEF MatchInv, TypeOK
    <3>2. pc' # pc /\ pc' = [pc EXCEPT ![r] = pc[r] + 1]
      BY <1>4, StepMoves
    <3> QED
      BY <1>1, <1>4, <3>1, <3>2, RootIsRank
  <2>2. Completes(r, Prog[q].op) /\ Prog[q].op \in LeavesFirstOp
    BY <1>1, <2>1, StepMoves DEF Calls
  <2>3. Len(posted[p]) >= Len(posted[r]) /\ inside[r]
    BY <2>1, <2>2 DEF Completes, HasArrived, HasJoined
  <2>4. Len(posted[r]) = CollNo(q) + 1
    BY <1>1, <2>1, <2>3 DEF MatchInv, CountOK
  <2> QED
    BY <1>1, <1>2, <2>3, <2>4
<1> QED
  BY <1>3, <1>4

(* The root is past, or in, every call that waits for it and that some     *)
(* rank has passed.                                                        *)
LEMMA RootReached ==
  ASSUME MatchInv, RootFirstOK, NEW r \in Rank,
         NEW q \in Calls(RootFirstOp), q < pc[r]
  PROVE  q <= pc[ROOT_RANK]
<1> DEFINE o == pc[ROOT_RANK]
<1>1. /\ q \in Calls(CollectiveOp) /\ q \in Nat \ {0} /\ CollNo(q) \in Nat
      /\ o \in Nat \ {0} /\ CollNo(o) \in Nat
  BY PositionType, RootIsRank
<1>2. CollNo(q) < CollNo(o) + (IF inside[ROOT_RANK] THEN 1 ELSE 0)
  BY RootIsRank DEF RootFirstOK, HasPosted, MatchInv, CountOK
<1>3. ASSUME o < q
      PROVE  FALSE
  <2>1. CollNo(o) <= CollNo(q)
    BY <1>1, <1>3, CountMonotonic DEF CollNo
  <2>2. inside[ROOT_RANK]
    BY <1>1, <1>2, <2>1
  <2>3. o \in Calls(CollectiveOp)
    BY <2>2, RootIsRank DEF MatchInv, InsideOK
  <2>4. CollNo(o) < CollNo(q)
    BY <1>1, <1>3, <2>3, CountMonotonic DEF CollNo
  <2> QED
    BY <1>1, <1>2, <2>2, <2>4
<1> QED
  BY <1>1, <1>3

(* A rank outside collectives keeps the root out of what lies behind the   *)
(* next call in which the root waits.                                      *)
LEMMA RootHeldBack ==
  ASSUME MatchInv, LeavesFirstOK, NEW r \in Rank, ~inside[r],
         NEW q \in Calls(LeavesFirstOp), pc[r] <= q
  PROVE  pc[ROOT_RANK] <= q
<1>1. /\ q \in Nat \ {0} /\ CollNo(q) \in Nat
      /\ pc[r] \in Nat \ {0} /\ CollNo(pc[r]) \in Nat
      /\ pc[ROOT_RANK] \in Nat \ {0}
  BY PositionType, RootIsRank
<1>2. Len(posted[r]) = CollNo(pc[r])
  BY <1>1 DEF MatchInv, CountOK
<1>3. CollNo(pc[r]) <= CollNo(q)
  BY <1>1, CountMonotonic DEF CollNo
<1>4. ~(q < pc[ROOT_RANK])
  BY <1>1, <1>2, <1>3 DEF LeavesFirstOK
<1> QED
  BY <1>1, <1>4

-----------------------------------------------------------------------------
(* The coefficients.                                                       *)

(* Only a fill writes a coefficient, and the root skips none.              *)
LEMMA StepFills ==
  ASSUME NEW r \in Rank, Step(r)
  PROVE  \/ Fill(r)
         \/ /\ coef' = coef
            /\ r = ROOT_RANK /\ pc' # pc => pc[r] \notin Calls({"fill"})
<1>1. CASE SkipRootOnly(r)
  BY <1>1 DEF SkipRootOnly
<1>2. CASE New(r) \/ AppendOp(r) \/ Commit(r) \/ Refresh(r) \/ Sample(r)
  BY <1>2 DEF New, AppendOp, Commit, Refresh, Sample, LocalStep, At, Current, Calls
<1>3. CASE ReadCoefs(r) \/ Dump(r) \/ Lock(r) \/ Unlock(r) \/ Finish(r)
  BY <1>3 DEF ReadCoefs, Dump, Lock, Unlock, Finish, LocalStep, At, Current, Calls
<1>4. CASE Enter(r)
  BY <1>4 DEF Enter
<1>5. ASSUME NEW op \in CollectiveOp, Completes(r, op)
      PROVE  coef' = coef /\ pc[r] \notin Calls({"fill"})
  BY <1>5 DEF Completes, At, Current, Calls, CollectiveOp, RootFirstOp, LeavesFirstOp
<1>6. CASE LeaveSync(r) \/ LeaveChallenge(r) \/ LeaveOther(r)
  <2>1. "sync" \in CollectiveOp /\ "challenge" \in CollectiveOp
    BY DEF CollectiveOp, RootFirstOp
  <2> QED
    BY <1>5, <1>6, <2>1 DEF LeaveSync, LeaveChallenge, LeaveOther
<1> QED
  BY <1>1, <1>2, <1>3, <1>4, <1>6 DEF Step

(* The shared memory holds the last fills the root has passed.             *)
LEMMA CoefStep ==
  ASSUME Disciplined, MatchInv, CoefOK, NEW r \in Rank, Step(r)
  PROVE  CoefOK'
<1> SUFFICES ASSUME NEW c \in Coefs
             PROVE  IsLastFill(c, coef'[c], pc'[ROOT_RANK])
  BY DEF CoefOK, Coefs
<1>1. /\ pc[r] \in Nat \ {0} /\ pc[ROOT_RANK] \in Nat \ {0}
      /\ pc \in [Rank -> 1 .. Len(Prog) + 1] /\ coef \in [Coefs -> 0 .. Len(Prog)]
      /\ pc' = pc \/ pc' = [pc EXCEPT ![r] = pc[r] + 1]
      /\ Fills(c) \subseteq Nat \ {0}
  BY StepMoves, RootIsRank, OpType DEF Disciplined, MatchInv, TypeOK, Fills, Calls
<1>2. IsLastFill(c, coef[c], pc[ROOT_RANK]) /\ coef[c] \in Nat
  BY <1>1, OpType DEF CoefOK
<1>3. CASE Fill(r)
  <2>1. /\ pc[r] \in Calls({"fill"}) /\ pc' = [pc EXCEPT ![r] = pc[r] + 1]
        /\ coef' = [coef EXCEPT ![Prog[pc[r]].arg] = pc[r]]
    BY <1>3, StepMoves DEF Disciplined, Fill, At, Current, Calls, Advance
  <2>2. r = ROOT_RANK
    BY <1>3, <2>1 DEF Disciplined, FillsOnRoot, Fill, At, Current
  <2>3. CASE Prog[pc[r]].arg = c
    <3>1. coef'[c] = pc[r] /\ pc[r] \in Fills(c) /\ pc'[ROOT_RANK] = pc[r] + 1
      BY <1>1, <2>1, <2>2, <2>3 DEF Fills
    <3> QED
      BY <1>1, <3>1 DEF IsLastFill
  <2>4. CASE Prog[pc[r]].arg # c
    <3>1. coef'[c] = coef[c] /\ pc[r] \notin Fills(c) /\ pc'[ROOT_RANK] = pc[r] + 1
      BY <1>1, <2>1, <2>2, <2>4 DEF Fills
    <3> QED
      BY <1>1, <1>2, <2>2, <3>1 DEF IsLastFill
  <2> QED
    BY <2>3, <2>4
<1>4. CASE ~Fill(r)
  <2>1. coef' = coef /\ (r = ROOT_RANK /\ pc' # pc => pc[r] \notin Fills(c))
    BY <1>4, StepFills DEF Fills
  <2>2. CASE pc'[ROOT_RANK] = pc[ROOT_RANK]
    BY <1>2, <2>1, <2>2
  <2>3. CASE pc'[ROOT_RANK] # pc[ROOT_RANK]
    <3>1. r = ROOT_RANK /\ pc'[ROOT_RANK] = pc[ROOT_RANK] + 1 /\ pc[r] \notin Fills(c)
      BY <1>1, <2>1, <2>3, RootIsRank
    <3> QED
      BY <1>1, <1>2, <2>1, <3>1 DEF IsLastFill
  <2> QED
    BY <2>2, <2>3
<1> QED
  BY <1>3, <1>4

-----------------------------------------------------------------------------
(* The challenges.                                                         *)

(* The samples are counted like the collectives.                           *)
LEMMA SampleNoNext ==
  ASSUME NEW p \in Nat \ {0}
  PROVE  /\ SampleNo(p) \in Nat
         /\ p \in Calls({"sample"}) => SampleNo(p + 1) = SampleNo(p) + 1
         /\ p \notin Calls({"sample"}) => SampleNo(p + 1) = SampleNo(p)
BY CountNext, CountType DEF SampleNo

(* A quiet stretch grows by quiet calls, starting at its sync.             *)
LEMMA QuietNext ==
  ASSUME NEW s \in Nat, NEW p \in Nat, IsQuietSince(s, p + 1)
  PROVE  s = p \/ (IsQuietSince(s, p) /\ Prog[p].op \in QuietOp)
BY DEF IsQuietSince

(* Counting no further point and one further point.                        *)
LEMMA RehashedNext ==
  ASSUME NEW d \in Digest(Item), NEW k \in Int
  PROVE  /\ Rehashed(d, 0) = d
         /\ HashInplace(Rehashed(d, k)) = Rehashed(d, k + 1)
<1>1. d = [absorbed |-> d.absorbed, rehash |-> d.rehash] /\ d.rehash \in Nat
  BY DEF Digest
<1>2. Rehashed(d, 0) = d
  <2>1. d.rehash + 0 = d.rehash
    BY <1>1
  <2> QED
    BY <1>1, <2>1, Zenon DEF Rehashed
<1>3. HashInplace(Rehashed(d, k)) = Rehashed(d, k + 1)
  <2>1. (d.rehash + k) + 1 = d.rehash + (k + 1)
    BY <1>1
  <2>2. HashInplace(Rehashed(d, k)) =
          [absorbed |-> d.absorbed, rehash |-> (d.rehash + k) + 1]
    BY DEF Rehashed, HashInplace
  <2> QED
    BY <2>1, <2>2 DEF Rehashed
<1> QED
  BY <1>2, <1>3

(* The root's record of a sync or a challenge is a digest.                 *)
LEMMA RecordType ==
  ASSUME MatchInv, NEW p \in Calls(CarriesDigest), HasPosted(p)
  PROVE  RootDigest(p) \in Digest(Item)
<1> DEFINE n == CollNo(p) + 1
           m == posted[ROOT_RANK][n]
<1>1. /\ p \in Calls(CollectiveOp) /\ p \in Nat \ {0} /\ CollNo(p) \in Nat
      /\ Prog[p].op \in CarriesDigest
  BY PositionType DEF Calls, CarriesDigest, CollectiveOp, RootFirstOp
<1>2. n \in 1 .. Len(posted[ROOT_RANK])
  BY <1>1, RootIsRank DEF HasPosted, MatchInv, TypeOK
<1>3. MessageFits(m, n)
  BY <1>2, RootIsRank DEF MatchInv, PostedOK
<1>4. m.at = p
  <2>1. m.at \in Calls(CollectiveOp) /\ m.at \in Nat \ {0} /\ CollNo(m.at) \in Nat
    BY <1>3, PositionType DEF MessageFits
  <2>2. CollNo(m.at) = CollNo(p)
    BY <1>1, <1>3, <2>1 DEF MessageFits
  <2> QED
    BY <1>1, <2>1, <2>2, CountInjective DEF CollNo
<1> QED
  BY <1>1, <1>3, <1>4 DEF MessageFits, RootDigest

(* What a rank receives is the root's record of the call it is in.         *)
LEMMA ReceivedIsRecord ==
  ASSUME MatchInv, NEW r \in Rank, NEW op \in CarriesDigest, Completes(r, op)
  PROVE  /\ pc[r] \in Calls({op}) /\ HasPosted(pc[r])
         /\ Received(r) = RootDigest(pc[r])
         /\ Received(r) \in Digest(Item)
<1>1. op \in RootFirstOp /\ op \in CollectiveOp
  BY DEF CarriesDigest, RootFirstOp, CollectiveOp
<1>2. /\ Len(posted[r]) = CollNo(pc[r]) + 1
      /\ Len(posted[r]) \in 1 .. Len(posted[ROOT_RANK])
      /\ Received(r) \in Digest(Item)
  BY <1>1, ReceivedFits
<1>3. pc[r] \in Calls({op})
  BY <1>1, LeaveKeepsCounts DEF Completes, At, Current, Calls
<1>4. CollNo(pc[r]) \in Nat /\ Len(posted[ROOT_RANK]) \in Nat
  BY PositionType, RootIsRank DEF MatchInv, TypeOK
<1> QED
  BY <1>2, <1>3, <1>4 DEF HasPosted, RootDigest, Received

(* The quiet calls other than sampling leave the digest alone.             *)
LEMMA StepAtQuiet ==
  ASSUME MatchInv, NEW r \in Rank, Step(r), Current(r).op \in QuietOp \ {"sample"}
  PROVE  /\ tr'[r].digest = tr[r].digest
         /\ tr'[r].proof = tr[r].proof
         /\ tr'[r].hash_start_index = tr[r].hash_start_index
<1>1. tr \in [Rank -> Transcript(Item)] /\ tr[r] \in Transcript(Item)
  BY DEF MatchInv, TypeOK
<1>2. CASE SkipRootOnly(r) \/ ReadCoefs(r) \/ Dump(r) \/ LeaveOther(r)
  BY <1>2 DEF SkipRootOnly, ReadCoefs, Dump, LeaveOther
<1>3. CASE Lock(r)
  BY <1>1, <1>3 DEF Lock, LocalStep, LockProof, Transcript
<1>4. CASE New(r) \/ AppendOp(r) \/ Commit(r) \/ Refresh(r) \/ Sample(r) \/ Fill(r)
           \/ Unlock(r) \/ Finish(r)
  BY <1>4 DEF New, AppendOp, Commit, Refresh, Sample, Fill, Unlock, Finish, At, QuietOp
<1>5. CASE Enter(r)
  BY <1>5 DEF Enter, QuietOp
<1>6. CASE LeaveSync(r) \/ LeaveChallenge(r)
  BY <1>6 DEF LeaveSync, LeaveChallenge, Completes, At, QuietOp
<1> QED
  BY <1>2, <1>3, <1>4, <1>5, <1>6 DEF Step

(* A sync is left by adopting the root's state; a point for everybody is   *)
(* sampled by everybody.                                                   *)
LEMMA StepAtSync ==
  ASSUME NEW r \in Rank, Step(r), pc' # pc, Current(r).who = "all"
  PROVE  /\ Current(r).op = "sync" => LeaveSync(r)
         /\ Current(r).op = "sample" => Sample(r)
<1>1. CASE SkipRootOnly(r) \/ Enter(r)
  BY <1>1 DEF SkipRootOnly, Enter
<1>2. CASE New(r) \/ AppendOp(r) \/ Commit(r) \/ Refresh(r) \/ Fill(r) \/ ReadCoefs(r)
           \/ Lock(r) \/ Unlock(r) \/ Finish(r) \/ Dump(r)
  BY <1>2 DEF New, AppendOp, Commit, Refresh, Fill, ReadCoefs, Lock, Unlock, Finish,
              Dump, At
<1>3. CASE LeaveChallenge(r) \/ LeaveOther(r)
  BY <1>3 DEF LeaveChallenge, LeaveOther, Completes, At, CollectiveOp, RootFirstOp,
              LeavesFirstOp
<1>4. CASE Sample(r) \/ LeaveSync(r)
  BY <1>4 DEF Sample, LeaveSync, Completes, At
<1> QED
  BY <1>1, <1>2, <1>3, <1>4 DEF Step

(* A rank's transcript stays tied to the last sync.                        *)
LEMMA SyncStep ==
  ASSUME Disciplined, MatchInv, SyncOK, NEW r \in Rank, Step(r)
  PROVE  SyncOK'
<1> DEFINE Tied(q, s) ==
      /\ HasPosted(s)
      /\ tr[q].hash_start_index = Len(tr[q].proof)
      /\ tr[q].digest = Rehashed(RootDigest(s), SampleNo(pc[q]) - SampleNo(s))
<1> SUFFICES ASSUME NEW q \in Rank, NEW s \in Calls({"sync"}),
                    IsQuietSince(s, pc'[q]), AtRest(q)'
             PROVE  Tied(q, s)'
  BY DEF SyncOK, HasPosted, RootDigest, IsQuietSince, SampleNo
<1>1. /\ s \in Calls(CollectiveOp) /\ s \in Calls(CarriesDigest)
      /\ s \in Nat \ {0} /\ SampleNo(s) \in Nat
      /\ pc \in [Rank -> 1 .. Len(Prog) + 1]
      /\ tr \in [Rank -> Transcript(Item)] /\ tr[q] \in Transcript(Item)
      /\ pc[q] \in Nat \ {0} /\ SampleNo(pc[q]) \in Nat
      /\ CollectivesOnAllRanks
  BY PositionType, SampleNoNext
     DEF Calls, CollectiveOp, RootFirstOp, CarriesDigest, MatchInv, TypeOK, Disciplined
<1>2. ASSUME HasPosted(s)
      PROVE  HasPosted(s)' /\ RootDigest(s)' = RootDigest(s)
  BY <1>1, <1>2, RecordStays
<1>3. CASE q # r
  <2>1. pc'[q] = pc[q] /\ inside'[q] = inside[q] /\ tr'[q] = tr[q]
    BY <1>3, StepIsLocal
  <2>2. Tied(q, s)
    BY <2>1 DEF SyncOK, AtRest, Current
  <2> QED
    BY <1>2, <2>1, <2>2
<1>4. CASE q = r /\ pc' = pc
  <2>1. Enter(r)
    BY <1>1, <1>4, StepKinds DEF Walks, Completes, Advance
  <2>2. ~inside[r] /\ Current(r).op \notin CarriesDigest /\ tr' = tr
    BY <1>4, <2>1 DEF Enter, AtRest, Current, CarriesDigest, MatchInv, TypeOK
  <2>3. Tied(q, s)
    BY <1>4, <2>2 DEF SyncOK, AtRest
  <2> QED
    BY <1>2, <1>4, <2>2, <2>3
<1>5. CASE q = r /\ pc' # pc
  <2> DEFINE p == pc[r]
  <2>1. pc' = [pc EXCEPT ![r] = p + 1] /\ pc'[q] = p + 1 /\ p \in Pos
        /\ p \in Nat \ {0} /\ SampleNo(p) \in Nat
    BY <1>1, <1>5, StepMoves
  <2>2. s = p \/ (IsQuietSince(s, p) /\ Prog[p].op \in QuietOp)
    BY <1>1, <2>1, QuietNext
  <2>3. CASE s = p
    <3>1. Current(r).op = "sync" /\ Current(r).who = "all"
      BY <1>1, <2>3 DEF Current, Calls, CollectivesOnAllRanks
    <3>2. LeaveSync(r)
      BY <1>5, <3>1, StepAtSync
    <3>3. /\ HasPosted(s)
          /\ Received(r) = RootDigest(s) /\ Received(r) \in Digest(Item)
      BY <2>3, <3>2, ReceivedIsRecord DEF LeaveSync, CarriesDigest
    <3>4. tr'[r] = SetState(tr[r], Received(r))
      BY <1>1, <3>2 DEF LeaveSync
    <3>5. /\ tr'[r].hash_start_index = Len(tr'[r].proof)
          /\ tr'[r].digest = RootDigest(s)
      BY <1>1, <1>5, <3>3, <3>4 DEF SetState, Transcript
    <3>6. SampleNo(p + 1) - SampleNo(s) = 0
      <4>1. p \notin Calls({"sample"})
        BY <3>1 DEF Current, Calls
      <4> QED
        BY <2>1, <2>3, <4>1, SampleNoNext
    <3>7. Rehashed(RootDigest(s), 0) = RootDigest(s)
      BY <3>3, RehashedNext
    <3> QED
      BY <1>2, <1>5, <2>1, <3>3, <3>5, <3>6, <3>7
  <2>4. CASE IsQuietSince(s, p) /\ Prog[p].op \in QuietOp
    <3>1. Tied(r, s)
      BY <1>5, <2>4 DEF SyncOK, AtRest, Current, CarriesDigest, QuietOp
    <3>2. RootDigest(s) \in Digest(Item)
      BY <1>1, <3>1, RecordType
    <3>3. CASE Prog[p].op = "sample"
      <4>1. p \in Calls({"sample"})
        BY <2>1, <3>3 DEF Calls
      <4>2. Sample(r)
        BY <1>5, <3>3, <4>1, StepAtSync DEF Disciplined, IsSynced, Current
      <4>3. tr'[r] = RefreshDigest(tr[r])
        BY <1>1, <4>2 DEF Sample, LocalStep
      <4>4. /\ tr'[r].hash_start_index = Len(tr'[r].proof)
            /\ tr'[r].digest = RefreshedDigest(tr[r])
        BY <1>1, <1>5, <4>3 DEF RefreshDigest, Transcript
      <4>5. RefreshedDigest(tr[r]) = HashInplace(tr[r].digest)
        BY <1>1, <1>5, <3>1 DEF RefreshedDigest, Transcript
      <4>6. tr'[r].digest = Rehashed(RootDigest(s), (SampleNo(p) - SampleNo(s)) + 1)
        BY <1>1, <2>1, <3>1, <3>2, <4>4, <4>5, RehashedNext
      <4>7. SampleNo(p + 1) - SampleNo(s) = (SampleNo(p) - SampleNo(s)) + 1
        BY <1>1, <2>1, <4>1, SampleNoNext
      <4> QED
        BY <1>2, <1>5, <2>1, <3>1, <4>4, <4>6, <4>7
    <3>4. CASE Prog[p].op # "sample"
      <4>1. /\ tr'[r].digest = tr[r].digest /\ tr'[r].proof = tr[r].proof
            /\ tr'[r].hash_start_index = tr[r].hash_start_index
        BY <2>4, <3>4, StepAtQuiet DEF Current
      <4>2. SampleNo(p + 1) = SampleNo(p)
        BY <2>1, <3>4, SampleNoNext DEF Calls
      <4> QED
        BY <1>2, <1>5, <2>1, <3>1, <4>1, <4>2
    <3> QED
      BY <3>3, <3>4
  <2> QED
    BY <2>2, <2>3, <2>4
<1> QED
  BY <1>3, <1>4, <1>5

(* A rank draws at most one challenge in a step, at its own position.      *)
LEMMA StepDraws ==
  ASSUME NEW r \in Rank, Step(r)
  PROVE  \/ chal' = chal
         \/ Sample(r) /\ Adopt(r, RefreshedDigest(tr[r]))
         \/ Fill(r) /\ Adopt(r, RefreshedDigest(tr[r]))
         \/ LeaveChallenge(r) /\ Adopt(r, Received(r))
<1>1. CASE SkipRootOnly(r) \/ New(r) \/ AppendOp(r) \/ Commit(r) \/ Refresh(r)
  BY <1>1 DEF SkipRootOnly, New, AppendOp, Commit, Refresh
<1>2. CASE ReadCoefs(r) \/ Lock(r) \/ Unlock(r) \/ Finish(r) \/ Dump(r) \/ Enter(r)
  BY <1>2 DEF ReadCoefs, Lock, Unlock, Finish, Dump, Enter
<1>3. CASE LeaveSync(r) \/ LeaveOther(r)
  BY <1>3 DEF LeaveSync, LeaveOther
<1>4. CASE Sample(r) \/ Fill(r) \/ LeaveChallenge(r)
  BY <1>4 DEF Sample, Fill, LeaveChallenge
<1> QED
  BY <1>1, <1>2, <1>3, <1>4 DEF Step

(* A challenge drawn in a step comes from what the root posted.            *)
LEMMA NewDrawOK ==
  ASSUME Disciplined, MatchInv, SyncOK, NEW r \in Rank, Step(r),
         NEW p, p = pc[r], NEW d,
         \/ Sample(r) /\ d = RefreshedDigest(tr[r])
         \/ Fill(r)
         \/ LeaveChallenge(r) /\ d = Received(r)
  PROVE  /\ pc' = [pc EXCEPT ![r] = p + 1]
         /\ DrawOK(r, p, d)'
<1>1. /\ p \in Pos /\ p \in Nat \ {0} /\ pc \in [Rank -> 1 .. Len(Prog) + 1]
      /\ tr[r] \in Transcript(Item)
      /\ chal \in [Rank -> SUBSET (Pos \X Digest(Item))]
  BY StepMoves DEF MatchInv, TypeOK, Disciplined
<1>2. CASE Sample(r) /\ d = RefreshedDigest(tr[r])
  <2>1. pc' = [pc EXCEPT ![r] = p + 1] /\ pc'[r] = p + 1
    BY <1>1, <1>2 DEF Sample, LocalStep, Advance
  <2>2. p \in Calls({"sample"}) /\ Prog[p].op = "sample"
    BY <1>1, <1>2 DEF Sample, At, Current, Calls
  <2>3. ASSUME NEW s \in Calls({"sync"}), IsQuietSince(s, p)
        PROVE  /\ HasPosted(s)'
               /\ d = Rehashed(RootDigest(s)', SampleNo(p) + 1 - SampleNo(s))
    <3>1. /\ s \in Calls(CollectiveOp) /\ s \in Calls(CarriesDigest)
          /\ s \in Nat \ {0} /\ SampleNo(s) \in Nat /\ SampleNo(p) \in Nat
      BY <1>1, PositionType, SampleNoNext
         DEF Calls, CollectiveOp, RootFirstOp, CarriesDigest
    <3>2. /\ HasPosted(s)
          /\ tr[r].hash_start_index = Len(tr[r].proof)
          /\ tr[r].digest = Rehashed(RootDigest(s), SampleNo(p) - SampleNo(s))
      BY <2>2, <2>3 DEF SyncOK, AtRest, Current, CarriesDigest
    <3>3. RootDigest(s) \in Digest(Item)
      BY <3>1, <3>2, RecordType
    <3>4. d = HashInplace(tr[r].digest)
      BY <1>1, <1>2, <3>2 DEF RefreshedDigest, Transcript
    <3>5. d = Rehashed(RootDigest(s), (SampleNo(p) - SampleNo(s)) + 1)
      BY <3>1, <3>2, <3>3, <3>4, RehashedNext
    <3>6. (SampleNo(p) - SampleNo(s)) + 1 = SampleNo(p) + 1 - SampleNo(s)
      BY <3>1
    <3> QED
      BY <3>1, <3>2, <3>5, <3>6, RecordStays
  <2>4. p \notin Calls({"fill"}) /\ p \notin Calls({"challenge"})
        /\ p \in Calls({"sample", "fill", "challenge"})
    BY <2>2 DEF Calls
  <2> QED
    BY <1>1, <2>1, <2>2, <2>3, <2>4 DEF DrawOK, SampleNo, IsQuietSince
<1>3. CASE Fill(r)
  <2>1. pc' = [pc EXCEPT ![r] = p + 1] /\ pc'[r] = p + 1
    BY <1>1, <1>3 DEF Fill, Advance
  <2>2. p \in Calls({"fill"}) /\ Prog[p].op = "fill"
    BY <1>1, <1>3 DEF Fill, At, Current, Calls
  <2>3. r = ROOT_RANK
    BY <1>3, <2>2 DEF Fill, At, Current, Disciplined, FillsOnRoot
  <2>4. p \notin Calls({"sample"}) /\ p \notin Calls({"challenge"})
        /\ p \in Calls({"sample", "fill", "challenge"})
    BY <2>2 DEF Calls
  <2> QED
    BY <1>1, <2>1, <2>3, <2>4 DEF DrawOK
<1>4. CASE LeaveChallenge(r) /\ d = Received(r)
  <2>1. pc' = [pc EXCEPT ![r] = p + 1] /\ pc'[r] = p + 1
    BY <1>1, <1>4 DEF LeaveChallenge, Completes, Advance
  <2>2. /\ p \in Calls({"challenge"}) /\ Prog[p].op = "challenge"
        /\ HasPosted(p) /\ d = RootDigest(p)
    BY <1>4, ReceivedIsRecord DEF LeaveChallenge, CarriesDigest, Calls
  <2>3. HasPosted(p)' /\ RootDigest(p)' = RootDigest(p)
    <3>1. p \in Calls(CollectiveOp)
      BY <2>2 DEF Calls, CollectiveOp, RootFirstOp
    <3> QED
      BY <2>2, <3>1, RecordStays DEF HasPosted, RootDigest
  <2>4. p \notin Calls({"sample"}) /\ p \notin Calls({"fill"})
        /\ p \in Calls({"sample", "fill", "challenge"})
    BY <2>2 DEF Calls
  <2> QED
    BY <1>1, <2>1, <2>2, <2>3, <2>4 DEF DrawOK, HasPosted, RootDigest
<1> QED
  BY <1>2, <1>3, <1>4

(* What is known of a challenge stays true.                                *)
LEMMA OldDrawOK ==
  ASSUME Disciplined, MatchInv, NEW r \in Rank, Step(r),
         NEW q \in Rank, NEW p, NEW d, DrawOK(q, p, d)
  PROVE  DrawOK(q, p, d)'
<1>1. /\ Calls({"sync"}) \subseteq Calls(CollectiveOp)
      /\ Calls({"challenge"}) \subseteq Calls(CollectiveOp)
      /\ pc \in [Rank -> 1 .. Len(Prog) + 1]
      /\ pc[r] \in Nat /\ pc[q] \in Nat
      /\ CollectivesOnAllRanks
  BY PositionType DEF Calls, CollectiveOp, RootFirstOp, MatchInv, TypeOK, Disciplined
<1>2. p \in Nat /\ p < pc'[q]
  <2>1. p \in Nat /\ p < pc[q]
    BY PositionType DEF DrawOK
  <2> QED
    BY <1>1, <2>1, StepMoves
<1>3. ASSUME p \in Calls({"challenge"})
      PROVE  HasPosted(p)' /\ d = RootDigest(p)'
  BY <1>1, <1>3, RecordStays DEF DrawOK
<1>4. ASSUME p \in Calls({"sample"}), NEW s \in Calls({"sync"}), IsQuietSince(s, p)
      PROVE  HasPosted(s)' /\ d = Rehashed(RootDigest(s)', SampleNo(p) + 1 - SampleNo(s))
  BY <1>1, <1>4, RecordStays DEF DrawOK
<1> QED
  BY <1>2, <1>3, <1>4 DEF DrawOK, SampleNo, IsQuietSince

(* Every challenge comes from the root's record.                           *)
LEMMA DrawsStep ==
  ASSUME Disciplined, MatchInv, SyncOK, DrawsOK, DrawOnce, NEW r \in Rank, Step(r)
  PROVE  DrawsOK' /\ DrawOnce'
<1>1. chal \in [Rank -> SUBSET (Pos \X Digest(Item))] /\ pc[r] \in Nat
  BY PositionType DEF MatchInv, TypeOK
<1>2. CASE chal' = chal
  BY <1>2, OldDrawOK DEF DrawsOK, DrawOnce
<1>3. ASSUME NEW d, Adopt(r, d),
             \/ Sample(r) /\ d = RefreshedDigest(tr[r])
             \/ Fill(r)
             \/ LeaveChallenge(r) /\ d = Received(r)
      PROVE  DrawsOK' /\ DrawOnce'
  <2> DEFINE c == <<pc[r], d>>
  <2>1. chal'[r] = chal[r] \cup {c} /\ \A q \in Rank : q # r => chal'[q] = chal[q]
    BY <1>1, <1>3 DEF Adopt
  <2>2. c[1] = pc[r] /\ c[2] = d
    OBVIOUS
  <2>3. ASSUME NEW q \in Rank, NEW e \in chal'[q]
        PROVE  DrawOK(q, e[1], e[2])'
    <3>1. CASE e \in chal[q]
      BY <3>1, OldDrawOK DEF DrawsOK
    <3>2. CASE e \notin chal[q]
      <4>1. q = r /\ e[1] = pc[r] /\ e[2] = d
        BY <2>1, <2>2, <2>3, <3>2
      <4> QED
        BY <1>3, <4>1, NewDrawOK
    <3> QED
      BY <3>1, <3>2
  <2>4. ASSUME NEW e \in chal[r]
        PROVE  e[1] # pc[r]
    BY <1>1, <2>4, PositionType DEF DrawsOK, DrawOK
  <2>5. DrawsOK'
    BY <2>3 DEF DrawsOK
  <2>6. DrawOnce'
    <3> SUFFICES ASSUME NEW q \in Rank, NEW e \in chal'[q], NEW f \in chal'[q],
                        e[1] = f[1]
                 PROVE  e[2] = f[2]
      BY DEF DrawOnce
    <3>1. CASE e \in chal[q] /\ f \in chal[q]
      BY <3>1 DEF DrawOnce
    <3>2. CASE ~(e \in chal[q] /\ f \in chal[q])
      BY <2>1, <2>2, <2>4, <3>2
    <3> QED
      BY <3>1, <3>2
  <2> QED
    BY <2>5, <2>6
<1> QED
  BY <1>2, <1>3, StepDraws

-----------------------------------------------------------------------------
(* The inductive invariant and the theorems.                               *)

(* It holds when nothing is posted, drawn or filled.                       *)
LEMMA AgreeInit == Init => AgreeInv
<1> SUFFICES ASSUME Init PROVE AgreeInv
  OBVIOUS
<1>1. \A r \in Rank : pc[r] = 1 /\ chal[r] = {}
  BY DEF Init
<1>2. ROOT_RANK \in Rank /\ \A S : Calls(S) \subseteq Nat \ {0}
  BY RootIsRank, PositionType
<1>3. \A s \in Nat \ {0} : ~(s < 1)
  OBVIOUS
<1>4. SyncOK /\ RootFirstOK /\ LeavesFirstOK
  BY <1>1, <1>2, <1>3 DEF SyncOK, RootFirstOK, LeavesFirstOK, IsQuietSince
<1>5. DrawsOK /\ DrawOnce
  BY <1>1 DEF DrawsOK, DrawOnce
<1>6. CoefOK
  <2>1. \A c \in Coefs : coef[c] = 0 /\ Fills(c) \subseteq Nat \ {0}
    BY <1>2 DEF Init, Fills
  <2> QED
    BY <1>1, <1>2, <2>1 DEF CoefOK, IsLastFill
<1> QED
  BY <1>4, <1>5, <1>6 DEF AgreeInv

(* Every step keeps the invariant.                                         *)
LEMMA AgreeNext ==
  ASSUME Disciplined, MatchInv, AgreeInv, [Next]_vars
  PROVE  AgreeInv'
<1>1. CASE UNCHANGED vars
  BY <1>1 DEF vars, AgreeInv, SyncOK, DrawsOK, DrawOnce, RootFirstOK, LeavesFirstOK,
              CoefOK, DrawOK, HasPosted, RootDigest, AtRest, Current, IsQuietSince,
              SampleNo, CollNo, Coefs, IsLastFill
<1>2. ASSUME NEW r \in Rank, Step(r)
      PROVE  AgreeInv'
  <2>1. SyncOK'
    BY <1>2, SyncStep DEF AgreeInv
  <2>2. DrawsOK' /\ DrawOnce'
    BY <1>2, DrawsStep DEF AgreeInv
  <2>3. RootFirstOK' /\ LeavesFirstOK'
    BY <1>2, RootFirstStep, LeavesFirstStep DEF AgreeInv, Disciplined
  <2>4. CoefOK'
    BY <1>2, CoefStep DEF AgreeInv
  <2> QED
    BY <2>1, <2>2, <2>3, <2>4 DEF AgreeInv
<1> QED
  BY <1>1, <1>2 DEF Next, Done

(* The invariant that everything below follows from.                       *)
THEOREM AgreeInvariant ==
  ASSUME Disciplined
  PROVE  Spec => [](MatchInv /\ AgreeInv)
<1>1. Init => MatchInv /\ AgreeInv
  BY MatchInit, AgreeInit
<1>2. MatchInv /\ AgreeInv /\ [Next]_vars => (MatchInv /\ AgreeInv)'
  BY MatchNext, AgreeNext DEF Disciplined
<1> QED
  BY <1>1, <1>2, PTL DEF Spec

(* Two ranks that use a challenge of the same place use the same one.      *)
LEMMA Agreement ==
  ASSUME Disciplined, MatchInv, AgreeInv
  PROVE  ChallengeAgreement
<1> SUFFICES ASSUME NEW r \in Rank, NEW q \in Rank,
                    NEW c \in chal[r], NEW d \in chal[q], c[1] = d[1]
             PROVE  c[2] = d[2]
  BY DEF ChallengeAgreement
<1> DEFINE p == c[1]
<1>1. DrawOK(r, p, c[2]) /\ DrawOK(q, p, d[2])
  BY DEF AgreeInv, DrawsOK
<1>2. CASE r = q
  BY <1>2 DEF AgreeInv, DrawOnce
<1>3. CASE r # q
  <2>1. CASE p \in Calls({"fill"})
    BY <1>1, <1>3, <2>1 DEF DrawOK
  <2>2. CASE p \in Calls({"challenge"})
    BY <1>1, <2>2 DEF DrawOK
  <2>3. CASE p \in Calls({"sample"})
    <3>1. WorldSize # 1
      BY <1>3, WorldAssumption DEF Rank
    <3>2. PICK s \in Calls({"sync"}) : IsQuietSince(s, p)
      BY <2>3, <3>1 DEF Disciplined, IsSynced
    <3> QED
      BY <1>1, <2>3, <3>2 DEF DrawOK
  <2> QED
    BY <1>1, <2>1, <2>2, <2>3 DEF DrawOK, Calls
<1> QED
  BY <1>2, <1>3

(* All ranks fold, combine and query with the same challenges.             *)
THEOREM ChallengesAgree ==
  ASSUME Disciplined
  PROVE  Spec => []ChallengeAgreement
<1>1. MatchInv /\ AgreeInv => ChallengeAgreement
  BY Agreement
<1> QED
  BY <1>1, AgreeInvariant, PTL

(* A rank in evaluate, or in the preparation of a layer, finds exactly the *)
(* coefficients that were filled for the proof it is working on.           *)
THEOREM CoefReadsAlwaysCurrent ==
  ASSUME Disciplined
  PROVE  Spec => []CoefReadsCurrent
<1>1. ASSUME MatchInv, AgreeInv
      PROVE  CoefReadsCurrent
  <2> SUFFICES ASSUME NEW r \in Rank, At(r, "read"), NEW c \in Coefs
               PROVE  IsLastFill(c, coef[c], pc[r])
    BY DEF CoefReadsCurrent
  <2> DEFINE p == pc[r]
             o == pc[ROOT_RANK]
  <2>1. /\ p \in Nat \ {0} /\ o \in Nat \ {0} /\ p \in Pos
        /\ Fills(c) \subseteq Calls({"fill"})
        /\ \A S : Calls(S) \subseteq Nat \ {0}
    BY <1>1, PositionType, RootIsRank, RunningType DEF MatchInv, At, Fills
  <2>2. p \in Calls({"read"}) /\ p \notin Calls({"fill"})
    BY <2>1 DEF At, Current, Calls
  <2>3. ~inside[r]
    BY <1>1, <2>2 DEF MatchInv, InsideOK, Calls, CollectiveOp, RootFirstOp, LeavesFirstOp
  <2>4. IsLastFill(c, coef[c], o)
    BY <1>1 DEF AgreeInv, CoefOK
  <2>5. CASE r = ROOT_RANK
    BY <2>4, <2>5
  <2>6. CASE r # ROOT_RANK
    <3>1. WorldSize # 1
      BY <2>6, WorldAssumption DEF Rank, ROOT_RANK
    <3>2. ASSUME NEW f \in Fills(c), f < p
          PROVE  f < o
      <4>1. PICK q \in Calls(RootFirstOp) : f < q /\ q < p
        BY <2>1, <2>2, <3>1, <3>2 DEF Disciplined, IsFenced
      <4>2. q <= o
        BY <1>1, <4>1, RootReached DEF AgreeInv
      <4> QED
        BY <2>1, <4>1, <4>2
    <3>3. ASSUME NEW f \in Fills(c), f < o
          PROVE  f < p
      <4>1. ASSUME p < f
            PROVE  FALSE
        <5>1. PICK q \in Calls(LeavesFirstOp) : p < q /\ q < f
          BY <2>1, <2>2, <3>1, <4>1 DEF Disciplined, IsFenced
        <5>2. o <= q
          BY <1>1, <2>1, <2>3, <5>1, RootHeldBack DEF AgreeInv
        <5> QED
          BY <2>1, <3>3, <5>1, <5>2
      <4> QED
        BY <2>1, <2>2, <4>1
    <3>4. coef[c] = 0 \/ coef[c] \in Fills(c)
      BY <2>4 DEF IsLastFill
    <3>5. coef[c] < p
      BY <2>1, <2>4, <3>3, <3>4 DEF IsLastFill
    <3> QED
      BY <2>4, <3>2, <3>5 DEF IsLastFill
  <2> QED
    BY <2>5, <2>6
<1> QED
  BY <1>1, AgreeInvariant, PTL

(* A rank that draws looks at a coin it has not seen, and finds what the   *)
(* others found.                                                           *)
LEMMA StepLooks ==
  ASSUME Disciplined, MatchInv, AgreeInv, ChallengeAgreement', NEW r \in Rank, Step(r)
  PROVE  Coin!Next \/ chal' = chal
<1>1. chal \in [Rank -> SUBSET (Pos \X Digest(Item))] /\ pc[r] \in Nat
  BY PositionType DEF MatchInv, TypeOK
<1>2. ASSUME NEW d, Adopt(r, d)
      PROVE  Coin!Next
  <2> DEFINE c == <<pc[r], d>>
  <2>1. /\ chal' = [chal EXCEPT ![r] = chal[r] \cup {c}]
        /\ c \in chal'[r]
        /\ \A q \in Rank : chal[q] \subseteq chal'[q]
        /\ c[1] = pc[r]
    BY <1>1, <1>2 DEF Adopt
  <2>2. \A e \in chal[r] : e[1] # c[1]
    BY <1>1, <2>1, PositionType DEF AgreeInv, DrawsOK, DrawOK
  <2>3. \A q \in Rank : \A e \in chal[q] : e[1] = c[1] => e[2] = c[2]
    BY <2>1 DEF ChallengeAgreement
  <2>4. Coin!Look(r, c)
    BY <2>1, <2>2, <2>3 DEF Coin!Look
  <2> QED
    BY <2>1, <2>4 DEF Coin!Next
<1> QED
  BY <1>2, StepDraws

(* The parallel prover implements one random tape shared by all ranks.     *)
THEOREM ImplementsOneSharedTape ==
  ASSUME Disciplined
  PROVE  Spec => OneSharedTape
<1>1. Init => Coin!Init
  BY DEF Init, Coin!Init
<1>2. MatchInv /\ AgreeInv /\ ChallengeAgreement' /\ [Next]_vars => [Coin!Next]_chal
  <2> SUFFICES ASSUME MatchInv, AgreeInv, ChallengeAgreement', [Next]_vars
               PROVE  Coin!Next \/ chal' = chal
    OBVIOUS
  <2>1. CASE UNCHANGED vars
    BY <2>1 DEF vars
  <2>2. CASE \E r \in Rank : Step(r)
    BY <2>2, StepLooks
  <2> QED
    BY <2>1, <2>2 DEF Next, Done
<1> QED
  BY <1>1, <1>2, AgreeInvariant, ChallengesAgree, PTL DEF Spec, OneSharedTape, Coin!Spec

-----------------------------------------------------------------------------
(***************************************************************************)
(* The Fiat-Shamir binding of the prover: for every program that begins    *)
(* with a new transcript, each challenge of the root is a hash of all that *)
(* the root appended since the commitment, in order and nothing else.      *)
(*                                                                         *)
(* What a transcript has bound is what its digest absorbed followed by the *)
(* bytes it has still to hash. Every operation but the two that start over *)
(* (a new transcript, a commitment) appends to that: in particular a sync  *)
(* replaces the digest of the root by itself, and unlocking cuts bytes out *)
(* of the proof only after hashing them.                                   *)
(*                                                                         *)
(* The second half is about progress: a program whose locks and unlocks    *)
(* alternate never panics at one, and the rank that has come least far, or *)
(* another that stands at the same call, can always step.                  *)
(***************************************************************************)

(* What a transcript has bound: what its digest absorbed, then what is     *)
(* still to be hashed.                                                     *)
Bound(t)     == BoundItems(t.digest) \o Unhashed(t)
PointerOK(t) == t.hash_start_index <= Len(t.proof)

-----------------------------------------------------------------------------
(* What the operations of the transcript do to it.                         *)

(* A digest has absorbed a sequence of items.                              *)
LEMMA BoundItemsType ==
  ASSUME NEW I, NEW d \in Digest(I)
  PROVE  BoundItems(d) \in Seq(I)
<1> DEFINE n == Len(d.absorbed)
           chunks == [i \in 1 .. n |-> d.absorbed[i].chunk]
<1>1. d.absorbed \in Seq([after : Int, chunk : Seq(I)]) /\ n \in Nat
  BY DEF Digest
<1>2. \A i \in 1 .. n : chunks[i] \in Seq(I)
  <2> SUFFICES ASSUME NEW i \in 1 .. n PROVE d.absorbed[i].chunk \in Seq(I)
    OBVIOUS
  <2>1. d.absorbed[i] \in [after : Int, chunk : Seq(I)]
    BY <1>1, ElementOfSeq
  <2> QED BY <2>1
<1>3. chunks = [i \in 1 .. n |-> chunks[i]]
  OBVIOUS
<1>4. BoundItems(d) = FlattenSeq(chunks)
  BY DEF BoundItems
<1> HIDE DEF chunks, n
<1> QED BY <1>1, <1>2, <1>3, <1>4, FlattenType

(* Hashing a chunk appends it to what a digest absorbed; hashing in place  *)
(* absorbs nothing.                                                        *)
LEMMA BoundItemsNext ==
  ASSUME NEW I, NEW d \in Digest(I), NEW c \in Seq(I)
  PROVE  /\ BoundItems(HashChunk(d, c)) = BoundItems(d) \o c
         /\ BoundItems(HashInplace(d)) = BoundItems(d)
<1> DEFINE e == HashChunk(d, c)
           n == Len(d.absorbed)
           old == [i \in 1 .. n |-> d.absorbed[i].chunk]
           new == [i \in 1 .. Len(e.absorbed) |-> e.absorbed[i].chunk]
<1>1. d.absorbed \in Seq([after : Int, chunk : Seq(I)]) /\ n \in Nat
  BY DEF Digest
<1>2. /\ Len(e.absorbed) = n + 1
      /\ \A i \in 1 .. n : e.absorbed[i] = d.absorbed[i]
      /\ e.absorbed[n + 1] = [after |-> d.rehash, chunk |-> c]
  <2>1. e.absorbed = Append(d.absorbed, [after |-> d.rehash, chunk |-> c])
    BY DEF HashChunk
  <2>2. d.rehash \in Int
    BY DEF Digest
  <2>3. [after |-> d.rehash, chunk |-> c] \in [after : Int, chunk : Seq(I)]
    BY <2>2
  <2> HIDE DEF e
  <2> QED BY <1>1, <2>1, <2>3, AppendProperties
<1> HIDE DEF e
<1>3. \A i \in 1 .. n : old[i] \in Seq(I) /\ new[i] = old[i]
  <2> SUFFICES ASSUME NEW i \in 1 .. n
               PROVE  d.absorbed[i].chunk \in Seq(I) /\ new[i] = d.absorbed[i].chunk
    OBVIOUS
  <2>1. d.absorbed[i] \in [after : Int, chunk : Seq(I)]
    BY <1>1, ElementOfSeq
  <2>2. i \in 1 .. Len(e.absorbed) /\ e.absorbed[i] = d.absorbed[i]
    BY <1>1, <1>2
  <2> QED BY <2>1, <2>2
<1>4. new[n + 1] = c /\ new = [i \in 1 .. n + 1 |-> new[i]] /\ old = [i \in 1 .. n |-> old[i]]
  BY <1>1, <1>2
<1>5. BoundItems(d) = FlattenSeq(old) /\ BoundItems(e) = FlattenSeq(new)
  BY DEF BoundItems
<1> HIDE DEF n, old, new
<1>6. FlattenSeq(new) = FlattenSeq(old) \o c
  <2>1. \A i \in 1 .. n + 1 : new[i] \in Seq(I)
    <3> SUFFICES ASSUME NEW i \in 1 .. n + 1 PROVE new[i] \in Seq(I)
      OBVIOUS
    <3>1. i \in 1 .. n \/ i = n + 1
      BY <1>1
    <3> QED BY <1>3, <1>4, <3>1
  <2>2. old \in Seq(Seq(I)) /\ Len(old) = n /\ n + 1 \in Nat
    <3>1. n \in Nat /\ old = [i \in 1 .. n |-> old[i]] /\ \A i \in 1 .. n : old[i] \in Seq(I)
      BY <1>1, <1>3, <1>4
    <3> QED BY <3>1, FunctionIsSeq
  <2>3. new \in Seq(Seq(I)) /\ Len(new) = n + 1
    BY <1>4, <2>1, <2>2, FunctionIsSeq, SMTT(60)
  <2>4. FlattenSeq(new) = FlattenSeq(old) \o new[n + 1]
    BY <1>3, <2>2, <2>3, FlattenNext
  <2> QED BY <1>4, <2>4
<1>7. HashInplace(d).absorbed = d.absorbed
  BY DEF HashInplace, Digest
<1> QED BY <1>5, <1>6, <1>7 DEF BoundItems, e

(* The items still to be hashed are the end of the proof from the hash     *)
(* pointer on.                                                             *)
LEMMA UnhashedType ==
  ASSUME NEW I, NEW t \in Transcript(I), PointerOK(t)
  PROVE  /\ Unhashed(t) \in Seq(I)
         /\ Len(Unhashed(t)) = Len(t.proof) - t.hash_start_index
         /\ \A i \in 1 .. Len(t.proof) - t.hash_start_index :
              Unhashed(t)[i] = t.proof[t.hash_start_index + i]
         /\ t.hash_start_index = Len(t.proof) => Unhashed(t) = <<>>
<1>1. t.proof \in Seq(I) /\ t.hash_start_index \in Nat /\ Len(t.proof) \in Nat
      /\ t.hash_start_index <= Len(t.proof)
  BY DEF Transcript, PointerOK
<1>2. \A i \in t.hash_start_index + 1 .. Len(t.proof) : t.proof[i] \in I
  BY <1>1, ElementOfSeq
<1> QED BY <1>1, <1>2, SubSeqProperties, SMTT(60) DEF Unhashed

(* Hashing what is still to be hashed leaves what a transcript has bound   *)
(* as it is.                                                               *)
LEMMA BoundRefresh ==
  ASSUME NEW I, NEW t \in Transcript(I), PointerOK(t)
  PROVE  /\ BoundItems(RefreshedDigest(t)) = Bound(t)
         /\ Bound(RefreshDigest(t)) = Bound(t) /\ PointerOK(RefreshDigest(t))
         /\ Bound(t) \in Seq(I)
<1>1. t.digest \in Digest(I) /\ t.hash_start_index \in Nat /\ Len(t.proof) \in Nat
  BY DEF Transcript
<1>2. BoundItems(t.digest) \in Seq(I) /\ Unhashed(t) \in Seq(I)
  BY <1>1, BoundItemsType, UnhashedType
<1>3. BoundItems(RefreshedDigest(t)) = Bound(t)
  <2>1. CASE Len(t.proof) > t.hash_start_index
    BY <1>1, <1>2, <2>1, BoundItemsNext DEF RefreshedDigest, Bound
  <2>2. CASE ~(Len(t.proof) > t.hash_start_index)
    <3>1. t.hash_start_index = Len(t.proof)
      BY <1>1, <2>2 DEF PointerOK
    <3>2. Bound(t) = BoundItems(t.digest)
      BY <1>2, <3>1, UnhashedType, ConcatEmptySeq DEF Bound
    <3>3. BoundItems(HashInplace(t.digest)) = BoundItems(t.digest)
      BY <1>1, EmptySeq, BoundItemsNext
    <3> QED BY <2>2, <3>2, <3>3 DEF RefreshedDigest
  <2> QED BY <2>1, <2>2
<1>4. /\ RefreshDigest(t) \in Transcript(I) /\ RefreshDigest(t).digest = RefreshedDigest(t)
      /\ RefreshDigest(t).proof = t.proof /\ RefreshDigest(t).hash_start_index = Len(t.proof)
  BY RefreshType DEF RefreshDigest, Transcript
<1>5. PointerOK(RefreshDigest(t)) /\ Unhashed(RefreshDigest(t)) = <<>>
  BY <1>1, <1>4, UnhashedType DEF PointerOK
<1>6. Bound(t) \in Seq(I)
  BY <1>2, ConcatProperties DEF Bound
<1> QED BY <1>3, <1>4, <1>5, <1>6, ConcatEmptySeq DEF Bound

(* Appending an item to the proof binds that item after all the others.    *)
LEMMA BoundAppend ==
  ASSUME NEW I, NEW t \in Transcript(I), PointerOK(t), NEW i \in I
  PROVE  Bound(AppendItem(t, i)) = Bound(t) \o <<i>> /\ PointerOK(AppendItem(t, i))
<1> DEFINE u == AppendItem(t, i)
<1>1. /\ t.digest \in Digest(I) /\ t.hash_start_index \in Nat
      /\ t.proof \in Seq(I) /\ Len(t.proof) \in Nat /\ t.hash_start_index <= Len(t.proof)
  BY DEF Transcript, PointerOK
<1>2. /\ u.digest = t.digest /\ u.hash_start_index = t.hash_start_index
      /\ u.proof = Append(t.proof, i)
  BY DEF AppendItem, Transcript
<1>3. /\ Append(t.proof, i) \in Seq(I) /\ Len(Append(t.proof, i)) = Len(t.proof) + 1
      /\ \A k \in 1 .. Len(t.proof) : Append(t.proof, i)[k] = t.proof[k]
      /\ Append(t.proof, i)[Len(t.proof) + 1] = i
  BY <1>1, AppendProperties
<1>4. u \in Transcript(I) /\ PointerOK(u)
  BY <1>1, <1>2, <1>3, SMTT(60) DEF AppendItem, Transcript, PointerOK
<1> HIDE DEF u
<1>5. Unhashed(u) = Unhashed(t) \o <<i>>
  <2> DEFINE a == Unhashed(u)
             b == Unhashed(t)
             h == t.hash_start_index
  <2>1. /\ a \in Seq(I) /\ b \in Seq(I)
        /\ Len(b) = Len(t.proof) - h /\ Len(a) = Len(b) + 1
        /\ \A k \in 1 .. Len(b) : b[k] = t.proof[h + k]
        /\ \A k \in 1 .. Len(b) + 1 : a[k] = u.proof[h + k]
    <3>1. Len(u.proof) = Len(t.proof) + 1 /\ u.hash_start_index = h
      BY <1>2, <1>3
    <3>2. /\ b \in Seq(I) /\ Len(b) = Len(t.proof) - h
          /\ \A k \in 1 .. Len(t.proof) - h : b[k] = t.proof[h + k]
      BY UnhashedType
    <3>3. /\ a \in Seq(I) /\ Len(a) = Len(u.proof) - h
          /\ \A k \in 1 .. Len(u.proof) - h : a[k] = u.proof[h + k]
      BY <1>2, <1>4, UnhashedType
    <3> HIDE DEF a, b, h
    <3>4. h \in Nat /\ Len(t.proof) \in Nat
      BY <1>1 DEF h
    <3>5. Len(b) + 1 = Len(u.proof) - h
      BY <3>1, <3>2, <3>4
    <3> QED BY <3>2, <3>3, <3>5
  <2>2. <<i>> \in Seq(I) /\ Len(<<i>>) = 1 /\ <<i>>[1] = i
    OBVIOUS
  <2>3. /\ b \o <<i>> \in Seq(I) /\ Len(b \o <<i>>) = Len(b) + 1
        /\ \A k \in 1 .. Len(b) : (b \o <<i>>)[k] = b[k]
        /\ (b \o <<i>>)[Len(b) + 1] = i
    BY <2>1, <2>2, ConcatProperties
  <2> HIDE DEF a, b, h
  <2>4. ASSUME NEW k \in 1 .. Len(a) PROVE a[k] = (b \o <<i>>)[k]
    <3>1. CASE k \in 1 .. Len(b)
      <4>1. h + k \in 1 .. Len(t.proof)
        BY <1>1, <2>1, <3>1 DEF h
      <4> QED BY <1>2, <1>3, <2>1, <2>3, <3>1, <4>1
    <3>2. CASE k = Len(b) + 1
      <4>1. h + k = Len(t.proof) + 1
        BY <1>1, <2>1, <3>2 DEF h
      <4>2. k \in 1 .. Len(b) + 1
        BY <2>1
      <4> QED BY <1>2, <1>3, <2>1, <2>3, <3>2, <4>1, <4>2
    <3>3. Len(b) \in Nat
      BY <2>1
    <3> QED BY <2>1, <3>1, <3>2, <3>3
  <2>5. a = b \o <<i>>
    BY <2>1, <2>3, <2>4, SeqEqual
  <2> QED BY <2>5 DEF a, b
<1>6. BoundItems(t.digest) \in Seq(I) /\ Unhashed(t) \in Seq(I) /\ <<i>> \in Seq(I)
  BY <1>1, BoundItemsType, UnhashedType
<1>7. BoundItems(t.digest) \o (Unhashed(t) \o <<i>>) = (BoundItems(t.digest) \o Unhashed(t)) \o <<i>>
  BY <1>6, ConcatAssociative
<1> QED BY <1>2, <1>4, <1>5, <1>7 DEF Bound, u

(* Locking, unlocking and finishing bind nothing more and nothing less.    *)
LEMMA BoundLock ==
  ASSUME NEW I, NEW t \in Transcript(I), PointerOK(t), LockOK(t)
  PROVE  /\ Bound(LockProof(t)) = Bound(t) /\ PointerOK(LockProof(t))
         /\ t.proof_locked => Bound(UnlockProof(t)) = Bound(t) /\ PointerOK(UnlockProof(t))
         /\ Bound(FinalizeAndGetProof(t)) = Bound(t) /\ PointerOK(FinalizeAndGetProof(t))
<1>1. /\ t.digest \in Digest(I) /\ t.hash_start_index \in Nat /\ t.proof_locked_at \in Nat
      /\ t.proof \in Seq(I) /\ Len(t.proof) \in Nat /\ t.hash_start_index <= Len(t.proof)
  BY DEF Transcript, PointerOK
<1>2. /\ LockProof(t).digest = t.digest /\ LockProof(t).proof = t.proof
      /\ LockProof(t).hash_start_index = t.hash_start_index
  BY DEF LockProof, Transcript
<1>3. ASSUME t.proof_locked
      PROVE  Bound(UnlockProof(t)) = Bound(t) /\ PointerOK(UnlockProof(t))
  <2> DEFINE u == UnlockProof(t)
  <2>1. /\ u.digest = IF t.hash_start_index < Len(t.proof) THEN RefreshedDigest(t) ELSE t.digest
        /\ u.proof = SubSeq(t.proof, 1, t.proof_locked_at)
        /\ u.hash_start_index = t.proof_locked_at
    BY DEF UnlockProof, Transcript
  <2>2. u \in Transcript(I)
    BY <1>3, UnlockType
  <2> HIDE DEF u
  <2>3. \A i \in 1 .. t.proof_locked_at : t.proof[i] \in I
    BY <1>1, <1>3, ElementOfSeq DEF LockOK
  <2>4. Len(u.proof) = t.proof_locked_at
    BY <1>1, <2>1, <2>3, SubSeqProperties
  <2>5. PointerOK(u) /\ Unhashed(u) = <<>>
    <3>1. PointerOK(u)
      BY <1>1, <2>1, <2>4 DEF PointerOK
    <3> QED BY <2>1, <2>2, <2>4, <3>1, UnhashedType
  <2>6. u.digest \in Digest(I)
    BY <2>2 DEF Transcript
  <2>7. Bound(u) = BoundItems(u.digest)
    BY <2>5, <2>6, BoundItemsType, ConcatEmptySeq DEF Bound
  <2>8. CASE t.hash_start_index < Len(t.proof)
    BY <2>1, <2>5, <2>7, <2>8, BoundRefresh DEF u
  <2>9. CASE ~(t.hash_start_index < Len(t.proof))
    <3>1. t.hash_start_index = Len(t.proof)
      BY <1>1, <2>9
    <3>2. Bound(t) = BoundItems(t.digest)
      BY <1>1, <3>1, UnhashedType, BoundItemsType, ConcatEmptySeq DEF Bound
    <3> QED BY <2>1, <2>5, <2>7, <2>9, <3>2 DEF u
  <2> QED BY <2>8, <2>9
<1> QED BY <1>1, <1>2, <1>3 DEF FinalizeAndGetProof, Bound, PointerOK, Unhashed

(* A transcript whose digest is replaced has bound what that digest has.   *)
LEMMA BoundSetState ==
  ASSUME NEW I, NEW t \in Transcript(I), NEW d \in Digest(I), LockOK(t)
  PROVE  Bound(SetState(t, d)) = BoundItems(d) /\ PointerOK(SetState(t, d))
<1> DEFINE u == SetState(t, d)
<1>1. u \in Transcript(I) /\ u.digest = d /\ u.hash_start_index = Len(u.proof)
      /\ Len(u.proof) \in Nat
  BY SetStateType, LenProperties DEF SetState, Transcript
<1> HIDE DEF u
<1>2. PointerOK(u)
  BY <1>1 DEF PointerOK
<1>3. Unhashed(u) = <<>>
  BY <1>1, <1>2, UnhashedType
<1>4. Bound(u) = BoundItems(d)
  BY <1>1, <1>3, BoundItemsType, ConcatEmptySeq DEF Bound
<1> QED BY <1>2, <1>4 DEF u

(* A new transcript binds nothing, one restarted by a commitment binds the *)
(* commitment.                                                             *)
LEMMA BoundStart ==
  ASSUME NEW I
  PROVE  /\ Bound(NewTranscript) = <<>> /\ PointerOK(NewTranscript)
         /\ \A i \in I : BoundItems(HashInitCommitment(i)) = <<i>> /\ HashInitCommitment(i) \in Digest(I)
<1>1. Bound(NewTranscript) = <<>> /\ PointerOK(NewTranscript)
  <2>1. NewTranscript \in Transcript(I) /\ NewTranscript.hash_start_index = 0
        /\ NewTranscript.proof = <<>> /\ Len(NewTranscript.proof) = 0
        /\ NewTranscript.digest.absorbed = <<>>
    BY NewType DEF NewTranscript, ZeroDigest
  <2> HIDE DEF NewTranscript
  <2>2. PointerOK(NewTranscript)
    BY <2>1 DEF PointerOK
  <2>3. Unhashed(NewTranscript) = <<>>
    BY <2>1, <2>2, UnhashedType
  <2>4. BoundItems(NewTranscript.digest) = <<>>
    BY <2>1 DEF BoundItems, FlattenSeq
  <2> QED BY <2>2, <2>3, <2>4 DEF Bound
<1>2. ASSUME NEW i \in I
      PROVE  BoundItems(HashInitCommitment(i)) = <<i>> /\ HashInitCommitment(i) \in Digest(I)
  <2> DEFINE z == [absorbed |-> <<>>, rehash |-> Fresh]
             h == HashInitCommitment(i)
             chunks == [n \in 1 .. 1 |-> h.absorbed[n].chunk]
  <2>1. h.absorbed = << [after |-> Fresh, chunk |-> <<i>>] >> /\ Len(h.absorbed) = 1
    BY DEF HashInitCommitment
  <2>2. chunks[1] = <<i>> /\ Len(chunks) = 1 /\ BoundItems(h) = FlattenSeq(chunks)
    BY <2>1 DEF BoundItems
  <2>3. h \in Digest(I)
    BY DEF HashInitCommitment, Digest, Fresh, PCS_DIGEST_LOOP
  <2> HIDE DEF chunks, h
  <2>4. PICK f : /\ \A k \in 1 .. Len(chunks) : f[k] = IF k = 1 THEN chunks[k] ELSE f[k - 1] \o chunks[k]
                 /\ FlattenSeq(chunks) = f[Len(chunks)]
    BY <2>2, FlattenIsFold
  <2>5. FlattenSeq(chunks) = <<i>>
    BY <2>2, <2>4
  <2> QED BY <2>2, <2>3, <2>5 DEF h
<1> QED BY <1>1, <1>2

-----------------------------------------------------------------------------
(* What the root appended, call by call.                                   *)

(* A call of the root appends a sequence of items.                         *)
LEMMA AppendedType ==
  ASSUME NEW p \in Pos
  PROVE  AppendedAt(p) \in Seq(Item) /\ RootItem(p) \in Item
<1>1. RootItem(p) \in Item
  BY OpType, RootIsRank DEF RootItem, Item
<1> QED BY <1>1 DEF AppendedAt

(* Of the calls before a position there is one last.                       *)
LEMMA LastCall ==
  ASSUME NEW S, NEW p \in Nat
  PROVE  /\ (\E b \in Calls(S) : b < p) => \E b \in Calls(S) : IsLastCall(S, b, p)
         /\ \A b, c \in Calls(S) : IsLastCall(S, b, p) /\ IsLastCall(S, c, p) => b = c
<1> DEFINE T == {n \in Nat : (\E b \in Calls(S) : b < n) => \E b \in Calls(S) : IsLastCall(S, b, n)}
<1>0. Calls(S) \subseteq Nat \ {0}
  BY PositionType
<1>1. 0 \in T
  BY <1>0
<1>2. ASSUME NEW n \in Nat, n \in T PROVE n + 1 \in T
  <2>1. CASE n \in Calls(S)
    <3>1. IsLastCall(S, n, n + 1)
      BY <1>0, <2>1 DEF IsLastCall
    <3> QED BY <2>1, <3>1
  <2>2. CASE n \notin Calls(S) /\ \E b \in Calls(S) : b < n + 1
    <3>1. \E b \in Calls(S) : b < n
      BY <1>0, <2>2
    <3>2. PICK b \in Calls(S) : IsLastCall(S, b, n)
      BY <1>2, <3>1
    <3>3. IsLastCall(S, b, n + 1)
      BY <1>0, <2>2, <3>2 DEF IsLastCall
    <3> QED BY <3>3
  <2>3. CASE ~\E b \in Calls(S) : b < n + 1
    BY <2>3
  <2> QED BY <2>1, <2>2, <2>3
<1>3. p \in T
  <2> HIDE DEF T
  <2> QED BY <1>1, <1>2, SetInduction
<1>4. ASSUME NEW b \in Calls(S), NEW c \in Calls(S), IsLastCall(S, b, p), IsLastCall(S, c, p)
      PROVE  b = c
  BY <1>0, <1>4 DEF IsLastCall
<1> QED BY <1>3, <1>4

(* The items since the last call of S are those of the positions from it   *)
(* on.                                                                     *)
LEMMA ItemsSinceIs ==
  ASSUME NEW S, NEW p \in Nat, NEW b \in Calls(S), IsLastCall(S, b, p)
  PROVE  ItemsSince(S, p) = FlattenSeq([i \in 1 .. p - b |-> AppendedAt(b + i - 1)])
<1> DEFINE base == CHOOSE c \in Calls(S) : IsLastCall(S, c, p)
<1>1. base \in Calls(S) /\ IsLastCall(S, base, p)
  OBVIOUS
<1>2. base = b
  <2> HIDE DEF base
  <2> QED BY <1>1, LastCall
<1> QED BY <1>2 DEF ItemsSince

(* Passing a position adds what is appended there; passing a call of S     *)
(* starts over.                                                            *)
LEMMA ItemsSinceNext ==
  ASSUME NEW S, NEW p \in Pos, p \in Calls(S) \/ \E b \in Calls(S) : b < p
  PROVE  ItemsSince(S, p + 1) =
           IF p \in Calls(S) THEN AppendedAt(p) ELSE ItemsSince(S, p) \o AppendedAt(p)
<1>0. /\ p \in Nat /\ p + 1 \in Nat /\ p # 0
      /\ Calls(S) \subseteq Pos /\ Pos \subseteq Nat \ {0} /\ Pos = 1 .. Len(Prog) /\ Len(Prog) \in Nat
  BY OpType DEF Calls, Pos
<1> DEFINE s(b, q) == [i \in 1 .. q - b |-> AppendedAt(b + i - 1)]
<1>1. ASSUME NEW b \in Pos, b <= p
      PROVE  FlattenSeq(s(b, p + 1)) = FlattenSeq(s(b, p)) \o AppendedAt(p)
  <2> DEFINE n == p - b
             old == s(b, p)
             new == s(b, p + 1)
  <2>1. n \in Nat /\ n + 1 \in Nat /\ (p + 1) - b = n + 1 /\ b + (n + 1) - 1 = p
    BY <1>0, <1>1
  <2>2. \A i \in 1 .. n + 1 : AppendedAt(b + i - 1) \in Seq(Item)
    <3> SUFFICES ASSUME NEW i \in 1 .. n + 1 PROVE AppendedAt(b + i - 1) \in Seq(Item)
      OBVIOUS
    <3>1. b + i - 1 \in Pos
      BY <1>0, <1>1
    <3> QED BY <3>1, AppendedType
  <2>3. /\ old = [i \in 1 .. n |-> old[i]] /\ \A i \in 1 .. n : old[i] \in Seq(Item)
    BY <2>1, <2>2
  <2>4. /\ new = [i \in 1 .. n + 1 |-> new[i]] /\ \A i \in 1 .. n + 1 : new[i] \in Seq(Item)
    BY <2>1, <2>2
  <2>5. new[n + 1] = AppendedAt(p) /\ \A i \in 1 .. n : new[i] = old[i]
    BY <2>1
  <2> HIDE DEF n, old, new
  <2>6. old \in Seq(Seq(Item)) /\ Len(old) = n
    BY <2>1, <2>3, FunctionIsSeq
  <2>7. new \in Seq(Seq(Item)) /\ Len(new) = n + 1
    BY <2>1, <2>4, FunctionIsSeq
  <2>8. FlattenSeq(new) = FlattenSeq(old) \o new[n + 1]
    BY <2>5, <2>6, <2>7, FlattenNext
  <2> QED BY <2>5, <2>8 DEF old, new
<1>2. CASE p \in Calls(S)
  <2>1. IsLastCall(S, p, p + 1)
    BY <1>0, <1>2 DEF IsLastCall
  <2>2. ItemsSince(S, p + 1) = FlattenSeq(s(p, p + 1))
    BY <1>0, <1>2, <2>1, ItemsSinceIs
  <2>3. s(p, p) = <<>>
    BY <1>0
  <2>4. FlattenSeq(s(p, p)) = <<>>
    BY <2>3 DEF FlattenSeq
  <2>5. FlattenSeq(s(p, p + 1)) = FlattenSeq(s(p, p)) \o AppendedAt(p)
    <3> HIDE DEF s
    <3>1. p <= p
      BY <1>0
    <3> QED BY <1>1, <3>1
  <2> QED BY <1>2, <2>2, <2>4, <2>5, AppendedType, ConcatEmptySeq
<1>3. CASE p \notin Calls(S)
  <2>1. PICK b \in Calls(S) : IsLastCall(S, b, p)
    BY <1>0, <1>3, LastCall
  <2>2. IsLastCall(S, b, p + 1)
    BY <1>0, <1>3, <2>1 DEF IsLastCall
  <2>3. b \in Pos /\ b <= p
    BY <1>0, <2>1 DEF IsLastCall
  <2>4. ItemsSince(S, p + 1) = FlattenSeq(s(b, p + 1)) /\ ItemsSince(S, p) = FlattenSeq(s(b, p))
    BY <1>0, <2>1, <2>2, ItemsSinceIs
  <2> QED BY <1>1, <1>3, <2>3, <2>4
<1> QED BY <1>2, <1>3

-----------------------------------------------------------------------------
(* The root, step by step.                                                 *)

(* The program begins with a new transcript.                               *)
StartsNew == Len(Prog) > 0 /\ Prog[1].op = "new"

(* While the root is in a collective that carries its digest, its digest   *)
(* is the one it posted.                                                   *)
OwnDigestOK ==
  inside[ROOT_RANK] /\ Current(ROOT_RANK).op \in CarriesDigest =>
    /\ Received(ROOT_RANK) = tr[ROOT_RANK].digest
    /\ tr[ROOT_RANK].hash_start_index = Len(tr[ROOT_RANK].proof)

(* The transcript of the root binds what was appended since the last       *)
(* restart.                                                                *)
RootBound ==
  pc[ROOT_RANK] > 1 => Bound(tr[ROOT_RANK]) = ItemsSince(Restart, pc[ROOT_RANK])

(* The inductive invariant.                                                *)
BindInv ==
  PointerOK(tr[ROOT_RANK]) /\ OwnDigestOK /\ RootBound /\ ChallengesBindTranscript

(* At the start nothing is bound and nothing appended.                     *)
LEMMA BindInit == Init => BindInv
<1> SUFFICES ASSUME Init PROVE BindInv
  OBVIOUS
<1>1. /\ tr[ROOT_RANK] = NewTranscript /\ pc[ROOT_RANK] = 1
      /\ ~inside[ROOT_RANK] /\ chal[ROOT_RANK] = {}
  BY RootIsRank DEF Init
<1> QED BY <1>1, BoundStart DEF BindInv, OwnDigestOK, RootBound, ChallengesBindTranscript

(* A step of another rank changes nothing the root has or receives.        *)
LEMMA BindOther ==
  ASSUME MatchInv, BindInv, NEW r \in Rank, r # ROOT_RANK, Step(r)
  PROVE  BindInv'
<1>1. /\ pc'[ROOT_RANK] = pc[ROOT_RANK] /\ inside'[ROOT_RANK] = inside[ROOT_RANK]
      /\ tr'[ROOT_RANK] = tr[ROOT_RANK] /\ chal'[ROOT_RANK] = chal[ROOT_RANK]
  BY RootIsRank, StepIsLocal
<1>2. posted'[ROOT_RANK] = posted[ROOT_RANK]
  <2>1. CASE posted' = posted
    BY <2>1
  <2>2. CASE Enter(r)
    BY <2>2, RootIsRank DEF Enter, MatchInv, TypeOK
  <2> QED BY <2>1, <2>2, StepKinds DEF Walks, Completes
<1> QED
  BY <1>1, <1>2
  DEF BindInv, OwnDigestOK, RootBound, ChallengesBindTranscript, Received, Current

(* What is to be shown of a step of the root that passes a call.           *)
LEMMA BindPass ==
  ASSUME MatchInv, BindInv, StartsNew, Running(ROOT_RANK),
         Advance(ROOT_RANK), ~inside'[ROOT_RANK],
         PointerOK(tr'[ROOT_RANK]),
         LET p == pc[ROOT_RANK] IN
         /\ Bound(tr'[ROOT_RANK]) =
              IF p \in Calls(Restart) THEN AppendedAt(p)
              ELSE Bound(tr[ROOT_RANK]) \o AppendedAt(p)
         /\ \A c \in chal'[ROOT_RANK] : c \in chal[ROOT_RANK] \/
              (c[1] = p /\ p # 1 /\ BoundItems(c[2]) = Bound(tr[ROOT_RANK]))
  PROVE  BindInv'
<1> DEFINE p == pc[ROOT_RANK]
<1>1. /\ p \in Pos /\ p \in Nat /\ p > 0 /\ pc'[ROOT_RANK] = p + 1
  BY RootIsRank, RunningType, OpType DEF MatchInv, TypeOK, Advance
<1>2. p = 1 => p \in Calls(Restart)
  BY <1>1 DEF StartsNew, Calls, Restart
<1>3. 1 \in Calls(Restart)
  BY OpType DEF StartsNew, Calls, Restart, Pos
<1>4. ItemsSince(Restart, p + 1) =
        IF p \in Calls(Restart) THEN AppendedAt(p) ELSE ItemsSince(Restart, p) \o AppendedAt(p)
  <2>1. p \in Calls(Restart) \/ \E b \in Calls(Restart) : b < p
    BY <1>1, <1>2, <1>3
  <2> QED BY <1>1, <2>1, ItemsSinceNext
<1>5. p # 1 => Bound(tr[ROOT_RANK]) = ItemsSince(Restart, p)
  BY <1>1 DEF BindInv, RootBound
<1>6. RootBound'
  <2>1. Bound(tr'[ROOT_RANK]) = ItemsSince(Restart, p + 1)
    BY <1>2, <1>4, <1>5
  <2> QED BY <1>1, <2>1 DEF RootBound
<1>7. ChallengesBindTranscript'
  BY <1>5 DEF BindInv, ChallengesBindTranscript
<1> QED BY <1>6, <1>7 DEF BindInv, OwnDigestOK

(* A call that appends nothing.                                            *)
LEMMA AppendsNothing ==
  ASSUME NEW p \in Pos, Prog[p].op \notin {"append", "commit", "new"}
  PROVE  /\ p \notin Calls(Restart) /\ AppendedAt(p) = <<>>
         /\ StartsNew => p # 1
BY DEF Calls, Restart, AppendedAt, StartsNew

(* The calls of the transcript by which the root draws no challenge keep   *)
(* the invariant.                                                          *)
LEMMA BindLocal ==
  ASSUME MatchInv, BindInv, StartsNew, NEW t, LocalStep(ROOT_RANK, t), UNCHANGED chal,
         New(ROOT_RANK) \/ AppendOp(ROOT_RANK) \/ Commit(ROOT_RANK) \/ Refresh(ROOT_RANK)
           \/ Lock(ROOT_RANK) \/ Unlock(ROOT_RANK) \/ Finish(ROOT_RANK)
  PROVE  BindInv'
<1> DEFINE R == ROOT_RANK
           p == pc[R]
<1>0. R \in Rank
  BY RootIsRank
<1>1. Running(R) /\ p \in Pos /\ Current(R) = Prog[p]
      /\ tr[R] \in Transcript(Item) /\ ItemOf(R) = RootItem(p) /\ RootItem(p) \in Item
  <2>1. Running(R)
    BY DEF New, AppendOp, Commit, Refresh, Lock, Unlock, Finish, At
  <2> QED BY <1>0, <2>1, RunningType, AppendedType DEF MatchInv, ItemOf, RootItem, Current
<1>2. tr'[R] = t /\ Advance(R) /\ PointerOK(tr[R]) /\ LockOK(tr[R]) /\ chal' = chal
  BY <1>0 DEF LocalStep, MatchInv, TypeOK, BindInv, LocksOK
<1>3. ~inside'[R]
  <2>1. Current(R).op \in LocalOp
    BY DEF New, AppendOp, Commit, Refresh, Lock, Unlock, Finish, At, LocalOp
  <2>2. p \notin Calls(CollectiveOp)
    BY <1>1, <2>1 DEF Calls, LocalOp, CollectiveOp, RootFirstOp, LeavesFirstOp
  <2> QED BY <1>0, <2>2 DEF MatchInv, InsideOK, LocalStep
<1> SUFFICES PointerOK(t) /\ Bound(t) = IF p \in Calls(Restart) THEN AppendedAt(p)
                                       ELSE Bound(tr[R]) \o AppendedAt(p)
  BY <1>1, <1>2, <1>3, BindPass
<1> HIDE DEF R
<1>a. \A u : LocalStep(R, u) => tr'[R] = u
  BY <1>0 DEF LocalStep, MatchInv, TypeOK
<1>4. CASE New(R)
  <2>1. t = NewTranscript /\ Prog[p].op = "new"
    BY <1>1, <1>2, <1>4, <1>a DEF New, At
  <2>2. p \in Calls(Restart) /\ AppendedAt(p) = <<>>
    BY <1>1, <2>1 DEF Calls, Restart, AppendedAt
  <2> QED BY <2>1, <2>2, BoundStart
<1>5. CASE AppendOp(R)
  <2>1. t = AppendItem(tr[R], RootItem(p)) /\ Prog[p].op = "append"
    BY <1>1, <1>2, <1>5, <1>a DEF AppendOp, At
  <2>2. p \notin Calls(Restart) /\ AppendedAt(p) = <<RootItem(p)>>
    BY <1>1, <2>1 DEF Calls, Restart, AppendedAt
  <2> QED BY <1>1, <1>2, <2>1, <2>2, BoundAppend
<1>6. CASE Commit(R)
  <2>1. t = AppendCommitment(tr[R], RootItem(p)) /\ Prog[p].op = "commit"
    BY <1>1, <1>2, <1>6, <1>a DEF Commit, At
  <2>2. AppendedAt(p) = <<RootItem(p)>>
    BY <2>1 DEF AppendedAt
  <2>3. CASE Recursion
    <3>1. p \notin Calls(Restart) /\ t = AppendItem(tr[R], RootItem(p))
      BY <2>1, <2>3 DEF Calls, Restart, AppendCommitment
    <3> QED BY <1>1, <1>2, <2>2, <3>1, BoundAppend
  <2>4. CASE ~Recursion
    <3>1. p \in Calls(Restart)
          /\ t = SetState(AppendItem(tr[R], RootItem(p)), HashInitCommitment(RootItem(p)))
      BY <1>1, <2>1, <2>4 DEF Calls, Restart, AppendCommitment
    <3>2. /\ BoundItems(HashInitCommitment(RootItem(p))) = <<RootItem(p)>>
          /\ HashInitCommitment(RootItem(p)) \in Digest(Item)
      BY <1>1, BoundStart
    <3>3. /\ AppendItem(tr[R], RootItem(p)) \in Transcript(Item)
          /\ LockOK(AppendItem(tr[R], RootItem(p)))
      BY <1>1, <1>2, AppendType
    <3> QED BY <2>2, <3>1, <3>2, <3>3, BoundSetState
  <2> QED BY <2>3, <2>4
<1>7. CASE Refresh(R) \/ Lock(R) \/ Unlock(R) \/ Finish(R)
  <2>1. Prog[p].op \notin {"append", "commit", "new"}
    BY <1>1, <1>7 DEF Refresh, Lock, Unlock, Finish, At
  <2>2. p \notin Calls(Restart) /\ AppendedAt(p) = <<>>
    BY <1>1, <2>1, AppendsNothing
  <2>3. Bound(tr[R]) \o <<>> = Bound(tr[R])
    BY <1>1, <1>2, BoundRefresh, ConcatEmptySeq
  <2>4. CASE Refresh(R)
    BY <1>1, <1>2, <2>2, <2>3, <2>4, <1>a, BoundRefresh DEF Refresh
  <2>5. CASE Lock(R)
    BY <1>1, <1>2, <2>2, <2>3, <2>5, <1>a, BoundLock DEF Lock
  <2>6. CASE Unlock(R)
    BY <1>1, <1>2, <2>2, <2>3, <2>6, <1>a, BoundLock DEF Unlock
  <2>7. CASE Finish(R)
    BY <1>1, <1>2, <2>2, <2>3, <2>7, <1>a, BoundLock DEF Finish
  <2> QED BY <1>7, <2>4, <2>5, <2>6, <2>7
<1> QED BY <1>4, <1>5, <1>6, <1>7 DEF R

(* Sampling, filling, reading and writing the proof.                       *)
LEMMA BindWalk ==
  ASSUME MatchInv, BindInv, StartsNew,
         Sample(ROOT_RANK) \/ Fill(ROOT_RANK) \/ ReadCoefs(ROOT_RANK) \/ Dump(ROOT_RANK)
  PROVE  BindInv'
<1> DEFINE R == ROOT_RANK
           p == pc[R]
           d == RefreshedDigest(tr[R])
<1>0. R \in Rank
  BY RootIsRank
<1>1. Running(R) /\ p \in Pos /\ Current(R) = Prog[p] /\ tr[R] \in Transcript(Item)
  <2>1. Running(R)
    BY DEF Sample, Fill, ReadCoefs, Dump, At
  <2> QED BY <1>0, <2>1, RunningType DEF MatchInv, Current
<1>2. Advance(R) /\ PointerOK(tr[R]) /\ UNCHANGED inside
  BY DEF Sample, Fill, ReadCoefs, Dump, LocalStep, BindInv
<1>3. Prog[p].op \in {"sample", "fill", "read", "dump"}
  BY <1>1 DEF Sample, Fill, ReadCoefs, Dump, At
<1>4. ~inside'[R]
  <2>1. p \notin Calls(CollectiveOp)
    BY <1>3 DEF Calls, CollectiveOp, RootFirstOp, LeavesFirstOp
  <2> QED BY <1>0, <1>2, <2>1 DEF MatchInv, InsideOK
<1>5. p \notin Calls(Restart) /\ AppendedAt(p) = <<>> /\ p # 1
  BY <1>1, <1>3, AppendsNothing
<1>6. /\ Bound(tr[R]) \o <<>> = Bound(tr[R]) /\ BoundItems(d) = Bound(tr[R])
      /\ Bound(RefreshDigest(tr[R])) = Bound(tr[R]) /\ PointerOK(RefreshDigest(tr[R]))
  BY <1>1, <1>2, BoundRefresh, ConcatEmptySeq
<1>7. Bound(tr'[R]) = Bound(tr[R]) /\ PointerOK(tr'[R])
  <2>1. tr'[R] = RefreshDigest(tr[R]) \/ tr'[R] = tr[R]
    BY <1>0 DEF Sample, Fill, ReadCoefs, Dump, LocalStep, MatchInv, TypeOK
  <2> QED BY <1>2, <1>6, <2>1
<1>8. chal'[R] = chal[R] \cup {<<p, d>>} \/ chal'[R] = chal[R]
  BY <1>0 DEF Sample, Fill, ReadCoefs, Dump, Adopt, MatchInv, TypeOK
<1>9. \A c \in chal'[R] : c \in chal[R] \/ (c[1] = p /\ p # 1 /\ BoundItems(c[2]) = Bound(tr[R]))
  BY <1>5, <1>6, <1>8
<1> HIDE DEF d
<1> QED BY <1>1, <1>2, <1>4, <1>5, <1>6, <1>7, <1>9, BindPass

(* Handing a digest to a collective hashes what was appended.              *)
LEMMA BindEnter ==
  ASSUME MatchInv, BindInv, Enter(ROOT_RANK)
  PROVE  BindInv'
<1> DEFINE R == ROOT_RANK
           m == [op |-> Current(R).op, at |-> pc[R], digest |-> Payload(R)]
<1>0. R \in Rank /\ Running(R) /\ tr[R] \in Transcript(Item) /\ PointerOK(tr[R])
  BY RootIsRank, StepKinds DEF Enter, At, MatchInv, TypeOK, BindInv
<1>1. /\ pc' = pc /\ chal' = chal /\ Current(R)' = Current(R)
      /\ tr'[R] = IF Current(R).op \in CarriesDigest THEN RefreshDigest(tr[R]) ELSE tr[R]
  BY <1>0 DEF Enter, Current, CarriesDigest, MatchInv, TypeOK
<1>2. PointerOK(tr'[R]) /\ Bound(tr'[R]) = Bound(tr[R])
  BY <1>0, <1>1, BoundRefresh
<1>3. OwnDigestOK'
  <2> SUFFICES ASSUME Current(R).op \in CarriesDigest
               PROVE  /\ Received(R)' = tr'[R].digest
                      /\ tr'[R].hash_start_index = Len(tr'[R].proof)
    BY <1>1 DEF OwnDigestOK
  <2>1. tr'[R].digest = RefreshedDigest(tr[R]) /\ tr'[R].hash_start_index = Len(tr'[R].proof)
    BY <1>0, <1>1 DEF RefreshDigest, Transcript
  <2>2. m \in Message /\ m.digest = RefreshedDigest(tr[R])
    BY <1>0, EnterFits DEF Payload, CarriesDigest
  <2>3. posted[R] \in Seq(Message) /\ posted'[R] = Append(posted[R], m)
    BY <1>0 DEF Enter, MatchInv, TypeOK
  <2> HIDE DEF m
  <2>4. posted'[R][Len(posted'[R])] = m
    BY <2>2, <2>3, AppendProperties
  <2> QED BY <2>1, <2>2, <2>4 DEF Received
<1> QED BY <1>1, <1>2, <1>3 DEF BindInv, RootBound, ChallengesBindTranscript

(* The digest that comes back from a collective is the root's own.         *)
LEMMA BindLeave ==
  ASSUME MatchInv, BindInv, StartsNew,
         LeaveSync(ROOT_RANK) \/ LeaveChallenge(ROOT_RANK) \/ LeaveOther(ROOT_RANK)
  PROVE  BindInv'
<1> DEFINE R == ROOT_RANK
           p == pc[R]
<1>0. R \in Rank
  BY RootIsRank
<1>1. PICK op \in CollectiveOp : Completes(R, op)
  BY DEF LeaveSync, LeaveChallenge, LeaveOther, CollectiveOp, RootFirstOp
<1>2. /\ Running(R) /\ inside[R] /\ ~inside'[R] /\ Advance(R)
      /\ p \in Pos /\ Current(R) = Prog[p] /\ Prog[p].op = op
      /\ tr[R] \in Transcript(Item) /\ tr[R].digest \in Digest(Item)
      /\ LockOK(tr[R]) /\ PointerOK(tr[R])
  <2>1. Running(R) /\ inside[R] /\ Advance(R) /\ Current(R).op = op /\ ~inside'[R]
    BY <1>0, <1>1 DEF Completes, At, MatchInv, TypeOK
  <2> QED BY <1>0, <2>1, RunningType DEF MatchInv, TypeOK, LocksOK, BindInv, Transcript, Current
<1>3. p \notin Calls(Restart) /\ AppendedAt(p) = <<>> /\ p # 1
  <2>1. op \notin {"append", "commit", "new"}
    BY DEF CollectiveOp, RootFirstOp, LeavesFirstOp
  <2> QED BY <1>2, <2>1, AppendsNothing
<1>4. Bound(tr[R]) \o <<>> = Bound(tr[R])
  BY <1>2, BoundRefresh, ConcatEmptySeq
<1>5. op \in CarriesDigest => /\ Received(R) = tr[R].digest
                              /\ BoundItems(tr[R].digest) = Bound(tr[R])
  <2> SUFFICES ASSUME op \in CarriesDigest
               PROVE  /\ Received(R) = tr[R].digest
                      /\ BoundItems(tr[R].digest) = Bound(tr[R])
    OBVIOUS
  <2>1. Received(R) = tr[R].digest /\ tr[R].hash_start_index = Len(tr[R].proof)
    BY <1>2 DEF BindInv, OwnDigestOK
  <2>2. Unhashed(tr[R]) = <<>>
    BY <1>2, <2>1, UnhashedType
  <2> QED BY <1>2, <2>1, <2>2, BoundItemsType, ConcatEmptySeq DEF Bound
<1>6. CASE LeaveSync(R)
  <2>1. op = "sync" /\ tr'[R] = SetState(tr[R], Received(R)) /\ chal' = chal
    BY <1>0, <1>2, <1>6 DEF LeaveSync, Completes, At, MatchInv, TypeOK
  <2>2. op \in CarriesDigest
    BY <2>1 DEF CarriesDigest
  <2>3. Bound(tr'[R]) = Bound(tr[R]) /\ PointerOK(tr'[R])
    BY <1>2, <1>5, <2>1, <2>2, BoundSetState
  <2> QED BY <1>2, <1>3, <1>4, <2>1, <2>3, BindPass
<1>7. CASE LeaveChallenge(R)
  <2>1. op = "challenge" /\ chal'[R] = chal[R] \cup {<<p, Received(R)>>} /\ tr' = tr
    BY <1>0, <1>2, <1>7 DEF LeaveChallenge, Completes, At, Adopt, MatchInv, TypeOK
  <2>2. op \in CarriesDigest
    BY <2>1 DEF CarriesDigest
  <2>3. \A c \in chal'[R] : c \in chal[R] \/ (c[1] = p /\ p # 1 /\ BoundItems(c[2]) = Bound(tr[R]))
    BY <1>3, <1>5, <2>1, <2>2
  <2>4. Bound(tr'[R]) = Bound(tr[R]) /\ PointerOK(tr'[R])
    BY <1>2, <2>1
  <2> QED BY <1>2, <1>3, <1>4, <2>3, <2>4, BindPass
<1>8. CASE LeaveOther(R)
  <2>1. tr' = tr /\ chal' = chal
    BY <1>8 DEF LeaveOther
  <2> QED BY <1>2, <1>3, <1>4, <2>1, BindPass
<1> QED BY <1>6, <1>7, <1>8

(* Every step keeps the invariant.                                         *)
LEMMA BindNext ==
  ASSUME StartsNew, MatchInv, BindInv, [Next]_vars
  PROVE  BindInv'
<1>1. CASE UNCHANGED vars
  BY <1>1 DEF vars, BindInv, OwnDigestOK, RootBound, ChallengesBindTranscript, Received, Current
<1>2. ASSUME NEW r \in Rank, Step(r)
      PROVE  BindInv'
  <2>1. CASE r # ROOT_RANK
    BY <1>2, <2>1, BindOther
  <2>2. CASE r = ROOT_RANK
    <3>1. CASE New(r) \/ AppendOp(r) \/ Commit(r) \/ Refresh(r) \/ Lock(r) \/ Unlock(r) \/ Finish(r)
      <4>1. PICK t : LocalStep(ROOT_RANK, t)
        BY <2>2, <3>1 DEF New, AppendOp, Commit, Refresh, Lock, Unlock, Finish
      <4>2. UNCHANGED chal
        BY <3>1 DEF New, AppendOp, Commit, Refresh, Lock, Unlock, Finish
      <4> QED BY <2>2, <3>1, <4>1, <4>2, BindLocal
    <3>2. CASE Sample(r) \/ Fill(r) \/ ReadCoefs(r) \/ Dump(r)
      BY <2>2, <3>2, BindWalk
    <3>3. CASE Enter(r)
      BY <2>2, <3>3, BindEnter
    <3>4. CASE LeaveSync(r) \/ LeaveChallenge(r) \/ LeaveOther(r)
      BY <2>2, <3>4, BindLeave
    <3>5. ~SkipRootOnly(r)
      BY <2>2 DEF SkipRootOnly
    <3> QED BY <1>2, <3>1, <3>2, <3>3, <3>4, <3>5 DEF Step
  <2> QED BY <2>1, <2>2
<1> QED BY <1>1, <1>2 DEF Next, Done

(* For every program that begins with a new transcript: a challenge of the *)
(* root is a hash of all that the root appended since the commitment, in   *)
(* that order, and of nothing else.                                        *)
THEOREM ChallengesBind ==
  ASSUME StartsNew, CollectivesOnAllRanks
  PROVE  Spec => []ChallengesBindTranscript
<1>1. Init => BindInv
  BY BindInit
<1>2. MatchInv /\ BindInv /\ [Next]_vars => BindInv'
  BY BindNext
<1>3. BindInv => ChallengesBindTranscript
  BY DEF BindInv
<1> QED
  BY <1>1, <1>2, <1>3, MatchInvariant, PTL DEF Spec

-----------------------------------------------------------------------------
(* The locks of the transcripts, and why the ranks never get stuck.        *)

(* The calls that change the lock of a transcript, and those that leave it *)
(* open.                                                                   *)
LockOps   == {"lock", "unlock", "new", "finish"}
Unlocking == {"unlock", "new", "finish"}

(* The program has locked the proof before position p and not unlocked it. *)
HoldsLock(p) ==
  \E l \in Calls({"lock"}) : l < p /\ \A u \in Calls(Unlocking) : l < u => p <= u

(* All ranks lock, unlock and finish, in turn, and finish before a dump.   *)
LocksAlternate ==
  /\ \A p \in Calls(LockOps) : Prog[p].who = "all"
  /\ \A p \in Calls({"lock"}) : ~HoldsLock(p)
  /\ \A p \in Calls({"unlock"}) : HoldsLock(p)
  /\ \A p \in Calls({"dump"}) : \E f \in Calls({"finish"}) : f < p

(* A transcript is locked exactly between a lock and the call that opens   *)
(* it; a rank that has passed a finish has a proof. Together they are the  *)
(* inductive invariant.                                                    *)
LockedOK   == \A r \in Rank : tr[r].proof_locked <=> HoldsLock(pc[r])
FinishedOK == \A r \in Rank : (\E f \in Calls({"finish"}) : f < pc[r]) => proofs[r] # <<>>
LockInv    == LockedOK /\ FinishedOK

(* How passing a call changes what the program holds.                      *)
LEMMA HoldsLockNext ==
  ASSUME NEW p \in Pos
  PROVE  /\ Prog[p].op = "lock" => HoldsLock(p + 1)
         /\ Prog[p].op \in Unlocking => ~HoldsLock(p + 1)
         /\ Prog[p].op \notin LockOps => (HoldsLock(p + 1) <=> HoldsLock(p))
<1>1. p \in Nat /\ \A S : Calls(S) \subseteq Nat
  BY OpType DEF Calls
<1>2. ASSUME Prog[p].op = "lock" PROVE HoldsLock(p + 1)
  <2>1. p \in Calls({"lock"}) /\ p < p + 1
    BY <1>1, <1>2 DEF Calls
  <2>2. \A u \in Calls(Unlocking) : p < u => p + 1 <= u
    BY <1>1
  <2> QED BY <2>1, <2>2 DEF HoldsLock
<1>3. ASSUME Prog[p].op \in Unlocking, HoldsLock(p + 1) PROVE FALSE
  <2>1. PICK l \in Calls({"lock"}) : l < p + 1 /\ \A u \in Calls(Unlocking) : l < u => p + 1 <= u
    BY <1>3 DEF HoldsLock
  <2>2. l # p /\ l \in Nat
    BY <1>1, <1>3 DEF Calls, Unlocking
  <2>3. p \in Calls(Unlocking) /\ l < p
    BY <1>1, <1>3, <2>1, <2>2 DEF Calls
  <2>4. p + 1 <= p
    BY <2>1, <2>3
  <2> QED BY <1>1, <2>4
<1>4. ASSUME Prog[p].op \notin LockOps PROVE HoldsLock(p + 1) <=> HoldsLock(p)
  <2>1. \A l \in Calls({"lock"}) : l \in Nat /\ l # p
    BY <1>1, <1>4 DEF Calls, LockOps
  <2>2. \A u \in Calls(Unlocking) : u \in Nat /\ u # p
    BY <1>1, <1>4 DEF Calls, LockOps, Unlocking
  <2>3. \A l \in Calls({"lock"}) : l < p + 1 <=> l < p
    BY <1>1, <2>1
  <2>4. \A u \in Calls(Unlocking) : p + 1 <= u <=> p <= u
    BY <1>1, <2>2
  <2> QED BY <2>3, <2>4 DEF HoldsLock
<1> QED BY <1>2, <1>3, <1>4

(* What each step of a rank does to its own lock.                          *)
LEMMA StepLocks ==
  ASSUME MatchInv, NEW r \in Rank, Step(r)
  PROVE  \/ pc' = pc /\ tr'[r].proof_locked = tr[r].proof_locked /\ proofs' = proofs
         \/ /\ pc'[r] = pc[r] + 1
            /\ Current(r).who = "all" \/ r = ROOT_RANK \/ SkipRootOnly(r)
            /\ \/ SkipRootOnly(r) /\ tr' = tr /\ proofs' = proofs
               \/ Current(r).op = "lock" /\ tr'[r].proof_locked /\ proofs' = proofs
               \/ Current(r).op \in {"unlock", "new"} /\ ~tr'[r].proof_locked /\ proofs' = proofs
               \/ /\ Current(r).op = "finish" /\ ~tr'[r].proof_locked
                  /\ proofs'[r] # <<>> /\ \A q \in Rank \ {r} : proofs'[q] = proofs[q]
               \/ /\ Current(r).op \notin LockOps
                  /\ tr'[r].proof_locked = tr[r].proof_locked /\ proofs' = proofs
<1>0. /\ pc \in [Rank -> 1 .. Len(Prog) + 1] /\ tr \in [Rank -> Transcript(Item)]
      /\ tr[r] \in Transcript(Item) /\ proofs \in [Rank -> Seq(Seq(Item))]
      /\ proofs[r] \in Seq(Seq(Item)) /\ LockOK(tr[r])
  BY DEF MatchInv, TypeOK, LocksOK
<1>1. CASE SkipRootOnly(r)
  BY <1>0, <1>1 DEF SkipRootOnly, Advance
<1>2. CASE New(r)
  <2>1. NewTranscript \in Transcript(Item) /\ ~NewTranscript.proof_locked
    BY NewType DEF NewTranscript
  <2>2. /\ At(r, "new") /\ pc'[r] = pc[r] + 1 /\ tr'[r] = NewTranscript /\ proofs' = proofs
    BY <1>0, <1>2 DEF New, LocalStep, Advance
  <2> HIDE DEF NewTranscript
  <2>3. ~tr'[r].proof_locked
    BY <2>1, <2>2
  <2>4. Current(r).op = "new" /\ (Current(r).who = "all" \/ r = ROOT_RANK)
    BY <2>2 DEF At
  <2> QED BY <2>2, <2>3, <2>4
<1>3. CASE AppendOp(r) \/ Refresh(r) \/ Sample(r) \/ Fill(r) \/ ReadCoefs(r) \/ Dump(r)
  <2>1. /\ \E op \in {"append", "refresh", "sample", "fill", "read", "dump"} : At(r, op)
        /\ pc'[r] = pc[r] + 1 /\ proofs' = proofs
    BY <1>0, <1>3
    DEF AppendOp, Refresh, Sample, Fill, ReadCoefs, Dump, LocalStep, Advance
  <2>2. tr'[r] = AppendItem(tr[r], ItemOf(r)) \/ tr'[r] = RefreshDigest(tr[r]) \/ tr'[r] = tr[r]
    BY <1>0, <1>3 DEF AppendOp, Refresh, Sample, Fill, ReadCoefs, Dump, LocalStep
  <2>3. tr'[r].proof_locked = tr[r].proof_locked
    BY <1>0, <2>2 DEF AppendItem, RefreshDigest, Transcript
  <2> QED BY <2>1, <2>3 DEF At, LockOps
<1>4. CASE Commit(r)
  BY <1>0, <1>4
  DEF Commit, LocalStep, Advance, At, LockOps, AppendCommitment, AppendItem, SetState, Transcript
<1>5. CASE Lock(r)
  BY <1>0, <1>5 DEF Lock, LocalStep, Advance, At, LockProof, Transcript
<1>6. CASE Unlock(r)
  BY <1>0, <1>6 DEF Unlock, LocalStep, Advance, At, UnlockProof, Transcript
<1>7. CASE Finish(r)
  <2> DEFINE t == FinalizeAndGetProof(tr[r])
  <2>1. t \in Transcript(Item) /\ ~t.proof_locked
    BY <1>0, FinalizeType DEF FinalizeAndGetProof, UnlockProof, Transcript
  <2>2. t.proof \in Seq(Item)
    BY <2>1 DEF Transcript
  <2>3. /\ At(r, "finish") /\ Advance(r) /\ tr' = [tr EXCEPT ![r] = t]
        /\ proofs' = [proofs EXCEPT ![r] = Append(proofs[r], t.proof)]
    BY <1>7 DEF Finish, LocalStep
  <2> HIDE DEF t
  <2>4. Append(proofs[r], t.proof) # <<>>
    <3>1. Len(Append(proofs[r], t.proof)) = Len(proofs[r]) + 1 /\ Len(proofs[r]) \in Nat
      BY <1>0, <2>2, AppendProperties, LenProperties
    <3>2. Len(Append(proofs[r], t.proof)) # 0
      BY <3>1
    <3> QED BY <3>2, EmptySeq, Zenon
  <2>5. /\ tr'[r] = t /\ proofs'[r] # <<>> /\ pc'[r] = pc[r] + 1
        /\ \A q \in Rank \ {r} : proofs'[q] = proofs[q]
    BY <1>0, <2>3, <2>4 DEF Advance
  <2> QED BY <2>1, <2>3, <2>5 DEF At
<1>8. CASE Enter(r)
  BY <1>0, <1>8 DEF Enter, RefreshDigest, Transcript
<1>9. CASE LeaveSync(r) \/ LeaveChallenge(r) \/ LeaveOther(r)
  <2>1. PICK op \in CollectiveOp : Completes(r, op)
    BY <1>9 DEF LeaveSync, LeaveChallenge, LeaveOther, CollectiveOp, RootFirstOp
  <2>2. /\ Current(r).op \notin LockOps /\ pc'[r] = pc[r] + 1 /\ proofs' = proofs
        /\ Current(r).who = "all" \/ r = ROOT_RANK
    BY <1>0, <2>1 DEF Completes, At, Advance, CollectiveOp, RootFirstOp, LeavesFirstOp, LockOps
  <2>3. tr'[r].proof_locked = tr[r].proof_locked
    BY <1>0, <1>9 DEF LeaveSync, LeaveChallenge, LeaveOther, SetState, Transcript
  <2> QED BY <2>2, <2>3
<1> QED
  BY <1>1, <1>2, <1>3, <1>4, <1>5, <1>6, <1>7, <1>8, <1>9 DEF Step

(* At the start no transcript is locked and no rank has finished.          *)
LEMMA LockInit == Init => LockInv
<1> SUFFICES ASSUME Init PROVE LockInv
  OBVIOUS
<1>1. \A S : \A p \in Calls(S) : ~(p < 1)
  BY OpType DEF Calls
<1>2. \A r \in Rank : pc[r] = 1 /\ ~tr[r].proof_locked
  BY DEF Init, NewTranscript
<1> QED BY <1>1, <1>2 DEF LockInv, LockedOK, FinishedOK, HoldsLock

(* Every step keeps the invariant.                                         *)
LEMMA LockNext ==
  ASSUME LocksAlternate, MatchInv, LockInv, [Next]_vars
  PROVE  LockInv'
<1>1. CASE UNCHANGED vars
  BY <1>1 DEF vars, LockInv, LockedOK, FinishedOK, HoldsLock
<1>2. ASSUME NEW r \in Rank, Step(r)
      PROVE  LockInv'
  <2>1. Running(r) /\ pc[r] \in Pos /\ Current(r) = Prog[pc[r]] /\ pc[r] \in Nat
    <3>1. Running(r)
      BY <1>2, StepKinds
    <3> QED BY <3>1, RunningType, OpType DEF MatchInv, Current
  <2>2. SkipRootOnly(r) => Prog[pc[r]].op \notin LockOps
    BY <2>1 DEF SkipRootOnly, LocksAlternate, Calls
  <2>3. ASSUME NEW q \in Rank, q # r
        PROVE  pc'[q] = pc[q] /\ tr'[q] = tr[q] /\ proofs'[q] = proofs[q]
    BY <1>2, <2>3, StepIsLocal, StepLocks
  <2>4. /\ tr'[r].proof_locked <=> HoldsLock(pc'[r])
        /\ (\E f \in Calls({"finish"}) : f < pc'[r]) => proofs'[r] # <<>>
    <3>1. CASE pc' = pc /\ tr'[r].proof_locked = tr[r].proof_locked /\ proofs' = proofs
      BY <3>1 DEF LockInv, LockedOK, FinishedOK
    <3>2. CASE pc'[r] = pc[r] + 1 /\ Prog[pc[r]].op = "finish"
               /\ ~tr'[r].proof_locked /\ proofs'[r] # <<>>
      BY <2>1, <3>2, HoldsLockNext DEF Unlocking
    <3>3. CASE pc'[r] = pc[r] + 1 /\ proofs' = proofs /\ Prog[pc[r]].op # "finish"
               /\ (tr'[r].proof_locked <=> HoldsLock(pc[r] + 1))
      <4>1. \A f \in Calls({"finish"}) : f < pc[r] + 1 => f < pc[r]
        BY <2>1, <3>3, OpType DEF Calls
      <4> QED BY <3>3, <4>1 DEF LockInv, FinishedOK
    <3>4. ASSUME pc'[r] = pc[r] + 1, Prog[pc[r]].op \notin LockOps, proofs' = proofs,
                 tr'[r].proof_locked = tr[r].proof_locked
          PROVE  (tr'[r].proof_locked <=> HoldsLock(pc[r] + 1)) /\ Prog[pc[r]].op # "finish"
      BY <2>1, <3>4, HoldsLockNext DEF LockOps, LockInv, LockedOK
    <3>5. ASSUME Prog[pc[r]].op = "lock" \/ Prog[pc[r]].op \in {"unlock", "new"},
                 Prog[pc[r]].op = "lock" => tr'[r].proof_locked,
                 Prog[pc[r]].op \in {"unlock", "new"} => ~tr'[r].proof_locked
          PROVE  (tr'[r].proof_locked <=> HoldsLock(pc[r] + 1)) /\ Prog[pc[r]].op # "finish"
      BY <2>1, <3>5, HoldsLockNext DEF Unlocking
    <3> QED BY <1>2, <2>1, <2>2, <3>1, <3>2, <3>3, <3>4, <3>5, StepLocks
  <2> QED BY <2>3, <2>4 DEF LockInv, LockedOK, FinishedOK, HoldsLock
<1> QED BY <1>1, <1>2 DEF Next, Done

(* Of the ranks, one is behind all the others.                             *)
LEMMA LastRank ==
  ASSUME MatchInv
  PROVE  \E r \in Rank : \A q \in Rank : pc[r] <= pc[q]
<1> DEFINE S == {pc[r] : r \in Rank}
<1>1. S \subseteq Nat /\ S # {}
  BY RootIsRank, PositionType
<1> HIDE DEF S
<1>2. \E n \in S : \A m \in S : n <= m
  BY <1>1, LeastMember
<1> QED BY <1>2 DEF S

(* A rank that is behind all the others, or its equal, can go on.          *)
LEMMA SomeRankCanStep ==
  ASSUME CollectivesOnAllRanks, LocksAlternate, MatchInv, LockInv
  PROVE  NeverStuck
<1> SUFFICES ASSUME ~AllDone PROVE \E r \in Rank : CanStep(r)
  BY DEF NeverStuck
<1>1. PICK r \in Rank : \A q \in Rank : pc[r] <= pc[q]
  BY LastRank
<1>2. Running(r)
  <2>1. PICK q \in Rank : Running(q)
    BY DEF AllDone
  <2>2. pc[r] <= pc[q] /\ pc[q] <= Len(Prog) /\ pc[r] \in Nat /\ pc[q] \in Nat /\ Len(Prog) \in Nat
    BY <1>1, <2>1, PositionType, OpType DEF Running
  <2> QED BY <2>2 DEF Running
<1> DEFINE p  == pc[r]
           op == Prog[p].op
<1>3. /\ p \in Pos /\ p \in Nat \ {0} /\ Current(r) = Prog[p]
      /\ op \in LocalOp \cup CollectiveOp /\ Prog[p].who \in {"all", "root"}
  BY <1>2, RunningType, OpType DEF MatchInv, Current
<1>4. CASE Prog[p].who = "root" /\ r # ROOT_RANK
  BY <1>2, <1>3, <1>4 DEF CanStep
<1>5. CASE ~(Prog[p].who = "root" /\ r # ROOT_RANK) /\ op \in LocalOp
  <2>1. At(r, op)
    BY <1>2, <1>3, <1>5 DEF At
  <2>2. op = "lock" => ~tr[r].proof_locked
    BY <1>3 DEF LockInv, LockedOK, LocksAlternate, Calls
  <2>3. op = "unlock" => tr[r].proof_locked
    BY <1>3 DEF LockInv, LockedOK, LocksAlternate, Calls
  <2>4. op = "dump" => proofs[r] # <<>>
    BY <1>3 DEF LockInv, FinishedOK, LocksAlternate, Calls
  <2> HIDE DEF op
  <2> QED BY <1>5, <2>1, <2>2, <2>3, <2>4 DEF CanStep
<1>6. CASE op \in CollectiveOp
  <2>1. p \in Calls(CollectiveOp)
    BY <1>3, <1>6 DEF Calls
  <2>2. ASSUME NEW q \in Rank, pc[q] = p
        PROVE  At(q, op)
    BY <1>2, <1>3, <2>1, <2>2 DEF At, Running, Current, CollectivesOnAllRanks
  <2>3. CASE \E q \in Rank : pc[q] = p /\ ~inside[q]
    <3>1. PICK q \in Rank : pc[q] = p /\ ~inside[q]
      BY <2>3
    <3>2. At(q, op)
      BY <2>2, <3>1
    <3> HIDE DEF op
    <3> QED BY <1>6, <3>1, <3>2 DEF CanStep
  <2>4. CASE \A q \in Rank : pc[q] = p => inside[q]
    <3>1. ASSUME NEW q \in Rank PROVE HasJoined(q, r)
      <4>1. /\ pc[q] \in Nat \ {0} /\ p <= pc[q] /\ inside[r]
            /\ Len(posted[r]) = CollNo(p) + 1
            /\ Len(posted[q]) = CollNo(pc[q]) + (IF inside[q] THEN 1 ELSE 0)
            /\ CollNo(p) \in Nat /\ CollNo(pc[q]) \in Nat
        BY <1>1, <1>3, <2>4, PositionType, CollNoNext DEF MatchInv, CountOK
      <4>2. CASE pc[q] = p
        BY <2>4, <4>1, <4>2 DEF HasJoined
      <4>3. CASE pc[q] # p
        <5>1. p < pc[q]
          BY <1>3, <4>1, <4>3
        <5>2. CollNo(p) < CollNo(pc[q])
          BY <1>3, <2>1, <4>1, <5>1, CountMonotonic DEF CollNo
        <5>3. Len(posted[q]) >= Len(posted[r])
          BY <4>1, <5>2
        <5> QED BY <5>3 DEF HasJoined
      <4> QED BY <4>2, <4>3
    <3>2. HasArrived(r, op) /\ At(r, op)
      BY <2>2, <3>1, RootIsRank DEF HasArrived
    <3> HIDE DEF op
    <3> QED BY <1>6, <3>2 DEF CanStep
  <2> QED BY <2>3, <2>4
<1> QED BY <1>3, <1>4, <1>5, <1>6

(* Ranks that meet in every collective, lock and unlock in turn and finish *)
(* before they dump never get stuck.                                       *)
THEOREM RanksNeverStuck ==
  ASSUME CollectivesOnAllRanks, LocksAlternate
  PROVE  Spec => []NeverStuck
<1>1. Init => LockInv
  BY LockInit
<1>2. MatchInv /\ LockInv /\ [Next]_vars => LockInv'
  BY LockNext
<1>3. MatchInv /\ LockInv => NeverStuck
  BY SomeRankCanStep
<1> QED
  BY <1>1, <1>2, <1>3, MatchInvariant, PTL DEF Spec
==============================================================================
