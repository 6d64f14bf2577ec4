------------------------------ MODULE SnarkProofs ------------------------------
(***************************************************************************)
(* The verifier derives the challenges of the prover, whatever the circuit *)
(* and the commitment scheme.                                              *)
(*                                                                         *)
(* The two programs differ: the prover fills coefficients, opens claims    *)
(* and talks over MPI where the verifier parses, expects and takes.  But   *)
(* call by call they do the same to a transcript: they append, commit,     *)
(* draw, refresh and lock alike.  These are their events.  The first half  *)
(* shows that the programs have the same sequence of events in            *)
(* ProgramsMatch, the second that a transcript and the challenges drawn    *)
(* from it depend on the events alone: the root's and the verifier's are   *)
(* those the events lead through (FollowInv), so they are equal            *)
(* (VerifierFollows).                                                      *)
(***************************************************************************)
EXTENDS ScriptProofs, GkrSnark

-----------------------------------------------------------------------------
(* The phase a program is in: "start" before the transcript is made,       *)
(* "fresh" before the commitment, then "bound", "locked" between lock and  *)
(* unlock, "done" once the proof is finished and "filed" once it is        *)
(* written.                                                                *)
Phase == {"start", "fresh", "bound", "locked", "done", "filed"}
Live  == {"bound", "locked"}

(* The calls of both programs.                                             *)
Call == [op : LocalOp \cup CollectiveOp \cup VerifierOp, who : {"all", "root"}, arg : Arg]

(* The calls that draw a challenge.                                        *)
DrawOp == {"sample", "fill", "challenge"}

(* What a call is called in, and what it leads to. In recursion builds the *)
(* commitment does not start the digest over, so no sync may come before   *)
(* it.                                                                     *)
Legal(o, m) ==
  /\ CASE o.op = "new"                      -> m = "start"
       [] o.op \in {"commit", "parsecom"}   -> m = "fresh"
       [] o.op \in {"lock", "finish"}       -> m = "bound"
       [] o.op = "unlock"                   -> m = "locked"
       [] o.op = "dump"                     -> m = "done" /\ o.who = "root"
       [] o.op \in DrawOp \cup {"refresh"}  -> m \in Live
       [] OTHER                             -> m \in Live \cup {"fresh"}
  /\ o.op = "sync" /\ m = "fresh" => ~Recursion

(* The phase after a call.                                                 *)
PhaseAfter(op, m) ==
  CASE op = "new"                            -> "fresh"
    [] op \in {"commit", "parsecom", "unlock"} -> "bound"
    [] op = "lock"                           -> "locked"
    [] op = "finish"                         -> "done"
    [] op = "dump"                           -> "filed"
    [] OTHER                                 -> m

(* What a call in a phase does to the transcript. A sync hashes what is    *)
(* unhashed, as a refresh does; one before the commitment is forgotten     *)
(* with it.                                                                *)
Mark(x) == [ev |-> x, arg |-> <<>>]
Event   == [ev : {"append", "commit"}, arg : Arg] \cup {Mark(x) : x \in {"draw", "refresh", "lock", "unlock"}}

EventOf(o, m) ==
  CASE o.op \in {"append", "parse"}    -> << [ev |-> "append", arg |-> o.arg] >>
    [] o.op \in {"commit", "parsecom"} -> << [ev |-> "commit", arg |-> o.arg] >>
    [] o.op \in DrawOp                 -> << Mark("draw") >>
    [] o.op = "refresh"                -> << Mark("refresh") >>
    [] o.op = "sync" /\ m # "fresh"    -> << Mark("refresh") >>
    [] o.op \in {"lock", "unlock"}     -> << Mark(o.op) >>
    [] OTHER                           -> <<>>

(* The i-th call of s is legal, leads to the next phase, and adds its      *)
(* event to e: n counts what the calls before it added.                    *)
Passes(s, e, n, ph, i) ==
  /\ Legal(s[i], ph[i])
  /\ ph[i + 1] = PhaseAfter(s[i].op, ph[i])
  /\ n[i + 1] = n[i] + Len(EventOf(s[i], ph[i]))
  /\ \A j \in 1 .. Len(EventOf(s[i], ph[i])) : e[n[i] + j] = EventOf(s[i], ph[i])[j]

IsWalk(s, e, m, m2, n, ph) ==
  /\ n \in [1 .. Len(s) + 1 -> 0 .. Len(e)] /\ ph \in [1 .. Len(s) + 1 -> Phase]
  /\ n[1] = 0 /\ n[Len(s) + 1] = Len(e)
  /\ ph[1] = m /\ ph[Len(s) + 1] = m2
  /\ \A i \in 1 .. Len(s) : Passes(s, e, n, ph, i)

(* The piece s leads from phase m to phase m2 by the events e.             *)
Traces(s, e, m, m2) ==
  s \in Seq(Call) /\ e \in Seq(Event) /\ \E n, ph : IsWalk(s, e, m, m2, n, ph)

(* A call has at most one event.                                           *)
LEMMA EventType ==
  ASSUME NEW o \in Call, NEW m
  PROVE  /\ EventOf(o, m) \in Seq(Event) /\ Len(EventOf(o, m)) \in {0, 1}
         /\ EventOf(o, m) = <<>> \/ \E x \in Event : EventOf(o, m) = <<x>>
<1>1. /\ [ev |-> "append", arg |-> o.arg] \in Event /\ [ev |-> "commit", arg |-> o.arg] \in Event
      /\ \A x \in {"draw", "refresh", "lock", "unlock"} : Mark(x) \in Event
  BY DEF Event, Mark, Call
<1>2. EventOf(o, m) = <<>> \/ \E x \in Event : EventOf(o, m) = <<x>>
  BY <1>1 DEF EventOf
<1>3. CASE EventOf(o, m) = <<>>
  BY <1>3
<1>4. ASSUME NEW x \in Event, EventOf(o, m) = <<x>>
      PROVE  EventOf(o, m) \in Seq(Event) /\ Len(EventOf(o, m)) \in {0, 1}
  BY <1>4
<1> QED BY <1>2, <1>3, <1>4

(* A phase leads to a phase.                                               *)
LEMMA PhaseType ==
  ASSUME NEW op, NEW m \in Phase
  PROVE  PhaseAfter(op, m) \in Phase
BY DEF PhaseAfter, Phase

(* The empty piece and a single call.                                      *)
LEMMA TraceEmpty ==
  ASSUME NEW m \in Phase
  PROVE  Traces(<<>>, <<>>, m, m)
<1> DEFINE n == [i \in 1 .. 1 |-> 0]
           ph == [i \in 1 .. 1 |-> m]
           s == <<>>
<1>1. s \in Seq(Call) /\ s \in Seq(Event) /\ Len(s) = 0
  OBVIOUS
<1> HIDE DEF s
<1>2. IsWalk(s, s, m, m, n, ph)
  BY <1>1 DEF IsWalk
<1> QED BY <1>1, <1>2 DEF Traces, s

(* A legal call makes a piece of its one event.                            *)
LEMMA TraceOne ==
  ASSUME NEW o \in Call, NEW m \in Phase, Legal(o, m)
  PROVE  Traces(<<o>>, EventOf(o, m), m, PhaseAfter(o.op, m))
<1> DEFINE e == EventOf(o, m)
           n == [i \in 1 .. 2 |-> IF i = 1 THEN 0 ELSE Len(e)]
           ph == [i \in 1 .. 2 |-> IF i = 1 THEN m ELSE PhaseAfter(o.op, m)]
           s == <<o>>
<1>1. s \in Seq(Call) /\ Len(s) = 1 /\ s[1] = o /\ e \in Seq(Event) /\ Len(e) \in Nat
  BY EventType
<1>2. PhaseAfter(o.op, m) \in Phase
  BY PhaseType
<1> HIDE DEF s
<1>3. ph[1] = m /\ ph[2] = PhaseAfter(o.op, m) /\ n[1] = 0 /\ n[2] = Len(e)
  OBVIOUS
<1>4. ph \in [1 .. 2 -> Phase]
  BY <1>2
<1>5. n \in [1 .. 2 -> 0 .. Len(e)]
  BY <1>1
<1> HIDE DEF n, ph
<1>6. Passes(s, e, n, ph, 1)
  BY <1>1, <1>3 DEF Passes
<1>7. IsWalk(s, e, m, PhaseAfter(o.op, m), n, ph)
  BY <1>1, <1>3, <1>4, <1>5, <1>6 DEF IsWalk
<1> QED BY <1>1, <1>7 DEF Traces, s

(* Two pieces in a row.                                                    *)
LEMMA TraceJoin ==
  ASSUME NEW s, NEW e, NEW t, NEW f, NEW m, NEW m1, NEW m2,
         Traces(s, e, m, m1), Traces(t, f, m1, m2)
  PROVE  Traces(s \o t, e \o f, m, m2)
<1>1. PICK n, ph : IsWalk(s, e, m, m1, n, ph)
  BY DEF Traces
<1>2. PICK o, qh : IsWalk(t, f, m1, m2, o, qh)
  BY DEF Traces
<1>3. /\ s \in Seq(Call) /\ t \in Seq(Call) /\ e \in Seq(Event) /\ f \in Seq(Event)
  BY DEF Traces
<1> DEFINE a == Len(s)
           b == Len(t)
           st == s \o t
           ef == e \o f
           nn == [i \in 1 .. a + b + 1 |-> IF i <= a + 1 THEN n[i] ELSE Len(e) + o[i - a]]
           pp == [i \in 1 .. a + b + 1 |-> IF i <= a + 1 THEN ph[i] ELSE qh[i - a]]
<1>4. /\ a \in Nat /\ b \in Nat /\ Len(e) \in Nat /\ Len(f) \in Nat
      /\ st \in Seq(Call) /\ Len(st) = a + b
      /\ ef \in Seq(Event) /\ Len(ef) = Len(e) + Len(f)
  BY <1>3, LenProperties, ConcatProperties
<1>5. \A i \in 1 .. a : st[i] = s[i]
  BY <1>3, ConcatProperties
<1>6. ASSUME NEW i \in 1 .. b PROVE st[a + i] = t[i]
  BY <1>3, ConcatProperties
<1>7. \A i \in 1 .. Len(e) : ef[i] = e[i]
  BY <1>3, ConcatProperties
<1>8. ASSUME NEW i \in 1 .. Len(f) PROVE ef[Len(e) + i] = f[i]
  BY <1>3, ConcatProperties
<1>9. /\ n \in [1 .. a + 1 -> 0 .. Len(e)] /\ ph \in [1 .. a + 1 -> Phase]
      /\ n[1] = 0 /\ n[a + 1] = Len(e) /\ ph[1] = m /\ ph[a + 1] = m1
      /\ \A i \in 1 .. a : Passes(s, e, n, ph, i)
  BY <1>1 DEF IsWalk
<1>10. /\ o \in [1 .. b + 1 -> 0 .. Len(f)] /\ qh \in [1 .. b + 1 -> Phase]
       /\ o[1] = 0 /\ o[b + 1] = Len(f) /\ qh[1] = m1 /\ qh[b + 1] = m2
       /\ \A i \in 1 .. b : Passes(t, f, o, qh, i)
  BY <1>2 DEF IsWalk
<1> HIDE DEF a, b, st, ef
<1>11. \A i \in 1 .. a + 1 : nn[i] = n[i] /\ pp[i] = ph[i]
  BY <1>4
<1>12. ASSUME NEW i \in 1 .. b + 1
       PROVE  nn[a + i] = Len(e) + o[i] /\ pp[a + i] = qh[i]
  <2>1. a + i \in 1 .. a + b + 1 /\ (a + i) - a = i
    BY <1>4
  <2>2. CASE i = 1
    BY <1>4, <1>9, <1>10, <1>11, <2>2
  <2>3. CASE i # 1
    <3>1. ~(a + i <= a + 1)
      BY <1>4, <2>3
    <3> QED BY <2>1, <3>1
  <2> QED BY <2>2, <2>3
<1>13. nn \in [1 .. a + b + 1 -> 0 .. Len(ef)] /\ pp \in [1 .. a + b + 1 -> Phase]
  <2> SUFFICES ASSUME NEW i \in 1 .. a + b + 1
               PROVE  /\ (IF i <= a + 1 THEN n[i] ELSE Len(e) + o[i - a]) \in 0 .. Len(ef)
                      /\ (IF i <= a + 1 THEN ph[i] ELSE qh[i - a]) \in Phase
    OBVIOUS
  <2>1. CASE i <= a + 1
    <3>1. i \in 1 .. a + 1
      BY <1>4, <2>1
    <3> QED BY <1>4, <1>9, <2>1, <3>1
  <2>2. CASE ~(i <= a + 1)
    <3>1. i - a \in 1 .. b + 1
      BY <1>4, <2>2
    <3>2. o[i - a] \in 0 .. Len(f) /\ qh[i - a] \in Phase
      BY <1>10, <3>1
    <3> QED BY <1>4, <2>2, <3>2, SMTT(60)
  <2> QED BY <2>1, <2>2
<1> HIDE DEF nn, pp
<1>14. ASSUME NEW i \in 1 .. a PROVE Passes(st, ef, nn, pp, i)
  <2>1. i \in 1 .. a + 1 /\ i + 1 \in 1 .. a + 1
    BY <1>4
  <2>2. /\ st[i] = s[i] /\ nn[i] = n[i] /\ pp[i] = ph[i] /\ nn[i + 1] = n[i + 1] /\ pp[i + 1] = ph[i + 1]
    BY <1>5, <1>11, <2>1
  <2> DEFINE v == EventOf(s[i], ph[i])
  <2>3. /\ Legal(s[i], ph[i]) /\ ph[i + 1] = PhaseAfter(s[i].op, ph[i])
        /\ n[i + 1] = n[i] + Len(v) /\ \A j \in 1 .. Len(v) : e[n[i] + j] = v[j]
    BY <1>9 DEF Passes
  <2> HIDE DEF v
  <2>4. n[i] \in 0 .. Len(e) /\ n[i + 1] \in 0 .. Len(e)
    BY <1>9, <2>1
  <2>5. ASSUME NEW j \in 1 .. Len(v) PROVE ef[n[i] + j] = v[j]
    <3>1. n[i] + j \in 1 .. Len(e)
      BY <2>3, <2>4
    <3> QED BY <1>7, <2>3, <3>1
  <2> QED BY <2>2, <2>3, <2>5 DEF Passes, v
<1>15. ASSUME NEW i \in 1 .. b PROVE Passes(st, ef, nn, pp, a + i)
  <2>1. i \in 1 .. b + 1 /\ i + 1 \in 1 .. b + 1 /\ (a + i) + 1 = a + (i + 1)
    BY <1>4
  <2>2. /\ st[a + i] = t[i] /\ nn[a + i] = Len(e) + o[i] /\ pp[a + i] = qh[i]
        /\ nn[(a + i) + 1] = Len(e) + o[i + 1] /\ pp[(a + i) + 1] = qh[i + 1]
    BY <1>6, <1>12, <2>1
  <2> DEFINE v == EventOf(t[i], qh[i])
  <2>3. /\ Legal(t[i], qh[i]) /\ qh[i + 1] = PhaseAfter(t[i].op, qh[i])
        /\ o[i + 1] = o[i] + Len(v) /\ \A j \in 1 .. Len(v) : f[o[i] + j] = v[j]
        /\ Len(v) \in Nat
    <3>1. t[i] \in Call /\ qh[i] \in Phase
      BY <1>3, <1>4, <1>10, <2>1, ElementOfSeq DEF b
    <3>2. Len(v) \in {0, 1}
      BY <3>1, EventType
    <3> QED BY <1>10, <3>2, SMTT(60) DEF Passes
  <2> HIDE DEF v
  <2>4. o[i] \in 0 .. Len(f) /\ o[i + 1] \in 0 .. Len(f)
    BY <1>10, <2>1
  <2>5. ASSUME NEW j \in 1 .. Len(v) PROVE ef[(Len(e) + o[i]) + j] = v[j]
    <3>0. Len(e) \in Nat /\ Len(f) \in Nat /\ Len(v) \in Nat /\ o[i + 1] = o[i] + Len(v)
      BY <1>4, <2>3
    <3>1. o[i] + j \in 1 .. Len(f) /\ (Len(e) + o[i]) + j = Len(e) + (o[i] + j)
      BY <3>0, <2>4, SMTT(60)
    <3>2. ef[Len(e) + (o[i] + j)] = f[o[i] + j]
      BY <1>8, <3>1
    <3> QED BY <2>3, <3>1, <3>2
  <2>6. nn[(a + i) + 1] = nn[a + i] + Len(v)
    BY <1>4, <2>2, <2>3, <2>4
  <2> QED BY <2>2, <2>3, <2>5, <2>6 DEF Passes, v
<1>16. ASSUME NEW i \in 1 .. a + b PROVE Passes(st, ef, nn, pp, i)
  <2>1. CASE i <= a
    BY <1>4, <1>14, <2>1
  <2>2. CASE i > a
    <3>1. i - a \in 1 .. b /\ a + (i - a) = i
      BY <1>4, <2>2
    <3>2. Passes(st, ef, nn, pp, a + (i - a))
      BY <1>15, <3>1
    <3> QED BY <3>1, <3>2
  <2> QED BY <1>4, <2>1, <2>2
<1>17. nn[1] = 0 /\ pp[1] = m /\ nn[a + b + 1] = Len(ef) /\ pp[a + b + 1] = m2
  <2>1. 1 \in 1 .. a + 1 /\ b + 1 \in 1 .. b + 1 /\ a + (b + 1) = a + b + 1
    BY <1>4
  <2>2. nn[a + (b + 1)] = Len(e) + o[b + 1] /\ pp[a + (b + 1)] = qh[b + 1]
    BY <1>12, <2>1
  <2> QED BY <1>4, <1>9, <1>10, <1>11, <2>1, <2>2
<1>18. IsWalk(st, ef, m, m2, nn, pp)
  BY <1>4, <1>13, <1>16, <1>17 DEF IsWalk
<1> QED BY <1>4, <1>18 DEF Traces, st, ef

-----------------------------------------------------------------------------
(* The pieces a and b have the same events, a from phase m to m2 and b     *)
(* from phase n to n2.                                                     *)
Matches(a, b, m, n, m2, n2) == \E e : Traces(a, e, m, m2) /\ Traces(b, e, n, n2)

(* The same, from one phase to one phase.                                  *)
Same(a, b, m, m2) == Matches(a, b, m, m, m2, m2)

(* Matching pieces in a row match.                                         *)
LEMMA MatchesJoin ==
  ASSUME NEW a, NEW b, NEW c, NEW d, NEW m, NEW n, NEW m1, NEW n1, NEW m2, NEW n2,
         Matches(a, b, m, n, m1, n1), Matches(c, d, m1, n1, m2, n2)
  PROVE  Matches(a \o c, b \o d, m, n, m2, n2)
<1>1. PICK e : Traces(a, e, m, m1) /\ Traces(b, e, n, n1)
  BY DEF Matches
<1>2. PICK f : Traces(c, f, m1, m2) /\ Traces(d, f, n1, n2)
  BY DEF Matches
<1>3. Traces(a \o c, e \o f, m, m2) /\ Traces(b \o d, e \o f, n, n2)
  BY <1>1, <1>2, TraceJoin
<1> QED BY <1>3 DEF Matches

(* So do pieces from one phase to the next.                                *)
LEMMA SameJoin ==
  ASSUME NEW a, NEW b, NEW c, NEW d, NEW m, NEW m1, NEW m2,
         Same(a, b, m, m1), Same(c, d, m1, m2)
  PROVE  Same(a \o c, b \o d, m, m2)
BY MatchesJoin DEF Same

(* They are pieces of programs.                                            *)
LEMMA SameCalls ==
  ASSUME NEW a, NEW b, NEW m, NEW m2, Same(a, b, m, m2)
  PROVE  a \in Seq(Call) /\ b \in Seq(Call)
BY DEF Same, Matches, Traces

(* Calls of one program that the other has no counterpart for.             *)
LEMMA SilentJoin ==
  ASSUME NEW a, NEW b, NEW s, NEW m, NEW m2, Same(a, b, m, m2)
  PROVE  /\ Same(s, <<>>, m, m) => Same(s \o a, b, m, m2)
         /\ Same(<<>>, s, m, m) => Same(a, s \o b, m, m2)
         /\ Same(s, <<>>, m2, m2) => Same(a \o s, b, m, m2)
         /\ Same(<<>>, s, m2, m2) => Same(a, b \o s, m, m2)
<1>1. <<>> \o a = a /\ a \o <<>> = a /\ <<>> \o b = b /\ b \o <<>> = b
  BY SameCalls, ConcatEmptySeq
<1>2. Same(s, <<>>, m, m) => Same(s \o a, <<>> \o b, m, m2)
  BY SameJoin
<1>3. Same(<<>>, s, m, m) => Same(<<>> \o a, s \o b, m, m2)
  BY SameJoin
<1>4. Same(s, <<>>, m2, m2) => Same(a \o s, b \o <<>>, m, m2)
  BY SameJoin
<1>5. Same(<<>>, s, m2, m2) => Same(a \o <<>>, b \o s, m, m2)
  BY SameJoin
<1> QED BY <1>1, <1>2, <1>3, <1>4, <1>5

(* Empty pieces match,                                                     *)
LEMMA SameEmpty ==
  ASSUME NEW m \in Phase
  PROVE  Same(<<>>, <<>>, m, m)
BY TraceEmpty DEF Same, Matches

(* Loops with matching bodies match, and so does a loop of silent ones     *)
(* with nothing.                                                           *)
LEMMA SameFlatten ==
  ASSUME NEW N \in Nat, NEW F, NEW G, F = [i \in 1 .. N |-> F[i]], G = [i \in 1 .. N |-> G[i]],
         NEW m \in Phase, \A i \in 1 .. N : Same(F[i], G[i], m, m)
  PROVE  Same(FlattenSeq(F), FlattenSeq(G), m, m)
<1> DEFINE P(H, n) == [i \in 1 .. n |-> H[i]]
           S == {n \in Nat : n <= N => Same(FlattenSeq(P(F, n)), FlattenSeq(P(G, n)), m, m)}
<1>1. 0 \in S
  <2>1. P(F, 0) = <<>> /\ P(G, 0) = <<>>
    OBVIOUS
  <2>2. FlattenSeq(<<>>) = <<>>
    BY DEF FlattenSeq
  <2> QED BY <2>1, <2>2, SameEmpty
<1>2. \A i \in 1 .. N : F[i] \in Seq(Call) /\ G[i] \in Seq(Call)
  BY SameCalls
<1>3. ASSUME NEW H, \A i \in 1 .. N : H[i] \in Seq(Call), NEW n \in Nat, n + 1 <= N
      PROVE  FlattenSeq(P(H, n + 1)) = FlattenSeq(P(H, n)) \o H[n + 1]
  <2> DEFINE p == P(H, n)
             q == P(H, n + 1)
  <2>1. p \in Seq(Seq(Call)) /\ q \in Seq(Seq(Call)) /\ Len(p) = n /\ Len(q) = n + 1
    <3>1. \A i \in 1 .. n : p[i] \in Seq(Call)
      BY <1>3
    <3>2. \A i \in 1 .. n + 1 : q[i] \in Seq(Call)
      BY <1>3
    <3>3. p = [i \in 1 .. n |-> p[i]] /\ q = [i \in 1 .. n + 1 |-> q[i]] /\ n + 1 \in Nat
      OBVIOUS
    <3> HIDE DEF p, q
    <3> QED BY <3>1, <3>2, <3>3, FunctionIsSeq
  <2>2. \A i \in 1 .. n : q[i] = p[i]
    OBVIOUS
  <2>3. q[n + 1] = H[n + 1]
    OBVIOUS
  <2> HIDE DEF p, q
  <2>4. FlattenSeq(q) = FlattenSeq(p) \o q[n + 1]
    BY <2>1, <2>2, FlattenNext
  <2> QED BY <2>3, <2>4 DEF p, q
<1>4. ASSUME NEW n \in Nat, n \in S PROVE n + 1 \in S
  <2>1. SUFFICES ASSUME n + 1 <= N
                 PROVE  Same(FlattenSeq(P(F, n + 1)), FlattenSeq(P(G, n + 1)), m, m)
    OBVIOUS
  <2>2. Same(FlattenSeq(P(F, n)), FlattenSeq(P(G, n)), m, m)
    BY <1>4, <2>1
  <2>3. Same(F[n + 1], G[n + 1], m, m)
    BY <2>1
  <2>4. FlattenSeq(P(F, n + 1)) = FlattenSeq(P(F, n)) \o F[n + 1]
    BY <1>2, <1>3, <2>1
  <2>5. FlattenSeq(P(G, n + 1)) = FlattenSeq(P(G, n)) \o G[n + 1]
    BY <1>2, <1>3, <2>1
  <2> HIDE DEF P
  <2> QED BY <2>2, <2>3, <2>4, <2>5, SameJoin
<1>5. Nat \subseteq S
  <2> HIDE DEF S
  <2> QED BY <1>1, <1>4, SetInduction
<1>6. P(F, N) = F /\ P(G, N) = G
  OBVIOUS
<1> QED BY <1>5, <1>6

(* and so do loops over calls that one side has no counterpart for.        *)
LEMMA SilentFlatten ==
  ASSUME NEW N \in Nat, NEW F, F = [i \in 1 .. N |-> F[i]], NEW m \in Phase
  PROVE  /\ (\A i \in 1 .. N : Same(F[i], <<>>, m, m)) => Same(FlattenSeq(F), <<>>, m, m)
         /\ (\A i \in 1 .. N : Same(<<>>, F[i], m, m)) => Same(<<>>, FlattenSeq(F), m, m)
<1> DEFINE T == {s \in Seq(Call) : Same(s, <<>>, m, m)}
           U == {s \in Seq(Call) : Same(<<>>, s, m, m)}
<1>1. (\A s : s \in T <=> Same(s, <<>>, m, m)) /\ (\A s : s \in U <=> Same(<<>>, s, m, m))
  BY SameCalls
<1> HIDE DEF T, U
<1>2. <<>> \in T /\ <<>> \in U
  BY <1>1, SameEmpty
<1>3. (\A s, t \in T : s \o t \in T) /\ (\A s, t \in U : s \o t \in U)
  BY <1>1, SilentJoin
<1>4. ASSUME \A i \in 1 .. N : Same(F[i], <<>>, m, m) PROVE FlattenSeq(F) \in T
  <2>1. \A i \in 1 .. N : F[i] \in T
    BY <1>1, <1>4
  <2> QED BY <1>2, <1>3, <2>1, RepeatStaysIn
<1>5. ASSUME \A i \in 1 .. N : Same(<<>>, F[i], m, m) PROVE FlattenSeq(F) \in U
  <2>1. \A i \in 1 .. N : F[i] \in U
    BY <1>1, <1>5
  <2> QED BY <1>2, <1>3, <2>1, RepeatStaysIn
<1> QED BY <1>1, <1>4, <1>5

(* The names of the calls.                                                 *)
CallOp == LocalOp \cup CollectiveOp \cup VerifierOp

(* Two single calls, and one call against none.                            *)
LEMMA SameOne ==
  ASSUME NEW o \in Call, NEW q \in Call, NEW m \in Phase, NEW m2, Legal(o, m), Legal(q, m),
         EventOf(o, m) = EventOf(q, m), PhaseAfter(o.op, m) = m2, PhaseAfter(q.op, m) = m2
  PROVE  Same(<<o>>, <<q>>, m, m2)
BY TraceOne DEF Same, Matches

(* A call without event matches with no call at all.                       *)
LEMMA SilentOne ==
  ASSUME NEW o \in Call, NEW m \in Phase, Legal(o, m), EventOf(o, m) = <<>>, PhaseAfter(o.op, m) = m
  PROVE  Same(<<o>>, <<>>, m, m) /\ Same(<<>>, <<o>>, m, m)
BY TraceOne, TraceEmpty DEF Same, Matches

(* What is legal in which phase.                                           *)
LEMMA CallFacts ==
  ASSUME NEW o \in Call, NEW m \in Phase
  PROVE  /\ o.op \in {"append", "parse"} /\ m \in Live \cup {"fresh"} =>
              Legal(o, m) /\ PhaseAfter(o.op, m) = m /\ EventOf(o, m) = << [ev |-> "append", arg |-> o.arg] >>
         /\ o.op \in DrawOp /\ m \in Live =>
              Legal(o, m) /\ PhaseAfter(o.op, m) = m /\ EventOf(o, m) = << Mark("draw") >>
         /\ o.op \in {"refresh", "sync"} /\ m \in Live =>
              Legal(o, m) /\ PhaseAfter(o.op, m) = m /\ EventOf(o, m) = << Mark("refresh") >>
         /\ o.op \in {"read", "gather", "bcast", "barrier", "alltoall", "expect", "take"}
              /\ m \in Live \cup {"fresh"} =>
              Legal(o, m) /\ PhaseAfter(o.op, m) = m /\ EventOf(o, m) = <<>>
         /\ o.op = "sync" /\ m = "fresh" /\ ~Recursion =>
              Legal(o, m) /\ PhaseAfter(o.op, m) = m /\ EventOf(o, m) = <<>>
         /\ o.op \in {"commit", "parsecom"} /\ m = "fresh" =>
              Legal(o, m) /\ PhaseAfter(o.op, m) = "bound" /\ EventOf(o, m) = << [ev |-> "commit", arg |-> o.arg] >>
         /\ o.op = "lock" /\ m = "bound" =>
              Legal(o, m) /\ PhaseAfter(o.op, m) = "locked" /\ EventOf(o, m) = << Mark("lock") >>
         /\ o.op = "unlock" /\ m = "locked" =>
              Legal(o, m) /\ PhaseAfter(o.op, m) = "bound" /\ EventOf(o, m) = << Mark("unlock") >>
<1>1. CASE o.op \in {"append", "parse"}
  BY <1>1 DEF Legal, EventOf, PhaseAfter, Live, DrawOp
<1>2. CASE o.op \in DrawOp
  BY <1>2 DEF Legal, EventOf, PhaseAfter, Live, DrawOp
<1>3. CASE o.op = "refresh"
  BY <1>3 DEF Legal, EventOf, PhaseAfter, Live, DrawOp
<1>4. CASE o.op = "sync"
  BY <1>4 DEF Legal, EventOf, PhaseAfter, Live, DrawOp
<1>5. CASE o.op \in {"read", "gather", "bcast", "barrier", "alltoall", "expect", "take"}
  BY <1>5 DEF Legal, EventOf, PhaseAfter, Live, DrawOp
<1>6. CASE o.op \in {"commit", "parsecom"}
  BY <1>6 DEF Legal, EventOf, PhaseAfter, Live, DrawOp
<1>7. CASE o.op = "lock"
  BY <1>7 DEF Legal, EventOf, PhaseAfter, Live, DrawOp
<1>8. CASE o.op = "unlock"
  BY <1>8 DEF Legal, EventOf, PhaseAfter, Live, DrawOp
<1> QED BY <1>1, <1>2, <1>3, <1>4, <1>5, <1>6, <1>7, <1>8 DEF DrawOp

(* The calls that have a counterpart.                                      *)
LEMMA CallIs ==
  ASSUME NEW op \in CallOp, NEW who \in {"all", "root"}, NEW what \in Label, NEW l \in Nat, NEW i \in Nat
  PROVE  LET o == [op |-> op, who |-> who, arg |-> <<what, l, i>>]
         IN  o \in Call /\ o.op = op /\ o.arg = <<what, l, i>>
BY DEF Call, CallOp, Arg

(* Two calls of a kind match.                                              *)
LEMMA OfAKind ==
  ASSUME NEW o \in Call, NEW q \in Call, NEW m \in Phase, o.arg = q.arg
  PROVE  /\ o.op \in {"append", "parse"} /\ q.op \in {"append", "parse"} /\ m \in Live \cup {"fresh"}
              => Same(<<o>>, <<q>>, m, m)
         /\ o.op \in DrawOp /\ q.op \in DrawOp /\ m \in Live => Same(<<o>>, <<q>>, m, m)
         /\ o.op = "refresh" /\ q.op = "refresh" /\ m \in Live => Same(<<o>>, <<q>>, m, m)
         /\ o.op = "commit" /\ q.op = "parsecom" => Same(<<o>>, <<q>>, "fresh", "bound")
         /\ o.op = "lock" /\ q.op = "lock" => Same(<<o>>, <<q>>, "bound", "locked")
         /\ o.op = "unlock" /\ q.op = "unlock" => Same(<<o>>, <<q>>, "locked", "bound")
<1>0. {"fresh", "bound", "locked"} \subseteq Phase
  BY DEF Phase
<1>1. CASE o.op \in {"append", "parse"} /\ q.op \in {"append", "parse"} /\ m \in Live \cup {"fresh"}
  <2>1. Legal(o, m) /\ PhaseAfter(o.op, m) = m /\ EventOf(o, m) = << [ev |-> "append", arg |-> o.arg] >>
    BY <1>1, CallFacts
  <2>2. Legal(q, m) /\ PhaseAfter(q.op, m) = m /\ EventOf(q, m) = << [ev |-> "append", arg |-> q.arg] >>
    BY <1>1, CallFacts
  <2>3. Same(<<o>>, <<q>>, m, m)
    BY <2>1, <2>2, SameOne
  <2> QED BY <1>1, <2>3 DEF DrawOp
<1>2. CASE o.op \in DrawOp /\ q.op \in DrawOp /\ m \in Live
  <2>1. Legal(o, m) /\ PhaseAfter(o.op, m) = m /\ EventOf(o, m) = << Mark("draw") >>
    BY <1>2, CallFacts
  <2>2. Legal(q, m) /\ PhaseAfter(q.op, m) = m /\ EventOf(q, m) = << Mark("draw") >>
    BY <1>2, CallFacts
  <2>3. Same(<<o>>, <<q>>, m, m)
    BY <2>1, <2>2, SameOne
  <2> QED BY <1>2, <2>3 DEF DrawOp
<1>3. CASE o.op = "refresh" /\ q.op = "refresh" /\ m \in Live
  <2>1. Legal(o, m) /\ PhaseAfter(o.op, m) = m /\ EventOf(o, m) = << Mark("refresh") >>
    BY <1>3, CallFacts
  <2>2. Legal(q, m) /\ PhaseAfter(q.op, m) = m /\ EventOf(q, m) = << Mark("refresh") >>
    BY <1>3, CallFacts
  <2>3. Same(<<o>>, <<q>>, m, m)
    BY <2>1, <2>2, SameOne
  <2> QED BY <1>3, <2>3 DEF DrawOp
<1>4. CASE o.op = "commit" /\ q.op = "parsecom"
  <2>1. /\ Legal(o, "fresh") /\ PhaseAfter(o.op, "fresh") = "bound"
        /\ EventOf(o, "fresh") = << [ev |-> "commit", arg |-> o.arg] >>
    BY <1>0, <1>4, CallFacts
  <2>2. /\ Legal(q, "fresh") /\ PhaseAfter(q.op, "fresh") = "bound"
        /\ EventOf(q, "fresh") = << [ev |-> "commit", arg |-> q.arg] >>
    BY <1>0, <1>4, CallFacts
  <2>3. Same(<<o>>, <<q>>, "fresh", "bound")
    BY <1>0, <2>1, <2>2, SameOne
  <2> QED BY <1>4, <2>3 DEF DrawOp
<1>5. CASE o.op = "lock" /\ q.op = "lock"
  <2>1. Legal(o, "bound") /\ PhaseAfter(o.op, "bound") = "locked" /\ EventOf(o, "bound") = << Mark("lock") >>
    BY <1>0, <1>5, CallFacts
  <2>2. Legal(q, "bound") /\ PhaseAfter(q.op, "bound") = "locked" /\ EventOf(q, "bound") = << Mark("lock") >>
    BY <1>0, <1>5, CallFacts
  <2>3. Same(<<o>>, <<q>>, "bound", "locked")
    BY <1>0, <2>1, <2>2, SameOne
  <2> QED BY <1>5, <2>3 DEF DrawOp
<1>6. CASE o.op = "unlock" /\ q.op = "unlock"
  <2>1. Legal(o, "locked") /\ PhaseAfter(o.op, "locked") = "bound" /\ EventOf(o, "locked") = << Mark("unlock") >>
    BY <1>0, <1>6, CallFacts
  <2>2. Legal(q, "locked") /\ PhaseAfter(q.op, "locked") = "bound" /\ EventOf(q, "locked") = << Mark("unlock") >>
    BY <1>0, <1>6, CallFacts
  <2>3. Same(<<o>>, <<q>>, "locked", "bound")
    BY <1>0, <2>1, <2>2, SameOne
  <2> QED BY <1>6, <2>3 DEF DrawOp
<1> QED BY <1>1, <1>2, <1>3, <1>4, <1>5, <1>6

(* Which calls of the prover match which calls of the verifier.            *)
LEMMA LikeCalls ==
  ASSUME NEW what \in Label, NEW l \in Nat, NEW i \in Nat, NEW m \in Phase
  PROVE  /\ m \in Live \cup {"fresh"} => Same(DoRoot("append", what, l, i), Do("append", what, l, i), m, m)
         /\ m \in Live => /\ Same(Do("append", what, l, i), Do("append", what, l, i), m, m)
                          /\ Same(Do("append", what, l, i), Do("parse", what, l, i), m, m)
                          /\ Same(Do("sample", what, l, i), Do("sample", what, l, i), m, m)
                          /\ Same(DoRoot("fill", what, l, i), Do("sample", what, l, i), m, m)
                          /\ Same(Challenge(what, l, i), Do("sample", what, l, i), m, m)
                          /\ Same(Do("refresh", what, l, i), Do("refresh", what, l, i), m, m)
         /\ Same(DoRoot("commit", what, l, i), Do("parsecom", what, l, i), "fresh", "bound")
         /\ Same(Do("lock", what, l, i), Do("lock", what, l, i), "bound", "locked")
         /\ Same(Do("unlock", what, l, i), Do("unlock", what, l, i), "locked", "bound")
<1> DEFINE A(op) == [op |-> op, who |-> "all", arg |-> <<what, l, i>>]
           R(op) == [op |-> op, who |-> "root", arg |-> <<what, l, i>>]
<1>1. /\ \A op \in CallOp : A(op) \in Call /\ A(op).op = op /\ A(op).arg = <<what, l, i>>
      /\ \A op \in CallOp : R(op) \in Call /\ R(op).op = op /\ R(op).arg = <<what, l, i>>
  BY CallIs
<1>2. /\ \A op : Do(op, what, l, i) = <<A(op)>>
      /\ \A op : DoRoot(op, what, l, i) = <<R(op)>>
      /\ \E op \in {"challenge", "sample"} : Challenge(what, l, i) = <<A(op)>>
  BY DEF Do, DoRoot, Challenge
<1>3. /\ {"append", "parse", "sample", "fill", "challenge", "refresh", "commit", "parsecom",
          "lock", "unlock"} \subseteq CallOp
      /\ {"sample", "fill", "challenge"} \subseteq DrawOp
      /\ {"fresh", "bound", "locked"} \subseteq Phase
  BY DEF CallOp, LocalOp, CollectiveOp, RootFirstOp, VerifierOp, DrawOp, Phase
<1> HIDE DEF A, R
<1>4. m \in Live \cup {"fresh"} => Same(<<R("append")>>, <<A("append")>>, m, m)
  BY <1>1, <1>3, OfAKind
<1>5. m \in Live => Same(<<A("append")>>, <<A("append")>>, m, m) /\ Same(<<A("append")>>, <<A("parse")>>, m, m)
  BY <1>1, <1>3, OfAKind
<1>6. m \in Live => Same(<<A("sample")>>, <<A("sample")>>, m, m) /\ Same(<<A("challenge")>>, <<A("sample")>>, m, m)
  <2>1. m \in Live => Same(<<A("sample")>>, <<A("sample")>>, m, m)
    BY <1>1, <1>3, OfAKind
  <2>2. m \in Live => Same(<<A("challenge")>>, <<A("sample")>>, m, m)
    BY <1>1, <1>3, OfAKind
  <2> QED BY <2>1, <2>2
<1>7. m \in Live => Same(<<R("fill")>>, <<A("sample")>>, m, m)
  BY <1>1, <1>3, OfAKind
<1>8. m \in Live => Same(<<A("refresh")>>, <<A("refresh")>>, m, m)
  BY <1>1, <1>3, OfAKind
<1>9. Same(<<R("commit")>>, <<A("parsecom")>>, "fresh", "bound")
  BY <1>1, <1>3, OfAKind
<1>10. Same(<<A("lock")>>, <<A("lock")>>, "bound", "locked")
  BY <1>1, <1>3, OfAKind
<1>11. Same(<<A("unlock")>>, <<A("unlock")>>, "locked", "bound")
  BY <1>1, <1>3, OfAKind
<1> QED BY <1>2, <1>4, <1>5, <1>6, <1>7, <1>8, <1>9, <1>10, <1>11

(* The calls that have none.                                               *)
LEMMA SilentCalls ==
  ASSUME NEW m \in Live \cup {"fresh"}
  PROVE  /\ \A what \in Label, l \in Nat, i \in Nat :
              /\ Same(Do("read", what, l, i), <<>>, m, m)
              /\ \A op \in {"expect", "take"} : Same(<<>>, Do(op, what, l, i), m, m)
         /\ Same(Gather, <<>>, m, m) /\ Same(Bcast, <<>>, m, m)
         /\ Same(Collective("alltoall"), <<>>, m, m) /\ Same(Collective("barrier"), <<>>, m, m)
<1>0. m \in Phase
  BY DEF Live, Phase
<1>1. {"read", "expect", "take", "gather", "bcast", "alltoall", "barrier"} \subseteq CallOp
  BY DEF CallOp, LocalOp, CollectiveOp, RootFirstOp, LeavesFirstOp, VerifierOp
<1>2. ASSUME NEW op \in {"read", "expect", "take", "gather", "bcast", "alltoall", "barrier"},
             NEW what \in Label, NEW l \in Nat, NEW i \in Nat
      PROVE  Same(Do(op, what, l, i), <<>>, m, m) /\ Same(<<>>, Do(op, what, l, i), m, m)
  <2> DEFINE o == [op |-> op, who |-> "all", arg |-> <<what, l, i>>]
  <2>1. o \in Call /\ o.op = op
    BY <1>1, CallIs
  <2>2. Do(op, what, l, i) = <<o>>
    BY DEF Do
  <2> HIDE DEF o
  <2>3. Legal(o, m) /\ PhaseAfter(o.op, m) = m /\ EventOf(o, m) = <<>>
    BY <1>0, <2>1, CallFacts
  <2> QED BY <1>0, <2>1, <2>2, <2>3, SilentOne
<1>3. ASSUME NEW op \in {"gather", "bcast", "alltoall", "barrier"} PROVE Same(Collective(op), <<>>, m, m)
  <2>1. op \in Label /\ 0 \in Nat
    BY DEF Label
  <2>2. Same(Do(op, op, 0, 0), <<>>, m, m)
    BY <1>2, <2>1
  <2> QED BY <1>0, <2>2, SameEmpty DEF Collective, IfMpi
<1> QED BY <1>2, <1>3 DEF Gather, Bcast

(* The two syncs match; before the commitment the sync of the prover needs *)
(* no counterpart, unless it reaches the digest of a recursion build.      *)
LEMMA LikeSync ==
  /\ \A m \in Live : Same(Sync, VerifierSync, m, m)
  /\ ~Recursion \/ WorldSize = 1 => Same(Sync, <<>>, "fresh", "fresh")
<1> DEFINE o == [op |-> "sync", who |-> "all", arg |-> <<"sync", 0, 0>>]
<1>1. o \in Call /\ o.op = "sync"
  <2>1. "sync" \in CallOp /\ "sync" \in Label /\ 0 \in Nat
    BY DEF CallOp, VerifierOp, Label
  <2> QED BY <2>1, CallIs
<1>2. Do("sync", "sync", 0, 0) = <<o>>
  BY DEF Do
<1>3. Live \subseteq Phase /\ "fresh" \in Phase
  BY DEF Live, Phase
<1> HIDE DEF o
<1>4. ASSUME NEW m \in Live PROVE Same(<<o>>, <<o>>, m, m)
  BY <1>1, <1>3, CallFacts, SameOne
<1>5. ~Recursion => Same(<<o>>, <<>>, "fresh", "fresh")
  BY <1>1, <1>3, CallFacts, SilentOne
<1>6. \A m \in Phase : Same(<<>>, <<>>, m, m)
  BY SameEmpty
<1> QED BY <1>2, <1>3, <1>4, <1>5, <1>6 DEF Sync, VerifierSync, Collective, IfMpi

(* A prover's call, or a verifier's, without counterpart at the end of a   *)
(* matching pair, and before it.                                           *)
LEMMA SilentAfter ==
  ASSUME NEW a, NEW b, NEW s, NEW m, NEW m2, Same(a, b, m, m2), Same(s, <<>>, m2, m2)
  PROVE  Same(a \o s, b, m, m2)
BY SilentJoin

(* A silent piece may come before.                                         *)
LEMMA SilentBefore ==
  ASSUME NEW a, NEW b, NEW s, NEW m, NEW m2, Same(a, b, m, m2), Same(s, <<>>, m, m)
  PROVE  Same(s \o a, b, m, m2)
BY SilentJoin

(* The phases of a proof after its commitment.                             *)
LEMMA PhasesAre ==
  /\ Live \subseteq Phase /\ Live \subseteq Live \cup {"fresh"}
  /\ "bound" \in Live /\ "locked" \in Live /\ "fresh" \in Phase
BY DEF Live, Phase

(* Both sides sample a vector element by element.                          *)
LEMMA SameSamples ==
  ASSUME NEW n \in Nat, NEW what \in Label, NEW m \in Live
  PROVE  Same(Samples(n, what), Samples(n, what), m, m)
<1> DEFINE seqs == [i \in 1 .. n |-> Do("sample", what, 0, i)]
<1>1. ASSUME NEW i \in 1 .. n PROVE Same(seqs[i], seqs[i], m, m)
  <2>1. i \in Nat /\ 0 \in Nat /\ m \in Phase
    BY PhasesAre
  <2>2. Same(Do("sample", what, 0, i), Do("sample", what, 0, i), m, m)
    BY <2>1, LikeCalls
  <2> QED BY <2>2
<1>2. seqs = [i \in 1 .. n |-> seqs[i]] /\ m \in Phase
  BY PhasesAre
<1> HIDE DEF seqs
<1>3. Same(FlattenSeq(seqs), FlattenSeq(seqs), m, m)
  BY <1>1, <1>2, SameFlatten
<1> QED BY <1>3 DEF Samples, Repeat, seqs

(* They start GKR with the same point; the evaluation at it adds no event. *)
LEMMA SameGkrStart ==
  Same(SampleFromTranscript \o CollectivelyEval, SampleFromTranscript, "bound", "bound")
<1>0. "bound" \in Live /\ "bound" \in Live \cup {"fresh"}
  BY PhasesAre
<1>1. Same(Samples(OutVars, "rz"), Samples(OutVars, "rz"), "bound", "bound")
  BY <1>0, ScriptType, SameSamples DEF Label
<1>2. Same(Samples(SimdVars, "r_simd"), Samples(SimdVars, "r_simd"), "bound", "bound")
  BY <1>0, ScriptType, SameSamples DEF Label
<1>3. Same(Samples(TrailingZeros(WorldSize), "r_mpi"), Samples(TrailingZeros(WorldSize), "r_mpi"), "bound", "bound")
  BY <1>0, ScriptType, SameSamples DEF Label
<1>4. Same(SampleFromTranscript, SampleFromTranscript, "bound", "bound")
  BY <1>1, <1>2, <1>3, SameJoin DEF SampleFromTranscript
<1>5. Same(CollectivelyEval, <<>>, "bound", "bound")
  BY <1>0, SilentCalls DEF CollectivelyEval
<1> QED BY <1>4, <1>5, SilentAfter

(* A round of the sum-check: the messages the prover evaluates and appends *)
(* are the ones the verifier parses, and both draw the challenge next.     *)
LEMMA SameRounds ==
  ASSUME NEW n \in Nat, NEW evals, Same(evals, <<>>, "bound", "bound"), NEW what \in Label, NEW l \in Nat
  PROVE  Same(Rounds(n, evals, what, l), VerifySumcheckSteps(n, what, l), "bound", "bound")
<1> DEFINE p == [i \in 1 .. n |-> evals \o TranscriptIo(what, l, i)]
           v == [i \in 1 .. n |-> Do("parse", what, l, i) \o Do("sample", what, l, i)]
<1>0. "bound" \in Live /\ "bound" \in Phase
  BY PhasesAre
<1>1. ASSUME NEW i \in 1 .. n PROVE Same(p[i], v[i], "bound", "bound")
  <2>1. i \in Nat
    OBVIOUS
  <2>2. Same(Do("append", what, l, i), Do("parse", what, l, i), "bound", "bound")
    BY <1>0, <2>1, LikeCalls
  <2>3. Same(Challenge(what, l, i), Do("sample", what, l, i), "bound", "bound")
    BY <1>0, <2>1, LikeCalls
  <2>4. Same(TranscriptIo(what, l, i), Do("parse", what, l, i) \o Do("sample", what, l, i), "bound", "bound")
    BY <2>2, <2>3, SameJoin DEF TranscriptIo
  <2>5. Same(evals \o TranscriptIo(what, l, i),
             Do("parse", what, l, i) \o Do("sample", what, l, i), "bound", "bound")
    BY <2>4, SilentBefore
  <2> QED BY <2>5
<1>2. p = [i \in 1 .. n |-> p[i]] /\ v = [i \in 1 .. n |-> v[i]]
  OBVIOUS
<1> HIDE DEF p, v
<1>3. Same(FlattenSeq(p), FlattenSeq(v), "bound", "bound")
  BY <1>0, <1>1, <1>2, SameFlatten
<1> QED BY <1>3 DEF Rounds, VerifySumcheckSteps, Repeat, p, v

(* A layer of GKR, when the two sides count the MPI rounds alike.          *)
LEMMA SameLayer ==
  ASSUME TrailingZeros(WorldSize) = Ilog2(WorldSize), NEW l \in 1 .. Len(Layers)
  PROVE  Same(SumcheckProveGkrLayer(l), SumcheckVerifyGkrLayer(l), "bound", "bound")
<1>0. /\ l \in Nat /\ 0 \in Nat /\ 1 \in Nat /\ 2 \in Nat
      /\ Layers[l].vars \in Nat /\ Layers[l].phase2 \in BOOLEAN
      /\ SimdVars \in Nat /\ TrailingZeros(WorldSize) \in Nat
      /\ {"coefs", "x", "y", "simd", "mpi", "vx", "vy"} \subseteq Label
      /\ "bound" \in Live /\ "bound" \in Live \cup {"fresh"} /\ "bound" \in Phase
  BY ScriptType, PhasesAre DEF Label
<1>e. Same(<<>>, <<>>, "bound", "bound")
  BY <1>0, SameEmpty
<1>g. Same(Gather, <<>>, "bound", "bound") /\ Same(Bcast, <<>>, "bound", "bound")
  BY <1>0, SilentCalls
<1> DEFINE px == PrepareXVals(l)
           rx == Rounds(Layers[l].vars, PolyEvalsAtRx, "x", l)
           rs == Rounds(SimdVars, PolyEvalsAtRSimdVar, "simd", l)
           pm == PrepareMpiVarVals
           rm == Rounds(TrailingZeros(WorldSize), PolyEvalsAtRMpiVar, "mpi", l)
           vx == Do("append", "vx", l, 0)
           py == PrepareYVals(l)
           ry == Rounds(Layers[l].vars, PolyEvalsAtRy, "y", l)
           vy == Do("append", "vy", l, 0)
           wx == VerifySumcheckSteps(Layers[l].vars, "x", l)
           ws == VerifySumcheckSteps(SimdVars, "simd", l)
           wm == VerifySumcheckSteps(Ilog2(WorldSize), "mpi", l)
           wy == VerifySumcheckSteps(Layers[l].vars, "y", l)
           ux == Do("parse", "vx", l, 0)
           uy == Do("parse", "vy", l, 0)
           pt == IF Layers[l].phase2 THEN py \o ry \o VyClaim \o vy ELSE <<>>
           vt == IF Layers[l].phase2 THEN wy \o uy ELSE <<>>
<1>1. Same(px, <<>>, "bound", "bound")
  BY <1>0, SilentCalls DEF PrepareXVals
<1>2. Same(rx, wx, "bound", "bound") /\ Same(rs, ws, "bound", "bound") /\ Same(ry, wy, "bound", "bound")
  <2>1. /\ PolyEvalsAtRx = Gather /\ PolyEvalsAtRSimdVar = Gather /\ PolyEvalsAtRy = Gather
    BY DEF PolyEvalsAtRx, PolyEvalsAtRSimdVar, PolyEvalsAtRy, CoefCombineVec
  <2> QED BY <1>0, <1>g, <2>1, SameRounds
<1>3. Same(rm, wm, "bound", "bound")
  BY <1>0, <1>e, SameRounds DEF PolyEvalsAtRMpiVar
<1>4. Same(pm, <<>>, "bound", "bound")
  BY <1>g, SilentAfter DEF PrepareMpiVarVals
<1>5. Same(vx, ux, "bound", "bound") /\ Same(vy, uy, "bound", "bound")
  BY <1>0, LikeCalls
<1>6. Same(py, <<>>, "bound", "bound")
  <2>1. Same(Do("read", "coefs", l, 2), <<>>, "bound", "bound")
    BY <1>0, SilentCalls
  <2> QED BY <1>g, <2>1, SilentAfter DEF PrepareYVals
<1>7. Same(VyClaim, <<>>, "bound", "bound")
  BY <1>g DEF VyClaim, CoefCombineVec
<1>8. SumcheckProveGkrLayer(l) = px \o rx \o rs \o pm \o rm \o vx \o pt
  BY DEF SumcheckProveGkrLayer
<1>9. SumcheckVerifyGkrLayer(l) = wx \o ws \o wm \o ux \o vt
  BY DEF SumcheckVerifyGkrLayer
<1> HIDE DEF px, rx, rs, pm, rm, vx, py, ry, vy, wx, ws, wm, wy, ux, uy
<1>10. Same(pt, vt, "bound", "bound")
  <2>1. Same(py \o ry, wy, "bound", "bound")
    BY <1>2, <1>6, SilentBefore
  <2>2. Same(py \o ry \o VyClaim, wy, "bound", "bound")
    BY <1>7, <2>1, SilentAfter
  <2>3. Same(py \o ry \o VyClaim \o vy, wy \o uy, "bound", "bound")
    BY <1>5, <2>2, SameJoin
  <2> QED BY <1>0, <1>e, <2>3
<1> HIDE DEF pt, vt
<1>11. Same(px \o rx, wx, "bound", "bound")
  BY <1>1, <1>2, SilentBefore
<1>12. Same(px \o rx \o rs, wx \o ws, "bound", "bound")
  BY <1>2, <1>11, SameJoin
<1>13. Same(px \o rx \o rs \o pm, wx \o ws, "bound", "bound")
  BY <1>4, <1>12, SilentAfter
<1>14. Same(px \o rx \o rs \o pm \o rm, wx \o ws \o wm, "bound", "bound")
  BY <1>3, <1>13, SameJoin
<1>15. Same(px \o rx \o rs \o pm \o rm \o vx, wx \o ws \o wm \o ux, "bound", "bound")
  BY <1>5, <1>14, SameJoin
<1>16. Same(px \o rx \o rs \o pm \o rm \o vx \o pt, wx \o ws \o wm \o ux \o vt, "bound", "bound")
  BY <1>10, <1>15, SameJoin
<1> QED BY <1>8, <1>9, <1>16

(* All layers of GKR.                                                      *)
LEMMA SameGkr ==
  ASSUME TrailingZeros(WorldSize) = Ilog2(WorldSize)
  PROVE  Same(GkrProve, GkrVerify, "bound", "bound")
<1> DEFINE n == Len(Layers)
           p == [k \in 1 .. n |->
             LET l == n + 1 - k
             IN SumcheckProveGkrLayer(l)
                  \o (IF Layers[l].phase2 THEN Challenge("alpha", l, 0) ELSE <<>>)]
           v == [k \in 1 .. n |->
             LET l == n + 1 - k
             IN SumcheckVerifyGkrLayer(l)
                  \o (IF Layers[l].phase2 THEN Do("sample", "alpha", l, 0) ELSE <<>>)]
           start == SampleFromTranscript \o CollectivelyEval
<1>0. "bound" \in Live /\ "bound" \in Phase /\ "alpha" \in Label
  BY PhasesAre DEF Label
<1>1. ASSUME NEW k \in 1 .. n PROVE Same(p[k], v[k], "bound", "bound")
  <2> DEFINE l == n + 1 - k
             a == IF Layers[l].phase2 THEN Challenge("alpha", l, 0) ELSE <<>>
             b == IF Layers[l].phase2 THEN Do("sample", "alpha", l, 0) ELSE <<>>
  <2>1. l \in 1 .. Len(Layers) /\ l \in Nat /\ 0 \in Nat
    BY ScriptType
  <2>2. p[k] = SumcheckProveGkrLayer(l) \o a /\ v[k] = SumcheckVerifyGkrLayer(l) \o b
    OBVIOUS
  <2> HIDE DEF l, p, v
  <2>3. Same(SumcheckProveGkrLayer(l), SumcheckVerifyGkrLayer(l), "bound", "bound")
    BY <2>1, SameLayer
  <2>4. Same(Challenge("alpha", l, 0), Do("sample", "alpha", l, 0), "bound", "bound")
    BY <1>0, <2>1, LikeCalls
  <2>5. Same(<<>>, <<>>, "bound", "bound")
    BY <1>0, SameEmpty
  <2>6. Same(a, b, "bound", "bound")
    BY <2>4, <2>5
  <2> HIDE DEF a, b
  <2> QED BY <2>2, <2>3, <2>6, SameJoin
<1>2. p = [k \in 1 .. n |-> p[k]] /\ v = [k \in 1 .. n |-> v[k]] /\ n \in Nat
  BY ScriptType
<1>3. GkrProve = start \o FlattenSeq(p)
  BY DEF GkrProve, Repeat
<1>4. GkrVerify = SampleFromTranscript \o FlattenSeq(v)
  BY DEF GkrVerify, Repeat
<1> HIDE DEF p, v, n
<1>5. Same(FlattenSeq(p), FlattenSeq(v), "bound", "bound")
  BY <1>0, <1>1, <1>2, SameFlatten
<1>6. Same(start, SampleFromTranscript, "bound", "bound")
  BY SameGkrStart
<1> HIDE DEF start
<1> QED BY <1>3, <1>4, <1>5, <1>6, SameJoin

(* Pieces can be grouped in another way.                                   *)
LEMMA CallsRegroup ==
  ASSUME NEW s \in Seq(Call), NEW t \in Seq(Call), NEW u \in Seq(Call)
  PROVE  s \o (t \o u) = (s \o t) \o u
BY Regroup

(* Concatenation as an operator, to regroup by rule.                       *)
Then(s, t) == s \o t

(* It is associative.                                                      *)
LEMMA ThenRegroup ==
  /\ \A s, t \in Seq(Call) : Then(s, t) \in Seq(Call)
  /\ \A s, t, u \in Seq(Call) : Then(s, Then(t, u)) = Then(Then(s, t), u)
BY CallsRegroup, ConcatProperties DEF Then

(* A piece matches the last calls of a longer one, and what two pieces     *)
(* match is grouped as one.                                                *)
LEMMA JoinFour ==
  ASSUME NEW p, NEW q, NEW a, NEW b \in Seq(Call), NEW c \in Seq(Call), NEW d \in Seq(Call), NEW e \in Seq(Call),
         NEW m, NEW m1, NEW m2, Same(p, a, m, m1), Same(q, b \o c \o d \o e, m1, m2)
  PROVE  Same(p \o q, a \o b \o c \o d \o e, m, m2)
<1>1. a \in Seq(Call)
  BY SameCalls
<1>2. Then(a, Then(Then(b, c), d)) = Then(Then(Then(a, b), c), d)
  BY <1>1, ThenRegroup
<1>3. Then(a, Then(Then(Then(b, c), d), e)) = Then(Then(Then(Then(a, b), c), d), e)
  BY <1>1, <1>2, ThenRegroup
<1>4. Same(Then(p, q), Then(a, Then(Then(Then(b, c), d), e)), m, m2)
  BY SameJoin DEF Then
<1>5. Same(Then(p, q), Then(Then(Then(Then(a, b), c), d), e), m, m2)
  BY <1>3, <1>4
<1> QED BY <1>5 DEF Then

(* Three pairs in a row, the second of which the verifier divides in three *)
(* pieces, and the third in one.                                           *)
LEMMA JoinInto ==
  ASSUME NEW p, NEW q, NEW r, NEW a, NEW b \in Seq(Call), NEW c \in Seq(Call), NEW d \in Seq(Call), NEW e \in Seq(Call),
         NEW m, NEW m1, NEW m2, NEW m3,
         Same(p, a, m, m1), Same(q, b \o c \o d, m1, m2), Same(r, e, m2, m3)
  PROVE  Same(p \o q \o r, a \o (b \o c \o d \o e), m, m3)
<1>1. a \in Seq(Call)
  BY SameCalls
<1>2. Then(Then(a, Then(Then(b, c), d)), e) = Then(a, Then(Then(Then(b, c), d), e))
  BY <1>1, ThenRegroup
<1>3. Same(Then(Then(p, q), r), Then(Then(a, Then(Then(b, c), d)), e), m, m3)
  <2>1. Same(p \o q, a \o (b \o c \o d), m, m2)
    BY SameJoin
  <2> QED BY <2>1, SameJoin DEF Then
<1>4. Same(Then(Then(p, q), r), Then(a, Then(Then(Then(b, c), d), e)), m, m3)
  BY <1>2, <1>3
<1> QED BY <1>4 DEF Then

(* Orion: the opening and its verification.                                *)
LEMMA SameOrion == Same(OrionOpen, OrionVerify, "locked", "locked")
<1>0. /\ "locked" \in Live /\ "locked" \in Live \cup {"fresh"} /\ "locked" \in Phase
      /\ "proximity" \in Label /\ "query" \in Label /\ ProximityDraws \in Nat /\ QueryDraws \in Nat
  BY PhasesAre DEF Label, ProximityDraws, QueryDraws
<1> DEFINE prox == Samples(ProximityDraws, "proximity")
           query == Samples(QueryDraws, "query")
           sums == [i \in 1 .. ProximityDraws |-> SumVec]
<1>1. Same(prox, prox, "locked", "locked") /\ Same(query, query, "locked", "locked")
  BY <1>0, SameSamples
<1>2. Same(SumVec, <<>>, "locked", "locked")
  BY <1>0, SilentCalls DEF SumVec
<1>3. Same(FlattenSeq(sums), <<>>, "locked", "locked")
  <2>1. \A i \in 1 .. ProximityDraws : Same(sums[i], <<>>, "locked", "locked")
    BY <1>2
  <2>2. sums = [i \in 1 .. ProximityDraws |-> sums[i]]
    OBVIOUS
  <2> HIDE DEF sums
  <2> QED BY <1>0, <2>1, <2>2, SilentFlatten
<1>4. Same(GatherVarlen, <<>>, "locked", "locked")
  <2>1. Same(Gather, <<>>, "locked", "locked")
    BY <1>0, SilentCalls
  <2> QED BY <2>1, SilentAfter DEF GatherVarlen
<1>5. OrionOpen = prox \o SumVec \o FlattenSeq(sums) \o (query \o GatherVarlen)
  BY DEF OrionOpen, OrionMtOpenings, Repeat
<1>6. OrionVerify = prox \o query
  BY DEF OrionVerify
<1> HIDE DEF prox, query, sums
<1>7. Same(prox \o SumVec, prox, "locked", "locked")
  BY <1>1, <1>2, SilentAfter
<1>8. Same(prox \o SumVec \o FlattenSeq(sums), prox, "locked", "locked")
  BY <1>3, <1>7, SilentAfter
<1>9. Same(query \o GatherVarlen, query, "locked", "locked")
  BY <1>1, <1>4, SilentAfter
<1> QED BY <1>5, <1>6, <1>8, <1>9, SameJoin

(* HyperKZG on one rank.                                                   *)
LEMMA SameHyperKzg == Same(HyperKzgOpen, HyperKzgVerify, "locked", "locked")
<1>0. /\ "locked" \in Live /\ "locked" \in Phase /\ 0 \in Nat
      /\ {"folded", "beta_x", "evals", "gamma", "beta_x_com", "delta_x"} \subseteq Label
  BY PhasesAre DEF Label
<1> DEFINE a == Do("append", "folded", 0, 0)
           b == Do("sample", "beta_x", 0, 0)
           c == Do("append", "evals", 0, 0)
           d == Do("sample", "gamma", 0, 0)
           e == Do("append", "beta_x_com", 0, 0)
           f == Do("sample", "delta_x", 0, 0)
<1>1. /\ Same(a, a, "locked", "locked") /\ Same(b, b, "locked", "locked") /\ Same(c, c, "locked", "locked")
      /\ Same(d, d, "locked", "locked") /\ Same(e, e, "locked", "locked") /\ Same(f, f, "locked", "locked")
  BY <1>0, LikeCalls
<1>2. HyperKzgOpen = a \o b \o c \o d \o e \o f /\ HyperKzgVerify = a \o b \o c \o d \o e \o f
  BY DEF HyperKzgOpen, HyperKzgVerify
<1> HIDE DEF a, b, c, d, e, f
<1>3. Same(a \o b, a \o b, "locked", "locked")
  BY <1>1, SameJoin
<1>4. Same(a \o b \o c, a \o b \o c, "locked", "locked")
  BY <1>1, <1>3, SameJoin
<1>5. Same(a \o b \o c \o d, a \o b \o c \o d, "locked", "locked")
  BY <1>1, <1>4, SameJoin
<1>6. Same(a \o b \o c \o d \o e, a \o b \o c \o d \o e, "locked", "locked")
  BY <1>1, <1>5, SameJoin
<1>7. Same(a \o b \o c \o d \o e \o f, a \o b \o c \o d \o e \o f, "locked", "locked")
  BY <1>1, <1>6, SameJoin
<1> QED BY <1>2, <1>7

(* The prover syncs whenever the root alone has appended, the verifier     *)
(* hashes at the same places; their functions divide the dialogue          *)
(* differently.                                                            *)
LEMMA SameHyperBiKzg == Same(HyperBiKzgOpen, HyperBiKzgVerify, "locked", "locked")
<1>0. /\ "locked" \in Live /\ "locked" \in Live \cup {"fresh"} /\ "locked" \in Phase /\ 0 \in Nat
      /\ {"folded", "beta_x", "beta_y", "evals", "gamma", "beta_x_com", "beta_y_com",
          "delta_x", "delta_y"} \subseteq Label
  BY PhasesAre DEF Label
<1> DEFINE fold == DoRoot("append", "folded", 0, 0)
           ev   == DoRoot("append", "evals", 0, 0)
           qx   == DoRoot("append", "beta_x_com", 0, 0)
           qy   == DoRoot("append", "beta_y_com", 0, 0)
           vfold == Do("append", "folded", 0, 0)
           vev  == Do("append", "evals", 0, 0)
           vqx  == Do("append", "beta_x_com", 0, 0)
           vqy  == Do("append", "beta_y_com", 0, 0)
           bx   == Do("sample", "beta_x", 0, 0)
           by   == Do("sample", "beta_y", 0, 0)
           ga   == Do("sample", "gamma", 0, 0)
           dx   == Do("sample", "delta_x", 0, 0)
           dy   == Do("sample", "delta_y", 0, 0)
           S    == VerifierSync
<1>1. /\ Same(fold, vfold, "locked", "locked") /\ Same(ev, vev, "locked", "locked")
      /\ Same(qx, vqx, "locked", "locked") /\ Same(qy, vqy, "locked", "locked")
  BY <1>0, LikeCalls
<1>2. /\ Same(bx, bx, "locked", "locked") /\ Same(by, by, "locked", "locked") /\ Same(ga, ga, "locked", "locked")
      /\ Same(dx, dx, "locked", "locked") /\ Same(dy, dy, "locked", "locked")
  BY <1>0, LikeCalls
<1>3. Same(Sync, S, "locked", "locked")
  BY <1>0, LikeSync
<1>4. Same(Gather, <<>>, "locked", "locked") /\ Same(Bcast, <<>>, "locked", "locked")
  BY <1>0, SilentCalls
<1>5. /\ FoldOracles = Gather \o Gather \o fold \o Sync
      /\ EvalAtBetas = bx \o by \o Gather \o ev \o Sync
      /\ QuotientX = ga \o Bcast \o Gather \o qx \o Sync
      /\ QuotientY = dx \o Gather \o qy \o Sync
      /\ OpenAtDeltas = dy \o Bcast \o Gather
      /\ CheckFoldedEvals = vfold \o S \o bx \o by \o vev \o S
      /\ AggregateOracles = ga \o vqx \o S
      /\ CheckQuotients = dx \o vqy \o S \o dy
  BY DEF FoldOracles, EvalAtBetas, QuotientX, QuotientY, OpenAtDeltas,
         CheckFoldedEvals, AggregateOracles, CheckQuotients
<1> HIDE DEF fold, ev, qx, qy, vfold, vev, vqx, vqy, bx, by, ga, dx, dy, S
<1>6. Same(FoldOracles, vfold \o S, "locked", "locked")
  <2>1. Same(Gather \o Gather, <<>>, "locked", "locked")
    BY <1>4, SilentAfter
  <2>2. Same(Gather \o Gather \o fold, vfold, "locked", "locked")
    BY <1>1, <2>1, SilentBefore
  <2> QED BY <1>3, <1>5, <2>2, SameJoin
<1>7. Same(EvalAtBetas, bx \o by \o vev \o S, "locked", "locked")
  <2>1. Same(bx \o by, bx \o by, "locked", "locked")
    BY <1>2, SameJoin
  <2>2. Same(bx \o by \o Gather, bx \o by, "locked", "locked")
    BY <1>4, <2>1, SilentAfter
  <2>3. Same(bx \o by \o Gather \o ev, bx \o by \o vev, "locked", "locked")
    BY <1>1, <2>2, SameJoin
  <2> QED BY <1>3, <1>5, <2>3, SameJoin
<1>8. Same(QuotientX, AggregateOracles, "locked", "locked")
  <2>1. Same(ga \o Bcast, ga, "locked", "locked")
    BY <1>2, <1>4, SilentAfter
  <2>2. Same(ga \o Bcast \o Gather, ga, "locked", "locked")
    BY <1>4, <2>1, SilentAfter
  <2>3. Same(ga \o Bcast \o Gather \o qx, ga \o vqx, "locked", "locked")
    BY <1>1, <2>2, SameJoin
  <2> QED BY <1>3, <1>5, <2>3, SameJoin
<1>9. Same(QuotientY, dx \o vqy \o S, "locked", "locked")
  <2>1. Same(dx \o Gather, dx, "locked", "locked")
    BY <1>2, <1>4, SilentAfter
  <2>2. Same(dx \o Gather \o qy, dx \o vqy, "locked", "locked")
    BY <1>1, <2>1, SameJoin
  <2> QED BY <1>3, <1>5, <2>2, SameJoin
<1>10. Same(OpenAtDeltas, dy, "locked", "locked")
  <2>1. Same(dy \o Bcast, dy, "locked", "locked")
    BY <1>2, <1>4, SilentAfter
  <2> QED BY <1>4, <1>5, <2>1, SilentAfter
<1>11. /\ vfold \in Seq(Call) /\ S \in Seq(Call) /\ bx \in Seq(Call) /\ by \in Seq(Call)
       /\ vev \in Seq(Call) /\ dx \in Seq(Call) /\ vqy \in Seq(Call) /\ dy \in Seq(Call)
       /\ AggregateOracles \in Seq(Call)
  BY <1>1, <1>2, <1>3, <1>8, SameCalls
<1>12. Same(FoldOracles \o EvalAtBetas, CheckFoldedEvals, "locked", "locked")
  BY <1>5, <1>6, <1>7, <1>11, JoinFour
<1>13. Same(FoldOracles \o EvalAtBetas \o QuotientX, CheckFoldedEvals \o AggregateOracles, "locked", "locked")
  BY <1>8, <1>12, SameJoin
<1>14. Same(FoldOracles \o EvalAtBetas \o QuotientX \o QuotientY \o OpenAtDeltas,
            CheckFoldedEvals \o AggregateOracles \o CheckQuotients, "locked", "locked")
  BY <1>5, <1>9, <1>10, <1>11, <1>13, JoinInto
<1> QED BY <1>14 DEF HyperBiKzgOpen, HyperBiKzgVerify

(* Whichever scheme is chosen.                                             *)
LEMMA SamePcs == Same(PcsOpen, PcsVerify, "locked", "locked")
<1>1. Same(<<>>, <<>>, "locked", "locked")
  BY PhasesAre, SameEmpty
<1> QED BY <1>1, SameOrion, SameHyperKzg, SameHyperBiKzg, ScriptType
        DEF PcsOpen, PcsVerify, RawOpen, RawVerify

(* What is between lock and unlock.                                        *)
LEMMA SameLocked ==
  ASSUME NEW a, NEW b, Same(a, b, "locked", "locked")
  PROVE  Same(Locked(a), Locked(b), "bound", "bound")
<1> DEFINE l == Do("lock", "lock", 0, 0)
           u == Do("unlock", "lock", 0, 0)
<1>0. "lock" \in Label /\ 0 \in Nat /\ "bound" \in Phase
  BY PhasesAre DEF Label
<1>1. Same(l, l, "bound", "locked") /\ Same(u, u, "locked", "bound")
  BY <1>0, LikeCalls
<1>2. Locked(a) = l \o a \o u /\ Locked(b) = l \o b \o u
  BY DEF Locked
<1> HIDE DEF l, u
<1>3. Same(l \o a, l \o b, "bound", "locked")
  BY <1>1, SameJoin
<1> QED BY <1>1, <1>2, <1>3, SameJoin

(* A claim about the input layer, of which there is one only if there are  *)
(* several ranks.                                                          *)
LEMMA SameClaim ==
  ASSUME NEW claim \in Nat
  PROVE  Same(ProveInputLayerClaim(claim), GetPcsOpeningFromProofAndVerify(claim), "bound", "bound")
<1> DEFINE take == Do("take", "opening", 0, claim)
           p == DoRoot("append", "opening", 0, claim)
           v == Do("append", "opening", 0, claim)
<1>0. "opening" \in Label /\ 0 \in Nat /\ "bound" \in Live /\ "bound" \in Phase /\ "bound" \in Live \cup {"fresh"}
  BY PhasesAre DEF Label
<1>1. Same(Locked(PcsOpen), Locked(PcsVerify), "bound", "bound")
  BY SamePcs, SameLocked
<1>2. Same(<<>>, take, "bound", "bound")
  BY <1>0, SilentCalls
<1>3. Same(p, v, "bound", "bound")
  BY <1>0, LikeCalls
<1>4. /\ ProveInputLayerClaim(claim) = Locked(PcsOpen) \o p
      /\ GetPcsOpeningFromProofAndVerify(claim) = take \o Locked(PcsVerify) \o v
  BY DEF ProveInputLayerClaim, GetPcsOpeningFromProofAndVerify
<1> HIDE DEF take, p, v
<1>5. Same(Locked(PcsOpen), take \o Locked(PcsVerify), "bound", "bound")
  BY <1>1, <1>2, SilentJoin
<1> QED BY <1>3, <1>4, <1>5, SameJoin

(* Grinding.                                                               *)
LEMMA SameGrind == Same(Grind, Grind, "bound", "bound")
<1> DEFINE seqs == [i \in 1 .. GrindRounds |->
             Do("append", "grind", 0, i) \o Do("refresh", "grind", 0, i)]
           r == Do("refresh", "grind", 0, 0)
           z == Do("append", "grind", 0, 0)
           body == FlattenSeq(seqs) \o z
<1>0. /\ "grind" \in Label /\ 0 \in Nat /\ GrindRounds \in Nat
      /\ "bound" \in Live /\ "bound" \in Phase /\ "locked" \in Live /\ "locked" \in Phase
  BY ScriptType, PhasesAre DEF Label
<1>1. ASSUME NEW i \in 1 .. GrindRounds PROVE Same(seqs[i], seqs[i], "locked", "locked")
  <2>1. i \in Nat
    BY <1>0
  <2>2. Same(Do("append", "grind", 0, i), Do("append", "grind", 0, i), "locked", "locked")
    BY <1>0, <2>1, LikeCalls
  <2>3. Same(Do("refresh", "grind", 0, i), Do("refresh", "grind", 0, i), "locked", "locked")
    BY <1>0, <2>1, LikeCalls
  <2>4. seqs[i] = Do("append", "grind", 0, i) \o Do("refresh", "grind", 0, i)
    OBVIOUS
  <2> HIDE DEF seqs
  <2> QED BY <2>2, <2>3, <2>4, SameJoin
<1>2. seqs = [i \in 1 .. GrindRounds |-> seqs[i]]
  OBVIOUS
<1>3. Same(r, r, "bound", "bound") /\ Same(z, z, "locked", "locked")
  BY <1>0, LikeCalls
<1>4. Grind = IF GrindRounds = 0 THEN <<>> ELSE r \o Locked(body)
  BY DEF Grind, Repeat
<1> HIDE DEF seqs, r, z
<1>5. Same(FlattenSeq(seqs), FlattenSeq(seqs), "locked", "locked")
  BY <1>0, <1>1, <1>2, SameFlatten
<1>6. Same(body, body, "locked", "locked")
  BY <1>3, <1>5, SameJoin
<1> HIDE DEF body
<1>7. Same(r \o Locked(body), r \o Locked(body), "bound", "bound")
  BY <1>3, <1>6, SameJoin, SameLocked
<1>8. Same(<<>>, <<>>, "bound", "bound")
  BY <1>0, SameEmpty
<1> QED BY <1>4, <1>7, <1>8

(* The public inputs the verifier is called with are those of the root     *)
(* rank, the only ones the prover binds.                                   *)
RootInputsOnly ==
  /\ \A k \in 1 .. Len(VerifierPI) : VerifierPI[k] = IF k = 1 THEN NumPI ELSE 0
  /\ NumPI = 0 \/ Len(VerifierPI) > 0

(* What prove and verify have to be built and called with for the verifier *)
(* to follow the prover.                                                   *)
SidesFit ==
  /\ RootInputsOnly
  /\ TrailingZeros(WorldSize) = Ilog2(WorldSize)
  /\ WorldSize > 1 => ~Recursion /\ ~Layers[1].phase2

(* A loop whose bodies are empty but the first.                            *)
LEMMA FlattenFirst ==
  ASSUME NEW N \in Nat, N > 0, NEW F, F = [i \in 1 .. N |-> F[i]],
         \A i \in 1 .. N : F[i] \in Seq(Call) /\ (i # 1 => F[i] = <<>>)
  PROVE  FlattenSeq(F) = F[1]
<1>1. Len(F) = N
  OBVIOUS
<1>2. PICK f : /\ \A i \in 1 .. N : f[i] = IF i = 1 THEN F[i] ELSE f[i - 1] \o F[i]
               /\ FlattenSeq(F) = f[N]
  BY <1>1, FlattenIsFold
<1> DEFINE S == {n \in Nat : n \in 1 .. N => f[n] = F[1]}
<1>3. 0 \in S
  OBVIOUS
<1>4. ASSUME NEW n \in Nat, n \in S PROVE n + 1 \in S
  <2>1. SUFFICES ASSUME n + 1 \in 1 .. N PROVE f[n + 1] = F[1]
    OBVIOUS
  <2>2. CASE n = 0
    BY <1>2, <2>1, <2>2
  <2>3. CASE n # 0
    <3>1. n \in 1 .. N /\ 1 \in 1 .. N /\ n + 1 # 1 /\ (n + 1) - 1 = n
      BY <2>1, <2>3
    <3>2. f[n] = F[1] /\ F[1] \in Seq(Call)
      BY <1>4, <3>1
    <3>3. f[n + 1] = f[n] \o F[n + 1]
      <4>1. f[n + 1] = IF n + 1 = 1 THEN F[n + 1] ELSE f[(n + 1) - 1] \o F[n + 1]
        BY <1>2, <2>1, Zenon
      <4> QED BY <3>1, <4>1
    <3>4. F[n + 1] = <<>>
      BY <2>1, <3>1
    <3>5. F[1] \o <<>> = F[1]
      BY <3>2, ConcatEmptySeq
    <3> QED BY <3>2, <3>3, <3>4, <3>5
  <2> QED BY <2>2, <2>3
<1>5. N \in S
  <2> HIDE DEF S
  <2> QED BY <1>3, <1>4, SetInduction
<1> QED BY <1>2, <1>5

(* The public inputs.                                                      *)
LEMMA SamePublicInputs ==
  ASSUME RootInputsOnly, WorldSize > 1 => ~Recursion
  PROVE  Same(BindPublicInput, BindAndCheckPublicInputs, "fresh", "fresh")
<1> DEFINE N == Len(VerifierPI)
           b == [i \in 1 .. NumPI |-> DoRoot("append", "pi", 0, i)]
           W(op, k) == [i \in 1 .. VerifierPI[k] |-> Do(op, "pi", k - 1, i)]
           F(op) == [k \in 1 .. N |-> FlattenSeq(W(op, k))]
<1>0. /\ "pi" \in Label /\ 0 \in Nat /\ NumPI \in Nat /\ N \in Nat
      /\ \A k \in 1 .. N : VerifierPI[k] \in Nat
      /\ "fresh" \in Phase /\ "fresh" \in Live \cup {"fresh"}
  BY ScriptType, ScriptAssumption, PhasesAre DEF Label
<1>1. \A op : ForPublicInputs(op) = FlattenSeq(F(op))
  BY DEF ForPublicInputs, Repeat
<1>2. BindPublicInput = FlattenSeq(b) \o Sync
  BY DEF BindPublicInput, Repeat
<1>3. Same(<<>>, ForPublicInputs("expect"), "fresh", "fresh")
  <2>1. ASSUME NEW k \in 1 .. N PROVE Same(<<>>, FlattenSeq(W("expect", k)), "fresh", "fresh")
    <3> DEFINE w == W("expect", k)
    <3>1. ASSUME NEW i \in 1 .. VerifierPI[k] PROVE Same(<<>>, w[i], "fresh", "fresh")
      <4>1. i \in Nat /\ k - 1 \in Nat
        BY <1>0
      <4>2. Same(<<>>, Do("expect", "pi", k - 1, i), "fresh", "fresh")
        BY <1>0, <4>1, SilentCalls
      <4> QED BY <4>2
    <3>2. w = [i \in 1 .. VerifierPI[k] |-> w[i]]
      OBVIOUS
    <3>3. VerifierPI[k] \in Nat
      BY <1>0
    <3> HIDE DEF w
    <3>4. Same(<<>>, FlattenSeq(w), "fresh", "fresh")
      BY <1>0, <3>1, <3>2, <3>3, SilentFlatten
    <3> QED BY <3>4 DEF w
  <2> DEFINE g == F("expect")
  <2>2. g = [k \in 1 .. N |-> g[k]] /\ \A k \in 1 .. N : Same(<<>>, g[k], "fresh", "fresh")
    BY <2>1
  <2> HIDE DEF g
  <2>3. Same(<<>>, FlattenSeq(g), "fresh", "fresh")
    BY <1>0, <2>2, SilentFlatten
  <2> QED BY <1>1, <2>3 DEF g
<1>4. Same(FlattenSeq(b), ForPublicInputs("append"), "fresh", "fresh")
  <2> DEFINE g == F("append")
             v == [i \in 1 .. NumPI |-> Do("append", "pi", 0, i)]
  <2>1. Same(FlattenSeq(b), FlattenSeq(v), "fresh", "fresh")
    <3>1. ASSUME NEW i \in 1 .. NumPI PROVE Same(b[i], v[i], "fresh", "fresh")
      <4>1. i \in Nat
        BY <1>0
      <4>2. Same(DoRoot("append", "pi", 0, i), Do("append", "pi", 0, i), "fresh", "fresh")
        BY <1>0, <4>1, LikeCalls
      <4> QED BY <4>2
    <3>2. b = [i \in 1 .. NumPI |-> b[i]] /\ v = [i \in 1 .. NumPI |-> v[i]]
      OBVIOUS
    <3> HIDE DEF b, v
    <3> QED BY <1>0, <3>1, <3>2, SameFlatten
  <2>2. ASSUME NEW k \in 1 .. N, k # 1 PROVE g[k] = <<>>
    <3>1. VerifierPI[k] = 0
      BY <2>2 DEF RootInputsOnly
    <3>2. W("append", k) = <<>>
      BY <3>1
    <3>3. FlattenSeq(<<>>) = <<>>
      BY DEF FlattenSeq
    <3> QED BY <3>2, <3>3
  <2>3. CASE N > 0
    <3>1. VerifierPI[1] = NumPI /\ 1 - 1 = 0 /\ 1 \in 1 .. N
      BY <1>0, <2>3 DEF RootInputsOnly
    <3>2. g[1] = FlattenSeq(v)
      BY <3>1
    <3>3. g = [k \in 1 .. N |-> g[k]]
      OBVIOUS
    <3>4. FlattenSeq(v) \in Seq(Call) /\ <<>> \in Seq(Call)
      BY <2>1, SameCalls
    <3> HIDE DEF g, v
    <3>5. \A k \in 1 .. N : g[k] \in Seq(Call) /\ (k # 1 => g[k] = <<>>)
      BY <2>2, <3>2, <3>4
    <3>6. FlattenSeq(g) = g[1]
      BY <1>0, <2>3, <3>3, <3>5, FlattenFirst
    <3> QED BY <1>1, <2>1, <3>2, <3>6 DEF g
  <2>4. CASE N = 0
    <3>1. NumPI = 0
      BY <2>4 DEF RootInputsOnly
    <3>2. v = <<>> /\ g = <<>>
      BY <2>4, <3>1
    <3> QED BY <1>1, <2>1, <3>2
  <2> QED BY <1>0, <2>3, <2>4
<1>5. Same(Sync, <<>>, "fresh", "fresh")
  BY LikeSync, WorldAssumption
<1> HIDE DEF b
<1>6. Same(FlattenSeq(b), ForPublicInputs("expect") \o ForPublicInputs("append"), "fresh", "fresh")
  BY <1>3, <1>4, SilentJoin
<1> QED BY <1>2, <1>5, <1>6, SilentAfter DEF BindAndCheckPublicInputs

(* What the ranks exchange to commit adds no event.                        *)
LEMMA SilentCommit == Same(PcsCommit, <<>>, "fresh", "fresh")
<1>1. /\ Same(Gather, <<>>, "fresh", "fresh") /\ Same(Bcast, <<>>, "fresh", "fresh")
      /\ Same(Collective("alltoall"), <<>>, "fresh", "fresh")
  BY SilentCalls
<1>2. Same(OrionCommit, <<>>, "fresh", "fresh")
  BY <1>1, SilentAfter DEF OrionCommit
<1> QED BY <1>1, <1>2, ScriptType DEF PcsCommit, RawCommit, KzgCommit

(* The root fills the coefficients with the challenges the verifier draws  *)
(* for them.                                                               *)
LEMMA SameCoefs ==
  Same(ShareRndCoefs, Repeat(NumCoefs, LAMBDA i : Do("sample", "coef", 0, i)), "bound", "bound")
<1> DEFINE p == [i \in 1 .. NumCoefs |-> DoRoot("fill", "coef", 0, i)]
           v == [i \in 1 .. NumCoefs |-> Do("sample", "coef", 0, i)]
<1>0. "coef" \in Label /\ 0 \in Nat /\ NumCoefs \in Nat /\ "bound" \in Live /\ "bound" \in Phase
      /\ "bound" \in Live \cup {"fresh"}
  BY ScriptType, PhasesAre DEF Label
<1>1. ASSUME NEW i \in 1 .. NumCoefs PROVE Same(p[i], v[i], "bound", "bound")
  <2>1. i \in Nat
    BY <1>0
  <2>2. Same(DoRoot("fill", "coef", 0, i), Do("sample", "coef", 0, i), "bound", "bound")
    BY <1>0, <2>1, LikeCalls
  <2> QED BY <2>2
<1>2. p = [i \in 1 .. NumCoefs |-> p[i]] /\ v = [i \in 1 .. NumCoefs |-> v[i]]
  OBVIOUS
<1>3. ShareRndCoefs = FlattenSeq(p) \o Collective("barrier")
  BY DEF ShareRndCoefs, FillRndCoefs, Repeat
<1>4. Repeat(NumCoefs, LAMBDA i : Do("sample", "coef", 0, i)) = FlattenSeq(v)
  BY DEF Repeat
<1> HIDE DEF p, v
<1>5. Same(FlattenSeq(p), FlattenSeq(v), "bound", "bound")
  BY <1>0, <1>1, <1>2, SameFlatten
<1>6. Same(Collective("barrier"), <<>>, "bound", "bound")
  BY <1>0, SilentCalls
<1> QED BY <1>3, <1>4, <1>5, <1>6, SilentAfter

(* A pair that is not in step yet goes on with pieces that match, or with  *)
(* calls the verifier has no counterpart for.                              *)
LEMMA MatchesOn ==
  ASSUME NEW a, NEW b, NEW c, NEW d, NEW m, NEW n, NEW m1, NEW m2,
         Matches(a, b, m, n, m1, m1), Same(c, d, m1, m2)
  PROVE  Matches(a \o c, b \o d, m, n, m2, m2)
BY MatchesJoin DEF Same

(* Matching pieces are pieces of programs.                                 *)
LEMMA MatchesCalls ==
  ASSUME NEW a, NEW b, NEW m, NEW n, NEW m1, NEW n1, Matches(a, b, m, n, m1, n1)
  PROVE  a \in Seq(Call) /\ b \in Seq(Call) /\ <<>> \o b = b /\ b \o <<>> = b
<1>1. a \in Seq(Call) /\ b \in Seq(Call)
  BY DEF Matches, Traces
<1> QED BY <1>1, ConcatEmptySeq

(* A silent piece of the prover may come after.                            *)
LEMMA MatchesSilent ==
  ASSUME NEW a, NEW b, NEW c, NEW m, NEW n, NEW m1, NEW n1, NEW m2,
         Matches(a, b, m, n, m1, n1), Matches(c, <<>>, m1, n1, m2, n1)
  PROVE  Matches(a \o c, b, m, n, m2, n1)
<1>1. Matches(a \o c, b \o <<>>, m, n, m2, n1)
  BY MatchesJoin
<1>2. b \o <<>> = b
  BY MatchesCalls
<1> QED BY <1>1, <1>2

(* The first call of a proof, the last and the writing of it.              *)
LEMMA ProverOnly ==
  /\ Matches(Do("new", "new", 0, 0), <<>>, "start", "fresh", "fresh", "fresh")
  /\ Matches(Do("finish", "proof", 0, 0), <<>>, "bound", "bound", "done", "bound")
  /\ Matches(DoRoot("dump", "file", 0, 0), <<>>, "done", "bound", "filed", "bound")
<1> DEFINE o == [op |-> "new", who |-> "all", arg |-> <<"new", 0, 0>>]
           f == [op |-> "finish", who |-> "all", arg |-> <<"proof", 0, 0>>]
           d == [op |-> "dump", who |-> "root", arg |-> <<"file", 0, 0>>]
<1>1. /\ {"new", "finish", "dump"} \subseteq CallOp /\ {"new", "proof", "file"} \subseteq Label /\ 0 \in Nat
      /\ {"start", "fresh", "bound", "done", "filed"} \subseteq Phase
  BY DEF CallOp, LocalOp, Label, Phase
<1>2. /\ o \in Call /\ o.op = "new" /\ f \in Call /\ f.op = "finish"
      /\ d \in Call /\ d.op = "dump" /\ d.who = "root"
  BY <1>1, CallIs
<1>3. Do("new", "new", 0, 0) = <<o>> /\ Do("finish", "proof", 0, 0) = <<f>> /\ DoRoot("dump", "file", 0, 0) = <<d>>
  BY DEF Do, DoRoot
<1> HIDE DEF o, f, d
<1>4. Legal(o, "start") /\ EventOf(o, "start") = <<>> /\ PhaseAfter(o.op, "start") = "fresh"
  BY <1>2 DEF Legal, EventOf, PhaseAfter, DrawOp
<1>5. Legal(f, "bound") /\ EventOf(f, "bound") = <<>> /\ PhaseAfter(f.op, "bound") = "done"
  BY <1>2 DEF Legal, EventOf, PhaseAfter, DrawOp
<1>6. Legal(d, "done") /\ EventOf(d, "done") = <<>> /\ PhaseAfter(d.op, "done") = "filed"
  BY <1>2 DEF Legal, EventOf, PhaseAfter, DrawOp
<1>7. Traces(<<o>>, <<>>, "start", "fresh") /\ Traces(<<f>>, <<>>, "bound", "done")
      /\ Traces(<<d>>, <<>>, "done", "filed")
  BY <1>1, <1>2, <1>4, <1>5, <1>6, TraceOne
<1>8. Traces(<<>>, <<>>, "fresh", "fresh") /\ Traces(<<>>, <<>>, "bound", "bound")
  BY <1>1, TraceEmpty
<1> QED BY <1>3, <1>7, <1>8 DEF Matches

(* The verifier's functions divide its program in another way.             *)
LEMMA FourRegroup ==
  ASSUME NEW b \in Seq(Call), NEW c \in Seq(Call), NEW d \in Seq(Call), NEW e \in Seq(Call), NEW f \in Seq(Call)
  PROVE  Then(b, Then(Then(Then(c, d), e), f)) = Then(Then(Then(Then(b, c), d), e), f)
<1> DEFINE x == Then(c, d)
           y == Then(x, e)
           u == Then(Then(b, c), d)
<1>1. x \in Seq(Call) /\ Then(b, x) = u
  BY ThenRegroup
<1> HIDE DEF x
<1>2. y \in Seq(Call) /\ Then(b, y) = Then(Then(b, x), e)
  BY <1>1, ThenRegroup
<1> HIDE DEF y
<1>3. Then(b, Then(y, f)) = Then(Then(b, y), f)
  BY <1>2, ThenRegroup
<1> QED BY <1>1, <1>2, <1>3 DEF x, y, u

(* The programs of the prover and of the verifier have the same events:    *)
(* what the root appends the verifier appends, in the same order, and both *)
(* draw their challenges in between at the same places.                    *)
THEOREM ProgramsMatch ==
  ASSUME SidesFit
  PROVE  Matches(ProveCommand, Verify, "start", "fresh", "filed", "bound")
<1> DEFINE new == Do("new", "new", 0, 0)
           com == DoRoot("commit", "com", 0, 0)
           pcom == Do("parsecom", "com", 0, 0)
           read == Do("read", "coefs", 0, 0)
           x == IF Layers[1].phase2 THEN Sync \o ProveInputLayerClaim(2) ELSE <<>>
           y == IF Layers[1].phase2 THEN GetPcsOpeningFromProofAndVerify(2) ELSE <<>>
           fin == Do("finish", "proof", 0, 0)
           dump == DoRoot("dump", "file", 0, 0)
           bac == BindAndCheckPublicInputs
           k == Repeat(NumCoefs, LAMBDA i : Do("sample", "coef", 0, i))
           claim1 == ProveInputLayerClaim(1)
           open1 == GetPcsOpeningFromProofAndVerify(1)
           A1 == new \o BindPublicInput
           A2 == A1 \o PcsCommit
           A3 == A2 \o com
           A4 == A3 \o Grind
           A5 == A4 \o ShareRndCoefs
           A6 == A5 \o read
           A7 == A6 \o Sync
           A8 == A7 \o GkrProve
           A9 == A8 \o Sync
           A10 == A9 \o claim1
           A11 == A10 \o x
           A12 == A11 \o fin
           B3 == bac \o pcom
           B4 == B3 \o Grind
           B5 == B4 \o k
           B7 == B5 \o VerifierSync
           B8 == B7 \o GkrVerify
           B9 == B8 \o VerifierSync
           B10 == B9 \o open1
           B11 == B10 \o y
<1>0. /\ {"com", "coefs"} \subseteq Label /\ {0, 1, 2} \subseteq Nat
      /\ "bound" \in Live /\ "bound" \in Phase /\ "fresh" \in Phase /\ "bound" \in Live \cup {"fresh"}
  BY PhasesAre DEF Label
<1>1. /\ ProveCommand = A12 \o dump
      /\ Verify = bac \o (pcom \o Grind \o k \o VerifierSync) \o GkrVerify \o VerifierSync \o (open1 \o y)
  BY DEF ProveCommand, Prove, Verify, PreGkr, PostGkr
<1>2. Matches(new, <<>>, "start", "fresh", "fresh", "fresh")
      /\ Matches(fin, <<>>, "bound", "bound", "done", "bound")
      /\ Matches(dump, <<>>, "done", "bound", "filed", "bound")
  BY ProverOnly
<1>3. Same(BindPublicInput, bac, "fresh", "fresh") /\ Same(PcsCommit, <<>>, "fresh", "fresh")
  BY SamePublicInputs, SilentCommit DEF SidesFit
<1>4. Same(com, pcom, "fresh", "bound")
  BY <1>0, LikeCalls
<1>5. Same(Grind, Grind, "bound", "bound") /\ Same(ShareRndCoefs, k, "bound", "bound")
  BY SameGrind, SameCoefs
<1>6. Same(read, <<>>, "bound", "bound")
  BY <1>0, SilentCalls
<1>7. Same(Sync, VerifierSync, "bound", "bound") /\ Same(GkrProve, GkrVerify, "bound", "bound")
  BY <1>0, LikeSync, SameGkr DEF SidesFit
<1>8. Same(claim1, open1, "bound", "bound")
  BY <1>0, SameClaim
<1>9. Same(x, y, "bound", "bound")
  <2>1. CASE ~Layers[1].phase2
    BY <1>0, <2>1, SameEmpty
  <2>2. CASE Layers[1].phase2
    <3>1. Sync = <<>>
      BY <2>2, WorldAssumption DEF SidesFit, Sync, Collective, IfMpi
    <3>2. Same(ProveInputLayerClaim(2), GetPcsOpeningFromProofAndVerify(2), "bound", "bound")
      BY <1>0, SameClaim
    <3>3. Same(<<>>, <<>>, "bound", "bound")
      BY <1>0, SameEmpty
    <3>4. Same(<<>> \o ProveInputLayerClaim(2), GetPcsOpeningFromProofAndVerify(2), "bound", "bound")
      BY <3>2, <3>3, SilentBefore
    <3> QED BY <2>2, <3>1, <3>4
  <2> QED BY <2>1, <2>2
<1>10. /\ bac \in Seq(Call) /\ pcom \in Seq(Call) /\ Grind \in Seq(Call) /\ k \in Seq(Call)
       /\ VerifierSync \in Seq(Call) /\ GkrVerify \in Seq(Call) /\ open1 \in Seq(Call) /\ y \in Seq(Call)
  BY <1>3, <1>4, <1>5, <1>7, <1>8, <1>9, SameCalls
<1>11. B11 = bac \o pcom \o Grind \o k \o VerifierSync \o GkrVerify \o VerifierSync \o open1 \o y
  OBVIOUS
<1> HIDE DEF new, com, pcom, read, x, y, fin, dump, bac, k, claim1, open1
<1> HIDE DEF A1, A2, A3, A4, A5, A6, A7, A8, A9, A10, A11, A12, B3, B4, B5, B7, B8, B9, B10, B11
<1> DEFINE pre == bac \o pcom \o Grind \o k \o VerifierSync
           all == pre \o GkrVerify \o VerifierSync
<1>12. Verify = B11
  <2>1. bac \o (pcom \o Grind \o k \o VerifierSync) = pre
    <3>1. Then(bac, Then(Then(Then(pcom, Grind), k), VerifierSync))
            = Then(Then(Then(Then(bac, pcom), Grind), k), VerifierSync)
      BY <1>10, FourRegroup
    <3> QED BY <3>1 DEF Then, pre
  <2> HIDE DEF pre
  <2>2. pre \in Seq(Call)
    <3>1. bac \o pcom \in Seq(Call)
      BY <1>10, ConcatProperties
    <3>2. bac \o pcom \o Grind \in Seq(Call)
      BY <1>10, <3>1, ConcatProperties
    <3>3. bac \o pcom \o Grind \o k \in Seq(Call)
      BY <1>10, <3>2, ConcatProperties
    <3> QED BY <1>10, <3>3, ConcatProperties DEF pre
  <2>3. all \in Seq(Call)
    <3>1. pre \o GkrVerify \in Seq(Call)
      BY <1>10, <2>2, ConcatProperties
    <3> QED BY <1>10, <3>1, ConcatProperties
  <2>4. Verify = all \o (open1 \o y)
    BY <1>1, <2>1
  <2>5. B11 = all \o open1 \o y
    BY <1>11 DEF pre
  <2> HIDE DEF all
  <2>6. all \o (open1 \o y) = (all \o open1) \o y
    <3>1. Then(all, Then(open1, y)) = Then(Then(all, open1), y)
      BY <1>10, <2>3, ThenRegroup
    <3> QED BY <3>1 DEF Then
  <2> QED BY <2>4, <2>5, <2>6
<1> HIDE DEF pre, all
<1> USE DEF A1, A2, A3, A4, A5, A6, A7, A8, A9, A10, A11, A12, B3, B4, B5, B7, B8, B9, B10, B11
<1>13. Matches(A1, bac, "start", "fresh", "fresh", "fresh")
  <2>1. Matches(new \o BindPublicInput, <<>> \o bac, "start", "fresh", "fresh", "fresh")
    BY <1>2, <1>3, MatchesOn
  <2>2. <<>> \o bac = bac
    BY <1>10, ConcatEmptySeq
  <2> QED BY <2>1, <2>2
<1>14. Matches(A2, bac, "start", "fresh", "fresh", "fresh")
  BY <1>3, <1>13, MatchesSilent DEF Same
<1> HIDE DEF A1, A2
<1>15. Matches(A3, B3, "start", "fresh", "bound", "bound")
  BY <1>4, <1>14, MatchesOn
<1> HIDE DEF A3, B3
<1>16. Matches(A4, B4, "start", "fresh", "bound", "bound")
  BY <1>5, <1>15, MatchesOn
<1> HIDE DEF A4, B4
<1>17. Matches(A5, B5, "start", "fresh", "bound", "bound")
  BY <1>5, <1>16, MatchesOn
<1> HIDE DEF A5, B5
<1>18. Matches(A6, B5, "start", "fresh", "bound", "bound")
  BY <1>6, <1>17, MatchesSilent DEF Same
<1> HIDE DEF A6
<1>19. Matches(A7, B7, "start", "fresh", "bound", "bound")
  BY <1>7, <1>18, MatchesOn
<1> HIDE DEF A7, B7
<1>20. Matches(A8, B8, "start", "fresh", "bound", "bound")
  BY <1>7, <1>19, MatchesOn
<1> HIDE DEF A8, B8
<1>21. Matches(A9, B9, "start", "fresh", "bound", "bound")
  BY <1>7, <1>20, MatchesOn
<1> HIDE DEF A9, B9
<1>22. Matches(A10, B10, "start", "fresh", "bound", "bound")
  BY <1>8, <1>21, MatchesOn
<1> HIDE DEF A10, B10
<1>23. Matches(A11, B11, "start", "fresh", "bound", "bound")
  BY <1>9, <1>22, MatchesOn
<1> HIDE DEF A11, B11
<1>24. Matches(A12, B11, "start", "fresh", "done", "bound")
  BY <1>2, <1>23, MatchesSilent
<1> HIDE DEF A12
<1>25. Matches(A12 \o dump, B11, "start", "fresh", "filed", "bound")
  BY <1>2, <1>24, MatchesSilent
<1> QED BY <1>1, <1>12, <1>25

-----------------------------------------------------------------------------
(* What an event does to a transcript, and what it does call by call.      *)
ItemIs(a) == [what |-> a, by |-> ROOT_RANK]

(* What an event does to a transcript.                                     *)
Effect(v, t) ==
  CASE v.ev = "append" -> AppendItem(t, ItemIs(v.arg))
    [] v.ev = "commit" -> AppendCommitment(t, ItemIs(v.arg))
    [] v.ev = "lock"   -> LockProof(t)
    [] v.ev = "unlock" -> IF t.proof_locked THEN UnlockProof(t) ELSE t
    [] OTHER           -> RefreshDigest(t)

(* What the events of a call do, of which there is at most one.            *)
Apply(es, t) == IF es = <<>> THEN t ELSE Effect(es[1], t)

(* The transcripts that the events e lead through.                         *)
Sound == {t \in Transcript(Item) : LockOK(t)}

(* T[j] is the transcript after the first j events of e.                   *)
IsRun(e, T) ==
  /\ T \in [0 .. Len(e) -> Sound]
  /\ T[0] = NewTranscript
  /\ \A i \in 1 .. Len(e) : T[i] = Effect(e[i], T[i - 1])

(* An event leaves a transcript sound.                                     *)
LEMMA EffectType ==
  ASSUME NEW v \in Event, NEW t \in Sound
  PROVE  Effect(v, t) \in Sound
<1>0. t \in Transcript(Item) /\ LockOK(t)
  BY DEF Sound
<1>1. CASE v.ev \in {"append", "commit"}
  <2>1. v.arg \in Arg
    BY <1>1 DEF Event, Mark
  <2>2. ItemIs(v.arg) \in Item
    BY <2>1, RootIsRank DEF ItemIs, Item
  <2>3. AppendItem(t, ItemIs(v.arg)) \in Sound
    BY <1>0, <2>2, AppendType DEF Sound
  <2>4. AppendCommitment(t, ItemIs(v.arg)) \in Sound
    BY <1>0, <2>2, CommitType DEF Sound
  <2> QED BY <1>1, <2>3, <2>4 DEF Effect
<1>2. CASE v.ev = "lock"
  BY <1>0, <1>2, LockType DEF Effect, Sound
<1>3. CASE v.ev = "unlock"
  BY <1>0, <1>3, UnlockType DEF Effect, Sound
<1>4. CASE v.ev \notin {"append", "commit", "lock", "unlock"}
  <2>1. RefreshDigest(t) \in Sound
    BY <1>0, RefreshType DEF Sound
  <2> QED BY <1>4, <2>1 DEF Effect
<1> QED BY <1>1, <1>2, <1>3, <1>4

(* Every sequence of events leads through transcripts.                     *)
LEMMA RunExists ==
  ASSUME NEW e \in Seq(Event)
  PROVE  \E T : IsRun(e, T)
<1> DEFINE Is(T, k) == /\ T \in [0 .. k -> Sound] /\ T[0] = NewTranscript
                       /\ \A i \in 1 .. k : T[i] = Effect(e[i], T[i - 1])
           S == {k \in Nat : k <= Len(e) => \E T : Is(T, k)}
<1>0. Len(e) \in Nat /\ NewTranscript \in Sound
  BY LenProperties, NewType DEF Sound
<1>1. 0 \in S
  <2> DEFINE T == [i \in 0 .. 0 |-> NewTranscript]
  <2>1. T \in [0 .. 0 -> Sound] /\ T[0] = NewTranscript
    BY <1>0
  <2> HIDE DEF T
  <2>2. Is(T, 0)
    BY <2>1
  <2>3. \E U : Is(U, 0)
    BY <2>2
  <2> HIDE DEF Is
  <2> QED BY <2>3
<1>2. ASSUME NEW k \in Nat, k \in S PROVE k + 1 \in S
  <2> SUFFICES ASSUME k + 1 <= Len(e) PROVE \E T : Is(T, k + 1)
    OBVIOUS
  <2>1. PICK T : Is(T, k)
    BY <1>0, <1>2
  <2> DEFINE U == [i \in 0 .. k + 1 |-> IF i <= k THEN T[i] ELSE Effect(e[k + 1], T[k])]
  <2>2. k + 1 \in 1 .. Len(e) /\ e[k + 1] \in Event /\ T[k] \in Sound
    BY <1>0, <2>1, ElementOfSeq
  <2>3. Effect(e[k + 1], T[k]) \in Sound
    BY <2>2, EffectType
  <2>4. (\A i \in 0 .. k : U[i] = T[i]) /\ U[k + 1] = Effect(e[k + 1], T[k]) /\ DOMAIN U = 0 .. k + 1
    OBVIOUS
  <2>5. U \in [0 .. k + 1 -> Sound]
    BY <2>1, <2>3
  <2> HIDE DEF U
  <2>6. ASSUME NEW i \in 1 .. k + 1 PROVE U[i] = Effect(e[i], U[i - 1])
    <3>1. CASE i \in 1 .. k
      <4>1. i \in 0 .. k /\ i - 1 \in 0 .. k
        BY <3>1
      <4>2. T[i] = Effect(e[i], T[i - 1])
        BY <2>1, <3>1
      <4> QED BY <2>4, <4>1, <4>2
    <3>2. CASE i = k + 1
      <4>1. k \in 0 .. k /\ i - 1 = k
        BY <3>2
      <4> QED BY <2>4, <3>2, <4>1
    <3> QED BY <3>1, <3>2
  <2>7. U[0] = NewTranscript
    BY <2>1, <2>4
  <2>8. Is(U, k + 1)
    BY <2>5, <2>6, <2>7
  <2> HIDE DEF Is
  <2> QED BY <2>8
<1>3. Len(e) \in S
  <2> HIDE DEF S
  <2> QED BY <1>0, <1>1, <1>2, SetInduction
<1>4. PICK T : Is(T, Len(e))
  BY <1>0, <1>3
<1> QED BY <1>4 DEF IsRun

(* One call on: the transcript that belongs to the next position is the    *)
(* one that the call's event makes.                                        *)
LEMMA WalkStep ==
  ASSUME NEW s \in Seq(Call), NEW e \in Seq(Event), NEW m, NEW m2, NEW n, NEW ph, NEW T,
         IsWalk(s, e, m, m2, n, ph), IsRun(e, T), NEW i \in 1 .. Len(s)
  PROVE  /\ s[i] \in Call /\ ph[i] \in Phase /\ Legal(s[i], ph[i])
         /\ ph[i + 1] = PhaseAfter(s[i].op, ph[i])
         /\ n[i] \in 0 .. Len(e) /\ n[i + 1] \in 0 .. Len(e) /\ Len(e) \in Nat
         /\ T[n[i]] \in Sound /\ T[n[i + 1]] = Apply(EventOf(s[i], ph[i]), T[n[i]])
         /\ \/ EventOf(s[i], ph[i]) = <<>> /\ n[i + 1] = n[i]
            \/ /\ EventOf(s[i], ph[i]) = << e[n[i] + 1] >>
               /\ n[i + 1] = n[i] + 1 /\ n[i] + 1 \in 1 .. Len(e)
<1> DEFINE v == EventOf(s[i], ph[i])
<1>1. /\ Len(s) \in Nat /\ Len(e) \in Nat /\ s[i] \in Call /\ i \in 1 .. Len(s) + 1 /\ i + 1 \in 1 .. Len(s) + 1
  BY LenProperties, ElementOfSeq
<1>2. /\ n[i] \in 0 .. Len(e) /\ n[i + 1] \in 0 .. Len(e) /\ ph[i] \in Phase /\ Passes(s, e, n, ph, i)
  BY <1>1 DEF IsWalk
<1>3. /\ Legal(s[i], ph[i]) /\ ph[i + 1] = PhaseAfter(s[i].op, ph[i])
      /\ n[i + 1] = n[i] + Len(v) /\ \A j \in 1 .. Len(v) : e[n[i] + j] = v[j]
  BY <1>2 DEF Passes
<1>4. v = <<>> \/ \E x \in Event : v = <<x>>
  BY <1>1, EventType
<1> HIDE DEF v
<1>5. T[n[i]] \in Sound
  BY <1>2 DEF IsRun
<1>6. CASE v = <<>>
  <2>1. Len(v) = 0
    BY <1>6
  <2>2. n[i + 1] = n[i]
    BY <1>2, <1>3, <2>1
  <2>3. T[n[i + 1]] = Apply(v, T[n[i]])
    BY <1>6, <2>2 DEF Apply
  <2> QED BY <1>1, <1>2, <1>3, <1>5, <1>6, <2>2, <2>3 DEF v
<1>7. ASSUME NEW x \in Event, v = <<x>>
      PROVE  /\ T[n[i + 1]] = Apply(v, T[n[i]]) /\ v = << e[n[i] + 1] >>
             /\ n[i + 1] = n[i] + 1 /\ n[i] + 1 \in 1 .. Len(e)
  <2>1. Len(v) = 1 /\ v[1] = x /\ v # <<>>
    BY <1>7
  <2>2. n[i + 1] = n[i] + 1 /\ n[i] + 1 \in 1 .. Len(e) /\ e[n[i] + 1] = x
    BY <1>1, <1>2, <1>3, <2>1
  <2>3. T[n[i] + 1] = Effect(e[n[i] + 1], T[(n[i] + 1) - 1]) /\ (n[i] + 1) - 1 = n[i]
    BY <1>2, <2>2 DEF IsRun
  <2>4. T[n[i + 1]] = Apply(v, T[n[i]])
    BY <2>1, <2>2, <2>3 DEF Apply
  <2> QED BY <1>7, <2>2, <2>4
<1>8. CASE v # <<>>
  BY <1>1, <1>2, <1>3, <1>4, <1>5, <1>7, <1>8 DEF v
<1> QED BY <1>6, <1>8

(* What a call does to the transcript of whoever makes it.                 *)
Does(o, t) ==
  CASE o.op \in {"append", "parse"}               -> AppendItem(t, ItemIs(o.arg))
    [] o.op \in {"commit", "parsecom"}            -> AppendCommitment(t, ItemIs(o.arg))
    [] o.op \in DrawOp \cup {"refresh", "sync"}   -> RefreshDigest(t)
    [] o.op = "lock"                              -> LockProof(t)
    [] o.op = "unlock"                            -> UnlockProof(t)
    [] OTHER                                      -> t

(* Transcripts that agree as far as the rest of the proof depends on them: *)
(* what was hashed before the commitment is forgotten with it.             *)
Alike(t, u, m) ==
  IF m = "fresh" /\ ~Recursion
  THEN t.proof = u.proof /\ t.proof_locked = u.proof_locked /\ t.proof_locked_at = u.proof_locked_at
  ELSE t = u

(* The phases in which there is a transcript.                              *)
Started == Live \cup {"fresh"}

(* A transcript is its five fields.                                        *)
LEMMA FieldsAre ==
  ASSUME NEW t \in Transcript(Item), NEW u \in Transcript(Item),
         t.digest = u.digest, t.proof = u.proof, t.hash_start_index = u.hash_start_index,
         t.proof_locked = u.proof_locked, t.proof_locked_at = u.proof_locked_at
  PROVE  t = u
BY DEF Transcript

(* What a refresh does to each field.                                      *)
LEMMA RefreshFields ==
  ASSUME NEW t \in Transcript(Item)
  PROVE  /\ RefreshDigest(t).proof = t.proof /\ RefreshDigest(t).proof_locked = t.proof_locked
         /\ RefreshDigest(t).proof_locked_at = t.proof_locked_at
         /\ RefreshDigest(t).digest = RefreshedDigest(t)
         /\ RefreshDigest(t).hash_start_index = Len(t.proof)
BY DEF RefreshDigest, Transcript

(* Setting the state to the digest it already has changes nothing.         *)
LEMMA SetSame ==
  ASSUME NEW t \in Transcript(Item), NEW d, d = t.digest, t.hash_start_index = Len(t.proof)
  PROVE  SetState(t, d) = t
BY DEF SetState, Transcript

(* A sync of the root with its own digest is a refresh.                    *)
LEMMA SyncIsRefresh ==
  ASSUME NEW t \in Transcript(Item)
  PROVE  SetState(RefreshDigest(t), RefreshedDigest(t)) = RefreshDigest(t)
<1>1. RefreshDigest(t) \in Transcript(Item)
  BY RefreshType
<1> QED BY <1>1, RefreshFields, SetSame

(* A call leaves a transcript sound.                                       *)
LEMMA DoesType ==
  ASSUME NEW o \in Call, NEW t \in Sound, o.op = "unlock" => t.proof_locked
  PROVE  Does(o, t) \in Sound
<1>0. t \in Transcript(Item) /\ LockOK(t)
  BY DEF Sound
<1>1. ItemIs(o.arg) \in Item
  BY RootIsRank DEF ItemIs, Item, Call
<1>2. /\ AppendItem(t, ItemIs(o.arg)) \in Sound /\ AppendCommitment(t, ItemIs(o.arg)) \in Sound
      /\ RefreshDigest(t) \in Sound /\ LockProof(t) \in Sound
      /\ o.op = "unlock" => UnlockProof(t) \in Sound
  BY <1>0, <1>1, AppendType, CommitType, RefreshType, LockType, UnlockType DEF Sound
<1> QED BY <1>2 DEF Does

(* A commitment makes alike transcripts equal.                             *)
LEMMA CommitAlike ==
  ASSUME NEW t \in Transcript(Item), NEW u \in Transcript(Item), LockOK(t), LockOK(u),
         Alike(u, t, "fresh"), NEW i \in Item
  PROVE  AppendCommitment(u, i) = AppendCommitment(t, i)
<1>1. CASE Recursion
  BY <1>1 DEF Alike
<1>2. CASE ~Recursion
  <2>1. u.proof = t.proof /\ u.proof_locked = t.proof_locked /\ u.proof_locked_at = t.proof_locked_at
    BY <1>2 DEF Alike
  <2>2. AppendCommitment(u, i) \in Transcript(Item) /\ AppendCommitment(t, i) \in Transcript(Item)
    BY CommitType
  <2> DEFINE w == AppendCommitment(u, i)
             v == AppendCommitment(t, i)
  <2>3. /\ w.digest = HashInitCommitment(i) /\ w.proof = Append(u.proof, i)
        /\ w.hash_start_index = Len(Append(u.proof, i))
        /\ w.proof_locked = u.proof_locked /\ w.proof_locked_at = u.proof_locked_at
    BY <1>2 DEF AppendCommitment, AppendItem, SetState, Transcript
  <2>4. /\ v.digest = HashInitCommitment(i) /\ v.proof = Append(t.proof, i)
        /\ v.hash_start_index = Len(Append(t.proof, i))
        /\ v.proof_locked = t.proof_locked /\ v.proof_locked_at = t.proof_locked_at
    BY <1>2 DEF AppendCommitment, AppendItem, SetState, Transcript
  <2> HIDE DEF v, w
  <2>5. v \in Transcript(Item) /\ w \in Transcript(Item)
    BY <2>2 DEF v, w
  <2>6. w = v
    BY <2>1, <2>3, <2>4, <2>5, FieldsAre
  <2> QED BY <2>6 DEF v, w
<1> QED BY <1>1, <1>2

(* The events one by one.                                                  *)
LEMMA EventsAre ==
  ASSUME NEW a, NEW t
  PROVE  /\ Apply(<< [ev |-> "append", arg |-> a] >>, t) = AppendItem(t, ItemIs(a))
         /\ Apply(<< [ev |-> "commit", arg |-> a] >>, t) = AppendCommitment(t, ItemIs(a))
         /\ Apply(<< Mark("draw") >>, t) = RefreshDigest(t)
         /\ Apply(<< Mark("refresh") >>, t) = RefreshDigest(t)
         /\ Apply(<< Mark("lock") >>, t) = LockProof(t)
         /\ t.proof_locked => Apply(<< Mark("unlock") >>, t) = UnlockProof(t)
         /\ Apply(<<>>, t) = t
<1>1. ASSUME NEW v PROVE Apply(<<v>>, t) = Effect(v, t)
  BY DEF Apply
<1>2. /\ Effect([ev |-> "append", arg |-> a], t) = AppendItem(t, ItemIs(a))
      /\ Effect([ev |-> "commit", arg |-> a], t) = AppendCommitment(t, ItemIs(a))
  BY DEF Effect
<1>3. Effect(Mark("draw"), t) = RefreshDigest(t) /\ Effect(Mark("refresh"), t) = RefreshDigest(t)
  BY DEF Effect, Mark
<1>4. Effect(Mark("lock"), t) = LockProof(t) /\ (t.proof_locked => Effect(Mark("unlock"), t) = UnlockProof(t))
  BY DEF Effect, Mark
<1>5. Apply(<<>>, t) = t
  BY DEF Apply
<1> QED BY <1>1, <1>2, <1>3, <1>4, <1>5

(* A legal call and its event keep alike transcripts alike.                *)
LEMMA DoesAlike ==
  ASSUME NEW o \in Call, NEW m \in Started, Legal(o, m), PhaseAfter(o.op, m) \in Started,
         NEW u \in Sound, NEW t \in Sound, Alike(u, t, m), o.op = "unlock" => u.proof_locked
  PROVE  Alike(Does(o, u), Apply(EventOf(o, m), t), PhaseAfter(o.op, m))
<1>0. /\ t \in Transcript(Item) /\ u \in Transcript(Item) /\ m \in Phase /\ LockOK(t) /\ LockOK(u)
      /\ ItemIs(o.arg) \in Item /\ (m \in Live => m # "fresh") /\ (m # "fresh" => m \in Live)
  BY RootIsRank DEF Sound, Started, Live, Phase, ItemIs, Item, Call
<1>a. m \in Live => u = t
  BY <1>0 DEF Alike
<1>1. CASE o.op \in {"append", "parse"}
  <2>1. PhaseAfter(o.op, m) = m /\ EventOf(o, m) = << [ev |-> "append", arg |-> o.arg] >>
    BY <1>0, <1>1, CallFacts DEF Started
  <2>2. Apply(EventOf(o, m), t) = AppendItem(t, ItemIs(o.arg))
    BY <2>1, EventsAre
  <2>4. Does(o, u) = AppendItem(u, ItemIs(o.arg))
    BY <1>1 DEF Does, DrawOp
  <2>3. Alike(AppendItem(u, ItemIs(o.arg)), AppendItem(t, ItemIs(o.arg)), m)
    BY <1>0 DEF Alike, AppendItem, Transcript
  <2> QED BY <2>1, <2>2, <2>3, <2>4
<1>2. CASE o.op \in {"commit", "parsecom"}
  <2>0. m = "fresh"
    BY <1>2 DEF Legal, DrawOp
  <2>1. PhaseAfter(o.op, m) = "bound" /\ EventOf(o, m) = << [ev |-> "commit", arg |-> o.arg] >>
    BY <1>0, <1>2, <2>0, CallFacts
  <2>2. Apply(EventOf(o, m), t) = AppendCommitment(t, ItemIs(o.arg))
    BY <2>1, EventsAre
  <2>4. Does(o, u) = AppendCommitment(u, ItemIs(o.arg))
    BY <1>2 DEF Does, DrawOp
  <2>3. AppendCommitment(u, ItemIs(o.arg)) = AppendCommitment(t, ItemIs(o.arg))
    BY <1>0, <2>0, CommitAlike
  <2> QED BY <2>1, <2>2, <2>3, <2>4 DEF Alike
<1>3. CASE o.op \in DrawOp \cup {"refresh"}
  <2>0. m \in Live
    BY <1>3 DEF Legal, DrawOp
  <2>1. PhaseAfter(o.op, m) = m /\ (EventOf(o, m) = << Mark("draw") >> \/ EventOf(o, m) = << Mark("refresh") >>)
    BY <1>0, <1>3, <2>0, CallFacts
  <2>2. Apply(EventOf(o, m), t) = RefreshDigest(t)
    BY <2>1, EventsAre
  <2>3. Does(o, u) = RefreshDigest(u)
    BY <1>3 DEF Does, DrawOp
  <2> QED BY <1>a, <2>0, <2>1, <2>2, <2>3 DEF Alike
<1>4. CASE o.op = "sync"
  <2>1. PhaseAfter(o.op, m) = m /\ Does(o, u) = RefreshDigest(u)
    BY <1>4 DEF PhaseAfter, Does
  <2>2. CASE m \in Live
    <3>1. EventOf(o, m) = << Mark("refresh") >>
      BY <1>0, <1>4, <2>2, CallFacts
    <3>2. Apply(EventOf(o, m), t) = RefreshDigest(t)
      BY <3>1, EventsAre
    <3> QED BY <1>a, <2>1, <2>2, <3>2 DEF Alike
  <2>3. CASE m = "fresh"
    <3>1. ~Recursion
      BY <1>4, <2>3 DEF Legal
    <3>2. EventOf(o, m) = <<>>
      BY <1>0, <1>4, <2>3, <3>1, CallFacts
    <3>3. Apply(EventOf(o, m), t) = t
      BY <3>2 DEF Apply
    <3> QED BY <1>0, <2>1, <2>3, <3>1, <3>3, RefreshFields DEF Alike
  <2> QED BY <1>0, <2>2, <2>3
<1>5. CASE o.op = "lock"
  <2>0. m = "bound" /\ m \in Live
    BY <1>5 DEF Legal, Live, DrawOp
  <2>1. PhaseAfter(o.op, m) = "locked" /\ EventOf(o, m) = << Mark("lock") >>
    BY <1>0, <1>5, <2>0, CallFacts
  <2>2. Apply(EventOf(o, m), t) = LockProof(t) /\ Does(o, u) = LockProof(u)
    BY <1>5, <2>1, EventsAre DEF Does, DrawOp
  <2> QED BY <1>a, <2>0, <2>1, <2>2 DEF Alike
<1>6. CASE o.op = "unlock"
  <2>0. m = "locked" /\ m \in Live
    BY <1>6 DEF Legal, Live, DrawOp
  <2>1. PhaseAfter(o.op, m) = "bound" /\ EventOf(o, m) = << Mark("unlock") >>
    BY <1>0, <1>6, <2>0, CallFacts
  <2>2. t.proof_locked
    BY <1>6, <1>a, <2>0
  <2>3. Apply(EventOf(o, m), t) = UnlockProof(t) /\ Does(o, u) = UnlockProof(u)
    BY <1>6, <2>1, <2>2, EventsAre DEF Does, DrawOp
  <2> QED BY <1>a, <2>0, <2>1, <2>3 DEF Alike
<1>7. CASE o.op \in {"read", "gather", "bcast", "barrier", "alltoall", "expect", "take"}
  <2>1. PhaseAfter(o.op, m) = m /\ EventOf(o, m) = <<>>
    BY <1>0, <1>7, CallFacts DEF Started
  <2>2. Apply(EventOf(o, m), t) = t /\ Does(o, u) = u
    BY <1>7, <2>1 DEF Apply, Does, DrawOp
  <2> QED BY <2>1, <2>2
<1>8. CASE o.op \in {"new", "finish", "dump"}
  BY <1>8 DEF Legal, PhaseAfter, Started, Live, DrawOp
<1>9. \/ o.op \in {"append", "parse", "commit", "parsecom", "refresh", "sync", "lock", "unlock"} \/ o.op \in DrawOp
      \/ o.op \in {"read", "gather", "bcast", "barrier", "alltoall", "expect", "take"}
      \/ o.op \in {"new", "finish", "dump"}
  BY DEF Call, LocalOp, CollectiveOp, RootFirstOp, LeavesFirstOp, VerifierOp, DrawOp
<1> QED BY <1>1, <1>2, <1>3, <1>4, <1>5, <1>6, <1>7, <1>8, <1>9

-----------------------------------------------------------------------------
(* The root enters a collective, which refreshes its digest when it is     *)
(* handed over, or goes on to the next call: its transcript has made the   *)
(* call then, and the challenge it adopts is the digest that a refresh     *)
(* makes.                                                                  *)
RootEnters ==
  /\ pc'[ROOT_RANK] = pc[ROOT_RANK] /\ inside'[ROOT_RANK] /\ ~inside[ROOT_RANK]
  /\ tr'[ROOT_RANK] = IF Current(ROOT_RANK).op \in CarriesDigest
                      THEN RefreshDigest(tr[ROOT_RANK]) ELSE tr[ROOT_RANK]
  /\ chal'[ROOT_RANK] = chal[ROOT_RANK] /\ file' = file

RootPasses ==
  LET o == Current(ROOT_RANK)
  IN  /\ pc'[ROOT_RANK] = pc[ROOT_RANK] + 1 /\ ~inside'[ROOT_RANK]
      /\ IF o.op \in CarriesDigest
         THEN inside[ROOT_RANK] /\ tr'[ROOT_RANK] = tr[ROOT_RANK]
         ELSE /\ o.op = "new" => tr'[ROOT_RANK] = NewTranscript
              /\ o.op \notin {"new", "finish"} => tr'[ROOT_RANK] = Does(o, tr[ROOT_RANK])
      /\ o.op = "unlock" => tr[ROOT_RANK].proof_locked
      /\ chal'[ROOT_RANK] = chal[ROOT_RANK] \cup
           CASE o.op \in {"sample", "fill"} -> {<<pc[ROOT_RANK], RefreshedDigest(tr[ROOT_RANK])>>}
             [] o.op = "challenge"          -> {<<pc[ROOT_RANK], tr[ROOT_RANK].digest>>}
             [] OTHER                       -> {}
      /\ o.op # "dump" => file' = file

(* Every step of the root is one or the other.                             *)
LEMMA RootStepIs ==
  ASSUME MatchInv, BindInv, Step(ROOT_RANK)
  PROVE  pc[ROOT_RANK] \in Pos /\ (RootEnters \/ RootPasses)
<1> DEFINE R == ROOT_RANK
           o == Current(R)
<1>1. /\ R \in Rank /\ pc \in [Rank -> 1 .. Len(Prog) + 1] /\ inside \in [Rank -> BOOLEAN]
      /\ tr \in [Rank -> Transcript(Item)] /\ chal \in [Rank -> SUBSET (Pos \X Digest(Item))]
      /\ InsideOK /\ OwnDigestOK
  BY RootIsRank DEF MatchInv, TypeOK, BindInv
<1>2. tr[R] \in Transcript(Item) /\ pc[R] \in 1 .. Len(Prog) + 1 /\ Len(Prog) \in Nat
  BY <1>1, OpType
<1>3. Running(R)
  BY <1>1, StepKinds
<1>4. pc[R] \in Pos
  BY <1>2, <1>3 DEF Running, Pos
<1>5. ItemOf(R) = ItemIs(o.arg)
  BY DEF ItemOf, ItemIs
<1>6. o.op \in LocalOp => ~inside[R] /\ o.op \notin CarriesDigest
  <2>1. o.op \in LocalOp => o.op \notin CollectiveOp
    BY DEF LocalOp, CollectiveOp, RootFirstOp, LeavesFirstOp
  <2>2. inside[R] => o.op \in CollectiveOp
    BY <1>1 DEF InsideOK, Calls, Current
  <2>3. CarriesDigest \subseteq CollectiveOp
    BY DEF CarriesDigest, CollectiveOp, RootFirstOp
  <2> QED BY <2>1, <2>2, <2>3
<1> DEFINE Local(op, t, c) ==
             /\ o.op = op /\ op \in LocalOp /\ Advance(R) /\ inside' = inside
             /\ tr' = [tr EXCEPT ![R] = t] /\ chal' = [chal EXCEPT ![R] = @ \cup c]
<1>7. ASSUME NEW op \in LocalOp, NEW t, NEW c, Local(op, t, c)
      PROVE  /\ pc'[R] = pc[R] + 1 /\ ~inside'[R] /\ o.op \notin CarriesDigest
             /\ tr'[R] = t /\ chal'[R] = chal[R] \cup c
  BY <1>1, <1>6, <1>7 DEF Advance
<1>8. ASSUME NEW op, op \in LocalOp, At(R, op)
      PROVE  o.op = op
  BY <1>8 DEF At
<1>9. CASE SkipRootOnly(R)
  BY <1>9 DEF SkipRootOnly
<1>10. CASE New(R)
  <2>1. Local("new", NewTranscript, {}) /\ file' = file
    BY <1>1, <1>10 DEF New, LocalStep, At, LocalOp
  <2>2. /\ o.op = "new" /\ pc'[R] = pc[R] + 1 /\ ~inside'[R] /\ o.op \notin CarriesDigest
        /\ tr'[R] = NewTranscript /\ chal'[R] = chal[R] \cup {}
    BY <1>7, <2>1
  <2> QED BY <1>4, <2>1, <2>2 DEF RootPasses
<1>11. CASE AppendOp(R)
  <2>1. Local("append", AppendItem(tr[R], ItemIs(o.arg)), {}) /\ file' = file
    BY <1>1, <1>5, <1>11 DEF AppendOp, LocalStep, At, LocalOp
  <2>2. /\ o.op = "append" /\ pc'[R] = pc[R] + 1 /\ ~inside'[R] /\ o.op \notin CarriesDigest
        /\ tr'[R] = AppendItem(tr[R], ItemIs(o.arg)) /\ chal'[R] = chal[R] \cup {}
    BY <1>7, <2>1, ZenonT(60)
  <2>3. Does(o, tr[R]) = AppendItem(tr[R], ItemIs(o.arg))
    BY <2>2 DEF Does, DrawOp
  <2> QED BY <1>4, <2>1, <2>2, <2>3 DEF RootPasses
<1>12. CASE Commit(R)
  <2>1. Local("commit", AppendCommitment(tr[R], ItemIs(o.arg)), {}) /\ file' = file
    BY <1>1, <1>5, <1>12 DEF Commit, LocalStep, At, LocalOp
  <2>2. /\ o.op = "commit" /\ pc'[R] = pc[R] + 1 /\ ~inside'[R] /\ o.op \notin CarriesDigest
        /\ tr'[R] = AppendCommitment(tr[R], ItemIs(o.arg)) /\ chal'[R] = chal[R] \cup {}
    BY <1>7, <2>1, ZenonT(60)
  <2>3. Does(o, tr[R]) = AppendCommitment(tr[R], ItemIs(o.arg))
    BY <2>2 DEF Does, DrawOp
  <2> QED BY <1>4, <2>1, <2>2, <2>3 DEF RootPasses
<1>13. CASE Refresh(R)
  <2>1. Local("refresh", RefreshDigest(tr[R]), {}) /\ file' = file
    BY <1>1, <1>13 DEF Refresh, LocalStep, At, LocalOp
  <2>2. /\ o.op = "refresh" /\ pc'[R] = pc[R] + 1 /\ ~inside'[R] /\ o.op \notin CarriesDigest
        /\ tr'[R] = RefreshDigest(tr[R]) /\ chal'[R] = chal[R] \cup {}
    BY <1>7, <2>1
  <2> QED BY <1>4, <2>1, <2>2 DEF RootPasses, Does
<1>14. CASE Sample(R)
  <2>1. Local("sample", RefreshDigest(tr[R]), {<<pc[R], RefreshedDigest(tr[R])>>}) /\ file' = file
    BY <1>1, <1>14 DEF Sample, LocalStep, At, LocalOp, Adopt
  <2>2. /\ o.op = "sample" /\ pc'[R] = pc[R] + 1 /\ ~inside'[R] /\ o.op \notin CarriesDigest
        /\ tr'[R] = RefreshDigest(tr[R]) /\ chal'[R] = chal[R] \cup {<<pc[R], RefreshedDigest(tr[R])>>}
    BY <1>7, <2>1
  <2> QED BY <1>4, <2>1, <2>2 DEF RootPasses, Does, DrawOp
<1>15. CASE Fill(R)
  <2>1. Local("fill", RefreshDigest(tr[R]), {<<pc[R], RefreshedDigest(tr[R])>>}) /\ file' = file
    BY <1>1, <1>15 DEF Fill, At, LocalOp, Adopt
  <2>2. /\ o.op = "fill" /\ pc'[R] = pc[R] + 1 /\ ~inside'[R] /\ o.op \notin CarriesDigest
        /\ tr'[R] = RefreshDigest(tr[R]) /\ chal'[R] = chal[R] \cup {<<pc[R], RefreshedDigest(tr[R])>>}
    BY <1>7, <2>1
  <2> QED BY <1>4, <2>1, <2>2 DEF RootPasses, Does, DrawOp
<1>16. CASE ReadCoefs(R)
  <2>1. Local("read", tr[R], {}) /\ file' = file
    BY <1>1, <1>16 DEF ReadCoefs, At, LocalOp
  <2>2. /\ o.op = "read" /\ pc'[R] = pc[R] + 1 /\ ~inside'[R] /\ o.op \notin CarriesDigest
        /\ tr'[R] = tr[R] /\ chal'[R] = chal[R] \cup {}
    BY <1>7, <2>1
  <2> QED BY <1>4, <2>1, <2>2 DEF RootPasses, Does, DrawOp
<1>17. CASE Lock(R)
  <2>1. Local("lock", LockProof(tr[R]), {}) /\ file' = file
    BY <1>1, <1>17 DEF Lock, LocalStep, At, LocalOp
  <2>2. /\ o.op = "lock" /\ pc'[R] = pc[R] + 1 /\ ~inside'[R] /\ o.op \notin CarriesDigest
        /\ tr'[R] = LockProof(tr[R]) /\ chal'[R] = chal[R] \cup {}
    BY <1>7, <2>1
  <2> QED BY <1>4, <2>1, <2>2 DEF RootPasses, Does, DrawOp
<1>18. CASE Unlock(R)
  <2>1. Local("unlock", UnlockProof(tr[R]), {}) /\ file' = file /\ tr[R].proof_locked
    BY <1>1, <1>18 DEF Unlock, LocalStep, At, LocalOp
  <2>2. /\ o.op = "unlock" /\ pc'[R] = pc[R] + 1 /\ ~inside'[R] /\ o.op \notin CarriesDigest
        /\ tr'[R] = UnlockProof(tr[R]) /\ chal'[R] = chal[R] \cup {}
    BY <1>7, <2>1
  <2> QED BY <1>4, <2>1, <2>2 DEF RootPasses, Does, DrawOp
<1>19. CASE Finish(R)
  <2>1. Local("finish", FinalizeAndGetProof(tr[R]), {}) /\ file' = file
    BY <1>1, <1>19 DEF Finish, LocalStep, At, LocalOp
  <2>2. /\ o.op = "finish" /\ pc'[R] = pc[R] + 1 /\ ~inside'[R] /\ o.op \notin CarriesDigest
        /\ chal'[R] = chal[R] \cup {}
    BY <1>7, <2>1
  <2> QED BY <1>4, <2>1, <2>2 DEF RootPasses
<1>20. CASE Dump(R)
  <2>1. Local("dump", tr[R], {})
    BY <1>1, <1>20 DEF Dump, At, LocalOp
  <2>2. /\ o.op = "dump" /\ pc'[R] = pc[R] + 1 /\ ~inside'[R] /\ o.op \notin CarriesDigest
        /\ tr'[R] = tr[R] /\ chal'[R] = chal[R] \cup {}
    BY <1>7, <2>1
  <2> QED BY <1>4, <2>2 DEF RootPasses, Does, DrawOp
<1>21. CASE Enter(R)
  <2>1. /\ pc' = pc /\ inside' = [inside EXCEPT ![R] = TRUE] /\ ~inside[R] /\ chal' = chal /\ file' = file
        /\ tr' = IF o.op \in CarriesDigest THEN [tr EXCEPT ![R] = RefreshDigest(@)] ELSE tr
    BY <1>21 DEF Enter, CarriesDigest
  <2> QED BY <1>1, <1>4, <2>1 DEF RootEnters
<1>22. ASSUME NEW op \in CollectiveOp, Completes(R, op)
       PROVE  /\ o.op = op /\ inside[R] /\ pc'[R] = pc[R] + 1 /\ ~inside'[R] /\ file' = file
  BY <1>1, <1>22 DEF Completes, At, Advance
<1>23. {"sync", "challenge"} \subseteq CollectiveOp /\ CarriesDigest = {"sync", "challenge"}
  BY DEF CollectiveOp, RootFirstOp, CarriesDigest
<1>24. CASE LeaveSync(R)
  <2>1. /\ o.op = "sync" /\ inside[R] /\ pc'[R] = pc[R] + 1 /\ ~inside'[R] /\ file' = file
    BY <1>22, <1>23, <1>24 DEF LeaveSync
  <2>2. Received(R) = tr[R].digest /\ tr[R].hash_start_index = Len(tr[R].proof)
    BY <1>1, <1>23, <2>1 DEF OwnDigestOK
  <2>3. SetState(tr[R], Received(R)) = tr[R]
    BY <1>2, <2>2, SetSame
  <2>4. tr'[R] = tr[R] /\ chal'[R] = chal[R] \cup {}
    BY <1>1, <1>24, <2>3 DEF LeaveSync
  <2> QED BY <1>4, <1>23, <2>1, <2>4 DEF RootPasses
<1>25. CASE LeaveChallenge(R)
  <2>1. /\ o.op = "challenge" /\ inside[R] /\ pc'[R] = pc[R] + 1 /\ ~inside'[R] /\ file' = file
    BY <1>22, <1>23, <1>25 DEF LeaveChallenge
  <2>2. Received(R) = tr[R].digest
    BY <1>1, <1>23, <2>1 DEF OwnDigestOK
  <2>3. tr'[R] = tr[R] /\ chal'[R] = chal[R] \cup {<<pc[R], tr[R].digest>>}
    BY <1>1, <1>25, <2>2 DEF LeaveChallenge, Adopt
  <2> QED BY <1>4, <1>23, <2>1, <2>3 DEF RootPasses
<1>26. CASE LeaveOther(R)
  <2>0. PICK op \in CollectiveOp \ {"sync", "challenge"} : Completes(R, op)
    BY <1>26 DEF LeaveOther
  <2>1. /\ o.op = op /\ pc'[R] = pc[R] + 1 /\ ~inside'[R] /\ file' = file
    BY <1>22, <2>0
  <2>2. o.op \in {"gather", "bcast", "barrier", "alltoall"}
    BY <2>0, <2>1 DEF CollectiveOp, RootFirstOp, LeavesFirstOp
  <2>3. tr'[R] = tr[R] /\ chal'[R] = chal[R] \cup {}
    BY <1>26 DEF LeaveOther
  <2> QED BY <1>4, <1>23, <2>1, <2>2, <2>3 DEF RootPasses, Does, DrawOp
<1> QED BY <1>9, <1>10, <1>11, <1>12, <1>13, <1>14, <1>15, <1>16, <1>17, <1>18, <1>19, <1>20, <1>21, <1>24, <1>25, <1>26
        DEF Step

(* The events of a program that draw a challenge.                          *)
Draws(e) == {j \in 1 .. Len(e) : e[j].ev = "draw"}

(* The calls that draw are the ones whose events do.                       *)
LEMMA WalkDraws ==
  ASSUME NEW s \in Seq(Call), NEW e \in Seq(Event), NEW m, NEW m2, NEW n, NEW ph, NEW T,
         IsWalk(s, e, m, m2, n, ph), IsRun(e, T), NEW i \in 1 .. Len(s)
  PROVE  /\ n[i] \in Nat /\ n[i + 1] \in Nat
         /\ s[i].op \in DrawOp =>
              /\ n[i + 1] = n[i] + 1 /\ n[i] + 1 \in Draws(e)
              /\ Count(Draws(e), n[i + 1] + 1) = Count(Draws(e), n[i] + 1) + 1
         /\ s[i].op \notin DrawOp =>
              /\ n[i + 1] = n[i] \/ (n[i + 1] = n[i] + 1 /\ n[i] + 1 \notin Draws(e))
              /\ Count(Draws(e), n[i + 1] + 1) = Count(Draws(e), n[i] + 1)
<1> DEFINE v == EventOf(s[i], ph[i])
<1>1. /\ n[i] \in 0 .. Len(e) /\ n[i + 1] \in 0 .. Len(e) /\ Len(e) \in Nat
      /\ \/ v = <<>> /\ n[i + 1] = n[i]
         \/ v = << e[n[i] + 1] >> /\ n[i + 1] = n[i] + 1 /\ n[i] + 1 \in 1 .. Len(e)
  <2>1. n[i] \in 0 .. Len(e) /\ n[i + 1] \in 0 .. Len(e) /\ Len(e) \in Nat
    BY WalkStep
  <2>2. \/ EventOf(s[i], ph[i]) = <<>> /\ n[i + 1] = n[i]
        \/ /\ EventOf(s[i], ph[i]) = << e[n[i] + 1] >>
           /\ n[i + 1] = n[i] + 1 /\ n[i] + 1 \in 1 .. Len(e)
    BY WalkStep
  <2> QED BY <2>1, <2>2
<1>2. n[i] + 1 \in Nat \ {0} /\ n[i] \in Nat /\ n[i + 1] \in Nat
  BY <1>1
<1>3. Count(Draws(e), (n[i] + 1) + 1) = IF n[i] + 1 \in Draws(e) THEN Count(Draws(e), n[i] + 1) + 1
                                                                ELSE Count(Draws(e), n[i] + 1)
  BY <1>2, CountNext
<1>4. s[i].op \in DrawOp => v = << Mark("draw") >>
  BY DEF EventOf, DrawOp
<1>5. s[i].op \notin DrawOp => v = <<>> \/ \E x : v = <<x>> /\ x.ev # "draw"
  <2> SUFFICES ASSUME s[i].op \notin DrawOp, v # <<>> PROVE \E x : v = <<x>> /\ x.ev # "draw"
    OBVIOUS
  <2> DEFINE a == [ev |-> "append", arg |-> s[i].arg]
             c == [ev |-> "commit", arg |-> s[i].arg]
  <2>1. v \in {<<a>>, <<c>>, << Mark("refresh") >>, << Mark("lock") >>, << Mark("unlock") >>}
    BY DEF EventOf
  <2>2. a.ev # "draw" /\ c.ev # "draw" /\ \A x \in {"refresh", "lock", "unlock"} : Mark(x).ev # "draw"
    BY DEF Mark
  <2> QED BY <2>1, <2>2
<1> HIDE DEF v
<1>6. CASE s[i].op \in DrawOp
  <2>0. v = << Mark("draw") >>
    BY <1>4, <1>6
  <2>1. v = << Mark("draw") >> /\ v # <<>>
    BY <2>0
  <2>2. e[n[i] + 1] = Mark("draw") /\ n[i + 1] = n[i] + 1 /\ n[i] + 1 \in 1 .. Len(e)
    BY <1>1, <2>1
  <2>3. n[i] + 1 \in Draws(e)
    BY <2>2 DEF Draws, Mark
  <2> QED BY <1>2, <1>3, <1>6, <2>2, <2>3
<1>7. CASE s[i].op \notin DrawOp
  <2>1. CASE n[i + 1] = n[i]
    BY <1>2, <1>7, <2>1
  <2>2. CASE v = << e[n[i] + 1] >> /\ n[i + 1] = n[i] + 1
    <3>1. v # <<>>
      BY <2>2
    <3>2. PICK x : v = <<x>> /\ x.ev # "draw"
      BY <1>5, <1>7, <3>1
    <3>3. e[n[i] + 1] = x
      BY <2>2, <3>2
    <3>4. n[i] + 1 \notin Draws(e)
      BY <3>2, <3>3 DEF Draws
    <3> QED BY <1>2, <1>3, <1>7, <2>2, <3>4
  <2> QED BY <1>1, <2>1, <2>2
<1> QED BY <1>6, <1>7

(* The challenge calls before a call are the draws among the events before *)
(* it.                                                                     *)
LEMMA DrawsAligned ==
  ASSUME Prog \in Seq(Call), NEW e \in Seq(Event), NEW m, NEW m2, NEW n, NEW ph, NEW T,
         IsWalk(Prog, e, m, m2, n, ph), IsRun(e, T), NEW i \in 1 .. Len(Prog) + 1
  PROVE  Count(ChallengeCalls, i) = Count(Draws(e), n[i] + 1)
<1> DEFINE S == {j \in Nat : j + 1 <= Len(Prog) + 1 =>
                               Count(ChallengeCalls, j + 1) = Count(Draws(e), n[j + 1] + 1)}
<1>0. Len(Prog) \in Nat
  BY OpType
<1>1. 0 \in S
  <2>1. n[1] = 0 /\ 0 + 1 = 1
    BY DEF IsWalk
  <2>2. Count(ChallengeCalls, 1) = 0 /\ Count(Draws(e), 1) = 0
    BY CountFirst
  <2> QED BY <2>1, <2>2
<1>2. ASSUME NEW j \in Nat, j \in S PROVE j + 1 \in S
  <2> SUFFICES ASSUME (j + 1) + 1 <= Len(Prog) + 1
               PROVE  Count(ChallengeCalls, (j + 1) + 1) = Count(Draws(e), n[(j + 1) + 1] + 1)
    OBVIOUS
  <2> DEFINE k == j + 1
  <2>1. k \in 1 .. Len(Prog) /\ k \in Nat \ {0}
    BY <1>0
  <2>2. Count(ChallengeCalls, k) = Count(Draws(e), n[k] + 1)
    BY <1>0, <1>2
  <2> HIDE DEF k
  <2>3. Count(ChallengeCalls, k + 1) = IF k \in ChallengeCalls THEN Count(ChallengeCalls, k) + 1 ELSE Count(ChallengeCalls, k)
    BY <2>1, CountNext
  <2>4. k \in ChallengeCalls <=> Prog[k].op \in DrawOp
    BY <2>1 DEF ChallengeCalls, Calls, Pos, DrawOp
  <2>5. Count(Draws(e), n[k + 1] + 1) = IF Prog[k].op \in DrawOp THEN Count(Draws(e), n[k] + 1) + 1
                                                              ELSE Count(Draws(e), n[k] + 1)
    BY <2>1, WalkDraws
  <2> QED BY <2>2, <2>3, <2>4, <2>5 DEF k
<1>3. i - 1 \in S
  <2> HIDE DEF S
  <2> QED BY <1>0, <1>1, <1>2, SetInduction
<1> QED BY <1>0, <1>3

(* A count reaches every number up to its last.                            *)
LEMMA CountReaches ==
  ASSUME NEW S, NEW N \in Nat \ {0}, NEW m \in 1 .. Count(S, N)
  PROVE  \E q \in S : q \in 1 .. N - 1 /\ Count(S, q) + 1 = m
<1> DEFINE G == {k \in Nat : \A j \in 1 .. Count(S, k + 1) : \E q \in S : q \in 1 .. k /\ Count(S, q) + 1 = j}
<1>1. 0 \in G
  BY CountFirst
<1>2. ASSUME NEW k \in Nat, k \in G PROVE k + 1 \in G
  <2> SUFFICES ASSUME NEW j \in 1 .. Count(S, (k + 1) + 1)
               PROVE  \E q \in S : q \in 1 .. k + 1 /\ Count(S, q) + 1 = j
    OBVIOUS
  <2>1. /\ Count(S, (k + 1) + 1) = IF k + 1 \in S THEN Count(S, k + 1) + 1 ELSE Count(S, k + 1)
        /\ Count(S, k + 1) \in Nat
    <3>1. k + 1 \in Nat \ {0} /\ k + 1 \in Nat
      OBVIOUS
    <3> QED BY <3>1, CountNext, CountType
  <2>2. CASE j \in 1 .. Count(S, k + 1)
    <3>1. PICK q \in S : q \in 1 .. k /\ Count(S, q) + 1 = j
      BY <1>2, <2>2
    <3> QED BY <3>1
  <2>3. CASE j \notin 1 .. Count(S, k + 1)
    <3>1. k + 1 \in S /\ j = Count(S, k + 1) + 1
      BY <2>1, <2>3
    <3> QED BY <3>1
  <2> QED BY <2>2, <2>3
<1>3. N - 1 \in G
  <2> HIDE DEF G
  <2> QED BY <1>1, <1>2, SetInduction
<1>4. (N - 1) + 1 = N
  OBVIOUS
<1> QED BY <1>3, <1>4

(* The transcript the root has reached when h belongs to its position: the *)
(* digest it hands over is refreshed already when it enters a collective.  *)
Ahead(h) ==
  IF inside[ROOT_RANK] /\ Current(ROOT_RANK).op \in CarriesDigest THEN RefreshDigest(h) ELSE h

(* The root has made the events before its position, and has drawn its     *)
(* challenges from the transcripts they lead through.                      *)
RootTranscript(n, ph, T) ==
  LET p == pc[ROOT_RANK]
  IN  ph[p] \in Started => Alike(tr[ROOT_RANK], Ahead(T[n[p]]), ph[p])

(* The challenges of the root are drawn from the transcripts of its        *)
(* events.                                                                 *)
RootDrew(n, T) ==
  /\ \A q \in ChallengeCalls :
       q < pc[ROOT_RANK] => <<q, RefreshedDigest(T[n[q]])>> \in chal[ROOT_RANK]
  /\ \A c \in chal[ROOT_RANK] : c[2] = RefreshedDigest(T[n[c[1]]])

(* The prover's program makes the events e.                                *)
ProverMakes(e, n, ph, T) ==
  /\ Prog \in Seq(Call) /\ e \in Seq(Event)
  /\ IsWalk(Prog, e, "start", "filed", n, ph) /\ IsRun(e, T)

(* What the walk says of a position.                                       *)
LEMMA ProverAt ==
  ASSUME NEW e, NEW n, NEW ph, NEW T, ProverMakes(e, n, ph, T), NEW p \in Pos
  PROVE  /\ p \in 1 .. Len(Prog) /\ Prog[p] \in Call /\ ph[p] \in Phase /\ Legal(Prog[p], ph[p])
         /\ ph[p + 1] = PhaseAfter(Prog[p].op, ph[p])
         /\ T[n[p]] \in Sound /\ T[n[p + 1]] = Apply(EventOf(Prog[p], ph[p]), T[n[p]])
<1>1. p \in 1 .. Len(Prog)
  BY DEF Pos
<1> QED BY <1>1, WalkStep DEF ProverMakes

(* Nothing leads back to the start.                                        *)
LEMMA StartFirst ==
  ASSUME NEW e, NEW n, NEW ph, NEW T, ProverMakes(e, n, ph, T), NEW p \in Pos, ph[p] = "start"
  PROVE  T[n[p]] = NewTranscript
<1>1. ASSUME p # 1 PROVE FALSE
  <2> DEFINE j == p - 1
  <2>1. j \in Pos /\ j + 1 = p
    BY <1>1, OpType DEF Pos
  <2> HIDE DEF j
  <2>2. Legal(Prog[j], ph[j]) /\ ph[j + 1] = PhaseAfter(Prog[j].op, ph[j])
    BY <2>1, ProverAt
  <2>3. PhaseAfter(Prog[j].op, ph[j]) = "start"
    BY <2>1, <2>2
  <2> QED BY <2>2, <2>3 DEF Legal, PhaseAfter, Live, DrawOp
<1>2. n[1] = 0 /\ T[0] = NewTranscript
  BY DEF ProverMakes, IsWalk, IsRun
<1> QED BY <1>1, <1>2

(* A refresh keeps alike transcripts alike.                                *)
LEMMA RefreshAlike ==
  ASSUME NEW t \in Transcript(Item), NEW u \in Transcript(Item), NEW m, Alike(t, u, m)
  PROVE  Alike(RefreshDigest(t), RefreshDigest(u), m)
<1>1. CASE m = "fresh" /\ ~Recursion
  BY <1>1, RefreshFields DEF Alike
<1>2. CASE ~(m = "fresh" /\ ~Recursion)
  <2>1. t = u
    BY <1>2 DEF Alike
  <2> QED BY <1>2, <2>1 DEF Alike
<1> QED BY <1>1, <1>2

(* Entering a collective keeps the root on the course of its events,       *)
LEMMA RootEntersKeeps ==
  ASSUME NEW e, NEW n, NEW ph, NEW T, ProverMakes(e, n, ph, T), MatchInv, pc[ROOT_RANK] \in Pos,
         RootTranscript(n, ph, T), RootDrew(n, T), RootEnters
  PROVE  RootTranscript(n, ph, T)' /\ RootDrew(n, T)'
<1> DEFINE R == ROOT_RANK
           p == pc[R]
           h == T[n[p]]
<1>1. tr[R] \in Transcript(Item) /\ h \in Transcript(Item)
  BY RootIsRank, ProverAt DEF MatchInv, TypeOK, Sound
<1>2. /\ pc'[R] = p /\ inside'[R] /\ ~inside[R] /\ chal'[R] = chal[R]
      /\ tr'[R] = IF Prog[p].op \in CarriesDigest THEN RefreshDigest(tr[R]) ELSE tr[R]
  BY DEF RootEnters, Current
<1>3. ph[p] \in Started => Alike(tr[R], h, ph[p])
  BY <1>2 DEF RootTranscript, Ahead
<1>4. ph[p] \in Started => Alike(tr'[R], IF Prog[p].op \in CarriesDigest THEN RefreshDigest(h) ELSE h, ph[p])
  BY <1>1, <1>2, <1>3, RefreshAlike
<1>5. RootTranscript(n, ph, T)'
  BY <1>2, <1>4 DEF RootTranscript, Ahead, Current
<1> QED BY <1>2, <1>5 DEF RootDrew

(* and so does going on to the next call.                                  *)
LEMMA RootPassesKeeps ==
  ASSUME NEW e, NEW n, NEW ph, NEW T, ProverMakes(e, n, ph, T), MatchInv, pc[ROOT_RANK] \in Pos,
         RootTranscript(n, ph, T), RootDrew(n, T), RootPasses
  PROVE  RootTranscript(n, ph, T)' /\ RootDrew(n, T)'
<1> DEFINE R == ROOT_RANK
           p == pc[R]
           o == Prog[p]
           h == T[n[p]]
           d == RefreshedDigest(h)
<1>0. /\ tr[R] \in Transcript(Item) /\ LockOK(tr[R]) /\ tr[R] \in Sound /\ h \in Sound /\ h \in Transcript(Item) /\ LockOK(h)
  BY RootIsRank, ProverAt DEF MatchInv, TypeOK, LocksOK, Sound
<1>1. /\ o \in Call /\ ph[p] \in Phase /\ Legal(o, ph[p]) /\ ph[p + 1] = PhaseAfter(o.op, ph[p])
      /\ T[n[p + 1]] = Apply(EventOf(o, ph[p]), h) /\ (ph[p] = "start" => h = NewTranscript)
  BY ProverAt, StartFirst
<1>2. /\ pc'[R] = p + 1 /\ ~inside'[R]
      /\ o.op \in CarriesDigest => inside[R] /\ tr'[R] = tr[R]
      /\ o.op = "new" /\ o.op \notin CarriesDigest => tr'[R] = NewTranscript
      /\ o.op \notin CarriesDigest \cup {"new", "finish"} => tr'[R] = Does(o, tr[R])
      /\ o.op = "unlock" => tr[R].proof_locked
      /\ chal'[R] = chal[R] \cup
           CASE o.op \in {"sample", "fill"} -> {<<p, RefreshedDigest(tr[R])>>}
             [] o.op = "challenge"          -> {<<p, tr[R].digest>>}
             [] OTHER                       -> {}
  BY DEF RootPasses, Current
<1>3. ph[p] \in Started => Alike(tr[R], IF inside[R] /\ o.op \in CarriesDigest THEN RefreshDigest(h) ELSE h, ph[p])
  BY DEF RootTranscript, Ahead, Current
<1>g. ASSUME ph[p + 1] \in Started => Alike(tr'[R], T[n[p + 1]], ph[p + 1])
      PROVE  RootTranscript(n, ph, T)'
  BY <1>2, <1>g DEF RootTranscript, Ahead
<1>c. ASSUME chal'[R] = chal[R] \cup (IF o.op \in DrawOp THEN {<<p, d>>} ELSE {})
      PROVE  RootDrew(n, T)'
  <2>1. ASSUME NEW q \in ChallengeCalls, q < p + 1
        PROVE  <<q, RefreshedDigest(T[n[q]])>> \in chal'[R]
    <3>1. p \in Nat /\ q \in Nat
      BY OpType DEF ChallengeCalls, Calls, Pos
    <3>2. CASE q < p
      BY <1>c, <3>2 DEF RootDrew
    <3>3. CASE q = p
      <4>1. o.op \in DrawOp
        BY <3>3 DEF ChallengeCalls, Calls, DrawOp
      <4> QED BY <1>c, <3>3, <4>1
    <3> QED BY <2>1, <3>1, <3>2, <3>3
  <2>2. ASSUME NEW c \in chal'[R] PROVE c[2] = RefreshedDigest(T[n[c[1]]])
    <3>1. CASE c \in chal[R]
      BY <3>1 DEF RootDrew
    <3>2. CASE c = <<p, d>>
      BY <3>2
    <3> QED BY <1>c, <3>1, <3>2
  <2> QED BY <1>2, <2>1, <2>2 DEF RootDrew
<1> HIDE DEF h, o, p, d
<1>4. o.op \in DrawOp => ph[p] \in Live /\ ph[p] \in Started /\ ph[p] # "fresh"
  BY <1>1 DEF Legal, Live, Started, DrawOp
<1>5. CarriesDigest = {"sync", "challenge"} /\ DrawOp = {"sample", "fill", "challenge"}
  BY DEF CarriesDigest, DrawOp
<1>d. d = RefreshedDigest(h) /\ RefreshDigest(h).digest = d
  BY <1>0, RefreshFields DEF d
<1>6. CASE o.op \in CarriesDigest
  <2>0. ph[p] \in Started
    BY <1>1, <1>5, <1>6 DEF Legal, Live, Started, DrawOp
  <2>1. inside[R] /\ tr'[R] = tr[R] /\ Alike(tr[R], RefreshDigest(h), ph[p])
    BY <1>2, <1>3, <1>6, <2>0
  <2>2. ASSUME ph[p] \in Live PROVE RootTranscript(n, ph, T)'
    <3>1. /\ PhaseAfter(o.op, ph[p]) = ph[p]
          /\ EventOf(o, ph[p]) = << Mark("draw") >> \/ EventOf(o, ph[p]) = << Mark("refresh") >>
      BY <1>1, <1>5, <1>6, <2>2, CallFacts DEF DrawOp
    <3>2. Apply(EventOf(o, ph[p]), h) = RefreshDigest(h)
      BY <3>1, EventsAre
    <3>3. Alike(tr'[R], T[n[p + 1]], ph[p + 1])
      BY <1>1, <2>1, <3>1, <3>2
    <3> QED BY <1>g, <3>3
  <2>3. ASSUME ph[p] = "fresh" PROVE RootTranscript(n, ph, T)'
    <3>1. o.op = "sync" /\ ~Recursion
      BY <1>1, <1>4, <1>5, <1>6, <2>3 DEF DrawOp, Legal
    <3>2. PhaseAfter(o.op, ph[p]) = ph[p] /\ EventOf(o, ph[p]) = <<>>
      BY <1>1, <2>3, <3>1, CallFacts
    <3>3. Apply(EventOf(o, ph[p]), h) = h
      BY <3>2, EventsAre
    <3>4. Alike(tr[R], h, ph[p])
      <4>1. /\ RefreshDigest(h).proof = h.proof /\ RefreshDigest(h).proof_locked = h.proof_locked
            /\ RefreshDigest(h).proof_locked_at = h.proof_locked_at
        BY <1>0, RefreshFields
      <4> QED BY <2>1, <2>3, <3>1, <4>1 DEF Alike
    <3>5. Alike(tr'[R], T[n[p + 1]], ph[p + 1])
      BY <1>1, <2>1, <3>2, <3>3, <3>4
    <3> QED BY <1>g, <3>5
  <2>4. RootTranscript(n, ph, T)'
    BY <2>0, <2>2, <2>3 DEF Started
  <2>5. o.op = "challenge" => tr[R].digest = d
    <3>1. o.op = "challenge" => ph[p] # "fresh"
      BY <1>4, <1>5
    <3> QED BY <1>d, <2>1, <3>1 DEF Alike
  <2>6. chal'[R] = chal[R] \cup (IF o.op \in DrawOp THEN {<<p, d>>} ELSE {})
    BY <1>2, <1>5, <1>6, <2>5
  <2> QED BY <1>c, <2>4, <2>6
<1>7. CASE o.op \notin CarriesDigest
  <2>1. ph[p] \in Started => Alike(tr[R], h, ph[p])
    BY <1>3, <1>7
  <2>2. ASSUME PhaseAfter(o.op, ph[p]) \in Started
        PROVE  Alike(tr'[R], Apply(EventOf(o, ph[p]), h), PhaseAfter(o.op, ph[p]))
    <3>1. CASE o.op = "new"
      <4>1. ph[p] = "start" /\ EventOf(o, ph[p]) = <<>>
        BY <1>1, <3>1 DEF Legal, EventOf, DrawOp
      <4>2. Apply(EventOf(o, ph[p]), h) = NewTranscript /\ tr'[R] = NewTranscript
        BY <1>1, <1>2, <1>7, <3>1, <4>1, EventsAre
      <4> QED BY <4>2 DEF Alike
    <3>2. CASE o.op = "finish"
      BY <2>2, <3>2 DEF PhaseAfter, Started, Live
    <3>3. CASE o.op \notin {"new", "finish"}
      <4>1. ph[p] \in Started
        <5>1. o.op # "dump"
          BY <2>2 DEF PhaseAfter, Started, Live
        <5> QED BY <1>1, <3>3, <5>1 DEF Legal, Started, Live, DrawOp
      <4>2. tr'[R] = Does(o, tr[R]) /\ (o.op = "unlock" => tr[R].proof_locked)
        BY <1>2, <1>7, <3>3
      <4> QED BY <1>0, <1>1, <2>1, <2>2, <4>1, <4>2, DoesAlike
    <3> QED BY <3>1, <3>2, <3>3
  <2>3. RootTranscript(n, ph, T)'
    BY <1>1, <1>g, <2>2
  <2>4. o.op \in {"sample", "fill"} => RefreshedDigest(tr[R]) = d
    <3>1. o.op \in {"sample", "fill"} => tr[R] = h
      BY <1>4, <1>5, <2>1 DEF Alike
    <3> QED BY <1>d, <3>1
  <2>5. chal'[R] = chal[R] \cup (IF o.op \in DrawOp THEN {<<p, d>>} ELSE {})
    BY <1>2, <1>5, <1>7, <2>4
  <2> QED BY <1>c, <2>3, <2>5
<1> QED BY <1>6, <1>7

(* The verifier's program makes the events e.                              *)
VerifierMakes(e, k, qh, T) ==
  /\ VProg \in Seq(Call) /\ e \in Seq(Event)
  /\ IsWalk(VProg, e, "fresh", "bound", k, qh) /\ IsRun(e, T)

(* The verifier has made the events before its position, and has drawn its *)
(* challenges from the transcripts they lead through.                      *)
VerifierTranscript(k, qh, T) ==
  /\ vpc \in 1 .. Len(VProg) + 1 /\ vtr \in Sound
  /\ qh[vpc] \in Started /\ Alike(vtr, T[k[vpc]], qh[vpc])

(* The challenges of the verifier are drawn from the same transcripts.     *)
VerifierDrew(e, k, T) ==
  /\ vchal \in Seq(Digest(Item)) /\ Len(vchal) = Count(Draws(e), k[vpc] + 1)
  /\ \A j \in Draws(e) : j <= k[vpc] => vchal[Count(Draws(e), j) + 1] = RefreshedDigest(T[j - 1])

(* The verifier goes on to its next call.                                  *)
VerifierPasses ==
  /\ file # <<>> /\ vpc \in 1 .. Len(VProg) /\ vpc' = vpc + 1
  /\ vtr' = Does(VCurrent, vtr) /\ (VCurrent.op = "unlock" => vtr.proof_locked)
  /\ vchal' = IF VCurrent.op \in DrawOp THEN Append(vchal, RefreshedDigest(vtr)) ELSE vchal

(* The calls of the verifier are those it has.                             *)
LEMMA VProgCalls ==
  ASSUME NEW p \in 1 .. Len(VProg)
  PROVE  VProg[p].op \in VerifierOp /\ VProg[p].arg \in Arg
<1>1. VProg[p] \in [op : VerifierOp, who : {"all"}, arg : Arg]
  BY VProgAssumption, ElementOfSeq
<1> QED BY <1>1

(* Every step of the verifier is that, or changes neither position,        *)
(* transcript nor challenges.                                              *)
LEMMA VerifierStepIs ==
  ASSUME VerifierStep, vpc \in 1 .. Len(VProg) + 1, vtr \in Transcript(Item), vchal \in Seq(Digest(Item))
  PROVE  VerifierPasses \/ UNCHANGED <<vpc, vtr, vchal>>
<1> DEFINE o == VCurrent
           d == RefreshedDigest(vtr)
<1>1. Len(VProg) \in Nat
  BY VProgAssumption, LenProperties
<1>2. ASSUME NEW ops, VAt(ops)
      PROVE  file # <<>> /\ vpc \in 1 .. Len(VProg) /\ o.op \in ops
  BY <1>1, <1>2 DEF VAt
<1>3. vchal \o <<>> = vchal /\ vchal \o <<d>> = Append(vchal, d)
  <2>1. d \in Digest(Item)
    BY RefreshType
  <2> HIDE DEF d
  <2> QED BY <2>1, ConcatEmptySeq, AppendIsConcat
<1>4. VItem = ItemIs(o.arg)
  BY DEF VItem, ItemIs
<1> HIDE DEF o, d
<1>5. ASSUME NEW ops, VAt(ops), NEW t, NEW n, VStep(t, n, <<>>), t = Does(o, vtr),
             ops \cap DrawOp = {}, o.op = "unlock" => vtr.proof_locked
      PROVE  VerifierPasses
  BY <1>2, <1>3, <1>5 DEF VStep, VerifierPasses, o
<1>6. CASE Read
  <2>1. VAt({"expect", "take"}) /\ VStep(vtr, 1, <<>>)
    BY <1>6 DEF Read
  <2>2. o.op \in {"expect", "take"}
    BY <1>2, <2>1
  <2>3. Does(o, vtr) = vtr
    BY <2>2 DEF Does, DrawOp
  <2>4. {"expect", "take"} \cap DrawOp = {}
    BY DEF DrawOp
  <2> QED BY <1>5, <2>1, <2>2, <2>3, <2>4
<1>7. CASE Parse
  <2>1. VAt({"parse"}) /\ VStep(AppendItem(vtr, ItemIs(o.arg)), 1, <<>>)
    BY <1>4, <1>7 DEF Parse
  <2>2. o.op = "parse"
    BY <1>2, <2>1
  <2>3. Does(o, vtr) = AppendItem(vtr, ItemIs(o.arg))
    BY <2>2 DEF Does, DrawOp
  <2>4. {"parse"} \cap DrawOp = {}
    BY DEF DrawOp
  <2> QED BY <1>5, <2>1, <2>2, <2>3, <2>4
<1>8. CASE ParseCommitment
  <2>1. VAt({"parsecom"}) /\ VStep(AppendCommitment(vtr, ItemIs(o.arg)), 1, <<>>)
    BY <1>4, <1>8 DEF ParseCommitment
  <2>2. o.op = "parsecom"
    BY <1>2, <2>1
  <2>3. Does(o, vtr) = AppendCommitment(vtr, ItemIs(o.arg))
    BY <2>2 DEF Does, DrawOp
  <2>4. {"parsecom"} \cap DrawOp = {}
    BY DEF DrawOp
  <2> QED BY <1>5, <2>1, <2>2, <2>3, <2>4
<1>9. CASE VAppend
  <2>1. VAt({"append"}) /\ VStep(AppendItem(vtr, ItemIs(o.arg)), 0, <<>>)
    BY <1>4, <1>9 DEF VAppend
  <2>2. o.op = "append"
    BY <1>2, <2>1
  <2>3. Does(o, vtr) = AppendItem(vtr, ItemIs(o.arg))
    BY <2>2 DEF Does, DrawOp
  <2>4. {"append"} \cap DrawOp = {}
    BY DEF DrawOp
  <2> QED BY <1>5, <2>1, <2>2, <2>3, <2>4
<1>10. CASE VRefresh
  <2>1. VAt({"refresh"}) /\ VStep(RefreshDigest(vtr), 0, <<>>)
    BY <1>10 DEF VRefresh
  <2>2. o.op = "refresh"
    BY <1>2, <2>1
  <2>3. Does(o, vtr) = RefreshDigest(vtr)
    BY <2>2 DEF Does, DrawOp
  <2>4. {"refresh"} \cap DrawOp = {}
    BY DEF DrawOp
  <2> QED BY <1>5, <2>1, <2>2, <2>3, <2>4
<1>11. CASE VSample
  <2>1. VAt({"sample"}) /\ VStep(RefreshDigest(vtr), 0, <<d>>)
    BY <1>11 DEF VSample, d
  <2>2. o.op = "sample" /\ file # <<>> /\ vpc \in 1 .. Len(VProg)
    BY <1>2, <2>1
  <2>3. Does(o, vtr) = RefreshDigest(vtr) /\ o.op \in DrawOp
    BY <2>2 DEF Does, DrawOp
  <2>4. vpc' = vpc + 1 /\ vtr' = Does(o, vtr) /\ vchal' = Append(vchal, d)
    BY <1>3, <2>1, <2>3 DEF VStep
  <2> QED BY <2>2, <2>3, <2>4 DEF VerifierPasses, o, d
<1>12. CASE TranscriptVerifierSync
  <2>1. VAt({"sync"}) /\ VStep(RefreshDigest(vtr), 0, <<>>)
    BY <1>12, SyncIsRefresh DEF TranscriptVerifierSync
  <2>2. o.op = "sync"
    BY <1>2, <2>1
  <2>3. Does(o, vtr) = RefreshDigest(vtr)
    BY <2>2 DEF Does, DrawOp
  <2>4. {"sync"} \cap DrawOp = {}
    BY DEF DrawOp
  <2> QED BY <1>5, <2>1, <2>2, <2>3, <2>4
<1>13. CASE VLock
  <2>1. VAt({"lock"}) /\ VStep(LockProof(vtr), 0, <<>>)
    BY <1>13 DEF VLock
  <2>2. o.op = "lock"
    BY <1>2, <2>1
  <2>3. Does(o, vtr) = LockProof(vtr)
    BY <2>2 DEF Does, DrawOp
  <2>4. {"lock"} \cap DrawOp = {}
    BY DEF DrawOp
  <2> QED BY <1>5, <2>1, <2>2, <2>3, <2>4
<1>14. CASE VUnlock
  <2>1. VAt({"unlock"}) /\ VStep(UnlockProof(vtr), 0, <<>>) /\ vtr.proof_locked
    BY <1>14 DEF VUnlock
  <2>2. o.op = "unlock"
    BY <1>2, <2>1
  <2>3. Does(o, vtr) = UnlockProof(vtr)
    BY <2>2 DEF Does, DrawOp
  <2>4. {"unlock"} \cap DrawOp = {}
    BY DEF DrawOp
  <2> QED BY <1>5, <2>1, <2>2, <2>3, <2>4
<1>15. CASE RejectProof \/ Decide
  BY <1>15 DEF RejectProof, Decide
<1> QED BY <1>6, <1>7, <1>8, <1>9, <1>10, <1>11, <1>12, <1>13, <1>14, <1>15 DEF VerifierStep

(* Going on to the next call keeps the verifier on the course of its       *)
(* events.                                                                 *)
LEMMA VerifierPassesKeeps ==
  ASSUME NEW e, NEW k, NEW qh, NEW T, VerifierMakes(e, k, qh, T),
         VerifierTranscript(k, qh, T), VerifierDrew(e, k, T), VerifierPasses
  PROVE  VerifierTranscript(k, qh, T)' /\ VerifierDrew(e, k, T)'
<1> DEFINE p == vpc
           o == VProg[p]
           h == T[k[p]]
           D == Draws(e)
<1>0. p \in 1 .. Len(VProg) /\ Len(VProg) \in Nat
  BY VProgAssumption, LenProperties DEF VerifierPasses
<1>1. /\ vpc' = p + 1 /\ vtr' = Does(o, vtr) /\ (o.op = "unlock" => vtr.proof_locked)
      /\ vchal' = IF o.op \in DrawOp THEN Append(vchal, RefreshedDigest(vtr)) ELSE vchal
  BY DEF VerifierPasses, VCurrent
<1>2. /\ vtr \in Sound /\ qh[p] \in Started /\ Alike(vtr, h, qh[p])
  BY DEF VerifierTranscript
<1>3. /\ o \in Call /\ qh[p] \in Phase /\ Legal(o, qh[p]) /\ qh[p + 1] = PhaseAfter(o.op, qh[p])
      /\ h \in Sound /\ T[k[p + 1]] = Apply(EventOf(o, qh[p]), h)
  BY <1>0, WalkStep DEF VerifierMakes
<1>4. o.op \in VerifierOp
  BY <1>0, VProgCalls
<1>5. /\ k[p] \in Nat /\ k[p + 1] \in Nat
      /\ o.op \in DrawOp =>
           /\ k[p + 1] = k[p] + 1 /\ k[p] + 1 \in D
           /\ Count(D, k[p + 1] + 1) = Count(D, k[p] + 1) + 1
      /\ o.op \notin DrawOp =>
           /\ k[p + 1] = k[p] \/ (k[p + 1] = k[p] + 1 /\ k[p] + 1 \notin D)
           /\ Count(D, k[p + 1] + 1) = Count(D, k[p] + 1)
  BY <1>0, WalkDraws DEF VerifierMakes
<1>6. /\ vchal \in Seq(Digest(Item)) /\ Len(vchal) = Count(D, k[p] + 1)
      /\ \A j \in D : j <= k[p] => vchal[Count(D, j) + 1] = RefreshedDigest(T[j - 1])
  BY DEF VerifierDrew
<1>7. D \subseteq Nat \ {0}
  BY DEF Draws
<1>8. ASSUME p + 1 \in 1 .. Len(VProg) + 1, vtr' \in Sound, qh[p + 1] \in Started,
             Alike(vtr', T[k[p + 1]], qh[p + 1])
      PROVE  VerifierTranscript(k, qh, T)'
  BY <1>1, <1>8 DEF VerifierTranscript
<1>9. ASSUME vchal' \in Seq(Digest(Item)), Len(vchal') = Count(D, k[p + 1] + 1),
             \A j \in D : j <= k[p + 1] => vchal'[Count(D, j) + 1] = RefreshedDigest(T[j - 1])
      PROVE  VerifierDrew(e, k, T)'
  BY <1>1, <1>9 DEF VerifierDrew
<1> HIDE DEF p, o, h, D
<1>10. VerifierTranscript(k, qh, T)'
  <2>1. qh[p + 1] \in Started
    BY <1>2, <1>3, <1>4 DEF PhaseAfter, Started, Live, VerifierOp
  <2>2. Alike(vtr', T[k[p + 1]], qh[p + 1])
    BY <1>1, <1>2, <1>3, <2>1, DoesAlike
  <2>3. vtr' \in Sound
    BY <1>1, <1>2, <1>3, DoesType
  <2>4. p + 1 \in 1 .. Len(VProg) + 1
    BY <1>0
  <2> QED BY <1>8, <2>1, <2>2, <2>3, <2>4
<1>11. CASE o.op \notin DrawOp
  <2>1. ASSUME NEW j \in D, j <= k[p + 1] PROVE vchal'[Count(D, j) + 1] = RefreshedDigest(T[j - 1])
    <3>1. j \in Nat /\ (j <= k[p] \/ j = k[p] + 1)
      BY <1>5, <1>7, <1>11, <2>1
    <3>2. j <= k[p]
      BY <1>5, <1>11, <2>1, <3>1
    <3> QED BY <1>1, <1>6, <1>11, <3>2
  <2> QED BY <1>1, <1>5, <1>6, <1>9, <1>10, <1>11, <2>1
<1>12. CASE o.op \in DrawOp
  <2>1. qh[p] \in Live /\ qh[p] # "fresh"
    BY <1>3, <1>12 DEF Legal, Live, DrawOp
  <2>2. vtr = h
    BY <1>2, <2>1 DEF Alike
  <2> DEFINE d == RefreshedDigest(h)
             N == Len(vchal)
  <2>3. d \in Digest(Item) /\ vchal' = Append(vchal, d)
    BY <1>1, <1>3, <1>12, <2>2, RefreshType DEF Sound
  <2> HIDE DEF d
  <2>4. /\ vchal' \in Seq(Digest(Item)) /\ Len(vchal') = N + 1 /\ N \in Nat
        /\ vchal'[N + 1] = d /\ \A i \in 1 .. N : vchal'[i] = vchal[i]
    BY <1>6, <2>3, AppendProperties, LenProperties
  <2> HIDE DEF N
  <2>5. N = Count(D, k[p] + 1) /\ N + 1 = Count(D, k[p + 1] + 1)
    BY <1>5, <1>6, <1>12 DEF N
  <2>6. ASSUME NEW j \in D, j <= k[p + 1] PROVE vchal'[Count(D, j) + 1] = RefreshedDigest(T[j - 1])
    <3>1. j \in Nat \ {0} /\ (j <= k[p] \/ j = k[p] + 1) /\ k[p] + 1 \in Nat \ {0}
      BY <1>5, <1>7, <1>12, <2>6
    <3>2. CASE j <= k[p]
      <4>1. j < k[p] + 1
        BY <1>5, <3>1, <3>2
      <4>2. Count(D, j) < N /\ Count(D, j) \in Nat
        BY <2>5, <3>1, <4>1, CountMonotonic, CountType
      <4>3. Count(D, j) + 1 \in 1 .. N
        BY <2>4, <4>2
      <4> QED BY <1>6, <2>4, <3>2, <4>3
    <3>3. CASE j = k[p] + 1
      <4>1. Count(D, j) + 1 = N + 1 /\ j - 1 = k[p]
        BY <1>5, <2>5, <3>3
      <4> QED BY <2>4, <4>1 DEF d, h
    <3> QED BY <3>1, <3>2, <3>3
  <2> QED BY <1>9, <1>10, <2>4, <2>5, <2>6
<1> QED BY <1>11, <1>12

-----------------------------------------------------------------------------
(* A proof is filed, and a verifier started, after the root's last call.   *)
FiledLast == file # <<>> \/ vchal # <<>> => pc[ROOT_RANK] = Len(Prog) + 1

(* The inductive invariant, beside those of the prover.                    *)
FollowInv(e, n, ph, k, qh, T) ==
  /\ RootTranscript(n, ph, T) /\ RootDrew(n, T) /\ FiledLast
  /\ VerifierTranscript(k, qh, T) /\ VerifierDrew(e, k, T)

(* It holds at the start.                                                  *)
LEMMA FollowInit ==
  ASSUME NEW e, NEW n, NEW ph, NEW k, NEW qh, NEW T,
         ProverMakes(e, n, ph, T), VerifierMakes(e, k, qh, T), SnarkInit
  PROVE  FollowInv(e, n, ph, k, qh, T)
<1>1. /\ ROOT_RANK \in Rank /\ Len(VProg) \in Nat /\ Len(Prog) \in Nat
  BY RootIsRank, OpType, VProgAssumption, LenProperties
<1>2. /\ pc[ROOT_RANK] = 1 /\ chal[ROOT_RANK] = {} /\ file = <<>>
      /\ vpc = 1 /\ vtr = NewTranscript /\ vchal = <<>>
  BY <1>1 DEF SnarkInit, Init
<1>3. ph[1] = "start" /\ k[1] = 0 /\ qh[1] = "fresh" /\ T[0] = NewTranscript
  BY DEF ProverMakes, VerifierMakes, IsWalk, IsRun
<1>4. RootTranscript(n, ph, T)
  BY <1>2, <1>3 DEF RootTranscript, Started, Live
<1>5. RootDrew(n, T)
  <2>1. \A q \in ChallengeCalls : ~(q < 1)
    BY <1>1 DEF ChallengeCalls, Calls, Pos
  <2> QED BY <1>2, <2>1 DEF RootDrew
<1>6. FiledLast
  BY <1>2 DEF FiledLast
<1>7. VerifierTranscript(k, qh, T)
  <2>1. NewTranscript \in Sound
    BY NewType DEF Sound
  <2> QED BY <1>1, <1>2, <1>3, <2>1 DEF VerifierTranscript, Started, Alike
<1>8. VerifierDrew(e, k, T)
  <2>1. <<>> \in Seq(Digest(Item)) /\ Len(<<>>) = 0
    BY EmptySeq
  <2>2. k[vpc] = 0 /\ k[vpc] + 1 = 1
    BY <1>2, <1>3
  <2>3. Count(Draws(e), 1) = 0
    BY CountFirst
  <2>4. \A j \in Draws(e) : ~(j <= 0)
    BY DEF Draws
  <2> QED BY <1>2, <2>1, <2>2, <2>3, <2>4 DEF VerifierDrew
<1> QED BY <1>4, <1>5, <1>6, <1>7, <1>8 DEF FollowInv

(* Only the root's last call writes the file.                              *)
LEMMA OnlyDumpFiles ==
  ASSUME NEW e, NEW n, NEW ph, NEW T, ProverMakes(e, n, ph, T), MatchInv,
         NEW r \in Rank, r # ROOT_RANK, Step(r)
  PROVE  file' = file
<1>1. CASE Dump(r)
  <2>1. Current(r).op = "dump" /\ Current(r).who = "all" /\ Running(r)
    BY <1>1 DEF Dump, At
  <2>2. pc[r] \in Pos
    BY <2>1, RunningType DEF MatchInv
  <2>3. Legal(Prog[pc[r]], ph[pc[r]])
    BY <2>2, ProverAt
  <2> QED BY <2>1, <2>3 DEF Legal, Current, DrawOp
<1>2. CASE ~Dump(r)
  BY <1>2 DEF Step, SkipRootOnly, New, AppendOp, Commit, Refresh, Sample, Fill, ReadCoefs, Lock, Unlock, Finish,
              Enter, LeaveSync, LeaveChallenge, LeaveOther, Completes
<1> QED BY <1>1, <1>2

(* And that call is the last.                                              *)
LEMMA LastCallFiles ==
  ASSUME NEW e, NEW n, NEW ph, NEW T, ProverMakes(e, n, ph, T), NEW p \in Pos, Prog[p].op = "dump"
  PROVE  p + 1 = Len(Prog) + 1
<1>1. ph[p + 1] = "filed"
  <2>1. ph[p + 1] = PhaseAfter(Prog[p].op, ph[p])
    BY ProverAt
  <2> QED BY <2>1 DEF PhaseAfter
<1>2. ASSUME p + 1 \in Pos PROVE FALSE
  <2>1. Legal(Prog[p + 1], ph[p + 1])
    BY <1>2, ProverAt
  <2> QED BY <1>1, <2>1 DEF Legal, Live, DrawOp
<1>3. Len(Prog) \in Nat /\ Pos = 1 .. Len(Prog)
  BY OpType DEF Pos
<1> QED BY <1>2, <1>3

(* Every step keeps the invariant.                                         *)
LEMMA FollowNext ==
  ASSUME NEW e, NEW n, NEW ph, NEW k, NEW qh, NEW T,
         ProverMakes(e, n, ph, T), VerifierMakes(e, k, qh, T), MatchInv, BindInv,
         FollowInv(e, n, ph, k, qh, T), [SnarkNext]_<<vars, vvars>>
  PROVE  FollowInv(e, n, ph, k, qh, T)'
<1>0. /\ RootTranscript(n, ph, T) /\ RootDrew(n, T) /\ FiledLast
      /\ VerifierTranscript(k, qh, T) /\ VerifierDrew(e, k, T)
  BY DEF FollowInv
<1>1. ASSUME UNCHANGED vvars
      PROVE  VerifierTranscript(k, qh, T)' /\ VerifierDrew(e, k, T)' /\ vchal' = vchal
  BY <1>0, <1>1 DEF vvars, VerifierTranscript, VerifierDrew
<1>2. ASSUME UNCHANGED vars
      PROVE  RootTranscript(n, ph, T)' /\ RootDrew(n, T)' /\ file' = file /\ pc' = pc
  BY <1>0, <1>2 DEF vars, RootTranscript, Ahead, Current, RootDrew
<1>3. CASE Step(ROOT_RANK) /\ UNCHANGED vvars
  <2>1. pc[ROOT_RANK] \in Pos /\ (RootEnters \/ RootPasses)
    BY <1>3, RootStepIs
  <2>2. RootTranscript(n, ph, T)' /\ RootDrew(n, T)'
    BY <1>0, <2>1, RootEntersKeeps, RootPassesKeeps
  <2>3. FiledLast'
    <3>1. file = <<>> /\ vchal = <<>>
      BY <1>0, <2>1, OpType DEF FiledLast, Pos
    <3>2. CASE RootEnters
      BY <1>1, <1>3, <3>1, <3>2 DEF RootEnters, FiledLast
    <3>3. CASE RootPasses
      <4>1. CASE Current(ROOT_RANK).op = "dump"
        <5>1. pc[ROOT_RANK] + 1 = Len(Prog) + 1
          BY <2>1, <4>1, LastCallFiles DEF Current
        <5> QED BY <3>3, <5>1 DEF RootPasses, FiledLast
      <4>2. CASE Current(ROOT_RANK).op # "dump"
        BY <1>1, <1>3, <3>1, <3>3, <4>2 DEF RootPasses, FiledLast
      <4> QED BY <4>1, <4>2
    <3> QED BY <2>1, <3>2, <3>3
  <2> QED BY <1>1, <1>3, <2>2, <2>3 DEF FollowInv
<1>4. ASSUME NEW r \in Rank, r # ROOT_RANK, Step(r), UNCHANGED vvars
      PROVE  FollowInv(e, n, ph, k, qh, T)'
  <2>1. /\ pc'[ROOT_RANK] = pc[ROOT_RANK] /\ inside'[ROOT_RANK] = inside[ROOT_RANK]
        /\ tr'[ROOT_RANK] = tr[ROOT_RANK] /\ chal'[ROOT_RANK] = chal[ROOT_RANK]
    BY <1>4, RootIsRank, StepIsLocal
  <2>2. file' = file
    BY <1>4, OnlyDumpFiles
  <2>3. RootTranscript(n, ph, T)' /\ RootDrew(n, T)'
    BY <1>0, <2>1 DEF RootTranscript, Ahead, Current, RootDrew
  <2>4. FiledLast'
    BY <1>0, <1>1, <1>4, <2>1, <2>2 DEF FiledLast
  <2> QED BY <1>1, <1>4, <2>3, <2>4 DEF FollowInv
<1>5. CASE VerifierStep /\ UNCHANGED vars
  <2>1. vpc \in 1 .. Len(VProg) + 1 /\ vtr \in Transcript(Item) /\ vchal \in Seq(Digest(Item))
    BY <1>0 DEF VerifierTranscript, VerifierDrew, Sound
  <2>2. VerifierPasses \/ UNCHANGED <<vpc, vtr, vchal>>
    BY <1>5, <2>1, VerifierStepIs
  <2>3. CASE VerifierPasses
    <3>1. VerifierTranscript(k, qh, T)' /\ VerifierDrew(e, k, T)'
      BY <1>0, <2>3, VerifierPassesKeeps
    <3>2. file # <<>>
      BY <2>3 DEF VerifierPasses
    <3>3. FiledLast'
      BY <1>0, <1>2, <1>5, <3>2 DEF FiledLast
    <3> QED BY <1>2, <1>5, <3>1, <3>3 DEF FollowInv
  <2>4. CASE UNCHANGED <<vpc, vtr, vchal>>
    <3>1. VerifierTranscript(k, qh, T)' /\ VerifierDrew(e, k, T)'
      BY <1>0, <2>4 DEF VerifierTranscript, VerifierDrew
    <3>2. FiledLast'
      BY <1>0, <1>2, <1>5, <2>4 DEF FiledLast
    <3> QED BY <1>2, <1>5, <3>1, <3>2 DEF FollowInv
  <2> QED BY <2>2, <2>3, <2>4
<1>6. CASE UNCHANGED <<vars, vvars>>
  <2>1. FiledLast'
    BY <1>0, <1>1, <1>2, <1>6 DEF FiledLast
  <2> QED BY <1>1, <1>2, <1>6, <2>1 DEF FollowInv
<1> QED BY <1>3, <1>4, <1>5, <1>6 DEF SnarkNext, SnarkDone

(* The invariant makes the verifier's challenges those of the root.        *)
LEMMA FollowsFromInv ==
  ASSUME NEW e, NEW n, NEW ph, NEW k, NEW qh, NEW T,
         ProverMakes(e, n, ph, T), VerifierMakes(e, k, qh, T), FollowInv(e, n, ph, k, qh, T)
  PROVE  VerifierFollowsProver
<1> DEFINE CC == ChallengeCalls
           D == Draws(e)
           N == Len(Prog) + 1
           c == chal[ROOT_RANK]
<1> SUFFICES ASSUME NEW m \in 1 .. Len(vchal)
             PROVE  m <= Cardinality(CC) /\ vchal[m] = ProverChallenge(m)
  BY DEF VerifierFollowsProver
<1>1. /\ N \in Nat \ {0} /\ Len(e) \in Nat /\ n[N] = Len(e) /\ k[vpc] \in 0 .. Len(e)
      /\ CC \subseteq 1 .. N - 1 /\ N - 1 = Len(Prog)
  <2>1. Len(Prog) \in Nat /\ Len(e) \in Nat
    BY OpType, LenProperties DEF ProverMakes
  <2>2. n[N] = Len(e)
    BY DEF ProverMakes, IsWalk
  <2>3. k[vpc] \in 0 .. Len(e)
    BY DEF VerifierMakes, IsWalk, FollowInv, VerifierTranscript
  <2>4. CC \subseteq 1 .. Len(Prog)
    BY DEF ChallengeCalls, Calls, Pos
  <2> QED BY <2>1, <2>2, <2>3, <2>4
<1>2. /\ Len(vchal) = Count(D, k[vpc] + 1)
      /\ \A j \in D : j <= k[vpc] => vchal[Count(D, j) + 1] = RefreshedDigest(T[j - 1])
  BY DEF FollowInv, VerifierDrew
<1>3. ASSUME NEW i \in 1 .. N PROVE Count(CC, i) = Count(D, n[i] + 1)
  BY <1>1, DrawsAligned DEF ProverMakes
<1>4. pc[ROOT_RANK] = N
  <2>1. vchal # <<>>
    OBVIOUS
  <2> QED BY <2>1 DEF FollowInv, FiledLast
<1>5. /\ \A q \in CC : q < N => <<q, RefreshedDigest(T[n[q]])>> \in c
      /\ \A x \in c : x[2] = RefreshedDigest(T[n[x[1]]])
  BY <1>4 DEF FollowInv, RootDrew
<1> HIDE DEF CC, D, N, c
<1>6. Count(CC, N) = Cardinality(CC) /\ Cardinality(CC) \in Nat
  <2>1. CC \cap (1 .. N - 1) = CC
    BY <1>1
  <2> QED BY <1>1, <2>1, CountType DEF Count
<1>7. m \in 1 .. Count(CC, N)
  <2>1. Count(CC, N) = Count(D, Len(e) + 1)
    BY <1>1, <1>3
  <2>2. Count(D, k[vpc] + 1) <= Count(D, Len(e) + 1)
    BY <1>1, CountMonotonic
  <2>3. Count(CC, N) \in Nat /\ Count(D, k[vpc] + 1) \in Nat
    <3>1. N \in Nat /\ k[vpc] + 1 \in Nat
      BY <1>1
    <3> QED BY <3>1, CountType
  <2> QED BY <1>2, <2>1, <2>2, <2>3
<1>8. PICK q \in CC : q \in 1 .. N - 1 /\ Count(CC, q) + 1 = m
  BY <1>1, <1>7, CountReaches
<1>9. \A x \in CC : Cardinality({b \in CC : b <= x}) = Count(CC, x) + 1 /\ Count(CC, x) \in Nat
  <2> SUFFICES ASSUME NEW x \in CC
               PROVE  Cardinality({b \in CC : b <= x}) = Count(CC, x) + 1 /\ Count(CC, x) \in Nat
    OBVIOUS
  <2>1. x \in Nat \ {0}
    BY <1>1
  <2>2. {b \in CC : b <= x} = CC \cap (1 .. (x + 1) - 1)
    <3>1. ASSUME NEW b \in CC PROVE b <= x <=> b \in 1 .. (x + 1) - 1
      <4>1. b \in Nat \ {0}
        BY <1>1
      <4> QED BY <2>1, <4>1
    <3> QED BY <3>1
  <2>3. Count(CC, x + 1) = Count(CC, x) + 1 /\ Count(CC, x) \in Nat
    BY <2>1, CountNext, CountType
  <2> QED BY <2>2, <2>3 DEF Count
<1>10. (CHOOSE x \in CC : Cardinality({b \in CC : b <= x}) = m) = q
  <2>1. ASSUME NEW x \in CC, Cardinality({b \in CC : b <= x}) = m PROVE x = q
    <3>1. Count(CC, x) = Count(CC, q) /\ x \in Nat \ {0} /\ q \in Nat \ {0}
      <4>1. x \in Nat \ {0} /\ q \in Nat \ {0}
        BY <1>1
      <4>2. m = Count(CC, x) + 1 /\ m = Count(CC, q) + 1 /\ Count(CC, x) \in Nat /\ Count(CC, q) \in Nat
        BY <1>8, <1>9, <2>1
      <4> QED BY <4>1, <4>2
    <3> QED BY <1>8, <3>1, CountInjective
  <2>2. Cardinality({b \in CC : b <= q}) = m
    BY <1>8, <1>9
  <2> QED BY <1>8, <2>1, <2>2
<1>11. ProverChallenge(m) = RefreshedDigest(T[n[q]])
  <2> DEFINE x == CHOOSE y \in c : y[1] = q
  <2>1. <<q, RefreshedDigest(T[n[q]])>> \in c
    BY <1>1, <1>5, <1>8
  <2>2. x \in c /\ x[1] = q
    BY <2>1
  <2>3. x[2] = RefreshedDigest(T[n[q]])
    BY <1>5, <2>2
  <2>4. ProverChallenge(m) = x[2]
    BY <1>10 DEF ProverChallenge, CC, c
  <2> QED BY <2>3, <2>4
<1>12. vchal[m] = RefreshedDigest(T[n[q]])
  <2> DEFINE j == n[q] + 1
  <2>1. j \in D /\ n[q] \in Nat
    <3>1. q \in 1 .. Len(Prog) /\ Prog[q].op \in DrawOp
      BY <1>8 DEF CC, ChallengeCalls, Calls, Pos, DrawOp
    <3> QED BY <3>1, WalkDraws DEF ProverMakes, D
  <2>2. Count(CC, q) = Count(D, j)
    BY <1>1, <1>3, <1>8
  <2>3. j \in Nat \ {0} /\ j - 1 = n[q]
    BY <2>1
  <2> HIDE DEF j
  <2>4. Count(D, j) \in Nat /\ Count(D, j) < Count(D, k[vpc] + 1) /\ Count(D, k[vpc] + 1) \in Nat
    <3>1. Count(D, j) \in Nat /\ Count(D, k[vpc] + 1) \in Nat
      <4>1. j \in Nat /\ k[vpc] + 1 \in Nat
        BY <1>1, <2>3
      <4> QED BY <4>1, CountType
    <3>2. Count(D, j) + 1 = m
      BY <1>8, <2>2
    <3> QED BY <1>2, <3>1, <3>2
  <2>5. j <= k[vpc]
    <3>1. ASSUME k[vpc] + 1 <= j PROVE FALSE
      <4>1. Count(D, k[vpc] + 1) <= Count(D, j)
        BY <1>1, <2>3, <3>1, CountMonotonic
      <4> QED BY <2>4, <4>1
    <3> QED BY <1>1, <2>3, <3>1
  <2> QED BY <1>2, <1>8, <2>1, <2>2, <2>3, <2>5
<1> QED BY <1>6, <1>7, <1>11, <1>12

(* Programs with the same events follow each other.                        *)
LEMMA EventsFollowed ==
  ASSUME CollectivesOnAllRanks, StartsNew,
         NEW e, NEW n, NEW ph, NEW k, NEW qh, NEW T,
         ProverMakes(e, n, ph, T), VerifierMakes(e, k, qh, T)
  PROVE  SnarkSpec => []VerifierFollowsProver
<1> DEFINE I == MatchInv /\ BindInv /\ FollowInv(e, n, ph, k, qh, T)
<1>1. SnarkInit => I
  BY MatchInit, BindInit, FollowInit DEF SnarkInit
<1>2. I /\ [SnarkNext]_<<vars, vvars>> => I'
  <2> SUFFICES ASSUME I, [SnarkNext]_<<vars, vvars>> PROVE I'
    OBVIOUS
  <2>1. [Next]_vars
    BY DEF SnarkNext, SnarkDone, Next
  <2>2. MatchInv' /\ BindInv'
    BY <2>1, MatchNext, BindNext
  <2> QED BY <2>2, FollowNext
<1>3. I => VerifierFollowsProver
  BY FollowsFromInv
<1> QED BY <1>1, <1>2, <1>3, PTL DEF SnarkSpec

(* The verifier of verify() draws the challenges of the prover of prove(), *)
(* one by one, for every circuit.                                          *)
THEOREM VerifierFollows ==
  ASSUME Prog = ProveCommand, VProg = Verify, SidesFit
  PROVE  SnarkSpec => []VerifierFollowsProver
<1>1. Matches(ProveCommand, Verify, "start", "fresh", "filed", "bound")
  BY ProgramsMatch
<1>2. PICK e : Traces(Prog, e, "start", "filed") /\ Traces(VProg, e, "fresh", "bound")
  BY <1>1 DEF Matches
<1>3. PICK n, ph : IsWalk(Prog, e, "start", "filed", n, ph)
  BY <1>2 DEF Traces
<1>4. PICK k, qh : IsWalk(VProg, e, "fresh", "bound", k, qh)
  BY <1>2 DEF Traces
<1>5. Prog \in Seq(Call) /\ VProg \in Seq(Call) /\ e \in Seq(Event)
  BY <1>2 DEF Traces
<1>6. PICK T : IsRun(e, T)
  BY <1>5, RunExists
<1>7. ProverMakes(e, n, ph, T) /\ VerifierMakes(e, k, qh, T)
  BY <1>3, <1>4, <1>5, <1>6 DEF ProverMakes, VerifierMakes
<1>8. StartsNew /\ CollectivesOnAllRanks
  BY ProgramsBegin, ProgramsAreDisciplined DEF StartsNew, Begins, Disciplined
<1> QED BY <1>7, <1>8, EventsFollowed
=============================================================================
