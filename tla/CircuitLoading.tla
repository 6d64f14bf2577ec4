--------------------------- MODULE CircuitLoading ---------------------------
(***************************************************************************)
(* How a prover and a verifier come by the same circuit and the same       *)
(* inputs.  The prover's root flattens the circuit file and shares it with *)
(* its ranks (SharedMem), the verifier, another process, flattens the file *)
(* again; every process then finds the gates with random coefficients,     *)
(* puts a relay layer in front if need be, and takes its part of the       *)
(* witness file.  The root and the verifier give the k-th challenge to the *)
(* k-th of the gates they found.                                           *)
(***************************************************************************)
EXTENDS SharedMem, SequencesExt

CONSTANT Jobs   \* circuit files, with a witness file for each

Verifier == -1
Process  == Rank \cup {Verifier}
Flattens == {ROOT_RANK, Verifier}

VARIABLES
  job,      \* the two files
  flat,     \* the layers flattened so far, at the root and at the verifier
  circuit,  \* each process's circuit, empty before pre_process_gkr
  rnd,      \* rnd_coefs: the gates with random coefficients, in order
  input,    \* each process's inputs, NoInput before, Refused if it panicked
  coef      \* << >> before fill_rnd_coefs, then << which gate got which challenge >>

vars == <<smVars, job, flat, circuit, rnd, input, coef>>

NoInput == [state |-> "none"]
Refused == [state |-> "refused"]

-----------------------------------------------------------------------------
(* From the compiler's circuit to layers: a segment has gates of its own   *)
(* and children, each placed at several offsets; flatten collects for each *)
(* layer the segments with gates and all the places they come to.          *)
Kinds == {"mul", "add", "const", "uni"}

(* A circuit rc has segs, a sequence of segments                           *)
(*   [ivars, ovars, childs, gates],                                        *)
(* layers, the segment of each layer, and zeros.  A child is a segment     *)
(* with its places, [seg, allocs], a place has offsets [i, o], and a gate  *)
(* has [kind, i, o, coef], i the sequence of its inputs.                   *)
Shifted(g, a) == [g EXCEPT !.i = [k \in DOMAIN g.i |-> g.i[k] + a.i], !.o = g.o + a.o]
Nested(a, b)  == [i |-> a.i + b.i, o |-> a.o + b.o]

(* The places of child times those of the leaf inside it.                  *)
Products(as, bs) == FlattenSeq([k \in DOMAIN as |-> [l \in DOMAIN bs |-> Nested(as[k], bs[l])]])

(* scan_leaf_segments: for each segment with gates below a segment, its    *)
(* places, in the order the recursion pushes them.                         *)
NoLeaves == [s \in {} |-> <<>>]
PlacesIn(leaves, s) == IF s \in DOMAIN leaves THEN leaves[s] ELSE <<>>
MergeFirstAlloc(leaves, more, allocs) ==
  [s \in DOMAIN leaves \cup DOMAIN more |->
     IF s \in DOMAIN leaves THEN leaves[s] ELSE Products(allocs, more[s])]
Merge(leaves, more, allocs) ==
  [s \in DOMAIN leaves \cup DOMAIN more |->
     PlacesIn(leaves, s) \o Products(allocs, PlacesIn(more, s))]

LeafSegments(rc) ==
  LET scan[s \in DOMAIN rc.segs] ==
        LET own == IF rc.segs[s].gates = <<>> THEN NoLeaves
                   ELSE [x \in {s} |-> << [i |-> 0, o |-> 0] >>]
        IN  FoldLeft(LAMBDA leaves, c : Merge(leaves, scan[c.seg], c.allocs),
                     own, rc.segs[s].childs)
  IN  scan

(* One layer, when the leaves come in the given order: a HashMap has an    *)
(* order of its own in every process, and in every run of it.              *)
OfKind(gates, kind) == SelectSeq(gates, LAMBDA g : g.kind = kind)
AtLeastOne(n)       == IF n = 0 THEN 1 ELSE n

LayerInOrder(rc, s, order) ==
  LET leaves == LeafSegments(rc)[s]
      moved(x) == FlattenSeq([k \in DOMAIN leaves[x] |->
                     [l \in DOMAIN rc.segs[x].gates |-> Shifted(rc.segs[x].gates[l], leaves[x][k])]])
      all == FlattenSeq([k \in DOMAIN order |-> moved(order[k])])
  IN  [ivars |-> AtLeastOne(rc.segs[s].ivars), ovars |-> AtLeastOne(rc.segs[s].ovars),
       gates |-> [kind \in Kinds |-> OfKind(all, kind)]]

Orders(rc, s) == SetToSeqs(DOMAIN LeafSegments(rc)[s])

-----------------------------------------------------------------------------
(* What a segment means, without leaves: its gates, and the gates of its   *)
(* children wherever they are placed.                                      *)
GatesOf(rc) ==
  LET all[s \in DOMAIN rc.segs] ==
        rc.segs[s].gates \o FlattenSeq([c \in DOMAIN rc.segs[s].childs |->
          LET child == rc.segs[s].childs[c]
          IN  FlattenSeq([k \in DOMAIN child.allocs |->
                [l \in DOMAIN all[child.seg] |-> Shifted(all[child.seg][l], child.allocs[k])]])])
  IN  all

-----------------------------------------------------------------------------
(* The fields of a circuit in the window, layer by layer.  A gate holds    *)
(* its inputs, its output, the kind of its coefficient (two words), the    *)
(* coefficient (at most a word in the fields modelled) and its type.       *)
Word(n)            == [vec |-> FALSE, len |-> n, size |-> 8, align |-> 8]
GateVec(gs, fanin) == [vec |-> TRUE, len |-> Len(gs), size |-> 8 * (fanin + 5), align |-> 8]
LayerFields(l) ==
  << Word(l.ivars), Word(l.ovars), GateVec(l.gates["mul"], 2), GateVec(l.gates["add"], 1),
     GateVec(l.gates["const"], 0), GateVec(l.gates["uni"], 1) >>
FieldsOf(layers, zeros) ==
  << Word(Len(layers)) >> \o FlattenSeq([k \in DOMAIN layers |-> LayerFields(layers[k])])
    \o << Word(zeros) >>

(* What flattening can give: each layer in some order of its leaves.       *)
FlatLayers(rc, k) == {LayerInOrder(rc, rc.layers[k], order) : order \in Orders(rc, rc.layers[k])}
AnyLayer(rc)      == UNION {FlatLayers(rc, k) : k \in DOMAIN rc.layers}
Flattenings(rc)   == {ls \in [DOMAIN rc.layers -> AnyLayer(rc)] :
                        \A k \in DOMAIN rc.layers : ls[k] \in FlatLayers(rc, k)}

(* A circuit file has layers, a witness file has witnesses, and whatever   *)
(* the order of the leaves, what the root shares is an object.             *)
ASSUME JobsAssumption ==
  \A j \in Jobs :
    /\ j.rc.layers \in Seq(DOMAIN j.rc.segs) /\ j.rc.layers # <<>>
    /\ \A ls \in Flattenings(j.rc) : FieldsOf(ls, j.rc.zeros) \in Objects
    /\ j.witness \in [num : Nat \ {0}, priv : Nat \ {0}, pub : Nat]
    /\ j.pack \in Nat \ {0} /\ j.padding \in BOOLEAN

Init ==
  /\ job \in Jobs
  /\ SmInit
  /\ flat = [p \in Flattens |-> <<>>]
  /\ circuit = [p \in Process |-> <<>>]
  /\ rnd = [p \in Process |-> <<>>]
  /\ input = [p \in Process |-> NoInput]
  /\ coef = [p \in Flattens |-> <<>>]

(* RecursiveCircuit::flatten, a layer at a time.                           *)
FlattenLayer(p) ==
  /\ Len(flat[p]) < Len(job.rc.layers)
  /\ LET s == job.rc.layers[Len(flat[p]) + 1]
     IN  \E order \in Orders(job.rc, s) :
           flat' = [flat EXCEPT ![p] = Append(@, LayerInOrder(job.rc, s, order))]
  /\ UNCHANGED <<smVars, job, circuit, rnd, input, coef>>

Flattened(p) == Len(flat[p]) = Len(job.rc.layers)

Share ==
  /\ Flattened(ROOT_RANK)
  /\ Offer(FieldsOf(flat[ROOT_RANK], job.rc.zeros))
  /\ UNCHANGED <<job, flat, circuit, rnd, input, coef>>

ShareStep == SmStep /\ UNCHANGED <<job, flat, circuit, rnd, input, coef>>

(* A rank's vectors are what lies where its pointers point: the vector of  *)
(* a layer's gates of a kind is the field at the place LayerFields says.   *)
FieldAt(k, kind) ==
  CASE kind = "mul" -> 6 * k - 2 [] kind = "add" -> 6 * k - 1
    [] kind = "const" -> 6 * k   [] kind = "uni" -> 6 * k + 1
GatesReadSwapped(p, k, kind) ==
  LET written == IF kind = "add" THEN "uni" ELSE IF kind = "uni" THEN "add" ELSE kind
  IN  IF got[p][FieldAt(k, kind)] = placed[FieldAt(k, kind)]
      THEN flat[ROOT_RANK][k].gates[written] ELSE <<>>
GatesRead(p, k, kind) ==
  IF got[p][FieldAt(k, kind)] = placed[FieldAt(k, kind)]
  THEN flat[ROOT_RANK][k].gates[kind] ELSE <<>>

Loaded(p) == IF p = Verifier THEN Flattened(p) ELSE stage[p] = Use
LayersOf(p) ==
  IF p = Verifier THEN flat[p]
  ELSE [k \in DOMAIN flat[ROOT_RANK] |->
         [flat[ROOT_RANK][k] EXCEPT !.gates = [kind \in Kinds |-> GatesRead(p, k, kind)]]]

-----------------------------------------------------------------------------
(* pre_process_gkr.  A random gate is known by its layer and its wires.    *)
RandomGates(layers) ==
  FlattenSeq([k \in DOMAIN layers |->
    LET random(kind) == SelectSeq(layers[k].gates[kind], LAMBDA g : g.coef = "random")
        all == random("mul") \o random("add") \o random("const") \o random("uni")
    IN  [l \in DOMAIN all |-> <<k, all[l]>>]])

(* The order of the leaves makes no difference to the order of the random  *)
(* gates.                                                                  *)
OneOrder(jobs) ==
  \A j \in jobs : \A ls, ms \in Flattenings(j.rc) : RandomGates(ls) = RandomGates(ms)

SkipPhaseTwo(l) == l.gates["mul"] = <<>>

RelayLayer(n) ==
  [ivars |-> n, ovars |-> n,
   gates |-> [kind \in Kinds |-> IF kind # "add" THEN <<>> ELSE
     [k \in 1 .. 2 ^ n |-> [kind |-> "add", i |-> <<k - 1>>, o |-> k - 1, coef |-> "one"]]]]

WithRelay(layers) ==
  IF SkipPhaseTwo(layers[1]) THEN layers ELSE <<RelayLayer(layers[1].ivars)>> \o layers

PreProcess(p) ==
  /\ Loaded(p) /\ circuit[p] = <<>>
  /\ rnd' = [rnd EXCEPT ![p] = RandomGates(LayersOf(p))]
  /\ circuit' = [circuit EXCEPT ![p] = WithRelay(LayersOf(p))]
  /\ UNCHANGED <<smVars, job, flat, input, coef>>

-----------------------------------------------------------------------------
(* load_witness_bytes.  A witness file has num witnesses of priv private   *)
(* and pub public values, one after the other; values are known by the     *)
(* witness and the place they come from.                                   *)
Total(w)      == w.priv + w.pub
Desired       == job.pack * WorldSize
Values(w)     == [k \in 0 .. w.num * Total(w) - 1 |-> <<k \div Total(w), k % Total(w)>>]
PaddedValues(w) ==
  [k \in 0 .. Desired * Total(w) - 1 |->
     IF k < w.num * Total(w) THEN Values(w)[k] ELSE Values(w)[k % Total(w)]]

(* The SIMD lanes of value i of a rank.                                    *)
LanesOfRoot(w, r, i) ==
  [j \in 0 .. job.pack - 1 |-> PaddedValues(w)[j * Total(w) + i]]
Lanes(w, r, i) ==
  [j \in 0 .. job.pack - 1 |-> PaddedValues(w)[(r * job.pack + j) * Total(w) + i]]

PublicOf(w, r) == [i \in 1 .. w.pub |-> Lanes(w, r, w.priv + i - 1)]

ProverInput(w, r) ==
  [state |-> "loaded", private |-> [i \in 1 .. w.priv |-> Lanes(w, r, i - 1)],
   public |-> PublicOf(w, r)]
VerifierInput(w) ==
  [state |-> "loaded", private |-> <<>>,
   public |-> FlattenSeq([r \in 1 .. WorldSize |-> PublicOf(w, r - 1)])]

(* Only a prover pads, and only when a test asks for it.                   *)
TooFewForProver(p) == job.witness.num < Desired /\ p # Verifier /\ ~job.padding
TooFew(p)          == job.witness.num < Desired /\ (p = Verifier \/ ~job.padding)

LoadWitness(p) ==
  /\ circuit[p] # <<>> /\ input[p] = NoInput
  /\ input' = [input EXCEPT ![p] =
       IF \/ job.witness.priv # 2 ^ circuit[p][1].ivars
          \/ TooFew(p)
       THEN Refused
       ELSE IF p = Verifier THEN VerifierInput(job.witness) ELSE ProverInput(job.witness, p)]
  /\ UNCHANGED <<smVars, job, flat, circuit, rnd, coef>>

(* fill_rnd_coefs: the k-th challenge goes to the k-th pointer.  The ranks *)
(* share the gates, and the root fills them.                               *)
FillRndCoefs(p) ==
  /\ input[p] \notin {NoInput, Refused} /\ coef[p] = <<>>
  /\ coef' = [coef EXCEPT ![p] = << {<<rnd[p][k], k>> : k \in DOMAIN rnd[p]} >>]
  /\ UNCHANGED <<smVars, job, flat, circuit, rnd, input>>

AllLoaded ==
  /\ \A p \in Process : input[p] # NoInput
  /\ \A p \in Flattens : input[p] = Refused \/ coef[p] # <<>>
  /\ UNCHANGED vars

Next ==
  \/ Share \/ ShareStep \/ AllLoaded
  \/ \E p \in Flattens : FlattenLayer(p) \/ FillRndCoefs(p)
  \/ \E p \in Process : PreProcess(p) \/ LoadWitness(p)

Spec == Init /\ [][Next]_vars

-----------------------------------------------------------------------------

GateCounts(gs) == [g \in Range(gs) |-> Cardinality({k \in DOMAIN gs : gs[k] = g})]

(* In whatever order the leaves come, a flattened layer has the gates the  *)
(* circuit file means, each as often: nested and repeated places multiply. *)
FlatMeansTheFile ==
  \A p \in Flattens : \A k \in 1 .. Len(flat[p]) : \A kind \in Kinds :
    GateCounts(flat[p][k].gates[kind]) =
      GateCounts(OfKind(GatesOf(job.rc)[job.rc.layers[k]], kind))

(* Every lane of every rank holds one witness, its private and its public  *)
(* part alike, no two lanes hold the same unless the file is padded, and   *)
(* the verifier's public inputs are those of the ranks, one after the      *)
(* other.                                                                  *)
WitnessesReachTheirLanes ==
  LET ready == {r \in Rank : input[r] \notin {NoInput, Refused}}
      value(r, i, j) == IF i < job.witness.priv THEN input[r].private[i + 1][j]
                        ELSE input[r].public[i - job.witness.priv + 1][j]
      holds(r, j) == {v \in 0 .. job.witness.num - 1 :
                        \A i \in 0 .. Total(job.witness) - 1 : value(r, i, j) = <<v, i>>}
      lanes == ready \X (0 .. job.pack - 1)
  IN  /\ \A l \in lanes : holds(l[1], l[2]) # {}
      /\ job.witness.num >= Desired =>
           \A l, m \in lanes : l # m => holds(l[1], l[2]) \cap holds(m[1], m[2]) = {}
      /\ ready = Rank /\ input[Verifier] \notin {NoInput, Refused} =>
           input[Verifier].public = FlattenSeq([r \in 1 .. WorldSize |-> input[r - 1].public])

(* Unless a test pads it, a witness file suffices for all ranks and for    *)
(* the verifier or for none of them: no prover starts a proof that its     *)
(* verifier then cannot load the public inputs for.                        *)
AllAcceptTheWitness ==
  ~job.padding => \A p, q \in Process :
    input[p] = Refused => input[q] \in {NoInput, Refused}

(* Prover and verifier give each challenge to the same gate, so that the   *)
(* verifier's sums over the gates are the prover's.                        *)
SameCoefficients ==
  coef[ROOT_RANK] # <<>> /\ coef[Verifier] # <<>> => coef[ROOT_RANK] = coef[Verifier]
=============================================================================
