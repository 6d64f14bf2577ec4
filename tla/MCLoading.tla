------------------------------ MODULE MCLoading ------------------------------
(* Small circuit and witness files for CircuitLoading.                     *)
EXTENDS CircuitLoading

Gate(kind, i, o, c)  == [kind |-> kind, i |-> i, o |-> o, coef |-> c]
Alloc(i, o)          == [i |-> i, o |-> o]
Child(s, allocs)     == [seg |-> s, allocs |-> allocs]
Seg(iv, ov, cs, gs)  == [ivars |-> iv, ovars |-> ov, childs |-> cs, gates |-> gs]

(* A product placed twice, once directly and once inside another segment   *)
(* that is itself placed twice, and random gates in one leaf of each layer.*)
Nesting == [
  segs |-> << Seg(1, 0, <<>>, <<Gate("mul", <<0, 1>>, 0, "constant")>>),
              Seg(1, 0, <<Child(1, <<Alloc(0, 0)>>)>>, <<Gate("add", <<1>>, 0, "random"),
                                                   Gate("uni", <<0>>, 0, "random")>>),
              Seg(2, 1, <<Child(2, <<Alloc(0, 0), Alloc(2, 1)>>), Child(1, <<Alloc(1, 1)>>)>>, <<>>),
              Seg(1, 0, <<>>, <<Gate("const", <<>>, 0, "public"), Gate("add", <<0>>, 0, "random"),
                                Gate("uni", <<1>>, 0, "constant")>>) >>,
  layers |-> <<3, 4>>, zeros |-> 1]

(* Two segments with a random gate each, in one layer.                     *)
TwoLeaves == [
  segs |-> << Seg(0, 0, <<>>, <<Gate("add", <<0>>, 0, "random")>>),
              Seg(0, 0, <<>>, <<Gate("const", <<>>, 0, "constant"), Gate("add", <<0>>, 0, "random")>>),
              Seg(1, 1, <<Child(1, <<Alloc(0, 0)>>), Child(2, <<Alloc(1, 1)>>)>>, <<>>) >>,
  layers |-> <<3>>, zeros |-> 1]

MkLoad(rc, num, priv, pub, pack, padding) ==
  [rc |-> rc, witness |-> [num |-> num, priv |-> priv, pub |-> pub],
   pack |-> pack, padding |-> padding]

MCJobs == {MkLoad(Nesting, 2, 4, 1, 1, FALSE), MkLoad(Nesting, 5, 4, 2, 2, FALSE),
           MkLoad(Nesting, 3, 4, 1, 2, FALSE), MkLoad(Nesting, 3, 4, 1, 2, TRUE),
           MkLoad(Nesting, 2, 2, 1, 1, FALSE)}
MCTwoLeaves == {MkLoad(TwoLeaves, 2, 2, 0, 1, FALSE)}

(* With random gates in one leaf of each layer there is one order, with    *)
(* random gates in two there is not.                                       *)
ASSUME OrdersAssumption == OneOrder(MCJobs) /\ ~OneOrder(MCTwoLeaves)

(* Any order gives vectors of the same lengths.                            *)
AnyOrder(rc, s) == LayerInOrder(rc, s, CHOOSE o \in Orders(rc, s) : TRUE)
MCObjects ==
  {FieldsOf([k \in DOMAIN j.rc.layers |-> AnyOrder(j.rc, j.rc.layers[k])], j.rc.zeros) :
     j \in MCJobs \cup MCTwoLeaves}
MCBase == [r \in Rank |-> 8 + 64 * r]
=============================================================================
