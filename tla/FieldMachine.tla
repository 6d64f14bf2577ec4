----------------------------- MODULE FieldMachine -----------------------------
(***************************************************************************)
(* A program over one type of arith: an accumulator that goes through any  *)
(* sequence of the operations of the traits Field and SimdField            *)
(* (arith/src/field.rs, simd_field.rs), as the circuit evaluator, the      *)
(* sum-check and the commitments send it.  Beside the accumulator stands   *)
(* the element of the field that each of its lanes ought to be.            *)
(*                                                                         *)
(* The operations are the constants: a type is an instance of this module. *)
(***************************************************************************)
EXTENDS Words

CONSTANTS
  Kind,             \* the name of the type
  Lanes,            \* PACK_SIZE
  Operands,         \* the scalars a step takes as its other operand
  Seeds,            \* the scalars a step packs
  Draws,            \* the raw words the generators and conversions are given
  Depth,            \* the length of a run, for the types whose runs are bounded; or 0
  Careful           \* whether the program keeps clear of the operations known wrong

(* The type: what arith computes.                                          *)
CONSTANTS
  Zero, One, Add(_, _), Sub(_, _), Mul(_, _), Neg(_), Double(_), Square(_), Power(_, _),
  MulBy3(_), MulBy5(_), MulBy6(_), Inv(_), IsZero(_), Eq(_, _),
  PackFull(_), Pack(_), Unpack(_), HorizontalSum(_), AddScalar(_, _), MulScalar(_, _),
  Serialize(_), Deserialize(_), From(_), FromUniformBytes(_), RandomUnsafe(_), RandomBool(_),
  Panics(_, _, _),  \* whether an operation panics, or assumes what is not so
  KnownWrong(_, _, _) \* whether an operation is known to be wrong on two operands

(* The field: what it ought to be.                                         *)
CONSTANTS
  Element(_),       \* the element a scalar stands for
  InRange(_),       \* the scalars the type promises to hold
  EFrom(_), EAdd(_, _), EMul(_, _), ENeg(_), EInv(_)

VARIABLES kind, acc, is, steps
vars == <<kind, acc, is, steps>>

Value(x) == PerLane(Element, Unpack(x))
EverySame(e) == Fill(Lanes, e)
ESum(u, v) == PerLane2(EAdd, u, v)
EProduct(u, v) == PerLane2(EMul, u, v)
ENegated(v) == PerLane(ENeg, v)
ETimes(n, v) == PerLane(LAMBDA e : EMul(EFrom(n), e), v)
EPower(v, n) == FoldLeft(LAMBDA r, i : EProduct(r, v), EverySame(EFrom(1)), Fill(n, 0))

Avoided(op, x, y) == Careful /\ KnownWrong(op, x, y)

Running == kind = Kind

Becomes(x, v) ==
  /\ Depth > 0 => steps < Depth
  /\ acc' = x
  /\ is' = v
  /\ steps' = IF Depth > 0 THEN steps + 1 ELSE 0
  /\ UNCHANGED kind

Init ==
  /\ kind = Kind
  /\ acc = Zero
  /\ is = EverySame(EFrom(0))
  /\ steps = 0

-----------------------------------------------------------------------------
DoAdd == \E s \in Operands :
  ~Panics("add", acc, PackFull(s)) /\ Becomes(Add(acc, PackFull(s)), ESum(is, EverySame(Element(s))))

DoSub == \E s \in Operands :
  Becomes(Sub(acc, PackFull(s)), ESum(is, EverySame(ENeg(Element(s)))))

(* The accumulator as the subtrahend.                                      *)
DoSubFrom == \E s \in Operands :
  Becomes(Sub(PackFull(s), acc), ESum(EverySame(Element(s)), ENegated(is)))

DoMul == \E s \in Operands :
  ~Panics("mul", acc, PackFull(s)) /\ Becomes(Mul(acc, PackFull(s)), EProduct(is, EverySame(Element(s))))

(* With a scalar on the right: Add<Scalar>, Mul<Scalar> and scale.         *)
DoAddScalar == \E s \in Operands :
  ~Avoided("add_scalar", acc, PackFull(s)) /\ Becomes(AddScalar(acc, s), ESum(is, EverySame(Element(s))))

DoMulScalar == \E s \in Operands : Becomes(MulScalar(acc, s), EProduct(is, EverySame(Element(s))))

DoNeg    == ~Avoided("neg", acc, acc) /\ Becomes(Neg(acc), ENegated(is))
DoDouble == Becomes(Double(acc), ESum(is, is))
DoSquare == Becomes(Square(acc), EProduct(is, is))
DoMulBy3 == Becomes(MulBy3(acc), ETimes(3, is))
DoMulBy5 == Becomes(MulBy5(acc), ETimes(5, is))
DoMulBy6 == Becomes(MulBy6(acc), ETimes(6, is))

DoExp == \E n \in {0, 2, 5} : ~Avoided("exp", acc, n) /\ Becomes(Power(acc, n), EPower(is, n))

(* The callers unwrap the inverse.                                         *)
DoInv ==
  /\ ~Panics("inv", acc, acc) /\ ~Avoided("inv", acc, acc)
  /\ EFrom(0) \notin {is[l] : l \in DOMAIN is}
  /\ Inv(acc) # None
  /\ Becomes(Inv(acc)[1], PerLane(EInv, is))

DoPack == \E s \in Seeds, here \in {{l \in 1 .. Lanes : l % 2 = 1}, 1 .. (Lanes + 1) \div 2} :
  Becomes(Pack([l \in 1 .. Lanes |-> IF l \in here THEN s ELSE Unpack(acc)[1]]),
          [l \in 1 .. Lanes |-> IF l \in here THEN Element(s) ELSE is[1]])

DoHorizontalSum ==
  /\ ~Avoided("horizontal_sum", acc, acc)
  /\ Becomes(PackFull(HorizontalSum(acc)), EverySame(FoldLeft(EAdd, EFrom(0), is)))

DoStoreAndLoad == Becomes(Deserialize(Serialize(acc)), is)

DoFrom == \E n \in Draws :
  ~Panics("from", n, acc) /\ ~Avoided("from", n, acc) /\ Becomes(From(n), EverySame(EFrom(n)))

(* What a uniform or random word becomes is not said, only that it is an   *)
(* element in range; a random Boolean is zero or one.                      *)
DoFromUniformBytes == \E w \in Draws :
  /\ ~Panics("from_uniform_bytes", acc, acc)
  /\ ~Avoided("from_uniform_bytes", FromUniformBytes(w), acc)
  /\ Becomes(FromUniformBytes(w), Value(FromUniformBytes(w)))

DoRandomUnsafe == \E w \in Draws :
  ~Avoided("random_unsafe", RandomUnsafe(w), acc) /\ Becomes(RandomUnsafe(w), Value(RandomUnsafe(w)))

DoRandomBool == \E bits \in {Fill(Lanes, 1), [l \in 1 .. Lanes |-> l % 2]} :
  ~Avoided("random_bool", RandomBool(bits), acc) /\ Becomes(RandomBool(bits), PerLane(EFrom, bits))

(* All but the loops over the bits of an exponent or the lanes of a vector.*)
Arithmetic ==
  \/ DoAdd \/ DoSub \/ DoSubFrom \/ DoMul \/ DoAddScalar \/ DoMulScalar
  \/ DoNeg \/ DoDouble \/ DoSquare \/ DoMulBy3 \/ DoMulBy5 \/ DoMulBy6
  \/ DoPack \/ DoStoreAndLoad
  \/ DoFrom \/ DoFromUniformBytes \/ DoRandomUnsafe \/ DoRandomBool

Operation == Arithmetic \/ DoExp \/ DoInv \/ DoHorizontalSum

Next == Running /\ Operation

-----------------------------------------------------------------------------
(* However the accumulator was computed, its lanes are the elements they   *)
(* ought to be: no reduction, carry, borrow or shift loses a multiple of   *)
(* anything but the modulus.                                               *)
ValueIsExact == Running => Value(acc) = is

(* Every lane stays a word the type's own additions and reductions accept. *)
WordsInRange == Running => AllLanes(InRange, Unpack(acc))

(* The comparisons see elements, not words: two words of one element are   *)
(* equal, and zero is zero however it was reached.                         *)
ComparisonsAreExact ==
  Running =>
    /\ ~Avoided("is_zero", acc, acc) => (IsZero(acc) <=> \A l \in 1 .. Lanes : is[l] = EFrom(0))
    /\ \A s \in Operands :
         ~Avoided("eq", acc, PackFull(s)) =>
           (Eq(acc, PackFull(s)) <=> \A l \in 1 .. Lanes : is[l] = Element(s))

(* Exactly the units have an inverse: a caller that unwraps one does not   *)
(* stop, and none is handed out for zero.                                  *)
UnitsHaveInverses ==
  Running /\ ~Panics("inv", acc, acc) /\ ~Avoided("inv", acc, acc) =>
    (Inv(acc) = None <=> \E l \in 1 .. Lanes : is[l] = EFrom(0))

(* The verifier appends to its transcript the bytes of what it read: they  *)
(* are those the prover appended.                                          *)
BytesSurviveTheProof ==
  Running => Serialize(Deserialize(Serialize(acc))) = Serialize(acc)

(* No operand the type itself produced makes an operation panic, or breaks *)
(* what the code asks the compiler to assume.                              *)
NoUndefinedBehaviour ==
  Running => \A s \in Operands, op \in {"add", "sub", "mul"} :
               ~Panics(op, acc, PackFull(s)) /\ ~Panics(op, PackFull(s), acc)

(* The six by name, for a run over several types.                          *)
Holds(property) ==
  CASE property = "value"       -> ValueIsExact
    [] property = "words"       -> WordsInRange
    [] property = "comparisons" -> ComparisonsAreExact
    [] property = "inverses"    -> UnitsHaveInverses
    [] property = "bytes"       -> BytesSurviveTheProof
    [] property = "assumptions" -> NoUndefinedBehaviour
=============================================================================
