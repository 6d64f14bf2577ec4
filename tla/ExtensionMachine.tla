--------------------------- MODULE ExtensionMachine ---------------------------
(***************************************************************************)
(* FieldMachine for the extension fields: the operations of ExtensionField *)
(* (arith/src/extension_field.rs) beside those of Field and SimdField.     *)
(***************************************************************************)
EXTENDS FieldMachine

CONSTANTS
  MulByX(_), MulByBaseField(_, _), AddByBaseField(_, _),
  BaseOperands,     \* the elements of the base field a step takes
  EX,               \* the element x
  UnpackBase(_),    \* its lanes, each an element of the scalar's base field
  EBase(_)          \* the element one of them stands for

DoMulByX == Becomes(MulByX(acc), EProduct(is, EverySame(EX)))

DoMulByBaseField == \E b \in BaseOperands :
  Becomes(MulByBaseField(acc, b), EProduct(is, PerLane(EBase, UnpackBase(b))))

DoAddByBaseField == \E b \in BaseOperands :
  Becomes(AddByBaseField(acc, b), ESum(is, PerLane(EBase, UnpackBase(b))))

ExtensionOperation == DoMulByX \/ DoMulByBaseField \/ DoAddByBaseField

ExtensionNext == Running /\ (Operation \/ ExtensionOperation)
=============================================================================
