------------------------------ MODULE SharedMem ------------------------------
(***************************************************************************)
(* consume_obj_and_create_shared: the root measures an object, all ranks   *)
(* allocate a window of that size, the root writes the object field by     *)
(* field, and every rank, the root included, builds its own object whose   *)
(* vectors point into the window.                                          *)
(*                                                                         *)
(* Nothing in the window says where a field is: writer and readers walk    *)
(* over it with raw pointers, and each maps it at an address of its own.   *)
(***************************************************************************)
EXTENDS World, Sequences

CONSTANTS
  Objects,   \* the objects to share: sequences of fields
  Base       \* the address at which each rank maps the window

(* A field is a usize, or a vector of len elements of size bytes that are  *)
(* aligned to align; for a usize, len is its value.                        *)
Field == [vec : BOOLEAN, len : Nat, size : Nat, align : Nat \ {0}]

(* shared_mem.rs:7 assumes alignments of 8 and more; the size of a Rust    *)
(* type is a multiple of its alignment.  Windows start at a page, so the   *)
(* ranks' addresses are equal up to any alignment.                         *)
ASSUME SharedAssumption ==
  /\ Objects \subseteq Seq(Field)
  /\ \A o \in Objects : \A k \in 1 .. Len(o) :
       /\ o[k].align % 8 = 0
       /\ o[k].size % o[k].align = 0
       /\ \A r \in Rank : Base[r] % o[k].align = Base[ROOT_RANK] % o[k].align
  /\ \A r \in Rank : Base[r] \in Nat /\ Base[r] % 8 = 0

(* What a rank is doing, in the order of the code.                         *)
Load     == 0
Measure  == 1
Allocate == 2
Write    == 3
Fence    == 4
Read     == 5
Use      == 6

VARIABLES
  obj,      \* the object's fields
  upto,     \* the sizes of its first fields, added up
  stage,    \* what each rank is doing
  ptr,      \* each rank's pointer
  placed,   \* where the root wrote the fields: offsets in the window
  got       \* where each rank read them

smVars == <<obj, upto, stage, ptr, placed, got>>

-----------------------------------------------------------------------------
Larger(a, b)      == IF a < b THEN b ELSE a
AlignUp(a, align) == ((a + align - 1) \div align) * align

(* bytes_size: the length and its padding take no more than the alignment. *)
BytesSizeNoLength(f) == IF f.vec THEN f.len * f.size ELSE 8
BytesSize(f)         == IF f.vec THEN Larger(8, f.align) + f.len * f.size ELSE 8

(* Where to_memory and new_from_memory find a field that starts at p: the  *)
(* word with the length, the elements, and the pointer afterwards.         *)
DataAt(p, f)   == IF f.vec THEN AlignUp(p + 8, f.align) ELSE p
PtrAfter(p, f) == IF f.vec THEN DataAt(p, f) + f.len * f.size ELSE p + 8
Place(p, f, base) == [word |-> p - base, data |-> DataAt(p, f) - base,
                      next |-> PtrAfter(p, f) - base, len |-> f.len]

SmInit ==
  /\ obj = <<>>
  /\ upto = <<0>>
  /\ stage = [r \in Rank |-> IF r = ROOT_RANK THEN Load ELSE Allocate]
  /\ ptr = [r \in Rank |-> Base[r]]
  /\ placed = <<>>
  /\ got = [r \in Rank |-> <<>>]

AllReached(s) == \A r \in Rank : stage[r] >= s
Move(r, s)    == stage' = [stage EXCEPT ![r] = s]

(* The root has the object.                                                *)
Offer(o) ==
  /\ stage[ROOT_RANK] = Load
  /\ obj' = o
  /\ Move(ROOT_RANK, Measure)
  /\ UNCHANGED <<upto, ptr, placed, got>>

MeasureField ==
  /\ stage[ROOT_RANK] = Measure
  /\ Len(upto) <= Len(obj)
  /\ upto' = Append(upto, upto[Len(upto)] + BytesSize(obj[Len(upto)]))
  /\ UNCHANGED <<obj, stage, ptr, placed, got>>

Measured ==
  /\ stage[ROOT_RANK] = Measure
  /\ Len(upto) > Len(obj)
  /\ Move(ROOT_RANK, Allocate)
  /\ UNCHANGED <<obj, upto, ptr, placed, got>>

WindowSize == upto[Len(upto)]

(* create_shared_mem and its barrier.                                      *)
Allocated(r) ==
  /\ stage[r] = Allocate
  /\ AllReached(Allocate)
  /\ Move(r, IF r = ROOT_RANK THEN Write ELSE Fence)
  /\ UNCHANGED <<obj, upto, ptr, placed, got>>

WriteField ==
  /\ stage[ROOT_RANK] = Write
  /\ Len(placed) < Len(obj)
  /\ LET f == obj[Len(placed) + 1]
         p == ptr[ROOT_RANK]
     IN  /\ placed' = Append(placed, Place(p, f, Base[ROOT_RANK]))
         /\ ptr' = [ptr EXCEPT ![ROOT_RANK] = PtrAfter(p, f)]
  /\ UNCHANGED <<obj, upto, stage, got>>

(* The root wrote through ptr_copy and reads from ptr.                     *)
Written ==
  /\ stage[ROOT_RANK] = Write
  /\ Len(placed) = Len(obj)
  /\ Move(ROOT_RANK, Fence)
  /\ ptr' = [ptr EXCEPT ![ROOT_RANK] = Base[ROOT_RANK]]
  /\ UNCHANGED <<obj, upto, placed, got>>

(* The barrier before new_from_memory.                                     *)
FencedOwnPace(r) ==
  /\ stage[r] = Fence
  /\ Move(r, Read)
  /\ UNCHANGED <<obj, upto, ptr, placed, got>>
Fenced(r) ==
  /\ stage[r] = Fence
  /\ AllReached(Fence)
  /\ Move(r, Read)
  /\ UNCHANGED <<obj, upto, ptr, placed, got>>

(* A fresh window holds zeros.                                             *)
WordAt(off) ==
  LET here == {k \in 1 .. Len(placed) : placed[k].word = off}
  IN  IF here = {} THEN 0 ELSE placed[CHOOSE k \in here : TRUE].len

ReadField(r) ==
  /\ stage[r] = Read
  /\ Len(got[r]) < Len(obj)
  /\ LET p == ptr[r]
         f == [obj[Len(got[r]) + 1] EXCEPT !.len = WordAt(p - Base[r])]
     IN  /\ got' = [got EXCEPT ![r] = Append(@, Place(p, f, Base[r]))]
         /\ ptr' = [ptr EXCEPT ![r] = PtrAfter(p, f)]
  /\ UNCHANGED <<obj, upto, stage, placed>>

ReadAll(r) ==
  /\ stage[r] = Read
  /\ Len(got[r]) = Len(obj)
  /\ Move(r, Use)
  /\ UNCHANGED <<obj, upto, ptr, placed, got>>

RankStep(r) == Allocated(r) \/ Fenced(r) \/ ReadField(r) \/ ReadAll(r)
RootStep    == MeasureField \/ Measured \/ WriteField \/ Written
SmStep      == RootStep \/ \E r \in Rank : RankStep(r)

Shared == AllReached(Use) /\ UNCHANGED smVars

SmNext == (\E o \in Objects : Offer(o)) \/ SmStep \/ Shared
SmSpec == SmInit /\ [][SmNext]_smVars

-----------------------------------------------------------------------------
PlaceType == [word : Int, data : Int, next : Int, len : Nat]

SharedTypeOK ==
  /\ obj \in Objects \cup {<<>>}
  /\ upto \in Seq(Nat) /\ Len(upto) \in 1 .. Len(obj) + 1
  /\ stage \in [Rank -> Load .. Use]
  /\ ptr \in [Rank -> Nat]
  /\ placed \in Seq(PlaceType) /\ Len(placed) <= Len(obj)
  /\ got \in [Rank -> Seq(PlaceType)]

(* Whatever the padding came to, each field the root writes lies in the    *)
(* window, behind the field before it.                                     *)
WritesInsideWindow ==
  \A k \in 1 .. Len(placed) :
    /\ 0 <= placed[k].word
    /\ placed[k].next <= WindowSize
    /\ k > 1 => placed[k].word = placed[k - 1].next

(* Every rank finds each field where the root put it, with the length the  *)
(* root wrote: no rank reads before the root is done, and none goes astray *)
(* because it maps the window at another address.                          *)
ReadersFindWhatWasWritten ==
  \A r \in Rank :
    /\ Len(got[r]) <= Len(placed)
    /\ \A k \in 1 .. Len(got[r]) : got[r][k] = placed[k]
=============================================================================
