--------------------------- MODULE SharedMemProofs ---------------------------
(***************************************************************************)
(* The window is large enough and every rank finds its way through it, for *)
(* every object, every alignment from 8 on and every address.              *)
(*                                                                         *)
(* CircuitLoading shares the circuit that way, so every rank has the       *)
(* root's; the witnesses and the challenges then come to the same places   *)
(* at every process.                                                       *)
(***************************************************************************)
EXTENDS CircuitLoading, TLAPS

-----------------------------------------------------------------------------
(* Arithmetic of alignments.                                               *)

(* What a field of an object is.                                           *)
GoodField(f) ==
  /\ f \in Field
  /\ f.align % 8 = 0
  /\ f.size % f.align = 0
  /\ \A r \in Rank : Base[r] % f.align = Base[ROOT_RANK] % f.align

(* Division with a remainder.                                              *)
LEMMA QuotientBounds ==
  ASSUME NEW x \in Nat, NEW al \in Nat \ {0}
  PROVE  /\ x \div al \in Nat
         /\ (x \div al) * al \in Nat
         /\ (x \div al) * al <= x
         /\ x < (x \div al) * al + al
         /\ x = (x \div al) * al + (x % al)
<1> DEFINE q == x \div al
<1>1. q \in Nat /\ al * q <= x /\ x < al * q + al /\ x = al * q + (x % al)
  OBVIOUS
<1>2. q * al = al * q /\ al * q \in Nat
  BY <1>1
<1> QED
  BY <1>1, <1>2

(* A multiple of a multiple of 8 is one,                                   *)
LEMMA MultiplesOfEight ==
  ASSUME NEW a \in Nat, NEW b \in Nat \ {0}, b % 8 = 0, a % b = 0
  PROVE  a % 8 = 0
<1> DEFINE q == a \div b
           c == b \div 8
<1>1. q \in Nat /\ a = q * b
  BY QuotientBounds
<1>2. c \in Nat /\ b = c * 8
  BY QuotientBounds
<1> HIDE DEF q, c
<1>3. a = (q * c) * 8 /\ q * c \in Nat
  BY <1>1, <1>2
<1> QED
  BY <1>3

(* and so is a product.                                                    *)
LEMMA ProductOfEights ==
  ASSUME NEW a \in Nat, NEW n \in Nat, a % 8 = 0
  PROVE  n * a \in Nat /\ (n * a) % 8 = 0
<1> DEFINE c == a \div 8
<1>1. c \in Nat /\ a = c * 8
  BY QuotientBounds
<1> HIDE DEF c
<1>2. n * a = (n * c) * 8 /\ n * c \in Nat
  BY <1>1
<1> QED
  BY <1>2

(* Aligning moves a pointer that is a multiple of 8 by at most align - 8.  *)
LEMMA AlignUpBounds ==
  ASSUME NEW x \in Nat, NEW al \in Nat \ {0}, x % 8 = 0, al % 8 = 0
  PROVE  /\ AlignUp(x, al) \in Nat
         /\ x <= AlignUp(x, al)
         /\ AlignUp(x, al) <= x + al - 8
         /\ AlignUp(x, al) % 8 = 0
<1> DEFINE q == (x + al - 1) \div al
<1>1. x + al - 1 \in Nat
  OBVIOUS
<1>2. q \in Nat /\ q * al \in Nat /\ q * al <= x + al - 1 /\ x + al - 1 < q * al + al
  BY <1>1, QuotientBounds
<1> HIDE DEF q
<1>3. (q * al) % 8 = 0
  BY <1>2, ProductOfEights
<1>4. AlignUp(x, al) = q * al
  BY DEF AlignUp, q
<1> QED
  BY <1>2, <1>3, <1>4

(* Aligning is the same at addresses that are equal up to the alignment.   *)
LEMMA AlignUpShift ==
  ASSUME NEW a \in Nat, NEW b \in Nat, NEW s \in Nat, NEW al \in Nat \ {0},
         a % al = b % al
  PROVE  AlignUp(a + s, al) - a = AlignUp(b + s, al) - b
<1> DEFINE m == a \div al
           n == b \div al
           c == a % al
           q == (c + s + al - 1) \div al
<1>1. c \in Nat /\ m \in Nat /\ n \in Nat /\ a = m * al + c /\ b = n * al + c
  BY QuotientBounds
<1>2. c + s + al - 1 \in Nat
  BY <1>1
<1>3. q \in Nat /\ q * al \in Nat /\ q * al <= c + s + al - 1 /\ c + s + al - 1 < q * al + al
  BY <1>2, QuotientBounds
<1> HIDE DEF m, n, c, q
<1>4. ASSUME NEW k \in Nat
      PROVE  (k * al + c + s + al - 1) \div al = k + q
  <2> DEFINE y == k * al + c + s + al - 1
             d == y \div al
  <2>1. k * al \in Nat /\ y \in Nat
    BY <1>1
  <2>2. d \in Nat /\ d * al \in Nat /\ d * al <= y /\ y < d * al + al
    BY <2>1, QuotientBounds
  <2>3. (k + q) * al = k * al + q * al
    BY <1>3
  <2>4. (k + q) * al <= y /\ y < (k + q) * al + al
    BY <1>1, <1>3, <2>1, <2>3
  <2> HIDE DEF y, d
  <2>5. (d + 1) * al = d * al + al /\ (k + q + 1) * al = (k + q) * al + al
    BY <2>2, <1>3
  <2>6. ASSUME NEW i \in Nat, NEW j \in Nat, i < j
        PROVE  (i + 1) * al <= j * al
    BY <2>6
  <2>7. d = k + q
    <3>1. ~(d < k + q)
      BY <2>1, <2>2, <2>4, <2>5, <2>6, <1>3
    <3>2. ~(k + q < d)
      BY <2>1, <2>2, <2>4, <2>5, <2>6, <1>3
    <3> QED
      BY <3>1, <3>2, <2>2, <1>3
  <2> QED
    BY <2>7 DEF d, y
<1>5. m * al \in Nat /\ n * al \in Nat
  BY <1>1
<1>6. /\ a + s + al - 1 = m * al + c + s + al - 1
      /\ b + s + al - 1 = n * al + c + s + al - 1
  BY <1>1, <1>5
<1>7. AlignUp(a + s, al) = (m + q) * al /\ AlignUp(b + s, al) = (n + q) * al
  BY <1>1, <1>4, <1>6 DEF AlignUp
<1>8. (m + q) * al = m * al + q * al /\ (n + q) * al = n * al + q * al
  BY <1>1, <1>3
<1> QED
  BY <1>1, <1>3, <1>5, <1>7, <1>8

-----------------------------------------------------------------------------
(* A field takes at most the bytes that bytes_size counts for it.          *)
LEMMA FieldSpan ==
  ASSUME NEW p \in Nat, NEW f, p % 8 = 0, GoodField(f)
  PROVE  /\ DataAt(p, f) \in Nat
         /\ PtrAfter(p, f) \in Nat
         /\ PtrAfter(p, f) % 8 = 0
         /\ p + 8 <= PtrAfter(p, f)
         /\ PtrAfter(p, f) <= p + BytesSize(f)
         /\ BytesSize(f) \in Nat
<1>1. /\ f.len \in Nat /\ f.size \in Nat /\ f.align \in Nat \ {0} /\ f.vec \in BOOLEAN
      /\ f.align % 8 = 0 /\ f.size % f.align = 0
  BY DEF GoodField, Field
<1>2. CASE ~f.vec
  BY <1>1, <1>2 DEF DataAt, PtrAfter, BytesSize
<1>3. CASE f.vec
  <2>1. f.size % 8 = 0
    BY <1>1, MultiplesOfEight
  <2>2. f.len * f.size \in Nat /\ (f.len * f.size) % 8 = 0
    BY <1>1, <2>1, ProductOfEights
  <2> DEFINE x == p + 8
             al == f.align
  <2>3. x \in Nat /\ x % 8 = 0 /\ al \in Nat \ {0} /\ al % 8 = 0
    BY <1>1
  <2> HIDE DEF x, al
  <2>4. /\ AlignUp(x, al) \in Nat
        /\ x <= AlignUp(x, al)
        /\ AlignUp(x, al) <= x + al - 8
        /\ AlignUp(x, al) % 8 = 0
    BY <2>3, AlignUpBounds
  <2>5. Larger(8, f.align) = f.align
    BY <1>1 DEF Larger
  <2> DEFINE d == AlignUp(x, al)
             n == f.len * f.size
  <2>6. DataAt(p, f) = d /\ PtrAfter(p, f) = d + n /\ BytesSize(f) = al + n
    BY <1>3, <2>5 DEF DataAt, PtrAfter, BytesSize, x, al
  <2>7. n \in Nat /\ n % 8 = 0
    BY <2>2
  <2> HIDE DEF d, n
  <2>8. d \in Nat /\ d % 8 = 0 /\ p + 8 <= d /\ d <= p + al
    BY <2>3, <2>4 DEF d, x
  <2>9. /\ d + n \in Nat /\ (d + n) % 8 = 0 /\ p + 8 <= d + n
        /\ d + n <= p + (al + n) /\ al + n \in Nat
    BY <2>3, <2>7, <2>8
  <2> QED
    BY <2>6, <2>8, <2>9
<1> QED
  BY <1>1, <1>2, <1>3

(* A place for a field that starts at s.                                   *)
GoodPlace(e, s, f) ==
  /\ e \in PlaceType
  /\ e.word = s
  /\ e.len = f.len
  /\ e.next \in Nat /\ e.next % 8 = 0
  /\ s + 8 <= e.next
  /\ e.next <= s + BytesSize(f)

(* Ranks that start a field at the same place of the window agree on all   *)
(* of it, whatever their addresses.                                        *)
LEMMA FieldShift ==
  ASSUME NEW s \in Nat, NEW r \in Rank, NEW f, s % 8 = 0, GoodField(f)
  PROVE  /\ GoodPlace(Place(Base[r] + s, f, Base[r]), s, f)
         /\ PtrAfter(Base[r] + s, f) = Base[r] + Place(Base[r] + s, f, Base[r]).next
         /\ Place(Base[r] + s, f, Base[r]) = Place(Base[ROOT_RANK] + s, f, Base[ROOT_RANK])
<1> DEFINE a == Base[r]
           b == Base[ROOT_RANK]
<1>1. ROOT_RANK \in Rank
  BY WorldAssumption DEF ROOT_RANK, Rank
<1>2. a \in Nat /\ b \in Nat /\ a % 8 = 0 /\ b % 8 = 0
  BY <1>1, SharedAssumption
<1>3. /\ f.len \in Nat /\ f.size \in Nat /\ f.align \in Nat \ {0} /\ f.vec \in BOOLEAN
      /\ a % f.align = b % f.align
  BY DEF GoodField, Field
<1> HIDE DEF a, b
<1>4. a + s \in Nat /\ (a + s) % 8 = 0 /\ b + s \in Nat
  BY <1>2
<1>5. /\ DataAt(a + s, f) \in Nat
      /\ PtrAfter(a + s, f) \in Nat
      /\ PtrAfter(a + s, f) % 8 = 0
      /\ a + s + 8 <= PtrAfter(a + s, f)
      /\ PtrAfter(a + s, f) <= a + s + BytesSize(f)
      /\ BytesSize(f) \in Nat
  BY <1>4, FieldSpan
<1>6. DataAt(b + s, f) \in Nat
  <2>1. (b + s) % 8 = 0
    BY <1>2
  <2> QED
    BY <1>4, <2>1, FieldSpan
<1> DEFINE da == DataAt(a + s, f)
           db == DataAt(b + s, f)
           pa == PtrAfter(a + s, f)
           pb == PtrAfter(b + s, f)
           bytes == BytesSize(f)
<1>7. da - a = db - b
  <2>1. CASE ~f.vec
    BY <1>2, <2>1 DEF DataAt
  <2>2. CASE f.vec
    <3> DEFINE t == s + 8
               al == f.align
    <3>1. t \in Nat /\ al \in Nat \ {0} /\ a % al = b % al
      BY <1>3
    <3>2. a + t = (a + s) + 8 /\ b + t = (b + s) + 8
      BY <1>2
    <3> HIDE DEF t, al
    <3>3. AlignUp(a + t, al) - a = AlignUp(b + t, al) - b
      <4>1. a \in Nat /\ b \in Nat /\ t \in Nat /\ al \in Nat \ {0} /\ a % al = b % al
        BY <1>2, <3>1
      <4>2. \A u, v, w \in Nat : \A z \in Nat \ {0} :
              u % z = v % z => AlignUp(u + w, z) - u = AlignUp(v + w, z) - v
        BY AlignUpShift
      <4> QED
        BY <4>1, <4>2
    <3>4. da = AlignUp(a + t, al) /\ db = AlignUp(b + t, al)
      BY <2>2, <3>2 DEF DataAt, al
    <3> QED
      BY <3>3, <3>4
  <2> QED
    BY <2>1, <2>2, <1>3
<1>8. pa - a = pb - b
  <2>1. CASE ~f.vec
    BY <1>2, <2>1 DEF PtrAfter
  <2>2. CASE f.vec
    <3> DEFINE n == f.len * f.size
    <3>1. n \in Nat
      BY <1>3
    <3>2. pa = da + n /\ pb = db + n
      BY <2>2 DEF PtrAfter
    <3> HIDE DEF n, da, db, pa, pb
    <3>3. da \in Nat /\ db \in Nat
      BY <1>5, <1>6 DEF da, db
    <3> QED
      BY <1>2, <1>7, <3>1, <3>2, <3>3
  <2> QED
    BY <2>1, <2>2, <1>3
<1>9. (a + s) - a = s /\ (b + s) - b = s
  BY <1>2
<1>10. /\ Place(a + s, f, a) = [word |-> s, data |-> da - a, next |-> pa - a, len |-> f.len]
       /\ Place(b + s, f, b) = [word |-> s, data |-> db - b, next |-> pb - b, len |-> f.len]
  BY <1>9 DEF Place
<1>11. da \in Nat /\ pa \in Nat /\ pa % 8 = 0 /\ a + s + 8 <= pa /\ pa <= a + s + bytes
       /\ bytes \in Nat
  BY <1>5
<1> HIDE DEF da, db, pa, pb, bytes
<1> DEFINE n == pa - a
<1>12. n \in Nat /\ n % 8 = 0 /\ s + 8 <= n /\ n <= s + bytes /\ pa = a + n
  BY <1>2, <1>11
<1>13. da - a \in Int /\ f.len \in Nat
  BY <1>2, <1>3, <1>11
<1> DEFINE d == da - a
<1>14. Place(a + s, f, a) = [word |-> s, data |-> d, next |-> n, len |-> f.len]
  BY <1>10
<1>15. Place(a + s, f, a) = Place(b + s, f, b)
  BY <1>7, <1>8, <1>10
<1>16. n \in Int /\ d \in Int
  BY <1>12, <1>13
<1> HIDE DEF n, d
<1>17. Place(a + s, f, a) \in PlaceType
  BY <1>13, <1>14, <1>16 DEF PlaceType
<1> QED
  BY <1>12, <1>14, <1>15, <1>17 DEF a, b, pa, bytes, GoodPlace

-----------------------------------------------------------------------------
(* The inductive invariant.                                                *)

(* Where field k starts, when the fields before it have been written.      *)
Start(k) == IF k = 1 THEN 0 ELSE placed[k - 1].next

ObjInv ==
  /\ obj \in Objects \cup {<<>>}
  /\ obj \in Seq(Field)
  /\ \A k \in 1 .. Len(obj) : GoodField(obj[k])

SizeInv ==
  /\ upto \in Seq(Nat)
  /\ Len(upto) \in 1 .. Len(obj) + 1
  /\ upto[1] = 0
  /\ \A k \in 1 .. Len(upto) - 1 : upto[k + 1] = upto[k] + BytesSize(obj[k])
  /\ \A j, k \in 1 .. Len(upto) : j <= k => upto[j] <= upto[k]

StageInv ==
  /\ stage \in [Rank -> Load .. Use]
  /\ stage[ROOT_RANK] = Load => obj = <<>> /\ upto = <<0>>
  /\ stage[ROOT_RANK] >= Allocate => Len(upto) = Len(obj) + 1
  /\ stage[ROOT_RANK] < Write => placed = <<>>
  /\ stage[ROOT_RANK] >= Fence => Len(placed) = Len(obj)
  /\ \A r \in Rank : stage[r] >= Read => stage[ROOT_RANK] >= Fence
  /\ \A r \in Rank : stage[r] < Read => got[r] = <<>>

PlacedInv ==
  /\ placed \in Seq(PlaceType)
  /\ Len(placed) <= Len(obj)
  /\ \A k \in 1 .. Len(placed) :
       /\ placed[k] = Place(Base[ROOT_RANK] + Start(k), obj[k], Base[ROOT_RANK])
       /\ placed[k].word = Start(k)
       /\ placed[k].len = obj[k].len
       /\ placed[k].next \in Nat /\ placed[k].next % 8 = 0
       /\ placed[k].word < placed[k].next
       /\ placed[k].next <= upto[k + 1]
  /\ \A j, k \in 1 .. Len(placed) : j < k => placed[j].next <= placed[k].word

PtrInv ==
  /\ ptr \in [Rank -> Nat]
  /\ stage[ROOT_RANK] = Write => ptr[ROOT_RANK] = Base[ROOT_RANK] + Start(Len(placed) + 1)
  /\ \A r \in Rank : stage[r] # Write => ptr[r] = Base[r] + Start(Len(got[r]) + 1)

GotInv ==
  /\ got \in [Rank -> Seq(PlaceType)]
  /\ ReadersFindWhatWasWritten

(* Only the root is ever in Write.                                         *)
OneWriter == \A r \in Rank : stage[r] = Write => r = ROOT_RANK

IInv == ObjInv /\ SizeInv /\ StageInv /\ PlacedInv /\ PtrInv /\ GotInv /\ OneWriter

-----------------------------------------------------------------------------
(* The root is a rank.                                                     *)
LEMMA RootIsARank == ROOT_RANK \in Rank /\ Rank \subseteq Nat
BY WorldAssumption DEF ROOT_RANK, Rank

(* Windows start at multiples of 8.                                        *)
LEMMA BaseIsAligned == \A r \in Rank : Base[r] \in Nat /\ Base[r] % 8 = 0
BY SharedAssumption

(* The fields of an object are good.                                       *)
LEMMA ObjectFieldsAreGood ==
  ASSUME NEW o \in Objects
  PROVE  o \in Seq(Field) /\ \A k \in 1 .. Len(o) : GoodField(o[k])
<1>1. o \in Seq(Field)
  BY SharedAssumption
<1>2. ASSUME NEW k \in 1 .. Len(o)
      PROVE  GoodField(o[k])
  <2>1. o[k] \in Field
    BY <1>1
  <2> QED
    BY <2>1, SharedAssumption DEF GoodField
<1> QED
  BY <1>1, <1>2

(* A field takes a number of bytes.                                        *)
LEMMA BytesSizeIsNat ==
  ASSUME NEW f, GoodField(f)
  PROVE  BytesSize(f) \in Nat
<1>1. 0 \in Nat /\ 0 % 8 = 0
  OBVIOUS
<1> QED
  BY <1>1, FieldSpan

(* The start of a field, in a state of the invariant.                      *)
LEMMA StartIsAligned ==
  ASSUME IInv, NEW k \in 1 .. Len(placed) + 1
  PROVE  Start(k) \in Nat /\ Start(k) % 8 = 0
<1>1. CASE k = 1
  BY <1>1 DEF Start
<1>2. CASE k # 1
  <2>1. k - 1 \in 1 .. Len(placed)
    BY <1>2 DEF IInv, PlacedInv
  <2> QED
    BY <1>2, <2>1 DEF IInv, PlacedInv, Start
<1> QED
  BY <1>1, <1>2

(* A reader finds the length of the field it has come to.                  *)
LEMMA WordOfField ==
  ASSUME IInv, NEW k \in 1 .. Len(placed)
  PROVE  WordAt(Start(k)) = obj[k].len
<1> DEFINE here == {j \in 1 .. Len(placed) : placed[j].word = Start(k)}
<1>1. placed[k].word = Start(k) /\ placed[k].len = obj[k].len
  BY DEF IInv, PlacedInv
<1>2. ASSUME NEW j \in here
      PROVE  j = k
  <2>1. j \in 1 .. Len(placed) /\ placed[j].word = placed[k].word
    BY <1>1
  <2>2. Len(placed) \in Nat
    BY DEF IInv, PlacedInv
  <2>3. /\ placed[j].word \in Int /\ placed[j].next \in Int
        /\ placed[k].word \in Int /\ placed[k].next \in Int
        /\ placed[j].word < placed[j].next /\ placed[k].word < placed[k].next
    <3>1. placed[j] \in PlaceType /\ placed[k] \in PlaceType
      BY <2>1 DEF IInv, PlacedInv
    <3>2. placed[j].word < placed[j].next /\ placed[k].word < placed[k].next
      BY <2>1 DEF IInv, PlacedInv
    <3> QED
      BY <3>1, <3>2 DEF PlaceType
  <2>4. /\ j < k => placed[j].next <= placed[k].word
        /\ k < j => placed[k].next <= placed[j].word
    BY <2>1 DEF IInv, PlacedInv
  <2> QED
    BY <2>1, <2>2, <2>3, <2>4
<1>3. k \in here
  BY <1>1
<1>4. here = {k}
  BY <1>2, <1>3
<1>5. here # {} /\ (CHOOSE j \in here : TRUE) = k
  BY <1>4
<1> QED
  BY <1>1, <1>5 DEF WordAt

-----------------------------------------------------------------------------
(* The invariant holds at the start.                                       *)
LEMMA InitInv == SmInit => IInv
<1> SUFFICES ASSUME SmInit PROVE IInv
  OBVIOUS
<1> USE RootIsARank
<1>1. ObjInv
  BY DEF SmInit, ObjInv
<1>2. SizeInv
  BY DEF SmInit, SizeInv
<1>3. StageInv
  BY DEF SmInit, StageInv, Load, Measure, Allocate, Write, Fence, Read, Use
<1>4. PlacedInv
  BY DEF SmInit, PlacedInv
<1>5. PtrInv
  <2>1. ptr \in [Rank -> Nat]
    BY BaseIsAligned DEF SmInit
  <2>2. stage[ROOT_RANK] # Write
    BY DEF SmInit, Load, Write
  <2>3. \A r \in Rank : ptr[r] = Base[r] + Start(Len(got[r]) + 1)
    BY BaseIsAligned DEF SmInit, Start
  <2> QED
    BY <2>1, <2>2, <2>3 DEF PtrInv
<1>6. GotInv
  BY DEF SmInit, GotInv, ReadersFindWhatWasWritten
<1>7. OneWriter
  BY DEF SmInit, OneWriter, Load, Allocate, Write
<1> QED
  BY <1>1, <1>2, <1>3, <1>4, <1>5, <1>6, <1>7 DEF IInv

(* The object is there.                                                    *)
LEMMA OfferInv ==
  ASSUME IInv, NEW o \in Objects, Offer(o)
  PROVE  IInv'
<1> USE RootIsARank
<1>1. stage[ROOT_RANK] = 0 /\ upto = <<0>> /\ placed = <<>> /\ o \in Seq(Field)
  BY ObjectFieldsAreGood DEF IInv, StageInv, Offer, Load, Write
<1>2. stage' = [stage EXCEPT ![ROOT_RANK] = 1] /\ stage \in [Rank -> 0 .. 6]
  BY DEF IInv, StageInv, Offer, Move, Load, Measure, Use
<1>3. ObjInv'
  BY ObjectFieldsAreGood DEF ObjInv, Offer
<1>4. SizeInv'
  BY <1>1, ObjectFieldsAreGood DEF SizeInv, Offer
<1>5. StageInv'
  BY <1>1, <1>2 DEF IInv, StageInv, Offer, Load, Measure, Allocate, Write, Fence, Read, Use
<1>6. PlacedInv'
  BY <1>1 DEF PlacedInv, Offer
<1>7. PtrInv'
  <2>1. \A r \in Rank : stage'[r] # Write => stage[r] # Write
    BY <1>1, <1>2 DEF Write
  <2> QED
    BY <1>1, <1>2, <2>1 DEF IInv, PtrInv, Offer, Start, Write
<1>8. GotInv'
  BY DEF IInv, GotInv, ReadersFindWhatWasWritten, Offer
<1>9. OneWriter'
  BY <1>1, <1>2 DEF IInv, OneWriter, Write
<1> QED
  BY <1>3, <1>4, <1>5, <1>6, <1>7, <1>8, <1>9 DEF IInv

(* One field is measured.                                                  *)
LEMMA MeasureFieldInv ==
  ASSUME IInv, MeasureField
  PROVE  IInv'
<1> USE RootIsARank
<1>1. stage[ROOT_RANK] = 1 /\ placed = <<>>
  BY DEF IInv, StageInv, MeasureField, Measure, Write
<1> DEFINE n == Len(upto)
           b == BytesSize(obj[n])
<1>2. n \in 1 .. Len(obj) /\ Len(obj) \in Nat
  BY DEF IInv, SizeInv, ObjInv, MeasureField
<1>3. b \in Nat
  BY <1>2, BytesSizeIsNat DEF IInv, ObjInv
<1>4. upto' = Append(upto, upto[n] + b) /\ upto \in Seq(Nat)
  BY DEF IInv, SizeInv, MeasureField
<1> HIDE DEF b
<1>5. upto[n] \in Nat
  BY <1>2, <1>4
<1>6. /\ upto' \in Seq(Nat) /\ Len(upto') = n + 1
      /\ \A k \in 1 .. n : upto'[k] = upto[k]
      /\ upto'[n + 1] = upto[n] + b
  BY <1>3, <1>4, <1>5
<1>7. SizeInv'
  <2>1. Len(upto') \in 1 .. Len(obj') + 1
    BY <1>2, <1>6 DEF MeasureField
  <2>2. upto'[1] = 0
    BY <1>2, <1>6 DEF IInv, SizeInv
  <2>3. ASSUME NEW k \in 1 .. Len(upto') - 1
        PROVE  upto'[k + 1] = upto'[k] + BytesSize(obj'[k])
    <3>1. CASE k = n
      BY <1>2, <1>6, <3>1 DEF MeasureField, b
    <3>2. CASE k # n
      <4>1. k \in 1 .. n - 1 /\ k \in 1 .. n /\ k + 1 \in 1 .. n
        BY <1>2, <1>6, <2>3, <3>2
      <4> QED
        BY <1>6, <4>1 DEF IInv, SizeInv, MeasureField
    <3> QED
      BY <3>1, <3>2
  <2>4. ASSUME NEW j \in 1 .. Len(upto'), NEW k \in 1 .. Len(upto'), j <= k
        PROVE  upto'[j] <= upto'[k]
    <3>1. CASE k = n + 1 /\ j = n + 1
      BY <1>3, <1>5, <1>6, <3>1
    <3>2. CASE k = n + 1 /\ j # n + 1
      <4>1. j \in 1 .. n /\ n \in 1 .. n /\ j <= n
        BY <1>2, <1>6, <2>4, <3>2
      <4>2. upto[j] <= upto[n] /\ upto[j] \in Nat
        BY <4>1, <1>4 DEF IInv, SizeInv
      <4> QED
        BY <1>3, <1>5, <1>6, <3>2, <4>1, <4>2
    <3>3. CASE k # n + 1
      <4>1. j \in 1 .. n /\ k \in 1 .. n
        BY <1>2, <1>6, <2>4, <3>3
      <4> QED
        BY <1>6, <2>4, <4>1 DEF IInv, SizeInv
    <3> QED
      BY <3>1, <3>2, <3>3
  <2> QED
    BY <1>6, <2>1, <2>2, <2>3, <2>4 DEF SizeInv
<1>8. ObjInv'
  BY DEF IInv, ObjInv, MeasureField
<1>9. StageInv'
  BY <1>1 DEF IInv, StageInv, MeasureField, Load, Measure, Allocate, Write, Fence, Read, Use
<1>10. PlacedInv'
  BY <1>1, <1>2 DEF PlacedInv, MeasureField
<1>11. PtrInv'
  BY DEF IInv, PtrInv, MeasureField, Start
<1>12. GotInv'
  BY DEF IInv, GotInv, ReadersFindWhatWasWritten, MeasureField
<1>13. OneWriter'
  BY DEF IInv, OneWriter, MeasureField
<1> QED
  BY <1>7, <1>8, <1>9, <1>10, <1>11, <1>12, <1>13 DEF IInv

(* All are.                                                                *)
LEMMA MeasuredInv ==
  ASSUME IInv, Measured
  PROVE  IInv'
<1> USE RootIsARank
<1>1. stage[ROOT_RANK] = 1 /\ placed = <<>>
  BY DEF IInv, StageInv, Measured, Measure, Write
<1>2. stage' = [stage EXCEPT ![ROOT_RANK] = 2] /\ stage \in [Rank -> 0 .. 6]
  BY DEF IInv, StageInv, Measured, Move, Load, Allocate, Use
<1>3. ObjInv' /\ SizeInv' /\ PlacedInv' /\ GotInv'
  BY DEF IInv, ObjInv, SizeInv, PlacedInv, GotInv, ReadersFindWhatWasWritten, Start, Measured
<1>4. Len(upto) = Len(obj) + 1
  BY DEF IInv, SizeInv, ObjInv, Measured
<1>5. StageInv'
  BY <1>1, <1>2, <1>4 DEF IInv, StageInv, Measured, Load, Measure, Allocate, Write, Fence, Read, Use
<1>6. PtrInv'
  <2>1. \A r \in Rank : stage'[r] # Write => stage[r] # Write
    BY <1>1, <1>2 DEF Write
  <2> QED
    BY <1>1, <1>2, <2>1 DEF IInv, PtrInv, Measured, Start, Write
<1>7. OneWriter'
  BY <1>1, <1>2 DEF IInv, OneWriter, Write
<1> QED
  BY <1>3, <1>5, <1>6, <1>7 DEF IInv

(* A window is mapped.                                                     *)
LEMMA AllocatedInv ==
  ASSUME IInv, NEW r \in Rank, Allocated(r)
  PROVE  IInv'
<1> USE RootIsARank
<1> DEFINE s == IF r = ROOT_RANK THEN 3 ELSE 4
<1>1. stage[r] = 2 /\ stage[ROOT_RANK] >= 2
  BY DEF Allocated, AllReached, Allocate
<1>2. stage' = [stage EXCEPT ![r] = s] /\ stage \in [Rank -> 0 .. 6]
  BY DEF IInv, StageInv, Allocated, Move, Load, Write, Fence, Use
<1>3. ObjInv' /\ SizeInv' /\ PlacedInv' /\ GotInv'
  BY DEF IInv, ObjInv, SizeInv, PlacedInv, GotInv, ReadersFindWhatWasWritten, Start, Allocated
<1>4. StageInv'
  BY <1>1, <1>2 DEF IInv, StageInv, Allocated, Load, Measure, Allocate, Write, Fence, Read, Use
<1>5. PtrInv'
  <2>1. ASSUME NEW q \in Rank, stage'[q] # 3
        PROVE  stage[q] # 3
    BY <1>1, <1>2, <2>1
  <2>2. ASSUME stage'[ROOT_RANK] = 3
        PROVE  ptr[ROOT_RANK] = Base[ROOT_RANK] + Start(Len(placed) + 1)
    <3>1. CASE r = ROOT_RANK
      <4>1. placed = <<>> /\ got[r] = <<>>
        BY <1>1, <3>1 DEF IInv, StageInv, Write, Read
      <4> QED
        BY <1>1, <3>1, <4>1 DEF IInv, PtrInv, Write
    <3>2. CASE r # ROOT_RANK
      BY <1>2, <2>2, <3>2 DEF IInv, PtrInv, Write
    <3> QED
      BY <3>1, <3>2
  <2> QED
    BY <2>1, <2>2 DEF IInv, PtrInv, Allocated, Start, Write
<1>6. OneWriter'
  BY <1>1, <1>2 DEF IInv, OneWriter, Write
<1> QED
  BY <1>3, <1>4, <1>5, <1>6 DEF IInv

(* A field is written, where the ones before it end.                       *)
LEMMA WriteFieldInv ==
  ASSUME IInv, WriteField
  PROVE  IInv'
<1> USE RootIsARank
<1>0. PICK n \in Nat : n = Len(placed)
  BY DEF IInv, PlacedInv
<1> DEFINE f == obj[n + 1]
           s == Start(n + 1)
           p == Base[ROOT_RANK] + s
           e == Place(p, f, Base[ROOT_RANK])
<1>1. stage[ROOT_RANK] = 3 /\ n < Len(obj) /\ n \in Nat /\ Len(obj) \in Nat
  BY <1>0 DEF IInv, ObjInv, PlacedInv, WriteField, Write
<1>2. n + 1 \in 1 .. Len(obj) /\ n + 1 \in 1 .. Len(placed) + 1 /\ GoodField(f)
  BY <1>0, <1>1 DEF IInv, ObjInv
<1>3. s \in Nat /\ s % 8 = 0
  BY <1>2, StartIsAligned
<1>4. ptr[ROOT_RANK] = p
  BY <1>0, <1>1 DEF IInv, PtrInv, Write
<1>5. placed' = Append(placed, e) /\ ptr' = [ptr EXCEPT ![ROOT_RANK] = PtrAfter(p, f)]
  BY <1>0, <1>4 DEF WriteField
<1> HIDE DEF f, s
<1>6. GoodPlace(e, s, f) /\ PtrAfter(p, f) = Base[ROOT_RANK] + e.next
  BY <1>2, <1>3, FieldShift
<1> HIDE DEF e, p
<1>7. /\ placed' \in Seq(PlaceType) /\ Len(placed') = n + 1
      /\ \A k \in 1 .. n : placed'[k] = placed[k]
      /\ placed'[n + 1] = e
  BY <1>0, <1>5, <1>6 DEF IInv, PlacedInv, GoodPlace
<1>8. \A k \in 1 .. n + 1 : Start(k)' = Start(k)
  <2>1. ASSUME NEW k \in 1 .. n + 1
        PROVE  Start(k)' = Start(k)
    <3>1. CASE k = 1
      BY <3>1 DEF Start
    <3>2. CASE k # 1
      <4>1. k - 1 \in 1 .. n
        BY <1>1, <3>2
      <4> QED
        BY <1>7, <3>2, <4>1 DEF Start
    <3> QED
      BY <3>1, <3>2
  <2> QED
    BY <2>1
<1>9. Start(n + 2)' = e.next
  <2>1. n + 2 # 1 /\ n + 2 - 1 = n + 1
    OBVIOUS
  <2> QED
    BY <1>7, <2>1 DEF Start
<1>10. Len(upto) = Len(obj) + 1 /\ upto \in Seq(Nat)
  BY <1>1 DEF IInv, StageInv, SizeInv, Allocate
<1>11. s <= upto[n + 1]
  <2>1. CASE n = 0
    <3>1. s = 0 /\ upto[1] \in Nat
      BY <1>1, <1>10, <2>1 DEF s, Start
    <3> QED
      BY <2>1, <3>1
  <2>2. CASE n # 0
    <3>1. n \in 1 .. n /\ n + 1 # 1 /\ (n + 1) - 1 = n
      BY <1>1, <2>2
    <3>2. s = placed[n].next
      BY <3>1 DEF s, Start
    <3> QED
      BY <1>0, <3>1, <3>2 DEF IInv, PlacedInv
  <2> QED
    BY <2>1, <2>2
<1>12. e.next <= upto[n + 2]
  <2>1. n + 1 \in 1 .. Len(upto) - 1 /\ (n + 1) + 1 = n + 2
    BY <1>1, <1>10
  <2>2. upto[n + 2] = upto[n + 1] + BytesSize(f)
    BY <2>1 DEF IInv, SizeInv, f
  <2>3. upto[n + 1] \in Nat /\ BytesSize(f) \in Nat
    BY <1>2, <1>10, <2>1, BytesSizeIsNat
  <2> QED
    BY <1>3, <1>6, <1>11, <2>2, <2>3 DEF GoodPlace
<1>13. PlacedInv'
  <2>1. ASSUME NEW k \in 1 .. Len(placed')
        PROVE  /\ placed'[k] = Place(Base[ROOT_RANK] + Start(k)', obj'[k], Base[ROOT_RANK])
               /\ placed'[k].word = Start(k)'
               /\ placed'[k].len = obj'[k].len
               /\ placed'[k].next \in Nat /\ placed'[k].next % 8 = 0
               /\ placed'[k].word < placed'[k].next
               /\ placed'[k].next <= upto'[k + 1]
    <3>1. CASE k \in 1 .. n
      <4>1. placed'[k] = placed[k] /\ Start(k)' = Start(k) /\ obj' = obj /\ upto' = upto
        BY <1>1, <1>7, <1>8, <3>1 DEF WriteField
      <4> QED
        BY <1>0, <3>1, <4>1 DEF IInv, PlacedInv
    <3>2. CASE k = n + 1
      <4>1. placed'[k] = e /\ Start(k)' = s /\ obj' = obj /\ upto' = upto
        BY <1>1, <1>7, <1>8, <3>2 DEF WriteField, s
      <4>2. e = Place(Base[ROOT_RANK] + s, obj[k], Base[ROOT_RANK]) /\ obj[k] = f
        BY <3>2 DEF e, p, f
      <4>3. k + 1 = n + 2 /\ s < e.next
        BY <1>1, <1>3, <1>6, <3>2, SMTT(60) DEF GoodPlace
      <4> QED
        BY <1>6, <1>12, <4>1, <4>2, <4>3 DEF GoodPlace
    <3> QED
      BY <1>1, <1>7, <3>1, <3>2
  <2>2. ASSUME NEW j \in 1 .. Len(placed'), NEW k \in 1 .. Len(placed'), j < k
        PROVE  placed'[j].next <= placed'[k].word
    <3>1. j \in 1 .. n
      BY <1>1, <1>7, <2>2
    <3>2. CASE k \in 1 .. n
      BY <1>0, <1>7, <2>2, <3>1, <3>2 DEF IInv, PlacedInv
    <3>3. CASE k = n + 1
      <4>1. n \in 1 .. n /\ n + 1 # 1 /\ (n + 1) - 1 = n
        BY <1>1, <3>1
      <4>2. placed'[k].word = placed[n].next
        BY <1>6, <1>7, <3>3, <4>1 DEF s, Start, GoodPlace
      <4>3. CASE j = n
        BY <1>0, <1>7, <3>1, <4>2, <4>3 DEF IInv, PlacedInv
      <4>4. CASE j # n
        <5>1. j < n
          BY <1>1, <3>1, <4>4
        <5>2. placed[j].next <= placed[n].word /\ placed[n].word < placed[n].next
          BY <1>0, <3>1, <4>1, <5>1 DEF IInv, PlacedInv
        <5>3. placed[n] \in PlaceType /\ placed[j] \in PlaceType
          BY <1>0, <3>1, <4>1 DEF IInv, PlacedInv
        <5>4. placed[n].word \in Int /\ placed[n].next \in Int /\ placed[j].next \in Int
          BY <5>3 DEF PlaceType
        <5>5. placed[j].next <= placed[n].next
          BY <5>2, <5>4
        <5> QED
          BY <1>7, <3>1, <4>2, <5>5
      <4> QED
        BY <4>3, <4>4
    <3> QED
      BY <1>1, <1>7, <3>2, <3>3
  <2>3. Len(placed') <= Len(obj')
    BY <1>1, <1>7 DEF WriteField
  <2> QED
    BY <1>7, <2>1, <2>2, <2>3 DEF PlacedInv
<1>14. \A r \in Rank : got[r] = <<>>
  BY <1>1 DEF IInv, StageInv, Fence, Read
<1>15. PtrInv'
  <2>1. ptr' \in [Rank -> Nat]
    BY <1>5, <1>6, BaseIsAligned DEF IInv, PtrInv, GoodPlace
  <2>2. ptr'[ROOT_RANK] = Base[ROOT_RANK] + Start(Len(placed) + 1)'
    <3>1. Len(placed') + 1 = n + 2
      BY <1>1, <1>7
    <3> QED
      BY <1>5, <1>6, <1>9, <3>1 DEF IInv, PtrInv
  <2>3. ASSUME NEW r \in Rank, stage'[r] # Write
        PROVE  ptr'[r] = Base[r] + Start(Len(got[r]) + 1)'
    <3>1. r # ROOT_RANK /\ stage[r] # Write
      BY <1>1, <2>3 DEF WriteField, Write
    <3>2. Len(got[r]) + 1 = 1 /\ got' = got
      BY <1>14 DEF WriteField
    <3> QED
      BY <1>5, <3>1, <3>2 DEF IInv, PtrInv, Start
  <2> QED
    BY <2>1, <2>2, <2>3 DEF PtrInv
<1>16. GotInv'
  <2>1. got' = got /\ got \in [Rank -> Seq(PlaceType)]
    BY DEF IInv, GotInv, WriteField
  <2>2. ReadersFindWhatWasWritten'
    BY <1>1, <1>7, <1>14, <2>1 DEF ReadersFindWhatWasWritten
  <2> QED
    BY <2>1, <2>2 DEF GotInv
<1>17. ObjInv' /\ SizeInv' /\ OneWriter'
  BY DEF IInv, ObjInv, SizeInv, OneWriter, WriteField
<1>18. StageInv'
  BY <1>1 DEF IInv, StageInv, WriteField, Load, Measure, Allocate, Write, Fence, Read, Use
<1> QED
  BY <1>13, <1>15, <1>16, <1>17, <1>18 DEF IInv

(* All are.                                                                *)
LEMMA WrittenInv ==
  ASSUME IInv, Written
  PROVE  IInv'
<1> USE RootIsARank
<1>1. stage[ROOT_RANK] = 3 /\ Len(placed) = Len(obj)
  BY DEF Written, Write
<1>2. stage' = [stage EXCEPT ![ROOT_RANK] = 4] /\ stage \in [Rank -> 0 .. 6]
  BY DEF IInv, StageInv, Written, Move, Load, Fence, Use
<1>3. ObjInv' /\ SizeInv' /\ PlacedInv' /\ GotInv'
  BY DEF IInv, ObjInv, SizeInv, PlacedInv, GotInv, ReadersFindWhatWasWritten, Start, Written
<1>4. StageInv'
  BY <1>1, <1>2 DEF IInv, StageInv, Written, Load, Measure, Allocate, Write, Fence, Read, Use
<1>5. PtrInv'
  <2>1. ptr' = [ptr EXCEPT ![ROOT_RANK] = Base[ROOT_RANK]] /\ ptr \in [Rank -> Nat]
    BY DEF IInv, PtrInv, Written
  <2>2. stage'[ROOT_RANK] # Write
    BY <1>2 DEF Write
  <2>3. ASSUME NEW r \in Rank, stage'[r] # Write
        PROVE  ptr'[r] = Base[r] + Start(Len(got[r]) + 1)'
    <3>1. got' = got /\ placed' = placed
      BY DEF Written
    <3>2. CASE r = ROOT_RANK
      <4>1. got[r] = <<>>
        BY <1>1, <3>2 DEF IInv, StageInv, Read
      <4>2. Len(got[r]) + 1 = 1
        BY <4>1
      <4> QED
        BY <2>1, <3>1, <3>2, <4>2, BaseIsAligned DEF Start
    <3>3. CASE r # ROOT_RANK
      <4>1. stage[r] # Write /\ ptr'[r] = ptr[r]
        BY <1>2, <2>1, <2>3, <3>3
      <4> QED
        BY <3>1, <4>1 DEF IInv, PtrInv, Start
    <3> QED
      BY <3>2, <3>3
  <2> QED
    BY <2>1, <2>2, <2>3, BaseIsAligned DEF PtrInv
<1>6. OneWriter'
  BY <1>1, <1>2 DEF IInv, OneWriter, Write
<1> QED
  BY <1>3, <1>4, <1>5, <1>6 DEF IInv

(* A rank passes the barrier.                                              *)
LEMMA FencedInv ==
  ASSUME IInv, NEW r \in Rank, Fenced(r)
  PROVE  IInv'
<1> USE RootIsARank
<1>1. stage[r] = 4 /\ stage[ROOT_RANK] >= 4
  BY DEF Fenced, AllReached, Fence
<1>2. stage' = [stage EXCEPT ![r] = 5] /\ stage \in [Rank -> 0 .. 6]
  BY DEF IInv, StageInv, Fenced, Move, Load, Read, Use
<1>3. ObjInv' /\ SizeInv' /\ PlacedInv' /\ GotInv'
  BY DEF IInv, ObjInv, SizeInv, PlacedInv, GotInv, ReadersFindWhatWasWritten, Start, Fenced
<1>4. StageInv'
  BY <1>1, <1>2 DEF IInv, StageInv, Fenced, Load, Measure, Allocate, Write, Fence, Read, Use
<1>5. PtrInv'
  <2>1. \A q \in Rank : stage'[q] # Write => stage[q] # Write
    BY <1>1, <1>2 DEF Write
  <2>2. stage'[ROOT_RANK] # Write
    BY <1>1, <1>2 DEF Write
  <2> QED
    BY <2>1, <2>2 DEF IInv, PtrInv, Fenced, Start
<1>6. OneWriter'
  BY <1>1, <1>2 DEF IInv, OneWriter, Write
<1> QED
  BY <1>3, <1>4, <1>5, <1>6 DEF IInv

(* A rank has read all fields.                                             *)
LEMMA ReadAllInv ==
  ASSUME IInv, NEW r \in Rank, ReadAll(r)
  PROVE  IInv'
<1> USE RootIsARank
<1>1. stage[r] = 5 /\ stage[ROOT_RANK] >= 4
  BY DEF IInv, StageInv, ReadAll, Read, Fence
<1>2. stage' = [stage EXCEPT ![r] = 6] /\ stage \in [Rank -> 0 .. 6]
  BY DEF IInv, StageInv, ReadAll, Move, Load, Use
<1>3. ObjInv' /\ SizeInv' /\ PlacedInv' /\ GotInv'
  BY DEF IInv, ObjInv, SizeInv, PlacedInv, GotInv, ReadersFindWhatWasWritten, Start, ReadAll
<1>4. StageInv'
  BY <1>1, <1>2 DEF IInv, StageInv, ReadAll, Load, Measure, Allocate, Write, Fence, Read, Use
<1>5. PtrInv'
  <2>1. \A q \in Rank : stage'[q] # Write => stage[q] # Write
    BY <1>1, <1>2 DEF Write
  <2>2. stage'[ROOT_RANK] # Write
    BY <1>1, <1>2 DEF Write
  <2> QED
    BY <2>1, <2>2 DEF IInv, PtrInv, ReadAll, Start
<1>6. OneWriter'
  BY <1>1, <1>2 DEF IInv, OneWriter, Write
<1> QED
  BY <1>3, <1>4, <1>5, <1>6 DEF IInv

(* A rank reads a field, where the root wrote it.                          *)
LEMMA ReadFieldInv ==
  ASSUME IInv, NEW r \in Rank, ReadField(r)
  PROVE  IInv'
<1> USE RootIsARank
<1>0. PICK n \in Nat : n = Len(got[r])
  BY DEF IInv, GotInv
<1>1. stage[r] = 5 /\ Len(placed) = Len(obj) /\ n < Len(obj) /\ Len(obj) \in Nat
  BY <1>0 DEF IInv, StageInv, ObjInv, ReadField, Read, Fence
<1>2. n + 1 \in 1 .. Len(obj) /\ n + 1 \in 1 .. Len(placed) /\ n + 1 \in 1 .. Len(placed) + 1
  BY <1>1
<1> DEFINE f == obj[n + 1]
           s == Start(n + 1)
           e == Place(Base[r] + s, f, Base[r])
<1>3. GoodField(f) /\ f \in Field
  BY <1>2 DEF IInv, ObjInv, GoodField
<1>4. s \in Nat /\ s % 8 = 0
  BY <1>2, StartIsAligned
<1>5. ptr[r] = Base[r] + s
  BY <1>0, <1>1 DEF IInv, PtrInv, Write
<1>6. WordAt(s) = f.len
  BY <1>2, WordOfField
<1>7. [f EXCEPT !.len = WordAt(ptr[r] - Base[r])] = f
  <2>1. ptr[r] - Base[r] = s
    BY <1>4, <1>5, BaseIsAligned
  <2> QED
    BY <1>3, <1>6, <2>1 DEF Field
<1>8. got' = [got EXCEPT ![r] = Append(@, e)] /\ ptr' = [ptr EXCEPT ![r] = PtrAfter(Base[r] + s, f)]
  BY <1>0, <1>5, <1>7 DEF ReadField
<1> HIDE DEF f, s
<1>9. /\ GoodPlace(e, s, f) /\ PtrAfter(Base[r] + s, f) = Base[r] + e.next
      /\ e = Place(Base[ROOT_RANK] + s, f, Base[ROOT_RANK])
  BY <1>3, <1>4, FieldShift
<1>10. e = placed[n + 1]
  BY <1>2, <1>9 DEF IInv, PlacedInv, f, s
<1> HIDE DEF e
<1>11. got[r] \in Seq(PlaceType) /\ got \in [Rank -> Seq(PlaceType)] /\ e \in PlaceType
  BY <1>9 DEF IInv, GotInv, GoodPlace
<1>12. /\ got'[r] \in Seq(PlaceType) /\ Len(got'[r]) = n + 1
       /\ \A k \in 1 .. n : got'[r][k] = got[r][k]
       /\ got'[r][n + 1] = e
       /\ \A q \in Rank \ {r} : got'[q] = got[q]
  BY <1>0, <1>8, <1>11
<1>13. GotInv'
  <2>1. got' \in [Rank -> Seq(PlaceType)]
    BY <1>8, <1>11, <1>12
  <2>2. ASSUME NEW q \in Rank
        PROVE  /\ Len(got'[q]) <= Len(placed')
               /\ \A k \in 1 .. Len(got'[q]) : got'[q][k] = placed'[k]
    <3>1. placed' = placed
      BY DEF ReadField
    <3>2. CASE q # r
      BY <1>12, <3>1, <3>2 DEF IInv, GotInv, ReadersFindWhatWasWritten
    <3>3. CASE q = r
      <4>1. ASSUME NEW k \in 1 .. n + 1
            PROVE  got'[r][k] = placed[k]
        <5>1. CASE k = n + 1
          BY <1>10, <1>12, <5>1
        <5>2. CASE k # n + 1
          <6>1. k \in 1 .. n
            BY <5>2
          <6> QED
            BY <1>0, <1>12, <6>1 DEF IInv, GotInv, ReadersFindWhatWasWritten
        <5> QED
          BY <5>1, <5>2
      <4> QED
        BY <1>1, <1>12, <3>1, <3>3, <4>1
    <3> QED
      BY <3>2, <3>3
  <2> QED
    BY <2>1, <2>2 DEF GotInv, ReadersFindWhatWasWritten
<1>14. ObjInv' /\ SizeInv' /\ PlacedInv' /\ OneWriter'
  BY DEF IInv, ObjInv, SizeInv, PlacedInv, Start, OneWriter, ReadField
<1>15. StageInv'
  BY <1>1, <1>12 DEF IInv, StageInv, ReadField, Load, Measure, Allocate, Write, Fence, Read, Use
<1>16. PtrInv'
  <2>1. ptr' \in [Rank -> Nat]
    BY <1>8, <1>9, BaseIsAligned, SMTT(60) DEF IInv, PtrInv, GoodPlace
  <2>2. stage' = stage /\ placed' = placed /\ stage[ROOT_RANK] # Write
    BY <1>1 DEF IInv, StageInv, ReadField, Read, Fence, Write
  <2>3. ASSUME NEW q \in Rank, stage'[q] # Write
        PROVE  ptr'[q] = Base[q] + Start(Len(got[q]) + 1)'
    <3>1. CASE q # r
      BY <1>8, <1>12, <2>2, <2>3, <3>1 DEF IInv, PtrInv, Start
    <3>2. CASE q = r
      <4>1. (n + 1) + 1 # 1 /\ (n + 1) + 1 - 1 = n + 1
        OBVIOUS
      <4>2. ptr'[r] = Base[r] + placed[n + 1].next
        BY <1>8, <1>9, <1>10 DEF IInv, PtrInv
      <4> QED
        BY <1>12, <2>2, <3>2, <4>1, <4>2 DEF Start
    <3> QED
      BY <3>1, <3>2
  <2> QED
    BY <2>1, <2>2, <2>3 DEF PtrInv
<1> QED
  BY <1>13, <1>14, <1>15, <1>16 DEF IInv

-----------------------------------------------------------------------------
(* Every step keeps the invariant.                                         *)
LEMMA NextInv == IInv /\ [SmNext]_smVars => IInv'
<1> SUFFICES ASSUME IInv, [SmNext]_smVars PROVE IInv'
  OBVIOUS
<1>1. ASSUME NEW o \in Objects, Offer(o) PROVE IInv'
  BY <1>1, OfferInv
<1>2. CASE RootStep
  BY <1>2, MeasureFieldInv, MeasuredInv, WriteFieldInv, WrittenInv DEF RootStep
<1>3. ASSUME NEW r \in Rank, RankStep(r) PROVE IInv'
  BY <1>3, AllocatedInv, FencedInv, ReadFieldInv, ReadAllInv DEF RankStep
<1>4. CASE UNCHANGED smVars
  BY <1>4 DEF smVars, IInv, ObjInv, SizeInv, StageInv, PlacedInv, PtrInv, GotInv, OneWriter,
    ReadersFindWhatWasWritten, Start
<1> QED
  BY <1>1, <1>2, <1>3, <1>4 DEF SmNext, SmStep, Shared

(* So it is an invariant.                                                  *)
LEMMA InvHolds == SmSpec => []IInv
<1>1. SmInit => IInv
  BY InitInv
<1>2. IInv /\ [SmNext]_smVars => IInv'
  BY NextInv
<1> QED
  BY <1>1, <1>2, PTL DEF SmSpec

(* Type correctness of consume_obj_and_create_shared.                      *)
THEOREM SharedTypeCorrect == SmSpec => []SharedTypeOK
<1>1. IInv => SharedTypeOK
  BY DEF IInv, ObjInv, SizeInv, StageInv, PlacedInv, PtrInv, GotInv, SharedTypeOK
<1> QED
  BY <1>1, InvHolds, PTL

(* What bytes_size counts for an object is enough for its fields with all  *)
(* their padding, whatever their alignments and wherever the root maps the *)
(* window: to_memory never writes behind the window.                       *)
THEOREM WindowIsLargeEnough == SmSpec => []WritesInsideWindow
<1>1. IInv => WritesInsideWindow
  <2> SUFFICES ASSUME IInv, NEW k \in 1 .. Len(placed)
               PROVE  /\ 0 <= placed[k].word
                      /\ placed[k].next <= WindowSize
                      /\ k > 1 => placed[k].word = placed[k - 1].next
    BY DEF WritesInsideWindow
  <2>1. Len(placed) \in Nat /\ Len(placed) <= Len(obj) /\ Len(obj) \in Nat
    BY DEF IInv, PlacedInv, ObjInv
  <2>2. k \in 1 .. Len(placed) + 1
    BY <2>1
  <2>3. placed[k].word = Start(k) /\ Start(k) \in Nat
    BY <2>2, StartIsAligned DEF IInv, PlacedInv
  <2>4. Len(upto) = Len(obj) + 1 /\ upto \in Seq(Nat)
    <3>1. placed # <<>>
      BY <2>1
    <3>2. stage[ROOT_RANK] >= Allocate
      BY <3>1, RootIsARank DEF IInv, StageInv, Load, Use, Write, Allocate
    <3> QED
      BY <3>2 DEF IInv, StageInv, SizeInv
  <2>5. k + 1 \in 1 .. Len(upto) /\ Len(upto) \in 1 .. Len(upto) /\ k + 1 <= Len(upto)
    BY <2>1, <2>4
  <2>6. upto[k + 1] <= upto[Len(upto)] /\ upto[k + 1] \in Nat /\ upto[Len(upto)] \in Nat
    BY <2>4, <2>5 DEF IInv, SizeInv
  <2>7. placed[k].next <= upto[k + 1] /\ placed[k].next \in Nat
    BY DEF IInv, PlacedInv
  <2>8. placed[k].next <= WindowSize
    BY <2>6, <2>7 DEF WindowSize
  <2> QED
    BY <2>3, <2>8 DEF Start
<1> QED
  BY <1>1, InvHolds, PTL

(* new_from_memory takes every rank to where the root wrote, through a     *)
(* window that says nothing about its layout.                              *)
THEOREM ReadersFollowTheWriter == SmSpec => []ReadersFindWhatWasWritten
<1>1. IInv => ReadersFindWhatWasWritten
  BY DEF IInv, GotInv
<1> QED
  BY <1>1, InvHolds, PTL

-----------------------------------------------------------------------------
(* The invariant of loading, beside that of the window.                    *)

(* A rank that uses its object has read all of it.                         *)
AllRead == \A r \in Rank : stage[r] = Use => Len(got[r]) = Len(obj)

(* What is flattened is the start of a flattening, and the root shares     *)
(* what it has flattened.                                                  *)
FlatInv ==
  /\ job \in Jobs
  /\ flat \in [Flattens -> Seq(AnyLayer(job.rc))]
  /\ \A p \in Flattens :
       /\ Len(flat[p]) <= Len(job.rc.layers)
       /\ \A k \in 1 .. Len(flat[p]) : flat[p][k] \in FlatLayers(job.rc, k)
  /\ stage[ROOT_RANK] # Load => Flattened(ROOT_RANK)

(* A process has the circuit and the random gates of a flattening.         *)
CircuitInv ==
  /\ DOMAIN circuit = Process /\ DOMAIN rnd = Process
  /\ \A p \in Process : circuit[p] # <<>> =>
       \E ls \in Flattenings(job.rc) : circuit[p] = WithRelay(ls) /\ rnd[p] = RandomGates(ls)

(* What a process gets from the witness file.                              *)
Inputs(p) == IF p = Verifier THEN VerifierInput(job.witness) ELSE ProverInput(job.witness, p)
InputVars == AtLeastOne(job.rc.segs[job.rc.layers[1]].ivars)
Refuses(p) == job.witness.priv # 2 ^ InputVars \/ TooFew(p)

InputInv ==
  /\ DOMAIN input = Process
  /\ \A p \in Process : input[p] # NoInput =>
       circuit[p] # <<>> /\ input[p] = IF Refuses(p) THEN Refused ELSE Inputs(p)

CoefInv ==
  /\ DOMAIN coef = Flattens
  /\ \A p \in Flattens : coef[p] # <<>> =>
       circuit[p] # <<>> /\ coef[p] = << {<<rnd[p][k], k>> : k \in DOMAIN rnd[p]} >>

LoadInv == IInv /\ AllRead /\ FlatInv /\ CircuitInv /\ InputInv /\ CoefInv

-----------------------------------------------------------------------------
(* The root and the verifier flatten, the ranks and the verifier load.     *)
LEMMA ProcessesAre ==
  /\ Flattens \subseteq Process /\ Rank \subseteq Process /\ Verifier \notin Rank
  /\ ROOT_RANK \in Flattens /\ ROOT_RANK # Verifier
BY RootIsARank DEF Flattens, Process, Verifier

(* What the assumption says of a job.                                      *)
LEMMA JobsAre ==
  ASSUME NEW j \in Jobs
  PROVE  /\ Len(j.rc.layers) \in Nat \ {0} /\ DOMAIN j.rc.layers = 1 .. Len(j.rc.layers)
         /\ \A ls \in Flattenings(j.rc) : FieldsOf(ls, j.rc.zeros) \in Objects
<1> DEFINE s == j.rc.layers
<1>1. s \in Seq(DOMAIN j.rc.segs) /\ s # <<>>
  BY JobsAssumption
<1>2. \A ls \in Flattenings(j.rc) : FieldsOf(ls, j.rc.zeros) \in Objects
  BY JobsAssumption
<1> HIDE DEF s
<1>3. Len(s) \in Nat \ {0} /\ DOMAIN s = 1 .. Len(s)
  BY <1>1
<1> QED BY <1>2, <1>3 DEF s

(* All flattenings of a file have as many layers, and as many inputs, with *)
(* the relay layer or without.                                             *)
LEMMA FlatteningsAre ==
  ASSUME NEW j \in Jobs, NEW ls \in Flattenings(j.rc)
  PROVE  /\ ls \in Seq(AnyLayer(j.rc)) /\ Len(ls) = Len(j.rc.layers)
         /\ ls[1].ivars = AtLeastOne(j.rc.segs[j.rc.layers[1]].ivars)
         /\ WithRelay(ls)[1].ivars = AtLeastOne(j.rc.segs[j.rc.layers[1]].ivars)
<1>1. ls \in Seq(AnyLayer(j.rc)) /\ Len(ls) = Len(j.rc.layers) /\ 1 \in DOMAIN j.rc.layers
  BY JobsAre DEF Flattenings
<1>2. ls[1] \in FlatLayers(j.rc, 1)
  BY <1>1 DEF Flattenings
<1>3. ls[1].ivars = AtLeastOne(j.rc.segs[j.rc.layers[1]].ivars)
  <2>1. PICK order : ls[1] = LayerInOrder(j.rc, j.rc.layers[1], order)
    BY <1>2, Zenon DEF FlatLayers
  <2>2. ASSUME NEW s
        PROVE  LayerInOrder(j.rc, s, order).ivars = AtLeastOne(j.rc.segs[s].ivars)
    BY DEF LayerInOrder
  <2> QED BY <2>1, <2>2, Zenon
<1>4. WithRelay(ls)[1].ivars = ls[1].ivars
  <2>1. CASE SkipPhaseTwo(ls[1])
    BY <2>1 DEF WithRelay
  <2>2. CASE ~SkipPhaseTwo(ls[1])
    <3> DEFINE l == RelayLayer(ls[1].ivars)
    <3>1. (<<l>> \o ls)[1] = l
      BY <1>1
    <3>2. l.ivars = ls[1].ivars
      BY DEF RelayLayer
    <3> QED BY <2>2, <3>1, <3>2 DEF WithRelay
  <2> QED BY <2>1, <2>2
<1> QED BY <1>1, <1>3, <1>4

(* A process that has flattened all layers has a flattening.               *)
LEMMA FlattenedIs ==
  ASSUME FlatInv, NEW p \in Flattens, Flattened(p)
  PROVE  flat[p] \in Flattenings(job.rc)
<1>1. flat[p] \in Seq(AnyLayer(job.rc)) /\ Len(flat[p]) = Len(job.rc.layers)
  BY DEF FlatInv, Flattened
<1>2. DOMAIN job.rc.layers = 1 .. Len(job.rc.layers)
  BY JobsAre DEF FlatInv
<1>3. flat[p] \in [DOMAIN job.rc.layers -> AnyLayer(job.rc)]
  BY <1>1, <1>2
<1> QED BY <1>1, <1>2, <1>3 DEF FlatInv, Flattenings

(* Every rank builds the circuit that the root shared.                     *)
LEMMA RanksHaveTheCircuit ==
  ASSUME LoadInv, NEW r \in Rank, stage[r] = Use
  PROVE  Flattened(ROOT_RANK) /\ LayersOf(r) = flat[ROOT_RANK]
<1>1. stage[ROOT_RANK] >= Fence /\ stage[ROOT_RANK] # Load
  BY RootIsARank DEF LoadInv, IInv, StageInv, Use, Read, Fence, Load, Write, Allocate, Measure
<1>2. Flattened(ROOT_RANK)
  BY <1>1 DEF LoadInv, FlatInv
<1>3. got[r] = placed
  <2>1. Len(got[r]) = Len(obj) /\ Len(placed) = Len(obj)
    BY <1>1 DEF LoadInv, AllRead, IInv, StageInv
  <2>2. got[r] \in Seq(PlaceType) /\ placed \in Seq(PlaceType) /\ \A k \in 1 .. Len(got[r]) : got[r][k] = placed[k]
    BY DEF LoadInv, IInv, GotInv, PlacedInv, ReadersFindWhatWasWritten
  <2> QED BY <2>1, <2>2
<1> DEFINE ls == flat[ROOT_RANK]
<1>4. ls \in Seq(AnyLayer(job.rc)) /\ r # Verifier
  BY ProcessesAre DEF LoadInv, FlatInv
<1>5. ASSUME NEW k \in DOMAIN ls
      PROVE  [ls[k] EXCEPT !.gates = [kind \in Kinds |-> GatesRead(r, k, kind)]] = ls[k]
  <2>1. ls[k] \in FlatLayers(job.rc, k)
    BY <1>4, <1>5, ProcessesAre DEF LoadInv, FlatInv
  <2>2. PICK order : ls[k] = LayerInOrder(job.rc, job.rc.layers[k], order)
    BY <2>1 DEF FlatLayers
  <2>3. PICK a, b, g : ls[k] = [ivars |-> a, ovars |-> b, gates |-> [kind \in Kinds |-> OfKind(g, kind)]]
    BY <2>2 DEF LayerInOrder
  <2>4. \A kind \in Kinds : GatesRead(r, k, kind) = ls[k].gates[kind]
    BY <1>3 DEF GatesRead
  <2>5. [kind \in Kinds |-> GatesRead(r, k, kind)] = ls[k].gates
    BY <2>3, <2>4
  <2> QED BY <2>3, <2>5
<1>6. LayersOf(r) = [k \in DOMAIN ls |-> ls[k]]
  BY <1>4, <1>5 DEF LayersOf
<1> QED BY <1>2, <1>4, <1>6

-----------------------------------------------------------------------------
(* What a process gets depends on the files only.                          *)
LEMMA JobStays ==
  ASSUME job' = job, NEW p
  PROVE  Refuses(p)' = Refuses(p) /\ Inputs(p)' = Inputs(p)
<1>1. Desired' = Desired
  BY DEF Desired
<1>2. \A w, r, i : Lanes(w, r, i)' = Lanes(w, r, i)
  BY <1>1 DEF Lanes, PaddedValues
<1>3. \A w, r : PublicOf(w, r)' = PublicOf(w, r)
  BY <1>2 DEF PublicOf
<1>4. \A w, r : ProverInput(w, r)' = ProverInput(w, r)
  BY <1>2, <1>3 DEF ProverInput
<1>5. \A w : VerifierInput(w)' = VerifierInput(w)
  BY <1>3 DEF VerifierInput
<1>6. Inputs(p)' = Inputs(p)
  BY <1>4, <1>5 DEF Inputs
<1>7. Refuses(p)' = Refuses(p)
  BY <1>1 DEF Refuses, InputVars, TooFew
<1> QED BY <1>6, <1>7

(* What a step of the window leaves alone.                                 *)
LEMMA LoadVarsAre ==
  ASSUME LoadInv, IInv', UNCHANGED <<job, flat, circuit, rnd, input, coef>>,
         stage'[ROOT_RANK] # Load => Flattened(ROOT_RANK), AllRead'
  PROVE  LoadInv'
<1>1. FlatInv'
  BY DEF LoadInv, FlatInv, Flattened
<1>2. CircuitInv'
  BY DEF LoadInv, CircuitInv
<1>3. InputInv'
  BY JobStays DEF LoadInv, InputInv
<1>4. CoefInv'
  BY DEF LoadInv, CoefInv
<1> QED BY <1>1, <1>2, <1>3, <1>4 DEF LoadInv

(* A rank is done with reading when it has read everything.                *)
LEMMA AllReadNext ==
  ASSUME IInv, AllRead, SmStep \/ \E o \in Objects : Offer(o)
  PROVE  AllRead'
<1>1. SUFFICES ASSUME NEW q \in Rank, stage'[q] = Use PROVE Len(got'[q]) = Len(obj')
  BY DEF AllRead
<1>2. stage \in [Rank -> Load .. Use] /\ ROOT_RANK \in Rank
  BY RootIsARank DEF IInv, StageInv
<1>3. ASSUME NEW o \in Objects, Offer(o) PROVE FALSE
  <2>1. stage[ROOT_RANK] = Load /\ stage'[q] = IF q = ROOT_RANK THEN Measure ELSE stage[q]
    BY <1>2, <1>3 DEF Offer, Move
  <2>2. stage[q] = Use
    BY <1>1, <2>1 DEF Measure, Use
  <2> QED BY <2>1, <2>2 DEF IInv, StageInv, Use, Read, Fence, Load
<1>4. CASE RootStep
  <2>1. got' = got /\ obj' = obj
    BY <1>4 DEF RootStep, MeasureField, Measured, WriteField, Written
  <2>2. stage[q] = Use
    BY <1>1, <1>2, <1>4 DEF RootStep, MeasureField, Measured, WriteField, Written, Move, Allocate, Fence, Use
  <2> QED BY <2>1, <2>2 DEF AllRead
<1>5. ASSUME NEW r \in Rank, RankStep(r) PROVE Len(got'[q]) = Len(obj')
  <2>1. CASE Allocated(r) \/ Fenced(r)
    <3>1. got' = got /\ obj' = obj
      BY <2>1 DEF Allocated, Fenced
    <3>2. stage[q] = Use
      BY <1>1, <1>2, <2>1 DEF Allocated, Fenced, Move, Write, Fence, Read, Use
    <3> QED BY <3>1, <3>2 DEF AllRead
  <2>2. CASE ReadAll(r)
    <3>1. got' = got /\ obj' = obj
      BY <2>2 DEF ReadAll
    <3>2. CASE q = r
      BY <2>2, <3>1, <3>2 DEF ReadAll
    <3>3. CASE q # r
      BY <1>1, <1>2, <2>2, <3>1, <3>3 DEF ReadAll, Move, AllRead
    <3> QED BY <3>2, <3>3
  <2>3. CASE ReadField(r)
    <3>1. stage' = stage /\ obj' = obj /\ q # r
      BY <1>1, <2>3 DEF ReadField, Read, Use
    <3>2. got'[q] = got[q]
      BY <2>3, <3>1 DEF ReadField, IInv, GotInv
    <3> QED BY <1>1, <3>1, <3>2 DEF AllRead
  <2> QED BY <1>5, <2>1, <2>2, <2>3 DEF RankStep
<1> QED BY <1>3, <1>4, <1>5 DEF SmStep

(* The invariant holds at the start.                                       *)
LEMMA LoadInit == Init => LoadInv
<1> SUFFICES ASSUME Init PROVE LoadInv
  OBVIOUS
<1>1. IInv
  BY InitInv DEF Init
<1>2. stage = [r \in Rank |-> IF r = ROOT_RANK THEN Load ELSE Allocate] /\ AllRead
  BY DEF Init, SmInit, AllRead, Load, Allocate, Use
<1>3. FlatInv
  <2>1. job \in Jobs /\ flat = [p \in Flattens |-> <<>>]
    BY DEF Init
  <2>2. stage[ROOT_RANK] = Load
    BY <1>2, RootIsARank
  <2>3. Len(job.rc.layers) \in Nat
    BY <2>1, JobsAre
  <2> QED BY <2>1, <2>2, <2>3 DEF FlatInv
<1>4. CircuitInv /\ InputInv /\ CoefInv
  BY DEF Init, CircuitInv, InputInv, CoefInv
<1> QED BY <1>1, <1>2, <1>3, <1>4 DEF LoadInv

(* The root shares an object.                                              *)
LEMMA ShareKeeps ==
  ASSUME LoadInv, Share
  PROVE  LoadInv' /\ \E o \in Objects : Offer(o)
<1> DEFINE o == FieldsOf(flat[ROOT_RANK], job.rc.zeros)
<1>1. o \in Objects
  BY FlattenedIs, JobsAre, ProcessesAre DEF Share, LoadInv, FlatInv
<1>2. Offer(o)
  BY DEF Share
<1> HIDE DEF o
<1>3. IInv' /\ AllRead'
  BY <1>1, <1>2, OfferInv, AllReadNext DEF LoadInv
<1> QED BY <1>1, <1>2, <1>3, LoadVarsAre DEF Share

(* The window goes on.                                                     *)
LEMMA ShareStepKeeps ==
  ASSUME LoadInv, ShareStep
  PROVE  LoadInv'
<1>1. SmNext
  BY DEF ShareStep, SmNext
<1>2. IInv' /\ AllRead'
  BY <1>1, NextInv, AllReadNext DEF LoadInv, ShareStep
<1>3. stage'[ROOT_RANK] # Load => stage[ROOT_RANK] # Load
  <2>1. SUFFICES ASSUME stage[ROOT_RANK] = Load PROVE stage'[ROOT_RANK] = Load
    OBVIOUS
  <2>2. stage \in [Rank -> Load .. Use] /\ ROOT_RANK \in Rank
    BY RootIsARank DEF LoadInv, IInv, StageInv
  <2>3. ~RootStep
    BY <2>1 DEF RootStep, MeasureField, Measured, WriteField, Written, Load, Measure, Write
  <2>4. PICK r \in Rank : RankStep(r)
    BY <2>3 DEF ShareStep, SmStep
  <2>5. r # ROOT_RANK
    BY <2>1, <2>4 DEF RankStep, Allocated, Fenced, ReadField, ReadAll, Load, Allocate, Fence, Read
  <2> QED BY <2>1, <2>2, <2>4, <2>5 DEF RankStep, Allocated, Fenced, ReadField, ReadAll, Move
<1>4. stage'[ROOT_RANK] # Load => Flattened(ROOT_RANK)
  BY <1>3 DEF LoadInv, FlatInv
<1> QED BY <1>2, <1>4, LoadVarsAre DEF ShareStep

(* The other steps leave the window alone.                                 *)
LEMMA WindowStays ==
  ASSUME IInv, AllRead, UNCHANGED smVars
  PROVE  IInv' /\ AllRead' /\ stage' = stage
<1>1. IInv'
  BY NextInv
<1>2. AllRead' /\ stage' = stage
  BY DEF AllRead, smVars
<1> QED BY <1>1, <1>2

(* One layer more.                                                         *)
LEMMA FlattenLayerKeeps ==
  ASSUME LoadInv, NEW p \in Flattens, FlattenLayer(p)
  PROVE  LoadInv'
<1> DEFINE n == Len(flat[p])
           rc == job.rc
<1>1. IInv' /\ AllRead' /\ stage' = stage
  BY WindowStays DEF LoadInv, FlattenLayer
<1>2. /\ flat \in [Flattens -> Seq(AnyLayer(rc))] /\ n \in Nat /\ n < Len(rc.layers) /\ job \in Jobs
      /\ job' = job /\ Len(rc.layers) \in Nat /\ DOMAIN rc.layers = 1 .. Len(rc.layers)
  BY JobsAre DEF LoadInv, FlatInv, FlattenLayer
<1>3. PICK order \in Orders(rc, rc.layers[n + 1]) :
        flat' = [flat EXCEPT ![p] = Append(@, LayerInOrder(rc, rc.layers[n + 1], order))]
  BY DEF FlattenLayer
<1> DEFINE l == LayerInOrder(rc, rc.layers[n + 1], order)
<1>4. n + 1 \in DOMAIN rc.layers /\ l \in FlatLayers(rc, n + 1)
  <2>1. n + 1 \in 1 .. Len(rc.layers)
    BY <1>2
  <2> QED BY <1>2, <1>3, <2>1 DEF FlatLayers
<1>5. l \in AnyLayer(rc)
  BY <1>4 DEF AnyLayer
<1>6. /\ flat' \in [Flattens -> Seq(AnyLayer(rc))] /\ flat'[p] = Append(flat[p], l)
      /\ \A q \in Flattens : q # p => flat'[q] = flat[q]
  BY <1>2, <1>3, <1>5
<1> HIDE DEF l
<1>7. ASSUME NEW q \in Flattens
      PROVE  /\ Len(flat'[q]) <= Len(rc.layers)
             /\ \A k \in 1 .. Len(flat'[q]) : flat'[q][k] \in FlatLayers(rc, k)
  <2>1. CASE q # p
    BY <1>6, <2>1 DEF LoadInv, FlatInv
  <2>2. CASE q = p
    <3>1. Len(flat'[q]) = n + 1 /\ flat'[q][n + 1] = l /\ \A k \in 1 .. n : flat'[q][k] = flat[p][k]
      <4> DEFINE fp == flat[p]
      <4>1. fp \in Seq(AnyLayer(rc)) /\ flat'[q] = Append(fp, l) /\ n = Len(fp)
        BY <1>2, <1>6, <2>2
      <4> HIDE DEF fp, n
      <4>2. LET a == Append(fp, l) IN Len(a) = n + 1 /\ a[n + 1] = l /\ \A k \in 1 .. n : a[k] = fp[k]
        BY <1>5, <4>1
      <4> QED BY <4>1, <4>2 DEF fp
    <3>2. \A k \in 1 .. n : flat[p][k] \in FlatLayers(rc, k)
      BY DEF LoadInv, FlatInv
    <3> QED BY <1>2, <1>4, <3>1, <3>2
  <2> QED BY <2>1, <2>2
<1>8. stage[ROOT_RANK] # Load => Flattened(ROOT_RANK)'
  <2>1. SUFFICES ASSUME stage[ROOT_RANK] # Load PROVE Flattened(ROOT_RANK)'
    OBVIOUS
  <2>2. Flattened(ROOT_RANK)
    BY <2>1 DEF LoadInv, FlatInv
  <2>3. ROOT_RANK # p
    BY <1>2, <2>2 DEF Flattened
  <2> QED BY <1>2, <1>6, <2>2, <2>3, ProcessesAre DEF Flattened
<1>9. FlatInv'
  BY <1>1, <1>2, <1>6, <1>7, <1>8 DEF FlatInv
<1>10. CircuitInv' /\ CoefInv'
  BY DEF LoadInv, CircuitInv, CoefInv, FlattenLayer
<1>11. InputInv'
  BY <1>2, JobStays DEF LoadInv, InputInv, FlattenLayer
<1> QED BY <1>1, <1>9, <1>10, <1>11 DEF LoadInv

(* Whatever process it is, its circuit is a flattening.                    *)
LEMMA LayersAre ==
  ASSUME LoadInv, NEW p \in Process, Loaded(p)
  PROVE  LayersOf(p) \in Flattenings(job.rc)
<1>1. CASE p = Verifier
  BY <1>1, FlattenedIs DEF LoadInv, Loaded, LayersOf, Flattens
<1>2. CASE p # Verifier
  <2>1. p \in Rank /\ stage[p] = Use
    BY <1>2 DEF Process, Loaded
  <2> QED BY <2>1, RanksHaveTheCircuit, FlattenedIs, ProcessesAre DEF LoadInv
<1> QED BY <1>1, <1>2

(* The random gates and the relay layer.                                   *)
LEMMA PreProcessKeeps ==
  ASSUME LoadInv, NEW p \in Process, PreProcess(p)
  PROVE  LoadInv'
<1> DEFINE ls == LayersOf(p)
<1>1. IInv' /\ AllRead' /\ stage' = stage
  BY WindowStays DEF LoadInv, PreProcess
<1>2. FlatInv'
  BY <1>1 DEF LoadInv, FlatInv, Flattened, PreProcess
<1>3. ls \in Flattenings(job.rc)
  BY LayersAre DEF PreProcess
<1> HIDE DEF ls
<1>4. /\ DOMAIN circuit' = Process /\ DOMAIN rnd' = Process
      /\ circuit'[p] = WithRelay(ls) /\ rnd'[p] = RandomGates(ls) /\ circuit[p] = <<>>
      /\ \A q \in Process : q # p => circuit'[q] = circuit[q] /\ rnd'[q] = rnd[q]
  BY DEF LoadInv, CircuitInv, PreProcess, ls
<1>5. job' = job /\ input' = input /\ coef' = coef
  BY DEF PreProcess
<1>6. CircuitInv'
  BY <1>3, <1>4, <1>5 DEF LoadInv, CircuitInv
<1>7. InputInv'
  BY <1>4, <1>5, JobStays DEF LoadInv, InputInv
<1>8. CoefInv'
  BY <1>4, <1>5, ProcessesAre DEF LoadInv, CoefInv
<1> QED BY <1>1, <1>2, <1>6, <1>7, <1>8 DEF LoadInv

(* The witness file, refused by all or by none.                            *)
LEMMA LoadWitnessKeeps ==
  ASSUME LoadInv, NEW p \in Process, LoadWitness(p)
  PROVE  LoadInv'
<1>1. IInv' /\ AllRead' /\ stage' = stage
  BY WindowStays DEF LoadInv, LoadWitness
<1>2. FlatInv' /\ CircuitInv' /\ CoefInv'
  BY <1>1 DEF LoadInv, FlatInv, Flattened, CircuitInv, CoefInv, LoadWitness
<1>3. circuit[p][1].ivars = InputVars /\ circuit[p] # <<>>
  <2>1. circuit[p] # <<>>
    BY DEF LoadWitness
  <2>2. PICK ls \in Flattenings(job.rc) : circuit[p] = WithRelay(ls)
    BY <2>1 DEF LoadInv, CircuitInv
  <2> QED BY <2>1, <2>2, FlatteningsAre DEF InputVars, LoadInv, FlatInv
<1>4. /\ DOMAIN input' = Process /\ input'[p] = IF Refuses(p) THEN Refused ELSE Inputs(p)
      /\ \A q \in Process : q # p => input'[q] = input[q]
  BY <1>3 DEF LoadInv, InputInv, LoadWitness, Refuses, Inputs
<1>5. job' = job /\ circuit' = circuit
  BY DEF LoadWitness
<1>6. InputInv'
  BY <1>3, <1>4, <1>5, JobStays DEF LoadInv, InputInv
<1> QED BY <1>1, <1>2, <1>6 DEF LoadInv

(* The challenges.                                                         *)
LEMMA FillRndCoefsKeeps ==
  ASSUME LoadInv, NEW p \in Flattens, FillRndCoefs(p)
  PROVE  LoadInv'
<1>1. IInv' /\ AllRead' /\ stage' = stage
  BY WindowStays DEF LoadInv, FillRndCoefs
<1>2. FlatInv' /\ CircuitInv'
  BY <1>1 DEF LoadInv, FlatInv, Flattened, CircuitInv, FillRndCoefs
<1>3. InputInv'
  BY JobStays DEF LoadInv, InputInv, FillRndCoefs
<1>4. circuit[p] # <<>>
  BY ProcessesAre DEF LoadInv, InputInv, FillRndCoefs
<1>5. CoefInv'
  BY <1>4 DEF LoadInv, CoefInv, FillRndCoefs
<1> QED BY <1>1, <1>2, <1>3, <1>5 DEF LoadInv

(* Every step keeps the invariant.                                         *)
LEMMA LoadNext ==
  ASSUME LoadInv, [Next]_vars
  PROVE  LoadInv'
<1>1. CASE UNCHANGED vars
  <2>1. IInv' /\ AllRead' /\ stage' = stage
    BY <1>1, WindowStays DEF LoadInv, vars
  <2>2. stage'[ROOT_RANK] # Load => Flattened(ROOT_RANK)
    BY <2>1 DEF LoadInv, FlatInv
  <2> QED BY <1>1, <2>1, <2>2, LoadVarsAre DEF vars
<1>2. ASSUME Next PROVE LoadInv'
  BY <1>1, <1>2, ShareKeeps, ShareStepKeeps, FlattenLayerKeeps, FillRndCoefsKeeps, PreProcessKeeps, LoadWitnessKeeps
     DEF Next, AllLoaded
<1> QED BY <1>1, <1>2

(* So it is an invariant.                                                  *)
LEMMA LoadHolds == Spec => []LoadInv
<1>1. Init => LoadInv
  BY LoadInit
<1>2. LoadInv /\ [Next]_vars => LoadInv'
  BY LoadNext
<1> QED BY <1>1, <1>2, PTL DEF Spec

(* Loading hands the circuit over as SharedMem hands over any object.      *)
THEOREM LoadingSharesAnObject == Spec => SmSpec
<1>1. Init => SmInit
  BY DEF Init
<1>2. LoadInv /\ [Next]_vars => [SmNext]_smVars
  <2> SUFFICES ASSUME LoadInv, [Next]_vars PROVE [SmNext]_smVars
    OBVIOUS
  <2>1. CASE Share
    BY <2>1, ShareKeeps DEF SmNext
  <2>2. CASE ShareStep
    BY <2>2 DEF ShareStep, SmNext
  <2>3. CASE AllLoaded \/ UNCHANGED vars \/ \E p \in Flattens : FlattenLayer(p) \/ FillRndCoefs(p)
    BY <2>3 DEF AllLoaded, vars, FlattenLayer, FillRndCoefs
  <2>4. CASE \E p \in Process : PreProcess(p) \/ LoadWitness(p)
    BY <2>4 DEF PreProcess, LoadWitness
  <2> QED BY <2>1, <2>2, <2>3, <2>4 DEF Next
<1> QED BY <1>1, <1>2, LoadHolds, PTL DEF Spec, SmSpec

(* A witness file suffices for all or for none.                            *)
THEOREM AllOrNoneAccept == Spec => []AllAcceptTheWitness
<1>1. LoadInv => AllAcceptTheWitness
  <2> SUFFICES ASSUME LoadInv, ~job.padding, NEW p \in Process, NEW q \in Process,
                      input[p] = Refused, input[q] # NoInput
               PROVE  input[q] = Refused
    BY DEF AllAcceptTheWitness
  <2>1. Refused # NoInput /\ Inputs(p) # Refused
    BY DEF Refused, NoInput, Inputs, VerifierInput, ProverInput
  <2>2. Refuses(p)
    BY <2>1 DEF LoadInv, InputInv
  <2>3. Refuses(q)
    BY <2>2 DEF Refuses, TooFew
  <2> QED BY <2>3 DEF LoadInv, InputInv
<1> QED BY <1>1, LoadHolds, PTL

(* The prover and the verifier deal the challenges to the same gates, if   *)
(* the order of the leaves makes no difference.                            *)
THEOREM CoefficientsAgree ==
  ASSUME OneOrder(Jobs)
  PROVE  Spec => []SameCoefficients
<1>1. LoadInv => SameCoefficients
  <2> SUFFICES ASSUME LoadInv, coef[ROOT_RANK] # <<>>, coef[Verifier] # <<>>
               PROVE  coef[ROOT_RANK] = coef[Verifier]
    BY DEF SameCoefficients
  <2>1. ROOT_RANK \in Flattens /\ Verifier \in Flattens /\ job \in Jobs
    BY DEF Flattens, LoadInv, FlatInv
  <2>2. ASSUME NEW p \in Flattens, coef[p] # <<>>
        PROVE  \E ls \in Flattenings(job.rc) : rnd[p] = RandomGates(ls)
    BY <2>2, ProcessesAre DEF LoadInv, CoefInv, CircuitInv
  <2>3. rnd[ROOT_RANK] = rnd[Verifier]
    <3>1. PICK ls \in Flattenings(job.rc) : rnd[ROOT_RANK] = RandomGates(ls)
      BY <2>1, <2>2
    <3>2. PICK ms \in Flattenings(job.rc) : rnd[Verifier] = RandomGates(ms)
      BY <2>1, <2>2
    <3> QED BY <2>1, <3>1, <3>2 DEF OneOrder
  <2> QED BY <2>1, <2>3 DEF LoadInv, CoefInv
<1> QED BY <1>1, LoadHolds, PTL

-----------------------------------------------------------------------------
(* The place of value i of a row of t values, and back.                    *)
LEMMA IndexOfValue ==
  ASSUME NEW v \in Nat, NEW t \in Nat \ {0}, NEW i \in 0 .. t - 1
  PROVE  /\ v * t + i \in Nat /\ (v * t + i) \div t = v /\ (v * t + i) % t = i
         /\ \A n \in Nat : v * t + i < n * t <=> v < n
<1> DEFINE k == v * t + i
<1>1. k \in Nat /\ v * t \in Nat /\ i \in Nat /\ i < t
  OBVIOUS
<1>2. ASSUME NEW a \in Nat, NEW b \in Nat, a < b PROVE a * t + t <= b * t
  <2>1. b = a + 1 + (b - a - 1) /\ b - a - 1 \in Nat
    BY <1>2
  <2> DEFINE d == b - a - 1
  <2> HIDE DEF d
  <2>2. (a + 1 + d) * t = a * t + t + d * t /\ d * t \in Nat
    BY <2>1 DEF d
  <2> QED BY <2>1, <2>2 DEF d
<1>3. \A n \in Nat : k < n * t <=> v < n
  <2> TAKE n \in Nat
  <2>1. CASE v < n
    BY <1>1, <1>2, <2>1
  <2>2. CASE n <= v
    <3>1. n * t <= v * t
      BY <1>2, <2>2
    <3> QED BY <1>1, <2>2, <3>1
  <2> QED BY <2>1, <2>2
<1>4. k \div t = v /\ k % t = i
  <2> DEFINE q == k \div t
             m == k % t
  <2>1. q \in Nat /\ m \in 0 .. t - 1 /\ k = q * t + m
    BY <1>1, QuotientBounds
  <2> HIDE DEF q, m
  <2>2. q = v
    <3>1. ~(q < v)
      BY <1>1, <1>2, <2>1
    <3>2. ~(v < q)
      BY <1>1, <1>2, <2>1
    <3> QED BY <2>1, <3>1, <3>2
  <2>3. m = i
    BY <1>1, <2>1, <2>2
  <2> QED BY <2>2, <2>3 DEF q, m
<1> QED BY <1>1, <1>3, <1>4

(* The witness of the v-th lane: the first one stands in for those that    *)
(* the file does not have.                                                 *)
WitnessOf(v) == IF v < job.witness.num THEN v ELSE 0

(* The i-th value of the v-th lane, padding included.                      *)
LEMMA ValuesAre ==
  ASSUME LoadInv, NEW v \in 0 .. Desired - 1, NEW i \in 0 .. Total(job.witness) - 1
  PROVE  PaddedValues(job.witness)[v * Total(job.witness) + i] = <<WitnessOf(v), i>>
<1> DEFINE w == job.witness
           t == Total(w)
           k == v * t + i
<1>1. /\ w.num \in Nat \ {0} /\ w.priv \in Nat \ {0} /\ w.pub \in Nat /\ t \in Nat \ {0}
      /\ Desired \in Nat
  <2>1. w \in [num : Nat \ {0}, priv : Nat \ {0}, pub : Nat] /\ job.pack \in Nat
    BY JobsAssumption DEF LoadInv, FlatInv
  <2> QED BY <2>1, WorldAssumption DEF Total, Desired
<1>2. /\ k \in Nat /\ k \div t = v /\ k % t = i
      /\ k < Desired * t /\ (k < w.num * t <=> v < w.num)
  <2>1. v \in Nat /\ v < Desired /\ i \in 0 .. t - 1
    BY <1>1
  <2> HIDE DEF t, w
  <2>2. /\ v * t + i \in Nat /\ (v * t + i) \div t = v /\ (v * t + i) % t = i
        /\ \A n \in Nat : v * t + i < n * t <=> v < n
    BY <1>1, <2>1, IndexOfValue
  <2> QED BY <1>1, <2>1, <2>2
<1>3. i \in Nat /\ i \div t = 0 /\ i % t = i /\ i < w.num * t
  <2>1. i \in 0 .. t - 1
    OBVIOUS
  <2> HIDE DEF t, w
  <2>2. /\ (0 * t + i) \div t = 0 /\ (0 * t + i) % t = i
        /\ \A n \in Nat : 0 * t + i < n * t <=> 0 < n
    BY <1>1, <2>1, IndexOfValue, ZenonT(60)
  <2>3. 0 * t + i = i /\ i \in Nat
    BY <1>1, <2>1
  <2> QED BY <1>1, <2>2, <2>3
<1>4. w.num * t \in Nat /\ Desired * t \in Nat
  BY <1>1
<1> HIDE DEF k, w, t
<1>5. k \in 0 .. Desired * t - 1 /\ i \in 0 .. w.num * t - 1
  BY <1>1, <1>2, <1>3, <1>4
<1>6. PaddedValues(w)[k] = IF k < w.num * t THEN Values(w)[k] ELSE Values(w)[i]
  BY <1>2, <1>5 DEF PaddedValues, t
<1>7. CASE v < w.num
  <2>1. k \in 0 .. w.num * t - 1
    BY <1>2, <1>4, <1>7
  <2>2. Values(w)[k] = <<v, i>>
    BY <1>2, <2>1 DEF Values, t
  <2> QED BY <1>2, <1>6, <1>7, <2>2 DEF WitnessOf, w, k, t
<1>8. CASE ~(v < w.num)
  <2>1. Values(w)[i] = <<0, i>>
    BY <1>3, <1>5 DEF Values, t
  <2> QED BY <1>2, <1>6, <1>8, <2>1 DEF WitnessOf, w, k, t
<1> QED BY <1>7, <1>8

(* The witnesses of different lanes.                                       *)
LEMMA LaneOf ==
  ASSUME NEW n \in Nat \ {0}, NEW r \in 0 .. WorldSize - 1, NEW j \in 0 .. n - 1
  PROVE  /\ r * n + j \in 0 .. n * WorldSize - 1
         /\ \A q \in 0 .. WorldSize - 1, k \in 0 .. n - 1 : r * n + j = q * n + k => r = q /\ j = k
<1>1. r \in Nat /\ WorldSize \in Nat
  BY WorldAssumption
<1>2. /\ r * n + j \in Nat /\ (r * n + j) \div n = r /\ (r * n + j) % n = j
      /\ (r * n + j < WorldSize * n <=> r < WorldSize)
  BY <1>1, IndexOfValue
<1>3. \A q \in 0 .. WorldSize - 1, k \in 0 .. n - 1 : (q * n + k) \div n = q /\ (q * n + k) % n = k
  BY <1>1, IndexOfValue
<1>4. WorldSize * n = n * WorldSize /\ n * WorldSize \in Nat /\ r < WorldSize
  BY <1>1
<1> QED BY <1>2, <1>3, <1>4

(* The parts of what a process gets.                                       *)
LEMMA InputsAre ==
  ASSUME NEW w, NEW r
  PROVE  /\ ProverInput(w, r).private = [i \in 1 .. w.priv |-> Lanes(w, r, i - 1)]
         /\ ProverInput(w, r).public = PublicOf(w, r)
         /\ VerifierInput(w).public = FlattenSeq([q \in 1 .. WorldSize |-> PublicOf(w, q - 1)])
<1>1. ProverInput(w, r).public = PublicOf(w, r)
  BY DEF ProverInput
<1>2. ProverInput(w, r).private = [i \in 1 .. w.priv |-> Lanes(w, r, i - 1)]
  BY DEF ProverInput
<1>3. VerifierInput(w).public = FlattenSeq([q \in 1 .. WorldSize |-> PublicOf(w, q - 1)])
  BY DEF VerifierInput
<1> QED BY <1>1, <1>2, <1>3

(* Every lane holds a witness of its own, unless the file is padded.       *)
THEOREM LanesHoldTheirWitnesses == Spec => []WitnessesReachTheirLanes
<1>1. LoadInv => WitnessesReachTheirLanes
  <2> SUFFICES ASSUME LoadInv PROVE WitnessesReachTheirLanes
    OBVIOUS
  <2> DEFINE ready == {r \in Rank : input[r] \notin {NoInput, Refused}}
             w == job.witness
             value(r, i, j) == IF i < w.priv THEN input[r].private[i + 1][j]
                               ELSE input[r].public[i - w.priv + 1][j]
             holds(r, j) == {v \in 0 .. w.num - 1 : \A i \in 0 .. Total(w) - 1 : value(r, i, j) = <<v, i>>}
             lanes == ready \X (0 .. job.pack - 1)
  <2>1. /\ w.num \in Nat \ {0} /\ w.priv \in Nat \ {0} /\ w.pub \in Nat /\ job.pack \in Nat \ {0}
        /\ Total(w) \in Nat \ {0} /\ w.priv <= Total(w) /\ Total(w) = w.priv + w.pub
    <3>1. w \in [num : Nat \ {0}, priv : Nat \ {0}, pub : Nat] /\ job.pack \in Nat \ {0}
      BY JobsAssumption DEF LoadInv, FlatInv
    <3> QED BY <3>1 DEF Total
  <2>2. ASSUME NEW r \in ready PROVE input[r] = ProverInput(w, r) /\ r \in 0 .. WorldSize - 1 /\ r \in Rank
    BY ProcessesAre DEF LoadInv, InputInv, Inputs, Rank
  <2>3. ASSUME NEW r \in ready, NEW j \in 0 .. job.pack - 1, NEW i \in 0 .. Total(w) - 1
        PROVE  value(r, i, j) = <<WitnessOf(r * job.pack + j), i>>
    <3>1. value(r, i, j) = Lanes(w, r, i)[j]
      <4>1. CASE i < w.priv
        <5>1. i + 1 \in 1 .. w.priv /\ i + 1 - 1 = i
          BY <2>1, <4>1
        <5>2. input[r].private = [k \in 1 .. w.priv |-> Lanes(w, r, k - 1)]
          <6>1. input[r] = ProverInput(w, r)
            BY <2>2
          <6>2. ProverInput(w, r).private = [k \in 1 .. w.priv |-> Lanes(w, r, k - 1)]
            BY InputsAre, ZenonT(60)
          <6> QED BY <6>1, <6>2
        <5>3. input[r].private[i + 1] = Lanes(w, r, i + 1 - 1)
          BY <5>1, <5>2
        <5> QED BY <4>1, <5>1, <5>3
      <4>2. CASE ~(i < w.priv)
        <5>1. i - w.priv + 1 \in 1 .. w.pub /\ w.priv + (i - w.priv + 1) - 1 = i
          BY <2>1, <4>2
        <5>2. input[r].public = PublicOf(w, r)
          BY <2>2, InputsAre
        <5>3. PublicOf(w, r)[i - w.priv + 1] = Lanes(w, r, w.priv + (i - w.priv + 1) - 1)
          BY <5>1 DEF PublicOf
        <5> QED BY <4>2, <5>1, <5>2, <5>3
      <4> QED BY <4>1, <4>2
    <3>2. Lanes(w, r, i)[j] = PaddedValues(w)[(r * job.pack + j) * Total(w) + i]
      BY DEF Lanes
    <3>3. r * job.pack + j \in 0 .. Desired - 1
      BY <2>1, <2>2, LaneOf DEF Desired
    <3> QED BY <3>1, <3>2, <3>3, ValuesAre
  <2>4. ASSUME NEW r \in ready, NEW j \in 0 .. job.pack - 1
        PROVE  /\ holds(r, j) = {WitnessOf(r * job.pack + j)}
               /\ r * job.pack + j \in 0 .. Desired - 1
    <3>1. r * job.pack + j \in 0 .. Desired - 1
      BY <2>1, <2>2, LaneOf DEF Desired
    <3>2. WitnessOf(r * job.pack + j) \in 0 .. w.num - 1
      BY <2>1, <3>1 DEF WitnessOf
    <3>3. 0 \in 0 .. Total(w) - 1
      BY <2>1
    <3>4. \A i \in 0 .. Total(w) - 1 : value(r, i, j) = <<WitnessOf(r * job.pack + j), i>>
      BY <2>3
    <3> HIDE DEF value, w
    <3>5. \A v : <<WitnessOf(r * job.pack + j), 0>> = <<v, 0>> => v = WitnessOf(r * job.pack + j)
      OBVIOUS
    <3> QED BY <3>1, <3>2, <3>3, <3>4, <3>5
  <2>5. \A l \in lanes : holds(l[1], l[2]) # {}
    BY <2>4
  <2>6. ASSUME w.num >= Desired, NEW l \in lanes, NEW m \in lanes, l # m
        PROVE  holds(l[1], l[2]) \cap holds(m[1], m[2]) = {}
    <3>1. /\ l[1] \in ready /\ l[2] \in 0 .. job.pack - 1 /\ m[1] \in ready /\ m[2] \in 0 .. job.pack - 1
          /\ (l[1] # m[1] \/ l[2] # m[2])
      BY <2>6
    <3> DEFINE a == l[1] * job.pack + l[2]
               b == m[1] * job.pack + m[2]
    <3>2. a # b /\ a \in 0 .. Desired - 1 /\ b \in 0 .. Desired - 1
      <4>1. l[1] \in 0 .. WorldSize - 1 /\ m[1] \in 0 .. WorldSize - 1
        BY <2>2, <3>1
      <4>2. a # b
        BY <2>1, <3>1, <4>1, LaneOf
      <4> QED BY <2>4, <3>1, <4>2
    <3>3. Desired \in Nat
      BY <2>1, WorldAssumption DEF Desired
    <3> HIDE DEF a, b
    <3>4. WitnessOf(a) = a /\ WitnessOf(b) = b
      BY <2>1, <2>6, <3>2, <3>3 DEF WitnessOf
    <3>5. holds(l[1], l[2]) = {a} /\ holds(m[1], m[2]) = {b}
      BY <2>4, <3>1, <3>4 DEF a, b
    <3> HIDE DEF holds
    <3> QED BY <3>2, <3>5
  <2>7. ASSUME ready = Rank, input[Verifier] \notin {NoInput, Refused}
        PROVE  input[Verifier].public = FlattenSeq([r \in 1 .. WorldSize |-> input[r - 1].public])
    <3>1. Verifier \in Process
      BY DEF Process
    <3>2. input[Verifier] = VerifierInput(w)
      BY <2>7, <3>1 DEF LoadInv, InputInv, Inputs
    <3>3. ASSUME NEW r \in 1 .. WorldSize PROVE input[r - 1].public = PublicOf(w, r - 1)
      <4>1. r - 1 \in ready
        BY <2>7, WorldAssumption DEF Rank
      <4> QED BY <2>2, <4>1, InputsAre
    <3>4. [r \in 1 .. WorldSize |-> input[r - 1].public] = [r \in 1 .. WorldSize |-> PublicOf(w, r - 1)]
      BY <3>3
    <3>5. VerifierInput(w).public = FlattenSeq([r \in 1 .. WorldSize |-> PublicOf(w, r - 1)])
      BY InputsAre
    <3> QED BY <3>2, <3>4, <3>5
  <2> QED BY <2>5, <2>6, <2>7 DEF WitnessesReachTheirLanes
<1> QED BY <1>1, LoadHolds, PTL

(* The circuit a process has made ready has one claim about its input,     *)
(* because its first layer has no products.                                *)
THEOREM OneInputClaim ==
  Spec => [](\A p \in Process : circuit[p] # <<>> => SkipPhaseTwo(circuit[p][1]))
<1> DEFINE P == \A p \in Process : circuit[p] # <<>> => SkipPhaseTwo(circuit[p][1])
<1>1. LoadInv => P
  <2> SUFFICES ASSUME LoadInv, NEW p \in Process, circuit[p] # <<>> PROVE SkipPhaseTwo(circuit[p][1])
    OBVIOUS
  <2>1. PICK ls \in Flattenings(job.rc) : circuit[p] = WithRelay(ls)
    BY DEF LoadInv, CircuitInv
  <2>2. CASE SkipPhaseTwo(ls[1])
    BY <2>1, <2>2 DEF WithRelay
  <2>3. CASE ~SkipPhaseTwo(ls[1])
    <3> DEFINE l == RelayLayer(ls[1].ivars)
    <3>1. ls \in Seq(AnyLayer(job.rc))
      BY FlatteningsAre DEF LoadInv, FlatInv
    <3>2. (<<l>> \o ls)[1] = l
      BY <3>1
    <3>3. l.gates["mul"] = <<>>
      BY DEF RelayLayer, Kinds
    <3> QED BY <2>1, <2>3, <3>2, <3>3 DEF WithRelay, SkipPhaseTwo
  <2> QED BY <2>2, <2>3
<1> QED BY <1>1, LoadHolds, PTL

=============================================================================
