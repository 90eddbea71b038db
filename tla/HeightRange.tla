---------------------------- MODULE HeightRange ----------------------------
(***************************************************************************)
(* Ranges of block heights (src/src/services/chaintracker/chaintracks/     *)
(* util/HeightRange.ts).  A range whose maximum is below its minimum is    *)
(* empty, whatever the two are.  Union and Subtract throw where their      *)
(* result would be two ranges: the conditions have a name of their own.    *)
(***************************************************************************)
EXTENDS Integers

Between(min, max) == [min |-> min, max |-> max]

HeightRanges == [min : Int, max : Int]

Empty == Between(0, -1)

IsEmpty(r) == r.min > r.max

Heights(r) == r.min .. r.max

Higher(a, b) == IF a >= b THEN a ELSE b
Lower(a, b) == IF a <= b THEN a ELSE b

Length(r) == Higher(0, r.max - r.min + 1)

Intersect(r, s) == Between(Higher(r.min, s.min), Lower(r.max, s.max))

Touch(r, s) ==
  IsEmpty(r) \/ IsEmpty(s) \/ (r.max + 1 >= s.min /\ s.max + 1 >= r.min)

Union(r, s) ==
  IF IsEmpty(r) THEN s ELSE IF IsEmpty(s) THEN r
  ELSE Between(Lower(r.min, s.min), Higher(r.max, s.max))

Splits(r, s) ==
  ~IsEmpty(r) /\ ~IsEmpty(s) /\ r.min < s.min /\ r.max > s.max

Subtract(r, s) ==
  IF \/ IsEmpty(r) \/ IsEmpty(s)
     \/ s.max < r.min \/ s.min > r.max THEN r
  ELSE IF s.min > r.min THEN Between(r.min, s.min - 1)
  ELSE IF s.max < r.max THEN Between(s.max + 1, r.max)
  ELSE Between(r.min, r.min - 1)

Above(r, s) ==
  IF IsEmpty(r) \/ IsEmpty(s) THEN r ELSE Between(s.max + 1, r.max)
=============================================================================
