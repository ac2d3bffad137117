----------------------------- MODULE PlanProofs -----------------------------
(***************************************************************************)
(* Proofs about the two plans of an upload: PartPlan, for all valid        *)
(* limits, any file up to their capacity, any earlier target size, and any *)
(* number of late requests; and TransportPacks, for any files, limits,     *)
(* edits, deaths and failures.                                             *)
(*                                                                         *)
(* A part plan is good if it is the partition of the file within the       *)
(* limits (GoodPlan).  plan_parts makes good plans (PlannedPartsAreGood),  *)
(* and because the rest of a good plan's file always fits in the part      *)
(* numbers it has left (RestFits), a revision of its tail succeeds and is  *)
(* good again (RevisedPlanIsGood).  What storage holds is sent in order,   *)
(* so a listing shows the first parts of it (PageIsTheFirst), and a part a *)
(* listing can show lies where the plan has it (InPlace).                  *)
(*                                                                         *)
(* The transport plan carries the files (PlanCarriesTheFiles), which is    *)
(* proved by induction on their number, and the objects are its groups.    *)
(* PacksInv then follows each pack from the encoding to storage.  The      *)
(* budget of the cache needs its second half: a .tmp file that a crash     *)
(* left is of the object the upload comes to first, and there is no pack   *)
(* beside it (TempsAreOfTheNext) but those whose removal failed, which are *)
(* not counted (Counted).                                                  *)
(***************************************************************************)
EXTENDS PartPlan, TransportPacks, SequenceTheorems, FiniteSetTheorems, WellFoundedInduction, TLAPS

-----------------------------------------------------------------------------
(* Least and greatest numbers *)

Below == {ss \in Nat \X Nat : ss[1] < ss[2]}

LEMMA BelowIsWellFounded == IsWellFoundedOn(Below, Nat)
  BY NatLessThanWellFounded DEF OpToRel, Below

(* A set of natural numbers that is not empty has a least element, ... *)
LEMMA LeastExists ==
  ASSUME NEW S, S \subseteq Nat, S # {}
  PROVE  \E x \in S : \A y \in S : x <= y
<1>1. PICK x \in S : \A y \in S : ~ (<<y, x>> \in Below)
  BY BelowIsWellFounded, WFMin
<1>2. ASSUME NEW y \in S PROVE x <= y
  <2>1. <<y, x>> \in Below <=> y < x
    BY DEF Below
  <2> QED
    BY <1>1, <2>1
<1> QED
  BY <1>2

LEMMA MinIsLeast ==
  ASSUME NEW S, S \subseteq Nat, S # {}
  PROVE  Min(S) \in S /\ \A y \in S : Min(S) <= y
  BY LeastExists DEF Min

(* ... and a greatest if it has a bound. *)
LEMMA GreatestExists ==
  ASSUME NEW S, S \subseteq Nat, S # {}, NEW n \in Nat, \A x \in S : x <= n
  PROVE  \E x \in S : \A y \in S : y <= x
<1> DEFINE U == {u \in Nat : \A x \in S : x <= u}
<1>1. PICK u \in U : \A v \in U : u <= v
  BY LeastExists
<1>2. u \in S
  <2> SUFFICES ASSUME u \notin S PROVE FALSE
    OBVIOUS
  <2>1. \A x \in S : x < u
    BY <1>1
  <2>2. u # 0
    <3>1. PICK x \in S : TRUE
      OBVIOUS
    <3> QED
      BY <2>1, <3>1
  <2>3. u - 1 \in U
    BY <1>1, <2>1, <2>2
  <2> QED
    BY <1>1, <2>3
<1> QED
  BY <1>1, <1>2

LEMMA MaxIsGreatest ==
  ASSUME NEW S, S \subseteq Nat, S # {}, NEW n \in Nat, \A x \in S : x <= n
  PROVE  Max(S) \in S /\ \A y \in S : y <= Max(S)
  BY GreatestExists DEF Max

(* Induction, for a set: what holds of 0, and with a number of the next, holds of all. *)
LEMMA SetInduction ==
  ASSUME NEW S, 0 \in S, \A n \in Nat : n \in S => n + 1 \in S
  PROVE  \A n \in Nat : n \in S
<1> DEFINE T == Nat \ S
<1> SUFFICES ASSUME T # {} PROVE FALSE
  OBVIOUS
<1>1. PICK x \in T : \A y \in T : x <= y
  BY LeastExists
<1>2. x # 0 /\ x \in Nat
  OBVIOUS
<1>3. x - 1 \in Nat /\ x - 1 \notin T
  BY <1>1, <1>2
<1> QED
  BY <1>2, <1>3

-----------------------------------------------------------------------------
(* The planner's arithmetic *)

(* The smaller of two numbers. *)
LEMMA AtMostIsSmaller ==
  ASSUME NEW a \in Nat, NEW b \in Nat
  PROVE  AtMost(a, b) = IF a <= b THEN a ELSE b
  BY DEF AtMost, Min

(* div_ceil is the least number of pieces of size b that hold a. *)
LEMMA DivCeilHolds ==
  ASSUME NEW a \in Nat, NEW b \in Nat, b > 0
  PROVE  /\ DivCeil(a, b) \in Nat
         /\ a <= DivCeil(a, b) * b
         /\ DivCeil(a, b) * b < a + b
<1> DEFINE c == a + b - 1
<1>1. c \in Nat
  OBVIOUS
<1>2. c \div b \in Nat /\ (c \div b) * b <= c /\ c < (c \div b) * b + b
  BY <1>1
<1> QED
  BY <1>2 DEF DivCeil

LEMMA MoreIsMore ==
  ASSUME NEW a \in Nat, NEW b \in Nat, NEW c \in Nat, a <= b
  PROVE  a * c <= b * c
  OBVIOUS

LEMMA FewerPieces ==
  ASSUME NEW a \in Nat, NEW b \in Nat, NEW c \in Nat, a * c < b * c
  PROVE  a < b
  OBVIOUS

LEMMA OneMorePiece ==
  ASSUME NEW a \in Nat, NEW c \in Nat
  PROVE  (a + 1) * c = a * c + c
  OBVIOUS

(* The part size is within the limits, and as many parts as are allowed hold the file. *)
LEMMA PartSizeFits ==
  ASSUME NEW limits \in MultipartLimits, ValidLimits(limits), NEW f \in Nat,
         f <= limits.maximum * limits.parts
  PROVE  LET p == PartSize(f, limits)
         IN  p \in Nat /\ p > 0 /\ limits.minimum <= p /\ p <= limits.maximum /\ f <= p * limits.parts
<1> DEFINE d == DivCeil(f, limits.parts)
           S == {limits.target, limits.minimum, d}
           p == PartSize(f, limits)
<1>1. /\ limits.target \in Nat /\ limits.minimum \in Nat /\ limits.maximum \in Nat
      /\ limits.parts \in Nat /\ limits.minimum > 0 /\ limits.parts > 0
      /\ limits.minimum <= limits.maximum
  BY DEF MultipartLimits, ValidLimits
<1>2. d \in Nat /\ f <= d * limits.parts
  BY <1>1, DivCeilHolds
<1> HIDE DEF d
<1>3. Max(S) \in Nat /\ limits.minimum <= Max(S) /\ d <= Max(S)
  <2> DEFINE n == limits.target + limits.minimum + d
  <2>1. S \subseteq Nat /\ S # {} /\ n \in Nat /\ \A x \in S : x <= n
    BY <1>1, <1>2
  <2>2. limits.minimum \in S /\ d \in S
    OBVIOUS
  <2> HIDE DEF S, n
  <2> QED
    BY <2>1, <2>2, MaxIsGreatest
<1>4. p = AtMost(Max(S), limits.maximum)
  BY DEF PartSize, d
<1> HIDE DEF S, p
<1>5. p = IF Max(S) <= limits.maximum THEN Max(S) ELSE limits.maximum
  BY <1>1, <1>3, <1>4, AtMostIsSmaller
<1>6. d * limits.parts <= Max(S) * limits.parts
  BY <1>1, <1>2, <1>3, MoreIsMore
<1>7. f <= p * limits.parts
  <2>1. CASE p = Max(S)
    <3>1. Max(S) * limits.parts \in Nat /\ d * limits.parts \in Nat
      BY <1>1, <1>2, <1>3
    <3> QED
      BY <1>2, <1>6, <2>1, <3>1
  <2>2. CASE p = limits.maximum
    BY <2>2
  <2> QED
    BY <1>5, <2>1, <2>2
<1>8. p \in Nat /\ p > 0 /\ limits.minimum <= p /\ p <= limits.maximum
  BY <1>1, <1>3, <1>5
<1> QED
  BY <1>7, <1>8 DEF p

-----------------------------------------------------------------------------
(* A plan *)

Etags == [offset : Nat, length : Nat]
PartRow == [offset : Nat, length : Nat, complete : BOOLEAN, etag : Etags]

(* What every plan is, fresh or revised: the partition of a file of f bytes the loop checks
   for, within the limits, with no empty part but that of an empty file, and with the ETag of
   the bytes it was given under a confirmed part.                                           *)
PartFits(part, last, f, limits) ==
    /\ part.length <= limits.maximum
    /\ ~ last => part.length >= limits.minimum
    /\ part.length = 0 <=> f = 0
    /\ part.complete => part.etag = Bytes(part.offset, part.length)

GoodPlan(ps, f, limits) ==
    /\ ps \in Seq(PartRow)
    /\ Covers(ps, f)
    /\ Len(ps) <= limits.parts
    /\ \A n \in 1..Len(ps) : PartFits(ps[n], n = Len(ps), f, limits)

LEMMA RowsArePartRows ==
  ASSUME NEW ps \in Seq(PartRow), NEW n \in 1..Len(ps)
  PROVE  /\ ps[n] \in PartRow
         /\ ps[n].offset \in Nat /\ ps[n].length \in Nat /\ ps[n].etag \in Etags
         /\ ps[n].complete \in BOOLEAN
<1>1. ps[n] \in PartRow
  OBVIOUS
<1> QED
  BY <1>1 DEF PartRow

LEMMA ShiftedRow ==
  ASSUME NEW part \in PartRow, NEW start \in Nat
  PROVE  /\ Shifted(part, start) \in PartRow
         /\ Shifted(part, start).offset = part.offset + start
         /\ Shifted(part, start).length = part.length
         /\ Shifted(part, start).complete = part.complete
  BY DEF Shifted, PartRow

(* plan_parts plans every file the limits and u64 can hold. *)
LEMMA PlannedPartsAreGood ==
  ASSUME NEW limits \in MultipartLimits, ValidLimits(limits), NEW f \in Nat,
         f <= limits.maximum * limits.parts, f <= MaxU64
  PROVE  /\ plan_parts(f, limits).error = "none"
         /\ GoodPlan(plan_parts(f, limits).parts, f, limits)
         /\ \A n \in 1..Len(plan_parts(f, limits).parts) :
               ~ plan_parts(f, limits).parts[n].complete
<1>0. /\ limits.minimum \in Nat /\ limits.maximum \in Nat
      /\ limits.parts \in Nat /\ limits.minimum > 0 /\ limits.parts > 0
      /\ limits.minimum <= limits.maximum /\ MaxU64 \in Nat
  BY PartPlanAssumption DEF MultipartLimits, ValidLimits
<1>1. Capacity(limits) \in Nat /\ f <= Capacity(limits)
  <2>1. limits.maximum * limits.parts \in Nat
    BY <1>0
  <2> QED
    BY <1>0, <2>1, AtMostIsSmaller DEF Capacity
<1>2. CASE f = 0
  <2>1. plan_parts(f, limits) = Plan(<<Part(0, 0)>>)
    <3>1. ValidLimits(limits) /\ ~ (f > Capacity(limits))
      BY <1>1
    <3> QED
      BY <1>2, <3>1 DEF plan_parts
  <2>2. Part(0, 0) \in PartRow
    BY <1>0 DEF Part, PartRow, Etags, NoEtag, Bytes
  <2> DEFINE ps == <<Part(0, 0)>>
  <2>3. ps \in Seq(PartRow) /\ Len(ps) = 1 /\ ps[1] = Part(0, 0)
    BY <2>2
  <2>4. Covers(ps, f)
    BY <1>2, <2>3 DEF Covers, Part
  <2>5. GoodPlan(ps, f, limits)
    BY <1>0, <1>2, <2>3, <2>4 DEF GoodPlan, PartFits, Part
  <2> QED
    BY <2>1, <2>3, <2>5 DEF Plan, Part
<1>3. CASE f > 0
  <2> DEFINE p == PartSize(f, limits)
             N == DivCeil(f, p)
             part(n) == Part((n - 1) * p, AtMost(f - (n - 1) * p, p))
             ps == [n \in 1..N |-> part(n)]
  <2>1. /\ p \in Nat /\ p > 0 /\ limits.minimum <= p /\ p <= limits.maximum
        /\ f <= p * limits.parts
    BY PartSizeFits
  <2>2. plan_parts(f, limits) = Plan(ps)
    <3>1. ValidLimits(limits) /\ ~ (f > Capacity(limits)) /\ f # 0
      BY <1>1, <1>3
    <3> QED
      BY <3>1 DEF plan_parts
  <2> HIDE DEF p
  <2>3. N \in Nat /\ f <= N * p /\ N * p < f + p
    BY <2>1, DivCeilHolds
  <2> HIDE DEF N
  <2>4. N >= 1
    BY <1>3, <2>1, <2>3
  <2>5. N <= limits.parts
    <3>1. N - 1 \in Nat /\ N * p = (N - 1) * p + p
      BY <2>1, <2>3, <2>4
    <3>2. (N - 1) * p < limits.parts * p
      BY <1>0, <2>1, <2>3, <3>1
    <3>3. N - 1 < limits.parts
      BY <1>0, <2>1, <3>1, <3>2, FewerPieces
    <3> QED
      BY <1>0, <2>3, <3>3
  <2>6. ASSUME NEW n \in 1..N
        PROVE  /\ (n - 1) * p \in Nat
               /\ n * p = (n - 1) * p + p
               /\ n < N => n * p < f /\ AtMost(f - (n - 1) * p, p) = p
               /\ n = N => /\ AtMost(f - (n - 1) * p, p) = f - (n - 1) * p
                           /\ f - (n - 1) * p > 0
    <3>1. (n - 1) * p \in Nat /\ n * p = (n - 1) * p + p /\ n * p \in Nat
      BY <2>1, <2>3
    <3>2. (N - 1) * p \in Nat /\ N * p = (N - 1) * p + p
      BY <2>1, <2>3, <2>4
    <3>3. CASE n < N
      <4>1. n * p <= (N - 1) * p
        BY <2>1, <2>3, <3>3, MoreIsMore
      <4>2. n * p < f
        BY <2>1, <2>3, <3>1, <3>2, <4>1
      <4>3. f - (n - 1) * p \in Nat /\ f - (n - 1) * p >= p
        BY <2>1, <3>1, <4>2
      <4> QED
        BY <2>1, <3>1, <3>3, <4>2, <4>3, AtMostIsSmaller
    <3>4. CASE n = N
      <4>1. f - (n - 1) * p \in Nat /\ f - (n - 1) * p <= p /\ f - (n - 1) * p > 0
        BY <2>1, <2>3, <3>1, <3>2, <3>4
      <4> QED
        BY <2>1, <3>1, <3>4, <4>1, AtMostIsSmaller
    <3> QED
      BY <2>3, <3>3, <3>4
  <2>7. ASSUME NEW n \in 1..N
        PROVE  /\ part(n) \in PartRow /\ part(n).offset = (n - 1) * p /\ ~ part(n).complete
               /\ part(n).length = IF n < N THEN p ELSE f - (n - 1) * p
               /\ PartFits(part(n), n = N, f, limits)
    <3>1. part(n).length = IF n < N THEN p ELSE f - (n - 1) * p
      <4>1. part(n).length = AtMost(f - (n - 1) * p, p)
        BY DEF Part
      <4>2. n < N \/ n = N
        BY <2>3
      <4> QED
        BY <2>6, <4>1, <4>2
    <3>2. part(n).length \in Nat /\ part(n).length > 0 /\ part(n).length <= p
          /\ (n < N => part(n).length = p)
      BY <2>1, <2>3, <2>6, <3>1, AtMostIsSmaller
    <3>3. part(n) \in PartRow /\ part(n).offset = (n - 1) * p /\ part(n).complete = FALSE
      BY <1>0, <2>6, <3>2 DEF Part, PartRow, Etags, NoEtag, Bytes
    <3>4. PartFits(part(n), n = N, f, limits)
      BY <1>0, <1>3, <2>1, <2>3, <3>2, <3>3 DEF PartFits
    <3> QED
      BY <3>1, <3>3, <3>4
  <2> HIDE DEF part
  <2>8. ps \in Seq(PartRow) /\ Len(ps) = N /\ \A n \in 1..N : ps[n] = part(n)
    BY <2>3, <2>7
  <2> HIDE DEF ps
  <2>9. Covers(ps, f)
    <3>1. ps[1].offset = 0
      BY <2>1, <2>4, <2>3, <2>7, <2>8
    <3>2. ASSUME NEW n \in 1..(N - 1) PROVE ps[n + 1].offset = ps[n].offset + ps[n].length
      <4>1. n \in 1..N /\ n + 1 \in 1..N /\ n < N
        BY <2>3
      <4>2. ps[n + 1].offset = (n + 1 - 1) * p /\ ps[n].offset = (n - 1) * p /\ ps[n].length = p
        BY <2>7, <2>8, <4>1
      <4>3. (n + 1 - 1) * p = n * p
        BY <2>1, <4>1
      <4> QED
        BY <2>6, <4>1, <4>2, <4>3
    <3>3. ps[N].offset + ps[N].length = f
      <4>1. ps[N].offset = (N - 1) * p /\ ps[N].length = f - (N - 1) * p
        BY <2>3, <2>4, <2>7, <2>8
      <4> QED
        BY <2>3, <2>4, <2>6, <4>1
    <3> QED
      BY <2>3, <2>4, <2>8, <3>1, <3>2, <3>3 DEF Covers
  <2>10. GoodPlan(ps, f, limits)
    BY <2>5, <2>7, <2>8, <2>9 DEF GoodPlan
  <2> QED
    BY <2>2, <2>7, <2>8, <2>10 DEF Plan
<1> QED
  BY <1>2, <1>3

(* One part back. *)
LEMMA OnePartBack ==
  ASSUME NEW f \in Nat, NEW o \in Nat, NEW l \in Nat, NEW m \in Nat, NEW r \in Nat,
         l <= m, o + l <= f, f - (o + l) <= r
  PROVE  o <= f /\ f - o <= r + m
  OBVIOUS

(* From any part on, the rest of the file fits in the rest of the parts. *)
LEMMA RestFits ==
  ASSUME NEW limits \in MultipartLimits, NEW f \in Nat, NEW ps, GoodPlan(ps, f, limits),
         NEW n \in 1..Len(ps)
  PROVE  /\ ps[n].offset \in Nat /\ ps[n].offset <= f /\ ps[n].offset + ps[n].length <= f
         /\ f - ps[n].offset <= (Len(ps) - n + 1) * limits.maximum
<1> DEFINE L == Len(ps)
           M == limits.maximum
           Reaches(i) == ps[i].offset <= f /\ f - ps[i].offset <= (L - i + 1) * M
           Short == {i \in 1..L : ~ Reaches(i)}
<1>1. /\ L \in Nat /\ L > 0 /\ M \in Nat
      /\ \A i \in 1..L : ps[i].offset \in Nat /\ ps[i].length \in Nat /\ ps[i].length <= M
      /\ \A i \in 1..(L - 1) : ps[i + 1].offset = ps[i].offset + ps[i].length
      /\ ps[L].offset + ps[L].length = f
  <2>1. ps \in Seq(PartRow) /\ L \in Nat /\ M \in Nat
    BY DEF GoodPlan, MultipartLimits
  <2>2. \A i \in 1..L : ps[i].offset \in Nat /\ ps[i].length \in Nat
    BY <2>1, RowsArePartRows
  <2>3. \A i \in 1..L : ps[i].length <= M
    BY DEF GoodPlan, PartFits
  <2> QED
    BY <2>1, <2>2, <2>3 DEF GoodPlan, Covers
<1> HIDE DEF L, M
<1>2. Short = {}
  <2> SUFFICES ASSUME Short # {} PROVE FALSE
    OBVIOUS
  <2>1. PICK i \in Short : \A j \in Short : j <= i
    <3>1. Short \subseteq Nat /\ \A j \in Short : j <= L
      BY <1>1
    <3> HIDE DEF Short
    <3> QED
      BY <1>1, <3>1, GreatestExists
  <2>2. i \in 1..L /\ ~ Reaches(i)
    OBVIOUS
  <2>3. i # L
    <3> SUFFICES ASSUME i = L PROVE Reaches(L)
      BY <2>2
    <3>1. (L - L + 1) * M = M
      BY <1>1
    <3>2. ps[L].offset <= f /\ f - ps[L].offset <= M
      <4> DEFINE o == ps[L].offset
                 l == ps[L].length
      <4>1. o \in Nat /\ l \in Nat /\ l <= M /\ o + l = f
        BY <1>1
      <4> HIDE DEF o, l
      <4>2. o <= f /\ f - o <= M
        BY <1>1, <4>1
      <4> QED
        BY <4>2 DEF o
    <3> QED
      BY <3>1, <3>2
  <2>4. i + 1 \in 1..L /\ Reaches(i + 1)
    BY <1>1, <2>1, <2>2, <2>3
  <2> HIDE DEF Short
  <2>5. i \in 1..(L - 1) /\ i \in Nat /\ ps[i + 1].offset = ps[i].offset + ps[i].length
    <3>1. i \in 1..(L - 1)
      BY <1>1, <2>2, <2>3
    <3> QED
      BY <1>1, <3>1
  <2>6. (L - (i + 1) + 1) * M + M = (L - i + 1) * M
    <3>1. L - i \in Nat /\ L - (i + 1) + 1 = L - i
      BY <1>1, <2>5
    <3> QED
      BY <1>1, <3>1, OneMorePiece
  <2>7. (L - (i + 1) + 1) * M \in Nat /\ (L - i + 1) * M \in Nat
    BY <1>1, <2>2, <2>4
  <2> QED
    <3>1. /\ ps[i].offset \in Nat /\ ps[i].length \in Nat /\ ps[i].length <= M
          /\ ps[i + 1].offset \in Nat
      BY <1>1, <2>2, <2>4
    <3> DEFINE far == (L - (i + 1) + 1) * M
               farther == (L - i + 1) * M
    <3>2. far \in Nat /\ far + M = farther
      BY <2>6, <2>7
    <3>3. ps[i + 1].offset <= f /\ f - ps[i + 1].offset <= far
      BY <2>4
    <3> HIDE DEF far
    <3>4. ps[i].offset <= f /\ f - ps[i].offset <= far + M
      <4> DEFINE o == ps[i].offset
                 l == ps[i].length
      <4>1. o \in Nat /\ l \in Nat /\ l <= M /\ o + l <= f /\ f - (o + l) <= far
        BY <2>5, <3>1, <3>3
      <4> HIDE DEF o, l
      <4>2. o <= f /\ f - o <= far + M
        BY <1>1, <3>2, <4>1, OnePartBack
      <4> QED
        BY <4>2 DEF o
    <3>5. Reaches(i)
      BY <3>2, <3>4
    <3> QED
      BY <2>2, <3>5
<1>3. Reaches(n)
  BY <1>2 DEF L
<1>4. ps[n].offset + ps[n].length <= f
  <2>1. CASE n = L
    BY <1>1, <2>1
  <2>2. CASE n # L
    <3>1. n \in 1..(L - 1) /\ n + 1 \in 1..L
      BY <1>1, <2>2 DEF L
    <3>2. Reaches(n + 1)
      BY <1>2, <3>1
    <3> QED
      BY <1>1, <3>1, <3>2
  <2> QED
    BY <2>1, <2>2
<1> QED
  BY <1>1, <1>3, <1>4 DEF L, M

(* take_while(Complete).count(): all parts up to it are confirmed. *)
LEMMA ConfirmedPrefixIsConfirmed ==
  ASSUME NEW ps \in Seq(PartRow)
  PROVE  /\ ConfirmedPrefix(ps) \in 0..Len(ps)
         /\ \A n \in 1..ConfirmedPrefix(ps) : ps[n].complete
<1> DEFINE S == {k \in 0..Len(ps) : \A n \in 1..k : ps[n].complete}
<1>1. S \subseteq Nat /\ 0 \in S /\ \A k \in S : k <= Len(ps)
  OBVIOUS
<1>2. Max(S) \in S
  <2>1. Len(ps) \in Nat /\ S # {}
    BY <1>1
  <2> HIDE DEF S
  <2> QED
    BY <1>1, <2>1, MaxIsGreatest
<1> QED
  BY <1>2 DEF ConfirmedPrefix

(* A revision of a good plan is never refused, is a good plan, leaves every confirmed part
   where it was, and confirms no other.                                                   *)
Revises(new, ps) ==
    /\ \A n \in 1..Len(ps) : ps[n].complete => n <= Len(new) /\ new[n] = ps[n]
    /\ \A n \in 1..Len(new) : new[n].complete => n <= Len(ps) /\ ps[n].complete

LEMMA RevisedPlanIsGood ==
  ASSUME NEW f \in Nat, f <= MaxU64, NEW ps, GoodPlan(ps, f, Limits)
  PROVE  LET revised == replan_large_unconfirmed_parts(f, ps)
         IN  /\ revised.error = "none"
             /\ GoodPlan(revised.parts, f, Limits)
             /\ Revises(revised.parts, ps)
<1> DEFINE k == ConfirmedPrefix(ps)
           tail == SubSeq(ps, k + 1, Len(ps))
           start == tail[1].offset
           new == plan_parts(f - start, TailLimits(k))
           L == Len(ps)
           Kept == \/ tail = <<>>
                   \/ \E n \in 1..Len(tail) : tail[n].complete
                   \/ \A n \in 1..Len(tail) : tail[n].length <= Limits.target
           whole == SubSeq(ps, 1, k) \o [n \in 1..Len(new.parts) |-> Shifted(new.parts[n], start)]
<1>0. /\ ps \in Seq(PartRow) /\ L \in Nat /\ L > 0 /\ L <= Limits.parts
      /\ k \in 0..L /\ \A n \in 1..k : ps[n].complete
  BY ConfirmedPrefixIsConfirmed DEF GoodPlan, Covers
<1>r. replan_large_unconfirmed_parts(f, ps) =
        IF Kept THEN Plan(ps)
        ELSE IF ~ Covers(ps, f) \/ k > Limits.parts THEN PlanError("InvalidLimits")
        ELSE IF new.error # "none" THEN new
        ELSE Plan(whole)
  BY DEF replan_large_unconfirmed_parts
<1>1. CASE Kept
  <2> HIDE DEF Kept, whole, new
  <2>1. replan_large_unconfirmed_parts(f, ps) = Plan(ps)
    BY <1>1, <1>r
  <2> QED
    BY <1>0, <2>1 DEF Plan, Revises
<1>2. CASE ~ Kept
  <2> HIDE DEF k
  <2>1. /\ tail \in Seq(PartRow) /\ Len(tail) = L - k
        /\ \A n \in 1..(L - k) : tail[n] = ps[k + n]
    BY <1>0, SubSeqProperties
  <2>2. k < L
    <3>1. Len(tail) # 0
      BY <1>2, <2>1, EmptySeq
    <3> QED
      BY <1>0, <2>1, <3>1
  <2>3. /\ start = ps[k + 1].offset /\ start \in Nat /\ start <= f
        /\ f - start <= (L - k) * Limits.maximum /\ start + ps[k + 1].length <= f
    <3>1. k + 1 \in 1..L /\ tail[1] = ps[k + 1] /\ L - (k + 1) + 1 = L - k
      BY <1>0, <2>1, <2>2
    <3> QED
      BY <3>1, PartPlanAssumption, RestFits
  <2>4. \A n \in (k + 1)..L : ~ ps[n].complete
    <3> SUFFICES ASSUME NEW n \in (k + 1)..L PROVE ~ ps[n].complete
      OBVIOUS
    <3>1. n - k \in 1..(L - k) /\ tail[n - k] = ps[n]
      BY <1>0, <2>1
    <3> QED
      BY <1>2, <2>1, <3>1
  <2> HIDE DEF tail, start
  <2>5. /\ TailLimits(k) \in MultipartLimits /\ ValidLimits(TailLimits(k))
        /\ TailLimits(k).parts = Limits.parts - k /\ TailLimits(k).maximum = Limits.maximum
        /\ TailLimits(k).minimum = Limits.minimum
    BY <1>0, <2>2, PartPlanAssumption DEF TailLimits, MultipartLimits, ValidLimits
  <2>6. f - start <= Limits.maximum * (Limits.parts - k)
    <3>1. Limits.maximum \in Nat /\ L - k \in Nat /\ Limits.parts - k \in Nat /\ L - k <= Limits.parts - k
      BY <1>0, PartPlanAssumption DEF MultipartLimits
    <3>2. (L - k) * Limits.maximum <= (Limits.parts - k) * Limits.maximum
      BY <3>1, MoreIsMore
    <3>3. /\ (Limits.parts - k) * Limits.maximum = Limits.maximum * (Limits.parts - k)
          /\ (L - k) * Limits.maximum \in Nat /\ (Limits.parts - k) * Limits.maximum \in Nat
      BY <3>1
    <3> DEFINE a == f - start
               b == (L - k) * Limits.maximum
               c == (Limits.parts - k) * Limits.maximum
    <3>4. a \in Nat /\ b \in Nat /\ c \in Nat /\ a <= b /\ b <= c
      BY <2>3, <3>2, <3>3
    <3> HIDE DEF a, b, c
    <3>5. a <= c
      BY <3>4
    <3> QED
      BY <3>3, <3>5 DEF a, c
  <2>7. /\ new.error = "none" /\ GoodPlan(new.parts, f - start, TailLimits(k))
        /\ \A n \in 1..Len(new.parts) : ~ new.parts[n].complete
    BY <2>3, <2>5, <2>6, PlannedPartsAreGood, PartPlanAssumption
  <2> HIDE DEF new
  <2>8. replan_large_unconfirmed_parts(f, ps) = Plan(whole)
    <3>1. Covers(ps, f) /\ ~ (k > Limits.parts)
      BY <1>0, PartPlanAssumption DEF GoodPlan, MultipartLimits
    <3> HIDE DEF Kept, whole
    <3> QED
      BY <1>2, <1>r, <2>7, <3>1
  <2> DEFINE N == Len(new.parts)
             head == SubSeq(ps, 1, k)
             moved == [n \in 1..N |-> Shifted(new.parts[n], start)]
  <2>9. /\ new.parts \in Seq(PartRow) /\ N \in Nat /\ N > 0 /\ N <= Limits.parts - k
        /\ Covers(new.parts, f - start)
        /\ \A n \in 1..N : PartFits(new.parts[n], n = N, f - start, TailLimits(k))
    BY <2>5, <2>7 DEF GoodPlan, Covers
  <2>10. head \in Seq(PartRow) /\ Len(head) = k /\ \A n \in 1..k : head[n] = ps[n]
    BY <1>0, SubSeqProperties
  <2>11. \A n \in 1..N : /\ Shifted(new.parts[n], start) \in PartRow
                         /\ Shifted(new.parts[n], start).offset = new.parts[n].offset + start
                         /\ Shifted(new.parts[n], start).length = new.parts[n].length
                         /\ Shifted(new.parts[n], start).complete = FALSE
    <3> SUFFICES ASSUME NEW n \in 1..N
                 PROVE  /\ Shifted(new.parts[n], start) \in PartRow
                        /\ Shifted(new.parts[n], start).offset = new.parts[n].offset + start
                        /\ Shifted(new.parts[n], start).length = new.parts[n].length
                        /\ Shifted(new.parts[n], start).complete = FALSE
      OBVIOUS
    <3>1. new.parts[n] \in PartRow /\ new.parts[n].complete \in BOOLEAN
      BY <2>9, RowsArePartRows
    <3>2. new.parts[n].complete = FALSE
      BY <2>7, <3>1
    <3> QED
      BY <2>3, <3>1, <3>2, ShiftedRow
  <2> HIDE DEF N
  <2>12. moved \in Seq(PartRow) /\ Len(moved) = N
         /\ \A n \in 1..N : moved[n] = Shifted(new.parts[n], start)
    BY <2>9, <2>11
  <2> HIDE DEF head, moved
  <2>13. /\ whole \in Seq(PartRow) /\ Len(whole) = k + N
         /\ \A n \in 1..k : whole[n] = ps[n]
         /\ \A n \in 1..N : whole[k + n] = Shifted(new.parts[n], start)
    <3>1. whole = head \o moved
      BY DEF head, moved, N
    <3> HIDE DEF whole
    <3>2. /\ whole \in Seq(PartRow) /\ Len(whole) = k + N
          /\ \A n \in 1..(k + N) : whole[n] = IF n <= k THEN head[n] ELSE moved[n - k]
      BY <2>10, <2>12, <3>1, ConcatProperties
    <3>3. \A n \in 1..k : n \in 1..(k + N) /\ n <= k
      BY <1>0, <2>9
    <3>4. ASSUME NEW n \in 1..k PROVE whole[n] = ps[n]
      BY <2>10, <3>2, <3>3, <3>4
    <3>5. ASSUME NEW n \in 1..N PROVE whole[k + n] = Shifted(new.parts[n], start)
      <4> DEFINE j == k + n
      <4>1. j \in 1..(k + N) /\ ~ (j <= k) /\ j - k = n
        BY <1>0, <2>9, <3>5
      <4> HIDE DEF j
      <4>2. whole[j] = IF j <= k THEN head[j] ELSE moved[j - k]
        BY <3>2, <4>1
      <4>3. whole[j] = moved[n]
        BY <4>1, <4>2
      <4> QED
        BY <2>12, <3>5, <4>3 DEF j
    <3> QED
      BY <3>2, <3>4, <3>5
  <2> HIDE DEF whole
  <2>14. /\ ps[1].offset = 0
         /\ \A n \in 1..(L - 1) : ps[n + 1].offset = ps[n].offset + ps[n].length
         /\ new.parts[1].offset = 0
         /\ \A n \in 1..(N - 1) :
               new.parts[n + 1].offset = new.parts[n].offset + new.parts[n].length
         /\ new.parts[N].offset + new.parts[N].length = f - start
    BY <2>9 DEF GoodPlan, Covers, N
  <2>15. whole[k + 1].offset = start
    BY <2>3, <2>9, <2>11, <2>13, <2>14
  <2>16. Covers(whole, f)
    <3>1. whole[1].offset = 0
      BY <1>0, <2>3, <2>13, <2>14, <2>15
    <3>2. ASSUME NEW n \in 1..(k + N - 1)
          PROVE  whole[n + 1].offset = whole[n].offset + whole[n].length
      <4>1. CASE n < k
        <5>1. n \in 1..k /\ n + 1 \in 1..k /\ n \in 1..(L - 1)
          BY <1>0, <4>1
        <5> QED
          BY <2>13, <2>14, <5>1
      <4>2. CASE n = k
        <5>1. n \in 1..k /\ n \in 1..(L - 1)
          BY <1>0, <2>2, <4>2
        <5> QED
          BY <2>3, <2>13, <2>14, <2>15, <4>2, <5>1
      <4>3. CASE n > k
        <5> DEFINE i == n - k
        <5>1. i \in 1..(N - 1) /\ i \in 1..N /\ i + 1 \in 1..N /\ n = k + i /\ n + 1 = k + (i + 1)
          BY <1>0, <2>9, <4>3
        <5> HIDE DEF i
        <5>2. /\ whole[n].offset = new.parts[i].offset + start
              /\ whole[n].length = new.parts[i].length
              /\ whole[n + 1].offset = new.parts[i + 1].offset + start
          BY <2>11, <2>13, <5>1
        <5>3. new.parts[i].offset \in Nat /\ new.parts[i].length \in Nat
          BY <2>9, <5>1, RowsArePartRows DEF N
        <5> QED
          <6>1. new.parts[i + 1].offset = new.parts[i].offset + new.parts[i].length
            BY <2>14, <5>1
          <6> DEFINE o == new.parts[i].offset
                     l == new.parts[i].length
          <6>2. o \in Nat /\ l \in Nat /\ start \in Nat
            BY <2>3, <5>3
          <6> HIDE DEF o, l
          <6>3. (o + l) + start = (o + start) + l
            BY <6>2
          <6> QED
            BY <5>2, <6>1, <6>3 DEF o, l
      <4> QED
        BY <1>0, <4>1, <4>2, <4>3
    <3>3. whole[k + N].offset + whole[k + N].length = f
      <4>1. /\ whole[k + N].offset = new.parts[N].offset + start
            /\ whole[k + N].length = new.parts[N].length
        BY <2>9, <2>11, <2>13
      <4>2. new.parts[N].offset \in Nat /\ new.parts[N].length \in Nat
        BY <2>9, RowsArePartRows DEF N
      <4> QED
        <5> DEFINE o == new.parts[N].offset
                   l == new.parts[N].length
        <5>1. o + l = f - start /\ o \in Nat /\ l \in Nat /\ f \in Nat /\ start \in Nat
          BY <2>3, <2>14, <4>2
        <5> HIDE DEF o, l
        <5>2. (o + start) + l = f
          BY <5>1
        <5> QED
          BY <4>1, <5>2 DEF o, l
    <3> QED
      BY <1>0, <2>9, <2>13, <3>1, <3>2, <3>3 DEF Covers
  <2>17. f - start = 0 <=> f = 0
    <3>1. ps[k + 1].length \in Nat /\ (ps[k + 1].length = 0 <=> f = 0)
      <4>1. k + 1 \in 1..L
        BY <1>0, <2>2
      <4> QED
        BY <1>0, <4>1, RowsArePartRows DEF GoodPlan, PartFits
    <3> QED
      BY <2>3, <3>1
  <2>18. ASSUME NEW n \in 1..(k + N) PROVE PartFits(whole[n], n = k + N, f, Limits)
    <3>1. CASE n <= k
      <4>1. n \in 1..L /\ n # L /\ n # k + N /\ whole[n] = ps[n]
        BY <1>0, <2>2, <2>9, <2>13, <3>1
      <4> QED
        BY <4>1 DEF GoodPlan, PartFits
    <3>2. CASE n > k
      <4> DEFINE i == n - k
      <4>1. i \in 1..N /\ n = k + i /\ (n = k + N <=> i = N)
        BY <1>0, <2>9, <3>2
      <4> HIDE DEF i
      <4>2. /\ whole[n].length = new.parts[i].length /\ whole[n].complete = FALSE
            /\ PartFits(new.parts[i], i = N, f - start, TailLimits(k))
        BY <2>9, <2>11, <2>13, <4>1
      <4> QED
        BY <2>5, <2>17, <4>1, <4>2 DEF PartFits
    <3> QED
      BY <1>0, <3>1, <3>2
  <2>19. GoodPlan(whole, f, Limits)
    <3>1. k + N <= Limits.parts
      BY <1>0, <2>9, PartPlanAssumption DEF MultipartLimits
    <3> QED
      BY <2>13, <2>16, <2>18, <3>1 DEF GoodPlan
  <2>20. Revises(whole, ps)
    <3>1. ASSUME NEW n \in 1..L, ps[n].complete PROVE n <= k + N /\ whole[n] = ps[n]
      <4>1. n \in 1..k
        BY <1>0, <2>4, <3>1
      <4> QED
        BY <1>0, <2>9, <2>13, <4>1
    <3>2. ASSUME NEW n \in 1..(k + N), whole[n].complete PROVE n <= L /\ ps[n].complete
      <4>1. CASE n <= k
        BY <1>0, <2>13, <4>1
      <4>2. CASE n > k
        <5>1. n - k \in 1..N /\ n = k + (n - k)
          BY <1>0, <2>9, <4>2
        <5> QED
          BY <2>11, <2>13, <3>2, <5>1
      <4> QED
        BY <1>0, <2>9, <4>1, <4>2
    <3> QED
      BY <2>13, <3>1, <3>2 DEF Revises
  <2> QED
    BY <2>8, <2>19, <2>20 DEF Plan
<1> QED
  BY <1>1, <1>2

-----------------------------------------------------------------------------
(* The reconciliation *)

Listing == [number : Nat \ {0}, etag : Etags]

(* Every listed part is one of the plan, with the plan's length. *)
Matches(ps, listed) ==
    \A r \in listed : r.number <= Len(ps) /\ r.etag.length = ps[r.number].length

(* A page is what is listed, and of parts numbered without a gap the first PageSize. *)
LEMMA PageIsTheFirst ==
  ASSUME NEW listed \in SUBSET Listing, NEW K \in Nat, Numbers(listed) = 1..K
  PROVE  Page(listed) = {r \in listed : r.number <= PageSize}
<1> SUFFICES ASSUME NEW r \in listed
             PROVE  Cardinality({n \in 1..K : n < r.number}) < PageSize <=> r.number <= PageSize
  BY DEF Page
<1>1. r.number \in 1..K
  BY DEF Numbers
<1>2. {n \in 1..K : n < r.number} = 1..(r.number - 1)
  BY <1>1
<1>3. Cardinality(1..(r.number - 1)) = r.number - 1
  BY <1>1, FS_Interval
<1>4. Cardinality({n \in 1..K : n < r.number}) = r.number - 1
  BY <1>2, <1>3
<1>5. r.number - 1 < PageSize <=> r.number <= PageSize
  BY <1>1, PartPlanAssumption
<1> QED
  BY <1>4, <1>5

(* A listing that matches is accepted, and one that is accepted matches: storage lists no
   empty part but that of an empty file.                                                 *)
LEMMA MatchingIsAccepted ==
  ASSUME NEW listed \in SUBSET Listing, NEW ps \in Seq(PartRow), Matches(ps, listed)
  PROVE  ReconcileError(ps, listed) = "none"
<1>1. \A r \in listed : r.number \in Nat /\ Len(ps) \in Nat
  BY DEF Listing
<1> QED
  BY <1>1 DEF Matches, ReconcileError

LEMMA AcceptedMatches ==
  ASSUME NEW f \in Nat, NEW ps, GoodPlan(ps, f, Limits), NEW listed \in SUBSET Listing,
         \A r \in listed : r.etag.length = 0 <=> f = 0,
         ReconcileError(ps, listed) = "none"
  PROVE  Matches(ps, listed)
<1> SUFFICES ASSUME NEW r \in listed
             PROVE  r.number <= Len(ps) /\ r.etag.length = ps[r.number].length
  BY DEF Matches
<1>0. r.number \in Nat /\ r.number > 0 /\ r.etag.length \in Nat /\ Len(ps) \in Nat
  BY DEF Listing, Etags, GoodPlan
<1>1. ~ (r.number > Len(ps)) /\ ~ (r.etag.length # 0 /\ r.etag.length # ps[r.number].length)
  BY DEF ReconcileError
<1>2. r.number \in 1..Len(ps)
  BY <1>0, <1>1
<1>3. ps[r.number].length = 0 <=> f = 0
  BY <1>2 DEF GoodPlan, PartFits
<1> QED
  BY <1>0, <1>1, <1>3

(* What is listed is confirmed, everything else is pending, and nothing moves. *)
LEMMA ReconciledPlanIsGood ==
  ASSUME NEW f \in Nat, NEW ps, GoodPlan(ps, f, Limits), NEW listed \in SUBSET Listing,
         Matches(ps, listed), \A r \in listed : r.etag.offset = ps[r.number].offset
  PROVE  LET new == reconcile_remote_parts(ps, listed)
         IN  /\ GoodPlan(new, f, Limits)
             /\ Len(new) = Len(ps)
             /\ \A n \in 1..Len(ps) : /\ new[n].offset = ps[n].offset
                                      /\ new[n].length = ps[n].length
             /\ \A n \in 1..Len(ps) : new[n].complete <=> \E r \in listed : r.number = n
             /\ \A r \in listed : r.number \in 1..Len(ps) /\ new[r.number].complete
<1> DEFINE new == reconcile_remote_parts(ps, listed)
           L == Len(ps)
           Row(n) == IF \E r \in listed : r.number = n
                     THEN [ps[n] EXCEPT !.complete = TRUE,
                                        !.etag = (CHOOSE r \in listed : r.number = n).etag]
                     ELSE Part(ps[n].offset, ps[n].length)
<1>1. ps \in Seq(PartRow) /\ L \in Nat /\ L > 0 /\ NoEtag \in Etags
  BY PartPlanAssumption DEF GoodPlan, Covers, NoEtag, Etags, Bytes
<1>2. ASSUME NEW n \in 1..L
      PROVE  /\ Row(n) \in PartRow /\ Row(n).offset = ps[n].offset /\ Row(n).length = ps[n].length
             /\ Row(n).complete <=> \E r \in listed : r.number = n
             /\ Row(n).complete => Row(n).etag = Bytes(ps[n].offset, ps[n].length)
  <2>1. ps[n] \in PartRow /\ ps[n].offset \in Nat /\ ps[n].length \in Nat
    BY <1>1, RowsArePartRows
  <2>2. CASE \E r \in listed : r.number = n
    <3> DEFINE x == CHOOSE r \in listed : r.number = n
               e == x.etag
    <3>a. x \in listed /\ x.number = n
      BY <2>2
    <3> HIDE DEF x
    <3>1. e = Bytes(ps[n].offset, ps[n].length) /\ e \in Etags
      BY <3>a DEF Matches, Listing, Etags, Bytes
    <3> USE DEF x
    <3> HIDE DEF e
    <3>2. Row(n) = [ps[n] EXCEPT !.complete = TRUE, !.etag = e]
      BY <2>2 DEF e
    <3> QED
      BY <2>1, <2>2, <3>1, <3>2 DEF PartRow
  <2>3. CASE ~ \E r \in listed : r.number = n
    <3>1. Row(n) = Part(ps[n].offset, ps[n].length)
      BY <2>3
    <3> QED
      BY <1>1, <2>1, <2>3, <3>1 DEF PartRow, Part
  <2> QED
    BY <2>2, <2>3
<1>3. new = [n \in 1..L |-> Row(n)]
  BY DEF reconcile_remote_parts
<1> HIDE DEF Row, new
<1>4. new \in Seq(PartRow) /\ Len(new) = L /\ \A n \in 1..L : new[n] = Row(n)
  BY <1>1, <1>2, <1>3
<1>5. \A n \in 1..L : new[n].offset = ps[n].offset /\ new[n].length = ps[n].length
  BY <1>2, <1>4
<1>6. Covers(new, f)
  <2>1. /\ ps[1].offset = 0 /\ ps[L].offset + ps[L].length = f
        /\ \A n \in 1..(L - 1) : ps[n + 1].offset = ps[n].offset + ps[n].length
    BY DEF GoodPlan, Covers
  <2>2. 1 \in 1..L /\ L \in 1..L /\ \A n \in 1..(L - 1) : n \in 1..L /\ n + 1 \in 1..L
    BY <1>1
  <2> QED
    BY <1>1, <1>4, <1>5, <2>1, <2>2 DEF Covers
<1>7. \A n \in 1..L : PartFits(new[n], n = L, f, Limits)
  BY <1>2, <1>4, <1>5 DEF GoodPlan, PartFits
<1>8. GoodPlan(new, f, Limits)
  BY <1>4, <1>6, <1>7 DEF GoodPlan
<1>9. \A r \in listed : r.number \in 1..L
  BY <1>1 DEF Matches, Listing
<1> QED
  BY <1>2, <1>4, <1>5, <1>8, <1>9 DEF new

-----------------------------------------------------------------------------
(* What storage holds is numbered without a gap, and what is on its way fits to it. *)
NoGap == \E K \in Nat : Numbers(remote) = 1..K /\ \A l \in late : l.number <= K + 1

(* What a listing may show, now or later, is a part of the plan and lies where the plan has it. *)
LiesIn(ps, r) == r.number <= Len(ps) /\ r.etag.offset = ps[r.number].offset
InPlace == \A r \in remote \cup late : r.number <= PageSize => LiesIn(parts, r)

(* The inductive invariant: the plan in SQLite is good whatever was revised, so that no revision
   is refused; what storage lists matches it as long as no request was given up; and what storage
   holds or may still get is only empty for an empty file, which is what the comparison of sizes
   takes a listed size of zero for.                                                             *)
PartsInv ==
    /\ size \in Nat /\ size <= MaxU64
    /\ GoodPlan(parts, size, Limits)
    /\ remote \subseteq Listing /\ late \subseteq Listing /\ lates \in Nat
    /\ \A r \in remote \cup late : r.etag.length = 0 <=> size = 0
    /\ NoGap
    /\ \A n \in 1..Len(parts) : parts[n].complete => n \in Numbers(remote)
    /\ InPlace
    /\ lates = 0 => late = {} /\ error = "none" /\ Matches(parts, Page(remote))
    /\ DoneIsWhole

(* A part of the plan, as storage lists it. *)
LEMMA PartIsListed ==
  ASSUME GoodPlan(parts, size, Limits), size \in Nat, NEW n \in 1..Len(parts)
  PROVE  LET r == Sent(n)
         IN  /\ r \in Listing /\ r.number = n
             /\ r.etag = Bytes(parts[n].offset, parts[n].length)
             /\ r.etag.offset = parts[n].offset /\ r.etag.length = parts[n].length
             /\ r.etag.length = 0 <=> size = 0
<1>1. /\ parts[n].length \in Nat /\ parts[n].offset \in Nat
      /\ parts[n].length = 0 <=> size = 0
  BY RowsArePartRows DEF GoodPlan, PartFits
<1>2. n \in Nat \ {0}
  BY DEF GoodPlan
<1> QED
  BY <1>1, <1>2 DEF Listing, Etags, Sent, Bytes

(* The page: the parts up to PageSize. *)
LEMMA PageFacts ==
  ASSUME PartsInv
  PROVE  /\ Page(remote) = {r \in remote : r.number <= PageSize}
         /\ Page(remote) \in SUBSET Listing
         /\ \A r \in Page(remote) : LiesIn(parts, r)
<1>1. PICK K \in Nat : Numbers(remote) = 1..K
  BY DEF PartsInv, NoGap
<1>2. Page(remote) = {r \in remote : r.number <= PageSize}
  BY <1>1, PageIsTheFirst DEF PartsInv
<1> QED
  BY <1>2 DEF PartsInv, InPlace

LEMMA InitPartsInv == InitPlan => PartsInv
<1> SUFFICES ASSUME InitPlan PROVE PartsInv
  OBVIOUS
<1>1. PICK target \in OldTargets :
        /\ size \in 0..Capacity([Limits EXCEPT !.target = target])
        /\ parts = plan_parts(size, [Limits EXCEPT !.target = target]).parts
  BY DEF InitPlan
<1> DEFINE limits == [Limits EXCEPT !.target = target]
<1>2. /\ limits \in MultipartLimits /\ ValidLimits(limits)
      /\ limits.minimum = Limits.minimum /\ limits.maximum = Limits.maximum
      /\ limits.parts = Limits.parts
  BY PartPlanAssumption DEF MultipartLimits, ValidLimits
<1>3. size \in 0..Capacity(limits) /\ parts = plan_parts(size, limits).parts
  BY <1>1
<1> HIDE DEF limits
<1>4. size \in Nat /\ size <= limits.maximum * limits.parts /\ size <= MaxU64
  <2>1. limits.maximum * limits.parts \in Nat /\ MaxU64 \in Nat
    BY <1>2, PartPlanAssumption DEF MultipartLimits
  <2>2. Capacity(limits) = IF limits.maximum * limits.parts <= MaxU64
                           THEN limits.maximum * limits.parts ELSE MaxU64
    BY <2>1, AtMostIsSmaller DEF Capacity
  <2> QED
    BY <1>3, <2>1, <2>2
<1>5. /\ GoodPlan(parts, size, Limits)
      /\ \A n \in 1..Len(parts) : ~ parts[n].complete
  <2>1. GoodPlan(parts, size, limits) /\ \A n \in 1..Len(parts) : ~ parts[n].complete
    BY <1>2, <1>3, <1>4, PlannedPartsAreGood
  <2> QED
    BY <1>2, <2>1 DEF GoodPlan, PartFits
<1>6. PICK k \in 0..Len(parts) :
        /\ remote = Prefix(k)
        /\ \/ late = {} /\ lates = 0
           \/ k < Len(parts) /\ MaxLate > 0 /\ late = Prefix(k + 1) \ Prefix(k) /\ lates = 1
  BY DEF InitPlan
<1>7. Len(parts) \in Nat
  BY <1>5 DEF GoodPlan
<1>8. /\ \A r \in remote : \E n \in 1..k : n \in 1..Len(parts) /\ r = Sent(n)
      /\ \A r \in late : \E n \in 1..(k + 1) : n \in 1..Len(parts) /\ r = Sent(n)
  BY <1>6, <1>7 DEF Prefix
<1>9. ASSUME NEW r \in remote \cup late
      PROVE  /\ r \in Listing /\ (r.etag.length = 0 <=> size = 0)
             /\ r.number <= Len(parts) /\ r.etag.offset = parts[r.number].offset
             /\ r.etag.length = parts[r.number].length
  <2>1. PICK n \in 1..Len(parts) : r = Sent(n)
    BY <1>8
  <2> QED
    BY <1>4, <1>5, <1>7, <2>1, PartIsListed
<1>10. NoGap
  <2>1. \A n \in 1..Len(parts) : Sent(n).number = n
    BY DEF Sent
  <2>2. Numbers(remote) = 1..k
    BY <1>6, <1>7, <2>1 DEF Numbers, Prefix
  <2>3. \A l \in late : l.number <= k + 1
    BY <1>7, <1>8, <2>1
  <2> QED
    BY <2>2, <2>3 DEF NoGap
<1>11. Matches(parts, Page(remote))
  BY <1>9 DEF Matches, Page
<1>12. DoneIsWhole /\ error = "none"
  BY DEF InitPlan, DoneIsWhole
<1>13. InPlace
  BY <1>9 DEF InPlace, LiesIn
<1> QED
  BY <1>4, <1>5, <1>6, <1>9, <1>10, <1>11, <1>12, <1>13 DEF PartsInv

(* The first pending part is a part of the plan; all before it are in storage. *)
LEMMA PendingIsAPart ==
  ASSUME PartsInv, Pending # {}
  PROVE  /\ Min(Pending) \in Pending /\ Min(Pending) \in 1..Len(parts)
         /\ \A n \in 1..(Min(Pending) - 1) : n \in Numbers(remote)
<1>1. Pending \subseteq 1..Len(parts) /\ Pending \subseteq Nat /\ Len(parts) \in Nat
  BY DEF Pending, PartsInv, GoodPlan
<1>2. Min(Pending) \in Pending /\ \A n \in Pending : Min(Pending) <= n
  BY <1>1, MinIsLeast
<1> HIDE DEF Pending
<1>3. ASSUME NEW n \in 1..(Min(Pending) - 1) PROVE n \in Numbers(remote)
  <2> DEFINE m == Min(Pending)
  <2>1. m \in 1..Len(parts) /\ n \in 1..(m - 1) /\ \A i \in Pending : m <= i
    BY <1>1, <1>2
  <2> HIDE DEF m
  <2>2. n \in 1..Len(parts) /\ ~ (m <= n)
    BY <1>1, <2>1
  <2>3. n \notin Pending
    BY <2>1, <2>2
  <2>4. parts[n].complete
    BY <2>2, <2>3 DEF Pending
  <2> QED
    BY <2>2, <2>4 DEF PartsInv
<1> QED
  BY <1>1, <1>2, <1>3

(* Where the confirmed parts of two good plans of a file agree up to n, its part n starts at
   one place.                                                                               *)
LEMMA NextPartStays ==
  ASSUME NEW f \in Nat, NEW ps, NEW new, GoodPlan(ps, f, Limits), GoodPlan(new, f, Limits),
         NEW n \in 1..Len(ps), n - 1 <= Len(new),
         \A i \in 1..(n - 1) : new[i].offset = ps[i].offset /\ new[i].length = ps[i].length
  PROVE  n <= Len(new) /\ new[n].offset = ps[n].offset
<1>0. /\ ps \in Seq(PartRow) /\ new \in Seq(PartRow) /\ Len(ps) \in Nat /\ Len(new) \in Nat
      /\ Len(new) > 0 /\ n \in Nat /\ n >= 1
  BY DEF GoodPlan, Covers
<1>1. CASE n = 1
  BY <1>0, <1>1 DEF GoodPlan, Covers
<1>2. CASE n > 1
  <2>1. /\ n - 1 \in 1..(n - 1) /\ n - 1 \in 1..Len(new) /\ n - 1 \in 1..(Len(ps) - 1)
        /\ (n - 1) + 1 = n
    BY <1>0, <1>2
  <2>2. ps[n].offset = ps[n - 1].offset + ps[n - 1].length
    BY <2>1 DEF GoodPlan, Covers
  <2>3. CASE n - 1 = Len(new)
    <3>1. new[n - 1].offset + new[n - 1].length = f
      BY <2>3 DEF GoodPlan, Covers
    <3>2. ps[n].offset = f
      BY <2>1, <2>2, <3>1
    <3>3. ps[n].offset + ps[n].length <= f /\ ps[n].length \in Nat
      BY <1>0, PartPlanAssumption, RestFits, RowsArePartRows
    <3>4. f = 0
      <4>1. ps[n].length = 0
        BY <3>2, <3>3
      <4> QED
        BY <4>1 DEF GoodPlan, PartFits
    <3>5. ps[1].length = 0 /\ ps[1].length >= Limits.minimum
      <4>1. 1 \in 1..Len(ps) /\ 1 # Len(ps)
        <5> DEFINE L == Len(ps)
        <5>1. n \in Nat /\ n > 1 /\ L \in Nat /\ n <= L
          BY <1>0, <1>2
        <5> HIDE DEF L
        <5>2. 1 \in 1..L /\ 1 # L
          BY <5>1
        <5> QED
          BY <5>2 DEF L
      <4> QED
        BY <3>4, <4>1 DEF GoodPlan, PartFits
    <3> QED
      BY <3>5, PartPlanAssumption DEF MultipartLimits
  <2>4. CASE n <= Len(new)
    <3>1. n - 1 \in 1..(Len(new) - 1)
      BY <1>0, <1>2, <2>4
    <3>2. new[n].offset = new[n - 1].offset + new[n - 1].length
      BY <2>1, <3>1 DEF GoodPlan, Covers
    <3> QED
      BY <2>1, <2>2, <2>4, <3>2
  <2> QED
    BY <1>0, <2>3, <2>4
<1> QED
  BY <1>0, <1>1, <1>2

(* A resumption is refused only by a listing that contradicts the plan; otherwise the plan is
   good, matches the listing, and every listed part is where it was.                         *)
LEMMA ResumptionRevises ==
  ASSUME PartsInv, upload_missing_parts
  PROVE  /\ GoodPlan(parts', size, Limits)
         /\ \A n \in 1..Len(parts') : parts'[n].complete => n \in Numbers(remote)
         /\ \/ error' # "none" /\ parts' = parts /\ ~ Matches(parts, Page(remote))
            \/ /\ error' = "none" /\ Matches(parts', Page(remote))
               /\ \A r \in Page(remote) :
                     /\ r.number \in 1..Len(parts) /\ r.number <= Len(parts')
                     /\ parts'[r.number].offset = parts[r.number].offset
                     /\ parts'[r.number].length = parts[r.number].length
<1> DEFINE page == Page(remote)
           reconciled == reconcile_remote_parts(parts, page)
           revised == replan_large_unconfirmed_parts(size, reconciled)
<1>0. /\ size \in Nat /\ size <= MaxU64 /\ GoodPlan(parts, size, Limits)
      /\ page \in SUBSET Listing /\ \A r \in page : r.etag.length = 0 <=> size = 0
      /\ \A r \in page : r.number \in Numbers(remote) /\ r.etag.offset = parts[r.number].offset
      /\ \A n \in 1..Len(parts) : parts[n].complete => n \in Numbers(remote)
      /\ parts \in Seq(PartRow)
  BY PageFacts DEF PartsInv, GoodPlan, LiesIn, Numbers
<1>s. /\ ReconcileError(parts, page) # "none" =>
            error' = ReconcileError(parts, page) /\ parts' = parts
      /\ ReconcileError(parts, page) = "none" =>
            /\ error' = revised.error
            /\ revised.error = "none" => parts' = revised.parts
  BY DEF upload_missing_parts
<1> HIDE DEF page
<1>1. CASE ReconcileError(parts, page) # "none"
  <2>1. ~ Matches(parts, page)
    BY <1>0, <1>1, MatchingIsAccepted
  <2> QED
    BY <1>0, <1>1, <1>s, <2>1 DEF page
<1>2. CASE ReconcileError(parts, page) = "none"
  <2>1. Matches(parts, page)
    BY <1>0, <1>2, AcceptedMatches
  <2>2. /\ GoodPlan(reconciled, size, Limits)
        /\ Len(reconciled) = Len(parts)
        /\ \A n \in 1..Len(parts) : /\ reconciled[n].offset = parts[n].offset
                                    /\ reconciled[n].length = parts[n].length
        /\ \A n \in 1..Len(parts) : reconciled[n].complete <=> \E r \in page : r.number = n
        /\ \A r \in page : r.number \in 1..Len(parts) /\ reconciled[r.number].complete
    BY <1>0, <2>1, ReconciledPlanIsGood
  <2>3. /\ error' = revised.error
        /\ revised.error = "none" => parts' = revised.parts
    BY <1>2, <1>s
  <2> HIDE DEF reconciled
  <2>4. /\ revised.error = "none" /\ GoodPlan(revised.parts, size, Limits)
        /\ Revises(revised.parts, reconciled)
    BY <1>0, <2>2, RevisedPlanIsGood
  <2> HIDE DEF revised
  <2>5. ASSUME NEW r \in page
        PROVE  /\ r.number \in 1..Len(parts) /\ r.number <= Len(parts')
               /\ parts'[r.number].offset = parts[r.number].offset
               /\ parts'[r.number].length = parts[r.number].length
    BY <2>2, <2>3, <2>4 DEF Revises
  <2>6. Matches(parts', page)
    BY <2>1, <2>5 DEF Matches
  <2>7. \A n \in 1..Len(parts') : parts'[n].complete => n \in Numbers(remote)
    <3> SUFFICES ASSUME NEW n \in 1..Len(parts'), parts'[n].complete
                 PROVE  n \in Numbers(remote)
      OBVIOUS
    <3>1. n <= Len(reconciled) /\ reconciled[n].complete /\ n \in Nat /\ n >= 1
      BY <2>3, <2>4 DEF Revises, GoodPlan
    <3>2. n \in 1..Len(parts)
      BY <1>0, <2>2, <3>1
    <3> QED
      BY <1>0, <2>2, <3>1, <3>2
  <2> QED
    BY <2>3, <2>4, <2>5, <2>6, <2>7 DEF page
<1> QED
  BY <1>1, <1>2

(* A resumption keeps the invariant: a part on its way starts where the listed parts before it
   end, and those stay.                                                                       *)
LEMMA ResumptionPartsInv == ASSUME PartsInv, upload_missing_parts PROVE PartsInv'
<1>1. /\ GoodPlan(parts', size, Limits)
      /\ \A n \in 1..Len(parts') : parts'[n].complete => n \in Numbers(remote)
  BY ResumptionRevises
<1>2. UNCHANGED <<size, remote, late, lates>> /\ phase' # "done"
  BY DEF upload_missing_parts
<1>3. lates = 0 => error' = "none" /\ Matches(parts', Page(remote))
  BY ResumptionRevises DEF PartsInv
<1>4. ASSUME NEW r \in remote \cup late, r.number <= PageSize PROVE LiesIn(parts', r)
  <2>1. LiesIn(parts, r) /\ r.number \in Nat /\ r.number >= 1 /\ PageSize \in Nat
    BY <1>4, PartPlanAssumption DEF PartsInv, InPlace, Listing
  <2>2. CASE error' # "none"
    BY <2>1, <2>2, ResumptionRevises
  <2>3. CASE error' = "none"
    <3>1. PICK K \in Nat : Numbers(remote) = 1..K /\ \A l \in late : l.number <= K + 1
      BY DEF PartsInv, NoGap
    <3>2. r.number <= K + 1
      BY <2>1, <3>1 DEF Numbers
    <3>3. Len(parts) \in Nat /\ Len(parts') \in Nat /\ r.number \in 1..Len(parts)
      BY <1>1, <2>1 DEF PartsInv, GoodPlan, LiesIn
    <3>4. ASSUME NEW i \in 1..(r.number - 1)
          PROVE  /\ i <= Len(parts')
                 /\ parts'[i].offset = parts[i].offset /\ parts'[i].length = parts[i].length
      <4>1. i \in 1..K /\ i <= PageSize
        BY <1>4, <2>1, <3>2
      <4>2. PICK x \in remote : x.number = i
        BY <3>1, <4>1 DEF Numbers
      <4>3. x \in Page(remote)
        BY <4>1, <4>2, PageFacts
      <4> QED
        BY <2>3, <4>2, <4>3, ResumptionRevises
    <3>5. r.number - 1 <= Len(parts')
      <4>1. CASE r.number = 1
        BY <3>3, <4>1
      <4>2. CASE r.number > 1
        <5>1. r.number - 1 \in 1..(r.number - 1)
          BY <2>1, <4>2
        <5> QED
          BY <3>4, <5>1
      <4> QED
        BY <2>1, <4>1, <4>2
    <3>6. r.number <= Len(parts') /\ parts'[r.number].offset = parts[r.number].offset
      <4> DEFINE new == parts'
                 n == r.number
      <4>1. /\ size \in Nat /\ GoodPlan(parts, size, Limits) /\ GoodPlan(new, size, Limits)
            /\ n \in 1..Len(parts) /\ n - 1 <= Len(new)
            /\ \A i \in 1..(n - 1) : /\ new[i].offset = parts[i].offset
                                     /\ new[i].length = parts[i].length
        BY <1>1, <3>3, <3>4, <3>5 DEF PartsInv
      <4> HIDE DEF new, n
      <4>2. n <= Len(new) /\ new[n].offset = parts[n].offset
        BY <4>1, NextPartStays
      <4> QED
        BY <4>2 DEF new, n
    <3> QED
      BY <2>1, <3>6 DEF LiesIn
  <2> QED
    BY <2>2, <2>3
<1>5. InPlace'
  BY <1>2, <1>4 DEF InPlace
<1>6. NoGap'
  BY <1>2 DEF PartsInv, NoGap
<1>7. DoneIsWhole'
  BY <1>2 DEF DoneIsWhole
<1>8. (lates = 0 => late = {} /\ error = "none" /\ Matches(parts, Page(remote)))'
  BY <1>2, <1>3 DEF PartsInv
<1> QED
  BY <1>1, <1>2, <1>5, <1>6, <1>7, <1>8 DEF PartsInv

(* A request that arrives replaces what is listed under its number and leaves no gap. *)
LEMMA PutFacts ==
  ASSUME PartsInv, NEW r \in Listing, Put(r),
         NEW K \in Nat, Numbers(remote) = 1..K, r.number <= K + 1
  PROVE  /\ remote' = {x \in remote : x.number # r.number} \cup {r}
         /\ Numbers(remote)' = Numbers(remote) \cup {r.number}
         /\ \E J \in Nat : Numbers(remote)' = 1..J /\ K <= J
<1>1. remote' = {x \in remote : x.number # r.number} \cup {r}
  BY DEF Put
<1>2. Numbers(remote)' = Numbers(remote) \cup {r.number}
  BY <1>1 DEF Numbers
<1>3. r.number \in Nat /\ r.number >= 1
  BY DEF Listing
<1>4. CASE r.number <= K
  <2>1. Numbers(remote)' = 1..K /\ K <= K
    BY <1>2, <1>3, <1>4
  <2>2. \E J \in Nat : Numbers(remote)' = 1..J /\ K <= J
    BY <2>1
  <2> QED
    BY <1>1, <1>2, <2>2
<1>5. CASE r.number = K + 1
  <2>1. Numbers(remote)' = 1..(K + 1) /\ K + 1 \in Nat /\ K <= K + 1
    BY <1>2, <1>5
  <2>2. \E J \in Nat : Numbers(remote)' = 1..J /\ K <= J
    BY <2>1
  <2> QED
    BY <1>1, <1>2, <2>2
<1> QED
  BY <1>3, <1>4, <1>5

(* A part that is sent is confirmed with the ETag of its bytes. *)
LEMMA UploadPartsInv == ASSUME PartsInv, upload_part PROVE PartsInv'
<1> DEFINE n == Min(Pending)
           e == Sent(n).etag
           r == Sent(n)
           row == [[parts[n] EXCEPT !.complete = TRUE] EXCEPT !.etag = e]
           L == Len(parts)
<1>0. /\ size \in Nat /\ size <= MaxU64 /\ GoodPlan(parts, size, Limits)
      /\ parts \in Seq(PartRow) /\ L \in Nat /\ n \in 1..L
      /\ remote \subseteq Listing /\ late \subseteq Listing /\ lates \in Nat
      /\ \A x \in remote \cup late : x.etag.length = 0 <=> size = 0
      /\ lates = 0 => late = {} /\ error = "none" /\ Matches(parts, Page(remote))
      /\ \A i \in 1..(n - 1) : i \in Numbers(remote)
  BY PendingIsAPart DEF PartsInv, GoodPlan, upload_part
<1>1. /\ Put(r)
      /\ parts' = [parts EXCEPT ![n].complete = TRUE, ![n].etag = e]
      /\ UNCHANGED <<size, late, lates, phase, error>> /\ phase = "uploading"
  BY DEF upload_part
<1>2. /\ r \in Listing /\ (r.etag.length = 0 <=> size = 0) /\ r.number = n /\ r.etag = e
      /\ e = Bytes(parts[n].offset, parts[n].length) /\ e \in Etags
      /\ e.offset = parts[n].offset /\ e.length = parts[n].length
  BY <1>0, PartIsListed DEF Listing
<1> HIDE DEF n, e, r
<1>3. /\ row \in PartRow /\ row.offset = parts[n].offset /\ row.length = parts[n].length
      /\ row.etag = e
  <2>1. parts[n] \in PartRow
    BY <1>0, RowsArePartRows
  <2> QED
    BY <1>2, <2>1 DEF PartRow
<1>4. /\ parts' \in Seq(PartRow) /\ Len(parts') = L /\ parts'[n] = row
      /\ \A i \in 1..L : i # n => parts'[i] = parts[i]
  <2>1. parts' = [parts EXCEPT ![n] = row]
    BY <1>1
  <2> HIDE DEF row
  <2> QED
    BY <1>0, <1>3, <2>1, ExceptSeq
<1> HIDE DEF row
<1>5. \A i \in 1..L : parts'[i].offset = parts[i].offset /\ parts'[i].length = parts[i].length
  BY <1>3, <1>4
<1>6. Covers(parts', size)
  <2>1. /\ L > 0 /\ parts[1].offset = 0 /\ parts[L].offset + parts[L].length = size
        /\ \A i \in 1..(L - 1) : parts[i + 1].offset = parts[i].offset + parts[i].length
    BY <1>0 DEF GoodPlan, Covers
  <2>2. 1 \in 1..L /\ L \in 1..L /\ \A i \in 1..(L - 1) : i \in 1..L /\ i + 1 \in 1..L
    BY <1>0, <2>1
  <2> QED
    BY <1>0, <1>4, <1>5, <2>1, <2>2 DEF Covers
<1>7. \A i \in 1..L : PartFits(parts'[i], i = L, size, Limits)
  <2> SUFFICES ASSUME NEW i \in 1..L PROVE PartFits(parts'[i], i = L, size, Limits)
    OBVIOUS
  <2>1. PartFits(parts[i], i = L, size, Limits)
    BY <1>0 DEF GoodPlan
  <2>2. CASE i = n
    BY <1>2, <1>3, <1>4, <2>1, <2>2 DEF PartFits
  <2>3. CASE i # n
    BY <1>4, <2>1, <2>3
  <2> QED
    BY <2>2, <2>3
<1>8. GoodPlan(parts', size, Limits)
  BY <1>0, <1>4, <1>6, <1>7 DEF GoodPlan
<1>9. PICK K \in Nat : Numbers(remote) = 1..K /\ \A l \in late : l.number <= K + 1
  BY DEF PartsInv, NoGap
<1>10. n <= K + 1
  <2>1. CASE n = 1
    BY <1>9, <2>1
  <2>2. CASE n > 1
    <3>1. n - 1 \in 1..(n - 1)
      BY <1>0, <2>2
    <3> QED
      BY <1>0, <1>9, <3>1
  <2> QED
    BY <1>0, <2>1, <2>2
<1>11. /\ remote' = {x \in remote : x.number # n} \cup {r}
       /\ Numbers(remote)' = Numbers(remote) \cup {n}
       /\ \E J \in Nat : Numbers(remote)' = 1..J /\ K <= J
  BY <1>1, <1>2, <1>9, <1>10, PutFacts
<1>12. NoGap'
  <2>1. PICK J \in Nat : Numbers(remote)' = 1..J /\ K <= J
    BY <1>11
  <2>2. \A l \in late' : l.number <= J + 1
    BY <1>0, <1>1, <1>9, <2>1 DEF Listing
  <2> QED
    BY <2>1, <2>2 DEF NoGap
<1>13. remote' \in SUBSET Listing
  BY <1>0, <1>2, <1>11
<1>14. \A i \in 1..Len(parts') : parts'[i].complete => i \in Numbers(remote)'
  BY <1>4, <1>11 DEF PartsInv
<1>15. InPlace'
  <2> SUFFICES ASSUME NEW x \in remote' \cup late', x.number <= PageSize
               PROVE  LiesIn(parts', x)
    BY DEF InPlace
  <2>1. CASE x = r
    BY <1>0, <1>2, <1>4, <1>5, <2>1 DEF LiesIn
  <2>2. CASE x \in remote \cup late
    <3>1. LiesIn(parts, x) /\ x.number \in Nat /\ x.number >= 1
      BY <2>2 DEF PartsInv, InPlace, Listing
    <3>2. x.number \in 1..L
      BY <1>0, <3>1 DEF LiesIn
    <3> QED
      BY <1>4, <1>5, <3>1, <3>2 DEF LiesIn
  <2> QED
    BY <1>1, <1>11, <2>1, <2>2
<1>16. Matches(parts, Page(remote)) => Matches(parts', Page(remote'))
  <2> SUFFICES ASSUME Matches(parts, Page(remote)), NEW x \in Page(remote')
               PROVE  x.number <= L /\ x.etag.length = parts'[x.number].length
    BY <1>4 DEF Matches
  <2>1. x \in remote' /\ x.number <= PageSize
    <3>1. PICK J \in Nat : Numbers(remote') = 1..J
      BY <1>11
    <3> QED
      BY <1>13, <3>1, PageIsTheFirst
  <2>2. CASE x = r
    BY <1>0, <1>2, <1>5, <2>2
  <2>3. CASE x \in remote
    <3>1. x \in Page(remote) /\ x.number \in Nat \ {0}
      BY <1>0, <2>1, <2>3, PageFacts DEF Listing
    <3>2. x.number <= L /\ x.etag.length = parts[x.number].length
      BY <3>1 DEF Matches
    <3>3. x.number \in 1..L
      BY <1>0, <3>1, <3>2
    <3> QED
      BY <1>5, <3>2, <3>3
  <2> QED
    BY <1>11, <2>1, <2>2, <2>3
<1>17. DoneIsWhole'
  BY <1>1 DEF DoneIsWhole
<1>18. \A x \in remote' \cup late' : x.etag.length = 0 <=> size = 0
  BY <1>0, <1>1, <1>2, <1>11
<1> QED
  BY <1>0, <1>1, <1>8, <1>12, <1>13, <1>14, <1>15, <1>16, <1>17, <1>18 DEF PartsInv

(* A stop loses the part that was sent, or leaves it on its way. *)
LEMMA StopPartsInv == ASSUME PartsInv, Stop PROVE PartsInv'
<1> DEFINE n == Min(Pending)
           r == Sent(n)
<1>1. /\ UNCHANGED <<size, parts, remote, error>> /\ phase' = "stopped"
      /\ \/ UNCHANGED <<late, lates>>
         \/ lates' = lates + 1 /\ late' = late \cup {r}
  BY DEF Stop
<1>2. n \in 1..Len(parts) /\ \A i \in 1..(n - 1) : i \in Numbers(remote)
  BY PendingIsAPart DEF Stop
<1>3. /\ r \in Listing /\ (r.etag.length = 0 <=> size = 0) /\ r.number = n
      /\ LiesIn(parts, r)
  BY <1>2, PartIsListed DEF PartsInv, GoodPlan, LiesIn
<1>4. lates' \in Nat /\ (lates' = 0 => lates = 0 /\ late' = late)
  BY <1>1 DEF PartsInv
<1> HIDE DEF n, r
<1>5. NoGap'
  <2>1. PICK K \in Nat : Numbers(remote) = 1..K /\ \A l \in late : l.number <= K + 1
    BY DEF PartsInv, NoGap
  <2>2. n <= K + 1
    <3>1. CASE n = 1
      BY <2>1, <3>1
    <3>2. CASE n > 1
      <4>1. n - 1 \in 1..(n - 1) /\ n \in Nat
        BY <1>2, <3>2
      <4> QED
        BY <1>2, <2>1, <4>1
    <3> QED
      BY <1>2, <3>1, <3>2
  <2> QED
    BY <1>1, <1>3, <2>1, <2>2 DEF NoGap
<1>6. InPlace'
  BY <1>1, <1>3 DEF PartsInv, InPlace
<1> QED
  BY <1>1, <1>3, <1>4, <1>5, <1>6 DEF PartsInv, DoneIsWhole

(* A late request replaces what is listed under its number; then one had been given up. *)
LEMMA LatePartsInv == ASSUME PartsInv, LatePutArrives PROVE PartsInv'
<1>1. PICK r \in late : Put(r) /\ late' = late \ {r}
  BY DEF LatePutArrives
<1>2. UNCHANGED <<size, parts, lates, phase, error>> /\ phase # "done"
  BY DEF LatePutArrives
<1>3. r \in Listing /\ (r.etag.length = 0 <=> size = 0) /\ lates # 0
  BY DEF PartsInv
<1>4. PICK K \in Nat : Numbers(remote) = 1..K /\ \A l \in late : l.number <= K + 1
  BY DEF PartsInv, NoGap
<1>5. /\ remote' = {x \in remote : x.number # r.number} \cup {r}
      /\ Numbers(remote)' = Numbers(remote) \cup {r.number}
      /\ \E J \in Nat : Numbers(remote)' = 1..J /\ K <= J
  BY <1>1, <1>3, <1>4, PutFacts
<1>6. NoGap'
  <2>1. PICK J \in Nat : Numbers(remote)' = 1..J /\ K <= J
    BY <1>5
  <2>2. \A l \in late' : l.number <= J + 1
    BY <1>1, <1>4, <2>1 DEF PartsInv, Listing
  <2> QED
    BY <2>1, <2>2 DEF NoGap
<1>7. remote' \cup late' \subseteq remote \cup late
  BY <1>1, <1>5
<1>8. InPlace'
  BY <1>2, <1>7 DEF PartsInv, InPlace
<1>9. \A n \in 1..Len(parts') : parts'[n].complete => n \in Numbers(remote)'
  BY <1>2, <1>5 DEF PartsInv
<1>10. DoneIsWhole'
  BY <1>2 DEF DoneIsWhole
<1> QED
  BY <1>2, <1>3, <1>6, <1>7, <1>8, <1>9, <1>10 DEF PartsInv

(* The object is assembled of the parts under the ETags of their bytes. *)
LEMMA CompletePartsInv == ASSUME PartsInv, complete_uploaded_file PROVE PartsInv'
<1>1. UNCHANGED <<size, parts, remote, late, lates, error>> /\ Pending = {}
  BY DEF complete_uploaded_file
<1>2. ASSUME phase' = "done", NEW n \in 1..Len(parts)
      PROVE  Sent(n) \in remote
  <2>1. [number |-> n, etag |-> parts[n].etag] \in remote
    BY <1>2 DEF complete_uploaded_file
  <2>2. parts[n].complete
    BY <1>1 DEF Pending
  <2>3. parts[n].etag = Bytes(parts[n].offset, parts[n].length)
    BY <2>2 DEF PartsInv, GoodPlan, PartFits
  <2> QED
    BY <2>1, <2>3 DEF Sent
<1>3. DoneIsWhole'
  BY <1>1, <1>2 DEF DoneIsWhole, Sent
<1>4. NoGap' /\ InPlace'
  BY <1>1 DEF PartsInv, NoGap, InPlace
<1> QED
  BY <1>1, <1>3, <1>4 DEF PartsInv

LEMMA NextPartsInv == PartsInv /\ [NextPlan]_planVars => PartsInv'
<1> SUFFICES ASSUME PartsInv, [NextPlan]_planVars PROVE PartsInv'
  OBVIOUS
<1>1. CASE UNCHANGED planVars
  <2>1. NoGap' /\ InPlace' /\ DoneIsWhole'
    BY <1>1 DEF planVars, PartsInv, NoGap, InPlace, DoneIsWhole, Sent
  <2> QED
    BY <1>1, <2>1 DEF planVars, PartsInv
<1> QED
  BY <1>1, ResumptionPartsInv, UploadPartsInv, StopPartsInv, LatePartsInv, CompletePartsInv DEF NextPlan

(* The invariant holds in every reachable state. *)
LEMMA PartsInvariance == PlanSpec => []PartsInv
  BY InitPartsInv, NextPartsInv, PTL DEF PlanSpec

-----------------------------------------------------------------------------
(* plan_parts and every revision of its plan partition the file within the limits of storage,
   for all limits, files and earlier target sizes.                                           *)
THEOREM PlansAreValid == PlanSpec => []PlanIsValid
<1>1. PartsInv => PlanIsValid
  BY DEF PartsInv, GoodPlan, PartFits, PlanIsValid, WithinLimits
<1> QED
  BY PartsInvariance, <1>1, PTL

(* complete_multipart_upload assembles the file or nothing: a late request of an older plan is
   caught by the ETags.                                                                       *)
THEOREM AssembledIsTheFile == PlanSpec => []DoneIsWhole
<1>1. PartsInv => DoneIsWhole
  BY DEF PartsInv
<1> QED
  BY PartsInvariance, <1>1, PTL

(* upload_missing_parts resumes however often Courier stopped, if no request is on its way. *)
THEOREM ResumptionIsNotRefused == PlanSpec => []ResumptionAcceptedUnlessLate
<1>1. PartsInv => ResumptionAcceptedUnlessLate
  BY DEF PartsInv, ResumptionAcceptedUnlessLate, ResumptionIsAccepted
<1> QED
  BY PartsInvariance, <1>1, PTL

(* replan_large_unconfirmed_parts moves no part that the listing showed. *)
THEOREM RevisionsKeepConfirmedParts == PlanSpec => ConfirmedPartsStayPut
<1> DEFINE Stay == upload_missing_parts => \A r \in Page(remote) : StaysPut(r)
<1>1. PartsInv /\ [NextPlan]_planVars => [Stay]_planVars
  <2> SUFFICES ASSUME PartsInv, upload_missing_parts, NEW r \in Page(remote) PROVE StaysPut(r)
    OBVIOUS
  <2> QED
    BY ResumptionRevises DEF StaysPut
<1> QED
  BY PartsInvariance, <1>1, PTL DEF PlanSpec, ConfirmedPartsStayPut

(* ... and so no part that storage holds, if no plan has more parts than one listing shows. *)
THEOREM OnePageKeepsAcceptedParts ==
  ASSUME Limits.parts <= PageSize
  PROVE  PlanSpec => AcceptedPartsStayPut
<1> DEFINE Stay == upload_missing_parts => \A r \in remote : StaysPut(r)
<1>1. PartsInv /\ [NextPlan]_planVars => [Stay]_planVars
  <2> SUFFICES ASSUME PartsInv, upload_missing_parts, NEW r \in remote, r.number <= Len(parts)
               PROVE  StaysPut(r)
    BY DEF StaysPut
  <2>1. r.number \in Nat /\ Len(parts) \in Nat /\ Len(parts) <= Limits.parts
    BY DEF PartsInv, Listing, GoodPlan
  <2>2. r \in Page(remote)
    BY <2>1, PageFacts, PartPlanAssumption DEF MultipartLimits
  <2> QED
    BY <2>2, ResumptionRevises DEF StaysPut
<1> QED
  BY PartsInvariance, <1>1, PTL DEF PlanSpec, AcceptedPartsStayPut

-----------------------------------------------------------------------------
(* A function that is defined step by step exists. *)
Steps(N, V) == [(1..N) \X V -> V]
Follows(f, base, step, N) == f[0] = base /\ \A n \in 1..N : f[n] = step[<<n, f[n - 1]>>]

LEMMA RecursionExists ==
  ASSUME NEW N \in Nat, NEW V, NEW base \in V, NEW step \in Steps(N, V)
  PROVE  \E f \in [0..N -> V] : Follows(f, base, step, N)
<1> USE DEF Steps
<1> DEFINE Good(f, n) == f[0] = base /\ \A k \in 1..n : f[k] = step[<<k, f[k - 1]>>]
           S == {n \in Nat : n <= N => \E f \in [0..n -> V] : Good(f, n)}
<1>1. 0 \in S
  <2>1. [k \in 0..0 |-> base] \in [0..0 -> V] /\ Good([k \in 0..0 |-> base], 0)
    OBVIOUS
  <2> QED
    BY <2>1
<1>2. ASSUME NEW n \in Nat, n \in S PROVE n + 1 \in S
  <2> SUFFICES ASSUME n + 1 <= N PROVE \E f \in [0..(n + 1) -> V] : Good(f, n + 1)
    OBVIOUS
  <2>1. PICK f \in [0..n -> V] : Good(f, n)
    BY <1>2
  <2> DEFINE g == [k \in 0..(n + 1) |-> IF k = n + 1 THEN step[<<n + 1, f[n]>>] ELSE f[k]]
  <2>2. step[<<n + 1, f[n]>>] \in V
    OBVIOUS
  <2>3. g \in [0..(n + 1) -> V]
    BY <2>2
  <2>4. \A k \in 0..n : g[k] = f[k]
    OBVIOUS
  <2>5. g[0] = base
    BY <2>1, <2>4
  <2>6. ASSUME NEW k \in 1..(n + 1) PROVE g[k] = step[<<k, g[k - 1]>>]
    <3>1. CASE k = n + 1
      <4>1. g[n + 1] = step[<<n + 1, f[n]>>] /\ g[n] = f[n] /\ (n + 1) - 1 = n
        BY <2>4
      <4> QED
        BY <3>1, <4>1
    <3>2. CASE k # n + 1
      <4>1. k \in 1..n /\ k - 1 \in 0..n /\ k \in 0..n
        BY <3>2
      <4> QED
        BY <2>1, <2>4, <4>1
    <3> QED
      BY <3>1, <3>2
  <2> QED
    BY <2>3, <2>5, <2>6
<1> HIDE DEF S
<1>3. \A n \in Nat : n \in S
  BY <1>1, <1>2, SetInduction
<1> QED
  BY <1>3 DEF S, Follows

-----------------------------------------------------------------------------
(* Sums *)

LEMMA SumsEquation ==
  ASSUME NEW ns \in Seq(Nat)
  PROVE  /\ Sums(ns) \in [0..Len(ns) -> Nat]
         /\ Sums(ns)[0] = 0
         /\ \A n \in 1..Len(ns) : Sums(ns)[n] = Sums(ns)[n - 1] + ns[n]
<1> DEFINE N == Len(ns)
           step == [p \in (1..N) \X Nat |-> p[2] + ns[p[1]]]
<1>1. N \in Nat /\ \A n \in 1..N : ns[n] \in Nat
  OBVIOUS
<1>2. step \in [(1..N) \X Nat -> Nat]
  BY <1>1
<1> HIDE DEF N
<1>3. PICK f \in [0..N -> Nat] : f[0] = 0 /\ \A n \in 1..N : f[n] = step[<<n, f[n - 1]>>]
  <2>1. 0 \in Nat /\ step \in Steps(N, Nat)
    BY <1>2 DEF Steps
  <2> HIDE DEF step
  <2>2. \E f \in [0..N -> Nat] : Follows(f, 0, step, N)
    BY <1>1, <2>1, RecursionExists
  <2> QED
    BY <2>2 DEF Follows
<1>4. ASSUME NEW n \in 1..N PROVE f[n] = f[n - 1] + ns[n]
  <2>1. n - 1 \in 0..N /\ f[n - 1] \in Nat
    BY <1>1
  <2>2. <<n, f[n - 1]>> \in (1..N) \X Nat
    BY <2>1
  <2>3. step[<<n, f[n - 1]>>] = f[n - 1] + ns[n]
    BY <2>2
  <2> QED
    BY <1>3, <2>3
<1>5. f = [n \in 0..N |-> IF n = 0 THEN 0 ELSE f[n - 1] + ns[n]]
  BY <1>1, <1>3, <1>4
<1>6. \E sum : sum = [n \in 0..N |-> IF n = 0 THEN 0 ELSE sum[n - 1] + ns[n]]
  BY <1>5
<1>7. Sums(ns) = [n \in 0..N |-> IF n = 0 THEN 0 ELSE Sums(ns)[n - 1] + ns[n]]
  BY <1>6 DEF Sums, N
<1> DEFINE T == {n \in Nat : n <= N => Sums(ns)[n] \in Nat}
<1>8. 0 \in T
  BY <1>7
<1>9. ASSUME NEW n \in Nat, n \in T PROVE n + 1 \in T
  <2> SUFFICES ASSUME n + 1 <= N PROVE Sums(ns)[n + 1] \in Nat
    OBVIOUS
  <2>1. n + 1 \in 0..N /\ n + 1 # 0 /\ (n + 1) - 1 = n /\ Sums(ns)[n] \in Nat /\ ns[n + 1] \in Nat
    BY <1>1, <1>9
  <2>2. Sums(ns)[n + 1] = Sums(ns)[n] + ns[n + 1]
    BY <1>7, <2>1
  <2> QED
    BY <2>1, <2>2
<1> HIDE DEF T
<1>10. \A n \in Nat : n \in T
  BY <1>8, <1>9, SetInduction
<1>11. \A n \in 0..N : Sums(ns)[n] \in Nat
  BY <1>1, <1>10 DEF T
<1>12. Sums(ns) \in [0..N -> Nat]
  BY <1>7, <1>11
<1>13. Sums(ns)[0] = 0 /\ \A n \in 1..N : Sums(ns)[n] = Sums(ns)[n - 1] + ns[n]
  BY <1>1, <1>7
<1> QED
  BY <1>12, <1>13 DEF N

LEMMA TotalIsNat ==
  ASSUME NEW ns \in Seq(Nat)
  PROVE  Total(ns) \in Nat
  BY SumsEquation DEF Total

LEMMA TotalIsMonotone ==
  ASSUME NEW ms \in Seq(Nat), NEW ns \in Seq(Nat), Len(ms) = Len(ns),
         \A n \in 1..Len(ms) : ms[n] <= ns[n]
  PROVE  Total(ms) <= Total(ns)
<1> DEFINE N == Len(ms)
           S == {n \in Nat : n <= N => Sums(ms)[n] <= Sums(ns)[n]}
<1>0. /\ N \in Nat /\ N = Len(ns)
      /\ \A n \in 1..N : ms[n] \in Nat /\ ns[n] \in Nat /\ ms[n] <= ns[n]
  BY ElementOfSeq, LenProperties
<1>a. /\ \A n \in 0..N : Sums(ms)[n] \in Nat /\ Sums(ns)[n] \in Nat
      /\ Sums(ms)[0] = 0 /\ Sums(ns)[0] = 0
      /\ \A n \in 1..N : /\ Sums(ms)[n] = Sums(ms)[n - 1] + ms[n]
                         /\ Sums(ns)[n] = Sums(ns)[n - 1] + ns[n]
  BY <1>0, SumsEquation
<1> HIDE DEF N
<1>1. 0 \in S
  BY <1>0, <1>a
<1>2. ASSUME NEW n \in Nat, n \in S PROVE n + 1 \in S
  <2> SUFFICES ASSUME n + 1 <= N PROVE Sums(ms)[n + 1] <= Sums(ns)[n + 1]
    OBVIOUS
  <2>1. n + 1 \in 1..N /\ n \in 0..N /\ (n + 1) - 1 = n
    BY <1>0
  <2>2. Sums(ms)[n + 1] = Sums(ms)[n] + ms[n + 1] /\ Sums(ns)[n + 1] = Sums(ns)[n] + ns[n + 1]
    BY <2>1, <1>a
  <2>3. Sums(ms)[n] \in Nat /\ Sums(ns)[n] \in Nat /\ ms[n + 1] \in Nat /\ ns[n + 1] \in Nat
    BY <2>1, <1>0, <1>a
  <2>4. Sums(ms)[n] <= Sums(ns)[n] /\ ms[n + 1] <= ns[n + 1]
    BY <1>0, <1>2, <2>1
  <2> QED
    BY <2>2, <2>3, <2>4
<1> HIDE DEF S
<1>3. N \in S
  BY <1>0, <1>1, <1>2, SetInduction
<1> QED
  BY <1>0, <1>3 DEF S, Total, N

(* The sum of two rows is that of their sums. *)
LEMMA TotalAdds ==
  ASSUME NEW ms \in Seq(Nat), NEW ns \in Seq(Nat), NEW both \in Seq(Nat),
         Len(ms) = Len(both), Len(ns) = Len(both), \A n \in 1..Len(both) : both[n] = ms[n] + ns[n]
  PROVE  Total(both) = Total(ms) + Total(ns)
<1> DEFINE N == Len(both)
           S == {n \in Nat : n <= N => Sums(both)[n] = Sums(ms)[n] + Sums(ns)[n]}
<1>0. /\ N \in Nat /\ N = Len(ms) /\ N = Len(ns)
      /\ \A n \in 1..N : ms[n] \in Nat /\ ns[n] \in Nat /\ both[n] = ms[n] + ns[n]
  BY ElementOfSeq, LenProperties
<1>a. /\ \A n \in 0..N : Sums(ms)[n] \in Nat /\ Sums(ns)[n] \in Nat
      /\ Sums(ms)[0] = 0 /\ Sums(ns)[0] = 0 /\ Sums(both)[0] = 0
      /\ \A n \in 1..N : /\ Sums(ms)[n] = Sums(ms)[n - 1] + ms[n]
                         /\ Sums(ns)[n] = Sums(ns)[n - 1] + ns[n]
                         /\ Sums(both)[n] = Sums(both)[n - 1] + both[n]
  BY <1>0, SumsEquation
<1> HIDE DEF N
<1>1. 0 \in S
  BY <1>0, <1>a
<1>2. ASSUME NEW n \in Nat, n \in S PROVE n + 1 \in S
  <2> SUFFICES ASSUME n + 1 <= N PROVE Sums(both)[n + 1] = Sums(ms)[n + 1] + Sums(ns)[n + 1]
    OBVIOUS
  <2>1. n + 1 \in 1..N /\ n \in 0..N /\ (n + 1) - 1 = n
    BY <1>0
  <2>2. /\ Sums(ms)[n + 1] = Sums(ms)[n] + ms[n + 1] /\ Sums(ns)[n + 1] = Sums(ns)[n] + ns[n + 1]
        /\ Sums(both)[n + 1] = Sums(both)[n] + both[n + 1]
    BY <2>1, <1>a
  <2>3. Sums(ms)[n] \in Nat /\ Sums(ns)[n] \in Nat /\ ms[n + 1] \in Nat /\ ns[n + 1] \in Nat
    BY <2>1, <1>0, <1>a
  <2>4. Sums(both)[n] = Sums(ms)[n] + Sums(ns)[n] /\ both[n + 1] = ms[n + 1] + ns[n + 1]
    BY <1>0, <1>2, <2>1
  <2> QED
    BY <2>2, <2>3, <2>4
<1> HIDE DEF S
<1>3. N \in S
  BY <1>0, <1>1, <1>2, SetInduction
<1> QED
  <2>1. Sums(both)[N] = Sums(ms)[N] + Sums(ns)[N]
    BY <1>0, <1>3 DEF S
  <2> QED
    BY <1>0, <2>1 DEF Total, N

(* Two rows of numbers that differ in one place: so do their sums. *)
LEMMA TotalDiffers ==
  ASSUME NEW ms \in Seq(Nat), NEW ns \in Seq(Nat), Len(ms) = Len(ns), NEW o \in 1..Len(ms),
         \A n \in 1..Len(ms) : n # o => ms[n] = ns[n]
  PROVE  Total(ms) + ns[o] = Total(ns) + ms[o]
<1> DEFINE N == Len(ms)
           x == ms[o]
           y == ns[o]
           S == {n \in Nat : n <= N => IF n < o THEN Sums(ms)[n] = Sums(ns)[n]
                                       ELSE Sums(ms)[n] + y = Sums(ns)[n] + x}
<1>0. /\ N \in Nat /\ N = Len(ns) /\ o \in 1..N
      /\ \A n \in 1..N : ms[n] \in Nat /\ ns[n] \in Nat /\ (n # o => ms[n] = ns[n])
  BY ElementOfSeq, LenProperties
<1>a. /\ \A n \in 0..N : Sums(ms)[n] \in Nat /\ Sums(ns)[n] \in Nat
      /\ Sums(ms)[0] = 0 /\ Sums(ns)[0] = 0
      /\ \A n \in 1..N : /\ Sums(ms)[n] = Sums(ms)[n - 1] + ms[n]
                         /\ Sums(ns)[n] = Sums(ns)[n - 1] + ns[n]
  BY <1>0, SumsEquation
<1> HIDE DEF N
<1>1. 0 \in S
  BY <1>0, <1>a
<1>2. ASSUME NEW n \in Nat, n \in S PROVE n + 1 \in S
  <2> DEFINE a == Sums(ms)[n]  b == Sums(ns)[n]
             c == ms[n + 1]    d == ns[n + 1]
  <2> SUFFICES ASSUME n + 1 <= N
               PROVE  IF n + 1 < o THEN Sums(ms)[n + 1] = Sums(ns)[n + 1]
                      ELSE Sums(ms)[n + 1] + y = Sums(ns)[n + 1] + x
    OBVIOUS
  <2>1. n + 1 \in 1..N /\ n \in 0..N /\ (n + 1) - 1 = n
    BY <1>0
  <2>2. Sums(ms)[n + 1] = a + c /\ Sums(ns)[n + 1] = b + d
    BY <2>1, <1>a
  <2>3. a \in Nat /\ b \in Nat /\ c \in Nat /\ d \in Nat /\ x \in Nat /\ y \in Nat /\ o \in Nat
    BY <2>1, <1>0, <1>a
  <2>4. IF n < o THEN a = b ELSE a + y = b + x
    BY <1>0, <1>2, <2>1
  <2>5. n + 1 # o => c = d
    BY <1>0, <2>1
  <2>6. n + 1 = o => c = x /\ d = y
    OBVIOUS
  <2> HIDE DEF a, b, c, d, x, y, S
  <2> QED
    BY <2>2, <2>3, <2>4, <2>5, <2>6
<1> HIDE DEF S
<1>3. N \in S
  BY <1>0, <1>1, <1>2, SetInduction
<1>4. ~ N < o
  BY <1>0
<1> QED
  BY <1>0, <1>3, <1>4 DEF S, Total, N

LEMMA TotalOfNothing ==
  ASSUME NEW ns \in Seq(Nat), \A n \in 1..Len(ns) : ns[n] = 0
  PROVE  Total(ns) = 0
<1> DEFINE N == Len(ns)
           S == {n \in Nat : n <= N => Sums(ns)[n] = 0}
<1>1. 0 \in S
  BY SumsEquation
<1>2. ASSUME NEW n \in Nat, n \in S PROVE n + 1 \in S
  <2> SUFFICES ASSUME n + 1 <= N PROVE Sums(ns)[n + 1] = 0
    OBVIOUS
  <2>1. n + 1 \in 1..N /\ (n + 1) - 1 = n
    OBVIOUS
  <2>2. Sums(ns)[n + 1] = Sums(ns)[n] + ns[n + 1]
    BY <2>1, SumsEquation
  <2> QED
    BY <1>2, <2>1, <2>2
<1> HIDE DEF S
<1>3. \A n \in Nat : n \in S
  BY <1>1, <1>2, SetInduction
<1>4. N \in S
  BY <1>3
<1> QED
  BY <1>4 DEF S, Total

(* If all is in one place, it is the sum. *)
LEMMA TotalOfOne ==
  ASSUME NEW ns \in Seq(Nat), NEW o \in 1..Len(ns), \A n \in 1..Len(ns) : n # o => ns[n] = 0
  PROVE  Total(ns) = ns[o]
<1> DEFINE zs == [n \in 1..Len(ns) |-> 0]
<1>1. zs \in Seq(Nat) /\ Len(zs) = Len(ns) /\ \A n \in 1..Len(ns) : zs[n] = 0
  OBVIOUS
<1> HIDE DEF zs
<1>2. Total(zs) = 0
  BY <1>1, TotalOfNothing
<1>3. Total(ns) + zs[o] = Total(zs) + ns[o]
  BY <1>1, TotalDiffers
<1>4. ns[o] \in Nat /\ zs[o] = 0 /\ Total(ns) \in Nat
  BY <1>1, TotalIsNat
<1> QED
  BY <1>2, <1>3, <1>4

-----------------------------------------------------------------------------
(* The plan *)

(* What an element of a plan is, and a plan that carries the files F, each once. *)
GoodGroup(ms, F) ==
    /\ ms \in Seq(Files) /\ ms # <<>>
    /\ \A i \in 1..Len(ms) : ms[i] \in F
    /\ \A i, j \in 1..Len(ms) : i < j => ms[i] < ms[j]
    /\ Len(ms) > 1 => Size(ms) <= Target /\ \A i \in 1..Len(ms) : Small(ms[i])

Carries(groups, F) ==
    /\ groups \in Seq(Seq(Files))
    /\ \A g \in 1..Len(groups) : GoodGroup(groups[g], F)
    /\ \A f \in F : \E g \in 1..Len(groups) : \E i \in 1..Len(groups[g]) : groups[g][i] = f
    /\ \A g, h \in 1..Len(groups) : \A i \in 1..Len(groups[g]), j \in 1..Len(groups[h]) :
          groups[g][i] = groups[h][j] => g = h

LEMMA FilesAreNumbered ==
  ASSUME kinds \in Sources
  PROVE  /\ Len(kinds) \in Nat /\ Len(kinds) > 0 /\ Files = 1..Len(kinds)
         /\ \A f \in Files : kinds[f] \in [size : Nat, packed : Nat \ {0}]
<1> DEFINE R == [size : Nat, packed : Nat \ {0}]
<1>1. kinds \in Seq(R) /\ kinds # <<>>
  BY TransportAssumption
<1> HIDE DEF R
<1>2. Len(kinds) \in Nat /\ Len(kinds) # 0 /\ DOMAIN kinds = 1..Len(kinds)
  BY <1>1, EmptySeq, LenProperties
<1>3. \A f \in 1..Len(kinds) : kinds[f] \in R
  BY <1>1, ElementOfSeq
<1> QED
  BY <1>2, <1>3 DEF Files, R

LEMMA OneMoreGroup ==
  ASSUME kinds \in Sources, NEW groups, NEW F, Carries(groups, F), NEW f \in Files, f \notin F
  PROVE  Carries(Append(groups, <<f>>), F \cup {f})
<1> DEFINE new == Append(groups, <<f>>)
           N == Len(groups)
<1>1. /\ groups \in Seq(Seq(Files)) /\ N \in Nat /\ <<f>> \in Seq(Files)
      /\ Len(<<f>>) = 1 /\ <<f>>[1] = f /\ <<f>> # <<>>
  BY DEF Carries
<1>2. /\ new \in Seq(Seq(Files)) /\ Len(new) = N + 1
      /\ \A g \in 1..N : new[g] = groups[g]
      /\ new[N + 1] = <<f>>
  BY <1>1
<1> HIDE DEF new, N
<1>3. ASSUME NEW g \in 1..(N + 1) PROVE g \in 1..N \/ g = N + 1
  BY <1>1
<1>4. ASSUME NEW g \in 1..(N + 1) PROVE GoodGroup(new[g], F \cup {f})
  <2>1. CASE g \in 1..N
    BY <1>2, <2>1 DEF Carries, GoodGroup, N
  <2>2. CASE g = N + 1
    <3>1. GoodGroup(<<f>>, F \cup {f})
      <4>1. \A i \in 1..1 : i = 1
        OBVIOUS
      <4> QED
        BY <1>1, <4>1 DEF GoodGroup
    <3> QED
      BY <1>2, <2>2, <3>1
  <2> QED
    BY <1>3, <2>1, <2>2
<1>5. ASSUME NEW x \in F \cup {f}
      PROVE  \E g \in 1..(N + 1) : \E i \in 1..Len(new[g]) : new[g][i] = x
  <2>1. CASE x \in F
    <3>1. PICK g \in 1..N : \E i \in 1..Len(groups[g]) : groups[g][i] = x
      BY <2>1 DEF Carries, N
    <3>2. g \in 1..(N + 1)
      BY <1>1
    <3> QED
      BY <1>2, <3>1, <3>2
  <2>2. CASE x = f
    <3>1. N + 1 \in 1..(N + 1) /\ 1 \in 1..Len(new[N + 1]) /\ new[N + 1][1] = x
      BY <1>1, <1>2, <2>2
    <3> QED
      BY <3>1
  <2> QED
    BY <2>1, <2>2
<1>6. ASSUME NEW g \in 1..(N + 1), NEW h \in 1..(N + 1),
             NEW i \in 1..Len(new[g]), NEW j \in 1..Len(new[h]), new[g][i] = new[h][j]
      PROVE  g = h
  <2>1. CASE g \in 1..N /\ h \in 1..N
    <3>1. new[g] = groups[g] /\ new[h] = groups[h]
      BY <1>2, <2>1
    <3>2. i \in 1..Len(groups[g]) /\ j \in 1..Len(groups[h]) /\ groups[g][i] = groups[h][j]
      BY <1>6, <3>1
    <3> QED
      BY <2>1, <3>2 DEF Carries, N
  <2>2. CASE g \in 1..N /\ h = N + 1
    <3>1. new[g][i] \in F
      BY <1>2, <2>2 DEF Carries, N, GoodGroup
    <3>2. new[h][j] = f
      BY <1>1, <1>2, <2>2
    <3> QED
      BY <1>6, <3>1, <3>2
  <2>3. CASE g = N + 1 /\ h \in 1..N
    <3>1. new[h][j] \in F
      BY <1>2, <2>3 DEF Carries, N, GoodGroup
    <3>2. new[g][i] = f
      BY <1>1, <1>2, <2>3
    <3> QED
      BY <1>6, <3>1, <3>2
  <2> QED
    BY <1>3, <2>1, <2>2, <2>3
<1> QED
  BY <1>2, <1>4, <1>5, <1>6 DEF Carries, new

(* The next file in the order of the paths goes into the last pack, or begins another. *)
LEMMA PackedCarriesOneMore ==
  ASSUME kinds \in Sources, NEW groups, NEW F, Carries(groups, F), NEW f \in Files,
         \A x \in F : x < f /\ Small(x), Small(f)
  PROVE  /\ Carries(Packed(groups, f), F \cup {f})
         /\ Len(Packed(groups, f)) <= Len(groups) + 1
<1> DEFINE N == Len(groups)
           group == groups[N]
           longer == Append(group, f)
           new == [groups EXCEPT ![N] = longer]
<1>1. groups \in Seq(Seq(Files)) /\ N \in Nat /\ f \notin F
  BY FilesAreNumbered DEF Carries
<1>2. CASE groups # <<>> /\ Fits(Last(groups), f)
  <2>1. N \in 1..N /\ Last(groups) = group /\ Packed(groups, f) = new
    BY <1>1, <1>2 DEF Packed, Last
  <2>2. /\ GoodGroup(group, F) /\ group \in Seq(Files) /\ Len(group) \in Nat
    BY <2>1 DEF Carries, GoodGroup
  <2> DEFINE L == Len(group)
  <2>3. /\ longer \in Seq(Files) /\ Len(longer) = L + 1 /\ longer # <<>>
        /\ \A i \in 1..L : longer[i] = group[i]
        /\ longer[L + 1] = f
    BY <2>2
  <2>4. Size(longer) <= Target
    BY <1>2, <2>1 DEF Fits
  <2>5. /\ new \in Seq(Seq(Files)) /\ Len(new) = N
        /\ \A g \in 1..N : g # N => new[g] = groups[g]
        /\ new[N] = longer
    BY <1>1, <2>1, <2>3
  <2> HIDE DEF new, longer, N, group, L
  <2>6. ASSUME NEW i \in 1..(L + 1) PROVE i \in 1..L \/ i = L + 1
    BY <2>2 DEF L
  <2>7. GoodGroup(longer, F \cup {f})
    <3>1. ASSUME NEW i \in 1..(L + 1) PROVE longer[i] \in F \cup {f}
      BY <2>2, <2>3, <2>6 DEF GoodGroup, L
    <3>2. ASSUME NEW i \in 1..(L + 1), NEW j \in 1..(L + 1), i < j PROVE longer[i] < longer[j]
      <4>1. i \in 1..L
        BY <2>2, <3>2 DEF L
      <4>2. CASE j \in 1..L
        BY <2>2, <2>3, <3>2, <4>1, <4>2 DEF GoodGroup, L
      <4>3. CASE j = L + 1
        BY <2>2, <2>3, <4>1, <4>3 DEF GoodGroup, L
      <4> QED
        BY <2>6, <4>2, <4>3
    <3>3. \A i \in 1..(L + 1) : Small(longer[i])
      BY <3>1
    <3> QED
      BY <2>3, <2>4, <3>1, <3>2, <3>3 DEF GoodGroup
  <2>8. ASSUME NEW g \in 1..N PROVE GoodGroup(new[g], F \cup {f})
    <3>1. CASE g = N
      BY <2>5, <2>7, <3>1
    <3>2. CASE g # N
      BY <2>5, <3>2 DEF Carries, GoodGroup, N
    <3> QED
      BY <3>1, <3>2
  <2>9. ASSUME NEW x \in F \cup {f}
        PROVE  \E g \in 1..N : \E i \in 1..Len(new[g]) : new[g][i] = x
    <3>1. CASE x \in F
      <4>1. PICK g \in 1..N : \E i \in 1..Len(groups[g]) : groups[g][i] = x
        BY <3>1 DEF Carries, N
      <4>2. PICK i \in 1..Len(groups[g]) : groups[g][i] = x
        BY <4>1
      <4>3. CASE g = N
        <5>1. i \in 1..L /\ i \in 1..(L + 1) /\ group[i] = x
          BY <4>2, <4>3, <2>2 DEF L, group
        <5> QED
          BY <2>3, <2>5, <4>3, <5>1
      <4>4. CASE g # N
        BY <2>5, <4>2, <4>4
      <4> QED
        BY <4>3, <4>4
    <3>2. CASE x = f
      <4>1. L + 1 \in 1..(L + 1)
        BY <2>2 DEF L
      <4> QED
        BY <2>1, <2>3, <2>5, <3>2, <4>1
    <3> QED
      BY <3>1, <3>2
  <2>10. ASSUME NEW g \in 1..N, NEW i \in 1..Len(new[g])
         PROVE  \/ i \in 1..Len(groups[g]) /\ groups[g][i] = new[g][i] /\ new[g][i] \in F
                \/ g = N /\ new[g][i] = f
    <3>1. CASE g = N
      <4>1. i \in 1..(L + 1)
        BY <2>3, <2>5, <3>1
      <4>2. CASE i \in 1..L
        BY <2>2, <2>3, <2>5, <3>1, <4>2 DEF L, group, GoodGroup
      <4>3. CASE i = L + 1
        BY <2>3, <2>5, <3>1, <4>3
      <4> QED
        BY <2>6, <4>1, <4>2, <4>3
    <3>2. CASE g # N
      BY <2>5, <3>2 DEF Carries, GoodGroup, N
    <3> QED
      BY <3>1, <3>2
  <2>11. ASSUME NEW g \in 1..N, NEW h \in 1..N,
                NEW i \in 1..Len(new[g]), NEW j \in 1..Len(new[h]), new[g][i] = new[h][j]
         PROVE  g = h
    <3>1. CASE new[g][i] \in F
      <4>1. /\ i \in 1..Len(groups[g]) /\ groups[g][i] = new[g][i]
            /\ j \in 1..Len(groups[h]) /\ groups[h][j] = new[h][j]
        BY <1>1, <2>10, <2>11, <3>1
      <4> QED
        BY <2>11, <4>1 DEF Carries, N
    <3>2. CASE new[g][i] \notin F
      BY <2>10, <2>11, <3>2
    <3> QED
      BY <3>1, <3>2
  <2>12. Carries(new, F \cup {f})
    BY <2>5, <2>8, <2>9, <2>11 DEF Carries
  <2> QED
    BY <1>1, <2>1, <2>5, <2>12 DEF N
<1>3. CASE ~ (groups # <<>> /\ Fits(Last(groups), f))
  <2>1. Packed(groups, f) = Append(groups, <<f>>)
    BY <1>3 DEF Packed
  <2>2. Len(Append(groups, <<f>>)) = N + 1
    BY <1>1
  <2>3. Carries(Append(groups, <<f>>), F \cup {f})
    BY <1>1, OneMoreGroup
  <2> QED
    BY <1>1, <2>1, <2>2, <2>3
<1> QED
  BY <1>2, <1>3

LEMMA PackedType ==
  ASSUME kinds \in Sources, NEW groups \in Seq(Seq(Files)), NEW f \in Files
  PROVE  Packed(groups, f) \in Seq(Seq(Files))
<1>1. <<f>> \in Seq(Files)
  OBVIOUS
<1>2. CASE groups # <<>> /\ Fits(Last(groups), f)
  <2>1. Len(groups) \in 1..Len(groups)
    BY <1>2
  <2>2. Append(groups[Len(groups)], f) \in Seq(Files)
    BY <2>1
  <2>3. [groups EXCEPT ![Len(groups)] = Append(groups[Len(groups)], f)] \in Seq(Seq(Files))
    BY <2>1, <2>2, ExceptSeq
  <2> QED
    BY <1>2, <2>3 DEF Packed
<1>3. CASE ~ (groups # <<>> /\ Fits(Last(groups), f))
  BY <1>1, <1>3 DEF Packed
<1> QED
  BY <1>2, <1>3

LEMMA GroupedEquation ==
  ASSUME kinds \in Sources
  PROVE  /\ Grouped[0] = <<>>
         /\ \A n \in 1..Len(kinds) :
               Grouped[n] = IF Small(n) THEN Packed(Grouped[n - 1], n) ELSE Grouped[n - 1]
<1> DEFINE N == Len(kinds)
           V == Seq(Seq(Files))
           step == [p \in (1..N) \X V |-> IF Small(p[1]) THEN Packed(p[2], p[1]) ELSE p[2]]
<1>1. N \in Nat /\ Files = 1..N /\ <<>> \in V
  BY FilesAreNumbered
<1>2. \A gs \in V, f \in 1..N : Packed(gs, f) \in V
  BY <1>1, PackedType
<1> HIDE DEF N, V
<1>3. step \in Steps(N, V)
  BY <1>2 DEF Steps
<1>4. PICK f \in [0..N -> V] : Follows(f, <<>>, step, N)
  <2> HIDE DEF step
  <2> QED
    BY <1>1, <1>3, RecursionExists
<1>5. ASSUME NEW n \in 1..N PROVE f[n] = IF Small(n) THEN Packed(f[n - 1], n) ELSE f[n - 1]
  <2>1. n - 1 \in 0..N /\ f[n - 1] \in V
    BY <1>1
  <2>2. <<n, f[n - 1]>> \in (1..N) \X V
    BY <2>1
  <2>3. f[n] = step[<<n, f[n - 1]>>]
    BY <1>4 DEF Follows
  <2> QED
    BY <2>2, <2>3
<1>6. f = [n \in 0..N |-> IF n = 0 THEN <<>> ELSE IF Small(n) THEN Packed(f[n - 1], n) ELSE f[n - 1]]
  BY <1>1, <1>4, <1>5 DEF Follows
<1>7. \E g : g = [n \in 0..N |-> IF n = 0 THEN <<>> ELSE IF Small(n) THEN Packed(g[n - 1], n) ELSE g[n - 1]]
  BY <1>6
<1>8. Grouped = [n \in 0..N |-> IF n = 0 THEN <<>>
                                 ELSE IF Small(n) THEN Packed(Grouped[n - 1], n) ELSE Grouped[n - 1]]
  BY <1>7 DEF Grouped, N
<1> QED
  BY <1>1, <1>8 DEF N

LEMMA StandaloneEquation ==
  ASSUME kinds \in Sources
  PROVE  /\ Standalone[0] = <<>>
         /\ \A n \in 1..Len(kinds) :
               Standalone[n] = IF Small(n) THEN Standalone[n - 1] ELSE Append(Standalone[n - 1], <<n>>)
<1> DEFINE N == Len(kinds)
           V == Seq(Seq(Files))
           step == [p \in (1..N) \X V |-> IF Small(p[1]) THEN p[2] ELSE Append(p[2], <<p[1]>>)]
<1>1. N \in Nat /\ Files = 1..N /\ <<>> \in V
  BY FilesAreNumbered
<1>2. \A gs \in V, f \in 1..N : Append(gs, <<f>>) \in V
  BY <1>1
<1> HIDE DEF N, V
<1>3. step \in Steps(N, V)
  BY <1>2 DEF Steps
<1>4. PICK f \in [0..N -> V] : Follows(f, <<>>, step, N)
  <2> HIDE DEF step
  <2> QED
    BY <1>1, <1>3, RecursionExists
<1>5. ASSUME NEW n \in 1..N PROVE f[n] = IF Small(n) THEN f[n - 1] ELSE Append(f[n - 1], <<n>>)
  <2>1. n - 1 \in 0..N /\ f[n - 1] \in V
    BY <1>1
  <2>2. <<n, f[n - 1]>> \in (1..N) \X V
    BY <2>1
  <2>3. f[n] = step[<<n, f[n - 1]>>]
    BY <1>4 DEF Follows
  <2> QED
    BY <2>2, <2>3
<1>6. f = [n \in 0..N |-> IF n = 0 THEN <<>> ELSE IF Small(n) THEN f[n - 1] ELSE Append(f[n - 1], <<n>>)]
  <2> DEFINE next(n) == IF Small(n) THEN f[n - 1] ELSE Append(f[n - 1], <<n>>)
  <2>1. f[0] = <<>> /\ \A n \in 1..N : f[n] = next(n)
    BY <1>4, <1>5 DEF Follows
  <2> HIDE DEF next
  <2>2. f = [n \in 0..N |-> IF n = 0 THEN <<>> ELSE next(n)]
    BY <1>1, <2>1
  <2> QED
    BY <2>2 DEF next
<1>7. \E g : g = [n \in 0..N |-> IF n = 0 THEN <<>> ELSE IF Small(n) THEN g[n - 1] ELSE Append(g[n - 1], <<n>>)]
  BY <1>6
<1>8. Standalone = [n \in 0..N |-> IF n = 0 THEN <<>>
                                    ELSE IF Small(n) THEN Standalone[n - 1] ELSE Append(Standalone[n - 1], <<n>>)]
  BY <1>7 DEF Standalone, N
<1> DEFINE next(n) == IF Small(n) THEN Standalone[n - 1] ELSE Append(Standalone[n - 1], <<n>>)
<1>9. Standalone = [n \in 0..N |-> IF n = 0 THEN <<>> ELSE next(n)]
  BY <1>8
<1> HIDE DEF next
<1>10. Standalone[0] = <<>> /\ \A n \in 1..N : Standalone[n] = next(n)
  BY <1>1, <1>9
<1> QED
  BY <1>10 DEF N, next

SmallUpTo(n) == {f \in 1..n : Small(f)}
LargeUpTo(n) == {f \in 1..n : ~Small(f)}

LEMMA GroupsCarryTheFiles ==
  ASSUME kinds \in Sources
  PROVE  \A n \in 0..Len(kinds) : /\ Carries(Grouped[n], SmallUpTo(n))
                                  /\ Carries(Standalone[n], LargeUpTo(n))
                                  /\ Len(Grouped[n]) + Len(Standalone[n]) <= n
<1> DEFINE N == Len(kinds)
           Good(n) == /\ Carries(Grouped[n], SmallUpTo(n))
                      /\ Carries(Standalone[n], LargeUpTo(n))
                      /\ Len(Grouped[n]) + Len(Standalone[n]) <= n
           S == {n \in Nat : n <= N => Good(n)}
<1> HIDE DEF Good
<1>1. N \in Nat /\ Files = 1..N
  BY FilesAreNumbered
<1>2. 0 \in S
  <2>1. Carries(<<>>, {})
    BY DEF Carries
  <2>2. SmallUpTo(0) = {} /\ LargeUpTo(0) = {}
    BY DEF SmallUpTo, LargeUpTo
  <2>3. Grouped[0] = <<>> /\ Standalone[0] = <<>>
    BY GroupedEquation, StandaloneEquation
  <2>4. Good(0)
    BY <2>1, <2>2, <2>3 DEF Good
  <2> QED
    BY <2>4
<1>3. ASSUME NEW n \in Nat, n \in S PROVE n + 1 \in S
  <2> DEFINE m == n + 1
  <2> SUFFICES ASSUME m <= N PROVE Good(m)
    OBVIOUS
  <2>1. m \in 1..N /\ n \in 0..N /\ m - 1 = n /\ m \in Files /\ n <= N
    BY <1>1
  <2> DEFINE a == Len(Grouped[n])
             b == Len(Standalone[n])
  <2>2. Good(n)
    BY <1>3, <2>1
  <2>3. /\ Carries(Grouped[n], SmallUpTo(n)) /\ Carries(Standalone[n], LargeUpTo(n))
        /\ a \in Nat /\ b \in Nat /\ a + b <= n
    <3>1. Carries(Grouped[n], SmallUpTo(n)) /\ Carries(Standalone[n], LargeUpTo(n)) /\ a + b <= n
      BY <2>2 DEF Good
    <3>2. Grouped[n] \in Seq(Seq(Files)) /\ Standalone[n] \in Seq(Seq(Files))
      BY <3>1 DEF Carries
    <3>3. a \in Nat /\ b \in Nat
      BY <3>2
    <3> QED
      BY <3>1, <3>3
  <2> HIDE DEF N
  <2>4. CASE Small(m)
    <3>1. SmallUpTo(m) = SmallUpTo(n) \cup {m} /\ LargeUpTo(m) = LargeUpTo(n)
      BY <2>4 DEF SmallUpTo, LargeUpTo
    <3>2. Grouped[m] = Packed(Grouped[n], m) /\ Standalone[m] = Standalone[n]
      BY <2>1, <2>4, GroupedEquation, StandaloneEquation DEF N
    <3>3. \A x \in SmallUpTo(n) : x < m /\ Small(x)
      BY DEF SmallUpTo
    <3> HIDE DEF m
    <3>4. /\ Carries(Packed(Grouped[n], m), SmallUpTo(n) \cup {m})
          /\ Len(Packed(Grouped[n], m)) <= a + 1
      BY <2>1, <2>3, <2>4, <3>3, PackedCarriesOneMore
    <3>5. Len(Packed(Grouped[n], m)) \in Nat
      BY <3>4 DEF Carries
    <3> DEFINE c == Len(Grouped[m])
    <3>6. c \in Nat /\ c <= a + 1 /\ Len(Standalone[m]) = b
      BY <3>2, <3>4, <3>5
    <3> HIDE DEF a, b, c
    <3>7. c + b <= m
      BY <2>3, <3>6 DEF m
    <3> QED
      BY <2>3, <3>1, <3>2, <3>4, <3>6, <3>7 DEF Good, c
  <2>5. CASE ~Small(m)
    <3>1. SmallUpTo(m) = SmallUpTo(n) /\ LargeUpTo(m) = LargeUpTo(n) \cup {m}
      BY <2>5 DEF SmallUpTo, LargeUpTo
    <3>2. Grouped[m] = Grouped[n] /\ Standalone[m] = Append(Standalone[n], <<m>>)
      BY <2>1, <2>5, GroupedEquation, StandaloneEquation DEF N
    <3>3. m \notin LargeUpTo(n)
      BY DEF LargeUpTo
    <3>4. Len(Append(Standalone[n], <<m>>)) = b + 1
      BY <2>3 DEF Carries
    <3> HIDE DEF m
    <3>5. Carries(Append(Standalone[n], <<m>>), LargeUpTo(n) \cup {m})
      BY <2>1, <2>3, <3>3, OneMoreGroup
    <3>6. Len(Grouped[m]) = a /\ Len(Standalone[m]) = b + 1
      BY <3>2, <3>4
    <3> HIDE DEF a, b
    <3>7. a + (b + 1) <= m
      BY <2>3 DEF m
    <3> QED
      BY <2>3, <3>1, <3>2, <3>5, <3>6, <3>7 DEF Good
  <2> QED
    BY <2>4, <2>5
<1> HIDE DEF S
<1>4. \A n \in Nat : n \in S
  BY <1>2, <1>3, SetInduction
<1>5. \A n \in 0..N : Good(n)
  BY <1>1, <1>4 DEF S
<1> QED
  BY <1>5 DEF Good

(* The transport plan carries every file, in good groups, and is not longer than the files. *)
LEMMA PlanCarriesTheFiles ==
  ASSUME kinds \in Sources
  PROVE  Carries(plan_packs, Files) /\ Len(plan_packs) <= Len(kinds)
<1> DEFINE N == Len(kinds)
           gs == Grouped[N]
           hs == Standalone[N]
           F == SmallUpTo(N)
           H == LargeUpTo(N)
           plan == gs \o hs
           G == Len(gs)
<1>1. /\ N \in 0..N /\ Files = 1..N /\ F \cup H = Files /\ F \cap H = {}
      /\ plan = plan_packs
  BY FilesAreNumbered DEF SmallUpTo, LargeUpTo, plan_packs
<1>2. Carries(gs, F) /\ Carries(hs, H) /\ Len(gs) + Len(hs) <= N
  BY <1>1, GroupsCarryTheFiles
<1> HIDE DEF N, gs, hs, F, H
<1>3. /\ plan \in Seq(Seq(Files)) /\ Len(plan) = G + Len(hs)
      /\ G \in Nat /\ Len(hs) \in Nat
      /\ \A g \in 1..G : plan[g] = gs[g]
      /\ \A g \in 1..Len(hs) : plan[G + g] = hs[g]
  BY <1>2 DEF Carries
<1> HIDE DEF plan, G
<1>4. ASSUME NEW g \in 1..Len(plan)
      PROVE  \/ g \in 1..G /\ plan[g] = gs[g] /\ GoodGroup(plan[g], F)
             \/ g - G \in 1..Len(hs) /\ plan[g] = hs[g - G] /\ GoodGroup(plan[g], H)
  <2>1. CASE g \in 1..G
    BY <1>2, <1>3, <2>1 DEF Carries, G
  <2>2. CASE g \notin 1..G
    <3>1. g - G \in 1..Len(hs) /\ G + (g - G) = g
      BY <1>3, <2>2
    <3> QED
      BY <1>2, <1>3, <3>1 DEF Carries
  <2> QED
    BY <2>1, <2>2
<1>5. ASSUME NEW g \in 1..Len(plan) PROVE GoodGroup(plan[g], Files)
  BY <1>1, <1>4 DEF GoodGroup
<1>6. ASSUME NEW f \in Files
      PROVE  \E g \in 1..Len(plan) : \E i \in 1..Len(plan[g]) : plan[g][i] = f
  <2>1. CASE f \in F
    <3>1. PICK g \in 1..G : \E i \in 1..Len(gs[g]) : gs[g][i] = f
      BY <1>2, <2>1 DEF Carries, G
    <3>2. g \in 1..Len(plan) /\ plan[g] = gs[g]
      BY <1>3
    <3> QED
      BY <3>1, <3>2
  <2>2. CASE f \in H
    <3>1. PICK h \in 1..Len(hs) : \E i \in 1..Len(hs[h]) : hs[h][i] = f
      BY <1>2, <2>2 DEF Carries
    <3>2. G + h \in 1..Len(plan) /\ plan[G + h] = hs[h]
      BY <1>3
    <3> QED
      BY <3>1, <3>2
  <2> QED
    BY <1>1, <2>1, <2>2
<1>7. ASSUME NEW g \in 1..Len(plan), NEW h \in 1..Len(plan),
             NEW i \in 1..Len(plan[g]), NEW j \in 1..Len(plan[h]), plan[g][i] = plan[h][j]
      PROVE  g = h
  <2>1. CASE g \in 1..G /\ plan[g] = gs[g] /\ GoodGroup(plan[g], F)
    <3>1. plan[g][i] \in F
      BY <2>1 DEF GoodGroup
    <3>2. ~ GoodGroup(plan[h], H)
      BY <1>1, <1>7, <3>1 DEF GoodGroup
    <3>3. h \in 1..G /\ plan[h] = gs[h]
      BY <1>4, <3>2
    <3> QED
      BY <1>2, <1>7, <2>1, <3>3 DEF Carries, G
  <2>2. CASE g - G \in 1..Len(hs) /\ plan[g] = hs[g - G] /\ GoodGroup(plan[g], H)
    <3>1. plan[g][i] \in H
      BY <2>2 DEF GoodGroup
    <3>2. ~ GoodGroup(plan[h], F)
      BY <1>1, <1>7, <3>1 DEF GoodGroup
    <3>3. h - G \in 1..Len(hs) /\ plan[h] = hs[h - G]
      BY <1>4, <3>2
    <3>4. g - G = h - G
      <4> DEFINE x == g - G
                 y == h - G
      <4>1. x \in 1..Len(hs) /\ y \in 1..Len(hs) /\ plan[g] = hs[x] /\ plan[h] = hs[y]
        BY <2>2, <3>3
      <4> HIDE DEF x, y
      <4>2. x = y
        BY <1>2, <1>7, <4>1 DEF Carries
      <4> QED
        BY <4>2 DEF x, y
    <3> QED
      BY <1>3, <3>4
  <2> QED
    BY <1>4, <2>1, <2>2
<1>8. Carries(plan, Files)
  BY <1>3, <1>5, <1>6, <1>7 DEF Carries
<1> QED
  BY <1>1, <1>2, <1>3, <1>8 DEF N, G

-----------------------------------------------------------------------------
(* The inductive invariant *)

Statuses == {"inventorying", "planned", "uploaded", "failed", "cleared"}
Places   == {"stat", "hash", "group", "check", "read", "encoded", "idle", "object", "part", "send", "uploaded"}
State    == [content : Contents, stamp : Nat]
Objects  == [pack : BOOLEAN, members : Seq(Files), bytes : Nat]

Inventorying == status = "inventorying"
Encodes      == pc \in {"check", "read", "encoded"}
Sends        == pc \in {"part", "send", "uploaded"}

Shape ==
    /\ kinds \in Sources /\ source \in [Files -> State] /\ records \in [Files -> State]
    /\ status \in Statuses /\ pc \in Places
    /\ objects \in Seq(Objects)
    /\ packs \in [Files -> Seq(Contents)] /\ temps \in [Files -> Seq(Nat)]
    /\ unremoved \subseteq Files /\ strays \in [Files -> Seq(Nat)]
    /\ stored \in [Files -> Seq(Seq(Contents))]
    /\ file \in Nat \ {0} /\ object \in Nat \ {0} /\ marks \in Seq(Files)
    /\ encoding \in [staging : BOOLEAN, members : Seq(Files), read : Seq(Contents), limit : Nat]
    /\ cachedBytes \in Nat /\ forgotten \in Nat /\ edits \in Nat
    /\ hidden \in BOOLEAN /\ clearedBusy \in BOOLEAN

(* The size of a pack, what a pack in the cache takes, and whether a row of contents is what was
   recorded of the members.                                                                    *)
SizeOf(ks, ms, cs) == Total([i \in DOMAIN cs |-> ks[ms[i]].packed + (IF cs[i] = 1 THEN 1 ELSE 0)])
PackRow(ks, obs, pks) ==
    [o \in DOMAIN ks |-> IF pks[o] = NoPack THEN 0 ELSE SizeOf(ks, obs[o].members, pks[o])]
HasContents(recs, ms, cs) == Len(cs) = Len(ms) /\ \A i \in 1..Len(ms) : cs[i] = recs[ms[i]].content
PacksFitObjects(ks, obs, pks) ==
    /\ pks \in [DOMAIN ks -> Seq(Contents)]
    /\ \A o \in DOMAIN ks : pks[o] # NoPack =>
          o \in DOMAIN obs /\ obs[o].members \in Seq(DOMAIN ks) /\ Len(pks[o]) = Len(obs[o].members)

(* The objects are the groups of the plan as far as they are encoded; only a single large file
   goes without a pack.                                                                       *)
AsGrouped ==
    /\ Len(objects) <= Len(plan_packs)
    /\ \A o \in DOMAIN objects : /\ objects[o].members = plan_packs[o]
                                 /\ ~objects[o].pack => Len(objects[o].members) = 1
    /\ status \in {"planned", "uploaded"} => Len(objects) = Len(plan_packs)

Ordered == order \in [DOMAIN objects -> DOMAIN objects]

(* Where Courier can be in which status. *)
Placed ==
    /\ pc \in {"stat", "hash"} => file \in Files /\ objects = <<>>
    /\ pc \in {"stat", "hash", "group"} => Inventorying
    /\ pc = "object" \/ Sends => ~Inventorying
    /\ Inventorying /\ pc # "idle" => object = Len(objects) + 1
    /\ ~Inventorying /\ pc # "idle" => status \in {"planned", "cleared"} /\ Ordered
    /\ status \in {"planned", "uploaded"} => Ordered
    /\ ~Inventorying /\ (Encodes \/ Sends) => file \in DOMAIN order /\ object = order[file]

(* What is being encoded, and how far. *)
EncodesTheObject ==
    Encodes =>
        /\ IF Inventorying
           THEN object \in DOMAIN plan_packs /\ encoding.members = plan_packs[object]
           ELSE objects[object].pack /\ encoding.members = objects[object].members
        /\ IF pc = "encoded" THEN Len(encoding.read) = Len(encoding.members)
                             ELSE Len(encoding.read) < Len(encoding.members)
        /\ encoding.limit <= Budget
        /\ encoding.staging => SizeOf(kinds, encoding.members, encoding.read) <= encoding.limit

(* A pack is only sent in its planned size. *)
SendsAsPlanned ==
    /\ pc \in {"part", "send"} /\ objects[object].pack /\ packs[object] # NoPack
          => SizeOf(kinds, objects[object].members, packs[object]) = objects[object].bytes
    /\ pc = "send" /\ status = "planned" /\ objects[object].pack => packs[object] # NoPack

PlannedSizes ==
    \A o \in DOMAIN objects : \A p \in DOMAIN stored[o] :
        objects[o].pack => SizeOf(kinds, objects[o].members, stored[o][p]) = objects[o].bytes

NothingStored == Inventorying => \A o \in Files : stored[o] = <<>>

(* Stamps only grow, so that without hidden edits a stamp stands for a content. *)
StampsGrow == \A f \in Files : source[f].stamp <= edits /\ records[f].stamp <= edits

Recorded(f) == records[f].stamp = source[f].stamp => records[f].content = source[f].content

FilesAreRecorded ==
    pc # "idle" \/ status = "planned" => \A f \in Files : (pc = "hash" /\ f = file) \/ Recorded(f)

ReadsTheRecorded ==
    /\ Encodes => \A i \in DOMAIN encoding.read : encoding.read[i] = records[encoding.members[i]].content
    /\ pc = "read" => verify_source_unchanged(Member)
    /\ pc = "send" /\ ~objects[object].pack => verify_source_unchanged(objects[object].members[1])

CachesTheRecorded ==
    \A o \in DOMAIN objects : packs[o] # NoPack => HasContents(records, objects[o].members, packs[o])

StoresTheRecorded ==
    \A o \in DOMAIN objects : \A p \in DOMAIN stored[o] : HasContents(records, objects[o].members, stored[o][p])

HoldsTheRecorded ==
    ~hidden => FilesAreRecorded /\ ReadsTheRecorded /\ CachesTheRecorded /\ StoresTheRecorded

(* The cache: the packs but for those whose removal failed *)
Counted   == [o \in DOMAIN kinds |-> IF o \in unremoved THEN NoPack ELSE packs[o]]
PackTotal == Total(PackRow(kinds, objects, Counted))
NoPacks   == \A o \in Files : Counted[o] = NoPack
NoTemps   == \A o \in Files : temps[o] = NoTemp

IsMarked(o) == ToSet(objects[o].members) \subseteq marked

(* The object that an upload comes to first. *)
IsNext(o) == \E k \in DOMAIN order : /\ order[k] = o /\ ~IsMarked(o)
                                     /\ \A j \in 1..(k - 1) : IsMarked(order[j])

CacheWhileInventorying ==
    Inventorying =>
        /\ PackTotal <= cachedBytes + forgotten /\ cachedBytes <= Budget
        /\ Encodes => encoding.limit = Monus(Budget, cachedBytes)
        /\ \A o \in Files : temps[o] # NoTemp => /\ pc = "idle" \/ (Encodes /\ o = object /\ encoding.staging)
                                                 /\ temps[o][1] + cachedBytes <= Budget
        /\ \A o, p \in Files : temps[o] # NoTemp /\ temps[p] # NoTemp => o = p

(* A .tmp file that is left is of the pack that is staged, or of one that was staged when
   Courier died, and will be staged again before anything else is.                        *)
TempsAreOfTheNext ==
    /\ \A o \in Files : temps[o] # NoTemp => /\ NoPacks /\ packs[o] = NoPack /\ temps[o][1] <= Budget
                                             /\ Ordered /\ o \in DOMAIN objects /\ objects[o].pack /\ IsNext(o)
                                             /\ Encodes => encoding.staging
    /\ \A o, p \in Files : temps[o] # NoTemp /\ temps[p] # NoTemp => o = p

CacheAfterwards ==
    ~Inventorying =>
        /\ PackTotal <= Budget + forgotten
        /\ TempsAreOfTheNext
        /\ Encodes => NoPacks
        /\ Sends => NoTemps
        /\ status = "failed" => NoTemps

Marks ==
    ~Inventorying /\ pc # "idle" =>
        /\ \A j \in 1..(file - 1) : j \in DOMAIN order => IsMarked(order[j])
        /\ Encodes \/ pc \in {"part", "send"} => ~IsMarked(object)
        /\ pc = "uploaded" => ToSet(objects[object].members) \subseteq marked \cup ToSet(marks)

EmptyCache == \A o \in Files : packs[o] = NoPack /\ temps[o] = NoTemp /\ strays[o] = NoTemp

ClearedIsEmpty == status = "cleared" /\ ~clearedBusy => pc = "idle" /\ EmptyCache

(* What is left of the pack of a large file that was not worth it is not counted. *)
FilesUncounted == \A o \in DOMAIN objects : ~objects[o].pack => Counted[o] = NoPack

PacksInv ==
    /\ Shape /\ AsGrouped /\ Placed /\ EncodesTheObject /\ SendsAsPlanned
    /\ PacksFitObjects(kinds, objects, packs) /\ PlannedSizes /\ NothingStored
    /\ StampsGrow /\ HoldsTheRecorded
    /\ CacheWhileInventorying /\ CacheAfterwards /\ FilesUncounted /\ Marks /\ ClearedIsEmpty

-----------------------------------------------------------------------------
(* Lemmas about packs and their sizes *)

LEMMA SizeOfIsNat ==
  ASSUME NEW ks \in Sources, NEW ms \in Seq(DOMAIN ks), NEW cs \in Seq(Contents), Len(cs) <= Len(ms)
  PROVE  SizeOf(ks, ms, cs) \in Nat /\ SizeOf(ks, ms, <<>>) = 0
<1> DEFINE R == [size : Nat, packed : Nat \ {0}]
           row == [i \in DOMAIN cs |-> ks[ms[i]].packed + (IF cs[i] = 1 THEN 1 ELSE 0)]
<1>1. ks \in Seq(R)
  BY TransportAssumption
<1>2. \A f \in DOMAIN ks : ks[f].packed \in Nat
  <2>1. \A f \in DOMAIN ks : ks[f] \in R
    <3> HIDE DEF R
    <3> QED
      BY <1>1
  <2> QED
    BY <2>1
<1>3. \A i \in 1..Len(cs) : ms[i] \in DOMAIN ks
  OBVIOUS
<1>4. DOMAIN cs = 1..Len(cs) /\ Len(cs) \in Nat
  OBVIOUS
<1>5. \A i \in 1..Len(cs) : ks[ms[i]].packed + (IF cs[i] = 1 THEN 1 ELSE 0) \in Nat
  BY <1>2, <1>3
<1>6. row \in Seq(Nat)
  BY <1>4, <1>5
<1> HIDE DEF row
<1>7. Total(row) \in Nat
  BY <1>6, TotalIsNat
<1>8. Total(<<>>) = 0
  <2> DEFINE none == <<>>
  <2>1. none \in Seq(Nat) /\ \A n \in 1..Len(none) : none[n] = 0
    OBVIOUS
  <2> HIDE DEF none
  <2>2. Total(none) = 0
    BY <2>1, TotalOfNothing
  <2> QED
    BY <2>2 DEF none
<1>9. [i \in DOMAIN <<>> |-> ks[ms[i]].packed + (IF <<>>[i] = 1 THEN 1 ELSE 0)] = <<>>
  OBVIOUS
<1> QED
  BY <1>7, <1>8, <1>9 DEF SizeOf, row

LEMMA PackRowType ==
  ASSUME NEW ks \in Sources, NEW obs, NEW pks, PacksFitObjects(ks, obs, pks)
  PROVE  /\ PackRow(ks, obs, pks) \in Seq(Nat)
         /\ Len(PackRow(ks, obs, pks)) = Len(ks) /\ Len(ks) \in Nat /\ DOMAIN ks = 1..Len(ks)
         /\ \A o \in DOMAIN ks : PackRow(ks, obs, pks)[o] = IF pks[o] = NoPack THEN 0 ELSE SizeOf(ks, obs[o].members, pks[o])
<1> DEFINE R == [size : Nat, packed : Nat \ {0}]
           row == PackRow(ks, obs, pks)
<1>1. ks \in Seq(R)
  BY TransportAssumption
<1>2. DOMAIN ks = 1..Len(ks) /\ Len(ks) \in Nat
  BY <1>1
<1>3. ASSUME NEW o \in DOMAIN ks, pks[o] # NoPack PROVE SizeOf(ks, obs[o].members, pks[o]) \in Nat
  <2>1. pks[o] \in Seq(Contents) /\ obs[o].members \in Seq(DOMAIN ks) /\ Len(pks[o]) = Len(obs[o].members)
    BY <1>3 DEF PacksFitObjects
  <2>2. Len(pks[o]) \in Nat
    BY <2>1
  <2>3. Len(pks[o]) <= Len(obs[o].members)
    BY <2>1, <2>2
  <2> HIDE DEF R
  <2> QED
    BY <2>1, <2>3, SizeOfIsNat
<1> HIDE DEF R
<1>4. \A o \in DOMAIN ks : row[o] = IF pks[o] = NoPack THEN 0 ELSE SizeOf(ks, obs[o].members, pks[o])
  BY DEF PackRow
<1>5. \A o \in 1..Len(ks) : row[o] \in Nat
  BY <1>2, <1>3, <1>4
<1>6. row = [o \in 1..Len(ks) |-> row[o]]
  BY <1>2, <1>4 DEF PackRow
<1> HIDE DEF row
<1>7. row \in Seq(Nat) /\ Len(row) = Len(ks)
  BY <1>2, <1>5, <1>6
<1> QED
  BY <1>2, <1>4, <1>7 DEF row

(* The total changes by what changes at one place; without packs it does not grow. *)
LEMMA PackTotalChanges ==
  ASSUME NEW ks \in Sources, NEW obs, NEW pks, PacksFitObjects(ks, obs, pks),
         NEW obs2, NEW pks2, PacksFitObjects(ks, obs2, pks2), NEW o \in DOMAIN ks,
         \A p \in DOMAIN ks : p # o => PackRow(ks, obs2, pks2)[p] = PackRow(ks, obs, pks)[p]
  PROVE  Total(PackRow(ks, obs2, pks2)) + PackRow(ks, obs, pks)[o]
          = Total(PackRow(ks, obs, pks)) + PackRow(ks, obs2, pks2)[o]
<1> DEFINE a == PackRow(ks, obs, pks)
           b == PackRow(ks, obs2, pks2)
<1>1. /\ a \in Seq(Nat) /\ b \in Seq(Nat) /\ Len(a) = Len(ks) /\ Len(b) = Len(ks)
      /\ DOMAIN ks = 1..Len(ks)
  BY PackRowType
<1> HIDE DEF a, b
<1>2. \A p \in 1..Len(b) : p # o => b[p] = a[p]
  BY <1>1 DEF a, b
<1>3. o \in 1..Len(b) /\ Len(b) = Len(a)
  BY <1>1
<1>4. Total(b) + a[o] = Total(a) + b[o]
  BY <1>1, <1>2, <1>3, TotalDiffers
<1> QED
  BY <1>4 DEF a, b

LEMMA PackTotalFalls ==
  ASSUME NEW ks \in Sources, NEW obs, NEW pks, PacksFitObjects(ks, obs, pks),
         NEW pks2, PacksFitObjects(ks, obs, pks2),
         \A p \in DOMAIN ks : pks2[p] = NoPack \/ pks2[p] = pks[p]
  PROVE  Total(PackRow(ks, obs, pks2)) <= Total(PackRow(ks, obs, pks))
<1> DEFINE a == PackRow(ks, obs, pks)
           b == PackRow(ks, obs, pks2)
<1>1. /\ a \in Seq(Nat) /\ b \in Seq(Nat) /\ Len(a) = Len(ks) /\ Len(b) = Len(ks)
      /\ DOMAIN ks = 1..Len(ks)
  BY PackRowType
<1>2. \A p \in DOMAIN ks : /\ a[p] = IF pks[p] = NoPack THEN 0 ELSE SizeOf(ks, obs[p].members, pks[p])
                           /\ b[p] = IF pks2[p] = NoPack THEN 0 ELSE SizeOf(ks, obs[p].members, pks2[p])
  BY PackRowType
<1> HIDE DEF a, b
<1>3. \A p \in 1..Len(a) : a[p] \in Nat /\ b[p] \in Nat
  BY <1>1
<1>4. \A p \in 1..Len(b) : b[p] <= a[p]
  BY <1>1, <1>2, <1>3
<1>5. Total(b) <= Total(a)
  BY <1>1, <1>4, TotalIsMonotone
<1> QED
  BY <1>5 DEF a, b

-----------------------------------------------------------------------------
(* What the invariant says of where Courier is *)

LEMMA PlanFacts ==
  ASSUME kinds \in Sources
  PROVE  /\ plan_packs \in Seq(Seq(Files)) /\ Len(plan_packs) \in Nat /\ Len(plan_packs) <= Len(kinds)
         /\ DOMAIN plan_packs = 1..Len(plan_packs)
         /\ Len(kinds) \in Nat /\ Files = 1..Len(kinds) /\ 1 \in Files
         /\ \A o \in DOMAIN plan_packs :
               /\ o \in Files
               /\ plan_packs[o] \in Seq(Files) /\ Len(plan_packs[o]) \in Nat \ {0}
               /\ DOMAIN plan_packs[o] = 1..Len(plan_packs[o])
               /\ \A i \in DOMAIN plan_packs[o] : plan_packs[o][i] \in Files
<1>1. Carries(plan_packs, Files) /\ Len(plan_packs) <= Len(kinds)
  BY PlanCarriesTheFiles
<1>2. Len(kinds) \in Nat /\ Len(kinds) > 0 /\ Files = 1..Len(kinds)
  BY FilesAreNumbered
<1>3. plan_packs \in Seq(Seq(Files)) /\ Len(plan_packs) \in Nat /\ DOMAIN plan_packs = 1..Len(plan_packs)
  BY <1>1 DEF Carries
<1>4. ASSUME NEW o \in DOMAIN plan_packs
      PROVE  /\ o \in Files
             /\ plan_packs[o] \in Seq(Files) /\ Len(plan_packs[o]) \in Nat \ {0}
             /\ DOMAIN plan_packs[o] = 1..Len(plan_packs[o])
             /\ \A i \in DOMAIN plan_packs[o] : plan_packs[o][i] \in Files
  <2>1. GoodGroup(plan_packs[o], Files)
    BY <1>1, <1>3 DEF Carries
  <2>2. plan_packs[o] \in Seq(Files) /\ plan_packs[o] # <<>>
    BY <2>1 DEF GoodGroup
  <2> QED
    BY <1>1, <1>2, <1>3, <2>2, EmptySeq
<1> QED
  BY <1>1, <1>2, <1>3, <1>4

LEMMA ObjectFacts ==
  ASSUME Shape, AsGrouped
  PROVE  /\ Len(objects) \in Nat /\ DOMAIN objects = 1..Len(objects) /\ Len(objects) <= Len(plan_packs)
         /\ \A o \in DOMAIN objects :
               /\ o \in Files /\ o \in DOMAIN plan_packs
               /\ objects[o] \in Objects
               /\ objects[o].pack \in BOOLEAN /\ objects[o].members \in Seq(Files) /\ objects[o].bytes \in Nat
               /\ Len(objects[o].members) \in Nat \ {0}
               /\ DOMAIN objects[o].members = 1..Len(objects[o].members)
               /\ \A i \in DOMAIN objects[o].members : objects[o].members[i] \in Files
               /\ objects[o].members[1] \in Files
<1>1. kinds \in Sources /\ objects \in Seq(Objects)
  BY DEF Shape
<1>2. Len(objects) \in Nat /\ DOMAIN objects = 1..Len(objects) /\ Len(objects) <= Len(plan_packs)
  BY <1>1 DEF AsGrouped
<1>3. ASSUME NEW o \in DOMAIN objects PROVE o \in DOMAIN plan_packs /\ objects[o].members = plan_packs[o]
  <2>1. DOMAIN plan_packs = 1..Len(plan_packs) /\ Len(plan_packs) \in Nat
    BY <1>1, PlanFacts
  <2>2. o \in DOMAIN plan_packs
    BY <1>2, <2>1
  <2> QED
    BY <2>2 DEF AsGrouped
<1>4. ASSUME NEW o \in DOMAIN objects
      PROVE  /\ objects[o] \in Objects
             /\ objects[o].pack \in BOOLEAN /\ objects[o].members \in Seq(Files) /\ objects[o].bytes \in Nat
  <2>1. objects[o] \in Objects
    BY <1>1
  <2> QED
    BY <2>1 DEF Objects
<1> QED
  BY <1>1, <1>2, <1>3, <1>4, PlanFacts

LEMMA PlanIsKept ==
  ASSUME [Next]_vars
  PROVE  kinds' = kinds /\ plan_packs' = plan_packs
<1>1. kinds' = kinds
  BY DEF Next, vars, world, Courier, Inventory, Encoding, Upload, stat_file, hash_file, next_group, Encode,
         group_encoded, replace_transport_plan, check_member, read_member, start_upload, skip_object,
         next_object, pack_encoded, next_part, send_part, mark_file_uploaded, object_uploaded, finalize,
         Crash, clear_transfer, Edit
<1>2. plan_packs' = plan_packs
  BY <1>1, SMT DEF plan_packs, Grouped, Standalone, Packed, Small, Fits, Size
<1> QED
  BY <1>1, <1>2

(* The object that is encoded or sent, and the member that is read. *)
LEMMA ObjectIsAFile ==
  ASSUME PacksInv, Encodes \/ Sends
  PROVE  object \in Files /\ (~Inventorying => object \in DOMAIN objects)
<1>1. CASE Inventorying
  BY <1>1, PlanFacts DEF PacksInv, Shape, Placed, EncodesTheObject
<1>2. CASE ~Inventorying
  BY <1>2, ObjectFacts DEF PacksInv, Placed, Ordered, Encodes, Sends
<1> QED
  BY <1>1, <1>2

LEMMA MemberFacts ==
  ASSUME PacksInv, Encodes
  PROVE  /\ encoding.members \in Seq(Files) /\ encoding.read \in Seq(Contents)
         /\ Len(encoding.members) \in Nat \ {0} /\ Len(encoding.read) \in Nat
         /\ DOMAIN encoding.members = 1..Len(encoding.members) /\ DOMAIN encoding.read = 1..Len(encoding.read)
         /\ \A i \in DOMAIN encoding.members : encoding.members[i] \in Files
         /\ encoding.staging \in BOOLEAN /\ encoding.limit \in Nat
         /\ pc # "encoded" => /\ Len(encoding.read) + 1 \in DOMAIN encoding.members
                              /\ Member \in Files /\ source[Member].content \in Contents
                              /\ Read \in Seq(Contents) /\ Len(Read) = Len(encoding.read) + 1
                              /\ \A i \in DOMAIN encoding.read : Read[i] = encoding.read[i]
                              /\ Read[Len(encoding.read) + 1] = source[Member].content
<1>1. encoding.members \in Seq(Files) /\ encoding.read \in Seq(Contents)
      /\ encoding.staging \in BOOLEAN /\ encoding.limit \in Nat
  BY DEF PacksInv, Shape
<1>2. /\ Len(encoding.members) \in Nat /\ Len(encoding.read) \in Nat
      /\ DOMAIN encoding.members = 1..Len(encoding.members) /\ DOMAIN encoding.read = 1..Len(encoding.read)
      /\ \A i \in DOMAIN encoding.members : encoding.members[i] \in Files
  BY <1>1
<1>3. Len(encoding.members) # 0
  <2>1. CASE Inventorying
    BY <2>1, PlanFacts DEF PacksInv, Shape, EncodesTheObject
  <2>2. CASE ~Inventorying
    BY <2>2, ObjectFacts, ObjectIsAFile DEF PacksInv, EncodesTheObject
  <2> QED
    BY <2>1, <2>2
<1>4. ASSUME pc # "encoded"
      PROVE  /\ Len(encoding.read) + 1 \in DOMAIN encoding.members
             /\ Member \in Files /\ source[Member].content \in Contents
             /\ Read \in Seq(Contents) /\ Len(Read) = Len(encoding.read) + 1
             /\ \A i \in DOMAIN encoding.read : Read[i] = encoding.read[i]
             /\ Read[Len(encoding.read) + 1] = source[Member].content
  <2>1. Len(encoding.read) < Len(encoding.members)
    BY <1>4 DEF PacksInv, EncodesTheObject
  <2>2. Len(encoding.read) + 1 \in DOMAIN encoding.members
    BY <1>2, <2>1
  <2>3. Member \in Files
    BY <1>2, <2>2 DEF Member
  <2>4. source[Member].content \in Contents
    BY <2>3 DEF PacksInv, Shape, State
  <2> QED
    BY <1>1, <1>2, <2>2, <2>3, <2>4 DEF Read
<1> QED
  BY <1>1, <1>2, <1>3, <1>4

LEMMA PackSizeIsSizeOf ==
  ASSUME NEW ms, NEW cs
  PROVE  PackSize(ms, cs) = SizeOf(kinds, ms, cs)
  BY DEF PackSize, SizeOf, PackedSize

LEMMA SizeIsNat ==
  ASSUME kinds \in Sources, NEW ms \in Seq(Files)
  PROVE  Size(ms) \in Nat
<1> DEFINE row == [i \in DOMAIN ms |-> kinds[ms[i]].size]
<1>1. \A i \in 1..Len(ms) : kinds[ms[i]].size \in Nat
  <2>1. \A i \in 1..Len(ms) : ms[i] \in Files
    OBVIOUS
  <2> HIDE DEF Files
  <2> QED
    BY <2>1, FilesAreNumbered
<1>2. row \in Seq(Nat)
  <2>1. DOMAIN ms = 1..Len(ms) /\ Len(ms) \in Nat
    OBVIOUS
  <2> QED
    BY <1>1, <2>1
<1> HIDE DEF row
<1>3. Total(row) \in Nat
  BY <1>2, TotalIsNat
<1> QED
  BY <1>3 DEF Size, row

LEMMA EncodedFacts ==
  ASSUME PacksInv, Encodes
  PROVE  /\ Encoded = SizeOf(kinds, encoding.members, encoding.read) /\ Encoded \in Nat
         /\ pc # "encoded" => /\ ReadSize = SizeOf(kinds, encoding.members, Read)
                              /\ ReadSize \in Nat
<1>1. /\ kinds \in Sources
      /\ encoding.members \in Seq(DOMAIN kinds) /\ encoding.read \in Seq(Contents)
      /\ Len(encoding.read) <= Len(encoding.members)
  BY MemberFacts DEF PacksInv, Shape, Files, EncodesTheObject
<1>2. Encoded = SizeOf(kinds, encoding.members, encoding.read)
  BY PackSizeIsSizeOf DEF Encoded
<1>3. Encoded \in Nat
  BY <1>1, <1>2, SizeOfIsNat
<1>4. ASSUME pc # "encoded"
      PROVE  ReadSize = SizeOf(kinds, encoding.members, Read) /\ ReadSize \in Nat
  <2>1. Read \in Seq(Contents) /\ Len(Read) = Len(encoding.read) + 1 /\ Len(encoding.read) < Len(encoding.members)
        /\ Len(encoding.read) \in Nat /\ Len(encoding.members) \in Nat
    BY <1>4, MemberFacts DEF PacksInv, EncodesTheObject
  <2>2. Len(Read) <= Len(encoding.members)
    BY <2>1
  <2>3. ReadSize = SizeOf(kinds, encoding.members, Read)
    BY PackSizeIsSizeOf DEF ReadSize
  <2> QED
    BY <1>1, <2>1, <2>2, <2>3, SizeOfIsNat
<1> QED
  BY <1>2, <1>3, <1>4

-----------------------------------------------------------------------------
(* The invariant holds at first, and every action keeps its parts *)

LEMMA InitPacksInv ==
  ASSUME Init
  PROVE  PacksInv
<1>1. kinds \in Sources
  BY DEF Init
<1>2. Len(kinds) \in Nat /\ Files = 1..Len(kinds) /\ 1 \in Files
  BY <1>1, PlanFacts
<1>3. Shape
  <2>1. source \in [Files -> State] /\ records \in [Files -> State]
    BY DEF Init, State, Contents
  <2>2. packs \in [Files -> Seq(Contents)] /\ temps \in [Files -> Seq(Nat)]
        /\ unremoved \subseteq Files /\ strays \in [Files -> Seq(Nat)]
        /\ stored \in [Files -> Seq(Seq(Contents))]
    BY DEF Init, NoPack, NoTemp
  <2>3. objects \in Seq(Objects) /\ marks \in Seq(Files)
        /\ encoding \in [staging : BOOLEAN, members : Seq(Files), read : Seq(Contents), limit : Nat]
    BY DEF Init, NoCall
  <2>4. /\ status \in Statuses /\ pc \in Places
        /\ file \in Nat \ {0} /\ object \in Nat \ {0} /\ cachedBytes \in Nat /\ forgotten \in Nat
        /\ edits \in Nat
    BY DEF Init, Statuses, Places
  <2>5. hidden \in BOOLEAN /\ clearedBusy \in BOOLEAN
    BY Zenon DEF Init
  <2> QED
    BY <1>1, <2>1, <2>2, <2>3, <2>4, <2>5 DEF Shape
<1>4. AsGrouped
  BY <1>1, PlanFacts DEF Init, AsGrouped
<1>5. /\ Placed /\ EncodesTheObject /\ SendsAsPlanned /\ NothingStored /\ PlannedSizes /\ Marks
      /\ ClearedIsEmpty /\ FilesUncounted
  BY <1>2 DEF Init, Placed, EncodesTheObject, SendsAsPlanned, NothingStored, PlannedSizes, Marks,
              ClearedIsEmpty, FilesUncounted, Inventorying, Encodes, Sends
<1>6. StampsGrow
  BY DEF Init, StampsGrow
<1>7. HoldsTheRecorded
  BY DEF Init, HoldsTheRecorded, FilesAreRecorded, ReadsTheRecorded, CachesTheRecorded, StoresTheRecorded,
         Recorded, Encodes
<1>8. PacksFitObjects(kinds, objects, packs)
  BY DEF Init, PacksFitObjects, NoPack, Files
<1>9. CacheWhileInventorying /\ CacheAfterwards
  <2>1. PackTotal = 0
    <3> DEFINE row == PackRow(kinds, objects, Counted)
    <3>0. Counted = packs
      BY DEF Init, Counted, Files
    <3>1. /\ row \in Seq(Nat) /\ Len(row) = Len(kinds)
          /\ \A o \in DOMAIN kinds : row[o] = IF packs[o] = NoPack THEN 0
                                               ELSE SizeOf(kinds, objects[o].members, packs[o])
      BY <1>1, <1>8, <3>0, PackRowType
    <3> HIDE DEF row
    <3>2. \A o \in 1..Len(row) : row[o] = 0
      BY <1>2, <3>1 DEF Init, Files
    <3> QED
      BY <3>1, <3>2, TotalOfNothing DEF PackTotal, row
  <2> QED
    BY <2>1, TransportAssumption DEF Init, CacheWhileInventorying, CacheAfterwards, Inventorying, Encodes, Sends
<1> QED
  BY <1>3, <1>4, <1>5, <1>6, <1>7, <1>8, <1>9 DEF PacksInv

(* Which actions change what. *)
LEMMA Frames ==
  ASSUME [Next]_vars
  PROVE  /\ (source' = source /\ edits' = edits /\ hidden' = hidden) \/ \E f \in Files : Edit(f)
         /\ records' = records \/ stat_file \/ hash_file
         /\ (objects' = objects /\ cachedBytes' = cachedBytes /\ forgotten' = forgotten) \/ group_encoded
         /\ order' = order \/ replace_transport_plan
         /\ marked' = marked \/ mark_file_uploaded
         /\ stored' = stored \/ send_part
         /\ \/ packs' = packs /\ unremoved' = unremoved
            \/ group_encoded \/ next_object \/ pack_encoded \/ object_uploaded \/ clear_transfer
         /\ \/ strays' = strays
            \/ check_member \/ read_member \/ next_object \/ Crash \/ clear_transfer
         /\ \/ temps' = temps
            \/ next_group \/ group_encoded \/ check_member \/ read_member \/ next_object \/ pack_encoded
            \/ Crash \/ clear_transfer
         /\ file' = file \/ hash_file \/ start_upload \/ skip_object \/ object_uploaded
         /\ object' = object \/ group_encoded \/ replace_transport_plan \/ next_object
         /\ marks' = marks \/ next_part \/ mark_file_uploaded \/ Crash
         /\ \/ encoding' = encoding
            \/ next_group \/ group_encoded \/ check_member \/ read_member \/ next_object \/ pack_encoded
            \/ Crash
         /\ \/ status' = status
            \/ check_member \/ read_member \/ replace_transport_plan \/ finalize \/ clear_transfer
         /\ clearedBusy' = clearedBusy \/ clear_transfer
<1> USE DEF vars, code, sqlite, cache, left, count, world
<1>1. CASE Inventory
  BY <1>1 DEF Inventory, stat_file, hash_file, next_group, group_encoded, replace_transport_plan
<1>2. CASE Encoding
  BY <1>2 DEF Encoding, check_member, read_member, RemoveTemp
<1>3. CASE Upload
  BY <1>3 DEF Upload, start_upload, skip_object, next_object, pack_encoded, next_part, send_part,
              mark_file_uploaded, object_uploaded, finalize
<1>4. CASE Crash \/ clear_transfer
  BY <1>4 DEF Crash, clear_transfer
<1>5. CASE \E f \in Files : Edit(f)
  BY <1>5 DEF Edit
<1> QED
  BY <1>1, <1>2, <1>3, <1>4, <1>5 DEF Next, Courier

(* A removal leaves the other packs alone, and what it leaves of its own is no longer counted. *)
LEMMA RemovalFacts ==
  ASSUME Shape, NEW gone, gone \subseteq Files, RemovePacks(gone), kinds' = kinds
  PROVE  /\ packs' \in [Files -> Seq(Contents)] /\ unremoved' \subseteq Files
         /\ \A o \in Files : /\ packs'[o] \in {packs[o], NoPack}
                             /\ o \notin gone => packs'[o] = packs[o]
                             /\ Counted'[o] \in {Counted[o], NoPack}
                             /\ o \in gone => Counted'[o] = NoPack
<1>1. packs \in [Files -> Seq(Contents)] /\ unremoved \subseteq Files /\ Files = DOMAIN kinds
  BY DEF Shape, Files
<1>2. PICK kept \in SUBSET gone :
        /\ packs' = [o \in Files |-> IF o \in gone \ kept THEN NoPack ELSE packs[o]]
        /\ unremoved' = (unremoved \ gone) \cup kept
  BY DEF RemovePacks
<1> HIDE DEF Files
<1>3. packs' \in [Files -> Seq(Contents)] /\ unremoved' \subseteq Files
  BY <1>1, <1>2 DEF NoPack
<1>4. \A o \in Files : /\ Counted[o] = IF o \in unremoved THEN NoPack ELSE packs[o]
                      /\ Counted'[o] = IF o \in unremoved' THEN NoPack ELSE packs'[o]
  BY <1>1 DEF Counted
<1>5. ASSUME NEW o \in Files
      PROVE  /\ packs'[o] \in {packs[o], NoPack}
             /\ o \notin gone => packs'[o] = packs[o]
             /\ Counted'[o] \in {Counted[o], NoPack}
             /\ o \in gone => Counted'[o] = NoPack
  <2>1. CASE o \in gone
    BY <1>2, <1>4, <2>1
  <2>2. CASE o \notin gone
    BY <1>2, <1>4, <2>2
  <2> QED
    BY <2>1, <2>2
<1> QED
  BY <1>3, <1>5

(* Three actions remove packs. *)
LEMMA PacksFell ==
  ASSUME PacksInv, kinds' = kinds, next_object \/ object_uploaded \/ clear_transfer
  PROVE  /\ packs' \in [Files -> Seq(Contents)] /\ unremoved' \subseteq Files
         /\ \A o \in Files : packs'[o] \in {packs[o], NoPack} /\ Counted'[o] \in {Counted[o], NoPack}
<1>1. Shape /\ packs \in [Files -> Seq(Contents)] /\ unremoved \subseteq Files /\ DOMAIN objects \subseteq Files
  BY ObjectFacts DEF PacksInv, Shape
<1>2. \A o \in Files : /\ Counted[o] = IF o \in unremoved THEN NoPack ELSE packs[o]
                      /\ Counted'[o] = IF o \in unremoved' THEN NoPack ELSE packs'[o]
  BY DEF Counted, Files
<1> HIDE DEF Files
<1>3. CASE next_object
  <2> DEFINE gone == remove_cached_packs_except(Candidate)
  <2>1. gone \subseteq Files
    BY <1>1 DEF remove_cached_packs_except
  <2>2. (packs' = packs /\ unremoved' = unremoved) \/ RemovePacks(gone)
    BY <1>3 DEF next_object, left
  <2> HIDE DEF gone
  <2> QED
    BY <1>1, <1>2, <2>1, <2>2, RemovalFacts
<1>4. CASE object_uploaded
  <2> DEFINE gone == {object} \cap {o \in Files : objects[object].pack /\ packs[o] # NoPack}
  <2>1. gone \subseteq Files /\ RemovePacks(gone)
    BY <1>4 DEF object_uploaded
  <2> HIDE DEF gone
  <2> QED
    BY <1>1, <2>1, RemovalFacts
<1>5. CASE clear_transfer
  BY <1>2, <1>5 DEF clear_transfer, NoPack
<1> QED
  BY <1>3, <1>4, <1>5

(* The pack of the next object stays; of the others none is counted then, if it is a pack. *)
LEMMA Evicted ==
  ASSUME PacksInv, kinds' = kinds, next_object, Candidate \in DOMAIN objects
  PROVE  /\ packs'[Candidate] = packs[Candidate]
         /\ objects[Candidate].pack /\ packs[Candidate] = NoPack => \A o \in Files : Counted'[o] = NoPack
<1>1. Shape /\ packs \in [Files -> Seq(Contents)] /\ unremoved \subseteq Files /\ DOMAIN objects \subseteq Files
      /\ (\A o \in Files : packs[o] # NoPack => o \in DOMAIN objects)
      /\ (\A o \in DOMAIN objects : ~objects[o].pack => Counted[o] = NoPack)
  BY ObjectFacts DEF PacksInv, Shape, PacksFitObjects, FilesUncounted, Files
<1>2. \A o \in Files : /\ Counted[o] = IF o \in unremoved THEN NoPack ELSE packs[o]
  BY DEF Counted, Files
<1> DEFINE gone == remove_cached_packs_except(Candidate)
<1>3. /\ gone \subseteq Files /\ Candidate \notin gone
      /\ \A o \in DOMAIN objects \ {Candidate} : objects[o].pack /\ packs[o] # NoPack => o \in gone
  BY <1>1 DEF remove_cached_packs_except
<1> HIDE DEF gone, Files
<1>4. IF objects[Candidate].pack THEN RemovePacks(gone) ELSE packs' = packs
  BY DEF next_object, gone
<1>5. ASSUME objects[Candidate].pack, packs[Candidate] = NoPack, NEW o \in Files
      PROVE  Counted'[o] = NoPack
  <2>1. Counted'[o] \in {Counted[o], NoPack} /\ (o \in gone => Counted'[o] = NoPack)
    BY <1>1, <1>3, <1>4, <1>5, RemovalFacts
  <2>2. o \notin gone => Counted[o] = NoPack
    BY <1>1, <1>2, <1>3, <1>5
  <2> QED
    BY <2>1, <2>2
<1>6. packs'[Candidate] = packs[Candidate]
  BY <1>1, <1>3, <1>4, RemovalFacts
<1> QED
  BY <1>5, <1>6

LEMMA ShapeNext ==
  ASSUME PacksInv, [Next]_vars
  PROVE  Shape'
<1>1. /\ kinds \in Sources /\ source \in [Files -> State] /\ records \in [Files -> State]
      /\ status \in Statuses /\ pc \in Places
      /\ objects \in Seq(Objects)
      /\ packs \in [Files -> Seq(Contents)] /\ temps \in [Files -> Seq(Nat)]
      /\ unremoved \subseteq Files /\ strays \in [Files -> Seq(Nat)]
      /\ stored \in [Files -> Seq(Seq(Contents))]
      /\ file \in Nat \ {0} /\ object \in Nat \ {0} /\ marks \in Seq(Files)
      /\ encoding \in [staging : BOOLEAN, members : Seq(Files), read : Seq(Contents), limit : Nat]
      /\ cachedBytes \in Nat /\ forgotten \in Nat /\ edits \in Nat
      /\ hidden \in BOOLEAN /\ clearedBusy \in BOOLEAN
  BY DEF PacksInv, Shape
<1>2. kinds' = kinds /\ Files' = Files /\ Objects' = Objects /\ State' = State
      /\ Statuses' = Statuses /\ Places' = Places
  BY PlanIsKept DEF Files, Objects, State, Statuses, Places
<1> HIDE DEF Files
<1>3. source' \in [Files -> State] /\ edits' \in Nat
  <2>1. CASE \E f \in Files : Edit(f)
    <3>1. PICK f \in Files : Edit(f)
      BY <2>1
    <3>2. PICK content \in {1, 2}, traced \in BOOLEAN :
             source' = [source EXCEPT ![f] = [content |-> content,
                                              stamp |-> IF traced THEN edits + 1 ELSE source[f].stamp]]
      BY <3>1 DEF Edit
    <3>3. [content |-> content, stamp |-> IF traced THEN edits + 1 ELSE source[f].stamp] \in State
      BY <1>1 DEF State, Contents
    <3>4. source' \in [Files -> State]
      BY <1>1, <3>2, <3>3
    <3>5. edits' \in Nat
      BY <1>1, <3>1 DEF Edit
    <3> QED
      BY <3>4, <3>5
  <2> QED
    BY <1>1, <2>1, Frames
<1>4. records' \in [Files -> State]
  <2>1. CASE stat_file
    <3>1. file \in Files
      BY <2>1 DEF stat_file, PacksInv, Placed
    <3>2. [records[file] EXCEPT !.stamp = source[file].stamp] \in State
      BY <1>1, <3>1 DEF State
    <3>3. records' = [records EXCEPT ![file] = [records[file] EXCEPT !.stamp = source[file].stamp]]
      BY <2>1 DEF stat_file
    <3> QED
      BY <1>1, <3>1, <3>2, <3>3
  <2>2. CASE hash_file
    <3>1. file \in Files
      BY <2>2 DEF hash_file, PacksInv, Placed
    <3>2. [records[file] EXCEPT !.content = source[file].content] \in State
      BY <1>1, <3>1 DEF State
    <3>3. records' = [records EXCEPT ![file] = [records[file] EXCEPT !.content = source[file].content]]
      BY <2>2 DEF hash_file
    <3> QED
      BY <1>1, <3>1, <3>2, <3>3
  <2> QED
    BY <1>1, <2>1, <2>2, Frames
<1>5. objects' \in Seq(Objects) /\ cachedBytes' \in Nat /\ forgotten' \in Nat
  <2>1. CASE group_encoded
    <3>1. Encoded \in Nat
      BY <2>1, EncodedFacts DEF group_encoded, Encodes
    <3>2. Size(encoding.members) \in Nat
      BY <1>1, SizeIsNat
    <3>3. PICK keep \in BOOLEAN :
             /\ objects' = Append(objects, Object(keep, IF keep THEN Encoded ELSE Size(encoding.members)))
             /\ cachedBytes' = CASE encoding.staging /\ keep  -> cachedBytes + Encoded
                                 [] encoding.staging /\ ~keep -> Monus(cachedBytes, Encoded)
                                 [] OTHER                     -> cachedBytes
             /\ forgotten' = forgotten + Monus(cachedBytes, cachedBytes')
      BY <2>1, Zenon DEF group_encoded
    <3>4. Object(keep, IF keep THEN Encoded ELSE Size(encoding.members)) \in Objects
      BY <1>1, <3>1, <3>2 DEF Object, Objects
    <3>5. cachedBytes' \in Nat
      BY <1>1, <3>1, <3>3 DEF Monus
    <3>6. forgotten' \in Nat
      BY <1>1, <3>3, <3>5 DEF Monus
    <3> QED
      BY <1>1, <3>3, <3>4, <3>5, <3>6
  <2> QED
    BY <1>1, <2>1, Frames
<1>6. packs' \in [Files -> Seq(Contents)] /\ unremoved' \subseteq Files
  <2>1. <<>> \in Seq(Contents)
    OBVIOUS
  <2>2. CASE group_encoded
    <3>1. object \in Files
      BY <1>1, <2>2, PlanFacts DEF group_encoded, PacksInv, EncodesTheObject, Encodes, Inventorying
    <3>2. packs' \in [Files -> Seq(Contents)]
      BY <1>1, <2>1, <2>2 DEF group_encoded, NoPack
    <3>3. unremoved' \in {unremoved, unremoved \cup {object}}
      BY <2>2 DEF group_encoded
    <3> QED
      BY <1>1, <3>1, <3>2, <3>3
  <2>3. CASE pack_encoded
    <3>1. object \in Files
      BY <2>3, ObjectIsAFile DEF pack_encoded, Encodes
    <3>2. packs' \in {packs, [packs EXCEPT ![object] = encoding.read]}
      BY <2>3 DEF pack_encoded
    <3>3. unremoved' \in {unremoved, unremoved \cup {object}}
      BY <2>3 DEF pack_encoded
    <3> QED
      BY <1>1, <3>1, <3>2, <3>3
  <2>4. CASE next_object \/ object_uploaded \/ clear_transfer
    BY <1>2, <2>4, PacksFell
  <2> QED
    BY <1>1, <2>2, <2>3, <2>4, Frames
<1>7. temps' \in [Files -> Seq(Nat)]
  <2>1. <<>> \in Seq(Nat) /\ <<0>> \in Seq(Nat)
    OBVIOUS
  <2>2. CASE next_group
    BY <1>1, <2>1, <2>2 DEF next_group, Encode, Temp, NoTemp
  <2>3. CASE group_encoded
    BY <1>1, <2>1, <2>3 DEF group_encoded, NoTemp
  <2>4. CASE check_member
    BY <1>1, <2>1, <2>4 DEF check_member, RemoveTemp, NoTemp
  <2>5. CASE read_member
    <3>1. ReadSize \in Nat
      BY <2>5, EncodedFacts DEF read_member, Encodes
    <3>2. <<ReadSize>> \in Seq(Nat)
      BY <3>1
    <3>3. \/ temps' = [temps EXCEPT ![object] = NoTemp]
          \/ temps' = [temps EXCEPT ![object] = IF temps[object] = NoTemp THEN temps[object] ELSE Temp(ReadSize)]
      BY <2>5 DEF read_member, RemoveTemp
    <3> QED
      BY <1>1, <2>1, <3>2, <3>3 DEF NoTemp, Temp
  <2>6. CASE next_object
    BY <1>1, <2>1, <2>6 DEF next_object, NoTemp, Temp
  <2>7. CASE pack_encoded
    BY <1>1, <2>1, <2>7 DEF pack_encoded, NoTemp
  <2>8. CASE Crash
    BY <1>1, <2>1, <2>8 DEF Crash, NoTemp
  <2>9. CASE clear_transfer
    BY <1>1, <2>1, <2>9 DEF clear_transfer, NoTemp, remove_transfer_pack_directory
  <2> QED
    BY <1>1, <2>2, <2>3, <2>4, <2>5, <2>6, <2>7, <2>8, <2>9, Frames
<1>s. strays' \in [Files -> Seq(Nat)]
  <2>1. <<>> \in Seq(Nat)
    OBVIOUS
  <2>2. CASE check_member \/ read_member
    <3>1. object \in Files
      BY <2>2, ObjectIsAFile DEF check_member, read_member, Encodes
    <3>2. strays' \in {strays, [strays EXCEPT ![object] = temps[object]]}
      BY <2>2 DEF check_member, read_member, RemoveTemp, left
    <3> QED
      BY <1>1, <3>1, <3>2
  <2>3. CASE next_object
    <3>1. strays' \in {strays, [strays EXCEPT ![Candidate] = NoTemp]}
      BY <2>3 DEF next_object, left
    <3> QED
      BY <1>1, <2>1, <3>1 DEF NoTemp
  <2>4. CASE Crash
    BY <1>1, <2>1, <2>4 DEF Crash, NoTemp
  <2>5. CASE clear_transfer
    BY <1>1, <2>1, <2>5 DEF clear_transfer, NoTemp, remove_transfer_pack_directory
  <2> QED
    BY <1>1, <2>2, <2>3, <2>4, <2>5, Frames
<1>8. stored' \in [Files -> Seq(Seq(Contents))]
  <2>1. CASE send_part /\ status = "planned"
    <3>1. object \in Files /\ object \in DOMAIN objects /\ objects[object].members[1] \in Files
      BY <2>1, ObjectIsAFile, ObjectFacts DEF send_part, PacksInv, Placed, Sends
    <3>2. packs[object] \in Seq(Contents)
      BY <1>1, <3>1
    <3>3. <<source[objects[object].members[1]].content>> \in Seq(Contents)
      <4>1. source[objects[object].members[1]].content \in Contents
        BY <1>1, <3>1 DEF State
      <4> QED
        BY <4>1
    <3>4. Append(stored[object], IF objects[object].pack THEN packs[object]
                                  ELSE <<source[objects[object].members[1]].content>>) \in Seq(Seq(Contents))
      BY <1>1, <3>1, <3>2, <3>3
    <3> QED
      BY <1>1, <2>1, <3>4 DEF send_part
  <2>2. CASE send_part /\ status # "planned"
    BY <1>1, <2>2 DEF send_part
  <2> QED
    BY <1>1, <2>1, <2>2, Frames
<1>9. file' \in Nat \ {0}
  BY <1>1, Frames DEF hash_file, start_upload, skip_object, object_uploaded
<1>10. object' \in Nat \ {0}
  <2>1. CASE next_object
    <3>1. object' \in DOMAIN objects
      BY <1>1, <2>1 DEF next_object, Candidate, PacksInv, Placed, Ordered, Inventorying
    <3> QED
      BY <1>1, <3>1
  <2> QED
    BY <1>1, <2>1, Frames DEF group_encoded, replace_transport_plan
<1>11. marks' \in Seq(Files)
  <2>1. CASE next_part
    <3>1. object \in DOMAIN objects
      BY <2>1, ObjectIsAFile DEF next_part, PacksInv, Placed, Sends
    <3> QED
      BY <2>1, <3>1, ObjectFacts DEF next_part, PacksInv
  <2>2. CASE mark_file_uploaded
    BY <1>1, <2>2 DEF mark_file_uploaded
  <2>3. CASE Crash
    BY <2>3 DEF Crash
  <2> QED
    BY <1>1, <2>1, <2>2, <2>3, Frames
<1>12. encoding' \in [staging : BOOLEAN, members : Seq(Files), read : Seq(Contents), limit : Nat]
  <2>1. NoCall \in [staging : BOOLEAN, members : Seq(Files), read : Seq(Contents), limit : Nat]
    BY DEF NoCall
  <2>2. CASE next_group
    <3>1. plan_packs[object] \in Seq(Files)
      BY <1>1, <2>2, PlanFacts DEF next_group
    <3>2. Budget \in Nat /\ Monus(Budget, cachedBytes) \in Nat
      BY <1>1, TransportAssumption DEF Monus
    <3>3. encoding' = [staging |-> Monus(Budget, cachedBytes) > 0, members |-> plan_packs[object],
                       read |-> <<>>, limit |-> Monus(Budget, cachedBytes)]
      BY <2>2 DEF next_group, Encode
    <3>4. <<>> \in Seq(Contents) /\ (Monus(Budget, cachedBytes) > 0) \in BOOLEAN
      OBVIOUS
    <3> QED
      BY <3>1, <3>2, <3>3, <3>4
  <2>3. CASE group_encoded
    BY <2>1, <2>3 DEF group_encoded
  <2>4. CASE check_member
    BY <1>1, <2>1, <2>4 DEF check_member, Fails
  <2>5. CASE read_member
    <3>1. Read \in Seq(Contents)
      BY <2>5, MemberFacts DEF read_member, Encodes
    <3>2. <<>> \in Seq(Contents)
      OBVIOUS
    <3>3. \/ encoding' = [encoding EXCEPT !.staging = FALSE, !.read = <<>>]
          \/ encoding' = [encoding EXCEPT !.read = Read]
          \/ encoding' = NoCall
      BY <2>5 DEF read_member, Fails
    <3> QED
      BY <1>1, <2>1, <3>1, <3>2, <3>3
  <2>6. CASE next_object
    <3>1. Candidate \in DOMAIN objects
      BY <1>1, <2>6 DEF next_object, Candidate, PacksInv, Placed, Ordered, Inventorying
    <3>2. objects[Candidate].members \in Seq(Files)
      BY <3>1, ObjectFacts DEF PacksInv
    <3> QED
      BY <1>1, <2>1, <2>6, <3>2, TransportAssumption DEF next_object, NoCall
  <2>7. CASE pack_encoded
    BY <2>1, <2>7 DEF pack_encoded
  <2>8. CASE Crash
    BY <2>1, <2>8 DEF Crash
  <2> QED
    BY <1>1, <2>2, <2>3, <2>4, <2>5, <2>6, <2>7, <2>8, Frames
<1>13. status' \in Statuses
  BY <1>1, Frames DEF check_member, read_member, Fails, replace_transport_plan, finalize, clear_transfer, Statuses
<1>14. pc' \in Places
  BY <1>1 DEF Next, vars, code, Courier, Inventory, Encoding, Upload, stat_file, hash_file, next_group, Encode,
         group_encoded, replace_transport_plan, check_member, read_member, Fails, start_upload, skip_object,
         next_object, pack_encoded, next_part, send_part, mark_file_uploaded, object_uploaded, finalize,
         Crash, clear_transfer, Edit, Places
<1>15. hidden' \in BOOLEAN /\ clearedBusy' \in BOOLEAN
  <2>1. \A f \in Files : Edit(f) => hidden' \in BOOLEAN
    BY <1>1 DEF Edit
  <2>2. clear_transfer => clearedBusy' \in BOOLEAN
    BY DEF clear_transfer, Uploading
  <2> QED
    BY <1>1, <2>1, <2>2, Frames
<1> QED
  BY <1>1, <1>2, <1>3, <1>4, <1>5, <1>6, <1>7, <1>s, <1>8, <1>9, <1>10, <1>11, <1>12, <1>13, <1>14, <1>15 DEF Shape

LEMMA GroupEncodedFacts ==
  ASSUME PacksInv, group_encoded
  PROVE  /\ status = "inventorying" /\ pc = "encoded" /\ status' = status /\ pc' = "group"
         /\ object = Len(objects) + 1 /\ object' = object + 1 /\ object \in DOMAIN plan_packs
         /\ encoding.members = plan_packs[object] /\ Len(encoding.read) = Len(encoding.members)
         /\ Len(objects') = Len(objects) + 1 /\ DOMAIN objects' = DOMAIN objects \cup {object}
         /\ object \notin DOMAIN objects
         /\ \A o \in DOMAIN objects : objects'[o] = objects[o]
         /\ objects'[object].members = encoding.members
         /\ ~objects'[object].pack => ~Small(encoding.members[1])
         /\ packs'[object] \in {NoPack, encoding.read}
         /\ ~(objects'[object].pack /\ encoding.staging) => packs'[object] = NoPack \/ object \in unremoved'
         /\ objects'[object].pack /\ encoding.staging => packs'[object] = encoding.read
         /\ \A o \in Files : o # object => packs'[o] = packs[o] /\ (o \in unremoved' <=> o \in unremoved)
         /\ objects'[object].pack => /\ objects'[object].bytes = Encoded
                                     /\ Small(encoding.members[1]) \/ Encoded <= Budget
<1>1. /\ status = "inventorying" /\ pc = "encoded" /\ status' = status /\ pc' = "group"
      /\ object = Len(objects) + 1 /\ object' = object + 1 /\ object \in DOMAIN plan_packs
      /\ encoding.members = plan_packs[object] /\ Len(encoding.read) = Len(encoding.members)
  BY DEF group_encoded, PacksInv, Placed, EncodesTheObject, Inventorying, Encodes
<1>2. /\ objects \in Seq(Objects) /\ Len(objects) \in Nat /\ DOMAIN objects = 1..Len(objects)
      /\ packs \in [Files -> Seq(Contents)] /\ object \in Files
      /\ encoding.members \in Seq(Files) /\ Encoded \in Nat /\ Size(encoding.members) \in Nat
  BY <1>1, ObjectFacts, MemberFacts, EncodedFacts, SizeIsNat, PlanFacts DEF PacksInv, Shape, Encodes
<1> DEFINE keep == Small(encoding.members[1]) \/ UseCompressed(encoding.members[1], Encoded)
           bytes == IF keep THEN Encoded ELSE Size(encoding.members)
           new == Object(keep, bytes)
<1>3. new \in Objects /\ new.members = encoding.members /\ new.pack = keep /\ new.bytes = bytes
  BY <1>2 DEF Object, Objects
<1>4. /\ objects' = Append(objects, new)
      /\ \/ /\ packs' = [packs EXCEPT ![object] = IF keep /\ encoding.staging THEN encoding.read ELSE NoPack]
            /\ unremoved' = unremoved
         \/ /\ encoding.staging /\ ~keep
            /\ packs' = [packs EXCEPT ![object] = encoding.read]
            /\ unremoved' = unremoved \cup {object}
  <2> HIDE DEF keep
  <2>1. objects' = Append(objects, new)
    BY DEF group_encoded, keep
  <2>2. \/ /\ packs' = [packs EXCEPT ![object] = IF keep /\ encoding.staging THEN encoding.read ELSE NoPack]
           /\ unremoved' = unremoved
        \/ /\ encoding.staging /\ ~keep
           /\ packs' = [packs EXCEPT ![object] = encoding.read]
           /\ unremoved' = unremoved \cup {object}
    BY Zenon DEF group_encoded, keep
  <2> QED
    BY <2>1, <2>2
<1>5. ~keep => ~Small(encoding.members[1])
  OBVIOUS
<1>6. keep => bytes = Encoded /\ (Small(encoding.members[1]) \/ Encoded <= Budget)
  BY DEF UseCompressed
<1> HIDE DEF keep, bytes, new
<1>7. /\ Len(objects') = Len(objects) + 1 /\ DOMAIN objects' = 1..(Len(objects) + 1)
      /\ \A o \in 1..Len(objects) : objects'[o] = objects[o]
      /\ objects'[Len(objects) + 1] = new
  BY <1>2, <1>3, <1>4, AppendProperties
<1>8. /\ DOMAIN objects' = DOMAIN objects \cup {object} /\ object \notin DOMAIN objects
      /\ \A o \in DOMAIN objects : objects'[o] = objects[o]
      /\ objects'[object] = new
  BY <1>1, <1>2, <1>7
<1>9. /\ packs'[object] \in {NoPack, encoding.read}
      /\ ~(keep /\ encoding.staging) => packs'[object] = NoPack \/ object \in unremoved'
      /\ keep /\ encoding.staging => packs'[object] = encoding.read
      /\ \A o \in Files : o # object => packs'[o] = packs[o] /\ (o \in unremoved' <=> o \in unremoved)
  <2> HIDE DEF Files, NoPack
  <2> QED
    BY <1>2, <1>4
<1> QED
  BY <1>1, <1>3, <1>5, <1>6, <1>7, <1>8, <1>9

LEMMA AsGroupedNext ==
  ASSUME PacksInv, [Next]_vars
  PROVE  AsGrouped'
<1>1. kinds' = kinds /\ plan_packs' = plan_packs
  BY PlanIsKept
<1>2. /\ \A o \in DOMAIN objects : /\ objects[o].members = plan_packs[o]
                                   /\ ~objects[o].pack => Len(objects[o].members) = 1
      /\ status \in {"planned", "uploaded"} => Len(objects) = Len(plan_packs)
  BY DEF PacksInv, AsGrouped
<1>a. Len(objects) <= Len(plan_packs) /\ Len(objects) \in Nat /\ Len(plan_packs) \in Nat
  BY ObjectFacts, PlanFacts DEF PacksInv, AsGrouped, Shape
<1>b. DOMAIN plan_packs = 1..Len(plan_packs)
  BY PlanFacts
<1>3. CASE group_encoded
  <2>1. ~Small(encoding.members[1]) => Len(encoding.members) = 1
    <3> DEFINE L == Len(encoding.members)
    <3>1. encoding.members = plan_packs[object] /\ object \in DOMAIN plan_packs /\ kinds \in Sources
      BY <1>3, GroupEncodedFacts DEF PacksInv, Shape
    <3>2. GoodGroup(encoding.members, Files)
      BY <1>b, <3>1, PlanCarriesTheFiles DEF Carries
    <3>3. L \in Nat \ {0}
      BY <3>1, PlanFacts
    <3>4. L > 1 => Small(encoding.members[1])
      BY <3>2, <3>3 DEF GoodGroup
    <3> HIDE DEF L
    <3>5. ~Small(encoding.members[1]) => L = 1
      BY <3>3, <3>4
    <3> QED
      BY <3>5 DEF L
  <2>2. objects'[object].members = plan_packs[object] /\ (~objects'[object].pack => Len(objects'[object].members) = 1)
    BY <1>3, <2>1, GroupEncodedFacts
  <2>3. /\ DOMAIN objects' = DOMAIN objects \cup {object}
        /\ \A o \in DOMAIN objects : objects'[o] = objects[o]
    BY <1>3, GroupEncodedFacts
  <2>4. \A o \in DOMAIN objects' : /\ objects'[o].members = plan_packs[o]
                                   /\ ~objects'[o].pack => Len(objects'[o].members) = 1
    BY <1>2, <2>2, <2>3
  <2>5. Len(objects') = Len(objects) + 1 /\ Len(objects) + 1 \in DOMAIN plan_packs /\ status' = "inventorying"
    BY <1>3, GroupEncodedFacts
  <2>6. Len(objects') <= Len(plan_packs) /\ status' \notin {"planned", "uploaded"}
    <3> DEFINE n == Len(objects)
               m == Len(plan_packs)
    <3>1. n + 1 \in 1..m /\ Len(objects') = n + 1 /\ n \in Nat /\ m \in Nat
      BY <1>a, <1>b, <2>5
    <3> HIDE DEF n, m
    <3>2. Len(objects') <= m
      BY <3>1
    <3> QED
      BY <2>5, <3>2 DEF m
  <2> QED
    BY <1>1, <2>4, <2>6 DEF AsGrouped
<1>4. CASE replace_transport_plan
  <2>1. objects' = objects /\ object \notin DOMAIN plan_packs /\ object = Len(objects) + 1
    BY <1>4 DEF replace_transport_plan, PacksInv, Placed, Inventorying
  <2>2. Len(objects) = Len(plan_packs)
    <3> DEFINE n == Len(objects)
               m == Len(plan_packs)
    <3>1. n + 1 \notin 1..m /\ n <= m /\ n \in Nat /\ m \in Nat
      BY <1>a, <1>b, <2>1
    <3> HIDE DEF n, m
    <3>2. n = m
      BY <3>1
    <3> QED
      BY <3>2 DEF n, m
  <2> QED
    BY <1>1, <1>2, <1>a, <2>1, <2>2 DEF AsGrouped
<1>5. CASE ~group_encoded /\ ~replace_transport_plan
  <2>1. objects' = objects
    BY <1>5, Frames
  <2>2. status' \in {"planned", "uploaded"} => status \in {"planned", "uploaded"}
    BY <1>5, Frames DEF check_member, read_member, Fails, finalize, clear_transfer
  <2> QED
    BY <1>1, <1>2, <1>a, <2>1, <2>2 DEF AsGrouped
<1> QED
  BY <1>3, <1>4, <1>5

LEMMA PlacedNext ==
  ASSUME PacksInv, [Next]_vars
  PROVE  Placed'
<1>1. kinds' = kinds /\ plan_packs' = plan_packs /\ Files' = Files
  BY PlanIsKept DEF Files
<1>2. /\ pc \in {"stat", "hash"} => file \in Files /\ objects = <<>>
      /\ pc \in {"stat", "hash", "group"} => status = "inventorying"
      /\ pc \in {"object", "part", "send", "uploaded"} => status # "inventorying"
      /\ status = "inventorying" /\ pc # "idle" => object = Len(objects) + 1
      /\ status # "inventorying" /\ pc # "idle" => status \in {"planned", "cleared"} /\ Ordered
      /\ status \in {"planned", "uploaded"} => Ordered
      /\ status # "inventorying" /\ pc \in {"check", "read", "encoded", "part", "send", "uploaded"}
            => file \in DOMAIN order /\ object = order[file]
  BY DEF PacksInv, Placed, Inventorying, Encodes, Sends
<1>3. /\ Len(objects) \in Nat /\ file \in Nat \ {0} /\ status \in Statuses /\ pc \in Places
      /\ objects \in Seq(Objects)
  BY ObjectFacts DEF PacksInv, Shape
<1> DEFINE Goal == 
      /\ pc' \in {"stat", "hash"} => file' \in Files /\ objects' = <<>>
      /\ pc' \in {"stat", "hash", "group"} => status' = "inventorying"
      /\ pc' \in {"object", "part", "send", "uploaded"} => status' # "inventorying"
      /\ status' = "inventorying" /\ pc' # "idle" => object' = Len(objects') + 1
      /\ status' # "inventorying" /\ pc' # "idle" => status' \in {"planned", "cleared"} /\ Ordered'
      /\ status' \in {"planned", "uploaded"} => Ordered'
      /\ status' # "inventorying" /\ pc' \in {"check", "read", "encoded", "part", "send", "uploaded"}
            => file' \in DOMAIN order' /\ object' = order'[file']
<1>4. ASSUME group_encoded PROVE Goal
  <2>1. PICK x : objects' = Append(objects, x)
    BY <1>4 DEF group_encoded
  <2>2. Len(objects') = Len(objects) + 1
    BY <1>3, <2>1
  <2>3. status' = "inventorying" /\ pc' = "group" /\ object' = object + 1 /\ object = Len(objects) + 1
    BY <1>2, <1>4 DEF group_encoded
  <2> QED
    BY <1>3, <2>2, <2>3
<1>5. ASSUME replace_transport_plan PROVE Goal
  BY <1>2, <1>5 DEF replace_transport_plan, Ordered
<1>6. ASSUME next_object PROVE Goal
  <2>1. status # "inventorying" /\ status' = status /\ Ordered' /\ file' = file /\ order' = order /\ object' = order[file]
        /\ pc' \in {"part", "idle", "check"} /\ status \in {"planned", "cleared"}
    BY <1>2, <1>6 DEF next_object, sqlite, Ordered, Candidate
  <2>2. file \in DOMAIN order
    <3>1. Ordered /\ file <= Len(order)
      BY <1>2, <1>6 DEF next_object
    <3>2. DOMAIN objects = 1..Len(objects)
      BY <1>3
    <3>3. DOMAIN order = 1..Len(order)
      BY <1>3, <3>1, <3>2 DEF Ordered
    <3> QED
      BY <1>3, <3>1, <3>3
  <2> QED
    BY <1>2, <2>1, <2>2
<1>7. ASSUME objects' = objects, order' = order, object' = object, 
             ~ (group_encoded \/ replace_transport_plan \/ next_object)
      PROVE Goal
  <2>1. Ordered' = Ordered
    BY <1>7 DEF Ordered
  <2>2. CASE stat_file \/ hash_file
    BY <1>2, <1>7, <2>1, <2>2 DEF stat_file, hash_file
  <2>3. CASE next_group
    BY <1>2, <1>7, <2>1, <2>3 DEF next_group, Encode, sqlite
  <2>4. CASE check_member \/ read_member
    BY <1>2, <1>7, <2>1, <2>4 DEF check_member, read_member, Fails
  <2>5. CASE start_upload \/ skip_object \/ finalize
    BY <1>2, <1>7, <2>1, <2>5 DEF start_upload, skip_object, finalize, sqlite
  <2>6. CASE pack_encoded
    BY <1>2, <1>7, <2>1, <2>6 DEF pack_encoded, sqlite
  <2>7. CASE next_part \/ send_part \/ mark_file_uploaded \/ object_uploaded
    BY <1>2, <1>7, <2>1, <2>7 DEF next_part, send_part, mark_file_uploaded, object_uploaded, sqlite
  <2>8. CASE Crash \/ clear_transfer
    BY <1>2, <1>7, <2>1, <2>8 DEF Crash, clear_transfer, sqlite, code
  <2>9. CASE \E f \in Files : Edit(f)
    BY <1>2, <1>7, <2>1, <2>9 DEF Edit, sqlite, code
  <2>10. CASE UNCHANGED vars
    BY <1>2, <1>7, <2>1, <2>10 DEF vars, sqlite, code
  <2> QED
    BY <1>7, <2>2, <2>3, <2>4, <2>5, <2>6, <2>7, <2>8, <2>9, <2>10 DEF Next, Courier, Inventory, Encoding, Upload
<1>8. Goal
  BY <1>4, <1>5, <1>6, <1>7, Frames
<1> QED
  BY <1>1, <1>8 DEF Placed, Inventorying, Encodes, Sends

(* What goes on while Courier does not. *)
Around == clear_transfer \/ (\E f \in Files : Edit(f)) \/ UNCHANGED vars

LEMMA AroundFacts ==
  ASSUME Around
  PROVE  /\ pc' = pc /\ file' = file /\ object' = object /\ marks' = marks /\ encoding' = encoding
         /\ records' = records /\ objects' = objects /\ order' = order /\ marked' = marked
         /\ cachedBytes' = cachedBytes /\ forgotten' = forgotten /\ stored' = stored
  BY DEF Around, clear_transfer, Edit, vars, code, sqlite, cache, count

LEMMA Reaching ==
  ASSUME [Next]_vars
  PROVE  /\ pc' \in {"check", "read", "encoded"} => next_group \/ check_member \/ read_member \/ next_object \/ Around
         /\ pc' \in {"part", "send", "uploaded"}
               => next_object \/ pack_encoded \/ next_part \/ send_part \/ mark_file_uploaded \/ Around
<1>1. CASE Inventory \/ Encoding
  <2>1. CASE stat_file \/ hash_file
    BY <2>1 DEF stat_file, hash_file
  <2>2. CASE group_encoded \/ replace_transport_plan
    BY <2>2 DEF group_encoded, replace_transport_plan
  <2>3. CASE next_group \/ check_member \/ read_member
    <3>1. pc' \notin {"part", "send", "uploaded"}
      BY <2>3 DEF next_group, Encode, check_member, read_member, Fails
    <3> QED
      BY <2>3, <3>1
  <2> QED
    BY <1>1, <2>1, <2>2, <2>3 DEF Inventory, Encoding
<1>2. CASE Upload
  BY <1>2 DEF Upload, start_upload, skip_object, next_object, pack_encoded, next_part, send_part,
              mark_file_uploaded, object_uploaded, finalize
<1>3. CASE Crash
  BY <1>3 DEF Crash
<1> QED
  BY <1>1, <1>2, <1>3 DEF Next, Courier, Around

LEMMA NextObjectFacts ==
  ASSUME PacksInv, next_object
  PROVE  /\ pc = "object" /\ status # "inventorying" /\ status' = status /\ Ordered
         /\ file \in DOMAIN order /\ object' = order[file] /\ object' = Candidate /\ Candidate \in DOMAIN objects
         /\ objects' = objects /\ order' = order /\ file' = file /\ marked' = marked
         /\ ~IsMarked(Candidate)
<1>1. pc = "object" /\ status # "inventorying" /\ status' = status /\ Ordered /\ file <= Len(order) /\ ~Skipped
      /\ object' = Candidate /\ objects' = objects /\ order' = order /\ file' = file /\ marked' = marked
  BY DEF next_object, PacksInv, Placed, Inventorying, sqlite
<1>2. file \in Nat \ {0} /\ DOMAIN objects = 1..Len(objects) /\ Len(objects) \in Nat
  BY ObjectFacts DEF PacksInv, Shape
<1>3. DOMAIN order = 1..Len(order)
  BY <1>1, <1>2 DEF Ordered
<1>4. file \in DOMAIN order
  BY <1>1, <1>2, <1>3
<1> QED
  BY <1>1, <1>4 DEF Candidate, Ordered, Skipped, IsMarked

LEMMA EncodesTheObjectNext ==
  ASSUME PacksInv, [Next]_vars
  PROVE  EncodesTheObject'
<1> SUFFICES ASSUME Encodes' PROVE EncodesTheObject'
  BY DEF EncodesTheObject
<1> USE PlanIsKept
<1>1. kinds' = kinds /\ plan_packs' = plan_packs /\ kinds \in Sources /\ Budget \in Nat
  BY PlanIsKept, TransportAssumption DEF PacksInv, Shape
<1>2. Encodes =>
        /\ IF Inventorying
           THEN object \in DOMAIN plan_packs /\ encoding.members = plan_packs[object]
           ELSE objects[object].pack /\ encoding.members = objects[object].members
        /\ IF pc = "encoded" THEN Len(encoding.read) = Len(encoding.members)
                             ELSE Len(encoding.read) < Len(encoding.members)
        /\ encoding.limit <= Budget
        /\ encoding.staging => SizeOf(kinds, encoding.members, encoding.read) <= encoding.limit
  BY DEF PacksInv, EncodesTheObject
<1>3. CASE next_group
  <2>1. Inventorying' /\ object' = object /\ object \in DOMAIN plan_packs /\ pc' = "check"
    BY <1>3 DEF next_group, PacksInv, Placed, Inventorying, sqlite, Encode
  <2>2. encoding' = [staging |-> Monus(Budget, cachedBytes) > 0, members |-> plan_packs[object], read |-> <<>>,
                     limit |-> Monus(Budget, cachedBytes)]
    BY <1>3 DEF next_group, Encode
  <2>3. Monus(Budget, cachedBytes) \in Nat /\ Monus(Budget, cachedBytes) <= Budget
    BY <1>1 DEF Monus, PacksInv, Shape
  <2>4. plan_packs[object] \in Seq(DOMAIN kinds) /\ Len(plan_packs[object]) \in Nat \ {0}
    BY <1>1, <2>1, PlanFacts DEF Files
  <2>5. SizeOf(kinds, plan_packs[object], <<>>) = 0
    <3>1. <<>> \in Seq(Contents) /\ Len(<<>>) <= Len(plan_packs[object])
      BY <2>4
    <3> QED
      BY <1>1, <2>4, <3>1, SizeOfIsNat
  <2>6. encoding'.members = plan_packs[object] /\ encoding'.read = <<>> /\ encoding'.limit = Monus(Budget, cachedBytes)
    BY <2>2
  <2>7. Len(<<>>) < Len(plan_packs[object])
    BY <2>4
  <2> QED
    BY <1>1, <2>1, <2>3, <2>5, <2>6, <2>7 DEF EncodesTheObject
<1>4. CASE check_member
  <2>1. pc = "check" /\ pc' = "read" /\ encoding' = encoding /\ status' = status /\ objects' = objects /\ object' = object
    BY <1>4 DEF check_member, Fails, Encodes
  <2> QED
    BY <1>1, <1>2, <2>1 DEF EncodesTheObject, Encodes, Inventorying
<1>5. CASE read_member
  <2>1. pc = "read" /\ status' = status /\ objects' = objects /\ object' = object
    BY <1>5 DEF read_member, Fails, Encodes
  <2>2. /\ encoding.members \in Seq(DOMAIN kinds) /\ Len(encoding.members) \in Nat \ {0} /\ Len(encoding.read) \in Nat
        /\ Len(Read) = Len(encoding.read) + 1 /\ encoding.staging \in BOOLEAN
    BY <2>1, MemberFacts DEF Encodes, Files
  <2>3. ReadSize = SizeOf(kinds, encoding.members, Read) /\ ReadSize \in Nat
    BY <2>1, EncodedFacts DEF Encodes
  <2>4. encoding \in [staging : BOOLEAN, members : Seq(Files), read : Seq(Contents), limit : Nat]
    BY DEF PacksInv, Shape
  <2>5. CASE encoding' = [encoding EXCEPT !.staging = FALSE, !.read = <<>>] /\ pc' = "check"
    <3>1. /\ encoding'.members = encoding.members /\ encoding'.read = <<>> /\ encoding'.limit = encoding.limit
          /\ encoding'.staging = FALSE
      BY <2>4, <2>5
    <3>2. Len(<<>>) < Len(encoding.members)
      BY <2>2
    <3> QED
      BY <1>1, <1>2, <2>1, <2>5, <3>1, <3>2 DEF EncodesTheObject, Encodes, Inventorying
  <2>6. CASE /\ encoding.staging => ~Exceeds
             /\ encoding' = [encoding EXCEPT !.read = Read]
             /\ pc' = IF Len(Read) = Len(encoding.members) THEN "encoded" ELSE "check"
    <3>1. /\ encoding'.members = encoding.members /\ encoding'.read = Read /\ encoding'.limit = encoding.limit
          /\ encoding'.staging = encoding.staging
      BY <2>4, <2>6
    <3>2. encoding.staging => SizeOf(kinds, encoding.members, Read) <= encoding.limit
      BY <2>3, <2>4, <2>6 DEF Exceeds
    <3>3. IF pc' = "encoded" THEN Len(Read) = Len(encoding.members) ELSE Len(Read) < Len(encoding.members)
      <4>1. Len(encoding.read) < Len(encoding.members)
        BY <1>2, <2>1 DEF Encodes
      <4> QED
        BY <2>2, <2>6, <4>1
    <3> QED
      BY <1>1, <1>2, <2>1, <3>1, <3>2, <3>3 DEF EncodesTheObject, Encodes, Inventorying
  <2> QED
    BY <1>5, <2>5, <2>6 DEF read_member, Fails, Encodes
<1>6. CASE next_object
  <2>1. /\ status' # "inventorying" /\ objects' = objects /\ object' = Candidate /\ Candidate \in DOMAIN objects
    BY <1>6, NextObjectFacts
  <2>2. /\ objects[Candidate].pack /\ pc' = "check"
        /\ encoding' = [NoCall EXCEPT !.staging = TRUE, !.limit = Budget, !.members = objects[Candidate].members]
    BY <1>6 DEF next_object, Encodes
  <2>3. encoding'.members = objects[Candidate].members /\ encoding'.read = <<>> /\ encoding'.limit = Budget
    BY <2>2 DEF NoCall
  <2>4. objects[Candidate].members \in Seq(DOMAIN kinds) /\ Len(objects[Candidate].members) \in Nat \ {0}
    BY <2>1, ObjectFacts DEF PacksInv, Files
  <2>5. Len(<<>>) < Len(objects[Candidate].members) /\ Budget <= Budget
    BY <1>1, <2>4
  <2>6. SizeOf(kinds, objects[Candidate].members, <<>>) = 0
    <3>1. <<>> \in Seq(Contents) /\ Len(<<>>) <= Len(objects[Candidate].members)
      BY <2>4
    <3> QED
      BY <1>1, <2>4, <3>1, SizeOfIsNat
  <2> QED
    BY <1>1, <2>1, <2>2, <2>3, <2>5, <2>6 DEF EncodesTheObject, Inventorying
<1>7. CASE Around
  <2>1. pc' = pc /\ encoding' = encoding /\ objects' = objects /\ object' = object
    BY <1>7, AroundFacts
  <2>2. Encodes => Inventorying' = Inventorying
    BY <1>7 DEF Around, clear_transfer, Edit, vars, sqlite, Inventorying, Encodes
  <2> QED
    BY <1>1, <1>2, <2>1, <2>2 DEF EncodesTheObject, Encodes
<1> QED
  BY <1>3, <1>4, <1>5, <1>6, <1>7, Reaching DEF Encodes

LEMMA SendsAsPlannedNext ==
  ASSUME PacksInv, [Next]_vars
  PROVE  SendsAsPlanned'
<1> SUFFICES ASSUME pc' \in {"part", "send"} PROVE SendsAsPlanned'
  BY DEF SendsAsPlanned
<1>1. kinds' = kinds /\ packs \in [Files -> Seq(Contents)]
  BY PlanIsKept DEF PacksInv, Shape
<1>2. /\ pc \in {"part", "send"} /\ objects[object].pack /\ packs[object] # NoPack
           => SizeOf(kinds, objects[object].members, packs[object]) = objects[object].bytes
      /\ pc = "send" /\ status = "planned" /\ objects[object].pack => packs[object] # NoPack
  BY DEF PacksInv, SendsAsPlanned
<1>3. CASE next_object
  <2>1. objects' = objects /\ object' = Candidate /\ Candidate \in Files /\ pc' = "part"
    BY <1>3, NextObjectFacts, ObjectFacts DEF PacksInv, next_object
  <2>2. CASE objects[Candidate].pack
    <3>1. AsPlanned(Candidate, packs[Candidate])
      BY <1>3, <2>1, <2>2 DEF next_object
    <3>2. packs'[Candidate] = packs[Candidate]
      BY <1>1, <1>3, Evicted, NextObjectFacts
    <3>3. SizeOf(kinds, objects[Candidate].members, packs[Candidate]) = objects[Candidate].bytes
      BY <3>1, PackSizeIsSizeOf DEF AsPlanned
    <3> QED
      BY <1>1, <2>1, <3>2, <3>3 DEF SendsAsPlanned
  <2>3. CASE ~objects[Candidate].pack
    BY <2>1, <2>3 DEF SendsAsPlanned
  <2> QED
    BY <2>2, <2>3
<1>4. CASE pack_encoded
  <2>1. objects' = objects /\ object' = object /\ object \in Files /\ pc' = "part"
    BY <1>4, ObjectIsAFile DEF pack_encoded, Encodes, sqlite
  <2>2. AsPlanned(object, encoding.read) /\ packs' = [packs EXCEPT ![object] = encoding.read]
    BY <1>4, <2>1 DEF pack_encoded
  <2>3. packs'[object] = encoding.read
    BY <1>1, <2>1, <2>2
  <2>4. SizeOf(kinds, objects[object].members, encoding.read) = objects[object].bytes
    BY <2>2, PackSizeIsSizeOf DEF AsPlanned
  <2> QED
    BY <1>1, <2>1, <2>3, <2>4 DEF SendsAsPlanned
<1>5. CASE next_part
  <2>1. objects' = objects /\ object' = object /\ packs' = packs /\ pc = "part" /\ status' = status
    BY <1>5 DEF next_part, sqlite, cache
  <2>2. pc' = "send" /\ status = "planned" /\ objects[object].pack => packs[object] # NoPack
    BY <1>5 DEF next_part
  <2> QED
    BY <1>1, <1>2, <2>1, <2>2 DEF SendsAsPlanned
<1>6. CASE send_part
  <2>1. objects' = objects /\ object' = object /\ packs' = packs /\ pc = "send" /\ pc' = "part"
    BY <1>6 DEF send_part, sqlite, cache
  <2> QED
    BY <1>1, <1>2, <2>1 DEF SendsAsPlanned
<1>7. CASE mark_file_uploaded
  BY <1>7 DEF mark_file_uploaded
<1>8. CASE Around
  <2>1. pc' = pc /\ objects' = objects /\ object' = object
    BY <1>8, AroundFacts
  <2>2. \/ packs' = packs /\ status' = status
        \/ packs' = [o \in Files |-> NoPack] /\ status' = "cleared"
    BY <1>8 DEF Around, clear_transfer, Edit, vars, sqlite, cache
  <2>3. object \in Files
    BY <2>1, ObjectIsAFile DEF Sends
  <2> QED
    BY <1>1, <1>2, <2>1, <2>2, <2>3 DEF SendsAsPlanned
<1> QED
  BY <1>3, <1>4, <1>5, <1>6, <1>7, <1>8, Reaching

LEMMA StampsGrowNext ==
  ASSUME PacksInv, [Next]_vars
  PROVE  StampsGrow'
<1>1. /\ source \in [Files -> State] /\ records \in [Files -> State] /\ edits \in Nat /\ Files' = Files
      /\ \A f \in Files : source[f].stamp \in Nat /\ records[f].stamp \in Nat
      /\ \A f \in Files : source[f].stamp <= edits /\ records[f].stamp <= edits
  BY PlanIsKept DEF PacksInv, Shape, StampsGrow, State, Files
<1> HIDE DEF Files
<1>2. CASE \E f \in Files : Edit(f)
  <2>1. PICK f \in Files : Edit(f)
    BY <1>2
  <2>2. PICK content \in {1, 2}, traced \in BOOLEAN :
           source' = [source EXCEPT ![f] = [content |-> content,
                                            stamp |-> IF traced THEN edits + 1 ELSE source[f].stamp]]
    BY <2>1 DEF Edit
  <2>3. edits' = edits + 1 /\ records' = records
    BY <2>1 DEF Edit, sqlite
  <2>4. \A g \in Files : g # f => source'[g] = source[g]
    BY <1>1, <2>2
  <2>5. source'[f].stamp = IF traced THEN edits + 1 ELSE source[f].stamp
    BY <1>1, <2>2
  <2>6. \A g \in Files : source'[g].stamp <= edits + 1
    BY <1>1, <2>4, <2>5
  <2> QED
    BY <1>1, <2>3, <2>6 DEF StampsGrow
<1>3. CASE stat_file
  <2>1. file \in Files /\ source' = source /\ edits' = edits
        /\ records' = [records EXCEPT ![file] = [records[file] EXCEPT !.stamp = source[file].stamp]]
    BY <1>3 DEF stat_file, PacksInv, Placed, world
  <2>2. \A f \in Files : records'[f].stamp = IF f = file THEN source[f].stamp ELSE records[f].stamp
    BY <1>1, <2>1 DEF State
  <2> QED
    BY <1>1, <2>1, <2>2 DEF StampsGrow
<1>4. CASE hash_file
  <2>1. file \in Files /\ source' = source /\ edits' = edits
        /\ records' = [records EXCEPT ![file] = [records[file] EXCEPT !.content = source[file].content]]
    BY <1>4 DEF hash_file, PacksInv, Placed, world
  <2>2. \A f \in Files : records'[f].stamp = records[f].stamp
    BY <1>1, <2>1 DEF State
  <2> QED
    BY <1>1, <2>1, <2>2 DEF StampsGrow
<1>5. CASE source' = source /\ edits' = edits /\ records' = records
  BY <1>1, <1>5 DEF StampsGrow
<1> QED
  BY <1>2, <1>3, <1>4, <1>5, Frames DEF stat_file, hash_file, world

LEMMA NothingStoredNext ==
  ASSUME PacksInv, [Next]_vars
  PROVE  NothingStored'
<1>1. Files' = Files
  BY PlanIsKept DEF Files
<1>2. Inventorying' => Inventorying
  BY Frames DEF Inventorying, check_member, read_member, Fails, replace_transport_plan, finalize, clear_transfer
<1>3. send_part => ~Inventorying'
  BY DEF send_part, sqlite, PacksInv, Placed, Inventorying, Sends
<1> QED
  BY <1>1, <1>2, <1>3, Frames DEF NothingStored, PacksInv

LEMMA PacksFitObjectsNext ==
  ASSUME PacksInv, [Next]_vars
  PROVE  PacksFitObjects(kinds, objects', packs')
<1>1. /\ DOMAIN kinds = Files /\ packs \in [Files -> Seq(Contents)] /\ packs' \in [Files -> Seq(Contents)]
  BY ShapeNext, PlanIsKept DEF PacksInv, Shape, Files
<1>2. \A o \in Files : packs[o] # NoPack => /\ o \in DOMAIN objects
                                            /\ objects[o].members \in Seq(Files)
                                            /\ Len(packs[o]) = Len(objects[o].members)
  BY <1>1 DEF PacksInv, PacksFitObjects
<1> DEFINE Goal == \A o \in Files : packs'[o] # NoPack => /\ o \in DOMAIN objects'
                                                          /\ objects'[o].members \in Seq(Files)
                                                          /\ Len(packs'[o]) = Len(objects'[o].members)
<1> HIDE DEF Files
<1>3. ASSUME group_encoded PROVE Goal
  <2>1. /\ DOMAIN objects' = DOMAIN objects \cup {object} /\ object \notin DOMAIN objects
        /\ \A o \in DOMAIN objects : objects'[o] = objects[o]
        /\ objects'[object].members = encoding.members
        /\ packs'[object] \in {encoding.read, NoPack}
        /\ Len(encoding.read) = Len(encoding.members)
    BY <1>3, GroupEncodedFacts
  <2>2. encoding.members \in Seq(Files)
    BY DEF PacksInv, Shape
  <2>3. \A o \in Files : o # object => packs'[o] = packs[o]
    BY <1>1, <1>3 DEF group_encoded
  <2>4. \A o \in Files : o # object /\ packs'[o] # NoPack => o \in DOMAIN objects
    BY <1>2, <2>3
  <2> QED
    BY <1>2, <2>1, <2>2, <2>3, <2>4
<1>4. ASSUME pack_encoded PROVE Goal
  <2>1. /\ object \in DOMAIN objects /\ object \in Files /\ objects' = objects
        /\ encoding.members = objects[object].members /\ Len(encoding.read) = Len(encoding.members)
        /\ packs' \in {packs, [packs EXCEPT ![object] = encoding.read]}
    BY <1>4, ObjectIsAFile DEF pack_encoded, PacksInv, EncodesTheObject, Encodes, Inventorying, sqlite
  <2>2. encoding.members \in Seq(Files)
    BY DEF PacksInv, Shape
  <2>3. \A o \in Files : packs'[o] = packs[o] \/ (o = object /\ packs'[o] = encoding.read)
    BY <1>1, <2>1
  <2> QED
    BY <1>2, <2>1, <2>2, <2>3
<1>5. ASSUME next_object \/ object_uploaded \/ clear_transfer PROVE Goal
  <2>1. objects' = objects
    BY <1>5 DEF next_object, object_uploaded, clear_transfer, sqlite
  <2>2. \A o \in Files : packs'[o] \in {packs[o], NoPack}
    BY <1>5, PacksFell, PlanIsKept
  <2> QED
    BY <1>2, <2>1, <2>2
<1>6. ASSUME packs' = packs, ~group_encoded PROVE Goal
  <2>1. objects' = objects
    BY <1>6, Frames
  <2> QED
    BY <1>2, <1>6, <2>1
<1>7. Goal
  BY <1>3, <1>4, <1>5, <1>6, Frames
<1> HIDE DEF Goal
<1> QED
  BY <1>1, <1>7 DEF PacksFitObjects, Goal

LEMMA PlannedSizesNext ==
  ASSUME PacksInv, [Next]_vars
  PROVE  PlannedSizes'
<1>1. /\ kinds' = kinds /\ stored \in [Files -> Seq(Seq(Contents))]
      /\ \A o \in DOMAIN objects : \A p \in DOMAIN stored[o] :
            objects[o].pack => SizeOf(kinds, objects[o].members, stored[o][p]) = objects[o].bytes
  BY PlanIsKept DEF PacksInv, Shape, PlannedSizes
<1>2. CASE send_part
  <2>1. objects' = objects /\ object \in DOMAIN objects /\ object \in Files
    BY <1>2, ObjectIsAFile DEF send_part, sqlite, Sends, PacksInv, Placed
  <2>2. CASE status = "planned"
    <3> DEFINE new == IF objects[object].pack THEN packs[object]
                      ELSE <<source[objects[object].members[1]].content>>
    <3>1. stored' = [stored EXCEPT ![object] = Append(stored[object], new)]
      BY <1>2, <2>2 DEF send_part
    <3>2. objects[object].pack => SizeOf(kinds, objects[object].members, new) = objects[object].bytes
      BY <1>2, <2>2 DEF send_part, PacksInv, SendsAsPlanned
    <3> HIDE DEF new
    <3>3. /\ \A o \in Files : o # object => stored'[o] = stored[o]
          /\ stored'[object] = Append(stored[object], new)
      BY <1>1, <2>1, <3>1
    <3>4. \A p \in DOMAIN stored'[object] : stored'[object][p] = new
              \/ (p \in DOMAIN stored[object] /\ stored'[object][p] = stored[object][p])
      <4>1. stored[object] \in Seq(Seq(Contents))
        BY <1>1, <2>1
      <4> QED
        BY <3>3, <4>1
    <3>5. \A o \in DOMAIN objects : o \in Files
      BY ObjectFacts DEF PacksInv
    <3>6. ASSUME NEW o \in DOMAIN objects, NEW p \in DOMAIN stored'[o], objects[o].pack
          PROVE  SizeOf(kinds, objects[o].members, stored'[o][p]) = objects[o].bytes
      <4>1. CASE o = object
        BY <1>1, <3>2, <3>4, <3>6, <4>1
      <4>2. CASE o # object
        BY <1>1, <3>3, <3>5, <3>6, <4>2
      <4> QED
        BY <4>1, <4>2
    <3> QED
      BY <1>1, <2>1, <3>6 DEF PlannedSizes
  <2>3. CASE status # "planned"
    <3>1. stored' = stored
      BY <1>2, <2>3 DEF send_part
    <3> QED
      BY <1>1, <2>1, <3>1 DEF PlannedSizes
  <2> QED
    BY <2>2, <2>3
<1>3. CASE group_encoded
  <2>1. stored' = stored /\ Inventorying
    BY <1>3 DEF group_encoded, Inventorying
  <2>2. \A o \in DOMAIN objects' : stored[o] = <<>>
    <3>1. \A o \in DOMAIN objects' : o \in Files
      BY <1>3, GroupEncodedFacts, ObjectFacts, PlanFacts DEF PacksInv, Shape
    <3> QED
      BY <2>1, <3>1 DEF PacksInv, NothingStored
  <2> QED
    BY <2>1, <2>2 DEF PlannedSizes
<1>4. CASE ~send_part /\ ~group_encoded
  <2>1. stored' = stored /\ objects' = objects
    BY <1>4, Frames
  <2> QED
    BY <1>1, <2>1 DEF PlannedSizes
<1> QED
  BY <1>2, <1>3, <1>4

(* An edit that is seen changes the stamp of its file, and no file that is being read. *)
LEMMA EditFacts ==
  ASSUME PacksInv, NEW f \in Files, Edit(f), ~hidden'
  PROVE  /\ ~hidden /\ f \notin BeingRead
         /\ \A g \in Files : g # f => source'[g] = source[g]
         /\ source'[f].stamp = edits + 1 /\ records[f].stamp # edits + 1 /\ source[f].stamp # edits + 1
<1>1. PICK content \in {1, 2}, traced \in BOOLEAN :
         /\ source' = [source EXCEPT ![f] = [content |-> content,
                                             stamp |-> IF traced THEN edits + 1 ELSE source[f].stamp]]
         /\ hidden' = (hidden \/ ~traced \/ f \in BeingRead)
  BY DEF Edit
<1>2. ~hidden /\ traced /\ f \notin BeingRead
  BY <1>1
<1>3. /\ source \in [Files -> State] /\ edits \in Nat /\ records[f].stamp \in Nat /\ source[f].stamp \in Nat
      /\ records[f].stamp <= edits /\ source[f].stamp <= edits
  BY DEF PacksInv, Shape, StampsGrow, State
<1>4. records[f].stamp # edits + 1 /\ source[f].stamp # edits + 1
  BY <1>3
<1> HIDE DEF Files
<1>5. /\ \A g \in Files : g # f => source'[g] = source[g]
      /\ source'[f].stamp = edits + 1
  BY <1>1, <1>2, <1>3
<1> QED
  BY <1>2, <1>4, <1>5

LEMMA FilesAreRecordedNext ==
  ASSUME PacksInv, [Next]_vars, ~hidden'
  PROVE  FilesAreRecorded'
<1>1. /\ Files' = Files /\ source \in [Files -> State] /\ records \in [Files -> State]
  BY PlanIsKept DEF PacksInv, Shape, Files
<1>2. ~hidden
  BY Frames DEF Edit
<1>3. pc # "idle" \/ status = "planned" => \A f \in Files : (pc = "hash" /\ f = file) \/ Recorded(f)
  BY <1>2 DEF PacksInv, HoldsTheRecorded, FilesAreRecorded
<1> HIDE DEF Files
<1>4. CASE \E f \in Files : Edit(f)
  <2>1. PICK f \in Files : Edit(f)
    BY <1>4
  <2>2. /\ \A g \in Files : g # f => source'[g] = source[g]
        /\ source'[f].stamp = edits + 1 /\ records[f].stamp # edits + 1
    BY <2>1, EditFacts
  <2>3. records' = records /\ pc' = pc /\ file' = file /\ status' = status
    BY <2>1 DEF Edit, sqlite, code
  <2> QED
    BY <1>1, <1>3, <2>2, <2>3 DEF FilesAreRecorded, Recorded
<1>5. CASE stat_file
  <2>1. file \in Files /\ source' = source /\ file' = file /\ pc = "stat" /\ pc' = "hash"
        /\ records' = [records EXCEPT ![file] = [records[file] EXCEPT !.stamp = source[file].stamp]]
    BY <1>5 DEF stat_file, PacksInv, Placed, world
  <2>2. \A f \in Files : f # file => records'[f] = records[f]
    BY <1>1, <2>1
  <2> QED
    BY <1>1, <1>3, <2>1, <2>2 DEF FilesAreRecorded, Recorded
<1>6. CASE hash_file
  <2>1. file \in Files /\ source' = source /\ pc = "hash" /\ pc' # "hash"
        /\ records' = [records EXCEPT ![file] = [records[file] EXCEPT !.content = source[file].content]]
    BY <1>6 DEF hash_file, PacksInv, Placed, world
  <2>2. \A f \in Files : f # file => records'[f] = records[f]
    BY <1>1, <2>1
  <2>3. records'[file].content = source[file].content
    BY <1>1, <2>1 DEF State
  <2> QED
    BY <1>1, <1>3, <2>1, <2>2, <2>3 DEF FilesAreRecorded, Recorded
<1>7. CASE source' = source /\ records' = records /\ pc # "hash"
  <2>1. pc' # "idle" \/ status' = "planned" => pc # "idle" \/ status = "planned"
    <3>1. pc' # "idle" => pc # "idle" \/ status = "planned"
      BY DEF Next, vars, code, Courier, Inventory, Encoding, Upload, stat_file, hash_file, next_group, Encode,
             group_encoded, replace_transport_plan, check_member, read_member, Fails, start_upload, skip_object,
             next_object, pack_encoded, next_part, send_part, mark_file_uploaded, object_uploaded, finalize,
             Crash, clear_transfer, Edit
    <3>2. status' = "planned" => status = "planned" \/ pc # "idle"
      BY Frames DEF check_member, read_member, Fails, replace_transport_plan, finalize, clear_transfer
    <3> QED
      BY <3>1, <3>2
  <2> QED
    BY <1>1, <1>3, <1>7, <2>1 DEF FilesAreRecorded, Recorded
<1>8. CASE source' = source /\ records' = records /\ pc = "hash" /\ ~hash_file
  <2>1. (pc' = pc /\ file' = file) \/ pc' = "idle"
    BY <1>8 DEF Next, vars, code, Courier, Inventory, Encoding, Upload, stat_file, next_group, Encode,
             group_encoded, replace_transport_plan, check_member, read_member, Fails, start_upload, skip_object,
             next_object, pack_encoded, next_part, send_part, mark_file_uploaded, object_uploaded, finalize,
             Crash, clear_transfer, Edit
  <2>2. pc' = "idle" => status' # "planned"
    <3>1. status = "inventorying"
      BY <1>8 DEF PacksInv, Placed, Inventorying
    <3> QED
      BY <1>8, <3>1, Frames DEF check_member, read_member, Fails, replace_transport_plan, finalize, clear_transfer
  <2> QED
    BY <1>1, <1>3, <1>8, <2>1, <2>2 DEF FilesAreRecorded, Recorded
<1> QED
  BY <1>4, <1>5, <1>6, <1>7, <1>8, Frames DEF stat_file, hash_file, world

LEMMA ReadsTheRecordedNext ==
  ASSUME PacksInv, [Next]_vars, ~hidden'
  PROVE  ReadsTheRecorded'
<1>1. ~hidden
  BY Frames DEF Edit
<1>2. FilesAreRecorded /\ ReadsTheRecorded
  BY <1>1 DEF PacksInv, HoldsTheRecorded
<1>3. CASE pc' \in {"check", "read", "encoded"}
  <2>1. CASE next_group
    <3>1. encoding'.read = <<>> /\ pc' = "check"
      BY <2>1 DEF next_group, Encode
    <3> QED
      BY <3>1 DEF ReadsTheRecorded
  <2>2. CASE check_member
    <3>1. /\ pc = "check" /\ pc' = "read" /\ encoding' = encoding /\ source' = source /\ records' = records
          /\ verify_source_unchanged(Member)
      BY <1>3, <2>2 DEF check_member, Fails, world
    <3>2. \A i \in DOMAIN encoding.read : encoding.read[i] = records[encoding.members[i]].content
      BY <1>2, <3>1 DEF ReadsTheRecorded, Encodes
    <3> QED
      BY <3>1, <3>2 DEF ReadsTheRecorded, verify_source_unchanged, Member
  <2>3. CASE read_member
    <3>1. pc = "read" /\ records' = records /\ pc' \in {"check", "encoded"}
      BY <1>3, <2>3 DEF read_member, Fails
    <3>2. /\ encoding \in [staging : BOOLEAN, members : Seq(Files), read : Seq(Contents), limit : Nat]
          /\ Read \in Seq(Contents) /\ Len(Read) = Len(encoding.read) + 1 /\ Len(encoding.read) \in Nat
          /\ DOMAIN encoding.read = 1..Len(encoding.read)
          /\ \A i \in DOMAIN encoding.read : Read[i] = encoding.read[i]
          /\ Read[Len(encoding.read) + 1] = source[Member].content
          /\ Member \in Files
      BY <3>1, MemberFacts DEF PacksInv, Shape, Encodes
    <3>3. source[Member].content = records[Member].content
      BY <1>2, <3>1, <3>2 DEF FilesAreRecorded, ReadsTheRecorded, Recorded, verify_source_unchanged
    <3>4. \A i \in DOMAIN encoding.read : encoding.read[i] = records[encoding.members[i]].content
      BY <1>2, <3>1 DEF ReadsTheRecorded, Encodes
    <3>5. CASE encoding'.read = <<>>
      BY <3>1, <3>5 DEF ReadsTheRecorded
    <3>6. CASE encoding' = [encoding EXCEPT !.read = Read]
      <4>1. encoding'.members = encoding.members /\ encoding'.read = Read
        BY <3>2, <3>6
      <4>2. DOMAIN Read = DOMAIN encoding.read \cup {Len(encoding.read) + 1}
        BY <3>2
      <4>3. \A i \in DOMAIN Read : Read[i] = records[encoding.members[i]].content
        BY <3>2, <3>3, <3>4, <4>2 DEF Member
      <4> QED
        BY <3>1, <4>1, <4>3 DEF ReadsTheRecorded
    <3>7. encoding'.read = <<>> \/ encoding' = [encoding EXCEPT !.read = Read]
      BY <1>3, <2>3, <3>2 DEF read_member, Fails
    <3> QED
      BY <3>5, <3>6, <3>7
  <2>4. CASE next_object
    <3>1. encoding'.read = <<>> /\ pc' = "check"
      BY <1>3, <2>4 DEF next_object, NoCall
    <3> QED
      BY <3>1 DEF ReadsTheRecorded
  <2>5. CASE Around
    <3>1. pc' = pc /\ encoding' = encoding /\ records' = records
      BY <2>5, AroundFacts
    <3>2. pc = "read" => source'[Member] = source[Member]
      <4>1. CASE \E f \in Files : Edit(f)
        <5>1. PICK f \in Files : Edit(f)
          BY <4>1
        <5>2. pc = "read" => Member # f /\ Member \in Files
          BY <5>1, EditFacts, MemberFacts DEF BeingRead, Encodes
        <5> QED
          BY <5>1, <5>2, EditFacts
      <4> QED
        BY <2>5, <4>1 DEF Around, clear_transfer, vars, world
    <3>3. \A i \in DOMAIN encoding.read : encoding.read[i] = records[encoding.members[i]].content
      BY <1>2, <1>3, <3>1 DEF ReadsTheRecorded, Encodes
    <3> QED
      BY <1>2, <1>3, <3>1, <3>2, <3>3 DEF ReadsTheRecorded, verify_source_unchanged, Member
  <2> QED
    BY <1>3, <2>1, <2>2, <2>3, <2>4, <2>5, Reaching
<1>4. CASE pc' = "send"
  <2>1. CASE next_part
    <3>1. objects' = objects /\ object' = object /\ source' = source /\ records' = records
      BY <2>1 DEF next_part, sqlite, world
    <3>2. ~objects[object].pack => verify_source_unchanged(objects[object].members[1])
      BY <1>4, <2>1 DEF next_part
    <3> QED
      BY <1>4, <3>1, <3>2 DEF ReadsTheRecorded, Encodes, verify_source_unchanged
  <2>2. CASE Around
    <3>1. pc' = pc /\ objects' = objects /\ object' = object /\ records' = records
      BY <2>2, AroundFacts
    <3>2. ~objects[object].pack => source'[objects[object].members[1]] = source[objects[object].members[1]]
      <4>1. CASE \E f \in Files : Edit(f)
        <5>1. PICK f \in Files : Edit(f)
          BY <4>1
        <5>2. objects[object].members[1] \in Files
          BY <1>4, <3>1, ObjectIsAFile, ObjectFacts DEF PacksInv, Placed, Sends
        <5>3. ~objects[object].pack => objects[object].members[1] # f
          BY <1>4, <3>1, <5>1, EditFacts DEF BeingRead
        <5> QED
          BY <5>1, <5>2, <5>3, EditFacts
      <4> QED
        BY <2>2, <4>1 DEF Around, clear_transfer, vars, world
    <3>3. ~objects[object].pack => verify_source_unchanged(objects[object].members[1])
      BY <1>2, <1>4, <3>1 DEF ReadsTheRecorded
    <3> QED
      BY <1>4, <3>1, <3>2, <3>3 DEF ReadsTheRecorded, Encodes, verify_source_unchanged
  <2>3. next_part \/ Around
    BY <1>4, Reaching DEF next_object, pack_encoded, send_part, mark_file_uploaded
  <2> QED
    BY <2>1, <2>2, <2>3
<1>5. CASE pc' \notin {"check", "read", "encoded", "send"}
  BY <1>5 DEF ReadsTheRecorded, Encodes
<1> QED
  BY <1>3, <1>4, <1>5

(* Once there is an object, the inventory's records stay. *)
LEMMA RecordsAreKept ==
  ASSUME PacksInv, [Next]_vars, objects # <<>>
  PROVE  records' = records
  BY Frames DEF PacksInv, Placed, stat_file, hash_file

LEMMA CachesTheRecordedNext ==
  ASSUME PacksInv, [Next]_vars, ~hidden'
  PROVE  CachesTheRecorded'
<1>1. ~hidden /\ packs \in [Files -> Seq(Contents)] /\ \A o \in DOMAIN objects : o \in Files
  BY Frames, ObjectFacts DEF Edit, PacksInv, Shape
<1>2. ReadsTheRecorded /\ \A o \in DOMAIN objects : packs[o] # NoPack => HasContents(records, objects[o].members, packs[o])
  BY <1>1 DEF PacksInv, HoldsTheRecorded, CachesTheRecorded
<1>3. CASE group_encoded
  <2>1. /\ DOMAIN objects' = DOMAIN objects \cup {object} /\ object \notin DOMAIN objects
        /\ \A o \in DOMAIN objects : objects'[o] = objects[o]
        /\ objects'[object].members = encoding.members
        /\ packs'[object] \in {encoding.read, NoPack}
        /\ Len(encoding.read) = Len(encoding.members)
        /\ pc = "encoded"
    BY <1>3, GroupEncodedFacts
  <2>2. records' = records
    BY <1>3 DEF group_encoded
  <2>3. \A i \in 1..Len(encoding.read) : encoding.read[i] = records[encoding.members[i]].content
    BY <1>2, <2>1, MemberFacts DEF ReadsTheRecorded, Encodes
  <2>4. HasContents(records, encoding.members, encoding.read)
    BY <2>1, <2>3 DEF HasContents
  <2>5. \A o \in DOMAIN objects : packs'[o] = packs[o]
    BY <1>1, <1>3, <2>1 DEF group_encoded
  <2> QED
    BY <1>2, <2>1, <2>2, <2>4, <2>5 DEF CachesTheRecorded
<1>4. CASE pack_encoded
  <2>1. /\ object \in DOMAIN objects /\ object \in Files /\ objects' = objects /\ records' = records
        /\ encoding.members = objects[object].members /\ Len(encoding.read) = Len(encoding.members)
        /\ packs' \in {packs, [packs EXCEPT ![object] = encoding.read]} /\ pc = "encoded"
    BY <1>4, ObjectIsAFile DEF pack_encoded, PacksInv, EncodesTheObject, Encodes, Inventorying, sqlite
  <2>2. \A i \in 1..Len(encoding.read) : encoding.read[i] = records[encoding.members[i]].content
    BY <1>2, <2>1, MemberFacts DEF ReadsTheRecorded, Encodes
  <2>3. HasContents(records, objects[object].members, encoding.read)
    BY <2>1, <2>2 DEF HasContents
  <2>4. \A o \in Files : packs'[o] = packs[o] \/ (o = object /\ packs'[o] = encoding.read)
    BY <1>1, <2>1
  <2> QED
    BY <1>1, <1>2, <2>1, <2>3, <2>4 DEF CachesTheRecorded
<1>5. CASE next_object \/ object_uploaded \/ clear_transfer
  <2>1. objects' = objects /\ records' = records
    BY <1>5 DEF next_object, object_uploaded, clear_transfer, sqlite
  <2>2. \A o \in Files : packs'[o] \in {packs[o], NoPack}
    BY <1>5, PacksFell, PlanIsKept
  <2> QED
    BY <1>1, <1>2, <2>1, <2>2 DEF CachesTheRecorded
<1>6. CASE packs' = packs /\ ~group_encoded
  <2>1. objects' = objects
    BY <1>6, Frames
  <2>2. CASE objects = <<>>
    BY <2>1, <2>2 DEF CachesTheRecorded
  <2>3. CASE objects # <<>>
    BY <1>2, <1>6, <2>1, <2>3, RecordsAreKept DEF CachesTheRecorded
  <2> QED
    BY <2>2, <2>3
<1> QED
  BY <1>3, <1>4, <1>5, <1>6, Frames

LEMMA StoresTheRecordedNext ==
  ASSUME PacksInv, [Next]_vars, ~hidden'
  PROVE  StoresTheRecorded'
<1>1. ~hidden /\ stored \in [Files -> Seq(Seq(Contents))] /\ \A o \in DOMAIN objects : o \in Files
  BY Frames, ObjectFacts DEF Edit, PacksInv, Shape
<1>2. /\ FilesAreRecorded /\ ReadsTheRecorded /\ CachesTheRecorded
      /\ \A o \in DOMAIN objects : \A p \in DOMAIN stored[o] : HasContents(records, objects[o].members, stored[o][p])
  BY <1>1 DEF PacksInv, HoldsTheRecorded, StoresTheRecorded
<1>3. CASE send_part
  <2>1. objects' = objects /\ records' = records /\ pc = "send" /\ object \in DOMAIN objects /\ object \in Files
    BY <1>3, ObjectIsAFile DEF send_part, sqlite, Sends, PacksInv, Placed
  <2>2. CASE status = "planned"
    <3> DEFINE new == IF objects[object].pack THEN packs[object]
                      ELSE <<source[objects[object].members[1]].content>>
    <3>1. stored' = [stored EXCEPT ![object] = Append(stored[object], new)]
      BY <1>3, <2>2 DEF send_part
    <3>2. HasContents(records, objects[object].members, new)
      <4>1. CASE objects[object].pack
        BY <1>2, <2>1, <2>2, <4>1 DEF PacksInv, SendsAsPlanned, CachesTheRecorded
      <4>2. CASE ~objects[object].pack
        <5>1. Len(objects[object].members) = 1 /\ objects[object].members[1] \in Files
          BY <2>1, <4>2, ObjectFacts DEF PacksInv, AsGrouped
        <5>2. source[objects[object].members[1]].content = records[objects[object].members[1]].content
          BY <1>2, <2>1, <4>2, <5>1 DEF FilesAreRecorded, ReadsTheRecorded, Recorded, verify_source_unchanged
        <5> QED
          BY <4>2, <5>1, <5>2 DEF HasContents
      <4> QED
        BY <4>1, <4>2
    <3> HIDE DEF new
    <3>3. /\ \A o \in Files : o # object => stored'[o] = stored[o]
          /\ stored'[object] = Append(stored[object], new)
      BY <1>1, <2>1, <3>1
    <3>4. \A p \in DOMAIN stored'[object] : stored'[object][p] = new
              \/ (p \in DOMAIN stored[object] /\ stored'[object][p] = stored[object][p])
      <4>1. stored[object] \in Seq(Seq(Contents))
        BY <1>1, <2>1
      <4> QED
        BY <3>3, <4>1
    <3>5. ASSUME NEW o \in DOMAIN objects, NEW p \in DOMAIN stored'[o]
          PROVE  HasContents(records, objects[o].members, stored'[o][p])
      <4>1. CASE o = object
        BY <1>2, <3>2, <3>4, <4>1
      <4>2. CASE o # object
        BY <1>1, <1>2, <3>3, <4>2
      <4> QED
        BY <4>1, <4>2
    <3> QED
      BY <2>1, <3>5 DEF StoresTheRecorded
  <2>3. CASE status # "planned"
    <3>1. stored' = stored
      BY <1>3, <2>3 DEF send_part
    <3> QED
      BY <1>2, <2>1, <3>1 DEF StoresTheRecorded
  <2> QED
    BY <2>2, <2>3
<1>4. CASE group_encoded
  <2>1. stored' = stored /\ Inventorying
    BY <1>4 DEF group_encoded, Inventorying
  <2>2. \A o \in DOMAIN objects' : stored[o] = <<>>
    <3>1. \A o \in DOMAIN objects' : o \in Files
      BY <1>4, GroupEncodedFacts, ObjectFacts, PlanFacts DEF PacksInv, Shape
    <3> QED
      BY <2>1, <3>1 DEF PacksInv, NothingStored
  <2> QED
    BY <2>1, <2>2 DEF StoresTheRecorded
<1>5. CASE ~send_part /\ ~group_encoded
  <2>1. stored' = stored /\ objects' = objects
    BY <1>5, Frames
  <2>2. CASE objects = <<>>
    BY <2>1, <2>2 DEF StoresTheRecorded
  <2>3. CASE objects # <<>>
    BY <1>2, <2>1, <2>3, RecordsAreKept DEF StoresTheRecorded
  <2> QED
    BY <2>2, <2>3
<1> QED
  BY <1>3, <1>4, <1>5

LEMMA HoldsTheRecordedNext ==
  ASSUME PacksInv, [Next]_vars
  PROVE  HoldsTheRecorded'
  BY FilesAreRecordedNext, ReadsTheRecordedNext, CachesTheRecordedNext, StoresTheRecordedNext DEF HoldsTheRecorded

LEMMA MarksNext ==
  ASSUME PacksInv, [Next]_vars
  PROVE  Marks'
<1> SUFFICES ASSUME ~Inventorying', pc' # "idle" PROVE Marks'
  BY DEF Marks
<1>1. file \in Nat \ {0}
  BY DEF PacksInv, Shape
<1>2. ~Inventorying /\ pc # "idle" => Marks /\ Ordered
  BY DEF PacksInv, Placed
<1>3. ~Inventorying /\ pc # "idle" =>
         \A j \in 1..(file - 1) : j \in DOMAIN order => ToSet(objects[order[j]].members) \subseteq marked
  BY DEF PacksInv, Marks, IsMarked
<1>4. CASE start_upload
  <2>1. file' = 1 /\ pc' = "object"
    BY <1>4 DEF start_upload
  <2> QED
    BY <2>1 DEF Marks, Encodes
<1>5. CASE skip_object
  <2>1. /\ file' = file + 1 /\ pc' = "object" /\ objects' = objects /\ order' = order /\ marked' = marked
        /\ ~Inventorying /\ pc # "idle" /\ ToSet(objects[order[file]].members) \subseteq marked
    BY <1>5 DEF skip_object, Skipped, Candidate, sqlite, PacksInv, Placed, Inventorying
  <2>2. \A j \in 1..file : j \in 1..(file - 1) \/ j = file
    BY <1>1
  <2>3. file' - 1 = file
    BY <1>1, <2>1
  <2> QED
    BY <1>3, <2>1, <2>2, <2>3 DEF Marks, IsMarked, Encodes
<1>6. CASE next_object
  <2>1. /\ pc = "object" /\ ~Inventorying /\ objects' = objects /\ order' = order /\ file' = file /\ marked' = marked
        /\ object' = Candidate /\ ~IsMarked(Candidate)
    BY <1>6, NextObjectFacts DEF Inventorying
  <2>2. pc' # "uploaded"
    BY <1>6 DEF next_object
  <2> QED
    BY <1>3, <2>1, <2>2 DEF Marks, IsMarked
<1>7. CASE next_part
  <2>1. /\ pc = "part" /\ ~Inventorying /\ objects' = objects /\ order' = order /\ file' = file /\ marked' = marked
        /\ object' = object /\ marks' = objects[object].members /\ ~IsMarked(object)
    BY <1>7 DEF next_part, sqlite, PacksInv, Placed, Inventorying, Sends, Marks
  <2> QED
    BY <1>3, <2>1 DEF Marks, IsMarked
<1>8. CASE mark_file_uploaded
  <2>1. /\ pc = "uploaded" /\ pc' = "uploaded" /\ ~Inventorying /\ objects' = objects /\ order' = order /\ file' = file
        /\ object' = object /\ marks # <<>> /\ marks' = Tail(marks) /\ marked' = marked \cup {Head(marks)}
        /\ ToSet(objects[object].members) \subseteq marked \cup ToSet(marks)
    BY <1>8 DEF mark_file_uploaded, PacksInv, Placed, Inventorying, Sends, Marks
  <2>2. ToSet(marks) \subseteq {Head(marks)} \cup ToSet(Tail(marks))
    <3>1. marks \in Seq(Files)
      BY DEF PacksInv, Shape
    <3>2. ASSUME NEW i \in 1..Len(marks), i # 1
          PROVE  i - 1 \in 1..Len(Tail(marks)) /\ Tail(marks)[i - 1] = marks[i]
      BY <2>1, <3>1, <3>2
    <3>3. ASSUME NEW i \in 1..Len(marks) PROVE marks[i] \in {Head(marks)} \cup ToSet(Tail(marks))
      <4>1. CASE i = 1
        BY <2>1, <3>1, <4>1
      <4>2. CASE i # 1
        <5>1. DOMAIN Tail(marks) = 1..Len(Tail(marks))
          BY <2>1, <3>1
        <5> QED
          BY <3>2, <4>2, <5>1 DEF ToSet
      <4> QED
        BY <4>1, <4>2
    <3>4. DOMAIN marks = 1..Len(marks)
      BY <3>1
    <3> QED
      BY <3>3, <3>4 DEF ToSet
  <2>3. ToSet(objects'[object'].members) \subseteq marked' \cup ToSet(marks')
    BY <2>1, <2>2
  <2> QED
    BY <1>3, <2>1, <2>3 DEF Marks, IsMarked, Encodes
<1>9. CASE object_uploaded
  <2>1. /\ pc = "uploaded" /\ ~Inventorying /\ objects' = objects /\ order' = order /\ marked' = marked
        /\ marks = <<>> /\ ToSet(objects[object].members) \subseteq marked \cup ToSet(marks)
        /\ pc' = "object" /\ file' = file + 1 /\ object = order[file]
    BY <1>9 DEF object_uploaded, sqlite, PacksInv, Placed, Inventorying, Sends, Marks
  <2>2. ToSet(objects[order[file]].members) \subseteq marked
    BY <2>1 DEF ToSet
  <2>3. \A j \in 1..file : j \in 1..(file - 1) \/ j = file
    BY <1>1
  <2>4. file' - 1 = file
    BY <1>1, <2>1
  <2> QED
    BY <1>3, <2>1, <2>2, <2>3, <2>4 DEF Marks, IsMarked, Encodes
<1>10. CASE check_member \/ read_member \/ send_part \/ Around
  <2>1. /\ pc # "idle" /\ ~Inventorying /\ objects' = objects /\ order' = order /\ marked' = marked
        /\ file' = file /\ object' = object
    <3>1. CASE check_member \/ read_member
      BY <3>1 DEF check_member, read_member, Fails, Inventorying
    <3>2. CASE send_part
      BY <3>2 DEF send_part, sqlite, Inventorying
    <3>3. CASE Around
      <4>1. pc' = pc /\ objects' = objects /\ order' = order /\ marked' = marked /\ file' = file /\ object' = object
        BY <3>3, AroundFacts
      <4>2. ~Inventorying
        BY <3>3, <4>1 DEF Around, clear_transfer, Edit, vars, sqlite, Inventorying
      <4> QED
        BY <4>1, <4>2
    <3> QED
      BY <1>10, <3>1, <3>2, <3>3
  <2>2. pc' \in {"check", "read", "encoded", "part", "send"} => pc \in {"check", "read", "encoded", "part", "send"}
    BY <1>10, AroundFacts DEF check_member, read_member, send_part, Fails
  <2>3. pc' = "uploaded" => pc = "uploaded" /\ marks' = marks
    BY <1>10, AroundFacts DEF check_member, read_member, send_part, Fails
  <2> QED
    BY <1>2, <1>3, <2>1, <2>2, <2>3 DEF Marks, IsMarked, Encodes
<1>11. CASE pack_encoded
  <2>1. /\ pc = "encoded" /\ pc' = "part" /\ ~Inventorying /\ objects' = objects /\ order' = order /\ marked' = marked
        /\ file' = file /\ object' = object
    BY <1>11 DEF pack_encoded, sqlite, Inventorying
  <2> QED
    BY <1>2, <1>3, <2>1 DEF Marks, IsMarked, Encodes
<1>12. ~ (Inventory \/ finalize \/ Crash)
  <2>1. ~ (stat_file \/ hash_file \/ next_group \/ group_encoded)
    BY DEF stat_file, hash_file, next_group, group_encoded, sqlite, PacksInv, Placed, Inventorying, Encode
  <2> QED
    BY <2>1 DEF Inventory, replace_transport_plan, finalize, Crash
<1> QED
  BY <1>4, <1>5, <1>6, <1>7, <1>8, <1>9, <1>10, <1>11, <1>12 DEF Next, Courier, Encoding, Upload, Around

(* Counted packs are packs, and they change only with them. *)
LEMMA CountedFits ==
  ASSUME NEW ks, NEW obs, NEW pks, PacksFitObjects(ks, obs, pks), NEW cut
  PROVE  PacksFitObjects(ks, obs, [o \in DOMAIN ks |-> IF o \in cut THEN NoPack ELSE pks[o]])
<1>1. NoPack \in Seq(Contents)
  BY DEF NoPack
<1> DEFINE cs == [o \in DOMAIN ks |-> IF o \in cut THEN NoPack ELSE pks[o]]
<1>2. cs \in [DOMAIN ks -> Seq(Contents)] /\ \A o \in DOMAIN ks : cs[o] # NoPack => cs[o] = pks[o]
  BY <1>1 DEF PacksFitObjects
<1> HIDE DEF cs
<1>3. PacksFitObjects(ks, obs, cs)
  BY <1>2 DEF PacksFitObjects
<1> QED
  BY <1>3 DEF cs

LEMMA CountedStays ==
  ASSUME kinds' = kinds, packs' = packs, unremoved' = unremoved
  PROVE  Counted' = Counted
  BY DEF Counted

LEMMA CountedFacts ==
  ASSUME PacksInv, [Next]_vars
  PROVE  /\ PacksFitObjects(kinds, objects, Counted) /\ PacksFitObjects(kinds, objects', Counted')
         /\ \A o \in Files : /\ Counted[o] = IF o \in unremoved THEN NoPack ELSE packs[o]
                             /\ Counted'[o] = IF o \in unremoved' THEN NoPack ELSE packs'[o]
<1>1. kinds' = kinds /\ PacksFitObjects(kinds, objects, packs) /\ PacksFitObjects(kinds, objects', packs')
  BY PlanIsKept, PacksFitObjectsNext DEF PacksInv
<1> QED
  BY <1>1, CountedFits DEF Counted, Files

LEMMA ClearedIsEmptyNext ==
  ASSUME PacksInv, [Next]_vars
  PROVE  ClearedIsEmpty'
<1> SUFFICES ASSUME status' = "cleared", ~clearedBusy' PROVE ClearedIsEmpty'
  BY DEF ClearedIsEmpty
<1>1. Files' = Files
  BY PlanIsKept DEF Files
<1>2. CASE clear_transfer
  <2>1. pc = "idle"
    BY <1>2, Zenon DEF clear_transfer, Uploading
  <2>2. pc' = "idle" /\ packs' = [o \in Files |-> NoPack] /\ temps' = [o \in Files |-> NoTemp]
        /\ strays' = [o \in Files |-> NoTemp]
    BY <1>2, <2>1 DEF clear_transfer, code, remove_transfer_pack_directory
  <2> QED
    BY <1>1, <2>2 DEF ClearedIsEmpty, EmptyCache
<1>3. CASE ~clear_transfer
  <2>1. status = "cleared" /\ clearedBusy' = clearedBusy
    BY <1>3, Frames DEF check_member, read_member, Fails, replace_transport_plan, finalize
  <2>2. pc = "idle" /\ EmptyCache
    BY <2>1, Zenon DEF PacksInv, ClearedIsEmpty
  <2>3. pc' = "idle" /\ packs' = packs /\ temps' = temps /\ strays' = strays
    BY <1>3, <2>1, <2>2 DEF Next, vars, code, cache, left, Courier, Inventory, Encoding, Upload, stat_file, hash_file,
         next_group, group_encoded, replace_transport_plan, check_member, read_member, start_upload, skip_object,
         next_object, pack_encoded, next_part, send_part, mark_file_uploaded, object_uploaded, finalize,
         Crash, Edit
  <2> QED
    BY <1>1, <2>2, <2>3 DEF ClearedIsEmpty, EmptyCache
<1> QED
  BY <1>2, <1>3

LEMMA PackTotalIsNat ==
  ASSUME PacksInv
  PROVE  /\ PackTotal \in Nat
         /\ NoPacks => PackTotal = 0
<1> DEFINE row == PackRow(kinds, objects, Counted)
<1>0. PacksFitObjects(kinds, objects, Counted)
  BY CountedFits DEF PacksInv, Counted
<1>1. /\ row \in Seq(Nat) /\ Len(row) = Len(kinds) /\ DOMAIN kinds = 1..Len(kinds)
      /\ \A o \in DOMAIN kinds : row[o] = IF Counted[o] = NoPack THEN 0
                                            ELSE SizeOf(kinds, objects[o].members, Counted[o])
  BY <1>0, PackRowType DEF PacksInv, Shape
<1> HIDE DEF row
<1>2. NoPacks => \A o \in 1..Len(row) : row[o] = 0
  BY <1>1 DEF NoPacks, Files
<1> QED
  BY <1>1, <1>2, TotalIsNat, TotalOfNothing DEF PackTotal, row

(* Of the packs that are counted, some are removed. *)
LEMMA PackTotalFell ==
  ASSUME PacksInv, [Next]_vars, objects' = objects, \A o \in Files : Counted'[o] \in {Counted[o], NoPack}
  PROVE  PackTotal' \in Nat /\ PackTotal' <= PackTotal
<1> DEFINE C == Counted'
<1>1. /\ kinds' = kinds /\ kinds \in Sources /\ PacksFitObjects(kinds, objects, Counted)
      /\ PacksFitObjects(kinds, objects, C) /\ Files = DOMAIN kinds
  BY PlanIsKept, CountedFacts DEF PacksInv, Shape, Files
<1>2. \A o \in DOMAIN kinds : C[o] = NoPack \/ C[o] = Counted[o]
  BY <1>1
<1> HIDE DEF C
<1>3. Total(PackRow(kinds, objects, C)) <= Total(PackRow(kinds, objects, Counted))
  BY <1>1, <1>2, PackTotalFalls
<1>4. Total(PackRow(kinds, objects, C)) \in Nat
  BY <1>1, PackRowType, TotalIsNat
<1> QED
  BY <1>1, <1>3, <1>4 DEF PackTotal, C

LEMMA CacheWhileInventoryingNext ==
  ASSUME PacksInv, [Next]_vars
  PROVE  CacheWhileInventorying'
<1> SUFFICES ASSUME Inventorying' PROVE CacheWhileInventorying'
  BY DEF CacheWhileInventorying
<1>1. Inventorying
  BY Frames DEF Inventorying, check_member, read_member, Fails, replace_transport_plan, finalize, clear_transfer
<1>2. /\ kinds' = kinds /\ Files' = Files /\ plan_packs' = plan_packs /\ kinds \in Sources
      /\ Budget \in Nat /\ cachedBytes \in Nat /\ forgotten \in Nat /\ PackTotal \in Nat
      /\ packs \in [Files -> Seq(Contents)] /\ temps \in [Files -> Seq(Nat)]
      /\ DOMAIN kinds = Files
  BY PlanIsKept, PackTotalIsNat, TransportAssumption DEF PacksInv, Shape, Files
<1>3. /\ PackTotal <= cachedBytes + forgotten /\ cachedBytes <= Budget
      /\ Encodes => encoding.limit = Monus(Budget, cachedBytes)
      /\ \A o \in Files : temps[o] # NoTemp => /\ pc = "idle" \/ (Encodes /\ o = object /\ encoding.staging)
                                               /\ temps[o][1] + cachedBytes <= Budget
      /\ \A o, p \in Files : temps[o] # NoTemp /\ temps[p] # NoTemp => o = p
  BY <1>1 DEF PacksInv, CacheWhileInventorying
<1>c. packs' = packs /\ unremoved' = unremoved /\ objects' = objects => PackTotal' = PackTotal
  BY <1>2, CountedStays DEF PackTotal
<1> HIDE DEF Files
<1>4. CASE stat_file \/ hash_file
  <2>1. /\ objects' = objects /\ packs' = packs /\ unremoved' = unremoved
        /\ temps' = temps /\ cachedBytes' = cachedBytes /\ forgotten' = forgotten
        /\ pc \in {"stat", "hash"} /\ pc' \notin {"check", "read", "encoded", "idle"}
    BY <1>4 DEF stat_file, hash_file, cache, left, count
  <2> QED
    BY <1>2, <1>3, <1>c, <2>1 DEF CacheWhileInventorying, Encodes
<1>5. CASE next_group
  <2> DEFINE limit == Monus(Budget, cachedBytes)
  <2>1. /\ objects' = objects /\ packs' = packs /\ unremoved' = unremoved
        /\ cachedBytes' = cachedBytes /\ forgotten' = forgotten
        /\ pc = "group" /\ pc' = "check" /\ object' = object /\ object \in DOMAIN plan_packs
        /\ encoding'.limit = limit /\ encoding'.staging = (limit > 0)
        /\ temps' = [temps EXCEPT ![object] = IF limit > 0 THEN Temp(0) ELSE NoTemp]
    BY <1>5 DEF next_group, Encode, sqlite, left, count
  <2>2. object \in Files /\ \A o \in Files : temps[o] = NoTemp
    BY <1>2, <1>3, <1>c, <2>1, PlanFacts DEF Encodes
  <2>3. limit + cachedBytes <= Budget
    BY <1>2, <1>3 DEF Monus
  <2> HIDE DEF limit
  <2>4. \A o \in Files : temps'[o] # NoTemp => o = object /\ limit > 0 /\ temps'[o] = Temp(0)
    BY <1>2, <2>1, <2>2
  <2>5. Temp(0)[1] = 0
    BY DEF Temp
  <2>6. 0 + cachedBytes <= Budget
    BY <1>2, <1>3
  <2> QED
    BY <1>2, <1>3, <1>c, <2>1, <2>4, <2>5, <2>6 DEF CacheWhileInventorying, Encodes, limit
<1>6. CASE check_member
  <2>1. /\ objects' = objects /\ packs' = packs /\ unremoved' = unremoved
        /\ cachedBytes' = cachedBytes /\ forgotten' = forgotten
        /\ pc = "check" /\ pc' = "read" /\ object' = object /\ encoding' = encoding /\ temps' = temps
    BY <1>1, <1>6 DEF check_member, Fails, Inventorying, count
  <2> QED
    BY <1>2, <1>3, <1>c, <2>1 DEF CacheWhileInventorying, Encodes
<1>7. CASE read_member
  <2>1. /\ objects' = objects /\ packs' = packs /\ unremoved' = unremoved
        /\ cachedBytes' = cachedBytes /\ forgotten' = forgotten
        /\ pc = "read" /\ pc' \in {"check", "encoded"} /\ object' = object
    BY <1>1, <1>7 DEF read_member, Fails, Inventorying, count
  <2>2. /\ encoding \in [staging : BOOLEAN, members : Seq(Files), read : Seq(Contents), limit : Nat]
        /\ object \in Files /\ ReadSize \in Nat /\ encoding.limit = Monus(Budget, cachedBytes)
    BY <1>3, <2>1, ObjectIsAFile, EncodedFacts DEF PacksInv, Shape, Encodes
  <2>3. \A o \in Files : temps[o] # NoTemp => o = object /\ encoding.staging /\ temps[o][1] + cachedBytes <= Budget
    BY <1>3, <2>1
  <2>4. CASE encoding' = [encoding EXCEPT !.staging = FALSE, !.read = <<>>] /\ temps' = [temps EXCEPT ![object] = NoTemp]
    <3>1. encoding'.limit = encoding.limit
      BY <2>2, <2>4
    <3>2. \A o \in Files : temps'[o] = NoTemp
      BY <1>2, <2>2, <2>3, <2>4
    <3> QED
      BY <1>2, <1>3, <1>c, <2>1, <2>2, <3>1, <3>2 DEF CacheWhileInventorying, Encodes
  <2>5. CASE /\ encoding.staging => ~Exceeds
             /\ encoding' = [encoding EXCEPT !.read = Read]
             /\ temps' = [temps EXCEPT ![object] = IF temps[object] = NoTemp THEN NoTemp ELSE Temp(ReadSize)]
    <3>1. encoding'.limit = encoding.limit /\ encoding'.staging = encoding.staging
      BY <2>2, <2>5
    <3>2. encoding.staging => ReadSize + cachedBytes <= Budget
      <4>1. encoding.staging => ReadSize <= Monus(Budget, cachedBytes)
        BY <2>2, <2>5, <1>2 DEF Exceeds, Monus
      <4> QED
        BY <1>2, <1>3, <2>2, <4>1 DEF Monus
    <3>3. \A o \in Files : temps'[o] # NoTemp => o = object /\ encoding.staging /\ temps'[o] = Temp(ReadSize)
      BY <1>2, <2>2, <2>3, <2>5
    <3>4. Temp(ReadSize)[1] = ReadSize
      BY DEF Temp
    <3> HIDE DEF Temp, NoTemp
    <3> QED
      BY <1>2, <1>3, <1>c, <2>1, <2>2, <3>1, <3>2, <3>3, <3>4 DEF CacheWhileInventorying, Encodes
  <2> QED
    BY <1>1, <1>7, <2>4, <2>5 DEF read_member, RemoveTemp, Fails, Inventorying
<1>8. CASE group_encoded
  <2>1. /\ DOMAIN objects' = DOMAIN objects \cup {object} /\ object \notin DOMAIN objects
        /\ \A o \in DOMAIN objects : objects'[o] = objects[o]
        /\ objects'[object].members = encoding.members
        /\ packs'[object] \in {NoPack, encoding.read}
        /\ ~(objects'[object].pack /\ encoding.staging) => packs'[object] = NoPack \/ object \in unremoved'
        /\ \A o \in Files : o # object => packs'[o] = packs[o] /\ (o \in unremoved' <=> o \in unremoved)
        /\ Len(encoding.read) = Len(encoding.members)
        /\ pc = "encoded" /\ pc' = "group" /\ object \in Files
    BY <1>2, <1>8, GroupEncodedFacts, PlanFacts
  <2>2. Encoded = SizeOf(kinds, encoding.members, encoding.read) /\ Encoded \in Nat
        /\ encoding.limit = Monus(Budget, cachedBytes)
        /\ (encoding.staging => Encoded <= encoding.limit)
        /\ encoding.staging \in BOOLEAN
    BY <1>3, <2>1, EncodedFacts, MemberFacts DEF Encodes, PacksInv, EncodesTheObject
  <2>3. PICK keep \in BOOLEAN :
           /\ Counted'[object] \in {NoPack, encoding.read}
           /\ ~(keep /\ encoding.staging) => Counted'[object] = NoPack
           /\ cachedBytes' = CASE encoding.staging /\ keep  -> cachedBytes + Encoded
                               [] encoding.staging /\ ~keep -> Monus(cachedBytes, Encoded)
                               [] OTHER                     -> cachedBytes
           /\ forgotten' = forgotten + Monus(cachedBytes, cachedBytes')
    <3>1. PICK keep \in BOOLEAN :
             /\ \/ packs' = [packs EXCEPT ![object] = IF keep /\ encoding.staging THEN encoding.read ELSE NoPack]
                \/ encoding.staging /\ ~keep /\ unremoved' = unremoved \cup {object}
             /\ cachedBytes' = CASE encoding.staging /\ keep  -> cachedBytes + Encoded
                                 [] encoding.staging /\ ~keep -> Monus(cachedBytes, Encoded)
                                 [] OTHER                     -> cachedBytes
             /\ forgotten' = forgotten + Monus(cachedBytes, cachedBytes')
      BY <1>8, Zenon DEF group_encoded
    <3>2. Counted'[object] = IF object \in unremoved' THEN NoPack ELSE packs'[object]
      BY <2>1, CountedFacts
    <3>3. ~(keep /\ encoding.staging) => packs'[object] = NoPack \/ object \in unremoved'
      BY <1>2, <2>1, <3>1
    <3> HIDE DEF NoPack
    <3> QED
      BY <2>1, <3>1, <3>2, <3>3
  <2>4. /\ \A o \in Files : o # object => Counted'[o] = Counted[o]
        /\ temps' = [temps EXCEPT ![object] = NoTemp]
    <3>1. \A o \in Files : o # object => Counted'[o] = Counted[o]
      BY <2>1, CountedFacts
    <3> QED
      BY <1>8, <3>1 DEF group_encoded
  <2> DEFINE C == Counted'
  <2>5. PackTotal' = PackTotal + (IF C[object] = NoPack THEN 0 ELSE SizeOf(kinds, encoding.members, C[object]))
    <3> DEFINE old == PackRow(kinds, objects, Counted)
               new == PackRow(kinds, objects', C)
    <3>1. PacksFitObjects(kinds, objects, Counted) /\ PacksFitObjects(kinds, objects', C)
      BY CountedFacts DEF C
    <3> HIDE DEF C
    <3>2. \A o \in Files : Counted[o] # NoPack => o \in DOMAIN objects
      BY <1>2, <3>1 DEF PacksFitObjects
    <3>3. \A o \in Files :
            /\ old[o] = IF Counted[o] = NoPack THEN 0 ELSE SizeOf(kinds, objects[o].members, Counted[o])
            /\ new[o] = IF C[o] = NoPack THEN 0 ELSE SizeOf(kinds, objects'[o].members, C[o])
      BY <1>2, <3>1, PackRowType
    <3> HIDE DEF old, new
    <3>4. \A o \in Files : o # object => new[o] = old[o]
      BY <2>1, <2>4, <3>2, <3>3 DEF C
    <3>5. Total(new) + old[object] = Total(old) + new[object]
      <4>1. /\ object \in DOMAIN kinds
            /\ \A p \in DOMAIN kinds :
                  p # object => PackRow(kinds, objects', C)[p] = PackRow(kinds, objects, Counted)[p]
        BY <1>2, <2>1, <3>4 DEF old, new
      <4> QED
        BY <1>2, <3>1, <4>1, PackTotalChanges DEF old, new
    <3>6. old[object] = 0
      BY <2>1, <3>2, <3>3
    <3>7. Total(new) \in Nat /\ Total(old) \in Nat
      BY <1>2, <3>1, PackRowType, TotalIsNat DEF old, new
    <3>8. new[object] = IF C[object] = NoPack THEN 0 ELSE SizeOf(kinds, encoding.members, C[object])
      BY <2>1, <3>3
    <3>9. new[object] \in Nat
      <4>1. new \in Seq(Nat) /\ Len(new) = Len(kinds) /\ DOMAIN kinds = 1..Len(kinds)
        BY <1>2, <3>1, PackRowType DEF new
      <4> QED
        BY <1>2, <2>1, <4>1
    <3>10. Total(new) = Total(old) + new[object]
      BY <3>5, <3>6, <3>7, <3>9
    <3> QED
      BY <1>2, <3>8, <3>10 DEF PackTotal, old, new, C
  <2>6. PackTotal' <= cachedBytes' + forgotten' /\ cachedBytes' <= Budget /\ cachedBytes' \in Nat /\ forgotten' \in Nat
    <3>1. CASE encoding.staging /\ keep
      <4>1. cachedBytes' = cachedBytes + Encoded /\ Encoded <= Monus(Budget, cachedBytes)
        BY <2>2, <2>3, <3>1
      <4>2. forgotten' = forgotten
        BY <1>2, <2>2, <2>3, <4>1 DEF Monus
      <4>3. PackTotal' <= PackTotal + Encoded /\ PackTotal' \in Nat
        BY <1>2, <2>2, <2>3, <2>5, <3>1
      <4>4. cachedBytes + Encoded <= Budget
        BY <1>2, <1>3, <2>2, <4>1 DEF Monus
      <4>5. PackTotal <= cachedBytes + forgotten
        BY <1>3
      <4> DEFINE e == Encoded
                 p == PackTotal
                 q == PackTotal'
      <4>6. /\ e \in Nat /\ p \in Nat /\ q \in Nat /\ q <= p + e /\ p <= cachedBytes + forgotten
            /\ cachedBytes' = cachedBytes + e /\ cachedBytes + e <= Budget
        BY <1>2, <2>2, <4>1, <4>3, <4>4, <4>5
      <4> HIDE DEF e, p, q
      <4>7. q <= cachedBytes' + forgotten' /\ cachedBytes' <= Budget /\ cachedBytes' \in Nat /\ forgotten' \in Nat
        BY <1>2, <4>2, <4>6
      <4> QED
        BY <4>7 DEF q
    <3>2. CASE ~(encoding.staging /\ keep)
      <4>1. PackTotal' = PackTotal
        BY <1>2, <2>3, <2>5, <3>2
      <4>2. cachedBytes' \in {cachedBytes, Monus(cachedBytes, Encoded)}
        BY <2>2, <2>3, <3>2
      <4>3. cachedBytes' \in Nat /\ cachedBytes' <= cachedBytes
        BY <1>2, <2>2, <4>2 DEF Monus
      <4>4. cachedBytes' + forgotten' = cachedBytes + forgotten /\ forgotten' \in Nat
        BY <1>2, <2>3, <4>3 DEF Monus
      <4> DEFINE p == PackTotal
                 q == PackTotal'
      <4>5. p \in Nat /\ q = p /\ p <= cachedBytes + forgotten /\ cachedBytes <= Budget
        BY <1>2, <1>3, <4>1
      <4> HIDE DEF p, q
      <4>6. Budget \in Nat /\ cachedBytes \in Nat /\ forgotten \in Nat
        BY <1>2
      <4>7. cachedBytes' <= Budget
        BY <4>3, <4>5, <4>6
      <4>8. q <= cachedBytes' + forgotten'
        BY <4>4, <4>5
      <4> QED
        BY <4>3, <4>4, <4>7, <4>8 DEF q
    <3> QED
      BY <3>1, <3>2
  <2>7. \A o \in Files : temps'[o] = NoTemp
    BY <1>2, <1>3, <1>c, <2>1, <2>4
  <2> QED
    BY <1>2, <2>1, <2>6, <2>7 DEF CacheWhileInventorying, Encodes
<1>9. CASE Crash
  <2>1. /\ objects' = objects /\ packs' = packs /\ unremoved' = unremoved
        /\ cachedBytes' = cachedBytes /\ forgotten' = forgotten
        /\ pc' = "idle" /\ temps' \in {temps, [o \in Files |-> NoTemp]}
    BY <1>9 DEF Crash, sqlite, count
  <2>2. \A o \in Files : temps'[o] # NoTemp => temps'[o] = temps[o]
    BY <2>1
  <2> QED
    BY <1>2, <1>3, <1>c, <2>1, <2>2 DEF CacheWhileInventorying, Encodes
<1>10. CASE (\E f \in Files : Edit(f)) \/ UNCHANGED vars
  <2>1. /\ objects' = objects /\ packs' = packs /\ unremoved' = unremoved
        /\ cachedBytes' = cachedBytes /\ forgotten' = forgotten
        /\ pc' = pc /\ object' = object /\ encoding' = encoding /\ temps' = temps
    BY <1>10 DEF Edit, vars, sqlite, cache, left, count, code
  <2> QED
    BY <1>2, <1>3, <1>c, <2>1 DEF CacheWhileInventorying, Encodes
<1>11. ~ (replace_transport_plan \/ Upload \/ clear_transfer)
  BY <1>1 DEF Inventorying, replace_transport_plan, Upload, clear_transfer, start_upload, skip_object,
              next_object, pack_encoded, next_part, send_part, mark_file_uploaded, object_uploaded, finalize,
              PacksInv, Placed, Sends
<1> QED
  BY <1>4, <1>5, <1>6, <1>7, <1>8, <1>9, <1>10, <1>11 DEF Next, Courier, Inventory, Encoding

(* The object that an upload comes to first is one object. *)
LEMMA NextIsUnique ==
  ASSUME PacksInv, Ordered, NEW o, NEW p, IsNext(o), IsNext(p)
  PROVE  o = p
<1>1. DOMAIN order \subseteq Nat
  BY ObjectFacts DEF PacksInv, Ordered
<1>2. PICK k \in DOMAIN order : order[k] = o /\ ~IsMarked(o) /\ \A j \in 1..(k - 1) : IsMarked(order[j])
  BY DEF IsNext
<1>3. PICK l \in DOMAIN order : order[l] = p /\ ~IsMarked(p) /\ \A j \in 1..(l - 1) : IsMarked(order[j])
  BY DEF IsNext
<1>4. k \in 1..Len(objects) /\ l \in 1..Len(objects) /\ Len(objects) \in Nat
  BY ObjectFacts DEF PacksInv, Ordered
<1>5. ~ k < l
  <2> SUFFICES ASSUME k < l PROVE FALSE
    OBVIOUS
  <2>1. k \in 1..(l - 1)
    BY <1>4
  <2> QED
    BY <1>2, <1>3, <2>1
<1>6. ~ l < k
  <2> SUFFICES ASSUME l < k PROVE FALSE
    OBVIOUS
  <2>1. l \in 1..(k - 1)
    BY <1>4
  <2> QED
    BY <1>2, <1>3, <2>1
<1>7. k = l
  BY <1>4, <1>5, <1>6
<1> QED
  BY <1>2, <1>3, <1>7

(* During an upload it is the one at which Courier is. *)
LEMMA ObjectIsNext ==
  ASSUME PacksInv, status # "inventorying"
  PROVE  /\ Encodes \/ pc \in {"part", "send"} => IsNext(object) /\ Ordered
         /\ next_object => IsNext(Candidate) /\ Ordered
<1>1. pc # "idle" => /\ Ordered
                     /\ \A j \in 1..(file - 1) : j \in DOMAIN order => IsMarked(order[j])
                     /\ Encodes \/ pc \in {"part", "send"} => ~IsMarked(object)
                     /\ Encodes \/ pc \in {"part", "send"} => file \in DOMAIN order /\ object = order[file]
  BY DEF PacksInv, Placed, Marks, Inventorying, Sends
<1>2. \A k \in DOMAIN order : Ordered => \A j \in 1..(k - 1) : j \in DOMAIN order
  <2> DEFINE L == Len(objects)
  <2>1. Ordered => DOMAIN order = 1..L /\ L \in Nat
    BY ObjectFacts DEF PacksInv, Ordered
  <2> HIDE DEF L
  <2> QED
    BY <2>1
<1>3. ASSUME Encodes \/ pc \in {"part", "send"} PROVE IsNext(object) /\ Ordered
  BY <1>1, <1>2, <1>3 DEF IsNext, Encodes
<1>4. ASSUME next_object PROVE IsNext(Candidate) /\ Ordered
  <2>1. file \in DOMAIN order /\ ~IsMarked(Candidate) /\ pc = "object" /\ Candidate = order[file]
    BY <1>4, NextObjectFacts DEF Candidate
  <2> QED
    BY <1>1, <1>2, <2>1 DEF IsNext
<1> QED
  BY <1>3, <1>4

LEMMA PackTotalAfterwards ==
  ASSUME PacksInv, [Next]_vars, status' # "inventorying"
  PROVE  PackTotal' <= Budget + forgotten'
<1>1. /\ kinds' = kinds /\ kinds \in Sources /\ DOMAIN kinds = Files
      /\ Budget \in Nat /\ cachedBytes \in Nat /\ forgotten \in Nat /\ PackTotal \in Nat
      /\ packs \in [Files -> Seq(Contents)]
  BY PlanIsKept, PackTotalIsNat, TransportAssumption DEF PacksInv, Shape, Files
<1>2. ~group_encoded
  BY DEF group_encoded
<1>3. objects' = objects /\ forgotten' = forgotten
  BY <1>2, Frames
<1>4. PackTotal <= Budget + forgotten
  <2> DEFINE p == PackTotal
  <2>1. CASE Inventorying
    <3>1. p <= cachedBytes + forgotten /\ cachedBytes <= Budget /\ p \in Nat
      BY <1>1, <2>1 DEF PacksInv, CacheWhileInventorying
    <3> HIDE DEF p
    <3>2. p <= Budget + forgotten
      BY <1>1, <3>1
    <3> QED
      BY <3>2 DEF p
  <2>2. CASE ~Inventorying
    BY <2>2 DEF PacksInv, CacheAfterwards
  <2> QED
    BY <2>1, <2>2
<1>c. /\ PacksFitObjects(kinds, objects, Counted) /\ PacksFitObjects(kinds, objects', Counted')
      /\ \A o \in Files : /\ Counted[o] = IF o \in unremoved THEN NoPack ELSE packs[o]
                          /\ Counted'[o] = IF o \in unremoved' THEN NoPack ELSE packs'[o]
  BY CountedFacts
<1> HIDE DEF Files
<1>5. CASE \A o \in Files : Counted'[o] \in {Counted[o], NoPack}
  <2> DEFINE p == PackTotal
             q == PackTotal'
  <2>1. q \in Nat /\ q <= p /\ p \in Nat /\ p <= Budget + forgotten
    BY <1>1, <1>3, <1>4, <1>5, PackTotalFell
  <2> HIDE DEF p, q
  <2>2. q <= Budget + forgotten
    BY <1>1, <2>1
  <2> QED
    BY <1>3, <2>2 DEF q
<1>6. CASE pack_encoded
  <2>1. /\ object \in Files /\ packs' \in {packs, [packs EXCEPT ![object] = encoding.read]}
        /\ unremoved' \in {unremoved, unremoved \cup {object}} /\ Encodes /\ ~Inventorying /\ object \in DOMAIN objects
    BY <1>6, ObjectIsAFile DEF pack_encoded, Encodes, Inventorying
  <2>2. \A o \in Files : Counted[o] = NoPack
    BY <2>1 DEF PacksInv, CacheAfterwards, NoPacks
  <2>3. Counted'[object] \in {NoPack, encoding.read} /\ \A o \in Files : o # object => Counted'[o] = NoPack
    <3>1. packs'[object] \in {packs[object], encoding.read} /\ \A o \in Files : o # object => packs'[o] = packs[o]
      BY <1>1, <2>1
    <3>2. unremoved \subseteq unremoved' /\ \A o \in Files : o # object => (o \in unremoved' <=> o \in unremoved)
      BY <2>1
    <3> QED
      BY <1>c, <2>1, <2>2, <3>1, <3>2
  <2>4. encoding.members = objects[object].members
    BY <2>1 DEF PacksInv, EncodesTheObject
  <2>a. encoding.staging \/ packs' = packs
    BY <1>6 DEF pack_encoded
  <2> DEFINE C == Counted'
             new == PackRow(kinds, objects, C)
             n == SizeOf(kinds, encoding.members, encoding.read)
  <2>5. encoding.staging => n \in Nat /\ n <= Budget
    <3> SUFFICES ASSUME encoding.staging PROVE n \in Nat /\ n <= Budget
      OBVIOUS
    <3>1. n \in Nat /\ encoding.limit \in Nat /\ n <= encoding.limit /\ encoding.limit <= Budget
      BY <2>1, EncodedFacts, MemberFacts DEF PacksInv, EncodesTheObject
    <3> HIDE DEF n
    <3> QED
      BY <1>1, <3>1
  <2>6. PacksFitObjects(kinds, objects, C)
    BY <1>3, <1>c
  <2> HIDE DEF C
  <2>7. /\ new \in Seq(Nat) /\ Len(new) = Len(kinds) /\ DOMAIN kinds = 1..Len(kinds)
        /\ \A o \in DOMAIN kinds : new[o] = IF C[o] = NoPack THEN 0 ELSE SizeOf(kinds, objects[o].members, C[o])
    BY <1>1, <2>6, PackRowType
  <2>b. C[object] = NoPack \/ (C[object] = encoding.read /\ encoding.staging)
    <3>1. packs' = packs => C[object] = NoPack
      BY <1>c, <2>1, <2>2 DEF C
    <3> QED
      BY <2>3, <2>a, <3>1 DEF C
  <2> HIDE DEF new, n
  <2>8. new[object] = 0 \/ (new[object] = n /\ encoding.staging)
    BY <1>1, <2>1, <2>4, <2>7, <2>b DEF n
  <2>9. \A o \in 1..Len(new) : o # object => new[o] = 0
    BY <1>1, <2>3, <2>7 DEF C
  <2>10. object \in 1..Len(new)
    BY <1>1, <2>1, <2>7
  <2>11. Total(new) = new[object]
    BY <2>7, <2>9, <2>10, TotalOfOne
  <2>12. Total(new) <= Budget + forgotten
    BY <1>1, <2>5, <2>8, <2>11
  <2> QED
    BY <1>1, <1>3, <2>12 DEF PackTotal, new, C
<1>7. (\A o \in Files : Counted'[o] \in {Counted[o], NoPack}) \/ pack_encoded
  <2>1. CASE next_object \/ object_uploaded \/ clear_transfer
    BY <1>1, <2>1, PacksFell
  <2>2. CASE packs' = packs /\ unremoved' = unremoved
    BY <1>1, <2>2, CountedStays
  <2> QED
    BY <1>2, <2>1, <2>2, Frames
<1> QED
  BY <1>5, <1>6, <1>7

LEMMA TempIsOfTheObject ==
  ASSUME PacksInv, Encodes, NEW o \in Files, temps[o] # NoTemp
  PROVE  o = object /\ encoding.staging /\ (~Inventorying => temps[o][1] <= Budget)
<1>1. CASE Inventorying
  BY <1>1 DEF PacksInv, CacheWhileInventorying, Encodes
<1>2. CASE ~Inventorying
  <2>1. Ordered /\ IsNext(o) /\ encoding.staging /\ temps[o][1] <= Budget
    BY <1>2 DEF PacksInv, CacheAfterwards, TempsAreOfTheNext
  <2>2. IsNext(object)
    BY <1>2, ObjectIsNext DEF Inventorying
  <2> QED
    BY <2>1, <2>2, NextIsUnique
<1> QED
  BY <1>1, <1>2

LEMMA CacheAfterwardsNext ==
  ASSUME PacksInv, [Next]_vars
  PROVE  CacheAfterwards'
<1> SUFFICES ASSUME status' # "inventorying"
             PROVE  /\ TempsAreOfTheNext'
                    /\ Encodes' => NoPacks'
                    /\ Sends' => NoTemps'
                    /\ status' = "failed" => NoTemps'
  BY PackTotalAfterwards DEF CacheAfterwards, Inventorying
<1> DEFINE Goal == /\ TempsAreOfTheNext'
                   /\ Encodes' => NoPacks'
                   /\ Sends' => NoTemps'
                   /\ status' = "failed" => NoTemps'
<1>1. /\ Files' = Files /\ Budget \in Nat
      /\ packs \in [Files -> Seq(Contents)] /\ temps \in [Files -> Seq(Nat)]
  BY PlanIsKept, TransportAssumption DEF PacksInv, Shape, Files
<1>2. status # "inventorying" =>
        /\ TempsAreOfTheNext
        /\ Encodes => \A o \in Files : Counted[o] = NoPack
        /\ Sends => \A o \in Files : temps[o] = NoTemp
        /\ status = "failed" => \A o \in Files : temps[o] = NoTemp
  BY DEF PacksInv, CacheAfterwards, Inventorying, NoPacks, NoTemps
<1>c. packs' = packs /\ unremoved' = unremoved => Counted' = Counted
  BY CountedStays, PlanIsKept
<1> HIDE DEF Files
<1>3. ASSUME \A o \in Files : temps'[o] = NoTemp, Encodes' => \A o \in Files : Counted'[o] = NoPack
      PROVE  Goal
  BY <1>1, <1>3 DEF TempsAreOfTheNext, NoPacks, NoTemps
<1>4. ASSUME status # "inventorying", objects' = objects, order' = order, marked' = marked, packs' = packs, Counted' = Counted,
             \A o \in Files : temps'[o] # NoTemp => temps'[o] = temps[o],
             Encodes' => Encodes /\ encoding' = encoding, ~Sends', status' = "failed" => status = "failed"
      PROVE  Goal
  <2>1. (Ordered' <=> Ordered) /\ \A o : IsNext(o)' <=> IsNext(o)
    BY <1>4 DEF IsNext, Ordered, IsMarked
  <2>2. NoPacks' <=> NoPacks
    BY <1>1, <1>4 DEF NoPacks
  <2>3. TempsAreOfTheNext'
    <3>1. ASSUME NEW o \in Files, temps'[o] # NoTemp
          PROVE  /\ NoPacks' /\ packs'[o] = NoPack /\ temps'[o][1] <= Budget
                 /\ Ordered' /\ o \in DOMAIN objects' /\ objects'[o].pack /\ IsNext(o)'
                 /\ Encodes' => encoding'.staging
      <4>1. temps'[o] = temps[o]
        BY <1>4, <3>1
      <4> QED
        BY <1>2, <1>4, <2>1, <2>2, <3>1, <4>1 DEF TempsAreOfTheNext
    <3>2. \A o, p \in Files : temps'[o] # NoTemp /\ temps'[p] # NoTemp => o = p
      BY <1>2, <1>4 DEF TempsAreOfTheNext
    <3> QED
      BY <1>1, <3>1, <3>2 DEF TempsAreOfTheNext
  <2> QED
    BY <1>1, <1>2, <1>4, <2>3 DEF NoPacks, NoTemps
<1>5. CASE check_member
  <2>1. CASE temps' = [temps EXCEPT ![object] = NoTemp] /\ pc' = "idle"
    <3>1. Encodes
      BY <1>5 DEF check_member, Encodes
    <3>2. \A o \in Files : temps'[o] = NoTemp
      BY <1>1, <2>1, <3>1, TempIsOfTheObject, ObjectIsAFile
    <3> QED
      BY <1>3, <2>1, <3>2 DEF Encodes
  <2>2. CASE pc' = "read" /\ UNCHANGED <<encoding, status, temps>>
    <3>1. /\ status # "inventorying" /\ objects' = objects /\ order' = order /\ marked' = marked /\ packs' = packs /\ Counted' = Counted
          /\ Encodes /\ ~Sends' /\ status' = status /\ encoding' = encoding /\ temps' = temps
      BY <1>5, <1>c, <2>2 DEF check_member, Encodes, Sends, left
    <3> QED
      BY <1>4, <3>1
  <2> QED
    BY <1>5, <2>1, <2>2 DEF check_member, RemoveTemp, Fails
<1>6. CASE read_member
  <2>1. pc = "read" /\ Encodes /\ object \in Files /\ packs' = packs /\ Counted' = Counted
    BY <1>6, <1>c, ObjectIsAFile DEF read_member, Encodes
  <2>2. CASE temps' = [temps EXCEPT ![object] = NoTemp] /\ (pc' = "idle" \/ status' = status)
    <3>1. \A o \in Files : temps'[o] = NoTemp
      BY <1>1, <2>1, <2>2, TempIsOfTheObject
    <3>2. Encodes' => \A o \in Files : Counted'[o] = NoPack
      BY <1>2, <2>1, <2>2 DEF Encodes
    <3> QED
      BY <1>3, <3>1, <3>2
  <2>3. CASE /\ encoding.staging => ~Exceeds
             /\ encoding' = [encoding EXCEPT !.read = Read]
             /\ temps' = [temps EXCEPT ![object] = IF temps[object] = NoTemp THEN NoTemp ELSE Temp(ReadSize)]
             /\ pc' \in {"encoded", "check"} /\ status' = status
    <3>1. objects' = objects /\ order' = order /\ marked' = marked
      BY <1>6 DEF read_member
    <3>2. encoding \in [staging : BOOLEAN, members : Seq(Files), read : Seq(Contents), limit : Nat]
          /\ ReadSize \in Nat /\ encoding.limit <= Budget
      BY <2>1, EncodedFacts DEF PacksInv, Shape, EncodesTheObject
    <3>3. encoding'.staging = encoding.staging
      BY <2>3, <3>2
    <3>4. \A o \in Files : temps'[o] # NoTemp => o = object /\ temps[o] # NoTemp /\ temps'[o] = Temp(ReadSize)
      BY <1>1, <2>1, <2>3, TempIsOfTheObject
    <3>5. ASSUME NEW o \in Files, temps'[o] # NoTemp
          PROVE  /\ NoPacks' /\ packs'[o] = NoPack /\ temps'[o][1] <= Budget
                 /\ Ordered' /\ o \in DOMAIN objects' /\ objects'[o].pack /\ IsNext(o)'
                 /\ Encodes' => encoding'.staging
      <4>1. o = object /\ temps[o] # NoTemp /\ temps'[o] = Temp(ReadSize) /\ encoding.staging
        BY <2>1, <3>4, <3>5, TempIsOfTheObject
      <4>2. ReadSize <= Budget
        BY <1>1, <2>3, <3>2, <4>1 DEF Exceeds
      <4>3. temps'[o][1] = ReadSize
        BY <4>1 DEF Temp
      <4>4. NoPacks /\ packs[o] = NoPack /\ Ordered /\ o \in DOMAIN objects /\ objects[o].pack /\ IsNext(o)
        BY <1>2, <2>3, <4>1 DEF TempsAreOfTheNext
      <4>5. NoPacks' /\ packs'[o] = NoPack /\ Ordered' /\ o \in DOMAIN objects' /\ objects'[o].pack /\ IsNext(o)'
        BY <1>1, <2>1, <3>1, <4>4 DEF NoPacks, Ordered, IsNext, IsMarked
      <4> QED
        BY <3>3, <4>1, <4>2, <4>3, <4>5
    <3>6. TempsAreOfTheNext'
      BY <1>1, <3>4, <3>5 DEF TempsAreOfTheNext
    <3>7. NoPacks' /\ ~Sends' /\ (status' = "failed" => NoTemps')
      BY <1>1, <1>2, <2>1, <2>3, <3>4 DEF NoPacks, NoTemps, Sends
    <3> QED
      BY <3>6, <3>7
  <2> QED
    BY <1>6, <2>2, <2>3 DEF read_member, RemoveTemp, Fails
<1>7. CASE next_object
  <2>1. /\ status # "inventorying" /\ status' = status /\ Ordered /\ object' = Candidate /\ Candidate \in DOMAIN objects
        /\ objects' = objects /\ order' = order /\ marked' = marked /\ pc = "object" /\ Candidate \in Files
    BY <1>7, NextObjectFacts, ObjectFacts DEF PacksInv
  <2>2. \A o \in Files : temps[o] # NoTemp => o = Candidate /\ objects[o].pack /\ packs[o] = NoPack
    BY <1>2, <1>7, <2>1, ObjectIsNext, NextIsUnique DEF TempsAreOfTheNext, NoPacks
  <2>3. CASE pc' \in {"part", "idle"}
    <3>1. temps' = temps /\ (~objects[Candidate].pack \/ packs[Candidate] # NoPack)
      BY <1>7, <2>3 DEF next_object
    <3>2. \A o \in Files : temps'[o] = NoTemp
      BY <2>1, <2>2, <3>1
    <3> QED
      BY <1>3, <2>3, <3>2 DEF Encodes
  <2>4. CASE pc' \notin {"part", "idle"}
    <3>1. /\ objects[Candidate].pack /\ packs[Candidate] = NoPack
          /\ pc' = "check" /\ temps' = [temps EXCEPT ![Candidate] = Temp(0)]
          /\ encoding' = [NoCall EXCEPT !.staging = TRUE, !.limit = Budget, !.members = objects[Candidate].members]
      BY <1>7, <2>4 DEF next_object
    <3>2. encoding'.staging = TRUE
      BY <3>1 DEF NoCall
    <3>3. packs'[Candidate] = NoPack /\ \A o \in Files : Counted'[o] = NoPack
      BY <1>7, <2>1, <3>1, Evicted, PlanIsKept
    <3>4. \A o \in Files : temps'[o] # NoTemp => o = Candidate /\ temps'[o] = Temp(0)
      BY <1>1, <2>1, <2>2, <3>1
    <3>5. (\A o \in Files : o = Candidate => IsNext(o)') /\ Ordered'
      <4>1. IsNext(Candidate)
        BY <1>7, <2>1, ObjectIsNext
      <4>2. PICK k \in DOMAIN order : /\ order[k] = Candidate /\ ~IsMarked(Candidate)
                                      /\ \A j \in 1..(k - 1) : IsMarked(order[j])
        BY <4>1 DEF IsNext
      <4> QED
        BY <2>1, <4>2 DEF Ordered, IsNext, IsMarked
    <3>6. Temp(0)[1] = 0
      BY DEF Temp
    <3>7. TempsAreOfTheNext'
      <4>1. NoPacks' /\ Candidate \in DOMAIN objects' /\ objects'[Candidate].pack
        BY <1>1, <2>1, <3>1, <3>3 DEF NoPacks
      <4>2. ASSUME NEW o \in Files, temps'[o] # NoTemp
            PROVE  o = Candidate /\ packs'[o] = NoPack /\ temps'[o][1] <= Budget
        BY <1>1, <3>3, <3>4, <3>6, <4>2
      <4> QED
        BY <1>1, <3>2, <3>5, <4>1, <4>2 DEF TempsAreOfTheNext
    <3>8. NoPacks' /\ ~Sends' /\ status' # "failed"
      BY <1>1, <2>1, <3>1, <3>3 DEF NoPacks, Sends, PacksInv, Placed, Inventorying
    <3> QED
      BY <3>7, <3>8
  <2> QED
    BY <2>3, <2>4
<1>8. CASE pack_encoded
  <2>1. Encodes /\ object \in Files /\ temps' = [temps EXCEPT ![object] = NoTemp] /\ ~Encodes'
    BY <1>8, ObjectIsAFile DEF pack_encoded, Encodes
  <2>2. \A o \in Files : temps'[o] = NoTemp
    BY <1>1, <2>1, TempIsOfTheObject
  <2> QED
    BY <1>3, <2>1, <2>2
<1>9. CASE replace_transport_plan
  <2>1. temps' = temps /\ pc = "group" /\ pc' = "idle" /\ Inventorying
    BY <1>9 DEF replace_transport_plan, cache, PacksInv, Placed
  <2>2. \A o \in Files : temps[o] = NoTemp
    BY <2>1 DEF PacksInv, CacheWhileInventorying, Encodes
  <2> QED
    BY <1>3, <2>1, <2>2 DEF Encodes
<1>10. CASE clear_transfer
  <2>1. packs' = [o \in Files |-> NoPack] /\ temps' = [o \in Files |-> NoTemp]
    BY <1>10 DEF clear_transfer, remove_transfer_pack_directory
  <2>2. \A o \in Files : Counted'[o] = NoPack
    BY <2>1, CountedFacts
  <2> QED
    BY <1>3, <2>1, <2>2
<1>11. CASE next_part \/ send_part \/ mark_file_uploaded \/ object_uploaded
  <2>1. Sends /\ ~Inventorying /\ temps' = temps /\ ~Encodes'
    BY <1>11 DEF next_part, send_part, mark_file_uploaded, object_uploaded, cache, Sends, Encodes, PacksInv, Placed
  <2> QED
    BY <1>2, <1>3, <2>1 DEF Inventorying
<1>12. CASE start_upload \/ skip_object \/ finalize
  <2>1. /\ objects' = objects /\ order' = order /\ marked' = marked /\ packs' = packs /\ Counted' = Counted /\ temps' = temps
        /\ ~Encodes' /\ ~Sends' /\ status # "inventorying" /\ (status' = "failed" => status = "failed")
    BY <1>12, <1>c DEF start_upload, skip_object, finalize, cache, left, sqlite, Encodes, Sends, PacksInv, Placed, Inventorying
  <2> QED
    BY <1>4, <2>1
<1>13. CASE Crash
  <2>1. /\ objects' = objects /\ order' = order /\ marked' = marked /\ packs' = packs /\ Counted' = Counted
        /\ temps' \in {temps, [o \in Files |-> NoTemp]}
        /\ ~Encodes' /\ ~Sends' /\ status # "inventorying" /\ status' = status
    BY <1>13, <1>c DEF Crash, sqlite, Encodes, Sends
  <2> QED
    BY <1>4, <2>1
<1>14. CASE (\E f \in Files : Edit(f)) \/ UNCHANGED vars
  <2>1. /\ objects' = objects /\ order' = order /\ marked' = marked /\ packs' = packs /\ Counted' = Counted /\ temps' = temps
        /\ pc' = pc /\ encoding' = encoding /\ status # "inventorying" /\ status' = status
    BY <1>14, <1>c DEF Edit, vars, sqlite, cache, left, code
  <2>2. CASE Sends
    BY <1>2, <1>3, <2>1, <2>2 DEF Sends, Encodes
  <2>3. CASE ~Sends
    BY <1>4, <2>1, <2>3 DEF Sends, Encodes
  <2> QED
    BY <2>2, <2>3
<1>15. ~ (stat_file \/ hash_file \/ next_group \/ group_encoded)
  BY DEF stat_file, hash_file, next_group, group_encoded, sqlite, PacksInv, Placed, Inventorying
<1> QED
  BY <1>5, <1>6, <1>7, <1>8, <1>9, <1>10, <1>11, <1>12, <1>13, <1>14, <1>15
     DEF Next, Courier, Inventory, Encoding, Upload

LEMMA FilesUncountedNext ==
  ASSUME PacksInv, [Next]_vars
  PROVE  FilesUncounted'
<1>1. /\ kinds' = kinds /\ DOMAIN objects \subseteq Files
      /\ \A o \in DOMAIN objects : ~objects[o].pack => Counted[o] = NoPack
      /\ packs \in [Files -> Seq(Contents)]
  BY PlanIsKept, ObjectFacts DEF PacksInv, FilesUncounted, Shape
<1>2. \A o \in Files : /\ Counted[o] = IF o \in unremoved THEN NoPack ELSE packs[o]
                      /\ Counted'[o] = IF o \in unremoved' THEN NoPack ELSE packs'[o]
  BY CountedFacts
<1> HIDE DEF Files
<1>3. CASE group_encoded
  <2>1. /\ DOMAIN objects' = DOMAIN objects \cup {object} /\ object \notin DOMAIN objects
        /\ \A o \in DOMAIN objects : objects'[o] = objects[o]
        /\ ~objects'[object].pack => packs'[object] = NoPack \/ object \in unremoved'
        /\ \A o \in Files : o # object => packs'[o] = packs[o] /\ (o \in unremoved' <=> o \in unremoved)
        /\ object \in Files
    <3>1. object \in Files
      BY <1>3, ObjectIsAFile DEF group_encoded, Encodes
    <3> QED
      BY <1>3, <3>1, GroupEncodedFacts
  <2>2. \A o \in Files : o # object => Counted'[o] = Counted[o]
    BY <1>2, <2>1
  <2>3. ASSUME NEW o \in DOMAIN objects', ~objects'[o].pack PROVE Counted'[o] = NoPack
    <3>1. CASE o = object
      BY <1>2, <2>1, <2>3, <3>1
    <3>2. CASE o # object
      BY <1>1, <2>1, <2>2, <2>3, <3>2
    <3> QED
      BY <3>1, <3>2
  <2> QED
    BY <2>3 DEF FilesUncounted
<1>4. CASE ~group_encoded
  <2>1. objects' = objects
    BY <1>4, Frames
  <2>2. \A o \in DOMAIN objects : ~objects[o].pack => Counted'[o] \in {Counted[o], NoPack}
    <3>1. CASE next_object \/ object_uploaded \/ clear_transfer
      BY <1>1, <3>1, PacksFell
    <3>2. CASE packs' = packs /\ unremoved' = unremoved
      BY <1>1, <3>2, CountedStays
    <3>3. CASE pack_encoded
      <4>1. object \in Files /\ objects[object].pack
        BY <3>3, ObjectIsAFile DEF pack_encoded, PacksInv, EncodesTheObject, Encodes, Inventorying
      <4>2. /\ packs' \in {packs, [packs EXCEPT ![object] = encoding.read]}
            /\ unremoved' \in {unremoved, unremoved \cup {object}}
        BY <3>3 DEF pack_encoded
      <4>3. \A o \in Files : o # object => packs'[o] = packs[o] /\ (o \in unremoved' <=> o \in unremoved)
        BY <1>1, <4>1, <4>2
      <4>4. \A o \in Files : o # object => Counted'[o] = Counted[o]
        BY <1>2, <4>3
      <4> QED
        BY <1>1, <4>1, <4>4
    <3> QED
      BY <1>4, <3>1, <3>2, <3>3, Frames
  <2> QED
    BY <1>1, <2>1, <2>2 DEF FilesUncounted
<1> QED
  BY <1>3, <1>4

LEMMA NextPacksInv ==
  ASSUME PacksInv, [Next]_vars
  PROVE  PacksInv'
<1>1. PacksFitObjects(kinds', objects', packs')
  BY PacksFitObjectsNext, PlanIsKept
<1> QED
  BY <1>1, ShapeNext, AsGroupedNext, PlacedNext, EncodesTheObjectNext, SendsAsPlannedNext, NothingStoredNext,
     StampsGrowNext, HoldsTheRecordedNext, CacheWhileInventoryingNext, CacheAfterwardsNext, MarksNext,
     FilesUncountedNext, ClearedIsEmptyNext, PlannedSizesNext DEF PacksInv

LEMMA PacksInvariance == Spec => []PacksInv
  BY InitPacksInv, NextPacksInv, PTL DEF Spec

-----------------------------------------------------------------------------
(* What follows from the invariant *)

(* What is in storage is what was inventoried, part by part, unless an edit left no trace: through
   evictions, regenerations, resumptions and deaths (run_upload, pack_upload_source).            *)
THEOREM StorageHoldsTheInventory == Spec => []StoredAsInventoried
<1>1. ASSUME PacksInv PROVE StoredAsInventoried
  <2> SUFFICES ASSUME ~hidden, NEW o \in DOMAIN objects, NEW p \in DOMAIN stored[o]
               PROVE  stored[o][p] = [i \in DOMAIN objects[o].members |-> records[objects[o].members[i]].content]
    BY DEF StoredAsInventoried
  <2>1. HasContents(records, objects[o].members, stored[o][p])
    BY <1>1 DEF PacksInv, HoldsTheRecorded, StoresTheRecorded
  <2>2. o \in Files /\ DOMAIN objects[o].members = 1..Len(objects[o].members)
    BY <1>1, ObjectFacts DEF PacksInv
  <2>3. stored[o] \in Seq(Seq(Contents))
    BY <1>1, <2>2 DEF PacksInv, Shape
  <2>4. stored[o][p] \in Seq(Contents)
    BY <2>3
  <2>5. stored[o][p] = [i \in 1..Len(stored[o][p]) |-> stored[o][p][i]]
    BY <2>4
  <2> QED
    BY <2>1, <2>2, <2>5 DEF HasContents
<1> QED
  BY <1>1, PacksInvariance, PTL

(* A pack is stored in the size the plan, its parts and the manifest have for it, even if files
   were edited (pack_upload_source compares it).                                               *)
THEOREM StoredPacksHaveThePlannedSize == Spec => []PackHasPlannedSize
<1>1. ASSUME PacksInv PROVE PackHasPlannedSize
  BY <1>1, PackSizeIsSizeOf DEF PacksInv, PlannedSizes, PackHasPlannedSize
<1> QED
  BY <1>1, PacksInvariance, PTL

(* What a transfer has in the cache: its packs, the .tmp file if there is one, and what is there
   because its removal failed.                                                               *)
LEMMA CacheIsPacksAndTemp ==
  ASSUME PacksInv
  PROVE  /\ NoTemps => CacheBytes = PackTotal + Unremoved
         /\ Unremoved \in Nat
         /\ \A t \in Files : temps[t] # NoTemp /\ (\A o \in Files : temps[o] # NoTemp => o = t)
               => CacheBytes = PackTotal + temps[t][1] + Unremoved /\ temps[t][1] \in Nat
<1> DEFINE row == PackRow(kinds, objects, Counted)
           both == [o \in Files |-> row[o] + TempBytes(o)]
           rest == [o \in Files |-> (IF o \in unremoved THEN PackBytes(o) ELSE 0) + StrayBytes(o)]
           all  == [o \in Files |-> PackBytes(o) + TempBytes(o) + StrayBytes(o)]
<1>0. PacksFitObjects(kinds, objects, Counted) /\ PacksFitObjects(kinds, objects, packs)
  BY CountedFits DEF PacksInv, Counted
<1>1. /\ row \in Seq(Nat) /\ Len(row) = Len(kinds) /\ Files = 1..Len(kinds) /\ Len(kinds) \in Nat
      /\ \A o \in Files : row[o] = IF Counted[o] = NoPack THEN 0 ELSE SizeOf(kinds, objects[o].members, Counted[o])
  BY <1>0, PackRowType DEF PacksInv, Shape, Files
<1>2. \A o \in Files : PackBytes(o) \in Nat /\ row[o] \in Nat /\ row[o] = IF o \in unremoved THEN 0 ELSE PackBytes(o)
  <2> DEFINE whole == PackRow(kinds, objects, packs)
  <2>1. /\ whole \in Seq(Nat) /\ Len(whole) = Len(kinds)
        /\ \A o \in Files : whole[o] = IF packs[o] = NoPack THEN 0 ELSE SizeOf(kinds, objects[o].members, packs[o])
    BY <1>0, PackRowType DEF PacksInv, Shape, Files
  <2>2. \A o \in Files : PackBytes(o) = whole[o]
    BY <2>1, PackSizeIsSizeOf DEF PackBytes
  <2>3. \A o \in Files : Counted[o] = IF o \in unremoved THEN NoPack ELSE packs[o]
    BY DEF Counted, Files
  <2> HIDE DEF row, whole, Files
  <2>4. \A o \in Files : PackBytes(o) \in Nat /\ row[o] \in Nat
    BY <1>1, <2>1, <2>2
  <2>5. \A o \in Files : row[o] = IF o \in unremoved THEN 0 ELSE PackBytes(o)
    BY <1>1, <2>1, <2>2, <2>3
  <2> QED
    BY <2>4, <2>5
<1>3. \A o \in Files : TempBytes(o) \in Nat /\ StrayBytes(o) \in Nat
  <2>1. ASSUME NEW ts \in Seq(Nat), ts # <<>> PROVE ts[1] \in Nat
    <3>1. Len(ts) \in Nat /\ Len(ts) # 0
      BY <2>1, EmptySeq, LenProperties
    <3> QED
      BY <3>1
  <2>2. \A o \in Files : temps[o] \in Seq(Nat) /\ strays[o] \in Seq(Nat)
    BY DEF PacksInv, Shape
  <2> QED
    BY <2>1, <2>2 DEF TempBytes, StrayBytes, NoTemp
<1> HIDE DEF row
<1>a. ASSUME NEW v, v = [o \in Files |-> v[o]], \A o \in Files : v[o] \in Nat
      PROVE  v \in Seq(Nat) /\ Len(v) = Len(kinds)
  <2>1. v = [o \in 1..Len(kinds) |-> v[o]] /\ \A o \in 1..Len(kinds) : v[o] \in Nat
    BY <1>1, <1>a
  <2> QED
    BY <1>1, <2>1
<1>4. /\ both \in Seq(Nat) /\ Len(both) = Len(row)
      /\ \A o \in Files : both[o] = row[o] + TempBytes(o)
  <2>1. \A o \in Files : both[o] = row[o] + TempBytes(o) /\ both[o] \in Nat
    BY <1>2, <1>3
  <2>2. both = [o \in Files |-> both[o]]
    OBVIOUS
  <2> HIDE DEF both
  <2> QED
    BY <1>1, <1>a, <2>1, <2>2
<1>b. /\ rest \in Seq(Nat) /\ Len(rest) = Len(row)
      /\ \A o \in Files : rest[o] = (IF o \in unremoved THEN PackBytes(o) ELSE 0) + StrayBytes(o)
  <2>1. \A o \in Files : /\ rest[o] = (IF o \in unremoved THEN PackBytes(o) ELSE 0) + StrayBytes(o)
                        /\ rest[o] \in Nat
    BY <1>2, <1>3
  <2>2. rest = [o \in Files |-> rest[o]]
    OBVIOUS
  <2> HIDE DEF rest
  <2> QED
    BY <1>1, <1>a, <2>1, <2>2
<1>c. /\ all \in Seq(Nat) /\ Len(all) = Len(row)
      /\ \A o \in Files : all[o] = PackBytes(o) + TempBytes(o) + StrayBytes(o)
  <2>1. \A o \in Files : all[o] = PackBytes(o) + TempBytes(o) + StrayBytes(o) /\ all[o] \in Nat
    BY <1>2, <1>3
  <2>2. all = [o \in Files |-> all[o]]
    OBVIOUS
  <2> HIDE DEF all
  <2> QED
    BY <1>1, <1>a, <2>1, <2>2
<1>5. CacheBytes = Total(all) /\ PackTotal = Total(row) /\ Unremoved = Total(rest)
  BY DEF CacheBytes, PackTotal, Unremoved, row
<1> HIDE DEF both, rest, all, Files
<1>d. Total(all) = Total(both) + Total(rest) /\ Total(rest) \in Nat
  <2>1. ASSUME NEW o \in 1..Len(all) PROVE all[o] = both[o] + rest[o]
    <3>1. o \in Files
      BY <1>1, <1>c
    <3> DEFINE a == PackBytes(o)  t == TempBytes(o)  x == StrayBytes(o)
    <3>2. a \in Nat /\ t \in Nat /\ x \in Nat
      BY <1>2, <1>3, <3>1
    <3>3. /\ all[o] = a + t + x
          /\ both[o] = (IF o \in unremoved THEN 0 ELSE a) + t
          /\ rest[o] = (IF o \in unremoved THEN a ELSE 0) + x
      BY <1>2, <1>4, <1>b, <1>c, <3>1, Zenon
    <3> HIDE DEF a, t, x
    <3> QED
      BY <3>2, <3>3
  <2> QED
    BY <1>4, <1>b, <1>c, <2>1, TotalAdds, TotalIsNat
<1>6. ASSUME NoTemps PROVE Total(both) = Total(row)
  <2>1. ASSUME NEW o \in 1..Len(row) PROVE both[o] = row[o]
    <3>1. o \in Files
      BY <1>1
    <3>2. TempBytes(o) = 0
      BY <1>6, <3>1 DEF NoTemps, TempBytes
    <3>3. row[o] \in Nat /\ both[o] = row[o] + TempBytes(o)
      BY <1>2, <1>4, <3>1
    <3> QED
      BY <3>2, <3>3
  <2>2. both = row
    <3>1. both = [o \in 1..Len(both) |-> both[o]] /\ row = [o \in 1..Len(row) |-> row[o]]
      BY <1>1, <1>4
    <3> QED
      BY <1>4, <2>1, <3>1
  <2> QED
    BY <2>2
<1>7. ASSUME NEW t \in Files, temps[t] # NoTemp, \A o \in Files : temps[o] # NoTemp => o = t
      PROVE  Total(both) = Total(row) + temps[t][1] /\ temps[t][1] \in Nat
  <2>1. TempBytes(t) = temps[t][1] /\ temps[t][1] \in Nat
    BY <1>3, <1>7 DEF TempBytes
  <2>2. ASSUME NEW n \in 1..Len(both), n # t PROVE both[n] = row[n]
    <3>1. n \in Files
      BY <1>1, <1>4
    <3>2. TempBytes(n) = 0
      BY <1>7, <2>2, <3>1 DEF TempBytes
    <3>3. both[n] = row[n] + TempBytes(n) /\ row[n] \in Nat
      BY <1>2, <1>4, <3>1
    <3> QED
      BY <3>2, <3>3
  <2>3. t \in 1..Len(both)
    BY <1>1, <1>4
  <2>4. Total(both) + row[t] = Total(row) + both[t]
    BY <1>1, <1>4, <2>2, <2>3, TotalDiffers
  <2>5. Total(both) \in Nat /\ Total(row) \in Nat /\ row[t] \in Nat /\ both[t] = row[t] + temps[t][1]
    BY <1>1, <1>2, <1>4, <2>1, TotalIsNat
  <2> QED
    BY <2>1, <2>4, <2>5
<1>8. Total(row) \in Nat
  BY <1>1, TotalIsNat
<1> QED
  BY <1>5, <1>6, <1>7, <1>8, <1>d

(* The cache of a transfer, .tmp files included, exceeds the budget only by the bytes that
   prepare_transport_plan took off its count without having added them, and by the files that
   could not be removed.                                                                    *)
THEOREM CacheStaysWithinBudget == Spec => []CacheIsAccountedFor
<1>1. ASSUME PacksInv PROVE CacheIsAccountedFor
  <2> DEFINE p == PackTotal
             c == CacheBytes
             u == Unremoved
  <2>0. u \in Nat
    BY <1>1, CacheIsPacksAndTemp
  <2>1. p \in Nat /\ Budget \in Nat /\ cachedBytes \in Nat /\ forgotten \in Nat
    BY <1>1, PackTotalIsNat, TransportAssumption DEF PacksInv, Shape
  <2>2. CASE NoTemps
    <3>1. c = p + u
      BY <1>1, <2>2, CacheIsPacksAndTemp
    <3>2. IF Inventorying THEN p <= cachedBytes + forgotten /\ cachedBytes <= Budget ELSE p <= Budget + forgotten
      BY <1>1 DEF PacksInv, CacheWhileInventorying, CacheAfterwards
    <3> HIDE DEF p, c, u
    <3>3. c <= Budget + forgotten + u
      BY <2>0, <2>1, <3>1, <3>2
    <3> QED
      BY <3>3 DEF CacheIsAccountedFor, c, u
  <2>3. CASE ~NoTemps
    <3>1. PICK t \in Files : temps[t] # NoTemp
      BY <2>3 DEF NoTemps
    <3>2. \A o \in Files : temps[o] # NoTemp => o = t
      BY <1>1, <3>1 DEF PacksInv, CacheWhileInventorying, CacheAfterwards, TempsAreOfTheNext
    <3> DEFINE n == temps[t][1]
    <3>3. c = p + n + u /\ n \in Nat
      BY <1>1, <3>1, <3>2, CacheIsPacksAndTemp
    <3>4. IF Inventorying THEN p <= cachedBytes + forgotten /\ n + cachedBytes <= Budget
                          ELSE p = 0 /\ n <= Budget
      BY <1>1, <3>1, PackTotalIsNat DEF PacksInv, CacheWhileInventorying, CacheAfterwards, TempsAreOfTheNext
    <3> HIDE DEF p, c, u, n
    <3>5. c <= Budget + forgotten + u
      BY <2>0, <2>1, <3>3, <3>4
    <3> QED
      BY <3>5 DEF CacheIsAccountedFor, c, u
  <2> QED
    BY <2>2, <2>3
<1> QED
  BY <1>1, PacksInvariance, PTL

(* clear_transfer leaves nothing in the cache, unless the transfer was being uploaded. *)
THEOREM ClearedCacheIsEmpty == Spec => []ClearedLeavesNothing
<1>1. ASSUME PacksInv PROVE ClearedLeavesNothing
  <2> SUFFICES ASSUME status = "cleared", ~clearedBusy
               PROVE  CacheBytes = 0 /\ \A o \in Files : temps[o] = NoTemp /\ strays[o] = NoTemp
    BY DEF ClearedLeavesNothing
  <2>1. EmptyCache
    BY <1>1, Zenon DEF PacksInv, ClearedIsEmpty
  <2> DEFINE all == [o \in Files |-> PackBytes(o) + TempBytes(o) + StrayBytes(o)]
  <2>2. Files = 1..Len(kinds) /\ Len(kinds) \in Nat
    BY <1>1, PlanFacts, PackRowType DEF PacksInv, Shape, Files
  <2>3. all = [o \in 1..Len(kinds) |-> 0]
    BY <2>1, <2>2 DEF EmptyCache, PackBytes, TempBytes, StrayBytes
  <2>4. all \in Seq(Nat) /\ \A n \in 1..Len(all) : all[n] = 0
    BY <2>2, <2>3
  <2>5. CacheBytes = Total(all)
    BY DEF CacheBytes
  <2> HIDE DEF all
  <2>6. CacheBytes = 0
    BY <2>4, <2>5, TotalOfNothing
  <2> QED
    BY <2>1, <2>6 DEF EmptyCache
<1> QED
  BY <1>1, PacksInvariance, PTL


-----------------------------------------------------------------------------
(* The plan is sound *)

LEMMA IncreasingIsShort ==
  ASSUME NEW N \in Nat, NEW ms \in Seq(1..N), \A i, j \in 1..Len(ms) : i < j => ms[i] < ms[j]
  PROVE  Len(ms) <= N
<1> DEFINE L == Len(ms)
           S == {i \in Nat : i \in 1..L => ms[i] >= i}
<1>1. L \in Nat /\ \A i \in 1..L : ms[i] \in 1..N
  OBVIOUS
<1>2. \A i, j \in 1..L : i < j => ms[i] < ms[j]
  OBVIOUS
<1> HIDE DEF L
<1>3. 0 \in S
  OBVIOUS
<1>4. ASSUME NEW i \in Nat, i \in S PROVE i + 1 \in S
  <2> SUFFICES ASSUME i + 1 \in 1..L PROVE ms[i + 1] >= i + 1
    OBVIOUS
  <2>1. CASE i = 0
    BY <1>1, <2>1
  <2>2. CASE i # 0
    <3>1. i \in 1..L /\ i + 1 \in 1..L
      BY <1>1, <2>2
    <3>2. ms[i] >= i /\ ms[i] < ms[i + 1] /\ ms[i] \in Nat /\ ms[i + 1] \in Nat
      BY <1>1, <1>2, <1>4, <3>1
    <3> QED
      BY <3>2
  <2> QED
    BY <2>1, <2>2
<1> HIDE DEF S
<1>5. \A i \in Nat : i \in S
  BY <1>3, <1>4, SetInduction
<1>6. L # 0 => L \in 1..L /\ ms[L] >= L /\ ms[L] <= N /\ ms[L] \in Nat
  BY <1>1, <1>5 DEF S
<1>7. L <= N
  BY <1>1, <1>6
<1> QED
  BY <1>7 DEF L

(* A pack of small files is not larger than the cache, whatever they have become. *)
LEMMA SmallPackFits ==
  ASSUME PacksFit, PacksInv, pc = "encoded", Inventorying, Small(encoding.members[1])
  PROVE  Encoded <= Budget
<1> DEFINE ms == encoding.members
           cs == encoding.read
           n == Len(encoding.members)
<1>1. /\ kinds \in Sources /\ ms \in Seq(Files) /\ cs \in Seq(Contents) /\ n \in Nat \ {0} /\ Len(cs) = n
      /\ DOMAIN ms = 1..n /\ DOMAIN cs = 1..n /\ \A i \in DOMAIN ms : ms[i] \in Files
  BY MemberFacts DEF Encodes, PacksInv, EncodesTheObject, Shape
<1>2. GoodGroup(ms, Files)
  BY PlanFacts, PlanCarriesTheFiles DEF Carries, Encodes, PacksInv, EncodesTheObject, Shape
<1>3. Encoded = SizeOf(kinds, ms, cs)
  BY EncodedFacts DEF Encodes
<1>4. /\ \A i, j \in 1..n : i < j => ms[i] < ms[j]
      /\ n > 1 => Size(ms) <= Target /\ \A i \in 1..n : Small(ms[i])
  BY <1>2 DEF GoodGroup
<1>5. Files = 1..Len(kinds) /\ Len(kinds) \in Nat
  BY <1>1, FilesAreNumbered
<1>6. n <= Len(kinds)
  BY <1>1, <1>4, <1>5, IncreasingIsShort
<1>7. n \in Files
  <2> HIDE DEF n
  <2> QED
    BY <1>1, <1>5, <1>6
<1>8. \A i \in 1..n : Small(ms[i])
  <2>1. Small(ms[1])
    OBVIOUS
  <2> HIDE DEF n, ms
  <2> QED
    BY <1>1, <1>4, <2>1
<1>9. n > 1 => Total([i \in 1..n |-> kinds[ms[i]].size]) <= Target
  BY <1>1, <1>4 DEF Size
<1>10. SizeOf(kinds, ms, cs) = Total([i \in 1..n |-> kinds[ms[i]].packed + (IF cs[i] = 1 THEN 1 ELSE 0)])
  BY <1>1 DEF SizeOf
<1>11. ms \in [1..n -> {f \in DOMAIN kinds : kinds[f].size <= MaxMember}] /\ cs \in [1..n -> Contents]
  <2>1. \A i \in 1..n : ms[i] \in {f \in DOMAIN kinds : kinds[f].size <= MaxMember}
    BY <1>1, <1>8 DEF Small, Files
  <2>2. ms = [i \in 1..n |-> ms[i]] /\ cs = [i \in 1..n |-> cs[i]] /\ \A i \in 1..n : cs[i] \in Contents
    BY <1>1
  <2> HIDE DEF ms, cs, n
  <2> QED
    BY <2>1, <2>2
<1> HIDE DEF ms, cs, n
<1>12. Total([i \in 1..n |-> kinds[ms[i]].packed + (IF cs[i] = 1 THEN 1 ELSE 0)]) <= Budget
  BY <1>1, <1>4, <1>7, <1>9, <1>11 DEF PacksFit, Files
<1> QED
  BY <1>3, <1>10, <1>12

LEMMA FitsTheCacheNext ==
  ASSUME PacksFit, PacksInv, FitsTheCache, [Next]_vars
  PROVE  FitsTheCache'
<1>1. CASE group_encoded
  <2>1. objects'[object].pack => objects'[object].bytes <= Budget
    BY <1>1, GroupEncodedFacts, SmallPackFits DEF Inventorying
  <2>2. /\ DOMAIN objects' = DOMAIN objects \cup {object}
        /\ \A o \in DOMAIN objects : objects'[o] = objects[o]
    BY <1>1, GroupEncodedFacts
  <2> QED
    BY <2>1, <2>2 DEF FitsTheCache
<1>2. CASE ~group_encoded
  <2>1. objects' = objects
    BY <1>2, Frames
  <2> QED
    BY <2>1 DEF FitsTheCache
<1> QED
  BY <1>1, <1>2

LEMMA PlansCarryEveryFileOnce ==
  ASSUME PacksInv, status \in {"planned", "uploaded"}
  PROVE  CarriesEveryFileOnce
<1>1. /\ DOMAIN objects = 1..Len(plan_packs) /\ Carries(plan_packs, Files)
      /\ \A o \in DOMAIN objects : /\ objects[o].members = plan_packs[o]
                                   /\ DOMAIN objects[o].members = 1..Len(objects[o].members)
  BY ObjectFacts, PlanCarriesTheFiles DEF PacksInv, AsGrouped, Shape
<1>2. ASSUME NEW f \in Files
      PROVE  Cardinality({o \in DOMAIN objects : f \in ToSet(objects[o].members)}) = 1
  <2>1. PICK g \in DOMAIN objects : \E i \in 1..Len(plan_packs[g]) : plan_packs[g][i] = f
    BY <1>1 DEF Carries
  <2>2. \A o \in DOMAIN objects : f \in ToSet(objects[o].members) <=> \E i \in 1..Len(plan_packs[o]) : plan_packs[o][i] = f
    BY <1>1 DEF ToSet
  <2>3. {o \in DOMAIN objects : f \in ToSet(objects[o].members)} = {g}
    <3>1. ASSUME NEW o \in DOMAIN objects, f \in ToSet(objects[o].members) PROVE o = g
      <4>1. PICK i \in 1..Len(plan_packs[o]) : plan_packs[o][i] = f
        BY <2>2, <3>1
      <4>2. PICK j \in 1..Len(plan_packs[g]) : plan_packs[g][j] = f
        BY <2>1
      <4>3. \A q, h \in 1..Len(plan_packs) : \A k \in 1..Len(plan_packs[q]), l \in 1..Len(plan_packs[h]) :
               plan_packs[q][k] = plan_packs[h][l] => q = h
        BY <1>1 DEF Carries
      <4> QED
        BY <1>1, <4>1, <4>2, <4>3
    <3>2. f \in ToSet(objects[g].members)
      BY <2>1, <2>2
    <3> QED
      BY <3>1, <3>2
  <2> QED
    BY <2>3, FS_Singleton
<1>3. ASSUME NEW o \in DOMAIN objects
      PROVE  LET ms == objects[o].members IN
             /\ \A i, j \in DOMAIN ms : i < j => ms[i] < ms[j]
             /\ Len(ms) > 1 => Size(ms) <= Target
  BY <1>1, <1>3 DEF Carries, GoodGroup
<1> QED
  BY <1>2, <1>3 DEF CarriesEveryFileOnce

(* The transport plan carries every file exactly once, in the order of the paths and within the
   target (create_inventory, plan_packs), ...                                                   *)
THEOREM PlansCarryTheFiles == Spec => [](status \in {"planned", "uploaded"} => CarriesEveryFileOnce)
  BY PlansCarryEveryFileOnce, PacksInvariance, PTL

(* ... and what is to be packed again fits the cache, if a pack of small files does. *)
THEOREM PlansAreSound == ASSUME PacksFit PROVE Spec => []PlanIsSound
<1>1. ASSUME Init PROVE FitsTheCache
  BY <1>1 DEF Init, FitsTheCache
<1>2. ASSUME PacksInv, FitsTheCache, [Next]_vars PROVE FitsTheCache'
  BY <1>2, FitsTheCacheNext
<1>3. ASSUME PacksInv, FitsTheCache PROVE PlanIsSound
  BY <1>3, PlansCarryEveryFileOnce DEF PlanIsSound
<1> QED
  BY <1>1, <1>2, <1>3, PacksInvariance, PTL DEF Spec
=============================================================================
