---------------------------- MODULE MapperProofs ----------------------------
(***************************************************************************)
(* Proofs about Mapper, for any page size, any width of sizes and any      *)
(* image: a failed call leaves nothing mapped, a well-formed image does    *)
(* not crash, and each of its bytes is the one it should be.               *)
(***************************************************************************)
EXTENDS Mapper, TLAPS

(* How far map_pe has come, and what of the mapping is settled by then.    *)
Stages ==
  /\ pc \in {"check", "place"} => status = "none" /\ mapped = 0 /\ sec = 0
  /\ pc \in {"headers", "sections"} =>
       status = "none" /\ mapped = ImageBytes
  /\ pc = "headers" => sec = 0
  /\ pc = "sections" => ~ BadHeaderSize
  /\ pc \in {"done", "bound"} => status # "none"
  /\ status = "SUCCESS" => mapped = ImageBytes /\ sec = Len(in.sections)

Cleared == pc = "headers" => \A a \in 0..(mapped - 1) : mem[a] = Zero

RangeOf(s) == s.va..(s.va + Extent(s) - 1)
ByteOf(s, a) == IF a - s.va < s.rawSize THEN s.raw + a - s.va ELSE Zero
HeaderByte(a) == IF a < in.headerSize THEN a ELSE Zero

(* The sections copied so far are in place, and the rest of the image is   *)
(* as the headers left it.                                                 *)
Filled ==
  (pc = "sections" \/ status = "SUCCESS") /\ WellFormed =>
    \A a \in 0..(mapped - 1) :
      /\ \A k \in 1..sec : a \in RangeOf(in.sections[k]) => mem[a] = ByteOf(in.sections[k], a)
      /\ (\A k \in 1..sec : a \notin RangeOf(in.sections[k])) => mem[a] = HeaderByte(a)

MapInv == TypeOK /\ in \in Inputs /\ Stages /\ Cleared /\ Filled /\ WellFormedMaps /\ FailureUnmaps
-----------------------------------------------------------------------------
(* Rounding up to pages in 32 bits stays in 32 bits and yields a multiple  *)
(* of the page; it does not round down unless the sum wraps.               *)
LEMMA RoundUpIsPages ==
  ASSUME NEW n \in Nat
  PROVE  /\ RoundUp(n) \in 0..(U32 - 1)
         /\ RoundUp(n) % Page = 0
         /\ n <= U32 - Page => RoundUp(n) >= n
<1> DEFINE m == (n + Page - 1) % U32
<1>1. Page \in Nat \ {0} /\ U32 \in Nat \ {0}
  BY MapperAssumption
<1>2. m \in 0..(U32 - 1)
  BY <1>1
<1>3. m % Page \in 0..(Page - 1) /\ m % Page <= m
  BY <1>1, <1>2
<1>4. RoundUp(n) = m - (m % Page)
  BY DEF RoundUp
<1>5. (m - (m % Page)) % Page = 0
  BY <1>1, <1>2
<1>6. n <= U32 - Page => m = n + Page - 1
  BY <1>1
<1> QED
  BY <1>1, <1>2, <1>3, <1>4, <1>5, <1>6

LEMMA InputFacts ==
  ASSUME in \in Inputs
  PROVE  /\ InputOK(in) /\ in.imageSize \in Nat /\ in.headerSize \in Nat /\ in.size \in Nat
         /\ ImageBytes \in 0..(U32 - 1) /\ ImageBytes % Page = 0
         /\ WellFormed => ImageBytes >= in.imageSize
         /\ FileEnd \in Int /\ FileEnd >= in.size
<1>1. InputOK(in)
  BY InputsAssumption
<1>2. in.imageSize \in Nat /\ in.headerSize \in Nat /\ in.size \in Nat
  BY <1>1, MapperAssumption DEF InputOK
<1>3. (-in.size) % Page \in Nat
  BY <1>2, MapperAssumption
<1> QED
  BY <1>1, <1>2, <1>3, RoundUpIsPages DEF ImageBytes, FileEnd, WellFormed

(* What depends on the input alone does not change with it.                *)
LEMMA SameInput ==
  ASSUME in' = in
  PROVE  /\ WellFormed' <=> WellFormed
         /\ ImageBytes' = ImageBytes /\ (BadHeaderSize' <=> BadHeaderSize)
BY DEF WellFormed, ImageBytes, BadHeaderSize

LEMMA SectionFacts ==
  ASSUME in \in Inputs, NEW k \in DOMAIN in.sections
  PROVE  LET s == in.sections[k]
         IN /\ s.va \in Nat /\ s.vsize \in Nat /\ s.raw \in Nat /\ s.rawSize \in Nat
            /\ Extent(s) \in Nat /\ Extent(s) >= s.rawSize /\ Extent(s) >= s.vsize
            /\ Extent(s) \in {s.rawSize, s.vsize}
<1>1. in.sections[k] \in Section
  BY InputFacts DEF InputOK
<1> QED
  BY <1>1 DEF Section, Extent, Max2

LEMMA Apart ==
  ASSUME NEW s, s.va \in Nat, Extent(s) \in Nat,
         NEW t, t.va \in Nat, Extent(t) \in Nat, t.va + Extent(t) <= s.va,
         NEW a \in Nat, a \in RangeOf(t)
  PROVE  a \notin RangeOf(s)
BY DEF RangeOf

(* The bytes of a section that is copied are its own, and no others change.*)
LEMMA CopiedBytes ==
  ASSUME in \in Inputs, NEW k \in DOMAIN in.sections, NEW a \in DOMAIN mem, a \in Nat,
         in.sections[k].raw + in.sections[k].rawSize <= in.size
  PROVE  Copied(in.sections[k])[a] =
           IF a \in RangeOf(in.sections[k]) THEN ByteOf(in.sections[k], a) ELSE mem[a]
<1> DEFINE s == in.sections[k]
<1>1. /\ s.va \in Nat /\ s.vsize \in Nat /\ s.raw \in Nat /\ s.rawSize \in Nat
      /\ Extent(s) \in Nat /\ Extent(s) >= s.rawSize /\ Extent(s) >= s.vsize
      /\ Extent(s) \in {s.rawSize, s.vsize}
  BY SectionFacts
<1>2. in.size \in Nat /\ s.raw + s.rawSize <= in.size
  BY InputFacts
<1> HIDE DEF s
<1>3. Copied(s)[a] = IF a \in RangeOf(s) THEN ByteOf(s, a) ELSE mem[a]
  BY <1>1, <1>2 DEF Copied, RangeOf, ByteOf, FileByte
<1> QED
  BY <1>3 DEF s

LEMMA InitInv == Init => MapInv
<1> SUFFICES ASSUME Init
             PROVE  MapInv
  OBVIOUS
<1>1. 0 \in 0..(U32 - 1) /\ 0 % Page = 0
  BY MapperAssumption
<1>2. DOMAIN mem = 0..(mapped - 1)
  BY DEF Init
<1>3. InputOK(in) /\ Len(in.sections) \in Nat
  BY InputsAssumption DEF Init, InputOK
<1>4. placed \in BOOLEAN /\ mapped \in 0..(U32 - 1) /\ mapped % Page = 0
      /\ sec \in 0..Len(in.sections)
  <2>1. placed \in BOOLEAN
    BY Zenon DEF Init
  <2>2. sec \in 0..Len(in.sections)
    BY <1>3 DEF Init
  <2> QED
    BY <1>1, <2>1, <2>2 DEF Init
<1>5. TypeOK
  BY <1>2, <1>3, <1>4 DEF Init, TypeOK
<1> QED
  BY <1>5 DEF Init, MapInv, Stages, Cleared, Filled, WellFormedMaps, FailureUnmaps

LEMMA CheckInv ==
  ASSUME MapInv, Check
  PROVE  MapInv'
<1>1. CheckStatus \in {"SUCCESS", "BAD_FORMAT", "BAD_ARCH"}
  BY InputFacts DEF CheckStatus, InputOK, MapInv
<1> QED
  BY <1>1, SameInput
  DEF Check, Finish, MapInv, TypeOK, Stages, Cleared, Filled, WellFormedMaps, FailureUnmaps

(* The image has just been given its place, and nothing is copied yet.     *)
LEMMA PlacedInv ==
  ASSUME MapInv, pc = "place", in' = in, sec' = sec, placed' \in BOOLEAN,
         pc' = "headers", status' = "none", mapped' = ImageBytes,
         mem' = [a \in 0..(ImageBytes - 1) |-> Zero]
  PROVE  MapInv'
<1>1. InputOK(in) /\ ImageBytes \in 0..(U32 - 1) /\ ImageBytes % Page = 0
  BY InputFacts DEF MapInv
<1>2. TypeOK'
  BY <1>1 DEF MapInv, TypeOK
<1>3. Stages'
  BY SameInput DEF MapInv, Stages
<1>4. Cleared' /\ Filled'
  BY DEF Cleared, Filled
<1> QED
  BY <1>2, <1>3, <1>4 DEF MapInv, WellFormedMaps, FailureUnmaps

LEMMA PlaceInv ==
  ASSUME MapInv, PlaceFails \/ PlaceElsewhere \/ PlaceAtBase
  PROVE  MapInv'
<1> USE DEF MapInv, TypeOK
<1>1. in' = in /\ sec' = sec /\ ImageBytes \in 0..(U32 - 1) /\ ImageBytes % Page = 0
      /\ InputOK(in)
  BY InputFacts DEF PlaceFails, PlaceElsewhere, PlaceAtBase
<1>2. CASE PlaceFails
  <2>1. in.build \in {64, 32}
    BY <1>1 DEF InputOK
  <2> QED
    BY <1>1, <1>2, <2>1, SameInput
    DEF PlaceFails, Finish, Stages, Cleared, Filled, WellFormedMaps, FailureUnmaps
<1>3. CASE PlaceElsewhere
  <2>1. pc = "place" /\ placed' = FALSE /\ status = "none" /\ mapped = 0
    BY <1>3 DEF PlaceElsewhere, Stages
  <2>2. CASE in.stripped
    <3>1. pc' = "done" /\ status' = "NO_MEM" /\ mapped' = mapped /\ mem' = mem
      BY <1>3, <2>2 DEF PlaceElsewhere, Finish
    <3>2. TypeOK'
      BY <1>1, <2>1, <3>1
    <3>3. Stages' /\ Cleared' /\ Filled'
      BY <3>1 DEF Stages, Cleared, Filled
    <3> QED
      BY <1>1, <2>1, <3>1, <3>2, <3>3 DEF WellFormedMaps, FailureUnmaps
  <2>3. CASE ~ in.stripped
    <3>1. /\ pc' = "headers" /\ status' = "none" /\ mapped' = ImageBytes
          /\ mem' = [a \in 0..(ImageBytes - 1) |-> Zero]
      BY <1>3, <2>1, <2>3 DEF PlaceElsewhere
    <3> HIDE DEF MapInv, TypeOK
    <3> QED
      BY <1>1, <2>1, <3>1, PlacedInv
  <2> QED
    BY <2>2, <2>3
<1>4. CASE PlaceAtBase
  <2>1. pc = "place" /\ placed' = TRUE /\ status = "none"
    BY <1>4 DEF PlaceAtBase, Stages
  <2>2. /\ pc' = "headers" /\ status' = "none" /\ mapped' = ImageBytes
        /\ mem' = [a \in 0..(ImageBytes - 1) |-> Zero]
    BY <1>4, <2>1 DEF PlaceAtBase
  <2> HIDE DEF MapInv, TypeOK
  <2> QED
    BY <1>1, <2>1, <2>2, PlacedInv
<1> QED
  BY <1>2, <1>3, <1>4

LEMMA HeadersBadInv ==
  ASSUME MapInv, HeadersBad
  PROVE  MapInv'
BY SameInput, MapperAssumption
DEF HeadersBad, Finish, MapInv, TypeOK, Stages, Cleared, Filled, WellFormedMaps, FailureUnmaps

(* A copy that leaves the mapping or the file: no such image is well-formed.*)
LEMMA CrashInv ==
  ASSUME MapInv, ~ WellFormed, UNCHANGED <<in, mapped, placed, mem, sec>>,
         pc' = "done", status' = "crash"
  PROVE  MapInv'
<1>1. TypeOK'
  BY DEF MapInv, TypeOK
<1>2. Stages' /\ Cleared'
  BY SameInput DEF MapInv, Stages, Cleared
<1>3. Filled' /\ WellFormedMaps'
  BY SameInput DEF Filled, WellFormedMaps
<1> QED
  BY <1>1, <1>2, <1>3 DEF MapInv, FailureUnmaps

LEMMA HeadersInv ==
  ASSUME MapInv, Headers
  PROVE  MapInv'
<1> USE DEF MapInv, TypeOK, Headers
<1>1. in' = in /\ sec' = sec /\ mapped' = mapped /\ placed' = placed /\ exec' = exec
  OBVIOUS
<1>2. /\ in.imageSize \in Nat /\ in.headerSize \in Nat /\ in.size \in Nat /\ mapped \in Nat
      /\ mapped = ImageBytes /\ sec = 0 /\ in.headerSize <= in.imageSize
      /\ FileEnd \in Int /\ FileEnd >= in.size /\ status = "none"
      /\ WellFormed => mapped >= in.imageSize /\ in.headerSize <= in.size
  BY InputFacts DEF Stages, BadHeaderSize, WellFormed
<1>3. CASE Fits(0, in.headerSize) /\ InFile(0, in.headerSize)
  <2>1. /\ mem' = [a \in DOMAIN mem |-> IF a < in.headerSize THEN FileByte(a) ELSE mem[a]]
        /\ pc' = "sections" /\ status' = status
    BY <1>3
  <2>2. Filled'
    <3>1. ASSUME WellFormed, NEW a \in 0..(mapped - 1)
          PROVE  mem'[a] = HeaderByte(a)
      BY <1>2, <2>1, <3>1 DEF Cleared, HeaderByte, FileByte
    <3> QED
      BY <1>1, <1>2, <3>1, SameInput DEF Filled, HeaderByte
  <2>3. TypeOK'
    BY <1>1, <2>1
  <2>4. Stages'
    BY <1>1, <1>2, <2>1, SameInput DEF Stages
  <2> QED
    BY <1>1, <1>2, <2>1, <2>2, <2>3, <2>4 DEF Cleared, WellFormedMaps, FailureUnmaps
<1>4. CASE ~ (Fits(0, in.headerSize) /\ InFile(0, in.headerSize))
  <2>1. ~ WellFormed
    BY <1>2, <1>4 DEF Fits, InFile
  <2>2. pc' = "done" /\ status' = "crash" /\ mem' = mem
    BY <1>4 DEF Finish
  <2> QED
    BY <1>1, <2>1, <2>2, CrashInv
<1> QED
  BY <1>3, <1>4

LEMMA CopySectionInv ==
  ASSUME MapInv, CopySection
  PROVE  MapInv'
<1> USE DEF MapInv, TypeOK, CopySection
<1> DEFINE s == in.sections[sec + 1]
<1>1. in' = in /\ mapped' = mapped /\ placed' = placed
  OBVIOUS
<1>2. /\ InputOK(in) /\ Len(in.sections) \in Nat /\ sec \in Nat /\ mapped \in Nat
      /\ DOMAIN in.sections = 1..Len(in.sections) /\ sec + 1 \in DOMAIN in.sections
      /\ mapped = ImageBytes /\ status = "none"
  BY InputFacts DEF Stages, InputOK
<1>3. /\ s.va \in Nat /\ s.raw \in Nat /\ s.rawSize \in Nat /\ Extent(s) \in Nat
  BY <1>2, SectionFacts
<1>4. WellFormed => /\ s.va + Extent(s) <= in.imageSize /\ in.imageSize <= mapped
                    /\ s.raw + s.rawSize <= in.size /\ in.size <= FileEnd
                    /\ FileEnd \in Int /\ in.size \in Nat /\ in.imageSize \in Nat
  BY <1>2, InputFacts DEF WellFormed
<1>5. CASE Fits(s.va, Max2(s.rawSize, s.vsize)) /\ InFile(s.raw, s.rawSize)
  <2>1. mem' = Copied(s) /\ sec' = sec + 1 /\ pc' = pc /\ status' = status
    BY <1>5
  <2>2. DOMAIN mem' = DOMAIN mem
    BY <2>1 DEF Copied
  <2>3. ASSUME WellFormed, NEW a \in 0..(mapped - 1)
        PROVE  /\ \A k \in 1..(sec + 1) :
                    a \in RangeOf(in.sections[k]) => mem'[a] = ByteOf(in.sections[k], a)
               /\ (\A k \in 1..(sec + 1) : a \notin RangeOf(in.sections[k])) =>
                    mem'[a] = HeaderByte(a)
    <3>1. mem'[a] = IF a \in RangeOf(s) THEN ByteOf(s, a) ELSE mem[a]
      <4>1. sec + 1 \in DOMAIN in.sections /\ a \in DOMAIN mem /\ a \in Nat
        BY <1>2
      <4>2. s.raw + s.rawSize <= in.size
        BY <1>4, <2>3
      <4>3. Copied(s)[a] = IF a \in RangeOf(s) THEN ByteOf(s, a) ELSE mem[a]
        BY <4>1, <4>2, CopiedBytes
      <4> QED
        BY <2>1, <4>3
    <3>2. ASSUME NEW k \in 1..sec, a \in RangeOf(in.sections[k])
          PROVE  a \notin RangeOf(s) /\ mem[a] = ByteOf(in.sections[k], a)
      <4>1. in.sections[k].va + Extent(in.sections[k]) <= s.va
        BY <1>2, <2>3 DEF WellFormed
      <4>2. k \in DOMAIN in.sections
        BY <1>2
      <4>3. in.sections[k].va \in Nat /\ Extent(in.sections[k]) \in Nat
        BY <4>2, SectionFacts
      <4>4. a \in Nat
        BY <1>2
      <4>5. a \notin RangeOf(s)
        BY <1>3, <3>2, <4>1, <4>3, <4>4, Apart
      <4>6. mem[a] = ByteOf(in.sections[k], a)
        BY <2>3, <3>2 DEF Filled
      <4> QED
        BY <4>5, <4>6
    <3>3. (\A k \in 1..sec : a \notin RangeOf(in.sections[k])) => mem[a] = HeaderByte(a)
      BY <2>3 DEF Filled
    <3> QED
      BY <1>2, <3>1, <3>2, <3>3
  <2>4. Filled'
    <3> SUFFICES ASSUME WellFormed, NEW a \in 0..(mapped - 1)
                 PROVE  /\ \A k \in 1..(sec + 1) :
                             a \in RangeOf(in.sections[k]) => mem'[a] = ByteOf(in.sections[k], a)
                        /\ (\A k \in 1..(sec + 1) : a \notin RangeOf(in.sections[k])) =>
                             mem'[a] = HeaderByte(a)
      <4>1. sec' = sec + 1 /\ mapped' = mapped /\ in' = in
        BY <1>1, <2>1
      <4> HIDE DEF MapInv, TypeOK, CopySection
      <4> QED
        BY <4>1, SameInput DEF Filled, HeaderByte
    <3> QED
      BY <2>3
  <2>5. TypeOK'
    BY <1>1, <1>2, <2>1, <2>2
  <2>6. Stages'
    BY <1>1, <1>2, <2>1, SameInput DEF Stages
  <2> QED
    BY <1>1, <1>2, <2>1, <2>4, <2>5, <2>6 DEF Cleared, WellFormedMaps, FailureUnmaps
<1>6. CASE ~ (Fits(s.va, Max2(s.rawSize, s.vsize)) /\ InFile(s.raw, s.rawSize))
  <2>1. ~ WellFormed
    <3> HIDE DEF MapInv, TypeOK, CopySection
    <3> SUFFICES ASSUME WellFormed
                 PROVE  Fits(s.va, Max2(s.rawSize, s.vsize)) /\ InFile(s.raw, s.rawSize)
      BY <1>6
    <3>1. Fits(s.va, Extent(s))
      BY <1>2, <1>3, <1>4 DEF Fits
    <3>2. InFile(s.raw, s.rawSize)
      BY <1>3, <1>4 DEF InFile
    <3> QED
      BY <3>1, <3>2 DEF Extent
  <2>2. pc' = "done" /\ status' = "crash" /\ mem' = mem /\ sec' = sec
    BY <1>6 DEF Finish
  <2> QED
    BY <1>1, <2>1, <2>2, CrashInv
<1> QED
  BY <1>5, <1>6

LEMMA StepInv == MapInv /\ [Next]_vars => MapInv'
<1> SUFFICES ASSUME MapInv, [Next]_vars
             PROVE  MapInv'
  OBVIOUS
<1>1. CASE Check
  BY <1>1, CheckInv
<1>2. CASE PlaceFails \/ PlaceElsewhere \/ PlaceAtBase
  BY <1>2, PlaceInv
<1>3. CASE HeadersBad
  BY <1>3, HeadersBadInv
<1>4. CASE Headers
  BY <1>4, HeadersInv
<1>5. CASE CopySection
  BY <1>5, CopySectionInv
<1>6. CASE SectionsDone
  BY <1>6, SameInput
  DEF SectionsDone, Finish, MapInv, TypeOK, Stages, Cleared, Filled, HeaderByte, WellFormedMaps,
      FailureUnmaps
<1>7. CASE OpenIat
  BY <1>7, SameInput
  DEF OpenIat, MapInv, TypeOK, Stages, Cleared, Filled, HeaderByte, WellFormedMaps,
      FailureUnmaps
<1>8. CASE UNCHANGED vars
  BY <1>8, SameInput
  DEF vars, MapInv, TypeOK, Stages, Cleared, Filled, WellFormedMaps, FailureUnmaps
<1> QED
  BY <1>1, <1>2, <1>3, <1>4, <1>5, <1>6, <1>7, <1>8 DEF Next, Step

(* The inductive invariant holds of every call of map_pe.                  *)
THEOREM MapInvariance == Spec => []MapInv
BY InitInv, StepInv, PTL DEF Spec

(* map_pe keeps its state well formed.                                     *)
THEOREM MapTypeCorrect == Spec => []TypeOK
<1>1. MapInv => TypeOK
  BY DEF MapInv
<1> QED
  BY <1>1, MapInvariance, PTL

(* A call of map_pe that fails and returns leaves nothing mapped           *)
(* (mapper.c:35-46, 99-123).                                               *)
THEOREM MapFailureUnmaps == Spec => []FailureUnmaps
<1>1. MapInv => FailureUnmaps
  BY DEF MapInv
<1> QED
  BY <1>1, MapInvariance, PTL

(* Mapping a well-formed image crashes only where mmap fails: no copy      *)
(* leaves the mapping or the file (mapper.c:48-72).                        *)
THEOREM MapWellFormedMaps == Spec => []WellFormedMaps
<1>1. MapInv => WellFormedMaps
  BY DEF MapInv
<1> QED
  BY <1>1, MapInvariance, PTL

(* Every byte of a well-formed image is the one of its section or header   *)
(* (mapper.c:48-72).                                                       *)
THEOREM MapImageFaithful == Spec => []ImageFaithful
<1>1. MapInv => ImageFaithful
  <2> SUFFICES ASSUME MapInv, status = "SUCCESS", WellFormed
               PROVE  /\ mapped >= in.imageSize
                      /\ \A a \in 0..(mapped - 1) : mem[a] = Source(a)
    BY DEF ImageFaithful
  <2>1. mapped >= in.imageSize
    BY InputFacts DEF MapInv, Stages
  <2>2. sec = Len(in.sections) /\ DOMAIN in.sections = 1..sec
    BY InputFacts DEF MapInv, Stages, InputOK
  <2>3. ASSUME NEW a \in 0..(mapped - 1)
        PROVE  mem[a] = Source(a)
    <3> DEFINE owners == {k \in DOMAIN in.sections : a \in RangeOf(in.sections[k])}
               owner == CHOOSE k \in owners : TRUE
    <3>1. Source(a) = IF owners # {} THEN ByteOf(in.sections[owner], a) ELSE HeaderByte(a)
      BY DEF Source, RangeOf, ByteOf, HeaderByte
    <3>2. CASE owners # {}
      <4>1. owner \in owners
        BY <3>2
      <4>2. mem[a] = ByteOf(in.sections[owner], a)
        BY <2>2, <2>3, <4>1 DEF MapInv, Filled
      <4> QED
        BY <3>1, <3>2, <4>2
    <3>3. CASE owners = {}
      <4>1. mem[a] = HeaderByte(a)
        BY <2>2, <2>3, <3>3 DEF MapInv, Filled
      <4> QED
        BY <3>1, <3>3, <4>1
    <3> QED
      BY <3>2, <3>3
  <2> QED
    BY <2>1, <2>3
<1> QED
  BY <1>1, MapInvariance, PTL
-----------------------------------------------------------------------------
(* Which pages are executable.                                             *)
LEMMA DivBounds ==
  ASSUME NEW n \in Nat
  PROVE  /\ n \div Page \in Nat
         /\ Page * (n \div Page) <= n /\ n < Page * (n \div Page) + Page
         /\ n % Page = 0 => n = Page * (n \div Page)
BY MapperAssumption

LEMMA LessByPages ==
  ASSUME NEW p \in Int, NEW q \in Int, Page * p < Page * q
  PROVE  p < q
<1>1. Page \in Nat \ {0}
  BY MapperAssumption
<1>2. CASE p >= q
  <2>1. (p - q) * Page >= 0
    BY <1>1, <1>2
  <2> QED
    BY <1>1, <2>1
<1> QED
  BY <1>2

(* Every byte of a section on pages of its own is on one of its pages.     *)
LEMMA BytesOnPages ==
  ASSUME NEW s, s.va \in Nat, s.vsize \in Nat, s.va % Page = 0, s.vsize <= U32 - Page,
         mapped \in Nat, s.va + s.vsize <= mapped, NEW a \in s.va..(s.va + s.vsize - 1)
  PROVE  a \div Page \in PagesOf(s)
<1> DEFINE R == RoundUp(s.vsize)
<1>1. R \in Nat /\ R >= s.vsize /\ R % Page = 0 /\ U32 \in Nat /\ Page \in Nat \ {0}
  BY RoundUpIsPages, MapperAssumption
<1>2. a \in Nat /\ s.va <= a /\ a < s.va + R /\ a < mapped
  BY <1>1
<1> HIDE DEF R
<1>3. /\ R = Page * (R \div Page) /\ s.va = Page * (s.va \div Page)
      /\ R \div Page \in Nat /\ s.va \div Page \in Nat
  BY <1>1, DivBounds
<1>4. a \div Page < s.va \div Page + R \div Page
  <2>1. Page * (a \div Page) <= a /\ a \div Page \in Nat
    BY <1>2, DivBounds
  <2>2. Page * (s.va \div Page + R \div Page) = s.va + R
    BY <1>1, <1>3
  <2> QED
    BY <1>1, <1>2, <1>3, <2>1, <2>2, LessByPages
<1>5. s.va \div Page <= a \div Page
  <2>1. a < Page * (a \div Page + 1) /\ a \div Page \in Nat
    BY <1>1, <1>2, DivBounds
  <2>2. Page * (s.va \div Page) < Page * (a \div Page + 1)
    BY <1>1, <1>2, <1>3, <2>1
  <2> QED
    BY <1>3, <2>1, <2>2, LessByPages
<1>6. a \div Page <= mapped \div Page
  <2>1. mapped < Page * (mapped \div Page + 1) /\ mapped \div Page \in Nat
    BY <1>1, DivBounds
  <2>2. Page * (a \div Page) <= a /\ a \div Page \in Nat
    BY <1>2, DivBounds
  <2> QED
    BY <1>1, <1>2, <2>1, <2>2, LessByPages
<1> QED
  BY <1>2, <1>3, <1>4, <1>5, <1>6, DivBounds DEF PagesOf, R

(* The pages made writable are those of the table and at most one more.    *)
LEMMA IatPagesFew ==
  ASSUME in \in Inputs
  PROVE  IatPages \subseteq
           (in.iat.va \div Page)..((in.iat.va + Max2(in.iat.size, 1) - 1) \div Page + 1)
<1> DEFINE v == in.iat.va
           z == in.iat.size
           z1 == Max2(z, 1)
           q == (z + 2 * Page - 1) \div Page
           l == (v + z1 - 1) \div Page
<1>1. v \in Nat /\ z \in Nat /\ Page \in Nat \ {0}
  BY InputFacts, MapperAssumption DEF InputOK
<1>2. z1 \in Nat /\ z1 >= 1 /\ z1 >= z
  BY <1>1 DEF Max2
<1> HIDE DEF z1
<1>3. v + z1 - 1 \in Nat /\ z + 2 * Page - 1 \in Nat
  BY <1>1, <1>2
<1>4. /\ v \div Page \in Nat /\ Page * (v \div Page) <= v
      /\ q \in Nat /\ Page * q <= z + 2 * Page - 1
      /\ l \in Nat /\ v + z1 - 1 < Page * l + Page
  BY <1>1, <1>3, DivBounds
<1> HIDE DEF q, l
<1>5. Page * (v \div Page + q) < Page * (l + 3)
  BY <1>1, <1>2, <1>4
<1>6. v \div Page + q < l + 3
  BY <1>4, <1>5, LessByPages
<1> QED
  BY <1>1, <1>4, <1>6 DEF IatPages, q, l, z1

Executable ==
  (pc = "sections" \/ status = "SUCCESS") /\ WellFormed =>
    \A k \in 1..sec :
      \A a \in in.sections[k].va..(in.sections[k].va + in.sections[k].vsize - 1) :
        a \div Page \in exec \/ (pc = "bound" /\ a \div Page \in IatPages)

LEMMA ExecutableStep == MapInv /\ Executable /\ [Next]_vars => Executable'
<1> SUFFICES ASSUME MapInv, Executable, [Next]_vars
             PROVE  Executable'
  OBVIOUS
<1> USE DEF MapInv
<1>1. in' = in /\ (WellFormed' <=> WellFormed) /\ (IatPages' = IatPages)
  BY SameInput DEF Next, Step, Check, PlaceFails, PlaceElsewhere, PlaceAtBase, HeadersBad, Headers,
     CopySection, SectionsDone, OpenIat, vars, IatPages
<1>2. CASE CopySection
  <2> SUFFICES ASSUME pc' = "sections", WellFormed, NEW k \in 1..sec',
                      NEW a \in in.sections[k].va..(in.sections[k].va + in.sections[k].vsize - 1)
               PROVE  a \div Page \in exec'
    BY <1>1, <1>2 DEF Executable, CopySection, Finish, Stages
  <2>1. /\ exec' = exec \cup PagesOf(in.sections[sec + 1]) /\ sec' = sec + 1
        /\ sec < Len(in.sections) /\ pc = "sections"
    BY <1>2 DEF CopySection, Finish
  <2>2. sec \in Nat /\ Len(in.sections) \in Nat /\ DOMAIN in.sections = 1..Len(in.sections)
    BY InputFacts DEF TypeOK, InputOK
  <2>3. CASE k \in 1..sec
    BY <1>1, <2>1, <2>3 DEF Executable
  <2>4. CASE k = sec + 1
    <3> DEFINE s == in.sections[k]
    <3>1. k \in DOMAIN in.sections
      BY <2>1, <2>2, <2>4
    <3>2. s.va \in Nat /\ s.vsize \in Nat /\ Extent(s) \in Nat /\ Extent(s) >= s.vsize
      BY <3>1, SectionFacts
    <3>3. s.va % Page = 0 /\ s.va + Extent(s) <= in.imageSize /\ in.imageSize <= U32 - Page
      BY <3>1 DEF WellFormed
    <3>4. mapped \in Nat /\ in.imageSize \in Nat /\ in.imageSize <= mapped
      BY <2>1, InputFacts, MapperAssumption DEF Stages
    <3>5. s.vsize <= U32 - Page /\ s.va + s.vsize <= mapped
      BY <3>2, <3>3, <3>4, MapperAssumption
    <3>6. a \div Page \in PagesOf(s)
      <4> HIDE DEF s
      <4> QED
        BY <3>2, <3>3, <3>4, <3>5, BytesOnPages DEF s
    <3> QED
      BY <2>1, <2>4, <3>6
  <2> QED
    BY <2>1, <2>2, <2>3, <2>4
<1>3. CASE OpenIat
  BY <1>1, <1>3 DEF OpenIat, Executable
<1>4. CASE SectionsDone
  BY <1>1, <1>4 DEF SectionsDone, Finish, Executable
<1>5. CASE Headers
  <2>1. sec' = 0
    BY <1>5 DEF Headers, Stages
  <2> QED
    BY <2>1 DEF Executable
<1>6. CASE Check \/ PlaceFails \/ PlaceElsewhere \/ PlaceAtBase \/ HeadersBad
  <2>1. pc' # "sections" /\ status = "none" /\ in.build \in {64, 32}
    BY <1>6, InputFacts
    DEF InputOK, Stages, Check, PlaceFails, PlaceElsewhere, PlaceAtBase, HeadersBad, Finish
  <2>2. status' # "SUCCESS"
    BY <1>6, <2>1 DEF Check, PlaceFails, PlaceElsewhere, PlaceAtBase, HeadersBad, Finish
  <2> QED
    BY <2>1, <2>2 DEF Executable
<1>7. CASE UNCHANGED vars
  BY <1>1, <1>7 DEF vars, Executable
<1> QED
  BY <1>2, <1>3, <1>4, <1>5, <1>6, <1>7 DEF Next, Step

(* Every byte of a section's virtual size is executable when map_pe        *)
(* returns, and binding takes that from the pages of the import address    *)
(* table and at most one more (mapper.c:61-76, imports.c:40-44).           *)
THEOREM MapSectionsExecutable == Spec => []SectionsExecutable
<1>1. Init => Executable
  BY DEF Init, Executable
<1>2. MapInv /\ Executable => SectionsExecutable
  <2> SUFFICES ASSUME MapInv, Executable, status = "SUCCESS", WellFormed,
                      NEW k \in DOMAIN in.sections,
                      NEW a \in in.sections[k].va..(in.sections[k].va + in.sections[k].vsize - 1),
                      a \div Page \notin exec
               PROVE  /\ pc = "bound"
                      /\ a \div Page \in
                           (in.iat.va \div Page)..
                             ((in.iat.va + Max2(in.iat.size, 1) - 1) \div Page + 1)
    BY DEF SectionsExecutable
  <2>1. k \in 1..sec
    BY InputFacts DEF MapInv, Stages, InputOK
  <2>2. pc = "bound" /\ a \div Page \in IatPages
    BY <2>1 DEF Executable
  <2> QED
    BY <2>2, IatPagesFew DEF MapInv
<1> QED
  BY <1>1, <1>2, ExecutableStep, MapInvariance, PTL DEF Spec
=============================================================================
