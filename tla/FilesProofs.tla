---------------------------- MODULE FilesProofs ----------------------------
(***************************************************************************)
(* Proofs about Files, as FindFile runs it: for any names, descriptors and *)
(* bounds, whatever the guest and other processes do.                      *)
(***************************************************************************)
EXTENDS FindFile, FiniteSetTheorems, SequenceTheorems, WellFoundedInduction, TLAPS

Descriptor == [file : Node \cup {NoFile}, pos : 0..MaxSize, rw : BOOLEAN]
Numbers == DOMAIN TempAt

FileTypes ==
  /\ node \in [Name -> Node \cup {NoFile, NotRegular}]
  /\ \A n \in Plain : node[n] # NotRegular
  /\ size \in [Node -> 0..MaxSize]
  /\ fd \in [0..MaxFd -> Descriptor] /\ fd[0] = Closed
  /\ clock \in Numbers
  /\ temp \in {0} \cup Plain

(* The descriptors in use are as many as the calls that opened a file.     *)
InUse == {h \in 1..MaxFd : IsOpen(h)}

FilesInv == FileTypes /\ opens = Cardinality(InUse)

(* The position noted is that of a handle which is still open.             *)
MarkTrue ==
  mark # NoMark =>
    /\ mark.h \in 1..MaxFd /\ IsOpen(mark.h)
    /\ mark.pos \in 0..MaxSize
    /\ mark.low = mark.pos % W /\ mark.high = mark.pos \div W

PositionsInv == FilesInv /\ MarkTrue /\ PositionRestored /\ SizeTold /\ OpenExplained
-----------------------------------------------------------------------------
(* A set of numbers has a least element, which Least chooses.              *)
LEMMA LeastIn ==
  ASSUME NEW T, T \subseteq Nat, T # {}
  PROVE  Least(T) \in T /\ \A y \in T : Least(T) <= y
<1> DEFINE R == OpToRel(<, Nat)
<1>1. IsWellFoundedOn(R, Nat)
  BY NatLessThanWellFounded
<1>2. \A x, y \in Nat : y < x => <<y, x>> \in R
  BY DEF OpToRel
<1> HIDE DEF R
<1>3. PICK x \in T : \A y \in T : ~ (<<y, x>> \in R)
  <2>1. \A U \in SUBSET Nat : U # {} => \E x \in U : \A y \in U : ~ (<<y, x>> \in R)
    BY <1>1, WFMin
  <2> QED
    BY <2>1, Zenon
<1>4. ASSUME NEW y \in T
      PROVE  ~ (y < x)
  BY <1>2, <1>3
<1>5. \A y \in T : x <= y
  BY <1>4
<1> QED
  BY <1>5 DEF Least

(* There are more files than names and descriptors together, so one is     *)
(* always left that nobody has a name or a descriptor of.                  *)
LEMMA FreshIsNew ==
  ASSUME FilesInv
  PROVE  /\ Fresh \in Node
         /\ \A n \in Name : node[n] # Fresh
         /\ \A h \in 0..MaxFd : fd[h].file # Fresh
<1> DEFINE Named == {node[n] : n \in Name}
           Open == {fd[h].file : h \in 1..MaxFd}
<1>1. PICK k \in Nat : Name = 1..k
  BY FS_CardinalityType, FilesAssumption
<1> MaxFd \in Nat
  BY FilesAssumption
<1>2. IsFiniteSet(Name) /\ Cardinality(Name) = k
  BY <1>1, FS_Interval
<1>3. IsFiniteSet(Node) /\ Cardinality(Node) = k + MaxFd + 1
  <2>1. 1 \in Int /\ k + MaxFd + 1 \in Int
    OBVIOUS
  <2>2. Node = 1..(k + MaxFd + 1)
    BY <1>2 DEF Node
  <2> QED
    BY <2>1, <2>2, FS_Interval
<1>4. IsFiniteSet(Named) /\ Cardinality(Named) <= k
  <2> DEFINE f == [n \in Name |-> node[n]]
  <2>1. f \in Surjection(Name, Named)
    BY DEF Surjection
  <2> QED
    BY <2>1, <1>2, FS_Surjection
<1>5. IsFiniteSet(Open) /\ Cardinality(Open) <= MaxFd
  <2> DEFINE f == [h \in 1..MaxFd |-> fd[h].file]
  <2>1. f \in Surjection(1..MaxFd, Open)
    BY DEF Surjection
  <2>2. IsFiniteSet(1..MaxFd) /\ Cardinality(1..MaxFd) = MaxFd
    <3>1. 1 \in Int /\ MaxFd \in Int
      OBVIOUS
    <3> QED
      BY <3>1, FS_Interval
  <2> QED
    BY <2>1, <2>2, FS_Surjection
<1>6. IsFiniteSet(Named \cup Open) /\ Cardinality(Named \cup Open) <= k + MaxFd
  <2>1. Cardinality(Named \cap Open) \in Nat
    BY <1>4, FS_Intersection, FS_CardinalityType
  <2>2. Cardinality(Named) \in Nat /\ Cardinality(Open) \in Nat
    BY <1>4, <1>5, FS_CardinalityType
  <2>3. /\ IsFiniteSet(Named \cup Open)
        /\ Cardinality(Named \cup Open)
             = Cardinality(Named) + Cardinality(Open) - Cardinality(Named \cap Open)
    BY <1>4, <1>5, FS_Union
  <2> HIDE DEF Named, Open
  <2> QED
    BY <1>4, <1>5, <2>1, <2>2, <2>3
<1>7. Cardinality(Named \cup Open) \in Nat
  BY <1>6, FS_CardinalityType
<1>8. ~ (Node \subseteq Named \cup Open)
  <2>1. Node \subseteq Named \cup Open => Cardinality(Node) <= Cardinality(Named \cup Open)
    BY <1>6, FS_Subset
  <2> HIDE DEF Named, Open
  <2> QED
    BY <1>3, <1>6, <1>7, <2>1
<1> DEFINE Used == {node[n] : n \in Name} \cup {fd[h].file : h \in DOMAIN fd}
<1>9. Used \cap Node \subseteq Named \cup Open
  <2>1. fd[0].file \notin Node /\ DOMAIN fd = 0..MaxFd
    BY <1>2 DEF FilesInv, FileTypes, Closed, NoFile, Node
  <2> QED
    BY <2>1
<1>10. Node \ Used # {} /\ Node \ Used \subseteq Nat
  <2> HIDE DEF Used, Named, Open
  <2>1. Node \ Used # {}
    BY <1>8, <1>9
  <2>2. Node \subseteq Nat
    BY <1>2 DEF Node
  <2> QED
    BY <2>1, <2>2
<1>11. Fresh \in Node \ Used
  BY <1>10, LeastIn DEF Fresh
<1> QED
  BY <1>11 DEF FilesInv, FileTypes

(* The descriptor a file gets is one that was closed.                      *)
LEMMA DescriptorIsFree ==
  ASSUME Free # {}
  PROVE  Least(Free) \in 1..MaxFd /\ fd[Least(Free)].file = NoFile
<1>1. Free \subseteq Nat
  BY FilesAssumption DEF Free
<1>2. Least(Free) \in Free
  BY <1>1, LeastIn
<1> QED
  BY <1>2 DEF Free

(* How many descriptors are in use.                                        *)
LEMMA UseCounted ==
  ASSUME MaxFd \in Nat, FilesInv
  PROVE  /\ IsFiniteSet(InUse) /\ opens \in 0..MaxFd
         /\ Free = {} <=> opens = MaxFd
<1>1. IsFiniteSet(1..MaxFd) /\ Cardinality(1..MaxFd) = MaxFd /\ InUse \subseteq 1..MaxFd
  BY FS_Interval DEF InUse
<1>2. /\ IsFiniteSet(InUse) /\ opens <= MaxFd /\ opens \in Nat
      /\ opens = MaxFd => InUse = 1..MaxFd
  BY <1>1, FS_Subset, FS_CardinalityType DEF FilesInv
<1>3. Free = {} <=> InUse = 1..MaxFd
  BY DEF Free, InUse, IsOpen
<1> QED
  BY <1>1, <1>2, <1>3 DEF FilesInv

(* Steps that leave the descriptors with their files.                      *)
LEMMA SameFiles ==
  ASSUME FilesInv, opens' = opens, FileTypes',
         \A h \in 0..MaxFd : fd'[h].file = fd[h].file
  PROVE  FilesInv'
<1>1. InUse' = InUse
  BY FilesAssumption DEF InUse, IsOpen
<1> QED
  BY <1>1 DEF FilesInv

(* A name lost, and a name gained, for a file that is new.                 *)
LEMMA NameLost ==
  ASSUME FilesInv, NEW n \in Name, Lose(n),
         opens' = opens, fd' = fd, clock' = clock, temp' = temp
  PROVE  FilesInv'
<1>1. /\ node' = [node EXCEPT ![n] = NoFile] /\ NoFile \notin Node
      /\ node' \in [Name -> Node \cup {NoFile, NotRegular}]
  BY DEF Lose, FilesInv, FileTypes, NoFile, Node
<1>2. size' \in [Node -> 0..MaxSize]
  BY FilesAssumption DEF Lose, Kept, FilesInv, FileTypes
<1>3. FileTypes'
  BY <1>1, <1>2 DEF FilesInv, FileTypes, NoFile, NotRegular
<1> QED
  BY <1>3, SameFiles

LEMMA NameGained ==
  ASSUME FilesInv, NEW n \in Name, Gain(n),
         opens' = opens, fd' = fd, clock' = clock, temp' = temp
  PROVE  FilesInv'
<1> DEFINE f == IF n \in Folder \cup Dangling THEN NotRegular ELSE Fresh
<1>1. node' = [node EXCEPT ![n] = f] /\ size' = size
  BY DEF Gain
<1>2. f \in Node \cup {NotRegular} /\ (n \in Plain => f \in Node) /\ NotRegular \notin Node
  BY FreshIsNew DEF Plain, Node, NotRegular
<1> HIDE DEF f
<1>3. FileTypes'
  BY <1>1, <1>2 DEF FilesInv, FileTypes, Plain
<1> QED
  BY <1>3, SameFiles

(* Opening a file takes a descriptor, and the answer says whether it did.  *)
LEMMA OpeningKeeps ==
  ASSUME FilesInv, NEW n \in Plain, NEW d \in Disposition, NEW rw \in BOOLEAN,
         CreateFileW(n, d, rw)
  PROVE  /\ FilesInv' /\ OpenExplained'
         /\ \A h \in 1..MaxFd : IsOpen(h) => IsOpen(h)' /\ fd'[h].pos = fd[h].pos
<1>1. clock' = clock /\ temp' = temp /\ n \in Name
  BY DEF CreateFileW, naming, Plain
<1>2. asked' = [op |-> "open", how |-> d, there |-> n \in Dir, used |-> opens]
  BY DEF CreateFileW
<1>3. MaxFd \in Nat /\ (Free = {} <=> opens = MaxFd) /\ opens \in Nat /\ IsFiniteSet(InUse)
  BY UseCounted, FilesAssumption
<1>4. CASE Free = {} \/ (n \notin Dir /\ ~ Creates(d))
  <2>1. UNCHANGED <<disk, fd, opens>> /\ answer' = 0
    BY <1>4 DEF CreateFileW
  <2>2. FileTypes'
    BY <1>1, <2>1 DEF FilesInv, FileTypes, disk
  <2>3. FilesInv'
    BY <2>1, <2>2, SameFiles
  <2>4. OpenExplained'
    BY <1>2, <1>3, <1>4, <2>1 DEF OpenExplained, Creates
  <2> QED
    BY <2>1, <2>3, <2>4 DEF IsOpen
<1>5. CASE ~ (Free = {} \/ (n \notin Dir /\ ~ Creates(d)))
  <2> DEFINE f == IF n \in Dir THEN node[n] ELSE Fresh
             h == Least(Free)
  <2>1. /\ node' = [node EXCEPT ![n] = f]
        /\ size' = IF Truncates(d) THEN [size EXCEPT ![f] = 0] ELSE size
        /\ fd' = [fd EXCEPT ![h] = [file |-> f, pos |-> 0, rw |-> rw]]
        /\ opens' = opens + 1 /\ answer' = h
    BY <1>5 DEF CreateFileW
  <2>2. h \in 1..MaxFd /\ fd[h].file = NoFile
    BY <1>5, DescriptorIsFree
  <2>3. f \in Node
    BY <1>1, FreshIsNew DEF Dir, FilesInv, FileTypes
  <2>4. NoFile \notin Node /\ h \in 0..MaxFd /\ h # 0
    BY <2>2, FilesAssumption DEF NoFile, Node
  <2> HIDE DEF f, h
  <2>5. FileTypes'
    <3>1. node' \in [Name -> Node \cup {NoFile, NotRegular}] /\ \A m \in Plain : node'[m] # NotRegular
      BY <1>1, <2>1, <2>3 DEF FilesInv, FileTypes, Plain, Node, NotRegular
    <3>2. size' \in [Node -> 0..MaxSize]
      BY <2>1, <2>3, FilesAssumption DEF FilesInv, FileTypes
    <3>3. fd' \in [0..MaxFd -> Descriptor] /\ fd'[0] = Closed
      <4>1. [file |-> f, pos |-> 0, rw |-> rw] \in Descriptor
        BY <2>3, FilesAssumption DEF Descriptor
      <4> QED
        BY <4>1, <2>1, <2>4 DEF FilesInv, FileTypes
    <3> QED
      BY <3>1, <3>2, <3>3, <1>1 DEF FilesInv, FileTypes
  <2>6. opens' = Cardinality(InUse')
    <3>1. InUse' = InUse \cup {h} /\ h \notin InUse
      BY <1>3, <2>1, <2>2, <2>3, <2>4 DEF InUse, IsOpen, FilesInv, FileTypes
    <3> QED
      BY <1>3, <2>1, <3>1, FS_AddElement DEF FilesInv
  <2>7. \A i \in 1..MaxFd : IsOpen(i) => IsOpen(i)' /\ fd'[i].pos = fd[i].pos
    BY <2>1, <2>2, FilesAssumption DEF IsOpen, FilesInv, FileTypes
  <2>8. OpenExplained'
    BY <1>2, <1>3, <1>5, <2>1, <2>4 DEF OpenExplained, Creates
  <2> QED
    BY <2>5, <2>6, <2>7, <2>8 DEF FilesInv
<1> QED
  BY <1>4, <1>5
-----------------------------------------------------------------------------
(* The two halves of a number.                                             *)
LEMMA Halves ==
  ASSUME NEW w \in Nat \ {0}, NEW p \in Nat
  PROVE  /\ p \div w \in Nat /\ p % w \in 0..(w - 1)
         /\ (p \div w) * w + (p % w) = p
         /\ p < w * w => p \div w < w
<1>1. p \div w \in Nat /\ p % w \in 0..(w - 1)
  OBVIOUS
<1>2. (p \div w) * w + (p % w) = p
  OBVIOUS
<1>3. ASSUME p < w * w, p \div w >= w
      PROVE  FALSE
  <2>1. \A q \in Nat : q >= w => q * w >= w * w
    OBVIOUS
  <2> QED
    BY <1>1, <1>2, <1>3, <2>1
<1> QED
  BY <1>1, <1>2, <1>3

(* A move of the pointer.                                                  *)
LEMMA PointerMoves ==
  ASSUME FilesInv, NEW h \in 0..MaxFd, NEW low \in Int, NEW high \in Int,
         NEW method \in Method, SetFilePointer(h, low, high, method)
  PROVE  /\ FilesInv'
         /\ \A i \in 0..MaxFd : IsOpen(i)' <=> IsOpen(i)
<1> DEFINE new == Base(h, method) + Distance(low, high)
<1>1. new \in Int
  <2>1. IsOpen(h) => SizeOf(h) \in 0..MaxSize
    BY DEF FilesInv, FileTypes, Descriptor, IsOpen, SizeOf
  <2>2. Base(h, method) \in Nat
    BY <2>1, FilesAssumption DEF Base, FilesInv, FileTypes, Descriptor, Method
  <2>3. W \in Int
    BY FilesAssumption
  <2>4. high * W + low \in Int
    BY <2>3
  <2>5. Distance(low, high) \in Int
    BY <2>4 DEF Distance
  <2> QED
    BY <2>2, <2>5
<1>2. new <= MaxSize /\ UNCHANGED <<disk, opens, naming>>
  BY DEF SetFilePointer
<1>3. fd' = fd \/ (fd' = [fd EXCEPT ![h].pos = new] /\ IsOpen(h) /\ new >= 0)
  BY DEF SetFilePointer
<1> HIDE DEF new
<1>4. FileTypes' /\ \A i \in 0..MaxFd : fd'[i].file = fd[i].file
  <2>1. CASE fd' = fd
    BY <2>1, <1>2 DEF FilesInv, FileTypes, disk, naming
  <2>2. CASE fd' = [fd EXCEPT ![h].pos = new] /\ IsOpen(h) /\ new >= 0
    <3>1. new \in 0..MaxSize /\ h # 0
      BY <2>2, <1>1, <1>2, FilesAssumption DEF FilesInv, FileTypes, IsOpen, Closed
    <3>2. fd' \in [0..MaxFd -> Descriptor] /\ fd'[0] = Closed
      <4>1. fd[h] \in Descriptor
        BY DEF FilesInv, FileTypes
      <4>2. [fd[h] EXCEPT !.pos = new] \in Descriptor
        BY <3>1, <4>1 DEF Descriptor
      <4>3. fd' = [fd EXCEPT ![h] = [fd[h] EXCEPT !.pos = new]]
        BY <2>2
      <4> QED
        BY <3>1, <4>2, <4>3, FilesAssumption DEF FilesInv, FileTypes
    <3>3. \A i \in 0..MaxFd : fd'[i].file = fd[i].file
      BY <2>2, <3>1 DEF FilesInv, FileTypes, Descriptor
    <3> QED
      BY <3>2, <3>3, <1>2 DEF FilesInv, FileTypes, disk, naming
  <2> QED
    BY <1>3, <2>1, <2>2
<1>5. FilesInv'
  BY <1>2, <1>4, SameFiles
<1> QED
  BY <1>4, <1>5 DEF IsOpen

(* Reading and writing.                                                    *)
LEMMA ReadingKeeps ==
  ASSUME FilesInv, NEW h \in 0..MaxFd, NEW n \in Amounts,
         ReadFile(h, n) \/ WriteFile(h, n)
  PROVE  /\ FilesInv'
         /\ \A i \in 0..MaxFd : IsOpen(i)' <=> IsOpen(i)
<1>1. /\ node' = node /\ opens' = opens /\ clock' = clock /\ temp' = temp
      /\ n \in Nat /\ MaxSize \in Nat
  BY FilesAssumption, FindFileAssumption DEF ReadFile, WriteFile, disk, naming
<1>2. fd[h] \in Descriptor /\ fd[0] = Closed
  BY DEF FilesInv, FileTypes
<1>3. PICK p \in 0..MaxSize :
        fd' = fd \/ (fd' = [fd EXCEPT ![h].pos = p] /\ IsOpen(h))
  <2>1. CASE ReadFile(h, n) /\ IsOpen(h)
    <3>1. SizeOf(h) \in 0..MaxSize
      BY <2>1, <1>2 DEF IsOpen, SizeOf, FilesInv, FileTypes, Descriptor
    <3>2. Max2(fd[h].pos, Min2(fd[h].pos + n, SizeOf(h))) \in 0..MaxSize
      BY <3>1, <1>1, <1>2 DEF Max2, Min2, Descriptor
    <3> QED
      BY <2>1, <3>2 DEF ReadFile
  <2>2. CASE WriteFile(h, n) /\ IsOpen(h)
    <3>1. fd[h].pos + n \in 0..MaxSize
      BY <2>2, <1>1, <1>2 DEF WriteFile, Descriptor
    <3> QED
      BY <2>2, <3>1 DEF WriteFile
  <2>3. CASE ~ IsOpen(h)
    BY <2>3, <1>1 DEF ReadFile, WriteFile
  <2> QED
    BY <2>1, <2>2, <2>3
<1>4. size' \in [Node -> 0..MaxSize]
  <2>1. CASE size' = size
    BY <2>1 DEF FilesInv, FileTypes
  <2>2. CASE WriteFile(h, n) /\ IsOpen(h) /\ size' # size
    <3>1. fd[h].pos + n \in 0..MaxSize /\ size[fd[h].file] \in 0..MaxSize
      BY <2>2, <1>1, <1>2 DEF WriteFile, Descriptor, IsOpen, FilesInv, FileTypes
    <3>2. Max2(size[fd[h].file], fd[h].pos + n) \in 0..MaxSize
      BY <3>1, <1>1 DEF Max2
    <3>3. size' = [size EXCEPT ![fd[h].file] = Max2(@, fd[h].pos + n)]
      BY <2>2 DEF WriteFile
    <3> QED
      BY <3>2, <3>3 DEF FilesInv, FileTypes
  <2> QED
    BY <2>1, <2>2 DEF ReadFile, WriteFile, disk
<1>5. FileTypes' /\ \A i \in 0..MaxFd : fd'[i].file = fd[i].file
  <2>1. CASE fd' = fd
    BY <2>1, <1>1, <1>4 DEF FilesInv, FileTypes
  <2>2. CASE fd' = [fd EXCEPT ![h].pos = p] /\ IsOpen(h)
    <3>1. h # 0
      BY <2>2, <1>2 DEF IsOpen, Closed
    <3>2. fd' \in [0..MaxFd -> Descriptor] /\ fd'[0] = Closed
      <4>1. fd[h] \in Descriptor
        BY DEF FilesInv, FileTypes
      <4>2. [fd[h] EXCEPT !.pos = p] \in Descriptor
        BY <3>1, <4>1 DEF Descriptor
      <4>3. fd' = [fd EXCEPT ![h] = [fd[h] EXCEPT !.pos = p]]
        BY <2>2
      <4> QED
        BY <3>1, <4>2, <4>3, FilesAssumption DEF FilesInv, FileTypes
    <3>3. \A i \in 0..MaxFd : fd'[i].file = fd[i].file
      BY <2>2 DEF FilesInv, FileTypes, Descriptor
    <3> QED
      BY <3>2, <3>3, <1>1, <1>4 DEF FilesInv, FileTypes
  <2> QED
    BY <1>3, <2>1, <2>2
<1>6. FilesInv'
  BY <1>1, <1>5, SameFiles
<1> QED
  BY <1>5, <1>6 DEF IsOpen
-----------------------------------------------------------------------------
(* What has a descriptor keeps it.                                         *)
StaysOpen == \A h \in 1..MaxFd : IsOpen(h) => IsOpen(h)'

LEMMA InitFiles == Init => FilesInv
<1> SUFFICES ASSUME Init PROVE FilesInv
  OBVIOUS
<1>1. PICK k \in Nat : Name = 1..k
  BY FS_CardinalityType, FilesAssumption
<1>2. MaxFd \in Nat /\ MaxSize \in Nat /\ Cardinality(Name) = k
  BY <1>1, FS_Interval, FilesAssumption
<1>3. PICK present \in SUBSET Name, sizes \in [Plain -> 0..MaxSize] :
        /\ node = [n \in Name |-> IF n \notin present THEN NoFile
                                  ELSE IF n \in Plain THEN n ELSE NotRegular]
        /\ size = [f \in Node |-> IF f \in present \cap Plain THEN sizes[f] ELSE 0]
  BY DEF Init
<1>4. Name \subseteq Node /\ NoFile \notin Node /\ NotRegular \notin Node
  BY <1>1, <1>2 DEF Node, NoFile, NotRegular
<1>5. /\ node \in [Name -> Node \cup {NoFile, NotRegular}]
      /\ \A n \in Plain : node[n] # NotRegular
  BY <1>3, <1>4 DEF NoFile, NotRegular, Plain
<1>6. size \in [Node -> 0..MaxSize]
  BY <1>2, <1>3
<1>7. fd \in [0..MaxFd -> Descriptor] /\ fd[0] = Closed
  BY <1>2 DEF Init, Closed, Descriptor
<1>8. FileTypes
  BY <1>5, <1>6, <1>7, FilesAssumption DEF Init, FileTypes, Numbers
<1>9. InUse = {}
  BY <1>2 DEF InUse, IsOpen, Init, Closed
<1> QED
  BY <1>8, <1>9, FS_EmptySet DEF FilesInv, Init

LEMMA NextFiles ==
  ASSUME FilesInv, MarkTrue, [Next]_vars
  PROVE  FilesInv' /\ StaysOpen
<1> USE DEF StaysOpen
<1>1. ASSUME UNCHANGED <<node, size, fd, opens, clock, temp>>
      PROVE  FilesInv' /\ StaysOpen
  <2>1. FileTypes'
    BY <1>1 DEF FilesInv, FileTypes
  <2> QED
    BY <1>1, <2>1, SameFiles DEF IsOpen
<1>2. ASSUME FilesInv', fd' = fd
      PROVE  FilesInv' /\ StaysOpen
  BY <1>2 DEF IsOpen
<1>3. CASE FileCall
  <2>1. ASSUME NEW n \in Plain, NEW d \in Disposition, NEW rw \in BOOLEAN,
               CreateFileW(n, d, rw)
        PROVE  FilesInv' /\ StaysOpen
    BY <2>1, OpeningKeeps
  <2>2. ASSUME NEW n \in Folder, CreateDirectoryW(n)
        PROVE  FilesInv' /\ StaysOpen
    <3>1. UNCHANGED <<fd, opens, clock, temp>> /\ n \in Name
      BY <2>2, FilesAssumption DEF CreateDirectoryW, rest, naming
    <3>2. Gain(n) \/ UNCHANGED <<node, size>>
      BY <2>2 DEF CreateDirectoryW, disk
    <3> QED
      BY <3>1, <3>2, <1>1, <1>2, NameGained
  <2>3. ASSUME NEW n \in Name, DeleteFileW(n) \/ RemoveDirectoryW(n)
        PROVE  FilesInv' /\ StaysOpen
    <3>1. UNCHANGED <<fd, opens, clock, temp>>
      BY <2>3 DEF DeleteFileW, RemoveDirectoryW, rest, naming
    <3>2. Lose(n) \/ UNCHANGED <<node, size>>
      BY <2>3 DEF DeleteFileW, RemoveDirectoryW, disk
    <3> QED
      BY <3>1, <3>2, <1>1, <1>2, NameLost
  <2>4. ASSUME NEW h \in 1..MaxFd, CloseHandle(h)
        PROVE  FilesInv' /\ StaysOpen
    BY <2>4, <1>1 DEF CloseHandle, disk, naming
  <2> QED
    BY <1>3, <2>1, <2>2, <2>3, <2>4 DEF FileCall
<1>4. ASSUME NEW u \in {0} \cup Numbers, GetTempFileNameW(u)
      PROVE  FilesInv' /\ StaysOpen
  <2>1. UNCHANGED <<node, size, fd, opens, clock>>
    BY <1>4 DEF GetTempFileNameW, disk
  <2>2. temp' = TempAt[IF u = 0 THEN clock ELSE u] /\ clock \in Numbers
    BY <1>4 DEF GetTempFileNameW, FilesInv, FileTypes
  <2>3. temp' \in Plain
    BY <2>2, FilesAssumption DEF Plain, Numbers
  <2>4. FileTypes'
    BY <2>1, <2>3 DEF FilesInv, FileTypes
  <2> QED
    BY <2>1, <2>4, <1>2, SameFiles
<1>5. ASSUME NEW d \in Disposition, CreateTemp(d)
      PROVE  FilesInv' /\ StaysOpen
  <2>1. temp \in Plain /\ CreateFileW(temp, d, TRUE)
    BY <1>5 DEF CreateTemp, FilesInv, FileTypes
  <2> QED
    BY <2>1, OpeningKeeps
<1>6. CASE PositionCall \/ Restore
  <2>1. ASSUME NEW h \in 0..MaxFd, NEW low \in Int, NEW high \in Int, NEW m \in Method,
               SetFilePointer(h, low, high, m)
        PROVE  FilesInv' /\ StaysOpen
    BY <2>1, PointerMoves, FilesAssumption
  <2>2. CASE Restore
    <3>1. /\ SetFilePointer(mark.h, Signed(mark.low), mark.high, "FILE_BEGIN")
          /\ mark # NoMark
      BY <2>2 DEF Restore
    <3>2. mark.h \in 0..MaxFd /\ mark.low \in Int /\ mark.high \in Int
      <4>1. /\ mark.h \in 1..MaxFd /\ mark.pos \in Nat
            /\ mark.low = mark.pos % W /\ mark.high = mark.pos \div W
        BY <3>1, FilesAssumption DEF MarkTrue
      <4>2. W \in Nat \ {0} /\ MaxFd \in Nat
        BY FilesAssumption
      <4>3. mark.pos \div W \in Nat /\ mark.pos % W \in 0..(W - 1)
        BY <4>1, <4>2, Halves
      <4> QED
        BY <4>1, <4>2, <4>3
    <3>3. Signed(mark.low) \in Int
      BY <3>2, FilesAssumption DEF Signed
    <3> QED
      BY <3>1, <3>2, <3>3, <2>1 DEF Method
  <2>3. ASSUME NEW h \in 0..MaxFd, NEW n \in Amounts, ReadFile(h, n) \/ WriteFile(h, n)
        PROVE  FilesInv' /\ StaysOpen
    BY <2>3, ReadingKeeps, FilesAssumption
  <2>4. ASSUME NEW h \in 0..MaxFd, NEW low \in Long, NEW high \in Long \cup {NoHigh},
               NEW m \in Method, Move(h, low, high, m)
        PROVE  FilesInv' /\ StaysOpen
    <3>1. low \in Int /\ high \in Int
      BY FilesAssumption DEF Long, NoHigh
    <3> QED
      BY <3>1, <2>1, <2>4 DEF Move
  <2>5. ASSUME NEW h \in 0..MaxFd, Tell(h)
        PROVE  FilesInv' /\ StaysOpen
    BY <2>5, <2>1 DEF Tell, Method
  <2>6. ASSUME NEW h \in 0..MaxFd, NEW told \in BOOLEAN, GetFileSize(h, told)
        PROVE  FilesInv' /\ StaysOpen
    BY <2>6, <1>1 DEF GetFileSize, disk, naming
  <2> QED
    BY <1>6, <2>2, <2>3, <2>4, <2>5, <2>6 DEF PositionCall
<1>7. CASE Tick
  <2>1. UNCHANGED <<node, size, fd, opens, temp>> /\ clock' \in Numbers
    BY <1>7 DEF Tick, disk, Numbers
  <2>2. FileTypes'
    BY <2>1 DEF FilesInv, FileTypes
  <2> QED
    BY <2>1, <2>2, <1>2, SameFiles
<1>8. CASE Create \/ Remove \/ Fill
  <2>1. UNCHANGED <<fd, opens, clock, temp>>
    BY <1>8 DEF Create, Remove, Fill, OtherStep, naming
  <2>2. CASE Create
    <3>1. PICK n \in Name : Gain(n)
      BY <2>2 DEF Create
    <3> QED
      BY <3>1, <2>1, <1>2, NameGained
  <2>3. CASE Remove
    <3>1. PICK n \in Name : Lose(n)
      BY <2>3 DEF Remove, Dir
    <3> QED
      BY <3>1, <2>1, <1>2, NameLost
  <2>4. CASE Fill
    BY <2>4, <2>1, <1>1 DEF Fill
  <2> QED
    BY <1>8, <2>2, <2>3, <2>4
<1>9. CASE ScanStep \/ UNCHANGED vars
  <2>1. UNCHANGED fileVars
    BY <1>9 DEF ScanStep, FindFirstFails, FindFirst, FindFirstReturns, FindNext, FindClose, vars
  <2> QED
    BY <2>1, <1>1 DEF fileVars, disk, naming
<1> QED
  BY <1>3, <1>4, <1>5, <1>6, <1>7, <1>8, <1>9 DEF Next, FileStep, Call, TempCall, Numbers

(* Only Tell notes a position; Restore, GetFileSize and CreateFileW ask.   *)
Noting == \E h \in 0..MaxFd : Tell(h)
Sizing == \E h \in 0..MaxFd, told \in BOOLEAN : GetFileSize(h, told)
Opening == \E n \in Plain, d \in Disposition, rw \in BOOLEAN : CreateFileW(n, d, rw)

LEMMA Questions ==
  ASSUME FilesInv, [Next]_vars
  PROVE  \/ Noting
         \/ mark' = mark /\ (Restore \/ Sizing \/ Opening \/ asked' = NoQuestion
                               \/ UNCHANGED fileVars)
<1>1. CASE ScanStep \/ UNCHANGED vars
  BY <1>1 DEF ScanStep, FindFirstFails, FindFirst, FindFirstReturns, FindNext, FindClose,
              vars, fileVars, pointing
<1>2. CASE Create \/ Remove \/ Fill \/ Tick
  BY <1>2 DEF Create, Remove, Fill, Tick, OtherStep, Unasked, pointing
<1>3. CASE FileCall \/ TempCall
  <2>1. ASSUME NEW n, NEW d, NEW rw, CreateFileW(n, d, rw)
        PROVE  mark' = mark
    BY <2>1 DEF CreateFileW, pointing
  <2>2. CASE FileCall
    <3>1. CASE Opening
      BY <2>1, <3>1 DEF Opening
    <3>2. CASE ~ Opening
      BY <2>2, <3>2 DEF FileCall, CreateDirectoryW, DeleteFileW, RemoveDirectoryW,
                        CloseHandle, Unasked, rest, pointing, Opening
    <3> QED
      BY <3>1, <3>2
  <2>3. CASE TempCall
    <3>1. ASSUME NEW d \in Disposition, CreateTemp(d)
          PROVE  mark' = mark /\ Opening
      <4>1. temp \in Plain /\ CreateFileW(temp, d, TRUE)
        BY <3>1 DEF CreateTemp, FilesInv, FileTypes
      <4> QED
        BY <4>1, <2>1 DEF Opening
    <3> QED
      BY <2>3, <3>1 DEF TempCall, GetTempFileNameW, Unasked, pointing
  <2> QED
    BY <1>3, <2>2, <2>3
<1>4. CASE PositionCall \/ Restore
  <2>1. ASSUME NEW h, NEW n, ReadFile(h, n) \/ WriteFile(h, n)
        PROVE  mark' = mark /\ asked' = NoQuestion
    BY <2>1 DEF ReadFile, WriteFile, Unasked, pointing
  <2>2. ASSUME NEW h, NEW low, NEW high, NEW m, Move(h, low, high, m)
        PROVE  mark' = mark /\ asked' = NoQuestion
    BY <2>2 DEF Move
  <2>3. ASSUME NEW h \in 0..MaxFd, NEW told \in BOOLEAN, GetFileSize(h, told)
        PROVE  mark' = mark /\ Sizing
    BY <2>3 DEF GetFileSize, Sizing
  <2>4. Restore => mark' = mark
    BY DEF Restore
  <2> QED
    BY <1>4, <2>1, <2>2, <2>3, <2>4, Zenon DEF PositionCall, Noting
<1> QED
  BY <1>1, <1>2, <1>3, <1>4 DEF Next, FileStep, Call

LEMMA NextPositions ==
  ASSUME PositionsInv, [Next]_vars
  PROVE  PositionsInv'
<1> USE DEF PositionsInv
<1>1. FilesInv' /\ StaysOpen
  BY NextFiles
<1>2. W \in Nat \ {0} /\ MaxSize \in Nat /\ MaxSize < W * W
  BY FilesAssumption
<1>3. ASSUME NEW h \in 0..MaxFd, Tell(h)
      PROVE  MarkTrue' /\ PositionRestored' /\ SizeTold' /\ OpenExplained'
  <2>1. h \in 1..MaxFd /\ fd[h] \in Descriptor /\ fd[h].pos \in 0..MaxSize
    BY <1>3 DEF Tell, IsOpen, FilesInv, FileTypes, Closed, Descriptor
  <2>2. Base(h, "FILE_CURRENT") + Distance(0, 0) = fd[h].pos
    BY <1>2, <2>1 DEF Base, Distance, NoHigh
  <2>3. answer' = fd[h].pos % W /\ word' = fd[h].pos \div W
    BY <1>2, <1>3, <2>1, <2>2 DEF Tell, SetFilePointer, NoHigh
  <2>4. mark' = [h |-> h, low |-> fd[h].pos % W, high |-> fd[h].pos \div W, pos |-> fd[h].pos]
    BY <1>3, <2>3 DEF Tell
  <2>5. MarkTrue'
    BY <1>1, <1>3, <2>1, <2>4 DEF MarkTrue, StaysOpen, Tell
  <2> QED
    BY <1>3, <2>5 DEF Tell, PositionRestored, SizeTold, OpenExplained, NoQuestion
<1>4. mark' = mark => MarkTrue'
  BY <1>1 DEF MarkTrue, StaysOpen
<1>5. asked' = NoQuestion => PositionRestored' /\ SizeTold' /\ OpenExplained'
  BY DEF PositionRestored, SizeTold, OpenExplained, NoQuestion
<1>6. CASE UNCHANGED fileVars
  BY <1>1, <1>4, <1>6 DEF PositionRestored, SizeTold, OpenExplained, fileVars, disk, pointing, IsOpen, SizeOf
<1>7. CASE Restore
  <2> DEFINE new == Base(mark.h, "FILE_BEGIN") + Distance(Signed(mark.low), mark.high)
  <2>1. /\ mark' = mark /\ mark # NoMark
        /\ asked' = [op |-> "restore", h |-> mark.h, word |-> mark.high, pos |-> fd[mark.h].pos]
        /\ SetFilePointer(mark.h, Signed(mark.low), mark.high, "FILE_BEGIN")
    BY <1>7 DEF Restore
  <2>2. /\ mark.h \in 1..MaxFd /\ IsOpen(mark.h) /\ mark.pos \in 0..MaxSize
        /\ mark.low = mark.pos % W /\ mark.high = mark.pos \div W
    BY <2>1 DEF MarkTrue
  <2>3. /\ mark.high \in Nat /\ mark.high < W /\ mark.low \in 0..(W - 1)
        /\ mark.high * W + mark.low = mark.pos
    <3>1. mark.pos \in Nat /\ mark.pos < W * W
      <4>1. W * W \in Nat
        BY <1>2
      <4> QED
        BY <4>1, <1>2, <2>2
    <3>2. /\ mark.pos \div W \in Nat /\ mark.pos % W \in 0..(W - 1)
          /\ (mark.pos \div W) * W + (mark.pos % W) = mark.pos
          /\ mark.pos \div W < W
      BY <3>1, <1>2, Halves
    <3> QED
      BY <3>2, <2>2
  <2>4. CASE mark.low < W \div 2
    <3>1. new = mark.pos
      BY <2>2, <2>3, <2>4, <1>2 DEF Base, Distance, Signed, NoHigh
    <3>2. fd' = [fd EXCEPT ![mark.h].pos = mark.pos]
      BY <3>1, <2>1, <2>2 DEF SetFilePointer
    <3>3. fd'[mark.h].pos = mark.pos
      BY <3>2, <2>2, FilesAssumption DEF FilesInv, FileTypes, Descriptor
    <3> QED
      BY <3>3, <2>1, <2>4, <1>1, <1>4 DEF PositionRestored, SizeTold, OpenExplained
  <2>5. CASE ~ (mark.low < W \div 2)
    <3>1. new < 0
      BY <2>3, <2>5, <1>2 DEF Base, Distance, Signed
    <3>2. new \in Int
      BY <2>3, <2>5, <1>2 DEF Base, Distance, Signed
    <3>3. answer' = Invalid /\ fd' = fd
      BY <3>1, <3>2, <2>1 DEF SetFilePointer
    <3> QED
      BY <3>3, <2>1, <2>5, <1>1, <1>4 DEF PositionRestored, SizeTold, OpenExplained
  <2> QED
    BY <2>4, <2>5
<1>8. ASSUME NEW h \in 0..MaxFd, NEW told \in BOOLEAN, GetFileSize(h, told), mark' = mark
      PROVE  PositionsInv'
  <2>1. /\ answer' = IF IsOpen(h) THEN SizeOf(h) % W ELSE 0
        /\ word' = IF IsOpen(h) /\ SizeOf(h) >= W THEN SizeOf(h) \div W
                   ELSE IF told /\ ~ IsOpen(h) THEN 0 ELSE word
        /\ asked'.op = "size" /\ asked'.h = h /\ asked'.word = word
        /\ size' = size /\ fd' = fd
    BY <1>8 DEF GetFileSize, disk
  <2>2. ASSUME IsOpen(h)
        PROVE  \/ word' * W + answer' = SizeOf(h)
               \/ answer' = SizeOf(h) /\ SizeOf(h) < W /\ word' = word
    <3>1. SizeOf(h) \in Nat
      BY <2>2 DEF SizeOf, IsOpen, FilesInv, FileTypes, Descriptor
    <3>2. CASE SizeOf(h) >= W
      BY <3>1, <3>2, <2>1, <2>2, <1>2, Halves
    <3>3. CASE SizeOf(h) < W
      <4>1. SizeOf(h) % W = SizeOf(h)
        BY <3>1, <3>3, <1>2
      <4> QED
        BY <4>1, <3>1, <3>3, <2>1, <2>2, <1>2
    <3> QED
      BY <3>1, <3>2, <3>3, <1>2
  <2>3. SizeTold'
    BY <2>1, <2>2 DEF SizeTold, IsOpen, SizeOf
  <2>4. PositionRestored' /\ OpenExplained'
    BY <2>1 DEF PositionRestored, OpenExplained
  <2> QED
    BY <1>1, <1>4, <1>8, <2>3, <2>4
<1>9. CASE Opening /\ mark' = mark
  <2>1. PICK n \in Plain, d \in Disposition, rw \in BOOLEAN : CreateFileW(n, d, rw)
    BY <1>9 DEF Opening
  <2>2. OpenExplained'
    BY <2>1, OpeningKeeps
  <2>3. PositionRestored' /\ SizeTold'
    BY <2>1 DEF CreateFileW, PositionRestored, SizeTold
  <2> QED
    BY <1>1, <1>4, <1>9, <2>2, <2>3
<1> QED
  BY <1>1, <1>3, <1>4, <1>5, <1>6, <1>7, <1>8, <1>9, Questions DEF Noting, Sizing
-----------------------------------------------------------------------------
LEMMA FilesInvariant == Spec => []PositionsInv
<1>1. Init => PositionsInv
  <2>1. Init => MarkTrue /\ PositionRestored /\ SizeTold /\ OpenExplained
    BY DEF Init, MarkTrue, PositionRestored, SizeTold, OpenExplained, NoQuestion
  <2> QED
    BY <2>1, InitFiles DEF PositionsInv
<1>2. PositionsInv /\ [Next]_vars => PositionsInv'
  BY NextPositions
<1> QED
  BY <1>1, <1>2, PTL DEF Spec

(* CreateFileW, CloseHandle: with any number of descriptors and whatever   *)
(* the guest closes, a call fails when as many files have been opened as   *)
(* there are descriptors, or for a name that is not there when it is to    *)
(* open what exists, and only then.                                        *)
THEOREM FilesOpenExplained == Spec => []OpenExplained
<1>1. PositionsInv => OpenExplained
  BY DEF PositionsInv
<1> QED
  BY <1>1, FilesInvariant, PTL

(* SetFilePointer: a position asked for and gone back to is reached, for   *)
(* any width of a DWORD, unless the low half has its sign bit set.         *)
THEOREM FilesPositionRestored == Spec => []PositionRestored
<1>1. PositionsInv => PositionRestored
  BY DEF PositionsInv
<1> QED
  BY <1>1, FilesInvariant, PTL

(* GetFileSize: the two halves are those of the file, unless the high half *)
(* was not written because it is zero.                                     *)
THEOREM FilesSizeTold == Spec => []SizeTold
<1>1. PositionsInv => SizeTold
  BY DEF PositionsInv
<1> QED
  BY <1>1, FilesInvariant, PTL
-----------------------------------------------------------------------------
(* Once there is no descriptor left, there never is one.                   *)
LEMMA StaysFull ==
  ASSUME StaysOpen, Free = {}
  PROVE  Free' = {}
BY DEF StaysOpen, Free, IsOpen
-----------------------------------------------------------------------------
(* The snapshot.  In a finite set of numbers there is one of each rank     *)
(* below the size of the set.                                              *)
Below(S, x) == {y \in S : y < x}
Ranked(S, k) == {x \in S : Cardinality(Below(S, x)) = k}

LEMMA EveryRank ==
  ASSUME NEW S, S \subseteq Nat, IsFiniteSet(S), NEW k \in Nat, k < Cardinality(S)
  PROVE  Ranked(S, k) # {}
<1>1. Cardinality(S) \in Nat /\ \A y \in S : y \in Nat
  BY FS_CardinalityType
<1> SUFFICES ASSUME Ranked(S, k) = {} PROVE FALSE
  OBVIOUS
<1> DEFINE T == {i \in Nat : i < Cardinality(S) /\ Ranked(S, i) = {}}
<1>2. k \in T /\ T \subseteq Nat
  OBVIOUS
<1>3. PICK i \in T : \A j \in T : i <= j
  <2> HIDE DEF T
  <2> QED
    BY <1>2, LeastIn
<1>4. CASE i = 0
  <2>1. S # {}
    BY <1>3, <1>4, FS_EmptySet
  <2>2. PICK x \in S : \A y \in S : x <= y
    BY <2>1, LeastIn
  <2>3. Below(S, x) = {}
    <3>1. \A y \in S : ~ (y < x)
      BY <1>1, <2>2
    <3> QED
      BY <3>1 DEF Below
  <2>4. x \in Ranked(S, 0)
    BY <2>3, FS_EmptySet DEF Ranked
  <2> QED
    BY <1>3, <1>4, <2>4
<1>5. CASE i # 0
  <2>1. i - 1 \in Nat /\ i - 1 < Cardinality(S) /\ i \in Nat /\ i < Cardinality(S)
    BY <1>1, <1>3, <1>5
  <2>2. PICK x : x \in Ranked(S, i - 1)
    BY <1>3, <2>1
  <2>3. x \in S /\ Cardinality(Below(S, x)) = i - 1 /\ x \notin Below(S, x)
    BY <2>2 DEF Ranked, Below
  <2> DEFINE B == Below(S, x) \cup {x}
  <2>4. IsFiniteSet(Below(S, x))
    BY FS_Subset DEF Below
  <2>5. IsFiniteSet(B) /\ Cardinality(B) = i
    BY <2>1, <2>3, <2>4, FS_AddElement
  <2>6. S \ B # {}
    <3>1. S # B
      BY <2>1, <2>5
    <3>2. B \subseteq S
      BY <2>3 DEF Below
    <3> QED
      BY <3>1, <3>2
  <2>7. PICK z \in S \ B : \A y \in S \ B : z <= y
    <3>1. Least(S \ B) \in S \ B /\ \A y \in S \ B : Least(S \ B) <= y
      <4> HIDE DEF B
      <4> QED
        BY <2>6, LeastIn
    <3> HIDE DEF B
    <3> QED
      BY <3>1
  <2>8. Below(S, z) = B
    <3>1. z > x
      BY <1>1, <2>3, <2>7 DEF Below
    <3>2. \A y \in S : y < z => y \in B
      BY <1>1, <2>7
    <3>3. \A y \in B : y \in S /\ y < z
      BY <1>1, <2>3, <2>7, <3>1 DEF Below
    <3> QED
      BY <3>2, <3>3 DEF Below
  <2>9. z \in Ranked(S, i)
    BY <2>5, <2>7, <2>8 DEF Ranked
  <2> QED
    BY <1>3, <2>9
<1> QED
  BY <1>4, <1>5

Increasing(s) == \A j, k \in 1..Len(s) : j < k => s[j] < s[k]

LEMMA GlobSorts ==
  ASSUME NEW S, S \subseteq Name
  PROVE  /\ Glob(S) \in Seq(S) /\ Increasing(Glob(S))
         /\ Len(Glob(S)) = 0 <=> S = {}
<1>1. S \subseteq Nat /\ IsFiniteSet(S)
  BY FilesAssumption, FS_Subset, FS_CardinalityType
<1>2. PICK n \in Nat : n = Cardinality(S)
  BY <1>1, FS_CardinalityType
<1>3. Glob(S) = [k \in 1..n |-> CHOOSE x \in S : Cardinality(Below(S, x)) = k - 1]
  BY <1>2 DEF Glob, Below
<1>4. ASSUME NEW k \in 1..n
      PROVE  Glob(S)[k] \in S /\ Cardinality(Below(S, Glob(S)[k])) = k - 1
  <2>1. k - 1 \in Nat /\ k - 1 < Cardinality(S)
    BY <1>2
  <2>2. \E x \in S : Cardinality(Below(S, x)) = k - 1
    BY <1>1, <2>1, EveryRank DEF Ranked
  <2> QED
    BY <1>3, <2>2
<1>5. Glob(S) \in Seq(S) /\ Len(Glob(S)) = n
  <2>1. Glob(S) \in [1..n -> S]
    BY <1>3, <1>4
  <2> QED
    BY <2>1, LenProperties
<1>6. ASSUME NEW j \in 1..n, NEW k \in 1..n, j < k
      PROVE  Glob(S)[j] < Glob(S)[k]
  <2>1. PICK x \in S, y \in S : x = Glob(S)[j] /\ y = Glob(S)[k]
    BY <1>4
  <2>2. Cardinality(Below(S, x)) = j - 1 /\ Cardinality(Below(S, y)) = k - 1
    BY <1>4, <2>1
  <2>3. ASSUME y <= x PROVE FALSE
    <3>1. Below(S, y) \subseteq Below(S, x)
      <4>1. \A z \in S : z \in Nat /\ x \in Nat /\ y \in Nat
        BY <1>1, <2>1
      <4> QED
        BY <2>3, <4>1 DEF Below
    <3>3. IsFiniteSet(Below(S, x))
      BY <1>1, FS_Subset DEF Below
    <3>2. Cardinality(Below(S, y)) <= Cardinality(Below(S, x))
      BY <3>1, <3>3, FS_Subset
    <3> QED
      BY <1>6, <2>2, <3>2
  <2> QED
    BY <1>1, <2>1, <2>3
<1>7. n = 0 <=> S = {}
  BY <1>1, <1>2, FS_EmptySet
<1> QED
  BY <1>5, <1>6, <1>7 DEF Increasing
-----------------------------------------------------------------------------
(* The scan.  A call that has had its turn at a name returned it, or the   *)
(* name is lost; after the last name every call fails.                     *)
Told(k) ==
  /\ k <= Len(paths) =>
       \/ results[k] = paths[k]
       \/ results[k] \in {NoData, Failed} /\ Lost(paths[k])
  /\ k > Len(paths) => results[k] = Failed

Progress ==
  \/ scan = "none" /\ results = <<>> /\ index = 0
  \/ scan = "first" /\ results = <<>> /\ index = 1 /\ Len(paths) > 0
  \/ scan \in {"open", "closed"} /\ Len(results) = index /\ index > 0
  \/ /\ scan = "closed" /\ results = <<Failed>> /\ index = 0
     /\ Len(paths) = 0 \/ Free = {}

(* The names of the snapshot are there, or have been missing since.        *)
ScanInv ==
  /\ paths \in Seq(Name) /\ Increasing(paths)
  /\ results \in Seq(Name \cup {NoData, Failed}) /\ index \in Nat
  /\ Progress
  /\ scan # "none" => \A k \in 1..Len(paths) : paths[k] \in Dir \cup gone
  /\ index # 0 => \A k \in 1..Len(results) : Told(k)


LEMMA Names ==
  /\ \A n \in Name : n \in Nat /\ n # NoData /\ n # Failed
  /\ IsFiniteSet(Name)
  /\ Dir \subseteq Name
<1>1. \A n \in Name : n \in Nat
  BY FilesAssumption, FS_CardinalityType
<1>2. \A n \in Nat : n # NoData /\ n # Failed
  BY DEF NoData, Failed
<1> QED
  BY <1>1, <1>2, FilesAssumption DEF Dir

(* A file step takes no turn, and the names it takes away are noted.       *)
LEMMA FileStepScan ==
  ASSUME ScanInv, FileStep, StaysOpen
  PROVE  ScanInv'
<1>1. /\ scan' = scan /\ paths' = paths /\ index' = index /\ results' = results
      /\ gone' = gone \cup (Dir \ Dir')
  BY DEF FileStep, Meanwhile, scanning
<1>2. Dir \cup gone \subseteq Dir' \cup gone'
  BY <1>1
<1>3. \A k : Told(k) => Told(k)'
  BY <1>1 DEF Told, Lost
<1>4. Progress'
  BY <1>1, StaysFull DEF ScanInv, Progress
<1>5. scan' # "none" => \A k \in 1..Len(paths') : paths'[k] \in Dir' \cup gone'
  BY <1>1, <1>2 DEF ScanInv
<1> QED
  BY <1>1, <1>3, <1>4, <1>5 DEF ScanInv

(* A step of the scan takes one turn.                                      *)
LEMMA ScanStepScan ==
  ASSUME ScanInv, ScanStep
  PROVE  ScanInv'
<1>1. Dir' = Dir /\ Free' = Free
  <2>1. UNCHANGED fileVars
    BY DEF ScanStep, FindFirstFails, FindFirst, FindFirstReturns, FindNext, FindClose
  <2> QED
    BY <2>1 DEF fileVars, disk, Dir, Free
<1>2. /\ Glob(Dir) \in Seq(Name) /\ Increasing(Glob(Dir))
      /\ \A k \in 1..Len(Glob(Dir)) : Glob(Dir)[k] \in Dir
      /\ Len(Glob(Dir)) = 0 <=> Dir = {}
      /\ Len(Glob(Dir)) \in Nat
  <2>1. Glob(Dir) \in Seq(Dir) /\ Increasing(Glob(Dir)) /\ (Len(Glob(Dir)) = 0 <=> Dir = {})
    BY Names, GlobSorts
  <2> HIDE DEF Increasing
  <2>2. \A k \in 1..Len(Glob(Dir)) : Glob(Dir)[k] \in Dir
    BY <2>1, ElementOfSeq
  <2>3. Glob(Dir) \in Seq(Name) /\ Len(Glob(Dir)) \in Nat
    BY <2>1, Names
  <2> QED
    BY <2>1, <2>2, <2>3
<1>3. CASE FindFirstFails
  <2>1. /\ results' = <<Failed>> /\ index' = 0 /\ scan' = "closed" /\ paths' = Glob(Dir)
        /\ Dir = {} \/ Free = {}
    BY <1>3 DEF FindFirstFails
  <2>2. results' \in Seq(Name \cup {NoData, Failed})
    BY <2>1
  <2>3. Progress'
    BY <2>1, <1>1, <1>2 DEF Progress
  <2> QED
    BY <2>1, <2>2, <2>3, <1>1, <1>2 DEF ScanInv
<1>4. CASE FindFirst
  <2>1. /\ results' = results /\ index' = 1 /\ scan' = "first" /\ paths' = Glob(Dir)
        /\ scan = "none" /\ Dir # {}
    BY <1>4 DEF FindFirst
  <2>2. results = <<>>
    BY <2>1 DEF ScanInv, Progress
  <2>3. Progress'
    BY <2>1, <2>2, <1>2 DEF Progress
  <2>4. \A k \in 1..Len(results') : Told(k)'
    BY <2>1, <2>2
  <2> QED
    BY <2>1, <2>3, <2>4, <1>1, <1>2 DEF ScanInv
<1>5. CASE FindFirstReturns
  <2>1. /\ results' = <<IF Stat(paths[1]) THEN paths[1] ELSE NoData>>
        /\ paths' = paths /\ index' = index /\ gone' = gone
        /\ scan' = "open" /\ scan = "first"
    BY <1>5 DEF FindFirstReturns
  <2>2. index = 1 /\ Len(paths) > 0 /\ paths \in Seq(Name) /\ Len(paths) \in Nat
    BY <2>1 DEF ScanInv, Progress
  <2>3. paths[1] \in Name /\ paths[1] \in Dir \cup gone
    BY <2>1, <2>2, ElementOfSeq DEF ScanInv
  <2>4. Len(results') = 1 /\ results' \in Seq(Name \cup {NoData, Failed})
    BY <2>1, <2>3
  <2>5. Told(1)'
    BY <2>1, <2>2, <2>3 DEF Told, Lost, Stat
  <2>6. Progress'
    BY <2>1, <2>2, <2>4 DEF Progress
  <2>7. \A k \in 1..Len(results') : Told(k)'
    BY <2>4, <2>5
  <2> QED
    BY <2>1, <2>4, <2>6, <2>7, <1>1 DEF ScanInv
<1>6. CASE FindNext
  <2> DEFINE found == index < Len(paths) /\ Stat(paths[index + 1])
             r == IF found THEN paths[index + 1] ELSE Failed
  <2>1. /\ results' = Append(results, r) /\ index' = index + 1
        /\ paths' = paths /\ gone' = gone /\ scan' = "open" /\ scan = "open"
    BY <1>6 DEF FindNext
  <2>2. /\ Len(results) = index /\ index \in Nat /\ index > 0
        /\ paths \in Seq(Name) /\ Len(paths) \in Nat
        /\ results \in Seq(Name \cup {NoData, Failed})
    BY <2>1 DEF ScanInv, Progress
  <2>3. index < Len(paths) => paths[index + 1] \in Name /\ paths[index + 1] \in Dir \cup gone
    <3>1. index < Len(paths) => index + 1 \in 1..Len(paths)
      BY <2>2
    <3> QED
      BY <3>1, <2>1, <2>2, ElementOfSeq DEF ScanInv
  <2>4. r \in Name \cup {NoData, Failed}
    BY <2>3
  <2>5. /\ index + 1 <= Len(paths) =>
             \/ r = paths[index + 1]
             \/ r \in {NoData, Failed} /\ Lost(paths[index + 1])
        /\ index + 1 > Len(paths) => r = Failed
    BY <2>2, <2>3 DEF Lost, Stat
  <2> HIDE DEF r
  <2>6. /\ results' \in Seq(Name \cup {NoData, Failed}) /\ Len(results') = index + 1
        /\ results'[index + 1] = r
        /\ \A k \in 1..index : results'[k] = results[k]
    BY <2>1, <2>2, <2>4, AppendProperties
  <2>7. \A k : k = index + 1 => Told(k)'
    BY <2>1, <2>5, <2>6 DEF Told, Lost
  <2>8. \A k \in 1..index : Told(k)'
    BY <2>1, <2>2, <2>6 DEF ScanInv, Told, Lost
  <2>9. \A k \in 1..Len(results') : Told(k)'
    <3>1. \A k \in 1..Len(results') : k \in 1..index \/ k = index + 1
      BY <2>2, <2>6
    <3> QED
      BY <3>1, <2>7, <2>8
  <2>10. Progress' /\ index' \in Nat
    BY <2>1, <2>2, <2>6 DEF Progress
  <2> QED
    BY <2>1, <2>6, <2>9, <2>10, <1>1 DEF ScanInv
<1>7. CASE FindClose
  <2>1. /\ scan = "open" /\ scan' = "closed" /\ paths' = paths /\ index' = index
        /\ results' = results /\ gone' = gone
    BY <1>7 DEF FindClose
  <2>2. \A k : Told(k) => Told(k)'
    BY <2>1 DEF Told, Lost
  <2>3. Progress'
    BY <2>1 DEF ScanInv, Progress
  <2> QED
    BY <2>1, <2>2, <2>3, <1>1 DEF ScanInv
<1> QED
  BY <1>3, <1>4, <1>5, <1>6, <1>7 DEF ScanStep

LEMMA NextScan ==
  ASSUME ScanInv, StaysOpen, [Next]_vars
  PROVE  ScanInv'
<1>1. CASE UNCHANGED vars
  <2>1. /\ UNCHANGED <<scan, paths, index, results, gone>> /\ Dir' = Dir /\ Free' = Free
    BY <1>1 DEF vars, scanning, fileVars, disk, Dir, Free
  <2> QED
    BY <2>1 DEF ScanInv, Progress, Told, Lost
<1> QED
  BY <1>1, FileStepScan, ScanStepScan DEF Next
-----------------------------------------------------------------------------
ScansInv == PositionsInv /\ ScanInv

LEMMA ScansInvariant == Spec => []ScansInv
<1>1. Init => ScansInv
  <2> SUFFICES ASSUME Init PROVE ScansInv
    OBVIOUS
  <2>1. PositionsInv
    BY InitFiles DEF Init, PositionsInv, MarkTrue, PositionRestored, SizeTold, OpenExplained,
                     NoQuestion
  <2>3. scan = "none" /\ paths = <<>> /\ index = 0 /\ results = <<>>
    BY DEF Init
  <2>4. ScanInv
    BY <2>3 DEF ScanInv, Progress, Increasing
  <2> QED
    BY <2>1, <2>4 DEF ScansInv
<1>2. ScansInv /\ [Next]_vars => ScansInv'
  BY NextPositions, NextFiles, NextScan DEF ScansInv, PositionsInv
<1> QED
  BY <1>1, <1>2, PTL DEF Spec

(* FindFirstFileW, FindNextFileW: whatever is created and removed between  *)
(* the calls, a scan of any directory returns the names of its snapshot in *)
(* order and once, and all of them that stayed.                            *)
THEOREM FilesScanExact == Spec => []ScanExact
<1>1. ASSUME ScansInv PROVE ScanExact
  <2>1. /\ ScanInv /\ results \in Seq(Name \cup {NoData, Failed}) /\ index \in Nat
        /\ paths \in Seq(Name) /\ Len(paths) \in Nat /\ Len(results) \in Nat
        /\ DOMAIN results = 1..Len(results) /\ DOMAIN paths = 1..Len(paths)
    BY <1>1 DEF ScansInv, ScanInv
  <2>2. ASSUME NEW k \in 1..Len(results), results[k] \in Name
        PROVE  k \in 1..Len(paths) /\ results[k] = paths[k]
    <3>1. index # 0
      <4>1. index = 0 => Len(results) = 1 /\ results[1] = Failed
        BY <2>1, <2>2 DEF ScanInv, Progress
      <4>2. Len(results) = 1 => k = 1
        BY <2>2
      <4> QED
        BY <4>1, <4>2, <2>2, Names
    <3> QED
      BY <3>1, <2>1, <2>2, Names DEF ScanInv, Told
  <2>3. \A j, k \in DOMAIN results :
          j < k /\ results[j] \in Name /\ results[k] \in Name => results[j] < results[k]
    BY <2>1, <2>2 DEF ScanInv, Increasing
  <2>4. ASSUME scan = "open", index >= Len(paths), NEW k \in DOMAIN paths
        PROVE  Lost(paths[k]) \/ paths[k] \in Returned
    <3>1. Len(results) = index /\ index # 0
      BY <2>1, <2>4 DEF ScanInv, Progress
    <3>2. k \in 1..Len(results) /\ k <= Len(paths) /\ paths[k] \in Name
      BY <3>1, <2>1, <2>4, ElementOfSeq
    <3>3. Lost(paths[k]) \/ results[k] = paths[k]
      BY <3>1, <3>2, <2>1 DEF ScanInv, Told
    <3> QED
      BY <3>2, <3>3, <2>1, Names DEF Returned
  <2> QED
    BY <2>3, <2>4 DEF ScanExact
<1> QED
  BY <1>1, ScansInvariant, PTL

(* FindFirstFileW, FindNextFileW: a call that fails before the last name   *)
(* was at a name that could not be looked up, or there was no descriptor   *)
(* to open the directory with, and then the guest has had them all.        *)
THEOREM FilesFailureExplained == Spec => []FailureExplained
<1>1. ASSUME ScansInv PROVE FailureExplained
  <2>1. /\ ScanInv /\ results \in Seq(Name \cup {NoData, Failed}) /\ index \in Nat
        /\ paths \in Seq(Name) /\ Len(paths) \in Nat /\ Len(results) \in Nat
        /\ DOMAIN results = 1..Len(results)
    BY <1>1 DEF ScansInv, ScanInv
  <2>2. SUFFICES ASSUME NEW k \in 1..Len(results), results[k] \in {NoData, Failed}
                 PROVE  \/ k > Len(paths)
                        \/ Lost(paths[k])
                        \/ index = 0 /\ opens = MaxFd
    BY <2>1 DEF FailureExplained
  <2>3. CASE index = 0
    <3>1. Len(results) = 1 /\ (Len(paths) = 0 \/ Free = {})
      BY <2>1, <2>2, <2>3 DEF ScanInv, Progress
    <3>2. k = 1
      BY <3>1
    <3>3. Free = {} => opens = MaxFd
      BY <1>1, UseCounted, FilesAssumption DEF ScansInv, PositionsInv
    <3> QED
      BY <2>3, <3>1, <3>2, <3>3
  <2>4. CASE index # 0
    <3>1. Told(k)
      BY <2>1, <2>2, <2>4 DEF ScanInv
    <3>2. k <= Len(paths) => k \in 1..Len(paths) /\ paths[k] \in Name
      BY <2>1, <2>2, ElementOfSeq
    <3>3. k <= Len(paths) \/ k > Len(paths)
      BY <2>1, <2>2
    <3> QED
      BY <3>1, <3>2, <3>3, <2>2, Names DEF Told
  <2> QED
    BY <2>3, <2>4
<1> QED
  BY <1>1, ScansInvariant, PTL
=============================================================================
