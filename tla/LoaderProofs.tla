---------------------------- MODULE LoaderProofs ----------------------------
(***************************************************************************)
(* Proofs about Loader, for any files, hosts and bounds.                   *)
(***************************************************************************)
EXTENDS Loader, FiniteSetTheorems, SequenceTheorems, TLAPS

Pc == {"tls", "callbacks", "register", "import", "search", "await", "found",
       "bound", "entry", "return", "run"}

Status == {"SUCCESS", "NOT_FOUND", "INVALID"}

(* A frame, without a bound on the instance; the pointers of a frame.      *)
AnyFrame ==
  [kind : {"load", "call", "guest"}, inst : Nat \ {0}, pc : Pc,
   imp : Nat \ {0}, cb : Nat, status : Status,
   res : SUBSET T!Pointer, want : ModName \cup {NoName},
   loaded : SUBSET T!Pointer, native : SUBSET T!Pointer]

Loading == {"loading", "bound", "entered", "attached"}
AnyInstance ==
  [image : Stem \cup {Exe}, parent : Nat, phase : Loading, tls : Int,
   iat : Seq(Seq(Int))]
-----------------------------------------------------------------------------
(* The first elements of a sequence.                                       *)
LEMMA Prefix ==
  ASSUME NEW S, NEW s, NEW n \in Nat, \A i \in 1..n : s[i] \in S
  PROVE  /\ SubSeq(s, 1, n) \in Seq(S) /\ Len(SubSeq(s, 1, n)) = n
         /\ \A i \in 1..n : SubSeq(s, 1, n)[i] = s[i]
<1>1. 1 \in Int /\ n \in Int
  OBVIOUS
<1>2. /\ SubSeq(s, 1, n) \in Seq(S)
      /\ Len(SubSeq(s, 1, n)) = IF 1 <= n THEN n - 1 + 1 ELSE 0
      /\ \A i \in 1..(n - 1 + 1) : SubSeq(s, 1, n)[i] = s[1 + i - 1]
  BY <1>1, SubSeqProperties
<1> QED
  BY <1>2

(* The same, with another one behind them.                                 *)
LEMMA PrefixThen ==
  ASSUME NEW S, NEW s \in Seq(S), NEW n \in Nat, n <= Len(s), NEW f \in S
  PROVE  LET q == SubSeq(s, 1, n) \o <<f>>
         IN /\ q \in Seq(S) /\ Len(q) = n + 1 /\ q[n + 1] = f
            /\ \A i \in 1..n : q[i] = s[i]
<1> DEFINE p == SubSeq(s, 1, n)
           t == <<f>>
<1>1. \A i \in 1..n : s[i] \in S
  <2>1. Len(s) \in Nat
    BY LenProperties
  <2>2. \A i \in 1..n : i \in 1..Len(s)
    BY <2>1
  <2> QED
    BY <2>2, ElementOfSeq
<1>2. p \in Seq(S) /\ Len(p) = n /\ \A i \in 1..n : p[i] = s[i]
  BY <1>1, Prefix
<1>3. t \in Seq(S) /\ Len(t) = 1 /\ t[1] = f
  OBVIOUS
<1> HIDE DEF p, t
<1>4. /\ p \o t \in Seq(S) /\ Len(p \o t) = Len(p) + Len(t)
      /\ \A i \in 1..(Len(p) + Len(t)) :
           (p \o t)[i] = IF i <= Len(p) THEN p[i] ELSE t[i - Len(p)]
  BY <1>2, <1>3, ConcatProperties
<1> QED
  BY <1>2, <1>3, <1>4 DEF p, t

(* The ways the stack changes, frame by frame.                             *)
Depth == Len(stack)

LEMMA DepthRange ==
  ASSUME NEW S, stack \in Seq(S), stack # <<>>
  PROVE  Depth \in Nat \ {0} /\ Top \in S
<1>1. Depth \in Nat \ {0}
  BY EmptySeq DEF Depth
<1> QED
  BY <1>1, ElementOfSeq DEF Depth, Top

LEMMA ReplaceFrames ==
  ASSUME NEW S, stack \in Seq(S), stack # <<>>, NEW f \in S
  PROVE  /\ Replace(f) \in Seq(S) /\ Len(Replace(f)) = Depth
         /\ Replace(f)[Depth] = f
         /\ \A i \in 1..(Depth - 1) : Replace(f)[i] = stack[i]
<1>1. PICK n \in Nat : n = Depth - 1 /\ Depth = n + 1
  BY DepthRange
<1>2. n <= Len(stack)
  BY <1>1 DEF Depth
<1>3. Replace(f) = SubSeq(stack, 1, n) \o <<f>>
  BY <1>1 DEF Replace, Depth
<1> QED
  BY <1>1, <1>2, <1>3, PrefixThen

LEMMA PushFrames ==
  ASSUME NEW S, NEW st \in Seq(S), NEW f \in S
  PROVE  /\ Push(st, f) \in Seq(S) /\ Len(Push(st, f)) = Len(st) + 1
         /\ Push(st, f)[Len(st) + 1] = f
         /\ \A i \in 1..Len(st) : Push(st, f)[i] = st[i]
BY AppendProperties DEF Push

LEMMA PushFrame ==
  ASSUME NEW st \in Seq(AnyFrame), NEW f \in AnyFrame
  PROVE  /\ Push(st, f) \in Seq(AnyFrame) /\ Len(Push(st, f)) = Len(st) + 1
         /\ Push(st, f)[Len(st) + 1] = f
         /\ \A i \in 1..Len(st) : Push(st, f)[i] = st[i]
BY PushFrames

LEMMA PopFrames ==
  ASSUME NEW S, stack \in Seq(S), stack # <<>>
  PROVE  /\ Popped \in Seq(S) /\ Len(Popped) = Depth - 1
         /\ \A i \in 1..(Depth - 1) : Popped[i] = stack[i]
<1>1. PICK n \in Nat : n = Depth - 1 /\ Depth = n + 1
  BY DepthRange
<1>2. \A i \in 1..n : stack[i] \in S
  BY <1>1, ElementOfSeq DEF Depth
<1>3. Popped = SubSeq(stack, 1, n)
  BY <1>1 DEF Popped, Depth
<1> QED
  BY <1>1, <1>2, <1>3, Prefix

Resumed(native) == [Below EXCEPT !.pc = "found", !.loaded = Top.res, !.native = native]

LEMMA ResumeFrames ==
  ASSUME NEW S, stack \in Seq(S), Depth > 1, NEW native, Resumed(native) \in S
  PROVE  /\ Resume(native) \in Seq(S) /\ Len(Resume(native)) = Depth - 1
         /\ Resume(native)[Depth - 1] = Resumed(native)
         /\ \A i \in 1..(Depth - 2) : Resume(native)[i] = stack[i]
<1>1. Depth \in Nat
  BY LenProperties DEF Depth
<1>2. PICK n \in Nat : n = Depth - 2 /\ Depth - 1 = n + 1
  BY <1>1
<1>3. n <= Len(stack)
  BY <1>1, <1>2 DEF Depth
<1>4. Resume(native) = SubSeq(stack, 1, n) \o <<Resumed(native)>>
  BY <1>2 DEF Resume, Resumed, Depth
<1> DEFINE f == Resumed(native)
           q == SubSeq(stack, 1, n) \o <<f>>
<1> HIDE DEF f
<1>5. f \in S
  BY DEF f
<1>6. q \in Seq(S) /\ Len(q) = n + 1 /\ q[n + 1] = f /\ \A i \in 1..n : q[i] = stack[i]
  BY <1>3, <1>5, PrefixThen
<1>7. Resume(native) = q
  BY <1>4 DEF f
<1> HIDE DEF q
<1> QED
  BY <1>2, <1>6, <1>7 DEF f

(* A field of a frame changed.                                             *)
LEMMA Fields ==
  ASSUME NEW f \in AnyFrame, NEW pc \in Pc, NEW s \in Status,
         NEW l \in SUBSET T!Pointer, NEW n \in SUBSET T!Pointer, NEW k \in Nat \ {0}
  PROVE  /\ [f EXCEPT !.pc = pc] \in AnyFrame
         /\ [f EXCEPT !.pc = pc, !.loaded = l, !.native = n] \in AnyFrame
         /\ [f EXCEPT !.pc = pc, !.loaded = l] \in AnyFrame
         /\ [f EXCEPT !.pc = pc, !.native = n] \in AnyFrame
         /\ [f EXCEPT !.pc = pc, !.res = l] \in AnyFrame
         /\ [f EXCEPT !.pc = pc, !.imp = k, !.status = s] \in AnyFrame
         /\ [f EXCEPT !.pc = pc, !.status = s] \in AnyFrame
         /\ [f EXCEPT !.cb = k] \in AnyFrame
<1>1. [f EXCEPT !.pc = pc] \in AnyFrame
  BY DEF AnyFrame
<1>2. [f EXCEPT !.pc = pc, !.loaded = l, !.native = n] \in AnyFrame
  BY DEF AnyFrame
<1>3. [f EXCEPT !.pc = pc, !.loaded = l] \in AnyFrame
  BY DEF AnyFrame
<1>4. [f EXCEPT !.pc = pc, !.native = n] \in AnyFrame
  BY DEF AnyFrame
<1>5. [f EXCEPT !.pc = pc, !.res = l] \in AnyFrame
  BY DEF AnyFrame
<1>6. [f EXCEPT !.pc = pc, !.imp = k, !.status = s] \in AnyFrame
  BY DEF AnyFrame
<1>7. [f EXCEPT !.pc = pc, !.status = s] \in AnyFrame
  BY DEF AnyFrame
<1>8. [f EXCEPT !.cb = k] \in AnyFrame
  BY DEF AnyFrame
<1> QED
  BY <1>1, <1>2, <1>3, <1>4, <1>5, <1>6, <1>7, <1>8
-----------------------------------------------------------------------------
(* The shape of a stack `st` with N instances mapped.  What a frame does   *)
(* while the next one runs, and whose instance that one is.                *)
PcOK(f) ==
  /\ f.kind = "guest" <=> f.pc = "run"
  /\ f.pc = "register" => f.inst # 1
  /\ f.kind = "call" => f.pc \in {"search", "await", "found"} /\ f.want \in ModName

Link(f, g) ==
  /\ g.kind = "load" => f.kind \in {"load", "call"} /\ f.pc = "await" /\ f.inst < g.inst
  /\ g.kind = "guest" => f.kind = "load" /\ f.pc \in {"callbacks", "return"} /\ f.inst = g.inst
  /\ g.kind = "call" => f.kind = "guest" /\ f.inst = g.inst

Ordered(st) ==
  \A i, j \in 1..Len(st) :
    i < j => /\ st[i].inst <= st[j].inst
             /\ st[j].kind = "load" => st[i].inst < st[j].inst

Shape(st, N) ==
  /\ st \in Seq(AnyFrame)
  /\ \A i \in 1..Len(st) : st[i].inst \in 1..N /\ PcOK(st[i])
  /\ \A i \in 1..(Len(st) - 1) : Link(st[i], st[i + 1])
  /\ st # <<>> => /\ st[1].kind = "load" /\ st[1].inst = 1
                  /\ st[Len(st)].pc # "await"
  /\ Ordered(st)

SameOwner(f, g) == f.kind = g.kind /\ f.inst = g.inst

LEMMA ShapeTop ==
  ASSUME NEW N \in Nat, Shape(stack, N), stack # <<>>
  PROVE  /\ Depth \in Nat \ {0} /\ Top \in AnyFrame /\ Top = stack[Depth]
         /\ Top.inst \in 1..N /\ PcOK(Top) /\ Top.pc # "await"
         /\ \A i \in 1..Depth : stack[i] \in AnyFrame
<1>1. stack \in Seq(AnyFrame)
  BY DEF Shape
<1>2. Depth \in Nat \ {0} /\ Top \in AnyFrame
  BY <1>1, DepthRange
<1>3. \A i \in 1..Depth : stack[i] \in AnyFrame
  BY <1>1, ElementOfSeq DEF Depth
<1> QED
  BY <1>2, <1>3 DEF Shape, Depth, Top

LEMMA ReplaceTop ==
  ASSUME NEW N \in Nat, Shape(stack, N), stack # <<>>
  PROVE  Replace(Top) = stack
<1>1. stack \in Seq(AnyFrame) /\ Top \in AnyFrame /\ Depth \in Nat \ {0}
  BY ShapeTop DEF Shape
<1>2. /\ Replace(Top) \in Seq(AnyFrame) /\ Len(Replace(Top)) = Depth
      /\ Replace(Top)[Depth] = Top
      /\ \A i \in 1..(Depth - 1) : Replace(Top)[i] = stack[i]
  BY <1>1, ReplaceFrames
<1>3. Len(Replace(Top)) = Len(stack) /\ \A i \in 1..Len(Replace(Top)) : Replace(Top)[i] = stack[i]
  BY <1>1, <1>2 DEF Depth, Top
<1> QED
  BY <1>1, <1>2, <1>3, SeqEqual

(* The top frame goes on.                                                  *)
LEMMA ShapeReplace ==
  ASSUME NEW N \in Nat, Shape(stack, N), stack # <<>>,
         NEW f \in AnyFrame, SameOwner(f, Top), PcOK(f), f.pc # "await"
  PROVE  Shape(Replace(f), N)
<1> DEFINE st == Replace(f)
<1>1. /\ Depth \in Nat \ {0} /\ Top = stack[Depth] /\ Len(stack) = Depth
      /\ \A i \in 1..Depth : stack[i] \in AnyFrame
  BY ShapeTop DEF Depth
<1>2. stack \in Seq(AnyFrame)
  BY DEF Shape
<1>3. /\ st \in Seq(AnyFrame) /\ Len(st) = Depth /\ st[Depth] = f
      /\ \A i \in 1..(Depth - 1) : st[i] = stack[i]
  BY <1>2, ReplaceFrames
<1> HIDE DEF st
<1>4. \A i \in 1..Depth : SameOwner(st[i], stack[i])
  BY <1>1, <1>3 DEF SameOwner
<1>5. \A i \in 1..Depth : st[i].inst \in 1..N /\ PcOK(st[i])
  BY <1>1, <1>3, <1>4 DEF Shape, SameOwner
<1>6. \A i \in 1..(Depth - 1) : Link(st[i], st[i + 1])
  BY <1>1, <1>3, <1>4 DEF Shape, SameOwner, Link
<1>7. st[1].kind = "load" /\ st[1].inst = 1 /\ st[Len(st)].pc # "await"
  BY <1>1, <1>3, <1>4 DEF Shape, SameOwner
<1>8. Ordered(st)
  BY <1>1, <1>3, <1>4 DEF Shape, SameOwner, Ordered
<1> QED
  BY <1>3, <1>5, <1>6, <1>7, <1>8 DEF Shape, st

(* The top frame calls another.                                            *)
LEMMA ShapePush ==
  ASSUME NEW N \in Nat, NEW M \in Nat, N <= M, Shape(stack, N), stack # <<>>,
         NEW f \in AnyFrame, SameOwner(f, Top), PcOK(f),
         NEW g \in AnyFrame, Link(f, g), g.inst \in 1..M, PcOK(g), g.pc # "await"
  PROVE  Shape(Push(Replace(f), g), M)
<1> DEFINE r == Replace(f)
           st == Push(r, g)
<1>1. /\ Depth \in Nat \ {0} /\ Top = stack[Depth] /\ Len(stack) = Depth
      /\ \A i \in 1..Depth : stack[i] \in AnyFrame
  BY ShapeTop DEF Depth
<1>2. stack \in Seq(AnyFrame)
  BY DEF Shape
<1>3. /\ r \in Seq(AnyFrame) /\ Len(r) = Depth /\ r[Depth] = f
      /\ \A i \in 1..(Depth - 1) : r[i] = stack[i]
  BY <1>2, ReplaceFrames
<1> HIDE DEF r
<1>4. /\ st \in Seq(AnyFrame) /\ Len(st) = Depth + 1 /\ st[Depth + 1] = g
      /\ \A i \in 1..Depth : st[i] = r[i]
  <2>1. r \in Seq(AnyFrame) /\ Len(r) = Depth
    BY <1>1, <1>3
  <2>2. /\ Push(r, g) \in Seq(AnyFrame) /\ Len(Push(r, g)) = Len(r) + 1
        /\ Push(r, g)[Len(r) + 1] = g
        /\ \A i \in 1..Len(r) : Push(r, g)[i] = r[i]
    BY <2>1, PushFrame
  <2> QED
    BY <2>1, <2>2
<1> HIDE DEF st
<1>5. \A i \in 1..Depth : SameOwner(st[i], stack[i])
  BY <1>1, <1>3, <1>4 DEF SameOwner
<1>6. st[Depth] = f /\ \A i \in 1..(Depth - 1) : st[i] = stack[i]
  BY <1>1, <1>3, <1>4
<1>7. \A i \in 1..Depth : st[i].inst \in 1..M /\ PcOK(st[i])
  BY <1>1, <1>5, <1>6 DEF Shape, SameOwner
<1>8. \A i \in 1..Depth : Link(st[i], st[i + 1])
  <2>1. ASSUME NEW i \in 1..(Depth - 1) PROVE Link(st[i], st[i + 1])
    <3>1. i \in 1..(Len(stack) - 1) /\ i + 1 \in 1..Depth
      BY <1>1
    <3>2. st[i] = stack[i] /\ SameOwner(st[i + 1], stack[i + 1]) /\ Link(stack[i], stack[i + 1])
      BY <1>5, <1>6, <3>1 DEF Shape
    <3> QED
      BY <3>2 DEF SameOwner, Link
  <2>2. Link(st[Depth], st[Depth + 1])
    BY <1>4, <1>6
  <2> QED
    BY <1>1, <2>1, <2>2
<1>9. st[1].kind = "load" /\ st[1].inst = 1
  BY <1>1, <1>5 DEF Shape, SameOwner
<1>10. Ordered(st)
  <2>1. \A i \in 1..Depth : st[i].inst \in Nat /\ st[i].inst <= f.inst
    BY <1>1, <1>5 DEF Shape, SameOwner, Ordered
  <2>2. f.inst \in Nat /\ g.inst \in Nat /\ f.inst <= g.inst /\ (g.kind = "load" => f.inst < g.inst)
    <3>1. g.kind \in {"load", "call", "guest"} /\ f.inst \in Nat /\ g.inst \in Nat
      BY DEF AnyFrame
    <3> QED
      BY <3>1 DEF Link
  <2>3. ASSUME NEW i \in 1..(Depth + 1), NEW j \in 1..(Depth + 1), i < j
        PROVE  /\ st[i].inst <= st[j].inst
               /\ st[j].kind = "load" => st[i].inst < st[j].inst
    <3>1. CASE j = Depth + 1
      BY <1>1, <1>4, <2>1, <2>2, <2>3, <3>1
    <3>2. CASE j \in 1..Depth
      BY <1>1, <1>5, <2>3, <3>2 DEF Shape, SameOwner, Ordered
    <3> QED
      BY <1>1, <3>1, <3>2
  <2> QED
    BY <1>4, <2>3 DEF Ordered
<1>11. \A i \in 1..(Depth + 1) : st[i].inst \in 1..M /\ PcOK(st[i])
  BY <1>1, <1>4, <1>7
<1> QED
  BY <1>1, <1>4, <1>8, <1>9, <1>10, <1>11 DEF Shape, st, r

(* The top frame returns.                                                  *)
LEMMA ShapePop ==
  ASSUME NEW N \in Nat, Shape(stack, N), stack # <<>>, Top.kind # "load"
  PROVE  Depth > 1 /\ Popped # <<>> /\ Shape(Popped, N)
<1> DEFINE st == Popped
<1>1. /\ Depth \in Nat \ {0} /\ Top = stack[Depth] /\ Len(stack) = Depth
      /\ \A i \in 1..Depth : stack[i] \in AnyFrame
  BY ShapeTop DEF Depth
<1>2. stack \in Seq(AnyFrame)
  BY DEF Shape
<1>3. st \in Seq(AnyFrame) /\ Len(st) = Depth - 1 /\ \A i \in 1..(Depth - 1) : st[i] = stack[i]
  BY <1>2, PopFrames
<1> HIDE DEF st
<1>4. Depth # 1
  BY <1>1 DEF Shape
<1>5. Depth - 1 \in 1..Depth /\ stack[Depth - 1].pc # "await"
  <2>1. Link(stack[Depth - 1], stack[Depth]) /\ PcOK(stack[Depth - 1])
    BY <1>1, <1>4 DEF Shape
  <2>2. Top.kind \in {"guest", "call"}
    BY <1>1 DEF AnyFrame
  <2> QED
    BY <1>1, <1>4, <2>1, <2>2 DEF Link, PcOK
<1>6. \A i \in 1..Len(st) : st[i].inst \in 1..N /\ PcOK(st[i])
  BY <1>1, <1>3 DEF Shape
<1>7. \A i \in 1..(Len(st) - 1) : Link(st[i], st[i + 1])
  BY <1>1, <1>3 DEF Shape
<1>8. st[1].kind = "load" /\ st[1].inst = 1 /\ st[Len(st)].pc # "await"
  BY <1>1, <1>3, <1>4, <1>5 DEF Shape
<1>9. Ordered(st)
  BY <1>1, <1>3 DEF Shape, Ordered
<1>10. st # <<>>
  BY <1>1, <1>3, <1>4, EmptySeq
<1> QED
  BY <1>1, <1>3, <1>4, <1>6, <1>7, <1>8, <1>9, <1>10 DEF Shape, st

LEMMA ShapeResume ==
  ASSUME NEW N \in Nat, Shape(stack, N), stack # <<>>, Top.kind = "load", Top.inst # 1,
         NEW native \in SUBSET T!Pointer
  PROVE  /\ Depth > 1 /\ Below \in AnyFrame /\ Below = stack[Depth - 1]
         /\ Resumed(native) \in AnyFrame /\ SameOwner(Resumed(native), Below)
         /\ Below.kind \in {"load", "call"} /\ Below.pc = "await"
         /\ Shape(Resume(native), N)
<1> DEFINE st == Resume(native)
           f == Resumed(native)
<1>1. /\ Depth \in Nat \ {0} /\ Top = stack[Depth] /\ Len(stack) = Depth
      /\ \A i \in 1..Depth : stack[i] \in AnyFrame
  BY ShapeTop DEF Depth
<1>2. Depth # 1
  BY <1>1 DEF Shape
<1>3. Below = stack[Depth - 1] /\ Below \in AnyFrame /\ Depth - 1 \in 1..Depth /\ Depth > 1
  BY <1>1, <1>2 DEF Below
<1>4. Link(Below, Top) /\ PcOK(Below)
  BY <1>1, <1>2, <1>3 DEF Shape
<1>5. Below.kind \in {"load", "call"} /\ Below.pc = "await"
  BY <1>4 DEF Link
<1>6. f \in AnyFrame /\ SameOwner(f, Below) /\ f.pc = "found" /\ f.want = Below.want
  <2>1. Top.res \in SUBSET T!Pointer
    BY <1>1 DEF AnyFrame
  <2>2. "found" \in Pc /\ "SUCCESS" \in Status /\ 1 \in Nat \ {0}
    BY DEF Pc, Status
  <2>3. f \in AnyFrame
    BY <1>3, <2>1, <2>2, Fields DEF Resumed
  <2> QED
    BY <1>3, <2>3 DEF Resumed, SameOwner, AnyFrame
<1>7. PcOK(f)
  BY <1>4, <1>5, <1>6 DEF PcOK, SameOwner
<1>8. stack \in Seq(AnyFrame)
  BY DEF Shape
<1>9. /\ st \in Seq(AnyFrame) /\ Len(st) = Depth - 1 /\ st[Depth - 1] = f
      /\ \A i \in 1..(Depth - 2) : st[i] = stack[i]
  BY <1>3, <1>6, <1>8, ResumeFrames
<1> HIDE DEF st, f
<1>10. \A i \in 1..(Depth - 1) : SameOwner(st[i], stack[i])
  BY <1>1, <1>3, <1>6, <1>9 DEF SameOwner
<1>11. \A i \in 1..(Depth - 1) : st[i].inst \in 1..N /\ PcOK(st[i])
  <2> SUFFICES ASSUME NEW i \in 1..(Depth - 1) PROVE st[i].inst \in 1..N /\ PcOK(st[i])
    OBVIOUS
  <2>1. i \in 1..Len(stack) /\ (i = Depth - 1 \/ i \in 1..(Depth - 2))
    BY <1>1
  <2>2. stack[i].inst \in 1..N /\ PcOK(stack[i])
    BY <2>1 DEF Shape
  <2> QED
    BY <1>7, <1>9, <1>10, <2>1, <2>2 DEF SameOwner
<1>12. \A i \in 1..(Depth - 2) : Link(st[i], st[i + 1])
  <2> SUFFICES ASSUME NEW i \in 1..(Depth - 2) PROVE Link(st[i], st[i + 1])
    OBVIOUS
  <2>1. i + 1 \in 1..(Depth - 1) /\ i \in 1..(Len(stack) - 1)
    BY <1>1
  <2>2. st[i] = stack[i] /\ SameOwner(st[i + 1], stack[i + 1])
    BY <1>9, <1>10, <2>1
  <2>3. Link(stack[i], stack[i + 1])
    BY <2>1 DEF Shape
  <2> QED
    BY <2>2, <2>3 DEF SameOwner, Link
<1>13. st[1].kind = "load" /\ st[1].inst = 1 /\ st[Len(st)].pc # "await"
  BY <1>1, <1>3, <1>6, <1>9, <1>10 DEF Shape, SameOwner
<1>14. Ordered(st)
  <2>1. ASSUME NEW i \in 1..(Depth - 1), NEW j \in 1..(Depth - 1), i < j
        PROVE  /\ stack[i].inst <= stack[j].inst
               /\ stack[j].kind = "load" => stack[i].inst < stack[j].inst
    <3>1. i \in 1..Len(stack) /\ j \in 1..Len(stack)
      BY <1>1
    <3> QED
      BY <2>1, <3>1 DEF Shape, Ordered
  <2> QED
    BY <1>9, <1>10, <2>1 DEF SameOwner, Ordered
<1>15. Shape(st, N)
  BY <1>1, <1>9, <1>11, <1>12, <1>13, <1>14 DEF Shape
<1> QED
  BY <1>3, <1>5, <1>6, <1>15 DEF st, f
-----------------------------------------------------------------------------
(* What the variables are.                                                 *)
ImagesInv ==
  /\ insts \in Seq(AnyInstance)
  /\ \A n \in 1..Len(insts) : /\ insts[n].image \in DOMAIN world.img
                              /\ n # 1 => insts[n].image \in Stem

ImportsInv ==
  \A i \in 1..Len(stack) :
    stack[i].kind = "load" /\ stack[i].pc \in {"search", "await", "found"} =>
      stack[i].imp <= Len(ImportsOf(stack[i].inst))

(* A pointer someone holds, dangling or not, was issued for an entry of the *)
(* table, which is still there.                                            *)
Ptrs(f) == f.res \cup f.loaded \cup f.native
PtrOK(p) == p \in T!Pointer /\ p.idx \in 1..Len(libs) /\ libs[p.idx] = p.lib

PointersInv == \A i \in 1..Len(stack) : \A p \in Ptrs(stack[i]) : PtrOK(p)

TableInv ==
  /\ libs \in Seq(T!Lib) /\ cap \in Nat /\ block \in Nat /\ tlsIndex \in Nat
  /\ \A p \in handles : PtrOK(p)
  /\ \A k \in 1..Len(libs) : libs[k].kind = "PE" => libs[k].name.ext = "dll"

ShapeInv ==
  /\ world \in Worlds /\ ImagesInv /\ TableInv /\ PointersInv
  /\ Shape(stack, Len(insts)) /\ (stack = <<>> <=> insts = <<>>)
  /\ ImportsInv

LEMMA World ==
  ASSUME ShapeInv
  PROVE  /\ WorldOK(world)
         /\ \A f \in DOMAIN world.img : world.img[f] \in Image /\ f \in Stem \cup {Exe}
         /\ Len(insts) \in Nat
         /\ \A n \in 1..Len(insts) :
              /\ insts[n] \in AnyInstance /\ ImageOf(n) \in Image
              /\ ImportsOf(n) \in Seq(Import)
<1>1. WorldOK(world)
  BY WorldsAssumption DEF ShapeInv
<1>2. \A f \in DOMAIN world.img : world.img[f] \in Image /\ f \in Stem \cup {Exe}
  BY <1>1 DEF WorldOK
<1>3. Len(insts) \in Nat /\ \A n \in 1..Len(insts) : insts[n] \in AnyInstance
  BY LenProperties, ElementOfSeq DEF ShapeInv, ImagesInv
<1>4. \A n \in 1..Len(insts) : ImageOf(n) \in Image
  BY <1>2 DEF ShapeInv, ImagesInv, ImageOf
<1>5. \A n \in 1..Len(insts) : ImportsOf(n) \in Seq(Import)
  BY <1>4 DEF ImportsOf, Image
<1> QED
  BY <1>1, <1>2, <1>3, <1>4, <1>5

(* The table: what is found in it, and what registration adds to it.       *)
LEMMA Found ==
  ASSUME TableInv, NEW key, T!Find(libs, key) # 0
  PROVE  /\ T!Find(libs, key) \in 1..Len(libs)
         /\ libs[T!Find(libs, key)].name = key
         /\ PtrOK(T!PointerTo(block, T!Find(libs, key), libs))
<1> DEFINE k == T!Find(libs, key)
<1>1. \E i \in 1..Len(libs) : T!FirstMatch(libs, key, i)
  BY DEF T!Find
<1>2. k \in 1..Len(libs) /\ T!FirstMatch(libs, key, k)
  BY <1>1 DEF T!Find
<1>3. libs[k].name = key
  BY <1>2 DEF T!FirstMatch
<1>4. libs[k] \in T!Lib /\ Len(libs) \in Nat
  BY <1>2, ElementOfSeq, LenProperties DEF TableInv
<1> HIDE DEF k
<1>5. PtrOK(T!PointerTo(block, k, libs))
  BY <1>2, <1>4 DEF T!PointerTo, T!Pointer, TableInv, PtrOK
<1> QED
  BY <1>2, <1>3, <1>5 DEF k

PointersStay == \A p : PtrOK(p) => PtrOK(p)'

LEMMA TableKept ==
  ASSUME TableInv, UNCHANGED <<libs, cap, block, handles>>, tlsIndex' \in Nat
  PROVE  TableInv' /\ PointersStay
BY DEF TableInv, PointersStay, PtrOK

LEMMA Registered ==
  ASSUME TableInv, NEW name \in ModName, NEW kind \in {"PE", "NATIVE"}, NEW handle \in Nat,
         Register(name, kind, handle), UNCHANGED <<handles, tlsIndex>>,
         kind = "PE" => name.ext = "dll"
  PROVE  /\ TableInv' /\ PointersStay
         /\ Len(libs) \in Nat /\ Len(libs') = Len(libs) + 1
         /\ libs'[Len(libs')] = [name |-> name, kind |-> kind, handle |-> handle]
         /\ \A i \in 1..Len(libs) : libs'[i] = libs[i]
         /\ \A p : p = PointerTo(Len(libs')) => PtrOK(p)' /\ p.lib = libs'[Len(libs')]
<1> DEFINE l == [name |-> name, kind |-> kind, handle |-> handle]
<1>1. l \in T!Lib
  BY DEF T!Lib
<1>2. libs' = Append(libs, l) /\ libs \in Seq(T!Lib) /\ T!Reallocate
  BY DEF Register, TableInv
<1>3. cap' \in Nat /\ block' \in Nat
  BY <1>2, LoaderAssumption DEF T!Reallocate, T!Grow, TableInv
<1>4. Len(libs) \in Nat
  BY <1>2, LenProperties
<1> HIDE DEF l
<1>5. /\ libs' \in Seq(T!Lib) /\ Len(libs') = Len(libs) + 1 /\ libs'[Len(libs) + 1] = l
      /\ \A i \in 1..Len(libs) : libs'[i] = libs[i]
  BY <1>1, <1>2, AppendProperties
<1>6. ASSUME NEW p, p = PointerTo(Len(libs'))
      PROVE  PtrOK(p)' /\ p.lib = libs'[Len(libs')]
  BY <1>1, <1>3, <1>4, <1>5, <1>6 DEF PointerTo, T!PointerTo, T!Pointer, PtrOK
<1>7. PointersStay
  BY <1>4, <1>5 DEF PointersStay, PtrOK
<1>8. \A k \in 1..Len(libs') : libs'[k].kind = "PE" => libs'[k].name.ext = "dll"
  <2>1. l.kind = kind /\ l.name = name
    BY DEF l
  <2> QED
    BY <1>4, <1>5, <2>1 DEF TableInv
<1>9. TableInv'
  BY <1>3, <1>5, <1>7, <1>8 DEF TableInv, PointersStay
<1> QED
  BY <1>4, <1>5, <1>6, <1>7, <1>9 DEF l
-----------------------------------------------------------------------------
(* The kinds of steps.  A frame goes on, and a module may be bound to what *)
(* the frame has found; ...                                                *)
Bindable ==
  IF At("load", "found") THEN {p.lib.handle : p \in {q \in Top.loaded : q.lib.kind = "PE"}}
  ELSE {}

SameImages ==
  /\ insts' \in Seq(AnyInstance) /\ Len(insts') = Len(insts)
  /\ \A n \in 1..Len(insts) : /\ insts'[n].image = insts[n].image
                              /\ insts'[n].parent = insts[n].parent
                              /\ Providers(n)' \subseteq Providers(n) \cup {Raw, Null, Native}
                                                       \cup Bindable

Quiet ==
  /\ SameImages
  /\ \A n \in 1..Len(insts) :
       \/ insts'[n].phase = insts[n].phase
       \/ Top.kind = "load" /\ Top.inst = n /\ insts'[n].phase # "attached"

(* The pointer a step hands out, if it does: to the entry it adds to the    *)
(* table, or else to the one it finds there.                               *)
FoundNow == Searching /\ T!Find(libs, Key(Top)) # 0
Fresh ==
  IF libs' # libs THEN {PointerTo(Len(libs'))}
  ELSE IF FoundNow THEN {T!PointerTo(block, T!Find(libs, Key(Top)), libs)} ELSE {}

(* What a frame of the loader holds: the entry of its own module, and when *)
(* it has found a library, the entry of that.                              *)
OwnEntry(p, n) == p.lib.kind = "PE" /\ p.lib.handle = n

Holds(f) ==
  f.kind = "load" =>
    /\ \A p \in f.res : p \in Top.res \/ OwnEntry(p, f.inst)
    /\ f.pc \in {"search", "await"} =>
         f.loaded = {} \/ (Top.pc = "search" /\ f.loaded = Top.loaded)
    /\ f.pc = "found" => \A p \in f.loaded :
         p.lib.kind = "NATIVE" \/ (Top.pc = "search" /\ p \in Top.loaded)

NextTop(f) ==
  /\ f \in AnyFrame /\ SameOwner(f, Top) /\ PcOK(f)
  /\ f.kind = "load" /\ f.pc \in {"search", "await", "found"} =>
       f.imp <= Len(ImportsOf(f.inst))
  /\ \A p \in Ptrs(f) : PtrOK(p)' /\ p \in Ptrs(Top) \cup Fresh
  /\ Holds(f)

Goes ==
  /\ stack # <<>> /\ Quiet
  /\ \E f : NextTop(f) /\ f.pc # "await" /\ stack' = Replace(f)

(* ... it calls the guest, or the guest calls the loader; ...              *)
Calls ==
  /\ stack # <<>> /\ Quiet
  /\ \E f, g : /\ NextTop(f) /\ stack' = Push(Replace(f), g)
               /\ g \in AnyFrame /\ g.inst = f.inst /\ g.kind \in {"guest", "call"}
               /\ Link(f, g) /\ PcOK(g) /\ g.pc # "await" /\ Ptrs(g) = {}

(* ... a module is loaded on behalf of the top frame; ...                  *)
Loads ==
  /\ stack # <<>>
  /\ \E f : \E s \in DOMAIN world.img \cap Stem :
       /\ NextTop(f) /\ f.kind \in {"load", "call"} /\ f.pc = "await"
       /\ stack' = Push(Replace(f), LoadFrame(Len(insts) + 1, "tls"))
       /\ insts' = Append(insts, Instance(s, Top.inst))

Starts ==
  /\ stack = <<>> /\ Exe \in DOMAIN world.img
  /\ stack' = Push(stack, LoadFrame(Len(insts) + 1, "import"))
  /\ insts' = Append(insts, Instance(Exe, 0))

(* ... guest code or LoadLibraryW returns; a DLL is attached; the          *)
(* executable's entry point returns; or the process ends on the spot.      *)
Returns == stack # <<>> /\ insts' = insts /\ Top.kind # "load" /\ stack' = Popped

Attaches ==
  /\ stack # <<>> /\ Top.kind = "load" /\ Top.inst # 1
  /\ insts' = SetPhase(Top.inst, "attached")
  /\ \E native \in SUBSET T!Pointer :
       /\ stack' = Resume(native)
       /\ \A p \in native : PtrOK(p)' /\ p \in Fresh

Completes ==
  /\ stack # <<>> /\ Top.kind = "load" /\ Top.inst = 1
  /\ insts' = SetPhase(Top.inst, "attached") /\ stack' = stack
  /\ outcome' # "running"

Stops == insts' = insts /\ stack' = stack /\ outcome' # "running"

Runs ==
  outcome' = outcome /\ (Goes \/ Calls \/ Loads \/ Starts \/ Returns \/ Attaches)

Kinds == Runs \/ Completes \/ Stops
-----------------------------------------------------------------------------
(* An instance just mapped, and instances changed in one field.            *)
LEMMA NewInstance ==
  ASSUME ShapeInv, NEW s \in DOMAIN world.img, NEW parent \in Nat
  PROVE  Instance(s, parent) \in AnyInstance
<1> DEFINE image == world.img[s]
           iat == Unresolved(image)
<1>1. image \in Image /\ s \in Stem \cup {Exe}
  BY World
<1>2. image.imports \in Seq(Import)
  BY <1>1 DEF Image
<1>3. /\ Len(image.imports) \in Nat /\ DOMAIN image.imports = 1..Len(image.imports)
      /\ \A i \in 1..Len(image.imports) : image.imports[i] \in Import
  BY <1>2, LenProperties, ElementOfSeq
<1>4. ASSUME NEW i \in 1..Len(image.imports)
      PROVE  [j \in DOMAIN image.imports[i].reqs |-> Raw] \in Seq(Int)
  <2>1. image.imports[i].reqs \in Seq(Symbol)
    BY <1>3 DEF Import
  <2>2. PICK n \in Nat : DOMAIN image.imports[i].reqs = 1..n
    BY <2>1, LenProperties
  <2>3. [j \in 1..n |-> Raw] \in [1..n -> Int]
    BY DEF Raw
  <2> QED
    BY <2>2, <2>3, SeqDef
<1>5. iat \in Seq(Seq(Int))
  <2>1. PICK n \in Nat : n = Len(image.imports)
    BY <1>3
  <2>2. iat \in [1..n -> Seq(Int)]
    BY <1>3, <1>4, <2>1 DEF Unresolved
  <2> HIDE DEF iat
  <2> QED
    BY <2>2, SeqDef
<1> HIDE DEF iat, image
<1>6. Instance(s, parent) = [image |-> s, parent |-> parent, phase |-> "loading",
                             tls |-> -1, iat |-> iat]
  BY DEF Instance, iat, image
<1> QED
  BY <1>1, <1>5, <1>6 DEF AnyInstance, Loading

LEMMA InstanceAdded ==
  ASSUME ShapeInv, NEW s \in DOMAIN world.img, NEW parent \in Nat,
         insts' = Append(insts, Instance(s, parent))
  PROVE  /\ insts' \in Seq(AnyInstance) /\ Len(insts') = Len(insts) + 1
         /\ Len(insts) \in Nat
         /\ insts'[Len(insts) + 1] = Instance(s, parent)
         /\ \A n \in 1..Len(insts) : insts'[n] = insts[n]
<1>1. Instance(s, parent) \in AnyInstance /\ insts \in Seq(AnyInstance)
  BY NewInstance DEF ShapeInv, ImagesInv
<1> QED
  BY <1>1, AppendProperties, LenProperties

LEMMA InstanceChanged ==
  ASSUME ShapeInv, NEW n \in 1..Len(insts), NEW r \in AnyInstance,
         insts' = [insts EXCEPT ![n] = r]
  PROVE  /\ insts' \in Seq(AnyInstance) /\ Len(insts') = Len(insts)
         /\ insts'[n] = r /\ \A m \in 1..Len(insts) : m # n => insts'[m] = insts[m]
<1>1. insts \in Seq(AnyInstance)
  BY DEF ShapeInv, ImagesInv
<1> QED
  BY <1>1, ExceptSeq

LEMMA PhaseSet ==
  ASSUME ShapeInv, NEW n \in 1..Len(insts), NEW phase \in Loading,
         insts' = SetPhase(n, phase)
  PROVE  /\ SameImages
         /\ insts'[n] = [insts[n] EXCEPT !.phase = phase] /\ insts'[n].phase = phase
         /\ \A m \in 1..Len(insts) : m # n => insts'[m] = insts[m]
<1>1. insts[n] \in AnyInstance
  BY World
<1>2. [insts[n] EXCEPT !.phase = phase] \in AnyInstance
  BY <1>1 DEF AnyInstance
<1>3. insts' = [insts EXCEPT ![n] = [insts[n] EXCEPT !.phase = phase]]
  BY DEF SetPhase
<1>4. /\ insts' \in Seq(AnyInstance) /\ Len(insts') = Len(insts)
      /\ insts'[n] = [insts[n] EXCEPT !.phase = phase]
      /\ \A m \in 1..Len(insts) : m # n => insts'[m] = insts[m]
  BY <1>2, <1>3, InstanceChanged
<1>5. /\ insts'[n].image = insts[n].image /\ insts'[n].parent = insts[n].parent
      /\ insts'[n].phase = phase /\ insts'[n].iat = insts[n].iat
  BY <1>1, <1>4 DEF AnyInstance
<1>6. \A m \in 1..Len(insts) : Providers(m)' = Providers(m)
  <2>1. ASSUME NEW m \in 1..Len(insts) PROVE Providers(m)' = Providers(m)
    <3>1. insts'[m].iat = insts[m].iat
      BY <1>4, <1>5
    <3> QED
      BY <3>1 DEF Providers
  <2> QED
    BY <2>1
<1> QED
  BY <1>4, <1>5, <1>6 DEF SameImages

LEMMA Unchanged ==
  ASSUME ShapeInv, insts' = insts
  PROVE  Quiet /\ SameImages
BY DEF Quiet, SameImages, ShapeInv, ImagesInv, Providers

(* The new frame of a step.                                                *)
LEMMA NewFrame ==
  ASSUME NEW n \in Nat \ {0}, NEW pc \in Pc
  PROVE  /\ LoadFrame(n, pc) \in AnyFrame
         /\ LoadFrame(n, pc).kind = "load" /\ LoadFrame(n, pc).inst = n
         /\ LoadFrame(n, pc).pc = pc /\ LoadFrame(n, pc).imp = 1
         /\ LoadFrame(n, pc).loaded = {} /\ LoadFrame(n, pc).native = {}
         /\ LoadFrame(n, pc).res = {} /\ LoadFrame(n, pc).status = "SUCCESS"
BY DEF LoadFrame, AnyFrame, Status

LEMMA NewGuest ==
  ASSUME NEW n \in Nat \ {0}
  PROVE  /\ GuestFrame(n) \in AnyFrame
         /\ GuestFrame(n).kind = "guest" /\ GuestFrame(n).inst = n /\ GuestFrame(n).pc = "run"
         /\ GuestFrame(n).loaded = {} /\ GuestFrame(n).native = {} /\ GuestFrame(n).res = {}
BY DEF GuestFrame, LoadFrame, AnyFrame, Status, Pc

LEMMA NewCall ==
  ASSUME NEW n \in Nat \ {0}, NEW name \in ModName
  PROVE  /\ CallFrame(n, name) \in AnyFrame
         /\ CallFrame(n, name).kind = "call" /\ CallFrame(n, name).inst = n
         /\ CallFrame(n, name).pc = "search" /\ CallFrame(n, name).want = name
         /\ CallFrame(n, name).loaded = {} /\ CallFrame(n, name).native = {}
         /\ CallFrame(n, name).res = {}
<1> DEFINE f == LoadFrame(n, "search")
           g == [f EXCEPT !.kind = "call", !.want = name]
<1>1. "search" \in Pc
  BY DEF Pc
<1>2. /\ f \in AnyFrame /\ f.inst = n /\ f.pc = "search"
      /\ f.loaded = {} /\ f.native = {} /\ f.res = {}
  BY <1>1, NewFrame
<1> HIDE DEF f
<1>3. /\ g \in AnyFrame /\ g.kind = "call" /\ g.want = name /\ g.inst = f.inst /\ g.pc = f.pc
      /\ g.loaded = f.loaded /\ g.native = f.native /\ g.res = f.res
  BY <1>2 DEF AnyFrame
<1> QED
  BY <1>2, <1>3 DEF CallFrame, f

(* A frame that is at an import is at one of its image's.                  *)
FrameIn(f) ==
  f.kind = "load" /\ f.pc \in {"search", "await", "found"} =>
    f.inst \in 1..Len(insts) /\ f.imp <= Len(ImportsOf(f.inst))

LEMMA FramesIn == ASSUME ShapeInv, NEW i \in 1..Len(stack) PROVE FrameIn(stack[i])
BY DEF ShapeInv, Shape, ImportsInv, FrameIn

LEMMA ImportsStay ==
  ASSUME ShapeInv, world' = world,
         \A n \in 1..Len(insts) : insts'[n].image = insts[n].image,
         \A i \in 1..Len(stack') : FrameIn(stack'[i])
  PROVE  ImportsInv'
<1>1. \A n \in 1..Len(insts) : ImportsOf(n)' = ImportsOf(n)
  BY DEF ImportsOf, ImageOf
<1> QED
  BY <1>1 DEF FrameIn, ImportsInv

LEMMA ImagesStay ==
  ASSUME ShapeInv, world' = world, SameImages
  PROVE  /\ ImagesInv' /\ Len(insts') = Len(insts)
         /\ insts' = <<>> <=> insts = <<>>
<1>1. ImagesInv'
  BY DEF SameImages, ShapeInv, ImagesInv
<1>2. insts \in Seq(AnyInstance) /\ insts' \in Seq(AnyInstance) /\ Len(insts') = Len(insts)
  BY DEF SameImages, ShapeInv, ImagesInv
<1>3. insts' = <<>> <=> insts = <<>>
  BY <1>2, EmptySeq
<1> QED
  BY <1>1, <1>2, <1>3

LEMMA NoFrames ==
  ASSUME NEW S, NEW st \in Seq(S)
  PROVE  /\ Len(st) \in Nat
         /\ Len(st) > 0 <=> st # <<>>
BY EmptySeq, LenProperties

LEMMA PointersKept ==
  ASSUME ShapeInv, PointersStay, NEW n \in Nat, n <= Len(stack), Len(stack') \in Nat,
         \A i \in 1..n : stack'[i] = stack[i],
         \A i \in (n + 1)..Len(stack') : \A p \in Ptrs(stack'[i]) : PtrOK(p)'
  PROVE  PointersInv'
<1>1. SUFFICES ASSUME NEW i \in 1..Len(stack'), NEW p \in Ptrs(stack'[i])
               PROVE  PtrOK(p)'
  BY DEF PointersInv, Ptrs
<1>2. CASE i \in 1..n
  <2>1. i \in 1..Len(stack) /\ p \in Ptrs(stack[i])
    BY <1>2, NoFrames DEF ShapeInv, Shape
  <2> QED
    BY <2>1 DEF ShapeInv, PointersInv, PointersStay
<1> QED
  BY <1>2

(* What a step keeps besides.                                              *)
Kept == world' = world /\ TableInv' /\ PointersStay

LEMMA CallFrames ==
  ASSUME stack \in Seq(AnyFrame), stack # <<>>, NEW f \in AnyFrame, NEW g \in AnyFrame,
         stack' = Push(Replace(f), g)
  PROVE  /\ stack' \in Seq(AnyFrame) /\ Len(stack') = Depth + 1
         /\ stack'[Depth] = f /\ stack'[Depth + 1] = g
         /\ \A i \in 1..(Depth - 1) : stack'[i] = stack[i]
<1> DEFINE r == Replace(f)
           st == Push(r, g)
<1>1. Depth \in Nat \ {0}
  BY DepthRange
<1>2. /\ r \in Seq(AnyFrame) /\ Len(r) = Depth /\ r[Depth] = f
      /\ \A i \in 1..(Depth - 1) : r[i] = stack[i]
  BY ReplaceFrames
<1>3. stack' = st
  OBVIOUS
<1> HIDE DEF r
<1>4. /\ st \in Seq(AnyFrame) /\ Len(st) = Depth + 1 /\ st[Depth + 1] = g
      /\ \A i \in 1..Depth : st[i] = r[i]
  <2>1. r \in Seq(AnyFrame) /\ Len(r) = Depth
    BY <1>1, <1>2
  <2>2. /\ Push(r, g) \in Seq(AnyFrame) /\ Len(Push(r, g)) = Len(r) + 1
        /\ Push(r, g)[Len(r) + 1] = g
        /\ \A i \in 1..Len(r) : Push(r, g)[i] = r[i]
    BY <2>1, PushFrame
  <2> QED
    BY <2>1, <2>2
<1> HIDE DEF st
<1> QED
  BY <1>1, <1>2, <1>3, <1>4

LEMMA KindsKeepShape ==
  ASSUME ShapeInv, Kinds, Kept
  PROVE  ShapeInv'
<1> DEFINE N == Len(insts)
           D == Len(stack)
<1>1. /\ N \in Nat /\ Shape(stack, N) /\ stack \in Seq(AnyFrame) /\ D = Depth
      /\ stack # <<>> => Depth \in Nat \ {0}
  BY World, ShapeTop DEF ShapeInv, Shape, Depth
<1>2. SUFFICES /\ ImagesInv' /\ Shape(stack', Len(insts'))
               /\ (stack' = <<>> <=> insts' = <<>>) /\ ImportsInv' /\ PointersInv'
  BY DEF ShapeInv, Kept
<1>3. CASE Stops \/ Completes
  <2>1. stack' = stack /\ SameImages
    <3>1. CASE Stops
      BY <3>1, Unchanged DEF Stops
    <3>2. CASE Completes
      <4>1. Top.inst \in 1..N
        BY <3>2, <1>1, ShapeTop DEF Completes
      <4> QED
        BY <3>2, <4>1, PhaseSet DEF Completes, Loading
    <3> QED
      BY <1>3, <3>1, <3>2
  <2>2. ImportsInv'
    BY <2>1, FramesIn, ImportsStay DEF SameImages, Kept
  <2>3. PointersInv'
    BY <2>1 DEF ShapeInv, PointersInv, Kept, PointersStay
  <2> QED
    BY <2>1, <2>2, <2>3, <1>1, ImagesStay DEF ShapeInv, Kept
<1>4. CASE Goes
  <2>1. PICK f : NextTop(f) /\ f.pc # "await" /\ stack' = Replace(f)
    BY <1>4 DEF Goes
  <2>2. f \in AnyFrame /\ SameOwner(f, Top) /\ PcOK(f) /\ stack # <<>> /\ SameImages
    BY <1>4, <2>1 DEF NextTop, Goes, Quiet
  <2>3. /\ stack' \in Seq(AnyFrame) /\ Len(stack') = Depth /\ stack'[Depth] = f
        /\ \A i \in 1..(Depth - 1) : stack'[i] = stack[i]
    BY <1>1, <2>1, <2>2, ReplaceFrames
  <2>4. Shape(stack', N)
    BY <1>1, <2>1, <2>2, ShapeReplace
  <2>5. FrameIn(f)
    BY <1>1, <2>1, <2>2, ShapeTop DEF NextTop, FrameIn, SameOwner
  <2>6. \A i \in 1..Len(stack') : FrameIn(stack'[i])
    <3>1. \A i \in 1..(Depth - 1) : FrameIn(stack[i])
      BY <1>1, FramesIn
    <3> QED
      BY <1>1, <2>2, <2>3, <2>5, <3>1
  <2>7. ImportsInv'
    BY <2>2, <2>6, ImportsStay DEF SameImages, Kept
  <2>8. stack' # <<>>
    BY <1>1, <2>2, <2>3, NoFrames
  <2>9. PointersInv'
    <3>1. Depth - 1 \in Nat /\ Depth - 1 <= Len(stack) /\ Len(stack') \in Nat
      BY <1>1, <2>2, <2>3
    <3>2. \A i \in (Depth - 1 + 1)..Len(stack') : \A p \in Ptrs(stack'[i]) : PtrOK(p)'
      BY <1>1, <2>1, <2>2, <2>3 DEF NextTop
    <3> QED
      BY <2>3, <3>1, <3>2, PointersKept DEF Kept
  <2> QED
    BY <2>2, <2>4, <2>7, <2>8, <2>9, ImagesStay DEF ShapeInv, Kept
<1>5. CASE Calls
  <2>1. PICK f, g : /\ NextTop(f) /\ stack' = Push(Replace(f), g)
                    /\ g \in AnyFrame /\ g.inst = f.inst /\ g.kind \in {"guest", "call"}
                    /\ Link(f, g) /\ PcOK(g) /\ g.pc # "await" /\ Ptrs(g) = {}
    BY <1>5 DEF Calls
  <2>2. f \in AnyFrame /\ SameOwner(f, Top) /\ PcOK(f) /\ stack # <<>> /\ SameImages
    BY <1>5, <2>1 DEF NextTop, Calls, Quiet
  <2>3. /\ stack' \in Seq(AnyFrame) /\ Len(stack') = Depth + 1
        /\ stack'[Depth] = f /\ stack'[Depth + 1] = g
        /\ \A i \in 1..(Depth - 1) : stack'[i] = stack[i]
    BY <1>1, <2>1, <2>2, CallFrames
  <2>4. Shape(stack', N)
    <3>1. g.inst \in 1..N
      BY <1>1, <2>1, <2>2, ShapeTop DEF SameOwner
    <3> QED
      BY <1>1, <2>1, <2>2, <3>1, ShapePush
  <2>5. FrameIn(f) /\ FrameIn(g)
    BY <1>1, <2>1, <2>2, ShapeTop DEF NextTop, FrameIn, SameOwner
  <2>6. \A i \in 1..Len(stack') : FrameIn(stack'[i])
    <3>1. \A i \in 1..(Depth - 1) : FrameIn(stack[i])
      BY <1>1, FramesIn
    <3> QED
      BY <1>1, <2>2, <2>3, <2>5, <3>1
  <2>7. ImportsInv'
    BY <2>2, <2>6, ImportsStay DEF SameImages, Kept
  <2>8. stack' # <<>>
    BY <1>1, <2>2, <2>3, NoFrames
  <2>9. PointersInv'
    <3>1. Depth - 1 \in Nat /\ Depth - 1 <= Len(stack) /\ Len(stack') \in Nat
      BY <1>1, <2>2, <2>3
    <3>2. \A i \in (Depth - 1 + 1)..Len(stack') : \A p \in Ptrs(stack'[i]) : PtrOK(p)'
      BY <1>1, <2>1, <2>2, <2>3 DEF NextTop
    <3> QED
      BY <2>3, <3>1, <3>2, PointersKept DEF Kept
  <2> QED
    BY <2>2, <2>4, <2>7, <2>8, <2>9, ImagesStay DEF ShapeInv, Kept
<1>6. CASE Loads
  <2>1. PICK f : \E s \in DOMAIN world.img \cap Stem :
          /\ NextTop(f) /\ f.kind \in {"load", "call"} /\ f.pc = "await"
          /\ stack' = Push(Replace(f), LoadFrame(N + 1, "tls"))
          /\ insts' = Append(insts, Instance(s, Top.inst))
    BY <1>6 DEF Loads
  <2>2. PICK s \in DOMAIN world.img \cap Stem : insts' = Append(insts, Instance(s, Top.inst))
    BY <2>1
  <2> DEFINE g == LoadFrame(N + 1, "tls")
  <2>3. /\ f \in AnyFrame /\ SameOwner(f, Top) /\ PcOK(f) /\ stack # <<>>
        /\ f.kind \in {"load", "call"} /\ f.pc = "await" /\ Top.inst \in 1..N
    BY <1>1, <1>6, <2>1, ShapeTop DEF NextTop, Loads
  <2>4. g \in AnyFrame /\ g.kind = "load" /\ g.inst = N + 1 /\ g.pc = "tls" /\ Ptrs(g) = {}
    <3>1. N + 1 \in Nat \ {0} /\ "tls" \in Pc
      BY <1>1 DEF Pc
    <3> QED
      BY <3>1, NewFrame DEF Ptrs
  <2>5. stack' = Push(Replace(f), g)
    BY <2>1
  <2> HIDE DEF g
  <2>6. /\ insts' \in Seq(AnyInstance) /\ Len(insts') = N + 1
        /\ insts'[N + 1] = Instance(s, Top.inst)
        /\ \A n \in 1..N : insts'[n] = insts[n]
    <3>1. Top.inst \in Nat
      BY <1>1, <2>3
    <3> QED
      BY <2>2, <3>1, InstanceAdded
  <2>7. ImagesInv' /\ insts' # <<>>
    <3>1. Instance(s, Top.inst).image = s
      BY DEF Instance
    <3>2. \A n \in 1..N : /\ insts[n].image \in DOMAIN world.img
                          /\ n # 1 => insts[n].image \in Stem
      BY DEF ShapeInv, ImagesInv
    <3>3. \A n \in 1..(N + 1) : /\ insts'[n].image \in DOMAIN world.img
                                /\ n # 1 => insts'[n].image \in Stem
      BY <1>1, <2>6, <3>1, <3>2
    <3>4. insts' # <<>>
      BY <1>1, <2>6, NoFrames
    <3> QED
      BY <2>6, <3>3, <3>4 DEF ImagesInv, Kept
  <2>8. /\ stack' \in Seq(AnyFrame) /\ Len(stack') = Depth + 1
        /\ stack'[Depth] = f /\ stack'[Depth + 1] = g
        /\ \A i \in 1..(Depth - 1) : stack'[i] = stack[i]
    BY <1>1, <2>3, <2>4, <2>5, CallFrames
  <2>9. Shape(stack', N + 1)
    <3>1. Link(f, g) /\ PcOK(g) /\ g.pc # "await" /\ g.inst \in 1..(N + 1)
      BY <1>1, <2>3, <2>4 DEF Link, PcOK, SameOwner
    <3>2. N + 1 \in Nat /\ N <= N + 1
      BY <1>1
    <3> QED
      BY <1>1, <2>3, <2>4, <2>5, <3>1, <3>2, ShapePush
  <2>10. FrameIn(f) /\ FrameIn(g)
    BY <1>1, <2>1, <2>3, <2>4, ShapeTop DEF NextTop, FrameIn, SameOwner
  <2>11. \A i \in 1..Len(stack') : FrameIn(stack'[i])
    <3>1. \A i \in 1..(Depth - 1) : FrameIn(stack[i])
      BY <1>1, FramesIn
    <3> QED
      BY <1>1, <2>3, <2>8, <2>10, <3>1
  <2>12. ImportsInv'
    BY <2>6, <2>11, ImportsStay DEF Kept
  <2>13. stack' # <<>>
    BY <1>1, <2>3, <2>8, NoFrames
  <2>14. PointersInv'
    <3>1. Depth - 1 \in Nat /\ Depth - 1 <= Len(stack) /\ Len(stack') \in Nat
      BY <1>1, <2>3, <2>8
    <3>2. \A i \in (Depth - 1 + 1)..Len(stack') : \A p \in Ptrs(stack'[i]) : PtrOK(p)'
      <4>1. \A p \in Ptrs(f) \cup Ptrs(g) : PtrOK(p)'
        BY <2>1, <2>4 DEF NextTop
      <4>2. \A i \in (Depth - 1 + 1)..Len(stack') : stack'[i] = f \/ stack'[i] = g
        BY <1>1, <2>3, <2>8
      <4> QED
        BY <4>1, <4>2
    <3> QED
      BY <2>8, <3>1, <3>2, PointersKept DEF Kept
  <2> QED
    BY <2>6, <2>7, <2>9, <2>12, <2>13, <2>14
<1>7. CASE Starts
  <2> DEFINE g == LoadFrame(1, "import")
  <2>1. insts = <<>> /\ N = 0 /\ stack = <<>>
    BY <1>7 DEF Starts, ShapeInv
  <2>2. /\ insts' \in Seq(AnyInstance) /\ Len(insts') = 1 /\ insts'[1] = Instance(Exe, 0)
    BY <1>7, <2>1, InstanceAdded DEF Starts
  <2>3. /\ g \in AnyFrame /\ g.kind = "load" /\ g.inst = 1 /\ g.pc = "import" /\ Ptrs(g) = {}
        /\ stack' = Push(<<>>, g)
    <3>1. "import" \in Pc /\ 1 \in Nat \ {0}
      BY DEF Pc
    <3> QED
      BY <1>7, <2>1, <3>1, NewFrame DEF Starts, Ptrs
  <2> HIDE DEF g
  <2>4. stack' \in Seq(AnyFrame) /\ Len(stack') = 1 /\ stack'[1] = g
    BY <2>3 DEF Push
  <2>5. stack' # <<>> /\ insts' # <<>>
    <3>1. stack' # <<>>
      BY <2>4, NoFrames
    <3>2. insts' # <<>>
      BY <2>2, NoFrames
    <3> QED
      BY <3>1, <3>2
  <2>6. Shape(stack', 1)
    BY <2>3, <2>4 DEF Shape, PcOK, Link, Ordered
  <2>7. ImagesInv'
    BY <1>7, <2>2 DEF Starts, ImagesInv, Instance, Kept
  <2>8. ImportsInv'
    BY <2>3, <2>4 DEF ImportsInv
  <2>9. PointersInv'
    BY <2>3, <2>4 DEF PointersInv
  <2> QED
    BY <2>2, <2>5, <2>6, <2>7, <2>8, <2>9
<1>8. CASE Returns
  <2>1. Depth > 1 /\ Popped # <<>> /\ Shape(Popped, N) /\ stack' = Popped /\ stack # <<>>
    BY <1>1, <1>8, ShapePop DEF Returns
  <2>2. Len(stack') = Depth - 1 /\ \A i \in 1..(Depth - 1) : stack'[i] = stack[i]
    BY <1>1, <2>1, PopFrames
  <2>3. SameImages
    BY <1>8, Unchanged DEF Returns
  <2>4. \A i \in 1..Len(stack') : FrameIn(stack'[i])
    <3>1. \A i \in 1..(Depth - 1) : FrameIn(stack[i])
      BY <1>1, <2>1, FramesIn
    <3> QED
      BY <2>2, <3>1
  <2>5. ImportsInv'
    BY <2>3, <2>4, ImportsStay DEF SameImages, Kept
  <2>6. PointersInv'
    <3>1. Depth - 1 \in Nat /\ Depth - 1 <= Len(stack) /\ Len(stack') \in Nat
      BY <1>1, <2>1, <2>2
    <3> QED
      BY <2>2, <3>1, PointersKept DEF Kept
  <2> QED
    BY <2>1, <2>3, <2>5, <2>6, ImagesStay DEF ShapeInv, Kept
<1>9. CASE Attaches
  <2>1. PICK native \in SUBSET T!Pointer :
          stack' = Resume(native) /\ \A p \in native : PtrOK(p)'
    BY <1>9 DEF Attaches
  <2>2. /\ Depth > 1 /\ Below \in AnyFrame /\ Below = stack[Depth - 1]
        /\ Resumed(native) \in AnyFrame /\ SameOwner(Resumed(native), Below)
        /\ Below.pc = "await" /\ stack # <<>>
        /\ Shape(stack', N)
    BY <1>1, <1>9, <2>1, ShapeResume DEF Attaches
  <2>3. SameImages
    <3>1. Top.inst \in 1..N
      BY <1>1, <2>2, ShapeTop
    <3> QED
      BY <1>9, <3>1, PhaseSet DEF Attaches, Loading
  <2>4. /\ stack' \in Seq(AnyFrame) /\ Len(stack') = Depth - 1
        /\ stack'[Depth - 1] = Resumed(native)
        /\ \A i \in 1..(Depth - 2) : stack'[i] = stack[i]
    BY <1>1, <2>1, <2>2, ResumeFrames
  <2>5. FrameIn(Resumed(native))
    <3>1. FrameIn(Below)
      <4>1. Depth - 1 \in 1..Len(stack)
        BY <1>1, <2>2
      <4> QED
        BY <2>2, <4>1, FramesIn
    <3>2. Resumed(native).imp = Below.imp
      BY <2>2 DEF Resumed, AnyFrame
    <3> QED
      BY <2>2, <3>1, <3>2 DEF FrameIn, SameOwner
  <2>6. \A i \in 1..Len(stack') : FrameIn(stack'[i])
    <3>1. \A i \in 1..(Depth - 2) : FrameIn(stack[i])
      BY <1>1, <2>2, FramesIn
    <3> QED
      BY <1>1, <2>2, <2>4, <2>5, <3>1
  <2>7. ImportsInv'
    BY <2>3, <2>6, ImportsStay DEF SameImages, Kept
  <2>8. stack' # <<>>
    BY <1>1, <2>2, <2>4, NoFrames
  <2>9. PointersInv'
    <3>1. Depth - 2 \in Nat /\ Depth - 2 <= Len(stack) /\ Len(stack') \in Nat
      BY <1>1, <2>2, <2>4
    <3>2. ASSUME NEW p \in Ptrs(Resumed(native)) PROVE PtrOK(p)'
      <4>1. p \in Below.res \cup Top.res \cup native
        BY <2>2, <3>2 DEF Ptrs, Resumed, AnyFrame
      <4>2. p \in Ptrs(stack[Depth - 1]) \cup Ptrs(stack[Depth]) \cup native
        BY <1>1, <2>2, <4>1, ShapeTop DEF Ptrs
      <4>3. Depth - 1 \in 1..Len(stack) /\ Depth \in 1..Len(stack)
        BY <1>1, <2>2
      <4> QED
        BY <2>1, <4>2, <4>3 DEF ShapeInv, PointersInv, Kept, PointersStay
    <3>3. \A i \in (Depth - 2 + 1)..Len(stack') : \A p \in Ptrs(stack'[i]) : PtrOK(p)'
      BY <1>1, <2>2, <2>4, <3>2
    <3> QED
      BY <2>4, <3>1, <3>3, PointersKept DEF Kept
  <2> QED
    BY <2>2, <2>3, <2>7, <2>8, <2>9, ImagesStay DEF ShapeInv, Kept
<1> QED
  BY <1>3, <1>4, <1>5, <1>6, <1>7, <1>8, <1>9 DEF Kinds, Runs
-----------------------------------------------------------------------------
(* Every step is of one of the kinds.                                      *)
LEMMA Stopped ==
  ASSUME ShapeInv, NEW why, why # "running", Stop(why)
  PROVE  Kinds /\ Kept
BY TableKept DEF Stop, table, process, guest, TableInv, ShapeInv, Kinds, Stops, Kept

LEMMA GoesOn ==
  ASSUME ShapeInv, stack # <<>>, insts' = insts, outcome' = outcome, Kept,
         NEW f, NextTop(f), f.pc # "await", stack' = Replace(f)
  PROVE  Kinds /\ Kept
BY Unchanged DEF Kinds, Runs, Goes

LEMMA ExecuteKinds ==
  ASSUME ShapeInv, outcome = "running", ExecuteStep
  PROVE  Kinds /\ Kept
<1>1. CASE ExecuteNotFound
  BY <1>1, Stopped DEF ExecuteNotFound
<1>2. CASE ExecuteTrap
  BY <1>2, Stopped DEF ExecuteTrap
<1>3. CASE ExecuteFault
  BY <1>3, TableKept DEF ExecuteFault, table, process, guest, TableInv, ShapeInv, Kinds, Stops, Kept
<1>4. CASE ExecuteBaseTaken
  BY <1>4, Stopped DEF ExecuteBaseTaken
<1>5. CASE ExecuteRejected
  <2>1. ExeVerdict \in Verdict /\ Stop(Refusal(ExeVerdict))
    <3>1. Exe \in DOMAIN world.img
      BY <1>5 DEF ExecuteRejected, PastTrap, Executing
    <3> QED
      BY <1>5, <3>1, World DEF ExecuteRejected, ExeVerdict, Image
  <2>2. Refusal(ExeVerdict) # "running"
    BY <2>1 DEF Refusal, Verdict
  <2> QED
    BY <2>1, <2>2, Stopped
<1>6. CASE ExecuteMap
  <2>1. /\ Exe \in DOMAIN world.img /\ stack = <<>>
        /\ Map(Exe, stack, 0, "import")
    BY <1>6 DEF ExecuteMap, PastTrap, Executing, Starting
  <2>2. CASE Len(stack) >= StackLimit
    BY <2>1, <2>2, Stopped DEF Map
  <2>3. CASE ~ (Len(stack) >= StackLimit)
    <3>1. Len(insts) \in Nat /\ insts = <<>>
      BY <2>1 DEF ShapeInv
    <3>2. /\ insts' = Append(insts, Instance(Exe, 0))
          /\ stack' = Push(stack, LoadFrame(Len(insts) + 1, "import"))
          /\ world' = world /\ outcome' = outcome
          /\ UNCHANGED <<libs, cap, block, handles, tlsIndex>>
      BY <2>1, <2>3 DEF Map, table, process, guest
    <3> QED
      BY <2>1, <3>1, <3>2, TableKept DEF Kinds, Runs, Starts, Kept, ShapeInv, TableInv
  <2> QED
    BY <2>2, <2>3
<1> QED
  BY <1>1, <1>2, <1>3, <1>4, <1>5, <1>6 DEF ExecuteStep

(* What is searched for is a name.                                         *)
LEMMA Wanted ==
  ASSUME ShapeInv, NEW i \in 1..Len(stack), stack[i].pc \in {"search", "await", "found"}
  PROVE  Want(stack[i]) \in ModName /\ stack[i].kind \in {"load", "call"}
<1> DEFINE f == stack[i]
<1>1. f \in AnyFrame /\ f.inst \in 1..Len(insts) /\ PcOK(f)
  BY ElementOfSeq DEF ShapeInv, Shape
<1>2. f.kind \in {"load", "call"}
  BY <1>1 DEF PcOK, AnyFrame
<1>3. CASE f.kind = "call"
  BY <1>1, <1>3 DEF PcOK, Want
<1>4. CASE f.kind = "load"
  <2>1. f.imp \in 1..Len(ImportsOf(f.inst)) /\ ImportsOf(f.inst) \in Seq(Import)
    <3>1. f.imp \in Nat \ {0} /\ f.imp <= Len(ImportsOf(f.inst))
      BY <1>1, <1>4 DEF ShapeInv, ImportsInv, AnyFrame
    <3>2. ImportsOf(f.inst) \in Seq(Import)
      BY <1>1, World
    <3> QED
      BY <3>1, <3>2, LenProperties
  <2>2. ImportsOf(f.inst)[f.imp] \in Import
    BY <2>1, ElementOfSeq
  <2> QED
    BY <1>4, <2>2 DEF Want, Import
<1> QED
  BY <1>2, <1>3, <1>4

LEMMA TopRange ==
  ASSUME ShapeInv, stack # <<>>
  PROVE  /\ Depth \in Nat \ {0} /\ Depth = Len(stack) /\ Depth \in 1..Len(stack)
         /\ Top = stack[Depth] /\ Top \in AnyFrame
         /\ Top.inst \in 1..Len(insts) /\ PcOK(Top) /\ Top.pc # "await"
         /\ FrameIn(Top)
<1>1. Len(insts) \in Nat /\ Shape(stack, Len(insts))
  BY World DEF ShapeInv
<1>2. /\ Depth \in Nat \ {0} /\ Top \in AnyFrame /\ Top = stack[Depth]
      /\ Top.inst \in 1..Len(insts) /\ PcOK(Top) /\ Top.pc # "await"
  BY <1>1, ShapeTop
<1>3. Depth = Len(stack) /\ Depth \in 1..Len(stack)
  BY <1>2 DEF Depth
<1> QED
  BY <1>2, <1>3, FramesIn

LEMMA RegisterFresh ==
  ASSUME TableInv, NEW name, NEW kind, NEW handle, Register(name, kind, handle)
  PROVE  libs' # libs /\ PointerTo(Len(libs')) \in Fresh
<1> DEFINE l == [name |-> name, kind |-> kind, handle |-> handle]
<1>1. libs' = Append(libs, l) /\ Len(libs) \in Nat
  BY LenProperties DEF Register, TableInv
<1> HIDE DEF l
<1>2. libs' # libs
  BY <1>1 DEF TableInv
<1> QED
  BY <1>2 DEF Fresh

LEMMA TopPointers ==
  ASSUME ShapeInv, PointersStay, stack # <<>>
  PROVE  \A p \in Ptrs(Top) : PtrOK(p)'
BY TopRange DEF ShapeInv, PointersInv, PointersStay

LEMMA FoundFrame ==
  ASSUME ShapeInv, Searching, NEW l \in SUBSET T!Pointer, NEW n \in SUBSET T!Pointer,
         PointersStay, \A p \in l \cup n : PtrOK(p)' /\ p \in Fresh,
         Top.kind = "load" => \A p \in l : p.lib.kind = "NATIVE"
  PROVE  /\ \A f \in {[Top EXCEPT !.pc = "found"],
                      [Top EXCEPT !.pc = "found", !.loaded = l],
                      [Top EXCEPT !.pc = "found", !.native = n]} :
              NextTop(f) /\ f.pc = "found"
         /\ NextTop([Top EXCEPT !.pc = "await"])
         /\ [Top EXCEPT !.pc = "await"].pc = "await"
         /\ [Top EXCEPT !.pc = "await"].kind = Top.kind
<1>1. stack # <<>> /\ Top.pc = "search"
  BY DEF Searching
<1>2. /\ Top \in AnyFrame /\ PcOK(Top) /\ FrameIn(Top) /\ Top.inst \in 1..Len(insts)
      /\ Top.kind \in {"load", "call"}
  BY <1>1, TopRange, Wanted
<1>3. "found" \in Pc /\ "await" \in Pc /\ 1 \in Nat \ {0} /\ "SUCCESS" \in Status
  BY DEF Pc, Status
<1>4. ASSUME NEW f \in AnyFrame, SameOwner(f, Top), f.want = Top.want, f.imp = Top.imp,
             f.pc \in {"found", "await"}, Ptrs(f) \subseteq Ptrs(Top) \cup l \cup n,
             f.res = Top.res, f.loaded = Top.loaded \/ (f.loaded = l /\ f.pc = "found")
      PROVE  NextTop(f)
  <2>1. \A p \in Ptrs(f) : PtrOK(p)' /\ p \in Ptrs(Top) \cup Fresh
    BY <1>1, <1>4, TopPointers
  <2>2. Holds(f)
    BY <1>1, <1>4 DEF Holds, SameOwner
  <2>3. PcOK(f)
    BY <1>1, <1>2, <1>4 DEF SameOwner, PcOK
  <2> QED
    BY <1>1, <1>2, <1>4, <2>1, <2>2, <2>3 DEF NextTop, SameOwner, FrameIn
<1>5. ASSUME NEW f \in {[Top EXCEPT !.pc = "found"],
                      [Top EXCEPT !.pc = "found", !.loaded = l],
                      [Top EXCEPT !.pc = "found", !.native = n],
                      [Top EXCEPT !.pc = "await"]}
      PROVE  /\ f \in AnyFrame /\ SameOwner(f, Top) /\ f.want = Top.want /\ f.imp = Top.imp
             /\ Ptrs(f) \subseteq Ptrs(Top) \cup l \cup n
             /\ f.res = Top.res /\ (f.loaded = Top.loaded \/ (f.loaded = l /\ f.pc = "found"))
  <2>1. f \in AnyFrame
    <3>1. /\ [Top EXCEPT !.pc = "found"] \in AnyFrame
          /\ [Top EXCEPT !.pc = "found", !.loaded = l] \in AnyFrame
          /\ [Top EXCEPT !.pc = "found", !.native = n] \in AnyFrame
      BY <1>2, <1>3, Fields
    <3>2. [Top EXCEPT !.pc = "await"] \in AnyFrame
      BY <1>2, <1>3, Fields
    <3> QED
      BY <1>5, <3>1, <3>2
  <2>2. f.kind = Top.kind /\ f.inst = Top.inst /\ f.want = Top.want /\ f.imp = Top.imp
    BY <1>2, <1>5 DEF AnyFrame
  <2>3. /\ f.res = Top.res /\ f.native \in {Top.native, n}
        /\ f.loaded = Top.loaded \/ (f.loaded = l /\ f.pc = "found")
    BY <1>2, <1>5 DEF AnyFrame
  <2> QED
    BY <2>1, <2>2, <2>3 DEF SameOwner, Ptrs
<1>6. /\ \A f \in {[Top EXCEPT !.pc = "found"],
                   [Top EXCEPT !.pc = "found", !.loaded = l],
                   [Top EXCEPT !.pc = "found", !.native = n]} : f.pc = "found"
      /\ [Top EXCEPT !.pc = "await"].pc = "await"
      /\ [Top EXCEPT !.pc = "await"].kind = Top.kind
  BY <1>2 DEF AnyFrame
<1> QED
  BY <1>4, <1>5, <1>6

LEMMA SearchKinds ==
  ASSUME ShapeInv, outcome = "running", SearchStep
  PROVE  Kinds /\ Kept
<1>1. Searching
  BY DEF SearchStep, SearchHit, SearchLoad, SearchTrap, SearchRejected,
         SearchMapFails, SearchNoMemory, SearchNative, SearchMissing, Absent
<1>2. /\ stack # <<>> /\ TableInv /\ Want(Top) \in ModName /\ Top.kind \in {"load", "call"}
      /\ Len(insts) \in Nat /\ Top.inst \in 1..Len(insts) /\ tlsIndex \in Nat
  BY <1>1, TopRange, Wanted, World DEF Searching, ShapeInv, TableInv
<1> DEFINE found == [Top EXCEPT !.pc = "found"]
<1>3. PointersStay => NextTop(found) /\ found.pc # "await"
  <2> SUFFICES ASSUME PointersStay PROVE NextTop(found) /\ found.pc # "await"
    OBVIOUS
  <2>1. {} \in SUBSET T!Pointer /\ (\A p \in {} \cup {} : PtrOK(p)' /\ p \in Fresh)
        /\ \A p \in {} : p.lib.kind = "NATIVE"
    OBVIOUS
  <2>2. NextTop(found) /\ found.pc = "found"
    BY <1>1, <2>1, FoundFrame
  <2> QED
    BY <2>2
<1>4. CASE SearchHit
  <2> DEFINE p == T!PointerTo(block, T!Find(libs, Key(Top)), libs)
             f == [Top EXCEPT !.pc = "found", !.loaded = {p}]
  <2>1. /\ stack' = Replace(f) /\ insts' = insts /\ outcome' = outcome /\ Kept
    BY <1>2, <1>4, TableKept DEF SearchHit, table, process, guest, Kept
  <2>2. PtrOK(p) /\ p \in Fresh
    BY <1>1, <1>2, <1>4, <2>1, Found DEF SearchHit, Fresh, FoundNow, table
  <2>7. Top.kind = "load" => p.lib.kind = "NATIVE"
    <3>1. /\ T!Find(libs, Key(Top)) \in 1..Len(libs)
          /\ libs[T!Find(libs, Key(Top))].name = Key(Top)
      BY <1>2, <1>4, Found DEF SearchHit
    <3>2. Top.kind = "load" => Key(Top).ext # "dll"
      BY <1>2 DEF Key, Cut4, ModName
    <3>3. p.lib = libs[T!Find(libs, Key(Top))] /\ p.lib \in T!Lib
      BY <1>2, <3>1, ElementOfSeq DEF T!PointerTo, TableInv
    <3>4. p.lib.kind \in {"PE", "NATIVE"}
      BY <3>3 DEF T!Lib
    <3> QED
      BY <1>2, <3>1, <3>2, <3>3, <3>4 DEF TableInv
  <2> HIDE DEF p
  <2>3. PICK q : q = p
    OBVIOUS
  <2>4. q \in T!Pointer /\ PtrOK(q)' /\ q \in Fresh
    BY <2>1, <2>2, <2>3 DEF Kept, PointersStay, PtrOK
  <2> DEFINE g == [Top EXCEPT !.pc = "found", !.loaded = {q}]
  <2>5. NextTop(g) /\ g.pc = "found"
    <3>1. /\ {q} \in SUBSET T!Pointer /\ {} \in SUBSET T!Pointer
          /\ \A x \in {q} \cup {} : PtrOK(x)' /\ x \in Fresh
          /\ Top.kind = "load" => \A x \in {q} : x.lib.kind = "NATIVE"
      BY <2>3, <2>4, <2>7
    <3> QED
      BY <1>1, <2>1, <3>1, FoundFrame DEF Kept
  <2>6. f = g
    BY <2>3
  <2> HIDE DEF f, g
  <2> QED
    BY <1>2, <2>1, <2>5, <2>6, GoesOn
<1>5. CASE SearchLoad
  <2> DEFINE st == Replace([Top EXCEPT !.pc = "await"])
  <2>1. /\ Want(Top).stem \in DOMAIN world.img
        /\ Map(Want(Top).stem, st, Top.inst, "tls")
    BY <1>5 DEF SearchLoad, FileThere
  <2>2. CASE Len(st) >= StackLimit
    BY <2>1, <2>2, Stopped DEF Map
  <2>3. CASE ~ (Len(st) >= StackLimit)
    <3>1. /\ insts' = Append(insts, Instance(Want(Top).stem, Top.inst))
          /\ stack' = Push(st, LoadFrame(Len(insts) + 1, "tls"))
          /\ world' = world /\ outcome' = outcome
          /\ UNCHANGED <<libs, cap, block, handles, tlsIndex>>
      BY <2>1, <2>3 DEF Map, table, process, guest
    <3>2. Kept
      BY <1>2, <3>1, TableKept DEF Kept
    <3> DEFINE f == [Top EXCEPT !.pc = "await"]
    <3>3. NextTop(f) /\ f.pc = "await" /\ f.kind \in {"load", "call"} /\ st = Replace(f)
      <4>1. {} \in SUBSET T!Pointer /\ (\A p \in {} \cup {} : PtrOK(p)' /\ p \in Fresh)
            /\ \A p \in {} : p.lib.kind = "NATIVE"
        OBVIOUS
      <4> QED
        BY <1>1, <1>2, <3>2, <4>1, FoundFrame DEF Kept
    <3> HIDE DEF f, st
    <3>4. Want(Top).stem \in DOMAIN world.img \cap Stem
      BY <1>2, <2>1 DEF ModName
    <3>5. Loads
      BY <1>2, <3>1, <3>3, <3>4 DEF Loads
    <3> QED
      BY <3>1, <3>2, <3>5 DEF Kinds, Runs
  <2> QED
    BY <2>2, <2>3
<1>6. CASE SearchTrap
  BY <1>6, Stopped DEF SearchTrap
<1>7. CASE SearchRejected
  <2>1. Kept
    BY <1>2, <1>7, TableKept DEF SearchRejected, table, process, guest, Kept
  <2> QED
    BY <1>2, <1>3, <1>7, <2>1, GoesOn DEF SearchRejected, Kept
<1>8. CASE SearchMapFails
  BY <1>2, <1>8, TableKept DEF SearchMapFails, table, process, guest, Kinds, Stops, Kept
<1>9. CASE SearchNoMemory
  <2>1. Kept
    BY <1>2, <1>9, TableKept DEF SearchNoMemory, table, process, guest, Kept
  <2> QED
    BY <1>2, <1>3, <1>9, <2>1, GoesOn DEF SearchNoMemory, Kept
<1>10. CASE SearchNative
  <2>1. PICK q : q = PointerTo(Len(libs'))
    OBVIOUS
  <2> DEFINE f == [Top EXCEPT !.pc = "found", !.native = {q}]
  <2>2. /\ Register(Want(Top), "NATIVE", 0) /\ UNCHANGED <<handles, tlsIndex>>
        /\ stack' = Replace(f) /\ insts' = insts /\ outcome' = outcome /\ world' = world
    BY <1>10, <2>1 DEF SearchNative, process, guest
  <2>3. TableInv' /\ PointersStay /\ PtrOK(q)'
    <3>1. 0 \in Nat /\ "NATIVE" \in {"PE", "NATIVE"} /\ "NATIVE" # "PE"
      OBVIOUS
    <3> QED
      BY <1>2, <2>1, <2>2, <3>1, Registered
  <2>6. q \in Fresh
    BY <1>2, <2>1, <2>2, RegisterFresh
  <2>4. {q} \in SUBSET T!Pointer /\ {} \in SUBSET T!Pointer
        /\ (\A p \in {} \cup {q} : PtrOK(p)' /\ p \in Fresh)
        /\ \A p \in {} : p.lib.kind = "NATIVE"
    BY <2>3, <2>6 DEF PtrOK
  <2>5. NextTop(f) /\ f.pc = "found"
    BY <1>1, <2>3, <2>4, FoundFrame
  <2> HIDE DEF f
  <2> QED
    BY <1>2, <2>2, <2>3, <2>5, GoesOn DEF Kept
<1>11. CASE SearchMissing
  <2>1. Kept
    BY <1>2, <1>11, TableKept DEF SearchMissing, table, process, guest, Kept
  <2> QED
    BY <1>2, <1>3, <1>11, <2>1, GoesOn DEF SearchMissing, Kept
<1> QED
  BY <1>4, <1>5, <1>6, <1>7, <1>8, <1>9, <1>10, <1>11 DEF SearchStep

(* The loader's own frame goes on: where it may be then.                   *)
LEMMA MovedFrame ==
  ASSUME ShapeInv, PointersStay, stack # <<>>, Top.kind = "load",
         NEW f \in AnyFrame, SameOwner(f, Top),
         f.pc \in {"callbacks", "register", "import", "bound", "entry", "return"},
         f.pc = "register" => f.inst # 1,
         \A p \in Ptrs(f) : p \in Ptrs(Top) \/ (PtrOK(p)' /\ p \in Fresh),
         \A p \in f.res : p \in Top.res \/ OwnEntry(p, f.inst)
  PROVE  NextTop(f) /\ f.pc # "await"
<1>1. PcOK(f)
  BY DEF PcOK, SameOwner
<1>2. \A p \in Ptrs(f) : PtrOK(p)' /\ p \in Ptrs(Top) \cup Fresh
  BY TopPointers
<1>3. Holds(f)
  BY DEF Holds
<1> QED
  BY <1>1, <1>2, <1>3 DEF NextTop

Moves(pc, s) ==
  {[Top EXCEPT !.pc = pc],
   [Top EXCEPT !.pc = pc, !.status = s],
   [Top EXCEPT !.pc = pc, !.imp = Top.imp + 1, !.status = s],
   [Top EXCEPT !.pc = pc, !.loaded = {}, !.native = {}]}

LEMMA MovedTop ==
  ASSUME ShapeInv, PointersStay, stack # <<>>, Top.kind = "load",
         NEW pc \in {"callbacks", "register", "import", "bound", "entry", "return"},
         pc = "register" => Top.inst # 1, NEW s \in Status
  PROVE  \A f \in Moves(pc, s) :
           NextTop(f) /\ f.pc = pc /\ f.kind = "load" /\ f.inst = Top.inst
<1>1. Top \in AnyFrame /\ Top.imp + 1 \in Nat \ {0} /\ pc \in Pc /\ {} \in SUBSET T!Pointer
  BY TopRange DEF AnyFrame, Pc
<1>2. /\ [Top EXCEPT !.pc = pc] \in AnyFrame
      /\ [Top EXCEPT !.pc = pc, !.status = s] \in AnyFrame
  BY <1>1, Fields
<1>3. /\ [Top EXCEPT !.pc = pc, !.imp = Top.imp + 1, !.status = s] \in AnyFrame
      /\ [Top EXCEPT !.pc = pc, !.loaded = {}, !.native = {}] \in AnyFrame
  BY <1>1, Fields
<1> SUFFICES ASSUME NEW f \in Moves(pc, s)
             PROVE  NextTop(f) /\ f.pc = pc /\ f.kind = "load" /\ f.inst = Top.inst
  OBVIOUS
<1>4. f \in AnyFrame
  BY <1>2, <1>3 DEF Moves
<1>5. f.pc = pc /\ f.kind = Top.kind /\ f.inst = Top.inst
  BY <1>1 DEF AnyFrame, Moves
<1>6. f.res = Top.res /\ f.loaded \in {Top.loaded, {}} /\ f.native \in {Top.native, {}}
  BY <1>1 DEF AnyFrame, Moves
<1>7. Ptrs(f) \subseteq Ptrs(Top)
  BY <1>6 DEF Ptrs
<1> QED
  BY <1>4, <1>5, <1>6, <1>7, MovedFrame DEF SameOwner

(* A step of which only the top frame is the concern.                      *)
LEMMA Settled ==
  ASSUME TableInv, UNCHANGED <<world, table, guest>>, tlsIndex' \in Nat
  PROVE  Kept
BY TableKept DEF Kept, table, guest

LEMMA MovesOn ==
  ASSUME ShapeInv, stack # <<>>, Top.kind = "load",
         NEW pc \in {"callbacks", "register", "import", "bound", "entry", "return"},
         pc = "register" => Top.inst # 1, NEW s \in Status,
         NEW f \in Moves(pc, s), stack' = Replace(f), outcome' = outcome, Quiet, UNCHANGED <<world, table, guest>>,
         tlsIndex' \in Nat
  PROVE  Kinds /\ Kept
<1>1. Kept
  BY Settled DEF ShapeInv
<1>2. NextTop(f) /\ f.pc = pc
  BY <1>1, MovedTop DEF Kept
<1> QED
  BY <1>1, <1>2 DEF Kinds, Runs, Goes

(* An instance changed in its slot or in its address table.                *)
LEMMA SlotSet ==
  ASSUME ShapeInv, NEW n \in 1..Len(insts), NEW slot \in Int,
         insts' = [insts EXCEPT ![n].tls = slot]
  PROVE  Quiet /\ insts'[n].tls = slot
         /\ \A m \in 1..Len(insts) : m # n => insts'[m] = insts[m]
<1> DEFINE r == [insts[n] EXCEPT !.tls = slot]
<1>1. insts[n] \in AnyInstance /\ insts' = [insts EXCEPT ![n] = r]
  BY World
<1>2. /\ r \in AnyInstance /\ r.image = insts[n].image /\ r.parent = insts[n].parent
      /\ r.phase = insts[n].phase /\ r.tls = slot /\ r.iat = insts[n].iat
  BY <1>1 DEF AnyInstance
<1> HIDE DEF r
<1>3. /\ insts' \in Seq(AnyInstance) /\ Len(insts') = Len(insts)
      /\ insts'[n] = r /\ \A m \in 1..Len(insts) : m # n => insts'[m] = insts[m]
  BY <1>1, <1>2, InstanceChanged
<1>4. \A m \in 1..Len(insts) : Providers(m)' = Providers(m)
  BY <1>2, <1>3 DEF Providers
<1> QED
  BY <1>2, <1>3, <1>4 DEF Quiet, SameImages

LEMMA ChangedSeq ==
  ASSUME NEW S, NEW s \in Seq(S), NEW i, NEW v \in S
  PROVE  [s EXCEPT ![i] = v] \in Seq(S)
<1>1. PICK k \in Nat : s \in [1..k -> S]
  BY SeqDef
<1>2. [s EXCEPT ![i] = v] \in [1..k -> S]
  BY <1>1
<1> QED
  BY <1>2, SeqDef

LEMMA TableSet ==
  ASSUME ShapeInv, NEW n \in 1..Len(insts), NEW i \in Nat, NEW slots \in Seq(Int),
         insts' = [insts EXCEPT ![n].iat[i] = slots],
         \A j \in DOMAIN slots : slots[j] \in {Raw, Null, Native} \cup Bindable
  PROVE  Quiet /\ insts'[n] = [insts[n] EXCEPT !.iat = [@ EXCEPT ![i] = slots]]
         /\ \A m \in 1..Len(insts) : m # n => insts'[m] = insts[m]
<1> DEFINE iat == [insts[n].iat EXCEPT ![i] = slots]
           r == [insts[n] EXCEPT !.iat = iat]
<1>1. insts[n] \in AnyInstance /\ insts' = [insts EXCEPT ![n] = r]
  BY World
<1>2. iat \in Seq(Seq(Int))
  <2>1. insts[n].iat \in Seq(Seq(Int))
    BY <1>1 DEF AnyInstance
  <2> QED
    BY <2>1, ChangedSeq
<1> HIDE DEF iat
<1>3. /\ r \in AnyInstance /\ r.image = insts[n].image /\ r.parent = insts[n].parent
      /\ r.phase = insts[n].phase /\ r.iat = iat
  BY <1>1, <1>2 DEF AnyInstance
<1> HIDE DEF r
<1>4. /\ insts' \in Seq(AnyInstance) /\ Len(insts') = Len(insts)
      /\ insts'[n] = r /\ \A m \in 1..Len(insts) : m # n => insts'[m] = insts[m]
  BY <1>1, <1>3, InstanceChanged
<1>8. insts'[n].iat = iat
  BY <1>3, <1>4
<1>7. \A m \in 1..Len(insts) :
        Providers(m)' \subseteq Providers(m) \cup {Raw, Null, Native} \cup Bindable
  <2>1. ASSUME NEW m \in 1..Len(insts), m # n PROVE Providers(m)' = Providers(m)
    BY <1>4, <2>1 DEF Providers
  <2>2. Providers(n)' \subseteq Providers(n) \cup {Raw, Null, Native} \cup Bindable
    <3> SUFFICES ASSUME NEW k \in Providers(n)'
                 PROVE  k \in Providers(n) \cup {Raw, Null, Native} \cup Bindable
      OBVIOUS
    <3>1. PICK x \in DOMAIN iat : \E j \in DOMAIN iat[x] : k = iat[x][j]
      <4>1. k \in UNION {{iat[x][j] : j \in DOMAIN iat[x]} : x \in DOMAIN iat}
        BY <1>8 DEF Providers
      <4> QED
        BY <4>1
    <3>2. x \in DOMAIN insts[n].iat /\ iat[x] = IF x = i THEN slots ELSE insts[n].iat[x]
      BY <3>1 DEF iat
    <3>3. CASE x = i
      BY <3>1, <3>2, <3>3
    <3>4. CASE x # i
      BY <3>1, <3>2, <3>4 DEF Providers
    <3> QED
      BY <3>3, <3>4
  <2> QED
    BY <2>1, <2>2
<1>5. Quiet
  BY <1>3, <1>4, <1>7 DEF Quiet, SameImages
<1>6. r = [insts[n] EXCEPT !.iat = [@ EXCEPT ![i] = slots]]
  BY DEF r, iat
<1> QED
  BY <1>4, <1>5, <1>6

LEMMA PhaseQuiet ==
  ASSUME ShapeInv, stack # <<>>, Top.kind = "load", NEW phase \in {"bound", "entered"},
         insts' = SetPhase(Top.inst, phase)
  PROVE  Quiet
<1>1. Top.inst \in 1..Len(insts) /\ phase \in Loading /\ phase # "attached"
  BY TopRange DEF Loading
<1>2. /\ SameImages /\ insts'[Top.inst].phase = phase
      /\ \A m \in 1..Len(insts) : m # Top.inst => insts'[m] = insts[m]
  BY <1>1, PhaseSet
<1> QED
  BY <1>1, <1>2 DEF Quiet

(* What a request is bound to.                                             *)
LEMMA SlotRange ==
  ASSUME ShapeInv, stack # <<>>, NEW req
  PROVE  /\ Slot(Top, req) \in Int
         /\ \/ Slot(Top, req) \in {Null, Native}
            \/ /\ FromPe(Top, req)
               /\ \E p \in Top.loaded : Slot(Top, req) = p.lib.handle /\ p.lib = Target(p)
<1>1. ASSUME NEW p \in Top.loaded PROVE Target(p).handle \in Nat /\ p.lib = Target(p)
  <2>1. PtrOK(p)
    BY TopRange DEF ShapeInv, PointersInv, Ptrs
  <2>2. p.lib \in T!Lib /\ p.lib = Target(p)
    BY <2>1 DEF PtrOK, T!Pointer, Target
  <2> QED
    BY <2>2 DEF T!Lib
<1>2. CASE ~ FromPe(Top, req)
  BY <1>2 DEF Slot, Native, Null
<1>3. CASE FromPe(Top, req)
  <2> DEFINE l == CHOOSE l \in {Target(p) : p \in Top.loaded} : TRUE
  <2>1. PICK p \in Top.loaded : l = Target(p)
    BY <1>3 DEF FromPe
  <2>2. Slot(Top, req) \in {l.handle, Null}
    BY <1>3 DEF Slot
  <2> HIDE DEF l
  <2> QED
    BY <1>1, <1>3, <2>1, <2>2 DEF Null
<1> QED
  BY <1>2, <1>3

LEMMA Requests ==
  ASSUME ShapeInv, Binding, Top.kind = "load"
  PROVE  /\ Reqs \in Seq(Symbol)
         /\ Top.imp \in 1..Len(ImportsOf(Top.inst)) /\ ImportsOf(Top.inst) \in Seq(Import)
<1>1. /\ stack # <<>> /\ Top.pc = "found" /\ Top \in AnyFrame /\ Top.inst \in 1..Len(insts)
      /\ FrameIn(Top)
  BY TopRange DEF Binding, At
<1>2. Top.imp \in Nat \ {0} /\ Top.imp <= Len(ImportsOf(Top.inst))
  BY <1>1 DEF AnyFrame, FrameIn
<1>3. ImportsOf(Top.inst) \in Seq(Import)
  BY <1>1, World
<1>4. Top.imp \in 1..Len(ImportsOf(Top.inst))
  BY <1>2, <1>3, LenProperties
<1>5. ImportsOf(Top.inst)[Top.imp] \in Import
  BY <1>3, <1>4, ElementOfSeq
<1> QED
  BY <1>3, <1>4, <1>5 DEF Reqs, Import

BoundSlots ==
  [j \in DOMAIN Reqs |-> IF j \in Served(Top, Reqs) THEN Slot(Top, Reqs[j]) ELSE Raw]

LEMMA BoundRange ==
  ASSUME ShapeInv, Binding, Top.kind = "load"
  PROVE  BoundSlots \in Seq(Int)
<1>1. stack # <<>>
  BY DEF Binding, At
<1>2. PICK n \in Nat : DOMAIN Reqs = 1..n
  BY Requests, LenProperties
<1>3. \A j \in 1..n : (IF j \in Served(Top, Reqs) THEN Slot(Top, Reqs[j]) ELSE Raw) \in Int
  BY <1>1, SlotRange DEF Raw
<1>4. BoundSlots \in [1..n -> Int]
  BY <1>2, <1>3 DEF BoundSlots
<1> QED
  BY <1>4, SeqDef

LEMMA BoundTo ==
  ASSUME ShapeInv, Bind
  PROVE  \A j \in DOMAIN BoundSlots : BoundSlots[j] \in {Raw, Null, Native} \cup Bindable
<1>1. /\ At("load", "found") /\ stack # <<>>
      /\ UsesPe => \A p \in Top.loaded : Target(p).kind = "PE"
  BY DEF Bind, Binding, At
<1>2. SUFFICES ASSUME NEW j \in DOMAIN Reqs, j \in Served(Top, Reqs)
               PROVE  Slot(Top, Reqs[j]) \in {Raw, Null, Native} \cup Bindable
  BY DEF BoundSlots
<1>3. CASE Slot(Top, Reqs[j]) \in {Null, Native}
  BY <1>3
<1>4. CASE /\ FromPe(Top, Reqs[j])
           /\ \E p \in Top.loaded :
                Slot(Top, Reqs[j]) = p.lib.handle /\ p.lib = Target(p)
  BY <1>1, <1>2, <1>4 DEF UsesPe, Bindable
<1> QED
  BY <1>1, <1>3, <1>4, SlotRange

LEMMA BindKinds ==
  ASSUME ShapeInv, outcome = "running", Bind
  PROVE  /\ Kinds /\ Kept
         /\ insts'[Top.inst] = [insts[Top.inst] EXCEPT !.iat = [@ EXCEPT ![Top.imp] = BoundSlots]]
         /\ \A m \in 1..Len(insts) : m # Top.inst => insts'[m] = insts[m]
<1>1. Binding /\ stack # <<>> /\ Top.kind = "load"
  BY DEF Bind, Binding, At
<1>2. Top.inst \in 1..Len(insts) /\ Top \in AnyFrame /\ Top.imp \in Nat
  BY <1>1, TopRange DEF AnyFrame
<1>3. insts' = [insts EXCEPT ![Top.inst].iat[Top.imp] = BoundSlots]
  BY DEF Bind, BoundSlots
<1>4. PICK slots \in Seq(Int) : slots = BoundSlots
  BY <1>1, BoundRange
<1>5. /\ insts' = [insts EXCEPT ![Top.inst].iat[Top.imp] = slots]
      /\ \A j \in DOMAIN slots : slots[j] \in {Raw, Null, Native} \cup Bindable
  BY <1>3, <1>4, BoundTo
<1>6. /\ Quiet
      /\ insts'[Top.inst] = [insts[Top.inst] EXCEPT !.iat = [@ EXCEPT ![Top.imp] = slots]]
      /\ \A m \in 1..Len(insts) : m # Top.inst => insts'[m] = insts[m]
  <2>1. PICK n \in 1..Len(insts), i \in Nat : n = Top.inst /\ i = Top.imp
    BY <1>2
  <2>2. insts' = [insts EXCEPT ![n].iat[i] = slots]
    BY <1>5, <2>1
  <2>3. Quiet /\ insts'[n] = [insts[n] EXCEPT !.iat = [@ EXCEPT ![i] = slots]]
        /\ \A m \in 1..Len(insts) : m # n => insts'[m] = insts[m]
    <3>1. \A j \in DOMAIN slots : slots[j] \in {Raw, Null, Native} \cup Bindable
      BY <1>5
    <3> QED
      BY <2>2, <3>1, TableSet
  <2> QED
    BY <2>1, <2>3
<1>7. /\ UNCHANGED <<world, table, guest>> /\ tlsIndex' \in Nat /\ outcome' = outcome
  BY DEF Bind, ShapeInv, TableInv
<1>8. \E pc \in {"bound", "import"}, s \in Status : \E f \in Moves(pc, s) : stack' = Replace(f)
  <2> DEFINE invalid == Served(Top, Reqs) # DOMAIN Reqs
             missing == \E j \in Served(Top, Reqs) : Missing(Top, Reqs[j])
  <2>1. stack' = Replace(
             IF invalid THEN [Top EXCEPT !.pc = "bound", !.status = "INVALID"]
             ELSE [Top EXCEPT !.pc = "import", !.imp = Top.imp + 1,
                              !.status = IF missing THEN "NOT_FOUND" ELSE @])
    BY DEF Bind
  <2> HIDE DEF invalid, missing
  <2>2. Top.status \in Status /\ "NOT_FOUND" \in Status /\ "INVALID" \in Status
    BY <1>2 DEF AnyFrame, Status
  <2>3. CASE invalid
    BY <2>1, <2>2, <2>3 DEF Moves
  <2>4. CASE ~ invalid
    <3>1. PICK s \in Status : s = IF missing THEN "NOT_FOUND" ELSE Top.status
      BY <2>2
    <3>2. stack' = Replace([Top EXCEPT !.pc = "import", !.imp = Top.imp + 1, !.status = s])
      BY <2>1, <2>4, <3>1
    <3> QED
      BY <3>2 DEF Moves
  <2> QED
    BY <2>3, <2>4
<1>9. PICK pc \in {"bound", "import"}, s \in Status :
        \E f \in Moves(pc, s) : stack' = Replace(f)
  BY <1>8
<1>10. PICK f \in Moves(pc, s) : stack' = Replace(f)
  BY <1>9
<1> QED
  BY <1>1, <1>4, <1>6, <1>7, <1>10, MovesOn

LEMMA TlsKinds ==
  ASSUME ShapeInv, outcome = "running",
         AllocateTls \/ TlsMapFails \/ TlsNoArray \/ TlsCallback \/ TlsDone
  PROVE  Kinds /\ Kept
<1>1. stack # <<>> /\ Top.kind = "load" /\ Top.pc \in {"tls", "callbacks"}
  BY DEF At, AllocateTls, TlsMapFails, TlsNoArray, TlsCallback, TlsDone
<1>2. /\ Top \in AnyFrame /\ Top.inst \in 1..Len(insts) /\ PcOK(Top) /\ FrameIn(Top)
      /\ TableInv /\ tlsIndex \in Nat
  BY <1>1, TopRange DEF ShapeInv, TableInv
<1> DEFINE pc == IF IsExe(Top) THEN "entry" ELSE "register"
<1>3. pc \in {"entry", "register"} /\ (pc = "register" => Top.inst # 1) /\ "SUCCESS" \in Status
  BY DEF IsExe, Status
<1> HIDE DEF pc
<1>4. ASSUME stack' = Replace([Top EXCEPT !.pc = pc]),
             UNCHANGED <<world, insts, table, process, guest, faults, outcome>>
      PROVE  Kinds /\ Kept
  <2>1. Quiet /\ tlsIndex' \in Nat
    BY <1>2, <1>4, Unchanged DEF process
  <2>2. [Top EXCEPT !.pc = pc] \in Moves(pc, "SUCCESS")
    BY DEF Moves
  <2> QED
    BY <1>1, <1>3, <1>4, <2>1, <2>2, MovesOn
<1>5. CASE AllocateTls
  <2>1. CASE ImageOf(Top.inst).tls = NoTls
    BY <1>4, <1>5, <2>1 DEF AllocateTls, pc
  <2>2. CASE ImageOf(Top.inst).tls # NoTls /\ TlsFull
    BY <1>5, <2>2, Stopped DEF AllocateTls
  <2>3. CASE ImageOf(Top.inst).tls # NoTls /\ ~ TlsFull
    <3>1. /\ tlsIndex' = tlsIndex + 1
          /\ insts' = [insts EXCEPT ![Top.inst].tls = tlsIndex]
          /\ stack' = Replace([Top EXCEPT !.pc = "callbacks"])
          /\ UNCHANGED <<world, table, exePath, atexits, guest, faults, outcome>>
      BY <1>5, <2>3 DEF AllocateTls
    <3>2. Quiet
      <4>1. PICK n \in 1..Len(insts), slot \in Int : n = Top.inst /\ slot = tlsIndex
        BY <1>2
      <4> QED
        BY <3>1, <4>1, SlotSet
    <3>3. [Top EXCEPT !.pc = "callbacks"] \in Moves("callbacks", "SUCCESS")
      BY DEF Moves
    <3> QED
      BY <1>1, <1>2, <1>3, <3>1, <3>2, <3>3, MovesOn
  <2> QED
    BY <2>1, <2>2, <2>3
<1>6. CASE TlsMapFails
  BY <1>2, <1>6, Settled DEF TlsMapFails, process, Kinds, Stops
<1>7. CASE TlsNoArray
  BY <1>7, Stopped DEF TlsNoArray
<1>8. CASE TlsDone
  BY <1>4, <1>8 DEF TlsDone, pc
<1>9. CASE TlsCallback
  <2> DEFINE f == [Top EXCEPT !.cb = Top.cb + 1]
             g == GuestFrame(Top.inst)
  <2>1. /\ stack' = Push(Replace(f), g) /\ Top.pc = "callbacks"
        /\ UNCHANGED <<world, insts, table, process, guest, faults, outcome>>
    BY <1>9 DEF TlsCallback, At
  <2>2. Kept /\ Quiet
    BY <1>2, <2>1, Settled, Unchanged DEF process
  <2>3. /\ f \in AnyFrame /\ f.pc = Top.pc /\ SameOwner(f, Top) /\ Ptrs(f) = Ptrs(Top)
        /\ f.res = Top.res
    <3>1. Top.cb + 1 \in Nat \ {0} /\ "tls" \in Pc /\ "SUCCESS" \in Status
      BY <1>2 DEF AnyFrame, Pc, Status
    <3>2. f \in AnyFrame
      BY <1>2, <3>1, Fields
    <3> QED
      BY <1>2, <3>2 DEF AnyFrame, SameOwner, Ptrs
  <2>4. NextTop(f) /\ f.pc # "await"
    BY <1>1, <2>1, <2>2, <2>3, MovedFrame DEF Kept
  <2>5. /\ g \in AnyFrame /\ g.kind = "guest" /\ g.inst = f.inst /\ g.pc = "run" /\ Ptrs(g) = {}
    BY <1>2, <2>3, NewGuest DEF SameOwner, Ptrs
  <2>6. Link(f, g) /\ PcOK(g)
    BY <1>1, <2>1, <2>3, <2>5 DEF Link, PcOK, SameOwner
  <2> HIDE DEF f, g
  <2>7. Calls
    BY <1>1, <2>1, <2>2, <2>4, <2>5, <2>6 DEF Calls
  <2> QED
    BY <2>1, <2>2, <2>7 DEF Kinds, Runs
<1> QED
  BY <1>5, <1>6, <1>7, <1>8, <1>9

LEMMA RegisterKinds ==
  ASSUME ShapeInv, outcome = "running", RegisterDll
  PROVE  Kinds /\ Kept
<1>1. stack # <<>> /\ Top.kind = "load" /\ Top.pc = "register"
  BY DEF RegisterDll, At
<1>2. /\ Top \in AnyFrame /\ Top.inst \in 1..Len(insts) /\ Top.inst # 1 /\ TableInv
      /\ Top.inst \in Nat
  BY <1>1, TopRange, World DEF ShapeInv, PcOK, AnyFrame
<1>3. PICK q : q = PointerTo(Len(libs'))
  OBVIOUS
<1> DEFINE f == [Top EXCEPT !.pc = "import", !.res = {q}]
           name == Dll(insts[Top.inst].image)
<1>4. /\ Register(name, "PE", Top.inst) /\ UNCHANGED <<handles, tlsIndex>>
      /\ stack' = Replace(f) /\ insts' = insts /\ outcome' = outcome /\ world' = world
  BY <1>3 DEF RegisterDll, process, guest
<1>5. name \in ModName /\ "PE" \in {"PE", "NATIVE"} /\ name.ext = "dll"
  BY <1>2 DEF ShapeInv, ImagesInv, Dll, ModName
<1> HIDE DEF name
<1>6. TableInv' /\ PointersStay /\ PtrOK(q)' /\ q.lib = libs'[Len(libs')]
      /\ libs'[Len(libs')] = [name |-> name, kind |-> "PE", handle |-> Top.inst]
  BY <1>2, <1>3, <1>4, <1>5, Registered
<1>9. OwnEntry(q, Top.inst) /\ q \in Fresh
  BY <1>2, <1>3, <1>4, <1>6, RegisterFresh DEF OwnEntry
<1>7. /\ f \in AnyFrame /\ f.pc = "import" /\ SameOwner(f, Top)
      /\ \A p \in Ptrs(f) : p \in Ptrs(Top) \/ (PtrOK(p)' /\ p \in Fresh)
      /\ \A p \in f.res : p \in Top.res \/ OwnEntry(p, f.inst)
  <2>1. {q} \in SUBSET T!Pointer /\ "import" \in Pc /\ "SUCCESS" \in Status /\ 1 \in Nat \ {0}
    BY <1>6 DEF PtrOK, Pc, Status
  <2>2. f \in AnyFrame
    BY <1>2, <2>1, Fields
  <2>3. f.pc = "import" /\ SameOwner(f, Top)
    BY <1>2 DEF AnyFrame, SameOwner
  <2>4. f.res = {q} /\ f.loaded = Top.loaded /\ f.native = Top.native
    BY <1>2 DEF AnyFrame
  <2> HIDE DEF f
  <2> QED
    BY <1>6, <1>9, <2>2, <2>3, <2>4 DEF Ptrs, SameOwner
<1> HIDE DEF f
<1>8. NextTop(f)
  BY <1>1, <1>6, <1>7, MovedFrame
<1> QED
  BY <1>1, <1>4, <1>6, <1>7, <1>8, GoesOn DEF Kept

LEMMA ImportKinds ==
  ASSUME ShapeInv, outcome = "running",
         NextImport \/ ImportNotFound \/ ImportsDone \/ BoundDll \/ BoundExe
  PROVE  Kinds /\ Kept
<1>1. stack # <<>> /\ Top.pc \in {"import", "found", "bound"} /\ Top.kind = "load"
  BY DEF At, NextImport, ImportNotFound, ImportsDone, BoundDll, BoundExe
<1>2. /\ Top \in AnyFrame /\ Top.inst \in 1..Len(insts) /\ FrameIn(Top)
      /\ TableInv /\ tlsIndex \in Nat /\ "SUCCESS" \in Status /\ "NOT_FOUND" \in Status
      /\ PcOK(Top)
  BY <1>1, TopRange DEF ShapeInv, TableInv, Status
<1>3. CASE NextImport
  <2> DEFINE f == [Top EXCEPT !.pc = "search", !.loaded = {}, !.native = {}]
  <2>1. /\ stack' = Replace(f) /\ Top.imp <= Len(ImportsOf(Top.inst))
        /\ UNCHANGED <<world, insts, table, process, guest, faults, outcome>>
    BY <1>3 DEF NextImport
  <2>2. Kept
    BY <1>2, <2>1, Settled DEF process
  <2>3. /\ f \in AnyFrame /\ f.pc = "search" /\ f.kind = "load" /\ f.inst = Top.inst
        /\ f.imp = Top.imp /\ f.res = Top.res /\ f.loaded = {} /\ f.native = {}
    <3>1. "search" \in Pc /\ {} \in SUBSET T!Pointer /\ 1 \in Nat \ {0}
      BY DEF Pc
    <3>2. f \in AnyFrame
      BY <1>2, <3>1, Fields
    <3> QED
      BY <1>1, <1>2, <3>2 DEF AnyFrame
  <2> HIDE DEF f
  <2>4. NextTop(f)
    <3>1. \A p \in Ptrs(f) : PtrOK(p)' /\ p \in Ptrs(Top)
      BY <1>1, <2>2, <2>3, TopPointers DEF Ptrs, Kept
    <3>2. Holds(f)
      BY <2>3 DEF Holds
    <3> QED
      BY <1>1, <2>1, <2>3, <3>1, <3>2 DEF NextTop, PcOK, SameOwner
  <2> QED
    BY <1>1, <2>1, <2>2, <2>3, <2>4, GoesOn
<1>4. CASE ImportNotFound
  <2>1. [Top EXCEPT !.pc = "import", !.imp = Top.imp + 1, !.status = "NOT_FOUND"]
          \in Moves("import", "NOT_FOUND")
    BY DEF Moves
  <2> QED
    BY <1>1, <1>2, <1>4, <2>1, Unchanged, MovesOn DEF ImportNotFound, process
<1>5. CASE ImportsDone
  <2>1. [Top EXCEPT !.pc = "bound", !.loaded = {}, !.native = {}] \in Moves("bound", "SUCCESS")
    BY DEF Moves
  <2> QED
    BY <1>1, <1>2, <1>5, <2>1, Unchanged, MovesOn DEF ImportsDone, process
<1>6. CASE BoundDll
  <2>1. [Top EXCEPT !.pc = "entry"] \in Moves("entry", "SUCCESS")
    BY DEF Moves
  <2>2. Quiet
    BY <1>1, <1>6, PhaseQuiet DEF BoundDll
  <2> QED
    BY <1>1, <1>2, <1>6, <2>1, <2>2, MovesOn DEF BoundDll, process
<1>7. CASE BoundExe
  <2> DEFINE f == [Top EXCEPT !.pc = "tls"]
  <2>1. /\ stack' = Replace(f) /\ UNCHANGED <<world, table, process, guest, faults, outcome>>
        /\ insts' = SetPhase(Top.inst, "bound")
    BY <1>7 DEF BoundExe
  <2>2. Quiet /\ Kept
    BY <1>1, <1>2, <2>1, PhaseQuiet, Settled DEF process
  <2>3. /\ f \in AnyFrame /\ f.pc = "tls" /\ f.kind = "load" /\ f.inst = Top.inst
        /\ Ptrs(f) = Ptrs(Top) /\ f.res = Top.res
    <3>1. "tls" \in Pc /\ {} \in SUBSET T!Pointer /\ 1 \in Nat \ {0}
      BY DEF Pc
    <3>2. f \in AnyFrame
      BY <1>2, <3>1, Fields
    <3> QED
      BY <1>1, <1>2, <3>2 DEF AnyFrame, Ptrs
  <2> HIDE DEF f
  <2>4. NextTop(f)
    <3>1. Holds(f)
      BY <2>3 DEF Holds
    <3> QED
      BY <1>1, <2>2, <2>3, <3>1, TopPointers DEF NextTop, PcOK, SameOwner, Kept
  <2> QED
    BY <1>1, <2>1, <2>2, <2>3, <2>4 DEF Kinds, Runs, Goes
<1> QED
  BY <1>3, <1>4, <1>5, <1>6, <1>7

LEMMA EntryKinds ==
  ASSUME ShapeInv, outcome = "running", InvokeEntry
  PROVE  Kinds /\ Kept
<1> DEFINE f == [Top EXCEPT !.pc = "return"]
           g == GuestFrame(Top.inst)
<1>1. /\ stack # <<>> /\ Top.pc = "entry" /\ Top.kind = "load"
      /\ stack' = Push(Replace(f), g) /\ insts' = SetPhase(Top.inst, "entered")
      /\ UNCHANGED <<world, table, process, guest, faults, outcome>>
  BY DEF At, InvokeEntry
<1>2. /\ Top \in AnyFrame /\ Top.inst \in 1..Len(insts) /\ Top.inst \in Nat \ {0}
      /\ TableInv /\ tlsIndex \in Nat /\ "SUCCESS" \in Status
  BY <1>1, TopRange DEF ShapeInv, TableInv, Status, AnyFrame
<1>3. Quiet /\ Kept
  BY <1>1, <1>2, PhaseQuiet, Settled DEF process
<1>4. NextTop(f) /\ f.pc = "return" /\ f.kind = "load" /\ f.inst = Top.inst
  <2>1. f \in Moves("return", "SUCCESS")
    BY DEF Moves
  <2> QED
    BY <1>1, <1>2, <1>3, <2>1, MovedTop DEF Kept
<1>5. /\ g \in AnyFrame /\ g.kind = "guest" /\ g.inst = f.inst /\ g.pc = "run" /\ Ptrs(g) = {}
  BY <1>2, <1>4, NewGuest DEF Ptrs
<1>6. Link(f, g) /\ PcOK(g)
  BY <1>4, <1>5 DEF Link, PcOK
<1> HIDE DEF f, g
<1>7. Calls
  BY <1>1, <1>3, <1>4, <1>5, <1>6 DEF Calls
<1> QED
  BY <1>1, <1>3, <1>7 DEF Kinds, Runs

LEMMA ReturnKinds ==
  ASSUME ShapeInv, outcome = "running", ReturnToMain \/ ReturnToCaller
  PROVE  Kinds /\ Kept
<1>1. stack # <<>> /\ Top.kind = "load" /\ TableInv /\ tlsIndex \in Nat
  BY DEF At, ReturnToMain, ReturnToCaller, ShapeInv, TableInv
<1>2. CASE ReturnToMain
  <2>1. /\ Top.inst = 1 /\ insts' = SetPhase(Top.inst, "attached") /\ stack' = stack
        /\ outcome' # "running" /\ UNCHANGED <<world, table, guest, tlsIndex>>
    BY <1>2 DEF ReturnToMain, IsExe, process
  <2> QED
    BY <1>1, <2>1, Settled DEF Kinds, Completes
<1>3. CASE ReturnToCaller
  <2>1. /\ Top.inst # 1 /\ insts' = SetPhase(Top.inst, "attached")
        /\ UNCHANGED <<world, guest, tlsIndex, outcome>>
        /\ \/ stack' = Resume({}) /\ UNCHANGED table
           \/ /\ Register(Want(Below), "NATIVE", 0)
              /\ stack' = Resume({PointerTo(Len(libs'))})
    BY <1>3 DEF ReturnToCaller, IsExe, process
  <2>2. CASE stack' = Resume({}) /\ UNCHANGED table
    <3>1. Kept
      BY <1>1, <2>1, <2>2, Settled
    <3> QED
      BY <1>1, <2>1, <2>2, <3>1 DEF Kinds, Runs, Attaches
  <2>3. CASE /\ Register(Want(Below), "NATIVE", 0)
             /\ stack' = Resume({PointerTo(Len(libs'))})
    <3>1. PICK q : q = PointerTo(Len(libs'))
      OBVIOUS
    <3>2. Want(Below) \in ModName
      <4>1. PICK N \in Nat : N = Len(insts) /\ Shape(stack, N)
        BY World DEF ShapeInv
      <4>2. {} \in SUBSET T!Pointer
        OBVIOUS
      <4>3. Depth > 1 /\ Below = stack[Depth - 1] /\ Below.pc = "await"
        BY <1>1, <2>1, <4>1, <4>2, ShapeResume
      <4>4. Depth - 1 \in 1..Len(stack)
        BY <1>1, <4>3, TopRange
      <4> QED
        BY <4>3, <4>4, Wanted
    <3>3. TableInv' /\ PointersStay /\ PtrOK(q)' /\ q \in Fresh
      <4>1. /\ "NATIVE" \in {"PE", "NATIVE"} /\ "NATIVE" # "PE" /\ 0 \in Nat
            /\ UNCHANGED <<handles, tlsIndex>>
        BY <2>1 DEF guest
      <4> QED
        BY <1>1, <2>3, <3>1, <3>2, <4>1, Registered, RegisterFresh
    <3>4. /\ {q} \in SUBSET T!Pointer /\ stack' = Resume({q})
          /\ \A p \in {q} : PtrOK(p)' /\ p \in Fresh
      BY <2>3, <3>1, <3>3 DEF PtrOK
    <3> QED
      BY <1>1, <2>1, <3>3, <3>4 DEF Kinds, Runs, Attaches, Kept
  <2> QED
    BY <2>1, <2>2, <2>3
<1> QED
  BY <1>2, <1>3

LEMMA LoadKinds ==
  ASSUME ShapeInv, outcome = "running", LoadStep
  PROVE  Kinds /\ Kept
<1>1. CASE BindTellsNull
  <2>1. (IF Want(Top).stem = "msvcrt" THEN "setArgsNull" ELSE "exePathNull") # "running"
    OBVIOUS
  <2> QED
    BY <1>1, <2>1, Stopped DEF BindTellsNull
<1>2. CASE BindStale \/ BindWrongType \/ BoundExeFails \/ EntryZero
  BY <1>2, Stopped DEF BindStale, BindWrongType, BoundExeFails, EntryZero
<1> QED
  BY <1>1, <1>2, TlsKinds, RegisterKinds, BindKinds, ImportKinds, EntryKinds, ReturnKinds
     DEF LoadStep

LEMMA GuestKinds ==
  ASSUME ShapeInv, outcome = "running", GuestStep
  PROVE  Kinds /\ Kept
<1>1. CASE GuestCallsImport \/ UseHandle \/ ExitProcess
  BY <1>1, Stopped DEF GuestCallsImport, UseHandle, ExitProcess
<1>2. CASE GuestReturns
  <2>1. /\ stack # <<>> /\ Top.kind = "guest" /\ stack' = Popped
        /\ UNCHANGED <<world, insts, table, process, guest, faults, outcome>>
    BY <1>2 DEF GuestReturns, Running, At
  <2>2. Kept
    BY <2>1, Settled DEF ShapeInv, TableInv, process
  <2> QED
    BY <2>1, <2>2 DEF Kinds, Runs, Returns
<1>3. CASE LoadLibraryReturns
  <2>1. /\ stack # <<>> /\ Top.kind = "call" /\ stack' = Popped
        /\ handles' = handles \cup (IF Top.native # {} THEN Top.native ELSE Top.loaded)
        /\ UNCHANGED <<world, insts, table, process, calls, faults, outcome>>
    BY <1>3 DEF LoadLibraryReturns, At
  <2>2. UNCHANGED <<libs, cap, block, tlsIndex>>
    BY <2>1 DEF table, process
  <2>3. \A p : PtrOK(p) => PtrOK(p)'
    BY <2>2 DEF PtrOK
  <2>4. \A p \in handles' : PtrOK(p)'
    <3>1. \A p \in handles' : p \in handles \/ p \in Ptrs(Top)
      BY <2>1 DEF Ptrs
    <3>2. PointersStay
      BY <2>3 DEF PointersStay
    <3> QED
      BY <2>1, <2>3, <3>1, <3>2, TopPointers DEF ShapeInv, TableInv
  <2>5. Kept
    BY <2>1, <2>2, <2>3, <2>4 DEF Kept, PointersStay, ShapeInv, TableInv
  <2> QED
    BY <2>1, <2>5 DEF Kinds, Runs, Returns
<1>4. CASE LoadLibraryW
  <2>1. /\ stack # <<>> /\ Top.kind = "guest"
        /\ \E s \in Stem : stack' = Push(stack, CallFrame(Top.inst, Dll(s)))
        /\ UNCHANGED <<world, insts, table, process, handles, faults, outcome>>
    BY <1>4 DEF LoadLibraryW, Running, At
  <2>2. PICK name \in ModName : stack' = Push(stack, CallFrame(Top.inst, name))
    BY <2>1 DEF Dll, ModName
  <2>3. Kept
    BY <2>1, TableKept DEF Kept, ShapeInv, TableInv, table, process
  <2>4. /\ Top \in AnyFrame /\ Top.inst \in Nat \ {0} /\ PcOK(Top) /\ Top.pc = "run"
    BY <2>1, TopRange DEF AnyFrame, PcOK
  <2> DEFINE g == CallFrame(Top.inst, name)
  <2>5. /\ g \in AnyFrame /\ g.kind = "call" /\ g.inst = Top.inst /\ g.pc = "search"
        /\ g.want = name /\ Ptrs(g) = {}
    BY <2>4, NewCall DEF Ptrs
  <2>6. stack' = Push(Replace(Top), g)
    <3>1. Replace(Top) = stack
      <4>1. PICK N \in Nat : N = Len(insts) /\ Shape(stack, N)
        BY World DEF ShapeInv
      <4> QED
        BY <2>1, <4>1, ReplaceTop
    <3> QED
      BY <2>2, <3>1
  <2> HIDE DEF g
  <2>7. Link(Top, g) /\ PcOK(g)
    BY <2>1, <2>5 DEF Link, PcOK
  <2>8. NextTop(Top)
    <3>1. Holds(Top)
      BY <2>1 DEF Holds
    <3> QED
      BY <2>1, <2>3, <2>4, <3>1, TopPointers DEF NextTop, SameOwner, Kept
  <2>9. Quiet
    BY <2>1, Unchanged
  <2>10. Calls
    BY <2>1, <2>5, <2>6, <2>7, <2>8, <2>9 DEF Calls
  <2> QED
    BY <2>1, <2>3, <2>10 DEF Kinds, Runs
<1> QED
  BY <1>1, <1>2, <1>3, <1>4 DEF GuestStep

LEMMA StepKinds ==
  ASSUME ShapeInv, Step
  PROVE  Kinds /\ Kept
BY ExecuteKinds, SearchKinds, LoadKinds, GuestKinds DEF Step

LEMMA ShapeInit == Init => ShapeInv
<1> SUFFICES ASSUME Init PROVE ShapeInv
  OBVIOUS
<1>1. /\ stack = <<>> /\ insts = <<>> /\ libs = <<>> /\ handles = {} /\ tlsIndex = 0
      /\ cap = 0 /\ block = 0 /\ world \in Worlds
  BY DEF Init
<1>2. /\ stack \in Seq(AnyFrame) /\ Len(stack) = 0
      /\ insts \in Seq(AnyInstance) /\ Len(insts) = 0
      /\ libs \in Seq(T!Lib)
  BY <1>1
<1>3. Shape(stack, Len(insts))
  BY <1>1, <1>2 DEF Shape, Ordered
<1> QED
  BY <1>1, <1>2, <1>3 DEF ShapeInv, ImagesInv, TableInv, PointersInv, ImportsInv

LEMMA ShapeStep == ShapeInv /\ [Next]_vars => ShapeInv'
<1> SUFFICES ASSUME ShapeInv, [Next]_vars PROVE ShapeInv'
  OBVIOUS
<1>1. CASE Step
  BY <1>1, StepKinds, KindsKeepShape
<1>2. CASE UNCHANGED vars
  <2>1. UNCHANGED <<world, stack, insts, libs, cap, block, handles, tlsIndex>>
    BY <1>2 DEF vars, table, process, guest
  <2>2. Shape(stack, Len(insts))'
    BY <2>1 DEF ShapeInv, Shape, Ordered, PcOK, Link
  <2> QED
    BY <2>1, <2>2 DEF ShapeInv, ImagesInv, TableInv, PointersInv, PtrOK, ImportsInv, Ptrs,
                      ImportsOf, ImageOf
<1> QED
  BY <1>1, <1>2 DEF Next, Ended

LEMMA ShapeAlways == Spec => []ShapeInv
  BY ShapeInit, ShapeStep, PTL DEF Spec

-----------------------------------------------------------------------------
(* Whose frames are on the stack after a step.                             *)
SameUpTo(n) == \A i \in 1..n : SameOwner(stack'[i], stack[i])

LEMMA GoesOwners ==
  ASSUME ShapeInv, Goes
  PROVE  Len(stack') = Depth /\ Depth \in Nat \ {0} /\ SameUpTo(Depth)
<1>1. stack \in Seq(AnyFrame) /\ stack # <<>> /\ Depth \in Nat \ {0} /\ Top = stack[Depth]
  BY TopRange DEF ShapeInv, Shape, Goes
<1>2. PICK f \in AnyFrame : SameOwner(f, Top) /\ stack' = Replace(f)
  BY DEF Goes, NextTop
<1>3. /\ Len(stack') = Depth /\ stack'[Depth] = f
      /\ \A i \in 1..(Depth - 1) : stack'[i] = stack[i]
  BY <1>1, <1>2, ReplaceFrames
<1> QED
  BY <1>1, <1>2, <1>3 DEF SameUpTo, SameOwner

LEMMA CallsOwners ==
  ASSUME ShapeInv, stack # <<>>, NEW f \in AnyFrame, SameOwner(f, Top), NEW g \in AnyFrame,
         stack' = Push(Replace(f), g)
  PROVE  /\ Len(stack') = Depth + 1 /\ Depth \in Nat \ {0} /\ SameUpTo(Depth)
         /\ stack'[Depth + 1] = g
<1>1. stack \in Seq(AnyFrame) /\ Depth \in Nat \ {0} /\ Top = stack[Depth]
  BY TopRange DEF ShapeInv, Shape
<1>2. /\ Len(stack') = Depth + 1 /\ stack'[Depth] = f /\ stack'[Depth + 1] = g
      /\ \A i \in 1..(Depth - 1) : stack'[i] = stack[i]
  BY <1>1, CallFrames
<1> QED
  BY <1>1, <1>2 DEF SameUpTo, SameOwner

LEMMA ReturnsOwners ==
  ASSUME ShapeInv, Returns
  PROVE  /\ Len(stack') = Depth - 1 /\ Depth \in Nat \ {0}
         /\ SameUpTo(Depth - 1)
<1>1. stack \in Seq(AnyFrame) /\ stack # <<>> /\ Depth \in Nat \ {0} /\ stack' = Popped
  BY TopRange DEF ShapeInv, Shape, Returns
<1>2. Len(stack') = Depth - 1 /\ \A i \in 1..(Depth - 1) : stack'[i] = stack[i]
  BY <1>1, PopFrames
<1> QED
  BY <1>1, <1>2 DEF SameUpTo, SameOwner

LEMMA AttachesOwners ==
  ASSUME ShapeInv, Attaches
  PROVE  /\ Len(stack') = Depth - 1 /\ Depth \in Nat \ {0, 1}
         /\ SameUpTo(Depth - 1)
<1>1. stack \in Seq(AnyFrame) /\ stack # <<>> /\ Depth \in Nat \ {0}
  BY TopRange DEF ShapeInv, Shape, Attaches
<1>2. PICK native \in SUBSET T!Pointer : stack' = Resume(native)
  BY DEF Attaches
<1>3. PICK N \in Nat : N = Len(insts) /\ Shape(stack, N)
  BY World DEF ShapeInv
<1>4. /\ Depth > 1 /\ Below = stack[Depth - 1]
      /\ Resumed(native) \in AnyFrame /\ SameOwner(Resumed(native), Below)
  BY <1>1, <1>3, ShapeResume DEF Attaches
<1>5. /\ Len(stack') = Depth - 1 /\ stack'[Depth - 1] = Resumed(native)
      /\ \A i \in 1..(Depth - 2) : stack'[i] = stack[i]
  BY <1>1, <1>2, <1>4, ResumeFrames
<1> QED
  BY <1>1, <1>4, <1>5 DEF SameUpTo, SameOwner
-----------------------------------------------------------------------------
(* A module is being loaded while its frame is on the stack; it is         *)
(* attached when it is not.                                                *)
InProgress(n) == \E i \in 1..Len(stack) : stack[i].kind = "load" /\ stack[i].inst = n
IsAttached(n) == insts[n].phase = "attached"

AttachedInv ==
  outcome = "running" => \A n \in 1..Len(insts) : IsAttached(n) <=> ~ InProgress(n)

(* The frame on top belongs to the innermost module in progress.           *)
LEMMA Innermost ==
  ASSUME ShapeInv, AttachedInv, outcome = "running", stack # <<>>
  PROVE  /\ InProgress(Top.inst) /\ ~ IsAttached(Top.inst)
         /\ \A n \in 1..Len(insts) : n > Top.inst => IsAttached(n)
<1>1. /\ Depth \in Nat \ {0} /\ Depth = Len(stack) /\ Depth \in 1..Len(stack)
      /\ Top = stack[Depth] /\ Top \in AnyFrame /\ Top.inst \in 1..Len(insts)
  BY TopRange
<1>2. /\ \A i \in 1..(Depth - 1) : Link(stack[i], stack[i + 1])
      /\ stack[1].kind = "load"
      /\ \A i \in 1..Depth : stack[i] \in AnyFrame
      /\ \A i, j \in 1..Depth : i < j => stack[i].inst <= stack[j].inst
  BY <1>1, ElementOfSeq DEF ShapeInv, Shape, Ordered
<1>3. InProgress(Top.inst)
  <2>1. CASE Top.kind = "load"
    BY <1>1, <2>1 DEF InProgress
  <2>2. CASE Top.kind = "guest"
    <3>1. Depth - 1 \in 1..Depth /\ Link(stack[Depth - 1], stack[Depth])
      BY <1>1, <1>2, <2>2
    <3>2. stack[Depth - 1].kind = "load" /\ stack[Depth - 1].inst = Top.inst
      BY <1>1, <2>2, <3>1 DEF Link
    <3> QED
      BY <1>1, <3>1, <3>2 DEF InProgress
  <2>3. CASE Top.kind = "call"
    <3>1. Depth - 1 \in 1..Depth /\ Link(stack[Depth - 1], stack[Depth])
      BY <1>1, <1>2, <2>3
    <3>2. stack[Depth - 1].kind = "guest" /\ stack[Depth - 1].inst = Top.inst
      BY <1>1, <2>3, <3>1 DEF Link
    <3>3. Depth - 2 \in 1..Depth /\ Link(stack[Depth - 2], stack[Depth - 1])
      <4>1. Depth - 1 # 1
        BY <1>2, <3>2
      <4>2. Depth - 2 \in 1..(Depth - 1) /\ Depth - 2 + 1 = Depth - 1
        BY <1>1, <3>1, <4>1
      <4> QED
        BY <1>1, <1>2, <4>2
    <3>4. stack[Depth - 2].kind = "load" /\ stack[Depth - 2].inst = Top.inst
      BY <3>2, <3>3 DEF Link
    <3> QED
      BY <1>1, <3>3, <3>4 DEF InProgress
  <2> QED
    BY <1>1, <2>1, <2>2, <2>3 DEF AnyFrame
<1>4. ASSUME NEW n \in 1..Len(insts), n > Top.inst PROVE ~ InProgress(n)
  <2>1. \A i \in 1..Depth : stack[i].inst <= Top.inst /\ stack[i].inst \in Nat
    BY <1>1, <1>2 DEF AnyFrame
  <2>2. n \in Nat /\ Top.inst \in Nat
    BY <1>1, World
  <2> QED
    BY <1>1, <1>4, <2>1, <2>2 DEF InProgress
<1> QED
  BY <1>1, <1>3, <1>4 DEF AttachedInv

LEMMA QuietAttached ==
  ASSUME ShapeInv, AttachedInv, outcome = "running", stack # <<>>, Quiet
  PROVE  \A n \in 1..Len(insts) : IsAttached(n)' <=> IsAttached(n)
BY Innermost DEF Quiet, IsAttached

(* Which modules are in progress after a step in which frames stay.        *)
LEMMA StillInProgress ==
  ASSUME ShapeInv, NEW k \in Nat, k <= Len(stack), SameUpTo(k), Len(stack') = k,
         \A i \in (k + 1)..Len(stack) : stack[i].kind # "load"
  PROVE  \A n : InProgress(n)' <=> InProgress(n)
<1>1. Len(stack) \in Nat
  BY NoFrames DEF ShapeInv, Shape
<1> QED
  BY <1>1 DEF InProgress, SameUpTo, SameOwner

LEMMA OneMoreFrame ==
  ASSUME ShapeInv, SameUpTo(Len(stack)), Len(stack') = Len(stack) + 1,
         NEW g, stack'[Len(stack) + 1] = g
  PROVE  \A n : InProgress(n)' <=> InProgress(n) \/ (g.kind = "load" /\ g.inst = n)
<1>1. Len(stack) \in Nat
  BY NoFrames DEF ShapeInv, Shape
<1>2. ASSUME NEW n, InProgress(n)'
      PROVE  InProgress(n) \/ (g.kind = "load" /\ g.inst = n)
  <2>1. PICK i \in 1..(Len(stack) + 1) : stack'[i].kind = "load" /\ stack'[i].inst = n
    BY <1>2 DEF InProgress
  <2>2. CASE i = Len(stack) + 1
    BY <2>1, <2>2
  <2>3. CASE i \in 1..Len(stack)
    BY <2>1, <2>3 DEF InProgress, SameUpTo, SameOwner
  <2> QED
    BY <1>1, <2>1, <2>2, <2>3
<1>3. ASSUME NEW n, InProgress(n) \/ (g.kind = "load" /\ g.inst = n)
      PROVE  InProgress(n)'
  <2>1. CASE InProgress(n)
    <3>1. PICK i \in 1..Len(stack) : stack[i].kind = "load" /\ stack[i].inst = n
      BY <2>1 DEF InProgress
    <3>2. i \in 1..(Len(stack) + 1) /\ stack'[i].kind = "load" /\ stack'[i].inst = n
      BY <1>1, <3>1 DEF SameUpTo, SameOwner
    <3> QED
      BY <3>2 DEF InProgress
  <2>2. CASE g.kind = "load" /\ g.inst = n
    <3>1. Len(stack) + 1 \in 1..(Len(stack) + 1)
      BY <1>1
    <3> QED
      BY <2>2, <3>1 DEF InProgress
  <2> QED
    BY <1>3, <2>1, <2>2
<1> QED
  BY <1>2, <1>3

(* The tree of a state.                                                    *)
Parents == [n \in 1..Len(insts) |-> insts[n].parent]
Attached == {n \in 1..Len(insts) : IsAttached(n)}

LEMMA SameTree ==
  ASSUME SameImages, Len(insts) \in Nat
  PROVE  Parents' = Parents /\ DOMAIN insts' = 1..Len(insts)
BY DEF SameImages, Parents

LEMMA QuietTree ==
  ASSUME ShapeInv, AttachedInv, outcome = "running", outcome' = outcome, SameImages,
         \A n \in 1..Len(insts) : IsAttached(n)' <=> IsAttached(n),
         \A n \in 1..Len(insts) : InProgress(n)' <=> InProgress(n)
  PROVE  AttachedInv' /\ Parents' = Parents /\ Attached' = Attached
<1>1. Parents' = Parents /\ Len(insts') = Len(insts)
  BY SameTree, World DEF SameImages
<1> QED
  BY <1>1 DEF AttachedInv, Attached

LEMMA GoesTree ==
  ASSUME ShapeInv, AttachedInv, outcome = "running", outcome' = outcome,
         Goes \/ Calls \/ Returns
  PROVE  AttachedInv' /\ Parents' = Parents /\ Attached' = Attached
<1>1. stack # <<>>
  BY DEF Goes, Calls, Returns
<1>2. Depth \in Nat \ {0} /\ Depth = Len(stack)
  BY <1>1, TopRange
<1>3. CASE Goes
  <2>1. \A n : InProgress(n)' <=> InProgress(n)
    BY <1>2, <1>3, GoesOwners, StillInProgress
  <2> QED
    BY <1>1, <1>3, <2>1, QuietAttached, QuietTree DEF Goes, Quiet
<1>4. CASE Calls
  <2>1. PICK f, g : /\ NextTop(f) /\ stack' = Push(Replace(f), g)
                    /\ g \in AnyFrame /\ g.kind \in {"guest", "call"}
    BY <1>4 DEF Calls
  <2>2. /\ Len(stack') = Len(stack) + 1 /\ SameUpTo(Len(stack)) /\ stack'[Len(stack) + 1] = g
    BY <1>1, <1>2, <2>1, CallsOwners DEF NextTop
  <2>3. \A n : InProgress(n)' <=> InProgress(n)
    BY <2>1, <2>2, OneMoreFrame
  <2> QED
    BY <1>1, <1>4, <2>3, QuietAttached, QuietTree DEF Calls, Quiet
<1>5. CASE Returns
  <2>1. /\ Depth - 1 \in Nat /\ Len(stack') = Depth - 1 /\ SameUpTo(Depth - 1)
    BY <1>5, ReturnsOwners
  <2>2. \A i \in (Depth - 1 + 1)..Len(stack) : stack[i].kind # "load"
    BY <1>1, <1>2, <1>5, TopRange DEF Returns
  <2>3. \A n : InProgress(n)' <=> InProgress(n)
    BY <1>2, <2>1, <2>2, StillInProgress
  <2>4. insts' = insts
    BY <1>5 DEF Returns
  <2>5. \A n : IsAttached(n)' <=> IsAttached(n)
    BY <2>4 DEF IsAttached
  <2> QED
    BY <2>3, <2>4, <2>5, Unchanged, QuietTree
<1> QED
  BY <1>3, <1>4, <1>5

(* A new module: a leaf of the innermost one.                              *)
LEMMA GrownTree ==
  ASSUME ShapeInv, NEW s \in DOMAIN world.img, NEW parent \in Nat,
         insts' = Append(insts, Instance(s, parent))
  PROVE  /\ Parents' = Append(Parents, parent) /\ Attached' = Attached
         /\ Len(insts') = Len(insts) + 1
         /\ \A n : n = Len(insts) + 1 => ~ IsAttached(n)'
         /\ \A n \in 1..Len(insts) : IsAttached(n)' <=> IsAttached(n)
<1>1. /\ Len(insts') = Len(insts) + 1 /\ Len(insts) \in Nat
      /\ insts'[Len(insts) + 1] = Instance(s, parent)
      /\ \A n \in 1..Len(insts) : insts'[n] = insts[n]
  BY InstanceAdded
<1>2. Instance(s, parent).parent = parent /\ Instance(s, parent).phase = "loading"
  BY DEF Instance
<1>3. /\ \A n : n = Len(insts) + 1 => ~ IsAttached(n)'
      /\ \A n \in 1..Len(insts) : IsAttached(n)' <=> IsAttached(n)
  BY <1>1, <1>2 DEF IsAttached
<1>4. Attached' = Attached
  <2>1. ASSUME NEW n PROVE n \in Attached' <=> n \in Attached
    <3>1. n \in 1..(Len(insts) + 1) <=> n \in 1..Len(insts) \/ n = Len(insts) + 1
      BY <1>1
    <3> QED
      BY <1>1, <1>3, <3>1 DEF Attached
  <2> QED
    BY <2>1
<1>5. Parents' = Append(Parents, parent)
  <2>1. Parents \in Seq(Nat) /\ Len(Parents) = Len(insts) /\ Parents' \in Seq(Nat)
        /\ Len(Parents') = Len(insts) + 1
    <3>1. \A n \in 1..Len(insts) : insts[n].parent \in Nat
      BY World DEF AnyInstance
    <3>2. \A n \in 1..(Len(insts) + 1) : insts'[n].parent \in Nat
      BY <1>1, <1>2, <3>1
    <3>3. Parents \in [1..Len(insts) -> Nat] /\ Parents' \in [1..(Len(insts) + 1) -> Nat]
      BY <1>1, <3>1, <3>2 DEF Parents
    <3> QED
      BY <1>1, <3>3, SeqDef, LenProperties DEF Parents
  <2>2. /\ Append(Parents, parent) \in Seq(Nat) /\ Len(Append(Parents, parent)) = Len(insts) + 1
        /\ Append(Parents, parent)[Len(insts) + 1] = parent
        /\ \A n \in 1..Len(insts) : Append(Parents, parent)[n] = Parents[n]
    BY <2>1, AppendProperties
  <2>3. \A n \in 1..(Len(insts) + 1) : Parents'[n] = Append(Parents, parent)[n]
    BY <1>1, <1>2, <2>2 DEF Parents
  <2> QED
    BY <2>1, <2>2, <2>3, SeqEqual
<1> QED
  BY <1>1, <1>3, <1>4, <1>5

LEMMA LoadsTree ==
  ASSUME ShapeInv, AttachedInv, outcome = "running", outcome' = outcome, Loads
  PROVE  /\ AttachedInv' /\ Parents' = Append(Parents, Top.inst) /\ Attached' = Attached
<1>1. stack # <<>>
  BY DEF Loads
<1>2. /\ Depth \in Nat \ {0} /\ Depth = Len(stack) /\ Top.inst \in 1..Len(insts)
      /\ Len(insts) \in Nat /\ Top.inst \in Nat
  BY <1>1, TopRange, World
<1>3. PICK f : \E s \in DOMAIN world.img \cap Stem :
        /\ NextTop(f)
        /\ stack' = Push(Replace(f), LoadFrame(Len(insts) + 1, "tls"))
        /\ insts' = Append(insts, Instance(s, Top.inst))
  BY DEF Loads
<1>10. PICK s \in DOMAIN world.img : insts' = Append(insts, Instance(s, Top.inst))
  BY <1>3
<1>4. PICK g : g = LoadFrame(Len(insts) + 1, "tls")
  OBVIOUS
<1>5. g \in AnyFrame /\ g.kind = "load" /\ g.inst = Len(insts) + 1
  <2>1. Len(insts) + 1 \in Nat \ {0} /\ "tls" \in Pc
    BY <1>2 DEF Pc
  <2> QED
    BY <1>4, <2>1, NewFrame
<1>6. /\ Parents' = Append(Parents, Top.inst) /\ Attached' = Attached
      /\ Len(insts') = Len(insts) + 1
      /\ \A n : n = Len(insts) + 1 => ~ IsAttached(n)'
      /\ \A n \in 1..Len(insts) : IsAttached(n)' <=> IsAttached(n)
  BY <1>2, <1>10, GrownTree
<1>7. /\ Len(stack') = Len(stack) + 1 /\ SameUpTo(Len(stack)) /\ stack'[Len(stack) + 1] = g
  <2>1. f \in AnyFrame /\ SameOwner(f, Top) /\ stack' = Push(Replace(f), g)
    BY <1>3, <1>4 DEF NextTop
  <2> QED
    BY <1>1, <1>2, <1>5, <2>1, CallsOwners
<1>8. \A n : InProgress(n)' <=> InProgress(n) \/ n = Len(insts) + 1
  BY <1>5, <1>7, OneMoreFrame
<1>9. AttachedInv'
  BY <1>2, <1>6, <1>8 DEF AttachedInv
<1> QED
  BY <1>6, <1>9

LEMMA StartsTree ==
  ASSUME ShapeInv, Starts, outcome' = outcome
  PROVE  AttachedInv' /\ Parents' = Append(Parents, 0) /\ Attached' = Attached /\ Parents = <<>>
         /\ Attached = {}
<1>1. insts = <<>> /\ stack = <<>> /\ Len(insts) = 0 /\ Len(stack) = 0
  BY DEF Starts, ShapeInv
<1>2. /\ Parents' = Append(Parents, 0) /\ Attached' = Attached /\ Len(insts') = 1
      /\ \A n : n = 1 => ~ IsAttached(n)'
  BY <1>1, GrownTree DEF Starts
<1>3. InProgress(1)'
  <2>1. "import" \in Pc /\ 1 \in Nat \ {0}
    BY DEF Pc
  <2>2. PICK g : g = LoadFrame(1, "import")
    OBVIOUS
  <2>3. g \in AnyFrame /\ g.kind = "load" /\ g.inst = 1
    BY <2>1, <2>2, NewFrame
  <2>4. stack' = <<g>>
    BY <1>1, <2>2 DEF Starts, Push
  <2> QED
    BY <2>3, <2>4 DEF InProgress
<1>4. AttachedInv'
  BY <1>2, <1>3 DEF AttachedInv
<1>5. Parents = <<>> /\ Attached = {}
  BY <1>1 DEF Parents, Attached
<1> QED
  BY <1>2, <1>4, <1>5

LEMMA AttachesTree ==
  ASSUME ShapeInv, AttachedInv, outcome = "running", outcome' = outcome, Attaches
  PROVE  AttachedInv' /\ Parents' = Parents /\ Attached' = Attached \cup {Top.inst}
<1>1. /\ stack # <<>> /\ Top.kind = "load" /\ insts' = SetPhase(Top.inst, "attached")
  BY DEF Attaches
<1>2. /\ Depth \in Nat \ {0} /\ Depth = Len(stack) /\ Depth \in 1..Len(stack)
      /\ Top.inst \in 1..Len(insts) /\ Top = stack[Depth] /\ Len(insts) \in Nat
  BY <1>1, TopRange, World
<1>3. "attached" \in Loading
  BY DEF Loading
<1>4. /\ SameImages /\ insts'[Top.inst].phase = "attached"
      /\ \A n \in 1..Len(insts) : n # Top.inst => insts'[n] = insts[n]
  BY <1>1, <1>2, <1>3, PhaseSet
<1>5. \A n \in 1..Len(insts) : IsAttached(n)' <=> IsAttached(n) \/ n = Top.inst
  BY <1>2, <1>4 DEF IsAttached
<1>6. Len(stack') = Depth - 1 /\ SameUpTo(Depth - 1)
  BY AttachesOwners
<1>7. \A n : InProgress(n)' <=> InProgress(n) /\ n # Top.inst
  <2>1. ASSUME NEW n, InProgress(n)'
        PROVE  InProgress(n) /\ n # Top.inst
    <3>1. PICK i \in 1..(Depth - 1) : stack'[i].kind = "load" /\ stack'[i].inst = n
      BY <1>6, <2>1 DEF InProgress
    <3>2. stack[i].kind = "load" /\ stack[i].inst = n
      BY <1>6, <3>1 DEF SameUpTo, SameOwner
    <3>3. stack[i].inst < Top.inst
      BY <1>1, <1>2, <3>1 DEF ShapeInv, Shape, Ordered
    <3>4. Top.inst \in Int
      BY <1>2
    <3> QED
      BY <1>2, <3>1, <3>2, <3>3, <3>4 DEF InProgress
  <2>2. ASSUME NEW n, InProgress(n), n # Top.inst
        PROVE  InProgress(n)'
    <3>1. PICK i \in 1..Depth : stack[i].kind = "load" /\ stack[i].inst = n
      BY <1>2, <2>2 DEF InProgress
    <3>2. i \in 1..(Depth - 1)
      BY <1>2, <2>2, <3>1
    <3> QED
      BY <1>6, <3>1, <3>2 DEF InProgress, SameUpTo, SameOwner
  <2> QED
    BY <2>1, <2>2
<1>8. Parents' = Parents /\ Len(insts') = Len(insts)
  BY <1>2, <1>4, SameTree DEF SameImages
<1>9. Attached' = Attached \cup {Top.inst}
  BY <1>2, <1>5, <1>8 DEF Attached
<1>10. AttachedInv'
  BY <1>5, <1>7, <1>8 DEF AttachedInv
<1> QED
  BY <1>8, <1>9, <1>10

LEMMA CompletesTree ==
  ASSUME ShapeInv, outcome = "running", Completes
  PROVE  AttachedInv' /\ Parents' = Parents /\ Attached' = Attached \cup {Top.inst}
<1>1. /\ stack # <<>> /\ insts' = SetPhase(Top.inst, "attached") /\ "attached" \in Loading
  BY DEF Completes, Loading
<1>2. Top.inst \in 1..Len(insts) /\ Len(insts) \in Nat
  BY <1>1, TopRange, World
<1>3. /\ SameImages /\ insts'[Top.inst].phase = "attached"
      /\ \A n \in 1..Len(insts) : n # Top.inst => insts'[n] = insts[n]
  BY <1>1, <1>2, PhaseSet
<1>4. \A n \in 1..Len(insts) : IsAttached(n)' <=> IsAttached(n) \/ n = Top.inst
  BY <1>2, <1>3 DEF IsAttached
<1>5. Parents' = Parents /\ Len(insts') = Len(insts)
  BY <1>2, <1>3, SameTree DEF SameImages
<1>6. Attached' = Attached \cup {Top.inst}
  BY <1>2, <1>4, <1>5 DEF Attached
<1> QED
  BY <1>5, <1>6 DEF AttachedInv, Completes
-----------------------------------------------------------------------------
DepthInv == ShapeInv /\ AttachedInv

LEMMA DepthInit == Init => DepthInv
<1> SUFFICES ASSUME Init PROVE DepthInv
  OBVIOUS
<1>1. insts = <<>>
  BY DEF Init
<1> QED
  BY <1>1, ShapeInit DEF DepthInv, AttachedInv

LEMMA TreeOf ==
  ASSUME ShapeInv
  PROVE  Attached = {n \in DOMAIN insts : insts[n].phase = "attached"} /\ Len(insts) \in Nat
         /\ DOMAIN Parents = 1..Len(insts) /\ Parents \in Seq(Nat) /\ Len(Parents) = Len(insts)
<1>1. DOMAIN insts = 1..Len(insts) /\ Len(insts) \in Nat
  BY LenProperties DEF ShapeInv, ImagesInv
<1>2. \A n \in 1..Len(insts) : insts[n].parent \in Nat
  BY World DEF AnyInstance
<1>3. Parents \in [1..Len(insts) -> Nat]
  BY <1>2 DEF Parents
<1>4. Parents \in Seq(Nat)
  BY <1>1, <1>3, SeqDef
<1>5. Len(Parents) = Len(insts)
  BY <1>1, <1>3, <1>4, LenProperties
<1> QED
  BY <1>1, <1>3, <1>4, <1>5 DEF Attached, IsAttached

(* A step of the loader is one of the tree, or none.                       *)
LEMMA StepMaps ==
  ASSUME DepthInv, ShapeInv', Step
  PROVE  AttachedInv' /\ [Tree!TreeNext]_(Tree!treeVars)
<1>1. /\ ShapeInv /\ AttachedInv /\ outcome = "running" /\ Kinds
  BY StepKinds DEF DepthInv, Step
<1>2. /\ Attached = {n \in DOMAIN insts : insts[n].phase = "attached"} /\ Len(insts) \in Nat
      /\ DOMAIN Parents = 1..Len(insts) /\ Parents \in Seq(Nat) /\ Len(Parents) = Len(insts)
  BY <1>1, TreeOf
<1>3. Attached' = {n \in DOMAIN insts' : insts'[n].phase = "attached"}
  <2>1. DOMAIN insts' = 1..Len(insts')
    BY LenProperties DEF ShapeInv, ImagesInv
  <2> QED
    BY <2>1 DEF Attached, IsAttached
<1>4. /\ Tree!treeVars = <<Parents, Attached, outcome # "running">>
      /\ Tree!treeVars' = <<Parents', Attached', outcome' # "running">>
      /\ Tree!Opened = 1..Len(insts)
  BY <1>2, <1>3 DEF Tree!treeVars, Tree!Opened, Parents
<1>5. \A m \in {0} \cup ((1..Len(insts)) \ Attached) :
        (\A n \in 1..Len(insts) : n > m => n \in Attached) => Tree!IsInnermost(m)
  BY <1>2, <1>4 DEF Tree!IsInnermost
<1>6. stack # <<>> => Tree!IsInnermost(Top.inst) /\ Top.inst \in 1..Len(insts)
  <2> SUFFICES ASSUME stack # <<>>
               PROVE  Tree!IsInnermost(Top.inst) /\ Top.inst \in 1..Len(insts)
    OBVIOUS
  <2>1. Top.inst \in 1..Len(insts)
    BY <1>1, TopRange
  <2>2. Top.inst \notin Attached /\ \A n \in 1..Len(insts) : n > Top.inst => n \in Attached
    BY <1>1, Innermost DEF Attached
  <2> QED
    BY <1>5, <2>1, <2>2
<1>7. ASSUME Parents' = Parents, Attached' = Attached, outcome' = outcome
      PROVE  UNCHANGED Tree!treeVars
  BY <1>4, <1>7
<1>8. CASE outcome' = outcome /\ (Goes \/ Calls \/ Returns)
  BY <1>1, <1>7, <1>8, GoesTree
<1>9. CASE outcome' = outcome /\ Loads
  <2>1. /\ AttachedInv' /\ Parents' = Append(Parents, Top.inst) /\ Attached' = Attached
        /\ stack # <<>>
    BY <1>1, <1>9, LoadsTree DEF Loads
  <2>2. Tree!Open
    <3>1. PICK m \in Nat : m = Top.inst
      BY <1>2, <1>6, <2>1
    <3>2. m \in 0..Len(Parents) /\ m # 0 /\ Tree!IsInnermost(m)
      BY <1>2, <1>6, <2>1, <3>1
    <3>3. Parents' = Append(Parents, m)
      BY <2>1, <3>1
    <3> QED
      BY <1>1, <1>3, <1>9, <1>4, <2>1, <3>2, <3>3, <1>2 DEF Tree!Open, Parents
  <2> QED
    BY <2>1, <2>2 DEF Tree!TreeNext
<1>10. CASE outcome' = outcome /\ Starts
  <2>1. /\ AttachedInv' /\ Parents' = Append(Parents, 0) /\ Attached' = Attached
        /\ Parents = <<>> /\ Attached = {}
    BY <1>1, <1>10, StartsTree
  <2>2. Len(insts) = 0
    BY <1>2, <2>1
  <2>3. Tree!IsInnermost(0)
    BY <1>5, <2>2
  <2>4. Tree!Open
    BY <1>1, <1>2, <1>3, <1>10, <2>1, <2>2, <2>3 DEF Tree!Open, Parents
  <2> QED
    BY <2>1, <2>4 DEF Tree!TreeNext
<1>11. CASE (outcome' = outcome /\ Attaches) \/ Completes
  <2>1. /\ AttachedInv' /\ Parents' = Parents /\ Attached' = Attached \cup {Top.inst}
        /\ stack # <<>>
    BY <1>1, <1>11, AttachesTree, CompletesTree DEF Attaches, Completes
  <2>2. Tree!Attach
    BY <1>1, <1>2, <1>3, <1>4, <1>6, <2>1 DEF Tree!Attach, Parents
  <2> QED
    BY <2>1, <2>2 DEF Tree!TreeNext
<1>12. CASE Stops
  <2>1. insts' = insts /\ stack' = stack /\ outcome' # "running"
    BY <1>12 DEF Stops
  <2>2. Tree!End
    BY <1>1, <2>1 DEF Tree!End
  <2> QED
    BY <2>1, <2>2 DEF Tree!TreeNext, AttachedInv
<1> QED
  BY <1>1, <1>8, <1>9, <1>10, <1>11, <1>12 DEF Kinds, Runs

LEMMA DepthStep == DepthInv /\ [Next]_vars => DepthInv' /\ [Tree!TreeNext]_(Tree!treeVars)
<1> SUFFICES ASSUME DepthInv, [Next]_vars
             PROVE  DepthInv' /\ [Tree!TreeNext]_(Tree!treeVars)
  OBVIOUS
<1>1. ShapeInv'
  BY ShapeStep DEF DepthInv
<1>2. CASE Step
  BY <1>1, <1>2, StepMaps DEF DepthInv
<1>3. CASE UNCHANGED vars
  <2>1. UNCHANGED <<insts, stack, outcome>>
    BY <1>3 DEF vars
  <2> QED
    BY <1>1, <2>1 DEF DepthInv, AttachedInv, IsAttached, InProgress, Tree!treeVars
<1> QED
  BY <1>2, <1>3 DEF Next, Ended

(* Loading is depth first: loaderlib_execute and load_dll_library implement *)
(* LoadTree, whatever the files and whatever the entry points load.        *)
THEOREM LoaderDepthFirst == Spec => LoadsDepthFirst
<1>1. Init => Tree!TreeInit
  BY DEF Init, Tree!TreeInit
<1>2. Spec => []DepthInv
  BY DepthInit, DepthStep, PTL DEF Spec
<1> QED
  BY <1>1, <1>2, DepthStep, PTL DEF Spec, LoadsDepthFirst, Tree!TreeSpec

-----------------------------------------------------------------------------
(* What a frame of the loader has found is a native library, or a module   *)
(* of `attached`; what it has registered is its own module.                *)
FrameOK(f, attached) ==
  f.kind = "load" =>
    /\ \A p \in f.res : OwnEntry(p, f.inst)
    /\ f.pc \in {"search", "await"} => f.loaded = {}
    /\ f.pc = "found" => \A p \in f.loaded :
         p.lib.kind = "NATIVE" \/ p.lib.handle \in attached

HoldsInv == \A i \in 1..Len(stack) : FrameOK(stack[i], Attached)

ProvidersInv == \A n \in 1..Len(insts) : \A m \in Providers(n) : m > 0 => m \in Attached

BindInv == DepthInv /\ HoldsInv /\ ProvidersInv

LEMMA BindInit == Init => BindInv
<1> SUFFICES ASSUME Init PROVE BindInv
  OBVIOUS
<1>1. insts = <<>> /\ stack = <<>>
  BY DEF Init
<1> QED
  BY <1>1, DepthInit DEF BindInv, HoldsInv, ProvidersInv

(* Once attached, a module stays so.                                       *)
LEMMA AttachedGrows ==
  ASSUME ShapeInv, AttachedInv, outcome = "running", Kinds
  PROVE  Attached \subseteq Attached'
<1>1. CASE outcome' = outcome /\ (Goes \/ Calls \/ Returns)
  BY <1>1, GoesTree
<1>2. CASE outcome' = outcome /\ Loads
  BY <1>2, LoadsTree
<1>3. CASE outcome' = outcome /\ Starts
  BY <1>3, StartsTree
<1>4. CASE outcome' = outcome /\ Attaches
  BY <1>4, AttachesTree
<1>5. CASE Completes
  BY <1>5, CompletesTree
<1>6. CASE Stops
  BY <1>6 DEF Stops, Attached, IsAttached
<1> QED
  BY <1>1, <1>2, <1>3, <1>4, <1>5, <1>6 DEF Kinds, Runs

(* The modules stay the same, or there is one more.                        *)
LEMMA ImagesGrow ==
  ASSUME ShapeInv, Kinds
  PROVE  \/ SameImages
         \/ \E s \in DOMAIN world.img, parent \in Nat :
              insts' = Append(insts, Instance(s, parent))
<1>1. CASE Goes \/ Calls
  BY <1>1 DEF Goes, Calls, Quiet
<1>2. CASE Returns \/ Stops
  BY <1>2, Unchanged DEF Returns, Stops
<1>3. CASE Loads
  <2>1. stack # <<>> /\ \E s \in DOMAIN world.img : insts' = Append(insts, Instance(s, Top.inst))
    BY <1>3 DEF Loads
  <2>2. Top.inst \in Nat
    BY <2>1, TopRange, World
  <2> QED
    BY <2>1, <2>2
<1>4. CASE Starts
  BY <1>4 DEF Starts
<1>5. CASE Attaches \/ Completes
  <2>1. stack # <<>> /\ insts' = SetPhase(Top.inst, "attached") /\ "attached" \in Loading
    BY <1>5 DEF Attaches, Completes, Loading
  <2>2. Top.inst \in 1..Len(insts)
    BY <2>1, TopRange
  <2> QED
    BY <2>1, <2>2, PhaseSet
<1> QED
  BY <1>1, <1>2, <1>3, <1>4, <1>5 DEF Kinds, Runs

(* A module is bound to what its frame has found; a new one to nothing.    *)
LEMMA ProvidersStep ==
  ASSUME BindInv, Kinds, Attached \subseteq Attached'
  PROVE  ProvidersInv'
<1>1. Bindable \subseteq Attached
  <2> SUFFICES ASSUME At("load", "found"), NEW p \in Top.loaded, p.lib.kind = "PE"
               PROVE  p.lib.handle \in Attached
    BY DEF Bindable
  <2>1. stack # <<>> /\ Top.kind = "load" /\ Top.pc = "found"
    BY DEF At
  <2>2. FrameOK(Top, Attached)
    BY <2>1, TopRange DEF BindInv, DepthInv, HoldsInv
  <2> QED
    BY <2>1, <2>2 DEF FrameOK
<1>2. CASE SameImages
  <2>1. SUFFICES ASSUME NEW n \in 1..Len(insts), NEW m \in Providers(n)', m > 0
                 PROVE  m \in Attached
    BY <1>2 DEF SameImages, ProvidersInv
  <2>2. m \in Providers(n) \/ m \in {Raw, Null, Native} \/ m \in Bindable
    BY <1>2 DEF SameImages
  <2>3. m \notin {Raw, Null, Native}
    BY <2>1 DEF Raw, Null, Native
  <2> QED
    BY <1>1, <2>1, <2>2, <2>3 DEF BindInv, ProvidersInv
<1>3. CASE \E s \in DOMAIN world.img, parent \in Nat :
             insts' = Append(insts, Instance(s, parent))
  <2>1. PICK s \in DOMAIN world.img, parent \in Nat :
          insts' = Append(insts, Instance(s, parent))
    BY <1>3
  <2>2. /\ Len(insts') = Len(insts) + 1 /\ Len(insts) \in Nat
        /\ insts'[Len(insts) + 1] = Instance(s, parent)
        /\ \A n \in 1..Len(insts) : insts'[n] = insts[n]
    BY <2>1, InstanceAdded DEF BindInv, DepthInv
  <2>3. SUFFICES ASSUME NEW n \in 1..(Len(insts) + 1), NEW m \in Providers(n)', m > 0
                 PROVE  m \in Attached
    BY <2>2 DEF ProvidersInv
  <2>4. CASE n \in 1..Len(insts)
    <3>1. Providers(n)' = Providers(n)
      BY <2>2, <2>4 DEF Providers
    <3> QED
      BY <2>3, <2>4, <3>1 DEF BindInv, ProvidersInv
  <2>5. CASE n = Len(insts) + 1
    <3>1. insts'[n].iat = Unresolved(world.img[s])
      BY <2>2, <2>5 DEF Instance
    <3>2. PICK i \in DOMAIN insts'[n].iat : \E j \in DOMAIN insts'[n].iat[i] : m = insts'[n].iat[i][j]
      BY <2>3 DEF Providers
    <3>3. m = Raw
      BY <3>1, <3>2 DEF Unresolved
    <3> QED
      BY <2>3, <3>3 DEF Raw
  <2> QED
    BY <2>2, <2>4, <2>5
<1> QED
  BY <1>2, <1>3, ImagesGrow DEF BindInv, DepthInv

(* The frames after a step.                                                *)
LEMMA FrameGrows ==
  ASSUME NEW f, NEW A, NEW B, A \subseteq B, FrameOK(f, A)
  PROVE  FrameOK(f, B)
BY DEF FrameOK

LEMMA NextFrame ==
  ASSUME BindInv, stack # <<>>, NEW f, NextTop(f)
  PROVE  FrameOK(f, Attached)
<1>1. FrameOK(Top, Attached)
  BY TopRange DEF BindInv, DepthInv, HoldsInv
<1>2. f.kind = Top.kind /\ f.inst = Top.inst /\ Holds(f)
  BY DEF NextTop, SameOwner
<1> QED
  BY <1>1, <1>2 DEF FrameOK, Holds

LEMMA NewFrameOK ==
  ASSUME NEW n \in Nat \ {0}, NEW pc \in {"tls", "import"}, NEW A
  PROVE  FrameOK(LoadFrame(n, pc), A)
<1>1. pc \in Pc
  BY DEF Pc
<1> QED
  BY <1>1, NewFrame DEF FrameOK

LEMMA HoldsStep ==
  ASSUME BindInv, outcome = "running", Kinds, Attached \subseteq Attached'
  PROVE  HoldsInv'
<1>1. /\ ShapeInv /\ AttachedInv /\ HoldsInv /\ stack \in Seq(AnyFrame) /\ Len(insts) \in Nat
      /\ Shape(stack, Len(insts))
  BY World DEF BindInv, DepthInv, ShapeInv, Shape
<1>2. stack # <<>> => /\ Depth \in Nat \ {0} /\ Depth = Len(stack) /\ Top = stack[Depth]
                      /\ Top.inst \in 1..Len(insts) /\ Top \in AnyFrame
  BY <1>1, TopRange
<1>3. \A i \in 1..Len(stack) : FrameOK(stack[i], Attached')
  BY <1>1, FrameGrows DEF HoldsInv
<1>4. CASE Stops \/ Completes
  BY <1>3, <1>4 DEF Stops, Completes, HoldsInv
<1>5. CASE Goes
  <2>1. PICK f : NextTop(f) /\ stack' = Replace(f)
    BY <1>5 DEF Goes
  <2>2. stack # <<>> /\ f \in AnyFrame
    BY <1>5, <2>1 DEF Goes, NextTop
  <2>3. /\ Len(stack') = Depth /\ stack'[Depth] = f
        /\ \A i \in 1..(Depth - 1) : stack'[i] = stack[i]
    BY <1>1, <2>1, <2>2, ReplaceFrames
  <2>4. FrameOK(f, Attached')
    BY <2>1, <2>2, NextFrame, FrameGrows
  <2> QED
    BY <1>2, <1>3, <2>2, <2>3, <2>4 DEF HoldsInv
<1>6. CASE Calls
  <2>1. PICK f, g : /\ NextTop(f) /\ stack' = Push(Replace(f), g)
                    /\ g \in AnyFrame /\ g.kind \in {"guest", "call"}
    BY <1>6 DEF Calls
  <2>2. stack # <<>> /\ f \in AnyFrame
    BY <1>6, <2>1 DEF Calls, NextTop
  <2>3. /\ Len(stack') = Depth + 1 /\ stack'[Depth] = f /\ stack'[Depth + 1] = g
        /\ \A i \in 1..(Depth - 1) : stack'[i] = stack[i]
    BY <1>1, <2>1, <2>2, CallFrames
  <2>4. FrameOK(f, Attached') /\ FrameOK(g, Attached')
    <3>1. FrameOK(g, Attached')
      BY <2>1 DEF FrameOK
    <3> QED
      BY <2>1, <2>2, <3>1, NextFrame, FrameGrows
  <2> QED
    BY <1>2, <1>3, <2>2, <2>3, <2>4 DEF HoldsInv
<1>7. CASE Loads
  <2>1. PICK f : NextTop(f) /\ stack' = Push(Replace(f), LoadFrame(Len(insts) + 1, "tls"))
    BY <1>7 DEF Loads
  <2>2. stack # <<>> /\ f \in AnyFrame
    BY <1>7, <2>1 DEF Loads, NextTop
  <2>3. PICK g : g = LoadFrame(Len(insts) + 1, "tls")
    OBVIOUS
  <2>4. g \in AnyFrame /\ FrameOK(g, Attached')
    <3>1. Len(insts) + 1 \in Nat \ {0} /\ "tls" \in Pc
      BY <1>1 DEF Pc
    <3> QED
      BY <2>3, <3>1, NewFrame, NewFrameOK
  <2>5. /\ Len(stack') = Depth + 1 /\ stack'[Depth] = f /\ stack'[Depth + 1] = g
        /\ \A i \in 1..(Depth - 1) : stack'[i] = stack[i]
    BY <1>1, <2>1, <2>2, <2>3, <2>4, CallFrames
  <2>6. FrameOK(f, Attached')
    BY <2>1, <2>2, NextFrame, FrameGrows
  <2> QED
    BY <1>2, <1>3, <2>2, <2>4, <2>5, <2>6 DEF HoldsInv
<1>8. CASE Starts
  <2>1. PICK g : g = LoadFrame(1, "import")
    OBVIOUS
  <2>2. g \in AnyFrame /\ FrameOK(g, Attached')
    <3>1. 1 \in Nat \ {0} /\ "import" \in Pc
      BY DEF Pc
    <3> QED
      BY <2>1, <3>1, NewFrame, NewFrameOK
  <2>3. stack' = <<g>>
    BY <1>1, <1>8, <2>1 DEF Starts, Push, ShapeInv
  <2> QED
    BY <2>2, <2>3 DEF HoldsInv
<1>9. CASE Returns
  <2>1. Len(stack') = Depth - 1 /\ \A i \in 1..(Depth - 1) : stack'[i] = stack[i]
    BY <1>1, <1>9, PopFrames DEF Returns
  <2> QED
    BY <1>2, <1>3, <1>9, <2>1 DEF HoldsInv, Returns
<1>10. CASE outcome' = outcome /\ Attaches
  <2>1. PICK native \in SUBSET T!Pointer : stack' = Resume(native)
    BY <1>10 DEF Attaches
  <2>2. stack # <<>> /\ Top.kind = "load" /\ Top.inst # 1
    BY <1>10 DEF Attaches
  <2>3. /\ Depth > 1 /\ Below \in AnyFrame /\ Below = stack[Depth - 1]
        /\ Resumed(native) \in AnyFrame
    BY <1>1, <2>1, <2>2, ShapeResume
  <2>4. /\ Len(stack') = Depth - 1 /\ stack'[Depth - 1] = Resumed(native)
        /\ \A i \in 1..(Depth - 2) : stack'[i] = stack[i]
    BY <1>1, <2>1, <2>3, ResumeFrames
  <2>5. FrameOK(Resumed(native), Attached')
    <3>1. Top.inst \in Attached'
      BY <1>1, <1>10, AttachesTree
    <3>2. FrameOK(Top, Attached') /\ FrameOK(Below, Attached')
      BY <1>2, <1>3, <2>2, <2>3
    <3>3. PICK r : r = Resumed(native)
      OBVIOUS
    <3>4. r.kind = Below.kind /\ r.inst = Below.inst /\ r.res = Below.res /\ r.pc = "found"
          /\ r.loaded = Top.res
      BY <2>3, <3>3 DEF Resumed, AnyFrame
    <3>5. \A p \in Top.res : p.lib.handle = Top.inst
      BY <2>2, <3>2 DEF FrameOK, OwnEntry
    <3> QED
      BY <3>1, <3>2, <3>3, <3>4, <3>5 DEF FrameOK
  <2> QED
    BY <1>2, <1>3, <2>2, <2>3, <2>4, <2>5 DEF HoldsInv
<1> QED
  BY <1>4, <1>5, <1>6, <1>7, <1>8, <1>9, <1>10 DEF Kinds, Runs

LEMMA BindStep == BindInv /\ [Next]_vars => BindInv'
<1> SUFFICES ASSUME BindInv, [Next]_vars PROVE BindInv'
  OBVIOUS
<1>1. DepthInv'
  BY DepthStep DEF BindInv
<1>2. CASE Step
  <2>1. ShapeInv /\ AttachedInv /\ outcome = "running" /\ Kinds
    BY <1>2, StepKinds DEF BindInv, DepthInv, Step
  <2>2. Attached \subseteq Attached'
    BY <2>1, AttachedGrows
  <2>3. HoldsInv'
    BY <2>1, <2>2, HoldsStep
  <2>4. ProvidersInv'
    BY <2>1, <2>2, ProvidersStep
  <2> QED
    BY <1>1, <2>3, <2>4 DEF BindInv
<1>3. CASE UNCHANGED vars
  <2>1. UNCHANGED <<insts, stack>>
    BY <1>3 DEF vars
  <2> QED
    BY <1>1, <2>1 DEF BindInv, HoldsInv, ProvidersInv, Providers, Attached, IsAttached
<1> QED
  BY <1>2, <1>3 DEF Next, Ended

(* No import leads into a half-initialised DLL: what a module is bound to  *)
(* has been attached, whatever the import graph, whatever the entry points *)
(* load, and whichever call fails.                                         *)
THEOREM LoaderDependenciesAttached == Spec => []DependenciesAttached
<1>1. BindInv => DependenciesAttached
  <2> SUFFICES ASSUME BindInv, NEW n \in DOMAIN insts, NEW m \in Providers(n), m > 0
               PROVE  insts[m].phase = "attached"
    BY DEF DependenciesAttached
  <2>1. n \in 1..Len(insts)
    BY LenProperties DEF BindInv, DepthInv, ShapeInv, ImagesInv
  <2>2. m \in Attached
    BY <2>1 DEF BindInv, ProvidersInv
  <2> QED
    BY <2>2 DEF Attached, IsAttached
<1> QED
  BY <1>1, BindInit, BindStep, PTL DEF Spec

-----------------------------------------------------------------------------
(* The table: at most one entry is added in a step, and pointers come from *)
(* the table or from somebody who has them.                                *)
TableMoves ==
  \/ UNCHANGED <<libs, cap, block>>
  \/ \E lib \in T!Lib : T!Reallocate /\ libs' = Append(libs, lib)

HandlesMove ==
  handles' = handles \/ (Returns /\ handles' \subseteq handles \cup Ptrs(Top))

LEMMA RegisterMoves ==
  ASSUME NEW name \in ModName, NEW kind \in {"PE", "NATIVE"}, NEW handle \in Nat,
         Register(name, kind, handle)
  PROVE  TableMoves
<1>1. [name |-> name, kind |-> kind, handle |-> handle] \in T!Lib
  BY DEF T!Lib
<1> QED
  BY <1>1 DEF Register, TableMoves

LEMMA StepTable ==
  ASSUME ShapeInv, Step
  PROVE  TableMoves /\ HandlesMove
<1>1. CASE UNCHANGED <<libs, cap, block, handles>>
  BY <1>1 DEF TableMoves, HandlesMove
<1>2. CASE SearchNative
  <2>1. /\ Searching /\ Register(Want(Top), "NATIVE", 0) /\ handles' = handles
    BY <1>2 DEF SearchNative, Absent, guest
  <2>2. Want(Top) \in ModName /\ 0 \in Nat
    BY <2>1, TopRange, Wanted DEF Searching
  <2> QED
    BY <2>1, <2>2, RegisterMoves DEF HandlesMove
<1>3. CASE RegisterDll
  <2>1. /\ stack # <<>> /\ Top.pc = "register" /\ handles' = handles
        /\ Register(Dll(insts[Top.inst].image), "PE", Top.inst)
    BY <1>3 DEF RegisterDll, At, guest
  <2>2. Top.inst \in 1..Len(insts) /\ Top.inst # 1 /\ Top.inst \in Nat
    BY <2>1, TopRange, World DEF PcOK
  <2>3. Dll(insts[Top.inst].image) \in ModName
    BY <2>2 DEF ShapeInv, ImagesInv, Dll, ModName
  <2> QED
    BY <2>1, <2>2, <2>3, RegisterMoves DEF HandlesMove
<1>4. CASE ReturnToCaller
  <2>1. /\ stack # <<>> /\ Top.kind = "load" /\ Top.inst # 1 /\ handles' = handles
        /\ \/ UNCHANGED table
           \/ Register(Want(Below), "NATIVE", 0)
    BY <1>4 DEF ReturnToCaller, At, IsExe, guest
  <2>2. Want(Below) \in ModName /\ 0 \in Nat
    <3>1. PICK N \in Nat : N = Len(insts) /\ Shape(stack, N)
      BY World DEF ShapeInv
    <3>2. {} \in SUBSET T!Pointer
      OBVIOUS
    <3>3. Depth > 1 /\ Below = stack[Depth - 1] /\ Below.pc = "await"
      BY <2>1, <3>1, <3>2, ShapeResume
    <3>4. Depth - 1 \in 1..Len(stack)
      BY <2>1, <3>3, TopRange
    <3> QED
      BY <3>3, <3>4, Wanted
  <2> QED
    BY <2>1, <2>2, RegisterMoves DEF HandlesMove, TableMoves, table
<1>5. CASE LoadLibraryReturns
  BY <1>5 DEF LoadLibraryReturns, At, table, Returns, Ptrs, TableMoves, HandlesMove
<1>6. CASE Bind
  BY <1>1, <1>6 DEF Bind, table, guest
<1>7. CASE ExecuteStep
  <2>1. UNCHANGED <<libs, cap, block, handles>>
    BY <1>7 DEF ExecuteStep, ExecuteNotFound, ExecuteTrap, ExecuteFault, ExecuteBaseTaken,
         ExecuteRejected, ExecuteMap, Map, Stop, table, guest
  <2> QED
    BY <1>1, <2>1
<1>8. CASE \/ SearchHit \/ SearchLoad \/ SearchTrap \/ SearchRejected
           \/ SearchMapFails \/ SearchNoMemory \/ SearchMissing
  <2>1. UNCHANGED <<libs, cap, block, handles>>
    BY <1>8 DEF SearchHit, SearchLoad, SearchTrap, SearchRejected, SearchMapFails,
         SearchNoMemory, SearchMissing, Map, Stop, table, guest
  <2> QED
    BY <1>1, <2>1
<1>9. CASE \/ AllocateTls \/ TlsMapFails \/ TlsNoArray \/ TlsCallback \/ TlsDone
           \/ NextImport \/ ImportNotFound \/ BindTellsNull \/ BindStale \/ BindWrongType
  <2>1. UNCHANGED <<libs, cap, block, handles>>
    BY <1>9 DEF AllocateTls, TlsMapFails, TlsNoArray, TlsCallback, TlsDone, NextImport,
         ImportNotFound, BindTellsNull, BindStale, BindWrongType, Stop, table, guest
  <2> QED
    BY <1>1, <2>1
<1>10. CASE \/ ImportsDone \/ BoundDll \/ BoundExe \/ BoundExeFails
            \/ EntryZero \/ InvokeEntry \/ ReturnToMain
  <2>1. UNCHANGED <<libs, cap, block, handles>>
    BY <1>10 DEF ImportsDone, BoundDll, BoundExe, BoundExeFails, EntryZero, InvokeEntry,
         ReturnToMain, Stop, table, guest
  <2> QED
    BY <1>1, <2>1
<1>11. CASE GuestCallsImport \/ LoadLibraryW \/ UseHandle \/ GuestReturns \/ ExitProcess
  <2>1. UNCHANGED <<libs, cap, block, handles>>
    BY <1>11 DEF GuestCallsImport, LoadLibraryW, UseHandle, GuestReturns, ExitProcess, Stop,
         table, guest
  <2> QED
    BY <1>1, <2>1
<1> QED
  BY <1>2, <1>3, <1>4, <1>5, <1>6, <1>7, <1>8, <1>9, <1>10, <1>11
     DEF Step, SearchStep, LoadStep, GuestStep

(* Who holds a pointer after a step held it before, or it is the one the   *)
(* step hands out.                                                         *)
FramePointers == UNION {Ptrs(stack[i]) : i \in 1..Len(stack)}

LEMMA HeldIs == Held = handles \cup FramePointers
BY DEF Held, FramePointers, Ptrs

LEMMA FramePointersStep ==
  ASSUME ShapeInv, Kinds
  PROVE  FramePointers' \subseteq FramePointers \cup Fresh
<1>1. /\ stack \in Seq(AnyFrame) /\ Len(insts) \in Nat /\ Shape(stack, Len(insts))
      /\ Len(stack) \in Nat
  BY World, LenProperties DEF ShapeInv, Shape
<1>2. stack # <<>> => /\ Depth \in Nat \ {0} /\ Depth = Len(stack) /\ Top = stack[Depth]
                      /\ Top \in AnyFrame /\ Ptrs(Top) \subseteq FramePointers
  <2> SUFFICES ASSUME stack # <<>>
               PROVE  /\ Depth \in Nat \ {0} /\ Depth = Len(stack) /\ Top = stack[Depth]
                      /\ Top \in AnyFrame /\ Ptrs(Top) \subseteq FramePointers
    OBVIOUS
  <2>1. /\ Depth \in Nat \ {0} /\ Depth = Len(stack) /\ Top = stack[Depth]
        /\ Depth \in 1..Len(stack) /\ Top \in AnyFrame
    BY TopRange
  <2> QED
    BY <2>1 DEF FramePointers
<1>3. \A i \in 1..Len(stack) : Ptrs(stack[i]) \subseteq FramePointers
  BY DEF FramePointers
<1>4. SUFFICES \A i \in 1..Len(stack') : Ptrs(stack'[i]) \subseteq FramePointers \cup Fresh
  BY DEF FramePointers, Ptrs
<1>5. CASE Stops \/ Completes
  BY <1>3, <1>5 DEF Stops, Completes
<1>6. CASE Goes
  <2>1. PICK f : NextTop(f) /\ stack' = Replace(f)
    BY <1>6 DEF Goes
  <2>2. stack # <<>> /\ f \in AnyFrame /\ Ptrs(f) \subseteq Ptrs(Top) \cup Fresh
    BY <1>6, <2>1 DEF Goes, NextTop
  <2>3. /\ Len(stack') = Depth /\ stack'[Depth] = f
        /\ \A i \in 1..(Depth - 1) : stack'[i] = stack[i]
    BY <1>1, <2>1, <2>2, ReplaceFrames
  <2> QED
    BY <1>2, <1>3, <2>2, <2>3
<1>7. CASE Calls
  <2>1. PICK f, g : /\ NextTop(f) /\ stack' = Push(Replace(f), g)
                    /\ g \in AnyFrame /\ Ptrs(g) = {}
    BY <1>7 DEF Calls
  <2>2. stack # <<>> /\ f \in AnyFrame /\ Ptrs(f) \subseteq Ptrs(Top) \cup Fresh
    BY <1>7, <2>1 DEF Calls, NextTop
  <2>3. /\ Len(stack') = Depth + 1 /\ stack'[Depth] = f /\ stack'[Depth + 1] = g
        /\ \A i \in 1..(Depth - 1) : stack'[i] = stack[i]
    BY <1>1, <2>1, <2>2, CallFrames
  <2> QED
    BY <1>2, <1>3, <2>1, <2>2, <2>3
<1>8. CASE Loads
  <2>1. PICK f : NextTop(f) /\ stack' = Push(Replace(f), LoadFrame(Len(insts) + 1, "tls"))
    BY <1>8 DEF Loads
  <2>2. stack # <<>> /\ f \in AnyFrame /\ Ptrs(f) \subseteq Ptrs(Top) \cup Fresh
    BY <1>8, <2>1 DEF Loads, NextTop
  <2>3. PICK g : g = LoadFrame(Len(insts) + 1, "tls")
    OBVIOUS
  <2>4. g \in AnyFrame /\ Ptrs(g) = {}
    <3>1. Len(insts) + 1 \in Nat \ {0} /\ "tls" \in Pc
      BY <1>1 DEF Pc
    <3> QED
      BY <2>3, <3>1, NewFrame DEF Ptrs
  <2>5. /\ Len(stack') = Depth + 1 /\ stack'[Depth] = f /\ stack'[Depth + 1] = g
        /\ \A i \in 1..(Depth - 1) : stack'[i] = stack[i]
    BY <1>1, <2>1, <2>2, <2>3, <2>4, CallFrames
  <2> QED
    BY <1>2, <1>3, <2>2, <2>4, <2>5
<1>9. CASE Starts
  <2>1. PICK g : g = LoadFrame(1, "import")
    OBVIOUS
  <2>2. g \in AnyFrame /\ Ptrs(g) = {}
    <3>1. 1 \in Nat \ {0} /\ "import" \in Pc
      BY DEF Pc
    <3> QED
      BY <2>1, <3>1, NewFrame DEF Ptrs
  <2>3. stack' = <<g>>
    BY <1>1, <1>9, <2>1 DEF Starts, Push, ShapeInv
  <2> QED
    BY <2>2, <2>3
<1>10. CASE Returns
  <2>1. Len(stack') = Depth - 1 /\ \A i \in 1..(Depth - 1) : stack'[i] = stack[i]
    BY <1>1, <1>10, PopFrames DEF Returns
  <2> QED
    BY <1>2, <1>3, <1>10, <2>1 DEF Returns
<1>11. CASE Attaches
  <2>1. PICK native \in SUBSET T!Pointer : stack' = Resume(native) /\ native \subseteq Fresh
    BY <1>11 DEF Attaches
  <2>2. stack # <<>> /\ Top.kind = "load" /\ Top.inst # 1
    BY <1>11 DEF Attaches
  <2>3. /\ Depth > 1 /\ Below \in AnyFrame /\ Below = stack[Depth - 1]
        /\ Resumed(native) \in AnyFrame
    BY <1>1, <2>1, <2>2, ShapeResume
  <2>4. /\ Len(stack') = Depth - 1 /\ stack'[Depth - 1] = Resumed(native)
        /\ \A i \in 1..(Depth - 2) : stack'[i] = stack[i]
    BY <1>1, <2>1, <2>3, ResumeFrames
  <2>5. Ptrs(Resumed(native)) \subseteq Ptrs(Below) \cup Ptrs(Top) \cup Fresh
    <3>1. PICK r : r = Resumed(native)
      OBVIOUS
    <3>2. r.res = Below.res /\ r.loaded = Top.res /\ r.native = native
      BY <2>3, <3>1 DEF Resumed, AnyFrame
    <3> QED
      BY <2>1, <3>1, <3>2 DEF Ptrs
  <2>6. Ptrs(Below) \subseteq FramePointers
    BY <1>2, <1>3, <2>2, <2>3
  <2> QED
    BY <1>2, <1>3, <2>2, <2>3, <2>4, <2>5, <2>6
<1> QED
  BY <1>5, <1>6, <1>7, <1>8, <1>9, <1>10, <1>11 DEF Kinds, Runs

LEMMA HeldStep ==
  ASSUME ShapeInv, Kinds, HandlesMove
  PROVE  Held' \subseteq Held \cup Fresh
<1>1. stack # <<>> => Ptrs(Top) \subseteq FramePointers
  BY TopRange DEF FramePointers
<1>2. handles' \subseteq handles \cup FramePointers
  BY <1>1 DEF HandlesMove, Returns
<1>3. Held' = handles' \cup FramePointers'
  BY DEF Held, FramePointers, Ptrs
<1> QED
  BY <1>2, <1>3, HeldIs, FramePointersStep

LEMMA TableStepMaps ==
  ASSUME ShapeInv, [Next]_vars
  PROVE  [T!TableNext]_(T!tableVars)
<1>1. CASE Step
  <2>1. TableMoves /\ Held' \subseteq Held \cup Fresh
    BY <1>1, StepTable, StepKinds, HeldStep
  <2>2. CASE \E lib \in T!Lib : T!Reallocate /\ libs' = Append(libs, lib)
    <3>1. PICK lib \in T!Lib : T!Reallocate /\ libs' = Append(libs, lib)
      BY <2>2
    <3>2. libs' # libs
      BY <3>1 DEF ShapeInv, TableInv
    <3>3. Held' \in SUBSET (Held \cup {T!PointerTo(block', Len(libs'), libs')})
      BY <2>1, <3>2 DEF Fresh, PointerTo
    <3>4. T!AddLoadedLib(lib)
      BY <3>1, <3>3 DEF T!AddLoadedLib, T!Retain
    <3> QED
      BY <3>4 DEF T!TableNext
  <2>3. CASE UNCHANGED <<libs, cap, block>> /\ FoundNow
    <3>1. Key(Top) \in ModName
      <4>1. stack # <<>> /\ Top.pc = "search"
        BY <2>3 DEF FoundNow, Searching
      <4>2. Want(Top) \in ModName /\ Top.kind \in {"load", "call"}
        BY <4>1, TopRange, Wanted
      <4> QED
        BY <4>2 DEF Key, Want, Cut4, ModName
    <3>2. PICK key \in ModName : key = Key(Top)
      BY <3>1
    <3>3. T!Find(libs, key) # 0
      BY <2>3, <3>2 DEF FoundNow
    <3>4. Held' \in SUBSET (Held \cup {T!PointerTo(block, T!Find(libs, key), libs)})
      BY <2>1, <2>3, <3>2 DEF Fresh
    <3>5. T!GetLib(key)
      BY <2>3, <3>3, <3>4 DEF T!GetLib, T!Retain
    <3> QED
      BY <3>5 DEF T!TableNext
  <2>4. CASE UNCHANGED <<libs, cap, block>> /\ ~ FoundNow
    <3>1. Held' \in SUBSET Held
      BY <2>1, <2>4 DEF Fresh
    <3>2. T!Forget
      BY <2>4, <3>1 DEF T!Forget
    <3> QED
      BY <3>2 DEF T!TableNext
  <2> QED
    BY <2>1, <2>2, <2>3, <2>4 DEF TableMoves
<1>2. CASE UNCHANGED vars
  <2>1. UNCHANGED <<libs, cap, block, handles, stack>>
    BY <1>2 DEF vars, table, guest
  <2> QED
    BY <2>1 DEF T!tableVars, Held
<1> QED
  BY <1>1, <1>2 DEF Next, Ended

(* The loader implements LibTable: it adds entries, finds them and forgets *)
(* pointers, and does nothing else to the table or with a pointer.  What   *)
(* is proved of LibTable holds of every program that is loaded.            *)
THEOREM LoaderUsesTable == Spec => T!TableSpec
<1>1. Init => T!TableInit
  <2> SUFFICES ASSUME Init PROVE T!TableInit
    OBVIOUS
  <2>1. libs = <<>> /\ cap = 0 /\ block = 0 /\ handles = {} /\ stack = <<>>
    BY DEF Init
  <2>2. Held = {}
    BY <2>1 DEF Held
  <2> QED
    BY <2>1, <2>2 DEF T!TableInit
<1>2. Spec => []ShapeInv
  BY ShapeAlways
<1> QED
  BY <1>1, <1>2, TableStepMaps, PTL DEF Spec, T!TableSpec
-----------------------------------------------------------------------------
(* A module has its slot from the moment its load frame is past            *)
(* allocate_tls.  The executable binds its imports before, a DLL after.    *)
Begun == {"entered", "attached"}
PastTls(f) ==
  /\ f.kind = "load"
  /\ \/ f.pc \in {"callbacks", "register", "entry", "return"}
     \/ f.inst # 1 /\ f.pc # "tls"

Slotted(n) == ImageOf(n).tls = NoTls \/ insts[n].tls # -1

OwnSlots ==
  \A n \in 1..Len(insts) :
    /\ insts[n].tls \in -1..(tlsIndex - 1)
    /\ insts[n].tls # -1 => \A m \in 1..Len(insts) : m # n => insts[m].tls # insts[n].tls

SlotInv ==
  /\ OwnSlots
  /\ \A n \in 1..Len(insts) : insts[n].phase \in Begun => Slotted(n)
  /\ \A i \in 1..Len(stack) : PastTls(stack[i]) => Slotted(stack[i].inst)

(* A step keeps the slots or gives the top frame's module the next one; it *)
(* begins a module whose frame is past allocate_tls, and a frame gets past *)
(* it with a slot.                                                         *)
SlotsKept ==
  tlsIndex' = tlsIndex /\ \A n \in 1..Len(insts) : insts'[n].tls = insts[n].tls

SlotTaken ==
  /\ stack # <<>> /\ tlsIndex' = tlsIndex + 1
  /\ insts'[Top.inst].tls = tlsIndex
  /\ \A n \in 1..Len(insts) : n # Top.inst => insts'[n].tls = insts[n].tls
  /\ Len(insts') = Len(insts)

PhasesMove ==
  \A n \in 1..Len(insts) :
    insts'[n].phase \in Begun /\ insts'[n].phase # insts[n].phase =>
      stack # <<>> /\ n = Top.inst /\ PastTls(Top)

FrameMoves ==
  stack # <<>> /\ Depth \in 1..Len(stack') /\ PastTls(stack'[Depth]) =>
    PastTls(Top) \/ \E n \in 1..Len(insts) : n = Top.inst /\ Slotted(n)'

SlotStep == (SlotsKept \/ SlotTaken) /\ PhasesMove /\ FrameMoves

(* The frame in the place of the top one after a step.                     *)
LEMMA Wider ==
  ASSUME NEW S, NEW R, S \subseteq R, NEW s \in Seq(S)
  PROVE  s \in Seq(R)
<1>1. PICK k \in Nat : s \in [1..k -> S]
  BY SeqDef
<1>2. s \in [1..k -> R]
  BY <1>1
<1> QED
  BY <1>2, SeqDef

LEMMA TopAfter ==
  ASSUME ShapeInv, stack # <<>>, NEW f,
         stack' = Replace(f) \/ \E g : stack' = Push(Replace(f), g)
  PROVE  stack'[Depth] = f
<1>1. stack \in Seq(AnyFrame) /\ Depth \in Nat \ {0}
  BY TopRange DEF ShapeInv, Shape
<1>2. CASE stack' = Replace(f)
  <2>1. PICK R : R = AnyFrame \cup {f}
    OBVIOUS
  <2>2. stack \in Seq(R) /\ f \in R
    BY <1>1, <2>1, Wider
  <2> QED
    BY <1>2, <2>2, ReplaceFrames
<1>3. CASE \E g : stack' = Push(Replace(f), g)
  <2>1. PICK g : stack' = Push(Replace(f), g)
    BY <1>3
  <2>2. PICK R : R = AnyFrame \cup {f, g}
    OBVIOUS
  <2>3. stack \in Seq(R) /\ f \in R /\ g \in R
    BY <1>1, <2>2, Wider
  <2>4. Replace(f) \in Seq(R) /\ Len(Replace(f)) = Depth /\ Replace(f)[Depth] = f
    BY <2>3, ReplaceFrames
  <2>5. PICK r \in Seq(R) : r = Replace(f)
    BY <2>4
  <2>6. \A i \in 1..Len(r) : Push(r, g)[i] = r[i]
    BY <2>3, <2>5, AppendProperties DEF Push
  <2> QED
    BY <1>1, <2>1, <2>4, <2>5, <2>6
<1> QED
  BY <1>2, <1>3

LEMMA TopStays ==
  ASSUME ShapeInv, stack # <<>>, stack' = stack \/ \E g : stack' = Push(stack, g)
  PROVE  stack'[Depth] = Top
<1>1. Shape(stack, Len(insts)) /\ Len(insts) \in Nat /\ Depth = Len(stack) /\ Top = stack[Depth]
  BY World, TopRange DEF ShapeInv
<1>2. Replace(Top) = stack
  BY <1>1, ReplaceTop
<1> QED
  BY <1>1, <1>2, TopAfter

(* A frame that is not at allocate_tls moves on.                           *)
LEMMA FrameOn ==
  ASSUME NEW f, f = stack'[Depth], f.kind = Top.kind, f.inst = Top.inst,
         \/ f.pc = Top.pc
         \/ Top.pc \in {"callbacks", "register", "entry"}
         \/ /\ Top.pc # "tls"
            /\ f.inst # 1 \/ f.pc \notin {"callbacks", "register", "entry", "return"}
  PROVE  FrameMoves
BY DEF FrameMoves, PastTls

LEMMA FrameKept ==
  ASSUME ShapeInv, stack' = stack \/ \E g : stack' = Push(stack, g)
  PROVE  FrameMoves
<1>1. stack # <<>> => stack'[Depth] = Top
  BY TopStays
<1> QED
  BY <1>1 DEF FrameMoves

LEMMA SameSlots ==
  ASSUME insts' = insts, tlsIndex' = tlsIndex
  PROVE  SlotsKept /\ PhasesMove
BY DEF SlotsKept, PhasesMove

LEMMA MoreSlots ==
  ASSUME ShapeInv, NEW s \in DOMAIN world.img, NEW parent \in Nat,
         insts' = Append(insts, Instance(s, parent)), tlsIndex' = tlsIndex
  PROVE  SlotsKept /\ PhasesMove
<1>1. \A n \in 1..Len(insts) : insts'[n] = insts[n]
  BY InstanceAdded
<1> QED
  BY <1>1 DEF SlotsKept, PhasesMove

LEMMA PhaseSlots ==
  ASSUME ShapeInv, stack # <<>>, NEW phase \in Loading, insts' = SetPhase(Top.inst, phase),
         tlsIndex' = tlsIndex, phase \in Begun => PastTls(Top)
  PROVE  SlotsKept /\ PhasesMove
<1>1. Top.inst \in 1..Len(insts) /\ insts[Top.inst] \in AnyInstance
  BY TopRange, World
<1>2. /\ insts'[Top.inst] = [insts[Top.inst] EXCEPT !.phase = phase]
      /\ \A m \in 1..Len(insts) : m # Top.inst => insts'[m] = insts[m]
  BY <1>1, PhaseSet
<1>3. insts'[Top.inst].tls = insts[Top.inst].tls /\ insts'[Top.inst].phase = phase
  BY <1>1, <1>2 DEF AnyInstance
<1> QED
  BY <1>2, <1>3 DEF SlotsKept, PhasesMove

LEMMA StopSlots ==
  ASSUME ShapeInv, UNCHANGED <<stack, insts, tlsIndex>>
  PROVE  SlotStep
BY SameSlots, FrameKept DEF SlotStep

(* The actions of load_dll_library and invoke_entry that only set fields   *)
(* of the top frame.                                                       *)
LEMMA FieldSlots ==
  ASSUME ShapeInv, stack # <<>>, UNCHANGED <<insts, tlsIndex>>,
         NEW f, f.kind = Top.kind, f.inst = Top.inst,
         stack' = Replace(f) \/ \E g : stack' = Push(Replace(f), g),
         \/ f.pc = Top.pc
         \/ Top.pc \in {"callbacks", "register", "entry"}
         \/ /\ Top.pc # "tls"
            /\ f.inst # 1 \/ f.pc \notin {"callbacks", "register", "entry", "return"}
  PROVE  SlotStep
<1>1. f = stack'[Depth]
  BY TopAfter
<1> QED
  BY <1>1, FrameOn, SameSlots DEF SlotStep

LEMMA ExecuteSlots ==
  ASSUME ShapeInv, ExecuteStep
  PROVE  SlotStep
<1>1. CASE ExecuteMap
  <2>1. /\ stack = <<>> /\ Exe \in DOMAIN world.img /\ tlsIndex' = tlsIndex
        /\ insts' = insts \/ insts' = Append(insts, Instance(Exe, 0))
    BY <1>1 DEF ExecuteMap, PastTrap, Executing, Starting, Map, Stop, process
  <2>2. SlotsKept /\ PhasesMove
    <3>1. 0 \in Nat
      OBVIOUS
    <3> QED
      BY <2>1, <3>1, SameSlots, MoreSlots
  <2> QED
    BY <2>1, <2>2 DEF SlotStep, FrameMoves
<1>2. CASE ~ ExecuteMap
  <2>1. UNCHANGED <<stack, insts, tlsIndex>>
    BY <1>2 DEF ExecuteStep, ExecuteNotFound, ExecuteTrap, ExecuteFault, ExecuteBaseTaken,
         ExecuteRejected, Stop, process
  <2> QED
    BY <2>1, StopSlots
<1> QED
  BY <1>1, <1>2

LEMMA SearchSlots ==
  ASSUME ShapeInv, SearchStep
  PROVE  SlotStep
<1>1. stack # <<>> /\ Top.pc = "search" /\ Top \in AnyFrame
  BY TopRange DEF SearchStep, SearchHit, SearchLoad, SearchTrap, SearchRejected,
     SearchMapFails, SearchNoMemory, SearchNative, SearchMissing, Absent, Searching
<1>2. CASE SearchTrap \/ SearchMapFails
  <2>1. UNCHANGED <<stack, insts, tlsIndex>>
    BY <1>2 DEF SearchTrap, SearchMapFails, Stop, process
  <2> QED
    BY <2>1, StopSlots
<1>3. CASE SearchHit
  <2> DEFINE l == {T!PointerTo(block, T!Find(libs, Key(Top)), libs)}
             f == [Top EXCEPT !.pc = "found", !.loaded = l]
  <2>1. stack' = Replace(f) /\ UNCHANGED <<insts, tlsIndex>>
    BY <1>3 DEF SearchHit, process
  <2> HIDE DEF l
  <2>2. f.kind = Top.kind /\ f.inst = Top.inst /\ f.pc = "found"
    BY <1>1 DEF AnyFrame
  <2> HIDE DEF f
  <2> QED
    BY <1>1, <2>1, <2>2, FieldSlots
<1>4. CASE SearchRejected \/ SearchNoMemory \/ SearchMissing
  <2> DEFINE f == [Top EXCEPT !.pc = "found"]
  <2>1. stack' = Replace(f) /\ UNCHANGED <<insts, tlsIndex>>
    BY <1>4 DEF SearchRejected, SearchNoMemory, SearchMissing, process
  <2>2. f.kind = Top.kind /\ f.inst = Top.inst /\ f.pc = "found"
    BY <1>1 DEF AnyFrame
  <2> HIDE DEF f
  <2> QED
    BY <1>1, <2>1, <2>2, FieldSlots
<1>5. CASE SearchNative
  <2> DEFINE l == {PointerTo(Len(libs'))}
             f == [Top EXCEPT !.pc = "found", !.native = l]
  <2>1. stack' = Replace(f) /\ UNCHANGED <<insts, tlsIndex>>
    BY <1>5 DEF SearchNative, process
  <2> HIDE DEF l
  <2>2. f.kind = Top.kind /\ f.inst = Top.inst /\ f.pc = "found"
    BY <1>1 DEF AnyFrame
  <2> HIDE DEF f
  <2> QED
    BY <1>1, <2>1, <2>2, FieldSlots
<1>6. CASE SearchLoad
  <2> DEFINE f == [Top EXCEPT !.pc = "await"]
             s == Want(Top).stem
  <2>1. /\ s \in DOMAIN world.img /\ tlsIndex' = tlsIndex
        /\ \/ UNCHANGED <<stack, insts>>
           \/ /\ insts' = Append(insts, Instance(s, Top.inst))
              /\ \E g : stack' = Push(Replace(f), g)
    BY <1>6 DEF SearchLoad, FileThere, Map, Stop, process
  <2>2. f.kind = Top.kind /\ f.inst = Top.inst /\ f.pc = "await" /\ Top.inst \in Nat
    BY <1>1 DEF AnyFrame
  <2> HIDE DEF f, s
  <2>3. CASE UNCHANGED <<stack, insts>>
    BY <2>1, <2>3, StopSlots
  <2>4. CASE insts' = Append(insts, Instance(s, Top.inst)) /\ \E g : stack' = Push(Replace(f), g)
    <3>1. SlotsKept /\ PhasesMove
      BY <2>1, <2>2, <2>4, MoreSlots
    <3>2. f = stack'[Depth]
      BY <1>1, <2>4, TopAfter
    <3> QED
      BY <1>1, <2>2, <3>1, <3>2, FrameOn DEF SlotStep
  <2> QED
    BY <2>1, <2>3, <2>4
<1> QED
  BY <1>2, <1>3, <1>4, <1>5, <1>6 DEF SearchStep

LEMMA AllocateSlots ==
  ASSUME ShapeInv, AllocateTls \/ TlsMapFails \/ TlsNoArray \/ TlsCallback \/ TlsDone
  PROVE  SlotStep
<1>1. /\ stack # <<>> /\ Top.kind = "load" /\ Top \in AnyFrame
      /\ Top.inst \in 1..Len(insts) /\ tlsIndex \in Nat
  BY TopRange DEF At, AllocateTls, TlsMapFails, TlsNoArray, TlsCallback, TlsDone, ShapeInv, TableInv
<1>2. CASE TlsMapFails \/ TlsNoArray
  <2>1. UNCHANGED <<stack, insts, tlsIndex>>
    BY <1>2 DEF TlsMapFails, TlsNoArray, Stop, process
  <2> QED
    BY <2>1, StopSlots
<1>3. CASE TlsCallback
  <2> DEFINE f == [Top EXCEPT !.cb = Top.cb + 1]
  <2>1. /\ \E g : stack' = Push(Replace(f), g)
        /\ UNCHANGED <<insts, tlsIndex>>
    BY <1>3 DEF TlsCallback, process
  <2>2. f.kind = Top.kind /\ f.inst = Top.inst /\ f.pc = Top.pc
    BY <1>1 DEF AnyFrame
  <2> HIDE DEF f
  <2> QED
    BY <1>1, <2>1, <2>2, FieldSlots
<1> DEFINE pc == IF IsExe(Top) THEN "entry" ELSE "register"
           f == [Top EXCEPT !.pc = pc]
<1>4. f.kind = Top.kind /\ f.inst = Top.inst /\ f.pc = pc
  BY <1>1 DEF AnyFrame
<1>5. CASE TlsDone
  <2>1. stack' = Replace(f) /\ UNCHANGED <<insts, tlsIndex>> /\ Top.pc = "callbacks"
    BY <1>5 DEF TlsDone, process, At
  <2> HIDE DEF f, pc
  <2> QED
    BY <1>1, <1>4, <2>1, FieldSlots
<1>6. CASE AllocateTls
  <2>1. CASE ImageOf(Top.inst).tls = NoTls
    <3>1. UNCHANGED <<insts, tlsIndex, world>>
      BY <1>6, <2>1 DEF AllocateTls, process
    <3>2. PICK n \in 1..Len(insts) : n = Top.inst
      BY <1>1
    <3>3. Slotted(n)'
      BY <2>1, <3>1, <3>2 DEF Slotted, ImageOf
    <3> QED
      BY <3>1, <3>2, <3>3, SameSlots DEF SlotStep, FrameMoves
  <2>2. CASE ImageOf(Top.inst).tls # NoTls /\ TlsFull
    <3>1. UNCHANGED <<stack, insts, tlsIndex>>
      BY <1>6, <2>2 DEF AllocateTls, Stop, process
    <3> QED
      BY <3>1, StopSlots
  <2>3. CASE ImageOf(Top.inst).tls # NoTls /\ ~ TlsFull
    <3>1. /\ tlsIndex' = tlsIndex + 1
          /\ insts' = [insts EXCEPT ![Top.inst].tls = tlsIndex]
      BY <1>6, <2>3 DEF AllocateTls
    <3>2. PICK n \in 1..Len(insts), slot \in Int : n = Top.inst /\ slot = tlsIndex
      BY <1>1
    <3>3. /\ Quiet /\ insts'[n].tls = slot
          /\ \A m \in 1..Len(insts) : m # n => insts'[m] = insts[m]
      <4>1. insts' = [insts EXCEPT ![n].tls = slot]
        BY <3>1, <3>2
      <4> QED
        BY <4>1, SlotSet
    <3>4. insts'[n].phase = insts[n].phase
      <4>1. insts[n] \in AnyInstance /\ insts' = [insts EXCEPT ![n] = [insts[n] EXCEPT !.tls = slot]]
        BY <3>1, <3>2, World
      <4>2. [insts[n] EXCEPT !.tls = slot] \in AnyInstance /\ [insts[n] EXCEPT !.tls = slot].phase = insts[n].phase
        BY <4>1 DEF AnyInstance
      <4> QED
        BY <4>1, <4>2, InstanceChanged
    <3>5. SlotTaken /\ PhasesMove
      BY <1>1, <3>1, <3>2, <3>3, <3>4 DEF SlotTaken, PhasesMove, Quiet, SameImages
    <3>6. Slotted(n)'
      BY <1>1, <3>2, <3>3 DEF Slotted
    <3> QED
      BY <3>2, <3>5, <3>6 DEF SlotStep, FrameMoves
  <2> QED
    BY <2>1, <2>2, <2>3
<1> QED
  BY <1>2, <1>3, <1>5, <1>6

(* The actions of process_imports.                                         *)
LEMMA ImportSlots ==
  ASSUME ShapeInv, RegisterDll \/ NextImport \/ ImportNotFound \/ ImportsDone
  PROVE  SlotStep
<1>1. /\ stack # <<>> /\ Top.kind = "load" /\ Top \in AnyFrame
      /\ Top.pc \in {"register", "import", "found"} /\ UNCHANGED <<insts, tlsIndex>>
  BY TopRange DEF At, RegisterDll, NextImport, ImportNotFound, ImportsDone, process
<1>2. \E f : /\ stack' = Replace(f) /\ f.kind = Top.kind /\ f.inst = Top.inst
             /\ f.pc \in {"import", "search", "bound"}
  <2>1. CASE RegisterDll
    <3> DEFINE l == {PointerTo(Len(libs'))}
               f == [Top EXCEPT !.pc = "import", !.res = l]
    <3>1. stack' = Replace(f)
      BY <2>1 DEF RegisterDll
    <3> HIDE DEF l
    <3>2. f.kind = Top.kind /\ f.inst = Top.inst /\ f.pc = "import"
      BY <1>1 DEF AnyFrame
    <3> QED
      BY <3>1, <3>2
  <2>2. CASE NextImport
    <3> DEFINE f == [Top EXCEPT !.pc = "search", !.loaded = {}, !.native = {}]
    <3>1. stack' = Replace(f) /\ f.kind = Top.kind /\ f.inst = Top.inst /\ f.pc = "search"
      BY <1>1, <2>2 DEF NextImport, AnyFrame
    <3> QED
      BY <3>1
  <2>3. CASE ImportNotFound
    <3> DEFINE f == [Top EXCEPT !.pc = "import", !.imp = Top.imp + 1, !.status = "NOT_FOUND"]
    <3>1. stack' = Replace(f) /\ f.kind = Top.kind /\ f.inst = Top.inst /\ f.pc = "import"
      BY <1>1, <2>3 DEF ImportNotFound, AnyFrame
    <3> QED
      BY <3>1
  <2>4. CASE ImportsDone
    <3> DEFINE f == [Top EXCEPT !.pc = "bound", !.loaded = {}, !.native = {}]
    <3>1. stack' = Replace(f) /\ f.kind = Top.kind /\ f.inst = Top.inst /\ f.pc = "bound"
      BY <1>1, <2>4 DEF ImportsDone, AnyFrame
    <3> QED
      BY <3>1
  <2> QED
    BY <2>1, <2>2, <2>3, <2>4
<1>3. PICK f : /\ stack' = Replace(f) /\ f.kind = Top.kind /\ f.inst = Top.inst
               /\ f.pc \in {"import", "search", "bound"}
  BY <1>2
<1> QED
  BY <1>1, <1>3, FieldSlots

LEMMA BindSlots ==
  ASSUME ShapeInv, outcome = "running", Bind
  PROVE  SlotStep
<1>1. /\ stack # <<>> /\ Top.kind = "load" /\ Top \in AnyFrame /\ Top.pc = "found"
      /\ Top.inst \in 1..Len(insts) /\ tlsIndex' = tlsIndex
  BY TopRange DEF At, Bind, Binding
<1>2. /\ insts'[Top.inst] = [insts[Top.inst] EXCEPT !.iat = [@ EXCEPT ![Top.imp] = BoundSlots]]
      /\ \A m \in 1..Len(insts) : m # Top.inst => insts'[m] = insts[m]
  BY BindKinds
<1>3. insts'[Top.inst].tls = insts[Top.inst].tls /\ insts'[Top.inst].phase = insts[Top.inst].phase
  <2>1. insts[Top.inst] \in AnyInstance
    BY <1>1, World
  <2> QED
    BY <1>2, <2>1 DEF AnyInstance
<1>4. SlotsKept /\ PhasesMove
  BY <1>1, <1>2, <1>3 DEF SlotsKept, PhasesMove
<1>5. \E f : /\ stack' = Replace(f) /\ f.kind = Top.kind /\ f.inst = Top.inst
             /\ f.pc \in {"import", "bound"}
  <2> DEFINE invalid == Served(Top, Reqs) # DOMAIN Reqs
             missing == \E j \in Served(Top, Reqs) : Missing(Top, Reqs[j])
             f == [Top EXCEPT !.pc = "bound", !.status = "INVALID"]
             g == [Top EXCEPT !.pc = "import", !.imp = Top.imp + 1,
                              !.status = IF missing THEN "NOT_FOUND" ELSE @]
  <2>1. stack' = Replace(IF invalid THEN f ELSE g)
    BY DEF Bind
  <2> HIDE DEF invalid, missing
  <2>2. f.kind = Top.kind /\ f.inst = Top.inst /\ f.pc = "bound"
    BY <1>1 DEF AnyFrame
  <2>3. g.kind = Top.kind /\ g.inst = Top.inst /\ g.pc = "import"
    BY <1>1 DEF AnyFrame
  <2> HIDE DEF f, g
  <2> QED
    BY <2>1, <2>2, <2>3
<1>6. PICK f : /\ stack' = Replace(f) /\ f.kind = Top.kind /\ f.inst = Top.inst
               /\ f.pc \in {"import", "bound"}
  BY <1>5
<1>7. f = stack'[Depth]
  BY <1>1, <1>6, TopAfter
<1> QED
  BY <1>1, <1>4, <1>6, <1>7, FrameOn DEF SlotStep

(* The actions that set a module's phase.                                  *)
LEMMA PhaseActions ==
  ASSUME ShapeInv, BoundDll \/ BoundExe \/ InvokeEntry
  PROVE  SlotStep
<1>1. /\ stack # <<>> /\ Top.kind = "load" /\ Top \in AnyFrame /\ Top.pc \in {"bound", "entry"}
      /\ Top.inst \in 1..Len(insts) /\ tlsIndex' = tlsIndex
  BY TopRange DEF At, BoundDll, BoundExe, InvokeEntry, process
<1>2. CASE BoundDll
  <2> DEFINE f == [Top EXCEPT !.pc = "entry"]
  <2>1. stack' = Replace(f) /\ insts' = SetPhase(Top.inst, "bound") /\ Top.inst # 1
    BY <1>2 DEF BoundDll, IsExe
  <2>2. f.kind = Top.kind /\ f.inst = Top.inst
    BY <1>1 DEF AnyFrame
  <2> HIDE DEF f
  <2>3. f = stack'[Depth] /\ "bound" \in Loading /\ "bound" \notin Begun /\ Top.pc = "bound"
    BY <1>1, <1>2, <2>1, TopAfter DEF Loading, Begun, BoundDll, At
  <2> QED
    BY <1>1, <2>1, <2>2, <2>3, FrameOn, PhaseSlots DEF SlotStep
<1>3. CASE BoundExe
  <2> DEFINE f == [Top EXCEPT !.pc = "tls"]
  <2>1. stack' = Replace(f) /\ insts' = SetPhase(Top.inst, "bound")
    BY <1>3 DEF BoundExe
  <2>2. f.kind = Top.kind /\ f.inst = Top.inst /\ f.pc = "tls"
    BY <1>1 DEF AnyFrame
  <2> HIDE DEF f
  <2>3. f = stack'[Depth] /\ "bound" \in Loading /\ "bound" \notin Begun /\ Top.pc = "bound"
    BY <1>1, <1>3, <2>1, TopAfter DEF Loading, Begun, BoundExe, At
  <2> QED
    BY <1>1, <2>1, <2>2, <2>3, FrameOn, PhaseSlots DEF SlotStep
<1>4. CASE InvokeEntry
  <2> DEFINE f == [Top EXCEPT !.pc = "return"]
  <2>1. /\ stack' = Push(Replace(f), GuestFrame(Top.inst)) /\ Top.pc = "entry"
        /\ insts' = SetPhase(Top.inst, "entered")
    BY <1>4 DEF InvokeEntry, At
  <2>2. f.kind = Top.kind /\ f.inst = Top.inst
    BY <1>1 DEF AnyFrame
  <2> HIDE DEF f
  <2>3. f = stack'[Depth] /\ "entered" \in Loading /\ PastTls(Top)
    BY <1>1, <2>1, TopAfter DEF Loading, PastTls
  <2> QED
    BY <1>1, <2>1, <2>2, <2>3, FrameOn, PhaseSlots DEF SlotStep
<1> QED
  BY <1>2, <1>3, <1>4

LEMMA ReturnSlots ==
  ASSUME ShapeInv, ReturnToMain \/ ReturnToCaller
  PROVE  SlotStep
<1>1. /\ stack # <<>> /\ Top.kind = "load" /\ Top.pc = "return"
      /\ tlsIndex' = tlsIndex /\ insts' = SetPhase(Top.inst, "attached")
  BY DEF At, ReturnToMain, ReturnToCaller, process
<1>2. PastTls(Top) /\ "attached" \in Loading
  BY <1>1 DEF PastTls, Loading
<1>3. SlotsKept /\ PhasesMove
  BY <1>1, <1>2, PhaseSlots
<1> QED
  BY <1>2, <1>3 DEF SlotStep, FrameMoves

LEMMA GuestSlots ==
  ASSUME ShapeInv, GuestStep
  PROVE  SlotStep
<1>1. /\ stack # <<>> /\ UNCHANGED <<insts, tlsIndex>>
      /\ \/ stack' = stack \/ stack' = Popped
         \/ \E g : stack' = Push(stack, g)
  BY DEF GuestStep, GuestCallsImport, LoadLibraryW, LoadLibraryReturns, UseHandle,
         GuestReturns, ExitProcess, Running, At, Stop, process
<1>2. CASE stack' = stack \/ \E g : stack' = Push(stack, g)
  BY <1>1, <1>2, FrameKept, SameSlots DEF SlotStep
<1>3. CASE stack' = Popped
  <2>1. stack \in Seq(AnyFrame) /\ Depth \in Nat
    BY <1>1, TopRange DEF ShapeInv, Shape
  <2>2. Len(stack') = Depth - 1
    BY <1>1, <1>3, <2>1, PopFrames
  <2> QED
    BY <1>1, <2>1, <2>2, SameSlots DEF SlotStep, FrameMoves
<1> QED
  BY <1>1, <1>2, <1>3

LEMMA StepSlots ==
  ASSUME ShapeInv, Step
  PROVE  SlotStep
<1>1. outcome = "running"
  BY DEF Step
<1>2. CASE BindTellsNull \/ BindStale \/ BindWrongType \/ BoundExeFails \/ EntryZero
  <2>1. UNCHANGED <<stack, insts, tlsIndex>>
    BY <1>2 DEF BindTellsNull, BindStale, BindWrongType, BoundExeFails, EntryZero, Stop, process
  <2> QED
    BY <2>1, StopSlots
<1>3. CASE LoadStep
  BY <1>1, <1>2, <1>3, AllocateSlots, ImportSlots, BindSlots, PhaseActions, ReturnSlots DEF LoadStep
<1> QED
  BY <1>3, ExecuteSlots, SearchSlots, GuestSlots DEF Step

(* A slot is not lost.                                                     *)
LEMMA SlottedStays ==
  ASSUME ShapeInv, Kinds, Kept, SlotStep, NEW n \in 1..Len(insts), Slotted(n)
  PROVE  Slotted(n)'
<1>1. insts'[n].image = insts[n].image /\ world' = world
  <2>1. CASE SameImages
    BY <2>1 DEF SameImages, Kept
  <2>2. CASE \E s \in DOMAIN world.img, parent \in Nat : insts' = Append(insts, Instance(s, parent))
    BY <2>2, InstanceAdded DEF Kept
  <2> QED
    BY <2>1, <2>2, ImagesGrow
<1>2. ImageOf(n)' = ImageOf(n)
  BY <1>1 DEF ImageOf
<1>3. insts[n].tls # -1 => insts'[n].tls # -1
  BY DEF SlotStep, SlotsKept, SlotTaken, ShapeInv, TableInv
<1> QED
  BY <1>2, <1>3 DEF Slotted

LEMMA OwnSlotsStep ==
  ASSUME ShapeInv, OwnSlots, Kinds, SlotStep
  PROVE  OwnSlots'
<1>1. tlsIndex \in Nat /\ Len(insts) \in Nat
  BY World DEF ShapeInv, TableInv
<1>2. CASE SlotTaken
  BY <1>1, <1>2 DEF SlotTaken, OwnSlots
<1>3. CASE SlotsKept /\ SameImages
  BY <1>1, <1>3 DEF SlotsKept, SameImages, OwnSlots
<1>4. CASE /\ SlotsKept
           /\ \E s \in DOMAIN world.img, parent \in Nat : insts' = Append(insts, Instance(s, parent))
  <2>1. PICK s \in DOMAIN world.img, parent \in Nat : insts' = Append(insts, Instance(s, parent))
    BY <1>4
  <2>2. Len(insts') = Len(insts) + 1 /\ insts'[Len(insts) + 1] = Instance(s, parent)
    BY <2>1, InstanceAdded
  <2>3. insts'[Len(insts) + 1].tls = -1
    BY <2>2 DEF Instance
  <2> QED
    BY <1>1, <1>4, <2>2, <2>3 DEF SlotsKept, OwnSlots
<1> QED
  BY <1>2, <1>3, <1>4, ImagesGrow DEF SlotStep

LEMMA BegunSlots ==
  ASSUME ShapeInv, SlotInv, Kinds, Kept, SlotStep
  PROVE  \A n \in 1..Len(insts') : insts'[n].phase \in Begun => Slotted(n)'
<1>1. ASSUME NEW n \in 1..Len(insts), insts'[n].phase \in Begun PROVE Slotted(n)'
  <2>1. insts[n].phase \in Begun \/ (stack # <<>> /\ n = Top.inst /\ PastTls(Top))
    BY <1>1 DEF SlotStep, PhasesMove
  <2>2. Slotted(n)
    BY <2>1, TopRange DEF SlotInv
  <2> QED
    BY <2>2, SlottedStays
<1>2. CASE SameImages
  BY <1>1, <1>2 DEF SameImages
<1>3. CASE \E s \in DOMAIN world.img, parent \in Nat : insts' = Append(insts, Instance(s, parent))
  <2>1. PICK s \in DOMAIN world.img, parent \in Nat : insts' = Append(insts, Instance(s, parent))
    BY <1>3
  <2>2. /\ Len(insts') = Len(insts) + 1 /\ insts'[Len(insts) + 1] = Instance(s, parent)
        /\ Len(insts) \in Nat
    BY <2>1, InstanceAdded
  <2>3. insts'[Len(insts) + 1].phase \notin Begun
    BY <2>2 DEF Instance, Begun
  <2> QED
    BY <1>1, <2>2, <2>3
<1> QED
  BY <1>2, <1>3, ImagesGrow

LEMMA StartFrame ==
  LET f == LoadFrame(1, "import")
  IN  f.kind = "load" /\ f.inst = 1 /\ f.pc = "import" /\ f.imp = 1 /\ f.status = "SUCCESS"
BY DEF LoadFrame

(* Where the frames of the stack come from.                                *)
FrameFrom(i) ==
  \/ i \in 1..Len(stack) /\ i # Depth /\ stack'[i] = stack[i]
  \/ stack # <<>> /\ i = Depth /\ stack'[i].kind = Top.kind /\ stack'[i].inst = Top.inst
  \/ stack # <<>> /\ i = Depth + 1 /\ (stack'[i].kind = "load" => stack'[i].pc = "tls")
  \/ /\ i \in 1..Len(stack) /\ i # Depth
     /\ stack[i].pc = "await" /\ stack'[i].pc = "found"
     /\ stack'[i].kind = stack[i].kind /\ stack'[i].inst = stack[i].inst
     /\ stack'[i].imp = stack[i].imp /\ stack'[i].status = stack[i].status
  \/ /\ stack = <<>> /\ i = 1
     /\ stack'[i] = LoadFrame(1, "import")

LEMMA FramesAfter ==
  ASSUME ShapeInv, Kinds
  PROVE  \A i \in 1..Len(stack') : FrameFrom(i)
<1>1. /\ stack \in Seq(AnyFrame) /\ Len(insts) \in Nat /\ Shape(stack, Len(insts))
  BY World DEF ShapeInv, Shape
<1>2. stack # <<>> => /\ Depth \in Nat \ {0} /\ Depth = Len(stack) /\ Top = stack[Depth]
  BY TopRange
<1>3. CASE Stops \/ Completes
  BY <1>2, <1>3 DEF Stops, Completes, FrameFrom
<1>4. CASE Goes
  <2>1. PICK f \in AnyFrame : SameOwner(f, Top) /\ stack' = Replace(f)
    BY <1>4 DEF Goes, NextTop
  <2>2. /\ Len(stack') = Depth /\ stack'[Depth] = f
        /\ \A i \in 1..(Depth - 1) : stack'[i] = stack[i]
    BY <1>1, <1>4, <2>1, ReplaceFrames DEF Goes
  <2> QED
    BY <1>2, <1>4, <2>1, <2>2 DEF Goes, FrameFrom, SameOwner
<1>5. CASE Calls
  <2>1. PICK f, g : /\ f \in AnyFrame /\ SameOwner(f, Top) /\ stack' = Push(Replace(f), g)
                    /\ g \in AnyFrame /\ g.kind \in {"guest", "call"}
    BY <1>5 DEF Calls, NextTop
  <2>2. /\ Len(stack') = Depth + 1 /\ stack'[Depth] = f /\ stack'[Depth + 1] = g
        /\ \A i \in 1..(Depth - 1) : stack'[i] = stack[i]
    BY <1>1, <1>5, <2>1, CallFrames DEF Calls
  <2> QED
    BY <1>2, <1>5, <2>1, <2>2 DEF Calls, FrameFrom, SameOwner
<1>6. CASE Loads
  <2>1. PICK f : /\ f \in AnyFrame /\ SameOwner(f, Top)
                 /\ stack' = Push(Replace(f), LoadFrame(Len(insts) + 1, "tls"))
    BY <1>6 DEF Loads, NextTop
  <2>2. PICK g : g = LoadFrame(Len(insts) + 1, "tls")
    OBVIOUS
  <2>3. g \in AnyFrame /\ g.pc = "tls"
    <3>1. Len(insts) + 1 \in Nat \ {0} /\ "tls" \in Pc
      BY <1>1 DEF Pc
    <3> QED
      BY <2>2, <3>1, NewFrame
  <2>4. /\ Len(stack') = Depth + 1 /\ stack'[Depth] = f /\ stack'[Depth + 1] = g
        /\ \A i \in 1..(Depth - 1) : stack'[i] = stack[i]
    BY <1>1, <1>6, <2>1, <2>2, <2>3, CallFrames DEF Loads
  <2> QED
    <3>1. /\ stack # <<>> /\ Depth \in Nat \ {0} /\ Depth = Len(stack)
          /\ f.kind = Top.kind /\ f.inst = Top.inst
      BY <1>2, <1>6, <2>1 DEF Loads, SameOwner
    <3>2. \A i \in 1..Len(stack') : i \in 1..(Depth - 1) \/ i = Depth \/ i = Depth + 1
      BY <2>4, <3>1
    <3>3. \A i \in 1..(Depth - 1) : i \in 1..Len(stack) /\ i # Depth
      BY <3>1
    <3> QED
      BY <2>3, <2>4, <3>1, <3>2, <3>3 DEF FrameFrom
<1>7. CASE Starts
  <2>1. PICK g : g = LoadFrame(1, "import")
    OBVIOUS
  <2>2. stack' = <<g>> /\ stack = <<>>
    BY <1>1, <1>7, <2>1 DEF Starts, Push, ShapeInv
  <2>3. \A i \in 1..Len(stack') : i = 1 /\ stack'[i] = g
    BY <2>2
  <2> QED
    BY <2>1, <2>2, <2>3 DEF FrameFrom
<1>8. CASE Returns
  <2>1. Len(stack') = Depth - 1 /\ \A i \in 1..(Depth - 1) : stack'[i] = stack[i]
    BY <1>1, <1>8, PopFrames DEF Returns
  <2> QED
    BY <1>2, <1>8, <2>1 DEF Returns, FrameFrom
<1>9. CASE Attaches
  <2>1. PICK native \in SUBSET T!Pointer : stack' = Resume(native)
    BY <1>9 DEF Attaches
  <2>2. /\ Depth > 1 /\ Below \in AnyFrame /\ Below = stack[Depth - 1] /\ Below.pc = "await"
        /\ Resumed(native) \in AnyFrame
    BY <1>1, <1>9, <2>1, ShapeResume DEF Attaches
  <2>3. PICK r : r = Resumed(native)
    OBVIOUS
  <2>4. r.kind = Below.kind /\ r.inst = Below.inst /\ r.pc = "found"
        /\ r.imp = Below.imp /\ r.status = Below.status
    BY <2>2, <2>3 DEF Resumed, AnyFrame
  <2>5. /\ Len(stack') = Depth - 1 /\ stack'[Depth - 1] = r
        /\ \A i \in 1..(Depth - 2) : stack'[i] = stack[i]
    BY <1>1, <2>1, <2>2, <2>3, ResumeFrames
  <2> QED
    BY <1>2, <1>9, <2>2, <2>4, <2>5 DEF Attaches, FrameFrom
<1> QED
  BY <1>3, <1>4, <1>5, <1>6, <1>7, <1>8, <1>9 DEF Kinds, Runs

LEMMA SlotFrames ==
  ASSUME ShapeInv, SlotInv, Kinds, Kept, SlotStep
  PROVE  \A i \in 1..Len(stack') :
           PastTls(stack'[i]) => \E n \in 1..Len(insts) : n = stack'[i].inst /\ Slotted(n)'
<1> SUFFICES ASSUME NEW i \in 1..Len(stack'), PastTls(stack'[i])
             PROVE  \E n \in 1..Len(insts) : n = stack'[i].inst /\ Slotted(n)'
  OBVIOUS
<1>1. FrameFrom(i)
  BY FramesAfter
<1>2. CASE /\ i \in 1..Len(stack) /\ stack'[i].inst = stack[i].inst /\ PastTls(stack[i])
  <2>1. stack[i].inst \in 1..Len(insts) /\ Slotted(stack[i].inst)
    BY <1>2 DEF ShapeInv, Shape, SlotInv
  <2> QED
    BY <1>2, <2>1, SlottedStays
<1>3. CASE stack # <<>> /\ i = Depth /\ stack'[i].kind = Top.kind /\ stack'[i].inst = Top.inst
  <2>1. Depth \in 1..Len(stack) /\ Top = stack[Depth] /\ Top.inst \in 1..Len(insts)
    BY <1>3, TopRange
  <2>2. PastTls(Top) \/ \E n \in 1..Len(insts) : n = Top.inst /\ Slotted(n)'
    BY <1>3 DEF SlotStep, FrameMoves
  <2>3. PastTls(Top) => Slotted(Top.inst)
    BY <2>1 DEF SlotInv
  <2> QED
    BY <1>3, <2>1, <2>2, <2>3, SlottedStays
<1>4. CASE stack # <<>> /\ i = Depth + 1 /\ (stack'[i].kind = "load" => stack'[i].pc = "tls")
  BY <1>4 DEF PastTls
<1>5. CASE stack'[i] = LoadFrame(1, "import")
  <2>2. stack'[i].inst = 1 /\ stack'[i].pc = "import"
    BY <1>5, StartFrame
  <2> QED
    BY <2>2 DEF PastTls
<1>6. CASE /\ i \in 1..Len(stack) /\ stack[i].pc = "await" /\ stack'[i].pc = "found"
           /\ stack'[i].kind = stack[i].kind /\ stack'[i].inst = stack[i].inst
  BY <1>2, <1>6 DEF PastTls
<1> QED
  BY <1>1, <1>2, <1>3, <1>4, <1>5, <1>6 DEF FrameFrom

LEMMA SlotInit == Init => ShapeInv /\ SlotInv
<1> SUFFICES ASSUME Init PROVE SlotInv
  BY ShapeInit
<1>1. insts = <<>> /\ stack = <<>>
  BY DEF Init
<1> QED
  BY <1>1 DEF SlotInv, OwnSlots

LEMMA SlotNext == ShapeInv /\ SlotInv /\ [Next]_vars => ShapeInv' /\ SlotInv'
<1> SUFFICES ASSUME ShapeInv, SlotInv, [Next]_vars PROVE SlotInv'
  BY ShapeStep
<1>1. CASE Step
  <2>1. Kinds /\ Kept /\ SlotStep
    BY <1>1, StepKinds, StepSlots
  <2>2. OwnSlots' /\ \A n \in 1..Len(insts') : insts'[n].phase \in Begun => Slotted(n)'
    BY <2>1, OwnSlotsStep, BegunSlots DEF SlotInv
  <2>3. \A i \in 1..Len(stack') : (PastTls(stack[i]) => Slotted(stack[i].inst))'
    <3> SUFFICES ASSUME NEW i \in 1..Len(stack'), PastTls(stack'[i])
                 PROVE  Slotted(stack[i].inst)'
      BY DEF PastTls
    <3>1. PICK n \in 1..Len(insts) : n = stack'[i].inst /\ Slotted(n)'
      BY <2>1, SlotFrames
    <3> QED
      BY <3>1 DEF Slotted, ImageOf
  <2> QED
    BY <2>2, <2>3 DEF SlotInv
<1>2. CASE UNCHANGED vars
  <2>1. UNCHANGED <<world, insts, stack, tlsIndex>>
    BY <1>2 DEF vars, process
  <2> QED
    BY <2>1 DEF SlotInv, OwnSlots, Slotted, PastTls, ImageOf
<1> QED
  BY <1>1, <1>2 DEF Next, Ended

(* What code runs.                                                         *)
LEMMA RanFrames ==
  ASSUME ShapeInv, NEW n, Ran(n)
  PROVE  \/ insts[n].phase \in Begun
         \/ \E i \in 1..Len(stack) : /\ stack[i].kind = "load" /\ stack[i].inst = n
                                     /\ stack[i].pc \in {"callbacks", "return"}
<1>1. CASE insts[n].phase \in Begun
  BY <1>1
<1>2. CASE \E i \in DOMAIN stack : stack[i].kind = "guest" /\ stack[i].inst = n
  <2>1. stack \in Seq(AnyFrame) /\ Shape(stack, Len(insts))
    BY DEF ShapeInv, Shape
  <2>2. PICK i \in 1..Len(stack) : stack[i].kind = "guest" /\ stack[i].inst = n
    BY <1>2, <2>1, LenProperties
  <2>3. Len(stack) \in Nat /\ stack # <<>>
    BY <2>1, <2>2, LenProperties
  <2>4. i # 1
    BY <2>1, <2>2, <2>3 DEF Shape
  <2>5. PICK k \in 1..(Len(stack) - 1) : i = k + 1
    BY <2>2, <2>3, <2>4
  <2>6. Link(stack[k], stack[k + 1])
    BY <2>1, <2>5 DEF Shape
  <2> QED
    BY <2>2, <2>3, <2>5, <2>6 DEF Link
<1> QED
  BY <1>1, <1>2 DEF Ran, Begun

(* No TLS callback and no entry point of a module runs before the module   *)
(* has a TLS slot, and no other module has that slot: for any files and    *)
(* calls, whichever module is loaded by the code of which other one.       *)
THEOREM LoaderTlsBeforeCode == Spec => []TlsBeforeCode
<1>1. ShapeInv /\ SlotInv => TlsBeforeCode
  <2> SUFFICES ASSUME ShapeInv, SlotInv, NEW n \in DOMAIN insts, Ran(n), ImageOf(n).tls # NoTls
               PROVE  /\ insts[n].tls # -1
                      /\ \A m \in DOMAIN insts \ {n} : insts[m].tls # insts[n].tls
    BY DEF TlsBeforeCode
  <2>1. DOMAIN insts = 1..Len(insts)
    BY LenProperties DEF ShapeInv, ImagesInv
  <2>2. Slotted(n)
    BY <2>1, RanFrames DEF SlotInv, PastTls
  <2> QED
    BY <2>1, <2>2 DEF Slotted, SlotInv, OwnSlots
<1> QED
  BY <1>1, SlotInit, SlotNext, PTL DEF Spec
-----------------------------------------------------------------------------
(* The executable's frame is the outermost.  What it has bound, by the     *)
(* place it is at; and having imported kernel32, it has left its path      *)
(* there, unless a DLL that imports kernel32 too is mapped.                *)
KernelDll ==
  \E n \in 2..Len(insts) : Dll("kernel32") \in Imported(world, insts[n].image)
PathGiven(i) ==
  ImportsOf(1)[i].lib = Dll("kernel32") => exePath # "null" \/ KernelDll

Complete(i) ==
  /\ PathGiven(i)
  /\ \A j \in DOMAIN insts[1].iat[i] :
       /\ insts[1].iat[i][j] # Raw
       /\ insts[1].iat[i][j] = Null => ImportsOf(1)[i].reqs[j].ord

CompleteUpTo(n) == \A i \in DOMAIN insts[1].iat : i < n => Complete(i)
AllComplete == \A i \in DOMAIN insts[1].iat : Complete(i)

Importing == {"import", "search", "await", "found"}
PastImports == {"tls", "callbacks", "entry", "return"}

ExeFrame(f) ==
  /\ f.pc \in PastImports => AllComplete
  /\ f.pc = "bound" /\ f.status = "SUCCESS" => AllComplete
  /\ f.pc \in Importing /\ f.status = "SUCCESS" => CompleteUpTo(f.imp)

ExeInv ==
  insts # <<>> =>
    /\ insts[1].image = Exe
    /\ DOMAIN insts[1].iat = 1..Len(ImportsOf(1))
    /\ ExeFrame(stack[1])
    /\ insts[1].phase \in Begun => stack[1].pc = "return"

LEMMA ExeFirst ==
  ASSUME ShapeInv, stack # <<>>
  PROVE  /\ Len(stack) \in Nat \ {0} /\ stack[1] \in AnyFrame
         /\ stack[1].kind = "load" /\ stack[1].inst = 1
         /\ \A i \in 1..Len(stack) : stack[i].kind = "load" /\ stack[i].inst = 1 => i = 1
<1>1. Shape(stack, Len(insts)) /\ stack \in Seq(AnyFrame)
  BY DEF ShapeInv, Shape
<1>2. Len(stack) \in Nat \ {0}
  BY TopRange DEF Depth
<1>3. stack[1] \in AnyFrame
  BY <1>1, <1>2, ElementOfSeq
<1>4. \A i \in 1..Len(stack) : stack[i].kind = "load" /\ stack[i].inst = 1 => i = 1
  BY <1>1, <1>2 DEF Shape, Ordered
<1> QED
  BY <1>1, <1>2, <1>3, <1>4 DEF Shape

(* How the instances change in a step.                                     *)
InstsMove ==
  \/ insts' = insts
  \/ \E s \in DOMAIN world.img, parent \in Nat : insts' = Append(insts, Instance(s, parent))
  \/ stack # <<>> /\ \E phase \in Loading : insts' = SetPhase(Top.inst, phase)
  \/ /\ stack # <<>> /\ tlsIndex \in Int
     /\ insts' = [insts EXCEPT ![Top.inst].tls = tlsIndex]

SameTables == \A n \in 1..Len(insts) : insts'[n].iat = insts[n].iat

LEMMA TablesKept ==
  ASSUME ShapeInv, InstsMove
  PROVE  SameTables
<1>1. CASE \E s \in DOMAIN world.img, parent \in Nat : insts' = Append(insts, Instance(s, parent))
  BY <1>1, InstanceAdded DEF SameTables
<1>2. CASE stack # <<>> /\ \E phase \in Loading : insts' = SetPhase(Top.inst, phase)
  <2>1. PICK n \in 1..Len(insts), phase \in Loading : insts' = SetPhase(n, phase)
    BY <1>2, TopRange
  <2>2. /\ insts'[n] = [insts[n] EXCEPT !.phase = phase]
        /\ \A m \in 1..Len(insts) : m # n => insts'[m] = insts[m]
    BY <2>1, PhaseSet
  <2>3. insts[n] \in AnyInstance
    BY World
  <2>4. insts'[n].iat = insts[n].iat
    BY <2>2, <2>3 DEF AnyInstance
  <2> QED
    BY <2>2, <2>4 DEF SameTables
<1>3. CASE /\ stack # <<>> /\ tlsIndex \in Int
           /\ insts' = [insts EXCEPT ![Top.inst].tls = tlsIndex]
  <2>1. PICK n \in 1..Len(insts), slot \in Int : insts' = [insts EXCEPT ![n].tls = slot]
    BY <1>3, TopRange
  <2>2. PICK r : r = [insts[n] EXCEPT !.tls = slot]
    OBVIOUS
  <2>3. r \in AnyInstance /\ r.iat = insts[n].iat
    BY <2>2, World DEF AnyInstance
  <2>4. insts' = [insts EXCEPT ![n] = r]
    BY <2>1, <2>2
  <2> QED
    BY <2>3, <2>4, InstanceChanged DEF SameTables
<1> QED
  BY <1>1, <1>2, <1>3 DEF InstsMove, SameTables

LEMMA StepTables ==
  ASSUME ShapeInv, Step, ~ Bind
  PROVE  SameTables
<1>1. CASE ExecuteStep
  <2>1. 0 \in Nat
    OBVIOUS
  <2>2. InstsMove
    BY <1>1, <2>1 DEF ExecuteStep, ExecuteNotFound, ExecuteTrap, ExecuteFault, ExecuteBaseTaken,
       ExecuteRejected, ExecuteMap, PastTrap, Executing, Map, Stop, InstsMove
  <2> QED
    BY <2>2, TablesKept
<1>2. CASE SearchStep
  <2>1. stack # <<>> /\ Top.inst \in Nat
    <3>1. stack # <<>>
      BY <1>2 DEF SearchStep, SearchHit, SearchLoad, SearchTrap, SearchRejected,
         SearchMapFails, SearchNoMemory, SearchNative, SearchMissing, Absent, Searching
    <3> QED
      BY <3>1, TopRange DEF AnyFrame
  <2>2. InstsMove
    BY <1>2, <2>1 DEF SearchStep, SearchHit, SearchLoad, SearchTrap, SearchRejected, FileThere,
       SearchMapFails, SearchNoMemory, SearchNative, SearchMissing, Map, Stop, InstsMove
  <2> QED
    BY <2>2, TablesKept
<1>3. CASE AllocateTls \/ BoundDll \/ BoundExe \/ InvokeEntry \/ ReturnToMain \/ ReturnToCaller
  <2>1. stack # <<>> /\ tlsIndex \in Int
    BY <1>3 DEF AllocateTls, BoundDll, BoundExe, InvokeEntry, ReturnToMain, ReturnToCaller, At,
       ShapeInv, TableInv
  <2>2. "bound" \in Loading /\ "entered" \in Loading /\ "attached" \in Loading
    BY DEF Loading
  <2>3. InstsMove
    BY <1>3, <2>1, <2>2 DEF AllocateTls, BoundDll, BoundExe, InvokeEntry, ReturnToMain,
       ReturnToCaller, Stop, InstsMove
  <2> QED
    BY <2>3, TablesKept
<1>4. CASE \/ TlsMapFails \/ TlsNoArray \/ TlsCallback \/ TlsDone \/ RegisterDll
           \/ NextImport \/ ImportNotFound \/ BindTellsNull \/ BindStale \/ BindWrongType
           \/ ImportsDone \/ BoundExeFails \/ EntryZero \/ GuestStep
  <2>1. insts' = insts
    BY <1>4 DEF TlsMapFails, TlsNoArray, TlsCallback, TlsDone, RegisterDll,
       NextImport, ImportNotFound, BindTellsNull, BindStale, BindWrongType,
       ImportsDone, BoundExeFails, EntryZero, Stop,
       GuestStep, GuestCallsImport, LoadLibraryW, LoadLibraryReturns, UseHandle,
       GuestReturns, ExitProcess
  <2> QED
    BY <2>1 DEF SameTables
<1> QED
  BY <1>1, <1>2, <1>3, <1>4 DEF Step, LoadStep

(* A step that binds nothing of the executable: what it has bound is       *)
(* enough for the place it is at then.                                     *)
ExeMoves(f, g) ==
  \/ f.pc = g.pc /\ f.status = g.status /\ f.imp = g.imp
  \/ f.pc \in Importing /\ g.pc \in Importing /\ f.imp = g.imp /\ f.status = g.status
  \/ f.pc \in PastImports /\ g.pc \in PastImports
  \/ f.pc \in Importing \cup {"bound"} /\ f.status # "SUCCESS"
  \/ /\ f.pc = "bound" /\ g.pc = "import" /\ f.status = g.status
     /\ g.imp > Len(ImportsOf(1))
  \/ f.pc = "tls" /\ g.pc = "bound" /\ g.status = "SUCCESS"

PathStays == exePath' = exePath \/ KernelDll'

LEMMA KernelDllStays ==
  ASSUME ShapeInv, Kinds, Kept, KernelDll
  PROVE  KernelDll'
<1>1. PICK n \in 2..Len(insts) : Dll("kernel32") \in Imported(world, insts[n].image)
  BY DEF KernelDll
<1>2. n \in 1..Len(insts) /\ Len(insts) \in Nat
  BY World
<1>3. Len(insts') \in Nat /\ Len(insts') >= Len(insts) /\ insts'[n].image = insts[n].image
  <2>1. CASE SameImages
    BY <1>2, <2>1 DEF SameImages
  <2>2. CASE \E s \in DOMAIN world.img, parent \in Nat : insts' = Append(insts, Instance(s, parent))
    BY <1>2, <2>2, InstanceAdded
  <2> QED
    BY <2>1, <2>2, ImagesGrow
<1>4. n \in 2..Len(insts') /\ world' = world
  BY <1>2, <1>3 DEF Kept
<1> QED
  BY <1>1, <1>3, <1>4 DEF KernelDll, Imported

LEMMA StepPath ==
  ASSUME ShapeInv, Step, ~ Bind
  PROVE  exePath' = exePath
<1>1. CASE ExecuteStep
  BY <1>1 DEF ExecuteStep, ExecuteNotFound, ExecuteTrap, ExecuteFault, ExecuteBaseTaken,
     ExecuteRejected, ExecuteMap, Map, Stop, process
<1>2. CASE SearchStep
  BY <1>2 DEF SearchStep, SearchHit, SearchLoad, SearchTrap, SearchRejected,
     SearchMapFails, SearchNoMemory, SearchNative, SearchMissing, Map, Stop, process
<1>3. CASE \/ AllocateTls \/ TlsMapFails \/ TlsNoArray \/ TlsCallback \/ TlsDone \/ RegisterDll
           \/ NextImport \/ ImportNotFound \/ BindTellsNull \/ BindStale \/ BindWrongType
  BY <1>3 DEF AllocateTls, TlsMapFails, TlsNoArray, TlsCallback, TlsDone, RegisterDll,
     NextImport, ImportNotFound, BindTellsNull, BindStale, BindWrongType, Stop, process
<1>4. CASE \/ ImportsDone \/ BoundDll \/ BoundExe \/ BoundExeFails \/ EntryZero \/ InvokeEntry
           \/ ReturnToMain \/ ReturnToCaller \/ GuestStep
  BY <1>4 DEF ImportsDone, BoundDll, BoundExe, BoundExeFails, EntryZero, InvokeEntry,
     ReturnToMain, ReturnToCaller, Stop, process,
     GuestStep, GuestCallsImport, LoadLibraryW, LoadLibraryReturns, UseHandle,
     GuestReturns, ExitProcess
<1> QED
  BY <1>1, <1>2, <1>3, <1>4 DEF Step, LoadStep

(* A DLL that is told of no executable imports kernel32.                   *)
LEMMA DllPath ==
  ASSUME ShapeInv, outcome = "running", Bind, Top.inst # 1
  PROVE  PathStays
<1>1. stack # <<>> /\ Top.kind = "load" /\ Top.pc = "found"
  BY DEF Bind, Binding, At
<1>4. exePath' = exePath \/ (Told /\ Want(Top).stem = "kernel32")
  BY DEF Bind, Tell
<1>2. PICK n \in 2..Len(insts) : n = Top.inst
  BY <1>1, TopRange, World
<1>3. CASE Told /\ Want(Top).stem = "kernel32"
  <2>1. Top.imp \in 1..Len(ImportsOf(n))
    <3>1. Top = stack[Depth] /\ Depth \in 1..Len(stack) /\ Top.imp \in Nat \ {0}
      BY <1>1, TopRange DEF AnyFrame
    <3>2. Top.imp <= Len(ImportsOf(n))
      BY <1>1, <1>2, <3>1 DEF ShapeInv, ImportsInv
    <3>3. Len(ImportsOf(n)) \in Nat
      BY <1>2, World, LenProperties
    <3> QED
      BY <3>1, <3>2, <3>3
  <2>2. ImportsOf(n) \in Seq(Import) /\ n \in 1..Len(insts)
    BY <1>2, World
  <2>3. DOMAIN ImportsOf(n) = 1..Len(ImportsOf(n)) /\ ImportsOf(n)[Top.imp] \in Import
    BY <2>1, <2>2, LenProperties, ElementOfSeq
  <2>4. ImportsOf(n)[Top.imp].lib = Dll("kernel32")
    <3>1. Want(Top) = ImportsOf(n)[Top.imp].lib
      BY <1>1, <1>2 DEF Want
    <3>2. Want(Top) \in ModName
      BY <2>3, <3>1 DEF Import
    <3> QED
      BY <1>3, <3>1, <3>2 DEF Told, Dll, ModName
  <2>5. KernelDll
    BY <1>2, <2>1, <2>3, <2>4 DEF KernelDll, Imported, ImportsOf, ImageOf
  <2> QED
    BY <2>5, BindKinds, KernelDllStays DEF PathStays
<1> QED
  BY <1>3, <1>4 DEF PathStays

LEMMA ExeOn ==
  ASSUME ShapeInv, ExeInv, Kinds, Kept, PathStays, insts # <<>>,
         SameTables \/ insts'[1].iat = insts[1].iat,
         ExeMoves(stack'[1], stack[1]),
         insts'[1].phase \in Begun => stack'[1].pc = "return"
  PROVE  ExeInv'
<1>1. Len(insts) \in Nat /\ 1 \in 1..Len(insts)
  BY World, EmptySeq DEF ShapeInv, ImagesInv
<1>2. insts'[1].iat = insts[1].iat /\ insts'[1].image = insts[1].image /\ world' = world
  <2>1. CASE SameImages
    BY <1>1, <2>1 DEF SameImages, SameTables, Kept
  <2>2. CASE \E s \in DOMAIN world.img, parent \in Nat : insts' = Append(insts, Instance(s, parent))
    BY <1>1, <2>2, InstanceAdded DEF SameTables, Kept
  <2> QED
    BY <2>1, <2>2, ImagesGrow
<1>3. ImportsOf(1)' = ImportsOf(1)
  BY <1>2 DEF ImportsOf, ImageOf
<1>4. \A i : Complete(i) => Complete(i)'
  <2>1. \A i : PathGiven(i) => PathGiven(i)'
    BY <1>3, KernelDllStays DEF PathGiven, PathStays
  <2> QED
    BY <1>2, <1>3, <2>1 DEF Complete
<1>5. /\ AllComplete => AllComplete'
      /\ \A n : CompleteUpTo(n) => CompleteUpTo(n)'
  BY <1>2, <1>4 DEF AllComplete, CompleteUpTo
<1>6. PICK f, g : f = stack'[1] /\ g = stack[1] /\ ExeMoves(f, g) /\ ExeFrame(g)
  BY DEF ExeInv
<1>7. /\ f.pc \in PastImports => AllComplete
      /\ f.pc = "bound" /\ f.status = "SUCCESS" => AllComplete
      /\ f.pc \in Importing /\ f.status = "SUCCESS" => CompleteUpTo(f.imp)
  <2>1. CASE f.pc = g.pc /\ f.status = g.status /\ f.imp = g.imp
    BY <1>6, <2>1 DEF ExeFrame
  <2>2. CASE f.pc \in Importing /\ g.pc \in Importing /\ f.imp = g.imp /\ f.status = g.status
    BY <1>6, <2>2 DEF ExeFrame, Importing, PastImports
  <2>3. CASE f.pc \in PastImports /\ g.pc \in PastImports
    BY <1>6, <2>3 DEF ExeFrame, Importing, PastImports
  <2>4. CASE f.pc \in Importing \cup {"bound"} /\ f.status # "SUCCESS"
    BY <2>4 DEF Importing, PastImports
  <2>5. CASE /\ f.pc = "bound" /\ g.pc = "import" /\ f.status = g.status
             /\ g.imp > Len(ImportsOf(1))
    <3>1. f.status = "SUCCESS" => CompleteUpTo(g.imp)
      BY <1>6, <2>5 DEF ExeFrame, Importing
    <3>2. ASSUME CompleteUpTo(g.imp) PROVE AllComplete
      <4>1. DOMAIN insts[1].iat = 1..Len(ImportsOf(1))
        BY DEF ExeInv
      <4>2. Len(ImportsOf(1)) \in Nat /\ g.imp \in Nat
        <5>1. stack # <<>>
          BY DEF ShapeInv
        <5>2. g.imp \in Nat
          BY <1>6, <5>1, ExeFirst DEF AnyFrame
        <5> QED
          BY <1>1, <5>2, World, LenProperties
      <4> QED
        BY <2>5, <3>2, <4>1, <4>2 DEF CompleteUpTo, AllComplete
    <3> QED
      BY <2>5, <3>1, <3>2 DEF Importing, PastImports
  <2>6. CASE f.pc = "tls" /\ g.pc = "bound" /\ g.status = "SUCCESS"
    BY <1>6, <2>6 DEF ExeFrame, Importing, PastImports
  <2> QED
    BY <1>6, <2>1, <2>2, <2>3, <2>4, <2>5, <2>6 DEF ExeMoves
<1>8. ExeFrame(stack[1])'
  BY <1>5, <1>6, <1>7 DEF ExeFrame
<1>9. DOMAIN insts'[1].iat = 1..Len(ImportsOf(1)')
  BY <1>2, <1>3 DEF ExeInv
<1>10. insts'[1].image = Exe
  BY <1>2 DEF ExeInv
<1> QED
  BY <1>8, <1>9, <1>10 DEF ExeInv

(* Another frame is on top, or guest code of the executable is.            *)
LEMMA ExeBelow ==
  ASSUME ShapeInv, ExeInv, Kinds, Kept, PathStays, SlotStep,
         SameTables \/ insts'[1].iat = insts[1].iat,
         stack # <<>>, ~ (Top.kind = "load" /\ Top.inst = 1)
  PROVE  ExeInv'
<1>1. /\ Len(stack) \in Nat \ {0} /\ Depth = Len(stack) /\ Top = stack[Depth]
      /\ stack[1].kind = "load" /\ stack[1].inst = 1 /\ Depth # 1
  BY ExeFirst, TopRange
<1>2. Len(stack') \in Nat \ {0}
  <2>1. stack' # <<>>
    <3>1. ShapeInv'
      BY KindsKeepShape
    <3>2. insts' # <<>>
      <4>1. 1 \in 1..Len(insts) /\ Len(insts) \in Nat
        BY World, EmptySeq DEF ShapeInv, ImagesInv
      <4>2. CASE SameImages
        BY <4>2, ImagesStay DEF Kept, ShapeInv
      <4>3. CASE \E s \in DOMAIN world.img, parent \in Nat :
                   insts' = Append(insts, Instance(s, parent))
        BY <4>1, <4>3, InstanceAdded
      <4> QED
        BY <4>2, <4>3, ImagesGrow
    <3> QED
      BY <3>1, <3>2 DEF ShapeInv
  <2>2. ShapeInv'
    BY KindsKeepShape
  <2>3. stack' \in Seq(AnyFrame)
    BY <2>2 DEF ShapeInv, Shape
  <2> QED
    BY <2>1, <2>3, EmptySeq, LenProperties
<1>3. FrameFrom(1)
  BY <1>2, FramesAfter
<1>4. ExeMoves(stack'[1], stack[1]) /\ (stack'[1].pc = stack[1].pc \/ stack[1].pc = "await")
  BY <1>1, <1>3 DEF FrameFrom, ExeMoves, Importing
<1>5. insts # <<>> /\ 1 \in 1..Len(insts)
  BY World, EmptySeq DEF ShapeInv, ImagesInv
<1>6. insts'[1].phase \in Begun => stack'[1].pc = "return"
  <2>1. insts'[1].phase \in Begun => insts[1].phase \in Begun
    BY <1>5 DEF SlotStep, PhasesMove, PastTls
  <2> QED
    BY <1>4, <1>5, <2>1 DEF ExeInv
<1> QED
  BY <1>4, <1>5, <1>6, ExeOn

(* The executable's frame is on top.                                       *)
ExeOnTop == stack # <<>> /\ Top.kind = "load" /\ Top.inst = 1

LEMMA ExeTop ==
  ASSUME ShapeInv, ExeOnTop
  PROVE  /\ Depth = 1 /\ Top = stack[1] /\ Top \in AnyFrame /\ PcOK(Top)
         /\ insts # <<>> /\ Top.inst \in 1..Len(insts)
BY ExeFirst, TopRange DEF ExeOnTop, ShapeInv

(* The instances stay, and the frame has not yet called the entry point.   *)
LEMMA ExeField ==
  ASSUME ShapeInv, ExeInv, Kinds, Kept, PathStays, ExeOnTop, SameTables,
         insts'[1].phase \in Begun => insts[1].phase \in Begun,
         Top.pc # "return", NEW f,
         stack' = Replace(f) \/ \E g : stack' = Push(Replace(f), g),
         ExeMoves(f, Top)
  PROVE  ExeInv'
<1>1. stack'[1] = f /\ Top = stack[1] /\ insts # <<>>
  BY ExeTop, TopAfter DEF ExeOnTop
<1>2. insts'[1].phase \notin Begun
  BY <1>1 DEF ExeInv
<1> QED
  BY <1>1, <1>2, ExeOn

LEMMA ExeStays ==
  ASSUME ShapeInv, ExeInv, Kinds, Kept, PathStays, UNCHANGED <<stack, insts>>
  PROVE  ExeInv'
<1>1. SameTables
  BY DEF SameTables
<1>2. CASE insts # <<>>
  BY <1>1, <1>2, ExeOn DEF ExeMoves, ExeInv
<1>3. CASE insts = <<>>
  BY <1>3 DEF ExeInv
<1> QED
  BY <1>2, <1>3

LEMMA ExeSearch ==
  ASSUME ShapeInv, ExeInv, Kinds, Kept, PathStays, ExeOnTop, SameTables, SearchStep
  PROVE  ExeInv'
<1>1. Top.pc = "search" /\ Top \in AnyFrame
  BY ExeTop DEF SearchStep, SearchHit, SearchLoad, SearchTrap, SearchRejected,
     SearchMapFails, SearchNoMemory, SearchNative, SearchMissing, Absent, Searching
<1>2. CASE UNCHANGED <<stack, insts>>
  BY <1>2, ExeStays
<1>3. CASE ~ UNCHANGED <<stack, insts>>
  <2>1. \E f : /\ stack' = Replace(f) \/ \E g : stack' = Push(Replace(f), g)
               /\ f.pc \in {"found", "await"} /\ f.imp = Top.imp /\ f.status = Top.status
    <3>1. CASE SearchHit
      <4> DEFINE l == {T!PointerTo(block, T!Find(libs, Key(Top)), libs)}
                 f == [Top EXCEPT !.pc = "found", !.loaded = l]
      <4>1. stack' = Replace(f)
        BY <3>1 DEF SearchHit
      <4> HIDE DEF l
      <4>2. f.pc = "found" /\ f.imp = Top.imp /\ f.status = Top.status
        BY <1>1 DEF AnyFrame
      <4> QED
        BY <4>1, <4>2
    <3>2. CASE SearchNative
      <4> DEFINE l == {PointerTo(Len(libs'))}
                 f == [Top EXCEPT !.pc = "found", !.native = l]
      <4>1. stack' = Replace(f)
        BY <3>2 DEF SearchNative
      <4> HIDE DEF l
      <4>2. f.pc = "found" /\ f.imp = Top.imp /\ f.status = Top.status
        BY <1>1 DEF AnyFrame
      <4> QED
        BY <4>1, <4>2
    <3>3. CASE SearchRejected \/ SearchNoMemory \/ SearchMissing
      <4> DEFINE f == [Top EXCEPT !.pc = "found"]
      <4>1. stack' = Replace(f)
        BY <3>3 DEF SearchRejected, SearchNoMemory, SearchMissing
      <4>2. f.pc = "found" /\ f.imp = Top.imp /\ f.status = Top.status
        BY <1>1 DEF AnyFrame
      <4> QED
        BY <4>1, <4>2
    <3>4. CASE SearchLoad
      <4> DEFINE f == [Top EXCEPT !.pc = "await"]
      <4>1. \E g : stack' = Push(Replace(f), g)
        BY <1>3, <3>4 DEF SearchLoad, Map, Stop
      <4>2. f.pc = "await" /\ f.imp = Top.imp /\ f.status = Top.status
        BY <1>1 DEF AnyFrame
      <4> QED
        BY <4>1, <4>2
    <3> QED
      BY <1>3, <3>1, <3>2, <3>3, <3>4 DEF SearchStep, SearchTrap, SearchMapFails, Stop
  <2>2. insts'[1].phase = insts[1].phase
    <3>1. insts' = insts \/ \E s \in DOMAIN world.img : insts' = Append(insts, Instance(s, Top.inst))
      BY DEF SearchStep, SearchHit, SearchLoad, SearchTrap, SearchRejected, FileThere,
       SearchMapFails, SearchNoMemory, SearchNative, SearchMissing, Map, Stop
    <3>2. Top.inst \in Nat /\ 1 \in 1..Len(insts)
      BY <1>1, ExeTop DEF AnyFrame, ExeOnTop
    <3> QED
      BY <3>1, <3>2, InstanceAdded
  <2>3. PICK f : /\ stack' = Replace(f) \/ \E g : stack' = Push(Replace(f), g)
                 /\ f.pc \in {"found", "await"} /\ f.imp = Top.imp /\ f.status = Top.status
    BY <2>1
  <2>4. ExeMoves(f, Top)
    BY <1>1, <2>3 DEF ExeMoves, Importing
  <2> QED
    BY <1>1, <2>2, <2>3, <2>4, ExeField
<1> QED
  BY <1>2, <1>3

LEMMA ExeTls ==
  ASSUME ShapeInv, ExeInv, Kinds, Kept, PathStays, ExeOnTop, SameTables,
         AllocateTls \/ TlsMapFails \/ TlsNoArray \/ TlsCallback \/ TlsDone
  PROVE  ExeInv'
<1>1. /\ Top.pc \in {"tls", "callbacks"} /\ Top \in AnyFrame /\ IsExe(Top)
      /\ Top.inst \in 1..Len(insts) /\ tlsIndex \in Int
  BY ExeTop DEF AllocateTls, TlsMapFails, TlsNoArray, TlsCallback, TlsDone, At, IsExe, ExeOnTop,
     ShapeInv, TableInv
<1>2. CASE UNCHANGED <<stack, insts>>
  BY <1>2, ExeStays
<1>3. CASE ~ UNCHANGED <<stack, insts>>
  <2>1. insts'[1].phase = insts[1].phase
    <3>1. insts' = insts \/ insts' = [insts EXCEPT ![Top.inst].tls = tlsIndex]
      BY DEF AllocateTls, TlsMapFails, TlsNoArray, TlsCallback, TlsDone, Stop
    <3>2. PICK n \in 1..Len(insts), slot \in Int : n = Top.inst /\ slot = tlsIndex
      BY <1>1
    <3>3. CASE insts' = [insts EXCEPT ![Top.inst].tls = tlsIndex]
      <4>1. PICK r : r = [insts[n] EXCEPT !.tls = slot]
        OBVIOUS
      <4>2. r \in AnyInstance /\ r.phase = insts[n].phase
        BY <4>1, World DEF AnyInstance
      <4>3. insts' = [insts EXCEPT ![n] = r]
        BY <3>2, <3>3, <4>1
      <4> QED
        BY <3>2, <4>2, <4>3, InstanceChanged DEF ExeOnTop
    <3> QED
      BY <3>1, <3>3
  <2>2. \E f : /\ stack' = Replace(f) \/ \E g : stack' = Push(Replace(f), g)
               /\ f.pc \in {"callbacks", "entry"}
    <3>1. CASE TlsCallback
      <4> DEFINE f == [Top EXCEPT !.cb = Top.cb + 1]
      <4>1. (\E g : stack' = Push(Replace(f), g)) /\ Top.pc = "callbacks"
        BY <3>1 DEF TlsCallback, At
      <4>2. f.pc = Top.pc
        BY <1>1 DEF AnyFrame
      <4> QED
        BY <4>1, <4>2
    <3>2. CASE AllocateTls \/ TlsDone
      <4>1. \E pc \in {"callbacks", "entry"} : stack' = Replace([Top EXCEPT !.pc = pc])
        BY <1>1, <1>3, <3>2 DEF AllocateTls, TlsDone, Stop
      <4>2. \A pc : [Top EXCEPT !.pc = pc].pc = pc
        BY <1>1 DEF AnyFrame
      <4> QED
        BY <4>1, <4>2
    <3> QED
      BY <1>3, <3>1, <3>2 DEF TlsMapFails, TlsNoArray, Stop
  <2>3. PICK f : /\ stack' = Replace(f) \/ \E g : stack' = Push(Replace(f), g)
                 /\ f.pc \in {"callbacks", "entry"}
    BY <2>2
  <2>4. ExeMoves(f, Top)
    BY <1>1, <2>3 DEF ExeMoves, PastImports
  <2> QED
    BY <1>1, <2>1, <2>3, <2>4, ExeField
<1> QED
  BY <1>2, <1>3

LEMMA ExeImport ==
  ASSUME ShapeInv, ExeInv, Kinds, Kept, PathStays, ExeOnTop, SameTables,
         NextImport \/ ImportNotFound \/ ImportsDone
  PROVE  ExeInv'
<1>1. Top \in AnyFrame /\ insts' = insts /\ Top.pc \in {"import", "found"}
  BY ExeTop DEF NextImport, ImportNotFound, ImportsDone, At
<1>2. \E f : stack' = Replace(f) /\ ExeMoves(f, Top)
  <2>1. CASE NextImport
    <3> DEFINE f == [Top EXCEPT !.pc = "search", !.loaded = {}, !.native = {}]
    <3>1. stack' = Replace(f) /\ Top.pc = "import"
      BY <2>1 DEF NextImport, At
    <3>2. f.pc = "search" /\ f.imp = Top.imp /\ f.status = Top.status
      BY <1>1 DEF AnyFrame
    <3> QED
      BY <3>1, <3>2 DEF ExeMoves, Importing
  <2>2. CASE ImportNotFound
    <3> DEFINE f == [Top EXCEPT !.pc = "import", !.imp = Top.imp + 1, !.status = "NOT_FOUND"]
    <3>1. stack' = Replace(f)
      BY <2>2 DEF ImportNotFound
    <3>2. f.pc = "import" /\ f.status = "NOT_FOUND"
      BY <1>1 DEF AnyFrame
    <3> QED
      BY <3>1, <3>2 DEF ExeMoves, Importing
  <2>3. CASE ImportsDone
    <3> DEFINE f == [Top EXCEPT !.pc = "bound", !.loaded = {}, !.native = {}]
    <3>1. stack' = Replace(f) /\ Top.imp > Len(ImportsOf(1)) /\ Top.pc = "import"
      BY <2>3 DEF ImportsDone, At, ExeOnTop
    <3>2. f.pc = "bound" /\ f.status = Top.status
      BY <1>1 DEF AnyFrame
    <3> QED
      BY <3>1, <3>2 DEF ExeMoves
  <2> QED
    BY <2>1, <2>2, <2>3
<1>3. PICK f : stack' = Replace(f) /\ ExeMoves(f, Top)
  BY <1>2
<1> QED
  BY <1>1, <1>3, ExeField

LEMMA ExeEntry ==
  ASSUME ShapeInv, ExeInv, Kinds, Kept, PathStays, ExeOnTop, SameTables,
         BoundExe \/ InvokeEntry \/ ReturnToMain
  PROVE  ExeInv'
<1>1. /\ Top \in AnyFrame /\ Top = stack[1] /\ insts # <<>> /\ Depth = 1
      /\ 1 \in 1..Len(insts) /\ Top.inst = 1
  BY ExeTop DEF ExeOnTop
<1>2. CASE BoundExe
  <2> DEFINE f == [Top EXCEPT !.pc = "tls"]
  <2>1. /\ stack' = Replace(f) /\ Top.pc = "bound" /\ Top.status = "SUCCESS"
        /\ insts' = SetPhase(1, "bound")
    BY <1>1, <1>2 DEF BoundExe, At
  <2>2. f.pc = "tls"
    BY <1>1 DEF AnyFrame
  <2>3. ExeMoves(f, Top)
    BY <2>1, <2>2 DEF ExeMoves
  <2>4. insts'[1].phase = "bound"
    <3>1. "bound" \in Loading
      BY DEF Loading
    <3> QED
      BY <1>1, <2>1, <3>1, PhaseSet
  <2> HIDE DEF f
  <2> QED
    BY <2>1, <2>3, <2>4, ExeField DEF Begun
<1>3. CASE InvokeEntry
  <2> DEFINE f == [Top EXCEPT !.pc = "return"]
  <2>1. (\E g : stack' = Push(Replace(f), g)) /\ Top.pc = "entry"
    BY <1>3 DEF InvokeEntry, At
  <2>2. f.pc = "return"
    BY <1>1 DEF AnyFrame
  <2>3. ExeMoves(f, Top)
    BY <2>1, <2>2 DEF ExeMoves, PastImports
  <2> HIDE DEF f
  <2>4. stack'[1] = f
    BY <1>1, <2>1, TopAfter DEF ExeOnTop
  <2> QED
    BY <1>1, <2>2, <2>3, <2>4, ExeOn
<1>4. CASE ReturnToMain
  <2>1. stack' = stack /\ Top.pc = "return"
    BY <1>4 DEF ReturnToMain, At
  <2> QED
    BY <1>1, <2>1, ExeOn DEF ExeMoves
<1> QED
  BY <1>2, <1>3, <1>4

(* Binding an import of the executable: unless its status says otherwise,  *)
(* the import is complete then.                                            *)
LEMMA ExeBind ==
  ASSUME ShapeInv, ExeInv, Kinds, Kept, outcome = "running", ExeOnTop, Bind
  PROVE  ExeInv'
<1>1. /\ Top \in AnyFrame /\ Top = stack[1] /\ insts # <<>> /\ Depth = 1 /\ Top.inst = 1
      /\ 1 \in 1..Len(insts) /\ stack # <<>> /\ Binding /\ Top.pc = "found" /\ Top.kind = "load"
      /\ Top.imp \in Nat
  BY ExeTop DEF ExeOnTop, Bind, Binding, At, AnyFrame
<1>2. /\ insts'[1] = [insts[1] EXCEPT !.iat = [@ EXCEPT ![Top.imp] = BoundSlots]]
      /\ world' = world
  BY <1>1, BindKinds DEF Kept
<1>3. insts[1] \in AnyInstance
  BY <1>1, World
<1>4. /\ insts'[1].iat = [insts[1].iat EXCEPT ![Top.imp] = BoundSlots]
      /\ insts'[1].image = insts[1].image /\ insts'[1].phase = insts[1].phase
  BY <1>2, <1>3 DEF AnyInstance
<1>5. ImportsOf(1)' = ImportsOf(1)
  BY <1>2, <1>4 DEF ImportsOf, ImageOf
<1>6. insts'[1].phase \notin Begun
  BY <1>1, <1>4 DEF ExeInv
<1> DEFINE served == Served(Top, Reqs)
           missing == \E j \in served : Missing(Top, Reqs[j])
           f == [Top EXCEPT !.pc = "bound", !.status = "INVALID"]
           g == [Top EXCEPT !.pc = "import", !.imp = Top.imp + 1,
                            !.status = IF missing THEN "NOT_FOUND" ELSE @]
<1>7. stack' = Replace(IF served # DOMAIN Reqs THEN f ELSE g)
  BY DEF Bind
<1>8. /\ f.pc = "bound" /\ f.status = "INVALID"
      /\ g.pc = "import" /\ g.imp = Top.imp + 1
      /\ g.status = "SUCCESS" => ~ missing /\ Top.status = "SUCCESS"
  BY <1>1 DEF AnyFrame
<1>9. ASSUME served = DOMAIN Reqs, ~ missing
      PROVE  \A j \in DOMAIN BoundSlots : /\ BoundSlots[j] # Raw
                                          /\ BoundSlots[j] = Null => Reqs[j].ord
  <2> SUFFICES ASSUME NEW j \in DOMAIN Reqs
               PROVE  /\ BoundSlots[j] # Raw
                      /\ BoundSlots[j] = Null => Reqs[j].ord
    BY DEF BoundSlots
  <2>1. BoundSlots[j] = Slot(Top, Reqs[j]) /\ ~ Missing(Top, Reqs[j])
    BY <1>9 DEF BoundSlots
  <2>2. Slot(Top, Reqs[j]) # Raw
    <3>1. CASE Slot(Top, Reqs[j]) \in {Null, Native}
      BY <3>1 DEF Null, Native, Raw
    <3>2. CASE \E p \in Top.loaded : Slot(Top, Reqs[j]) = p.lib.handle
      <4>1. PICK p \in Top.loaded : Slot(Top, Reqs[j]) = p.lib.handle
        BY <3>2
      <4>2. p \in T!Pointer
        BY <1>1, TopRange DEF ShapeInv, PointersInv, Ptrs, PtrOK
      <4>3. p.lib.handle \in Nat
        BY <4>2 DEF T!Pointer, T!Lib
      <4> QED
        BY <4>1, <4>3 DEF Raw
    <3> QED
      BY <1>1, <3>1, <3>2, SlotRange
  <2> QED
    BY <2>1, <2>2 DEF Missing
<1> HIDE DEF f, g, missing, served
<1>13. /\ exePath # "null" => exePath' # "null"
       /\ Want(Top) = Dll("kernel32") => exePath' # "null"
  BY <1>1 DEF Bind, Tell, Told, Dll, IsExe
<1>14. \A i : PathGiven(i) => PathGiven(i)'
  BY <1>5, <1>13, KernelDllStays DEF PathGiven
<1>15. \A i : i = Top.imp => PathGiven(i)'
  BY <1>1, <1>5, <1>13 DEF PathGiven, Want
<1>10. DOMAIN insts'[1].iat = 1..Len(ImportsOf(1)') /\ insts'[1].image = Exe
  BY <1>1, <1>4, <1>5 DEF ExeInv
<1>11. CASE served # DOMAIN Reqs
  <2>1. stack'[1] = f
    BY <1>1, <1>7, <1>11, TopAfter
  <2>2. ExeFrame(stack[1])'
    BY <1>8, <2>1 DEF ExeFrame, Importing, PastImports
  <2> QED
    BY <1>6, <1>10, <2>2 DEF ExeInv
<1>12. CASE served = DOMAIN Reqs
  <2>1. stack'[1] = g
    BY <1>1, <1>7, <1>12, TopAfter
  <2>4. PICK n \in Nat : n = Top.imp + 1
    BY <1>1
  <2>2. ASSUME g.status = "SUCCESS" PROVE CompleteUpTo(n)'
    <3>1. CompleteUpTo(Top.imp)
      BY <1>1, <1>8, <2>2 DEF ExeInv, ExeFrame, Importing
    <3> SUFFICES ASSUME NEW i \in DOMAIN insts'[1].iat, i < Top.imp + 1
                 PROVE  Complete(i)'
      BY <2>4 DEF CompleteUpTo
    <3>2. i \in DOMAIN insts[1].iat /\ i \in Nat
      <4>1. i \in DOMAIN insts[1].iat /\ DOMAIN insts[1].iat = 1..Len(ImportsOf(1))
        BY <1>1, <1>4 DEF ExeInv
      <4>2. Len(ImportsOf(1)) \in Nat
        BY <1>1, World, LenProperties
      <4> QED
        BY <4>1, <4>2
    <3>3. CASE i = Top.imp
      <4>1. insts'[1].iat[i] = BoundSlots /\ ImportsOf(1)'[i].reqs = Reqs
        BY <1>1, <1>4, <1>5, <3>2, <3>3 DEF Reqs
      <4> QED
        BY <1>8, <1>9, <1>12, <1>15, <2>2, <3>3, <4>1 DEF Complete
    <3>4. CASE i # Top.imp
      <4>1. i < Top.imp /\ insts'[1].iat[i] = insts[1].iat[i]
        BY <1>1, <1>4, <3>2, <3>4
      <4> QED
        BY <1>5, <1>14, <3>1, <3>2, <4>1 DEF CompleteUpTo, Complete
    <3> QED
      BY <3>3, <3>4
  <2>3. ExeFrame(stack[1])'
    BY <1>8, <2>1, <2>2, <2>4 DEF ExeFrame, Importing, PastImports
  <2> QED
    BY <1>6, <1>10, <2>3 DEF ExeInv
<1> QED
  BY <1>11, <1>12

(* The executable has just been mapped.                                    *)
LEMMA ExeStarts ==
  ASSUME ShapeInv, Starts, world' = world
  PROVE  ExeInv'
<1>1. /\ stack = <<>> /\ insts = <<>> /\ Exe \in DOMAIN world.img /\ Len(insts) = 0
      /\ stack' = Push(stack, LoadFrame(Len(insts) + 1, "import"))
      /\ insts' = Append(insts, Instance(Exe, 0))
  BY DEF Starts, ShapeInv
<1>2. PICK s \in DOMAIN world.img, parent \in Nat : s = Exe /\ parent = 0
  BY <1>1
<1>3. insts'[1] = Instance(s, parent)
  BY <1>1, <1>2, InstanceAdded
<1>4. PICK g : g = LoadFrame(1, "import")
  OBVIOUS
<1>5. stack'[1] = g /\ g.pc = "import" /\ g.imp = 1
  BY <1>1, <1>4, StartFrame DEF Push
<1>6. /\ insts'[1].phase = "loading" /\ insts'[1].image = s
      /\ DOMAIN insts'[1].iat = DOMAIN world.img[s].imports
  BY <1>3 DEF Instance, Unresolved
<1>7. DOMAIN world.img[s].imports = 1..Len(world.img[s].imports)
  <2>1. world.img[s] \in Image
    BY World
  <2>2. world.img[s].imports \in Seq(Import)
    BY <2>1 DEF Image
  <2> QED
    BY <2>2, LenProperties
<1>8. ExeInv'
  <2>1. ImportsOf(1)' = world.img[s].imports
    BY <1>6 DEF ImportsOf, ImageOf
  <2>2. /\ DOMAIN insts'[1].iat = 1..Len(ImportsOf(1)') /\ insts'[1].image = Exe
        /\ \A i \in DOMAIN insts'[1].iat : ~ (i < 1)
    BY <1>2, <1>6, <1>7, <2>1
  <2>3. ExeFrame(stack[1])'
    BY <1>5, <2>2 DEF ExeFrame, Importing, PastImports, CompleteUpTo
  <2> QED
    BY <1>6, <2>2, <2>3 DEF ExeInv, Begun
<1> QED
  BY <1>8

LEMMA ExeInit == Init => ExeInv
BY DEF Init, ExeInv

LEMMA ExeNext == ShapeInv /\ ExeInv /\ [Next]_vars => ShapeInv' /\ ExeInv'
<1> SUFFICES ASSUME ShapeInv, ExeInv, [Next]_vars PROVE ExeInv'
  BY ShapeStep
<1>1. CASE Step
  <2>1. Kinds /\ Kept /\ SlotStep /\ outcome = "running"
    BY <1>1, StepKinds, StepSlots DEF Step
  <2>5. ~ Bind => PathStays
    BY <1>1, StepPath DEF PathStays
  <2>2. CASE stack = <<>>
    <3>2. ~ Bind
      BY <2>2 DEF Bind, Binding, At
    <3>1. Starts \/ UNCHANGED <<stack, insts>>
      BY <2>1, <2>2 DEF Kinds, Runs, Goes, Calls, Loads, Returns, Attaches, Completes, Stops
    <3> QED
      BY <2>1, <2>5, <3>1, <3>2, ExeStarts, ExeStays DEF Kept
  <2>3. CASE stack # <<>> /\ ~ ExeOnTop
    <3>1. CASE Bind
      <4>1. Top.kind = "load" /\ Top.inst # 1 /\ 1 \in 1..Len(insts)
        <5>1. insts # <<>> /\ insts \in Seq(AnyInstance)
          BY <2>3 DEF ShapeInv, ImagesInv
        <5> QED
          BY <2>3, <3>1, <5>1, EmptySeq, LenProperties DEF ExeOnTop, Bind, Binding, At
      <4>2. insts'[1] = insts[1] /\ insts # <<>>
        BY <2>1, <2>3, <3>1, <4>1, BindKinds DEF ShapeInv
      <4> QED
        BY <2>1, <2>3, <3>1, <4>1, <4>2, ExeBelow, DllPath DEF ExeOnTop
    <3>2. CASE ~ Bind
      BY <1>1, <2>1, <2>3, <2>5, <3>2, StepTables, ExeBelow DEF ExeOnTop
    <3> QED
      BY <3>1, <3>2
  <2>4. CASE ExeOnTop
    <3>1. CASE Bind
      BY <2>1, <2>4, <3>1, ExeBind
    <3>2. CASE ~ Bind
      <4>1. SameTables
        BY <1>1, <3>2, StepTables
      <4>2. CASE \/ BindTellsNull \/ BindStale \/ BindWrongType \/ BoundExeFails \/ EntryZero
        <5>1. UNCHANGED <<stack, insts>>
          BY <4>2 DEF BindTellsNull, BindStale, BindWrongType, BoundExeFails, EntryZero, Stop
        <5> QED
          BY <2>1, <2>5, <3>2, <5>1, ExeStays
      <4>3. ~ RegisterDll /\ ~ BoundDll /\ ~ ReturnToCaller /\ ~ GuestStep /\ ~ ExecuteStep
        <5>1. Top.pc = "register" => Top.inst # 1
          BY <2>4, ExeTop DEF PcOK
        <5> QED
          BY <2>4, <5>1 DEF ExeOnTop, RegisterDll, BoundDll, ReturnToCaller, IsExe, At,
             GuestStep, GuestCallsImport, LoadLibraryW, LoadLibraryReturns, UseHandle,
             GuestReturns, ExitProcess, Running, ExecuteStep, ExecuteNotFound, ExecuteTrap,
             ExecuteFault, ExecuteBaseTaken, ExecuteRejected, ExecuteMap, PastTrap,
             Executing, Starting
      <4> QED
        BY <1>1, <2>1, <2>4, <2>5, <3>2, <4>1, <4>2, <4>3, ExeSearch, ExeTls, ExeImport, ExeEntry
           DEF Step, LoadStep
    <3> QED
      BY <3>1, <3>2
  <2> QED
    BY <2>2, <2>3, <2>4 DEF ExeOnTop
<1>2. CASE UNCHANGED vars
  <2>1. UNCHANGED <<world, insts, stack, exePath>>
    BY <1>2 DEF vars, process
  <2> QED
    BY <2>1 DEF ExeInv, ExeFrame, CompleteUpTo, AllComplete, Complete, PathGiven, KernelDll,
       Imported, ImportsOf, ImageOf
<1> QED
  BY <1>1, <1>2 DEF Next, Ended

LEMMA ExeRan ==
  ASSUME ShapeInv, ExeInv, insts # <<>>, Ran(1)
  PROVE  AllComplete
<1>1. stack[1].pc \in {"callbacks", "return"}
  <2>1. CASE insts[1].phase \in Begun
    BY <2>1 DEF ExeInv
  <2>2. CASE \E i \in 1..Len(stack) : /\ stack[i].kind = "load" /\ stack[i].inst = 1
                                      /\ stack[i].pc \in {"callbacks", "return"}
    BY <2>2, ExeFirst DEF ShapeInv
  <2> QED
    BY <2>1, <2>2, RanFrames
<1> QED
  BY <1>1 DEF ExeInv, ExeFrame, PastImports

(* No code of the executable runs, TLS callbacks included, before each of  *)
(* its imports was found; only an ordinal that a PE library lacks is NULL. *)
(* Whatever its DLLs import and whichever call fails on the way.           *)
THEOREM LoaderExeRunsOnlyBound == Spec => []ExeRunsOnlyBound
<1>1. ShapeInv /\ ExeInv => ExeRunsOnlyBound
  BY ExeRan DEF ExeRunsOnlyBound, AllComplete, Complete
<1> QED
  BY <1>1, ShapeInit, ExeInit, ExeNext, PTL DEF Spec

(* An executable that imports kernel32 finds its path there when its code  *)
(* runs, unless a DLL that imports kernel32 as well has been mapped.       *)
THEOREM LoaderExePathKept == Spec => []ExePathKept
<1>1. ShapeInv /\ ExeInv => ExePathKept
  <2> SUFFICES ASSUME ShapeInv, ExeInv, insts # <<>>, Ran(1), exePath = "null",
                      Dll("kernel32") \in Imported(world, Exe)
               PROVE  KernelDll
    BY DEF ExePathKept, KernelDll
  <2>1. insts[1].image = Exe
    BY DEF ExeInv
  <2>2. PICK i \in DOMAIN ImportsOf(1) : ImportsOf(1)[i].lib = Dll("kernel32")
    BY <2>1 DEF Imported, ImportsOf, ImageOf
  <2>3. i \in DOMAIN insts[1].iat
    <3>1. 1 \in 1..Len(insts)
      BY World, EmptySeq DEF ShapeInv, ImagesInv
    <3> QED
      BY <2>2, <3>1, World, LenProperties DEF ExeInv
  <2> QED
    BY <2>2, <2>3, ExeRan DEF AllComplete, Complete, PathGiven
<1> QED
  BY <1>1, ShapeInit, ExeInit, ExeNext, PTL DEF Spec
-----------------------------------------------------------------------------
(* What is proved of LibTable and LoadTree, of the loader.                 *)
P == INSTANCE PromiseProofs WITH
       Name <- ModName, Handle <- Nat, held <- Held,
       parent <- [n \in 1..Len(insts) |-> insts[n].parent],
       attached <- {n \in DOMAIN insts : insts[n].phase = "attached"},
       ended <- outcome # "running"

LEMMA LoaderTable == Spec => P!TableSpec
<1>1. T!TableInit => P!TableInit
  BY DEF T!TableInit, P!TableInit
<1>2. [T!TableNext]_(T!tableVars) => [P!TableNext]_(P!tableVars)
  BY DEF T!TableNext, T!AddLoadedLib, T!GetLib, T!Forget, T!Reallocate, T!Retain, T!PointerTo,
     T!tableVars, T!Grow, T!Find, T!FirstMatch, T!Lib,
     P!TableNext, P!AddLoadedLib, P!GetLib, P!Forget, P!Reallocate, P!Retain, P!PointerTo,
     P!tableVars, P!Grow, P!Find, P!FirstMatch, P!Lib
<1> QED
  BY <1>1, <1>2, LoaderUsesTable, PTL DEF T!TableSpec, P!TableSpec

LEMMA LoaderTree == Spec => P!TreeSpec
<1>1. Tree!TreeInit => P!TreeInit
  BY DEF Tree!TreeInit, P!TreeInit
<1>2. [Tree!TreeNext]_(Tree!treeVars) => [P!TreeNext]_(P!treeVars)
  BY DEF Tree!TreeNext, Tree!treeVars, Tree!Open, Tree!Attach, Tree!End, Tree!Opened, Tree!IsInnermost,
     P!TreeNext, P!treeVars, P!Open, P!Attach, P!End, P!Opened, P!IsInnermost
<1> QED
  BY <1>1, <1>2, LoaderDepthFirst, PTL DEF LoadsDepthFirst, Tree!TreeSpec, P!TreeSpec

(* Every pointer into the library table that a frame of the loader or the  *)
(* guest holds, and that the first allocation still backs, denotes the     *)
(* entry it was returned for.                                              *)
THEOREM LoaderHandlesDenote == Spec => []T!HandlesDenote
<1>1. P!TableSpec => []P!HandlesDenote
  BY P!TableHandlesDenote, LoaderAssumption DEF LoaderAssumption
<1>2. P!HandlesDenote => T!HandlesDenote
  BY DEF P!HandlesDenote, T!HandlesDenote, P!PointerTo, T!PointerTo
<1> QED
  BY <1>1, <1>2, LoaderTable, PTL

(* Until the loader has registered more libraries than the first           *)
(* allocation holds, no pointer that is kept is stale, however the loads   *)
(* nest.                                                                   *)
THEOREM LoaderFirstAllocationSafe == Spec => []T!FirstAllocationSafe
<1>1. P!TableSpec => []P!FirstAllocationSafe
  BY P!TableFirstAllocationSafe, LoaderAssumption DEF LoaderAssumption
<1>2. P!FirstAllocationSafe => T!FirstAllocationSafe
  BY DEF P!FirstAllocationSafe, T!FirstAllocationSafe
<1> QED
  BY <1>1, <1>2, LoaderTable, PTL

(* A library once found under a name is what that name is found as for the *)
(* rest of the run, whatever is loaded meanwhile.                          *)
THEOREM LoaderLookupStable == Spec => T!LookupStable
<1>1. P!TableSpec => P!LookupStable
  BY P!TableLookupStable, LoaderAssumption DEF LoaderAssumption
<1>2. P!LookupStable => T!LookupStable
  <2>1. [\A key \in ModName :
           P!Find(libs, key) # 0 => P!Find(libs', key) = P!Find(libs, key)]_(P!tableVars)
        => [\A key \in ModName :
              T!Find(libs, key) # 0 => T!Find(libs', key) = T!Find(libs, key)]_(T!tableVars)
    BY DEF P!tableVars, T!tableVars, P!Find, T!Find, P!FirstMatch, T!FirstMatch
  <2> QED
    BY <2>1, PTL DEF P!LookupStable, T!LookupStable
<1> QED
  BY <1>1, <1>2, LoaderTable, PTL

(* A module of the loader is attached only when every module it caused to  *)
(* be loaded is: entry points return in the reverse order of the opening.  *)
THEOREM LoaderChildrenFirst == Spec => []Tree!ChildrenFirst
<1>1. P!TreeSpec => []P!ChildrenFirst
  BY P!TreeChildrenFirst, LoaderAssumption DEF LoaderAssumption
<1>2. P!ChildrenFirst => Tree!ChildrenFirst
  BY DEF P!ChildrenFirst, Tree!ChildrenFirst, P!Opened, Tree!Opened
<1> QED
  BY <1>1, <1>2, LoaderTree, PTL
-----------------------------------------------------------------------------
(* Why a run crashed, where the reason is no bound on the import graph.    *)
CrashReasons ==
  /\ faults \in Nat
  /\ outcome = "debugTrap" => world.traps # {}
  /\ outcome = "mapFailed" => faults > 0
  /\ outcome = "staleHandle" => Len(libs) > FirstCap

LEMMA CrashesStep ==
  ASSUME ShapeInv, T!FirstAllocationSafe, CrashReasons, Step
  PROVE  CrashReasons'
<1>1. outcome = "running" /\ Len(libs) \in Nat /\ FirstCap \in Nat /\ faults \in Nat
  BY LenProperties, LoaderAssumption DEF Step, ShapeInv, TableInv, CrashReasons, LoaderAssumption
<1>2. CASE ExecuteStep
  <2>1. CASE ExecuteRejected
    <3>1. Exe \in DOMAIN world.img
      BY <2>1 DEF ExecuteRejected, PastTrap, Executing
    <3>2. Refusal(ExeVerdict) \in Verdict
      BY <3>1, World DEF Image, Refusal, ExeVerdict, Verdict
    <3>3. Refusal(ExeVerdict) \notin {"debugTrap", "mapFailed", "staleHandle"}
      BY <3>2 DEF Verdict
    <3> QED
      BY <1>1, <2>1, <3>3 DEF ExecuteRejected, Stop, CrashReasons
  <2>2. CASE ~ ExecuteRejected
    BY <1>1, <1>2, <2>2 DEF ExecuteStep, ExecuteNotFound, ExecuteTrap, ExecuteFault,
       ExecuteBaseTaken, ExecuteMap, Traps, Map, Stop, Fault, CrashReasons
  <2> QED
    BY <2>1, <2>2
<1>3. CASE SearchStep
  <2>1. CASE SearchHit \/ SearchRejected \/ SearchNative \/ SearchMissing
    <3>1. outcome' = outcome /\ (faults' = faults \/ faults' = faults + 1)
      BY <2>1 DEF SearchHit, SearchRejected, SearchNative, SearchMissing, OpenFails, Fault
    <3> QED
      BY <1>1, <3>1 DEF CrashReasons
  <2>2. CASE SearchLoad \/ SearchTrap
    BY <1>1, <2>2 DEF SearchLoad, SearchTrap, Traps, Map, Stop, CrashReasons
  <2>3. CASE SearchMapFails \/ SearchNoMemory
    BY <1>1, <2>3 DEF SearchMapFails, SearchNoMemory, Fault, CrashReasons
  <2> QED
    BY <1>3, <2>1, <2>2, <2>3 DEF SearchStep
<1>4. CASE BindStale \/ UseHandle
  <2>1. \E p \in Held : Dangles(p)
    <3>1. CASE BindStale
      <4>1. stack # <<>> /\ \E p \in Top.loaded : Dangles(p)
        BY <3>1 DEF BindStale, Binding, At
      <4>2. Depth \in 1..Len(stack) /\ Top = stack[Depth]
        BY <4>1, TopRange
      <4> QED
        BY <4>1, <4>2 DEF Held
    <3> QED
      BY <1>4, <3>1 DEF UseHandle, Held
  <2>2. ~ (Len(libs) <= FirstCap)
    BY <2>1 DEF Dangles, T!FirstAllocationSafe
  <2>3. outcome' = "staleHandle" /\ libs' = libs /\ faults' = faults
    BY <1>4 DEF BindStale, UseHandle, Stop, table
  <2> QED
    BY <1>1, <2>2, <2>3 DEF CrashReasons
<1>5. CASE AllocateTls \/ TlsMapFails \/ TlsNoArray \/ TlsCallback \/ TlsDone \/ RegisterDll
  BY <1>1, <1>5 DEF AllocateTls, TlsMapFails, TlsNoArray, TlsCallback, TlsDone, RegisterDll,
     Stop, Fault, CrashReasons
<1>6. CASE \/ NextImport \/ ImportNotFound \/ BindTellsNull \/ BindWrongType \/ Bind
           \/ ImportsDone \/ BoundDll \/ BoundExe \/ BoundExeFails \/ EntryZero
  BY <1>1, <1>6 DEF NextImport, ImportNotFound, BindTellsNull, BindWrongType, Bind,
     ImportsDone, BoundDll, BoundExe, BoundExeFails, EntryZero, Stop, CrashReasons
<1>7. CASE \/ InvokeEntry \/ ReturnToMain \/ ReturnToCaller \/ GuestCallsImport
           \/ LoadLibraryW \/ LoadLibraryReturns \/ GuestReturns \/ ExitProcess
  BY <1>1, <1>7 DEF InvokeEntry, ReturnToMain, ReturnToCaller, GuestCallsImport,
     LoadLibraryW, LoadLibraryReturns, GuestReturns, ExitProcess, Stop, CrashReasons
<1> QED
  BY <1>2, <1>3, <1>4, <1>5, <1>6, <1>7 DEF Step, LoadStep, GuestStep

(* A run ends at a trap only if the host traps a store to address 0, at a  *)
(* failed mapping only if a system call failed, and by using a freed       *)
(* library only if more were registered than the first allocation holds.   *)
LEMMA CrashReasonsAlways == Spec => []CrashReasons
<1>1. Init => CrashReasons
  BY DEF Init, CrashReasons
<1>2. ShapeInv /\ T!FirstAllocationSafe /\ CrashReasons /\ [Next]_vars => CrashReasons'
  BY CrashesStep DEF Next, Ended, vars, table, CrashReasons
<1> QED
  BY <1>1, <1>2, ShapeAlways, LoaderFirstAllocationSafe, PTL DEF Spec
-----------------------------------------------------------------------------
(* How a run ends.  Every crash and every refusal is traced back to the     *)
(* world or to a bound, which takes four invariants: TraceInv, where what  *)
(* a search found came from; CountInv, whose the TLS slots are; NestInv,   *)
(* how deep the layers of the import graph let the stack grow; CleanInv,   *)
(* that where every import resolves, every import gets bound.              *)

(* The stack after a step that replaces the top frame.                     *)
LEMMA Turned ==
  ASSUME ShapeInv, stack # <<>>, NEW f,
         stack' = Replace(f) \/ \E g : stack' = Push(Replace(f), g)
  PROVE  /\ stack'[Depth] = f /\ \A i \in 1..(Depth - 1) : stack'[i] = stack[i]
         /\ stack' = Replace(f) => Len(stack') = Depth
         /\ \A g : stack' = Push(Replace(f), g) =>
              Len(stack') = Depth + 1 /\ stack'[Depth + 1] = g
<1>1. stack \in Seq(AnyFrame) /\ Depth \in Nat \ {0}
  BY TopRange DEF ShapeInv, Shape
<1>2. CASE stack' = Replace(f) /\ ~ \E g : stack' = Push(Replace(f), g)
  <2>1. PICK R : R = AnyFrame \cup {f}
    OBVIOUS
  <2>2. stack \in Seq(R) /\ f \in R
    BY <1>1, <2>1, Wider
  <2>3. /\ Len(Replace(f)) = Depth /\ Replace(f)[Depth] = f
        /\ \A i \in 1..(Depth - 1) : Replace(f)[i] = stack[i]
    BY <2>2, ReplaceFrames
  <2> QED
    BY <1>2, <2>3
<1>3. ASSUME NEW g, stack' = Push(Replace(f), g)
      PROVE  /\ stack'[Depth] = f /\ \A i \in 1..(Depth - 1) : stack'[i] = stack[i]
             /\ Len(stack') = Depth + 1 /\ stack'[Depth + 1] = g
  <2>1. PICK R : R = AnyFrame \cup {f, g}
    OBVIOUS
  <2>2. stack \in Seq(R) /\ f \in R /\ g \in R
    BY <1>1, <2>1, Wider
  <2>3. /\ Replace(f) \in Seq(R) /\ Len(Replace(f)) = Depth /\ Replace(f)[Depth] = f
        /\ \A i \in 1..(Depth - 1) : Replace(f)[i] = stack[i]
    BY <2>2, ReplaceFrames
  <2>4. PICK r \in Seq(R) : r = Replace(f)
    BY <2>3
  <2>5. /\ Len(Push(r, g)) = Len(r) + 1 /\ Push(r, g)[Len(r) + 1] = g
        /\ \A i \in 1..Len(r) : Push(r, g)[i] = r[i]
    BY <2>2, <2>4, AppendProperties DEF Push
  <2> QED
    BY <1>1, <1>3, <2>3, <2>4, <2>5
<1>4. CASE \E g : stack' = Push(Replace(f), g)
  <2>1. PICK g : stack' = Push(Replace(f), g)
    BY <1>4
  <2>2. stack'[Depth] = f /\ Len(stack') = Depth + 1
    BY <1>3, <2>1
  <2>3. stack' # Replace(f)
    <3>1. PICK R : R = AnyFrame \cup {f}
      OBVIOUS
    <3>2. stack \in Seq(R) /\ f \in R
      BY <1>1, <3>1, Wider
    <3>3. Len(Replace(f)) = Depth
      BY <3>2, ReplaceFrames
    <3> QED
      BY <1>1, <2>2, <3>3
  <2> QED
    BY <1>3, <1>4, <2>3
<1> QED
  BY <1>2, <1>4

(* What a search turns the top frame into: it found an entry of the table, *)
(* or a native library, or nothing, or it awaits the module it loads.      *)
SameSearch(f) ==
  /\ f \in AnyFrame /\ f.kind = Top.kind /\ f.inst = Top.inst /\ f.imp = Top.imp
  /\ f.want = Top.want /\ f.res = Top.res /\ f.status = Top.status

Hits(f) ==
  /\ f.pc = "found" /\ f.native = Top.native
  /\ \E p : f.loaded = {p} /\ p.lib.name = Key(Top) /\ PtrOK(p)
Finds(f) ==
  /\ f.pc = "found" /\ f.loaded = Top.loaded /\ OpenFails
  /\ \E p : f.native = {p} /\ p.lib.name = Want(Top)
Lacks(f) ==
  /\ f.pc = "found" /\ f.loaded = Top.loaded /\ f.native = Top.native
  /\ \/ Fault
     \/ FileThere(Want(Top)) /\ VerdictOf(Want(Top)) # "SUCCESS"
     \/ OpenFails /\ ~ NativeThere(Want(Top))
Waits(f) ==
  /\ f.pc = "await" /\ FileThere(Want(Top))
  /\ stack' = Push(Replace(f), LoadFrame(Len(insts) + 1, "tls"))
  /\ insts' = Append(insts, Instance(Want(Top).stem, Top.inst))

LEMMA SearchTo ==
  ASSUME ShapeInv, SearchStep, stack' # stack
  PROVE  \E f : /\ SameSearch(f)
                /\ \/ Waits(f)
                   \/ stack' = Replace(f) /\ insts' = insts /\ (Hits(f) \/ Finds(f) \/ Lacks(f))
<1>1. Searching /\ Top \in AnyFrame /\ TableInv /\ Want(Top) \in ModName
  <2>1. Searching
    BY DEF SearchStep, SearchHit, SearchLoad, SearchTrap, SearchRejected,
       SearchMapFails, SearchNoMemory, SearchNative, SearchMissing, Absent
  <2> QED
    BY <2>1, TopRange, Wanted DEF Searching, ShapeInv
<1>2. "found" \in Pc /\ "await" \in Pc /\ "SUCCESS" \in Status /\ 1 \in Nat \ {0}
  BY DEF Pc, Status
<1>3. CASE SearchHit
  <2> DEFINE q == T!PointerTo(block, T!Find(libs, Key(Top)), libs)
  <2>1. PICK p : p = q
    OBVIOUS
  <2>2. PtrOK(p) /\ p.lib = libs[T!Find(libs, Key(Top))] /\ p.lib.name = Key(Top)
    BY <1>1, <1>3, <2>1, Found DEF SearchHit, T!PointerTo
  <2> HIDE DEF q
  <2>3. PICK f : f = [Top EXCEPT !.pc = "found", !.loaded = {p}]
    OBVIOUS
  <2>4. stack' = Replace(f) /\ insts' = insts
    BY <1>3, <2>1, <2>3 DEF SearchHit, q
  <2>5. {p} \in SUBSET T!Pointer
    BY <2>2 DEF PtrOK
  <2>6. f \in AnyFrame
    BY <1>1, <1>2, <2>3, <2>5, Fields
  <2>7. SameSearch(f) /\ f.pc = "found" /\ f.native = Top.native /\ f.loaded = {p}
    BY <1>1, <2>3, <2>6 DEF SameSearch, AnyFrame
  <2> QED
    BY <2>2, <2>4, <2>7 DEF Hits
<1>4. CASE SearchNative
  <2>1. PICK p : p = PointerTo(Len(libs'))
    OBVIOUS
  <2>2. Register(Want(Top), "NATIVE", 0) /\ UNCHANGED <<handles, tlsIndex>> /\ OpenFails
    BY <1>4 DEF SearchNative, process, guest
  <2>3. PtrOK(p)' /\ p.lib = libs'[Len(libs')]
        /\ libs'[Len(libs')] = [name |-> Want(Top), kind |-> "NATIVE", handle |-> 0]
    <3>1. "NATIVE" \in {"PE", "NATIVE"} /\ 0 \in Nat /\ "NATIVE" # "PE"
      OBVIOUS
    <3> QED
      BY <1>1, <2>1, <2>2, <3>1, Registered
  <2>4. p.lib.name = Want(Top) /\ {p} \in SUBSET T!Pointer
    BY <2>3 DEF PtrOK
  <2>5. PICK f : f = [Top EXCEPT !.pc = "found", !.native = {p}]
    OBVIOUS
  <2>6. stack' = Replace(f) /\ insts' = insts
    BY <1>4, <2>1, <2>5 DEF SearchNative
  <2>7. f \in AnyFrame
    BY <1>1, <1>2, <2>4, <2>5, Fields
  <2>8. SameSearch(f) /\ f.pc = "found" /\ f.native = {p} /\ f.loaded = Top.loaded
    BY <1>1, <2>5, <2>7 DEF SameSearch, AnyFrame
  <2> QED
    BY <2>2, <2>4, <2>6, <2>8 DEF Finds
<1>5. CASE SearchRejected \/ SearchNoMemory \/ SearchMissing
  <2>1. PICK f : f = [Top EXCEPT !.pc = "found"]
    OBVIOUS
  <2>2. stack' = Replace(f) /\ insts' = insts
    BY <1>5, <2>1 DEF SearchRejected, SearchNoMemory, SearchMissing
  <2>3. \/ Fault
        \/ FileThere(Want(Top)) /\ VerdictOf(Want(Top)) # "SUCCESS"
        \/ OpenFails /\ ~ NativeThere(Want(Top))
    BY <1>5 DEF SearchRejected, SearchNoMemory, SearchMissing
  <2>4. f \in AnyFrame
    <3>1. {} \in SUBSET T!Pointer
      OBVIOUS
    <3> QED
      BY <1>1, <1>2, <2>1, <3>1, Fields
  <2>5. SameSearch(f) /\ f.pc = "found" /\ f.native = Top.native /\ f.loaded = Top.loaded
    BY <1>1, <2>1, <2>4 DEF SameSearch, AnyFrame
  <2> QED
    BY <2>2, <2>3, <2>5 DEF Lacks
<1>6. CASE SearchLoad
  <2>1. PICK f : f = [Top EXCEPT !.pc = "await"]
    OBVIOUS
  <2>2. /\ stack' = Push(Replace(f), LoadFrame(Len(insts) + 1, "tls")) /\ FileThere(Want(Top))
        /\ insts' = Append(insts, Instance(Want(Top).stem, Top.inst))
    BY <1>6, <2>1 DEF SearchLoad, Map, Stop
  <2>3. f \in AnyFrame
    <3>1. {} \in SUBSET T!Pointer
      OBVIOUS
    <3> QED
      BY <1>1, <1>2, <2>1, <3>1, Fields
  <2>4. SameSearch(f) /\ f.pc = "await"
    BY <1>1, <2>1, <2>3 DEF SameSearch, AnyFrame
  <2> QED
    BY <2>2, <2>4 DEF Waits
<1> QED
  BY <1>3, <1>4, <1>5, <1>6 DEF SearchStep, SearchTrap, SearchMapFails, Stop

(* Neither found nor awaited: what the other steps make of a frame, but    *)
(* for the return of load_dll_library.                                     *)
Plain(f) ==
  /\ f.pc \notin {"found", "await"}
  /\ f.pc = "search" => f.native = {}
  /\ f.kind = "call" => f.want.ext = "dll"

Elsewhere(i) ==
  \/ i \in 1..Len(stack) /\ stack'[i] = stack[i]
  \/ Plain(stack'[i])

LEMMA TurnedElsewhere ==
  ASSUME ShapeInv, stack # <<>>, NEW f, f = Top \/ Plain(f),
         stack' = Replace(f) \/ \E g : Plain(g) /\ stack' = Push(Replace(f), g)
  PROVE  \A i \in 1..Len(stack') : Elsewhere(i)
<1>1. Depth \in Nat \ {0} /\ Depth = Len(stack) /\ Top = stack[Depth]
  BY TopRange
<1>2. CASE stack' = Replace(f)
  BY <1>1, <1>2, Turned DEF Elsewhere
<1>3. CASE \E g : Plain(g) /\ stack' = Push(Replace(f), g)
  <2>1. PICK g : Plain(g) /\ stack' = Push(Replace(f), g)
    BY <1>3
  <2>2. /\ stack'[Depth] = f /\ \A i \in 1..(Depth - 1) : stack'[i] = stack[i]
        /\ Len(stack') = Depth + 1 /\ stack'[Depth + 1] = g
    BY <2>1, Turned
  <2> QED
    BY <1>1, <2>1, <2>2 DEF Elsewhere
<1> QED
  BY <1>2, <1>3

LEMMA LoadElsewhere ==
  ASSUME ShapeInv, LoadStep, ~ ReturnToCaller
  PROVE  \A i \in 1..Len(stack') : Elsewhere(i)
<1>1. CASE \/ TlsMapFails \/ TlsNoArray \/ BindTellsNull \/ BindStale \/ BindWrongType
           \/ BoundExeFails \/ EntryZero \/ ReturnToMain
  <2>1. stack' = stack
    BY <1>1 DEF TlsMapFails, TlsNoArray, BindTellsNull, BindStale, BindWrongType,
       BoundExeFails, EntryZero, ReturnToMain, Stop
  <2> QED
    BY <2>1 DEF Elsewhere
<1> SUFFICES ASSUME ~ (\/ TlsMapFails \/ TlsNoArray \/ BindTellsNull \/ BindStale \/ BindWrongType
                       \/ BoundExeFails \/ EntryZero \/ ReturnToMain)
             PROVE  \A i \in 1..Len(stack') : Elsewhere(i)
  BY <1>1
<1>2. stack # <<>> /\ Top \in AnyFrame /\ Top.kind = "load"
  <2>1. stack # <<>> /\ Top.kind = "load"
    BY DEF LoadStep, AllocateTls, TlsCallback, TlsDone, RegisterDll, NextImport, ImportNotFound,
       Bind, Binding, ImportsDone, BoundDll, BoundExe, InvokeEntry, At
  <2> QED
    BY <2>1, TopRange
<1>3. CASE AllocateTls
  <2>1. CASE stack' = stack
    BY <2>1 DEF Elsewhere
  <2>2. CASE stack' # stack
    <3>1. PICK pc \in {"entry", "register", "callbacks"} :
            stack' = Replace([Top EXCEPT !.pc = pc])
      BY <1>3, <2>2 DEF AllocateTls, Stop
    <3>2. PICK f : f = [Top EXCEPT !.pc = pc]
      OBVIOUS
    <3>3. Plain(f)
      BY <1>2, <3>2 DEF AnyFrame, Plain
    <3> QED
      BY <1>2, <3>1, <3>2, <3>3, TurnedElsewhere
  <2> QED
    BY <2>1, <2>2
<1>4. CASE TlsCallback
  <2>1. PICK f, g : f = [Top EXCEPT !.cb = Top.cb + 1] /\ g = GuestFrame(Top.inst)
    OBVIOUS
  <2>2. stack' = Push(Replace(f), g) /\ Plain(f) /\ Plain(g)
    <3>1. Top.inst \in Nat \ {0}
      BY <1>2 DEF AnyFrame
    <3> QED
      BY <1>2, <1>4, <2>1, <3>1, NewGuest DEF TlsCallback, At, AnyFrame, Plain
  <2> QED
    BY <1>2, <2>2, TurnedElsewhere
<1>5. CASE TlsDone \/ BoundDll \/ BoundExe
  <2>1. PICK pc \in {"entry", "register", "tls"} : stack' = Replace([Top EXCEPT !.pc = pc])
    BY <1>5 DEF TlsDone, BoundDll, BoundExe
  <2>2. PICK f : f = [Top EXCEPT !.pc = pc]
    OBVIOUS
  <2>3. Plain(f)
    BY <1>2, <2>2 DEF AnyFrame, Plain
  <2> QED
    BY <1>2, <2>1, <2>2, <2>3, TurnedElsewhere
<1>10. CASE NextImport \/ ImportsDone
  <2>1. PICK pc \in {"search", "bound"} :
          stack' = Replace([Top EXCEPT !.pc = pc, !.loaded = {}, !.native = {}])
    BY <1>10 DEF NextImport, ImportsDone
  <2>2. PICK f : f = [Top EXCEPT !.pc = pc, !.loaded = {}, !.native = {}]
    OBVIOUS
  <2>3. Plain(f)
    BY <1>2, <2>2 DEF AnyFrame, Plain
  <2> QED
    BY <1>2, <2>1, <2>2, <2>3, TurnedElsewhere
<1>6. CASE RegisterDll
  <2>1. PICK q : q = PointerTo(Len(libs'))
    OBVIOUS
  <2>2. PICK f : f = [Top EXCEPT !.pc = "import", !.res = {q}]
    OBVIOUS
  <2>3. stack' = Replace(f) /\ Plain(f)
    BY <1>2, <1>6, <2>1, <2>2 DEF RegisterDll, AnyFrame, Plain
  <2> QED
    BY <1>2, <2>3, TurnedElsewhere
<1>7. CASE ImportNotFound
  <2>1. PICK f : f = [Top EXCEPT !.pc = "import", !.imp = Top.imp + 1, !.status = "NOT_FOUND"]
    OBVIOUS
  <2>2. stack' = Replace(f) /\ Plain(f)
    BY <1>2, <1>7, <2>1 DEF ImportNotFound, AnyFrame, Plain
  <2> QED
    BY <1>2, <2>2, TurnedElsewhere
<1>8. CASE Bind
  <2>1. PICK f : /\ stack' = Replace(f)
                 /\ \/ f = [Top EXCEPT !.pc = "bound", !.status = "INVALID"]
                    \/ \E s : f = [Top EXCEPT !.pc = "import", !.imp = Top.imp + 1, !.status = s]
    <3>1. PICK invalid, missing :
            stack' = Replace(
             IF invalid THEN [Top EXCEPT !.pc = "bound", !.status = "INVALID"]
             ELSE [Top EXCEPT !.pc = "import", !.imp = Top.imp + 1,
                              !.status = IF missing THEN "NOT_FOUND" ELSE @])
      BY <1>8 DEF Bind
    <3> QED
      BY <3>1
  <2>2. Plain(f)
    BY <1>2, <2>1 DEF AnyFrame, Plain
  <2> QED
    BY <1>2, <2>1, <2>2, TurnedElsewhere
<1>9. CASE InvokeEntry
  <2>1. PICK f, g : f = [Top EXCEPT !.pc = "return"] /\ g = GuestFrame(Top.inst)
    OBVIOUS
  <2>2. stack' = Push(Replace(f), g) /\ Plain(f) /\ Plain(g)
    <3>1. Top.inst \in Nat \ {0}
      BY <1>2 DEF AnyFrame
    <3> QED
      BY <1>2, <1>9, <2>1, <3>1, NewGuest DEF InvokeEntry, AnyFrame, Plain
  <2> QED
    BY <1>2, <2>2, TurnedElsewhere
<1> QED
  BY <1>3, <1>4, <1>5, <1>6, <1>7, <1>8, <1>9, <1>10 DEF LoadStep

LEMMA StepElsewhere ==
  ASSUME ShapeInv, Step, ~ SearchStep, ~ ReturnToCaller
  PROVE  \A i \in 1..Len(stack') : Elsewhere(i)
<1>1. CASE ExecuteStep
  <2>1. CASE stack' = stack
    BY <2>1 DEF Elsewhere
  <2>2. CASE stack' # stack
    <3>1. /\ stack = <<>> /\ insts = <<>>
          /\ stack' = Push(stack, LoadFrame(Len(insts) + 1, "import"))
      BY <1>1, <2>2 DEF ExecuteStep, ExecuteNotFound, ExecuteTrap, ExecuteFault, ExecuteBaseTaken,
         ExecuteRejected, ExecuteMap, PastTrap, Executing, Starting, Map, Stop
    <3>2. PICK g : g = LoadFrame(1, "import") /\ Plain(g)
      BY StartFrame DEF Plain
    <3>3. stack' = <<g>>
      BY <3>1, <3>2 DEF Push
    <3> QED
      BY <3>2, <3>3 DEF Elsewhere
  <2> QED
    BY <2>1, <2>2
<1>2. CASE GuestCallsImport \/ UseHandle \/ ExitProcess
  <2>1. stack' = stack
    BY <1>2 DEF GuestCallsImport, UseHandle, ExitProcess, Stop
  <2> QED
    BY <2>1 DEF Elsewhere
<1>3. CASE LoadLibraryReturns \/ GuestReturns
  <2>1. stack # <<>> /\ stack' = Popped /\ stack \in Seq(AnyFrame)
    BY <1>3 DEF LoadLibraryReturns, GuestReturns, Running, At, ShapeInv, Shape
  <2>2. Len(stack') = Depth - 1 /\ \A i \in 1..(Depth - 1) : stack'[i] = stack[i]
    BY <2>1, PopFrames
  <2> QED
    BY <2>1, <2>2, TopRange DEF Elsewhere
<1>4. CASE LoadLibraryW
  <2>1. stack # <<>> /\ Top.pc = "run" /\ Top.inst \in Nat \ {0}
    BY <1>4, TopRange DEF LoadLibraryW, Running, At, AnyFrame
  <2>2. PICK s \in Stem : stack' = Push(stack, CallFrame(Top.inst, Dll(s)))
    BY <1>4 DEF LoadLibraryW
  <2>3. Dll(s) \in ModName
    BY DEF Dll, ModName
  <2>4. PICK g : g = CallFrame(Top.inst, Dll(s)) /\ Plain(g)
    BY <2>1, <2>3, NewCall DEF Plain, Dll
  <2>5. stack' = Push(Replace(Top), g)
    <3>1. Shape(stack, Len(insts)) /\ Len(insts) \in Nat
      BY World DEF ShapeInv
    <3> QED
      BY <2>1, <2>2, <2>4, <3>1, ReplaceTop
  <2> QED
    BY <2>1, <2>4, <2>5, TurnedElsewhere
<1> QED
  BY <1>1, <1>2, <1>3, <1>4, LoadElsewhere DEF Step, GuestStep
-----------------------------------------------------------------------------
(* What the loader found for an import: an entry of the table that is a    *)
(* native library, which takes a name that does not end in .dll, or the    *)
(* module it loaded, or the native library of that name.                   *)
Traced(f) ==
  /\ f.kind = "call" => f.want.ext = "dll"
  /\ f.kind = "load" =>
       /\ f.pc = "search" => f.native = {}
       /\ f.pc = "await" => IsFile(world, Want(f))
       /\ f.pc = "found" =>
            /\ \A p \in f.loaded :
                 \/ p.lib.kind = "NATIVE" /\ ~ OnlyDllNames(world)
                 \/ /\ p.lib.kind = "PE" /\ IsFile(world, Want(f))
                    /\ p.lib.handle \in 1..Len(insts)
                    /\ insts[p.lib.handle].image = Want(f).stem
            /\ \A p \in f.native : p.lib.name.stem = Want(f).stem

Awaited(f, g) ==
  f.kind = "load" /\ f.pc = "await" /\ g.kind = "load" => insts[g.inst].image = Want(f).stem

DllNames == OnlyDllNames(world) => \A k \in 1..Len(libs) : libs[k].name.ext = "dll"

TraceInv ==
  /\ DllNames
  /\ \A i \in 1..Len(stack) : Traced(stack[i])
  /\ \A i \in 1..(Len(stack) - 1) : Awaited(stack[i], stack[i + 1])

LEMMA ImageStays ==
  ASSUME ShapeInv, Kinds, Kept
  PROVE  /\ Len(insts') \in Nat /\ Len(insts) \in Nat /\ Len(insts) <= Len(insts')
         /\ \A n \in 1..Len(insts) : /\ n \in 1..Len(insts') /\ insts'[n].image = insts[n].image
                                     /\ ImageOf(n)' = ImageOf(n) /\ ImportsOf(n)' = ImportsOf(n)
<1>1. world' = world /\ Len(insts) \in Nat
  BY World DEF Kept
<1>2. /\ Len(insts') \in Nat /\ Len(insts) <= Len(insts')
      /\ \A n \in 1..Len(insts) : insts'[n].image = insts[n].image
  <2>1. CASE SameImages
    BY <1>1, <2>1 DEF SameImages
  <2>2. CASE \E s \in DOMAIN world.img, parent \in Nat : insts' = Append(insts, Instance(s, parent))
    BY <1>1, <2>2, InstanceAdded
  <2> QED
    BY <2>1, <2>2, ImagesGrow
<1> QED
  BY <1>1, <1>2 DEF ImageOf, ImportsOf

LEMMA WantStays ==
  ASSUME ShapeInv, Kinds, Kept, NEW f, f.kind = "load" => f.inst \in 1..Len(insts)
  PROVE  Want(f)' = Want(f)
BY ImageStays DEF Want

LEMMA TracedStays ==
  ASSUME ShapeInv, Kinds, Kept, NEW f, f.kind = "load" => f.inst \in 1..Len(insts), Traced(f)
  PROVE  Traced(f)'
<1>1. Want(f)' = Want(f) /\ world' = world
  BY WantStays DEF Kept
<1> QED
  BY <1>1, ImageStays DEF Traced

(* What a load frame searches for.                                         *)
LEMMA ImportNames ==
  ASSUME ShapeInv, OnlyDllNames(world), NEW i \in 1..Len(stack), Traced(stack[i]),
         stack[i].pc \in {"search", "await", "found"}
  PROVE  Want(stack[i]).ext = "dll"
<1> DEFINE f == stack[i]
<1>1. /\ f \in AnyFrame /\ f.inst \in 1..Len(insts) /\ FrameIn(f)
      /\ f.kind \in {"load", "call"}
  BY ElementOfSeq, FramesIn, Wanted DEF ShapeInv, Shape
<1>2. CASE f.kind = "call"
  BY <1>2 DEF Want, Traced
<1>3. CASE f.kind = "load"
  <2>1. /\ f.imp \in 1..Len(ImportsOf(f.inst)) /\ DOMAIN ImportsOf(f.inst) = 1..Len(ImportsOf(f.inst))
    <3>1. ImportsOf(f.inst) \in Seq(Import) /\ f.imp \in Nat \ {0} /\ f.imp <= Len(ImportsOf(f.inst))
      BY <1>1, <1>3, World DEF FrameIn, AnyFrame
    <3> QED
      BY <3>1, LenProperties
  <2>2. insts[f.inst].image \in Files(world)
    BY <1>1 DEF ShapeInv, ImagesInv, Files
  <2>3. Want(f) \in Imported(world, insts[f.inst].image)
    BY <1>3, <2>1 DEF Want, Imported, ImportsOf, ImageOf
  <2> QED
    BY <2>2, <2>3 DEF OnlyDllNames
<1> QED
  BY <1>1, <1>2, <1>3

LEMMA DllNamesStep ==
  ASSUME ShapeInv, TraceInv, Step, Kept
  PROVE  DllNames'
<1> SUFFICES ASSUME OnlyDllNames(world)
             PROVE  \A k \in 1..Len(libs') : libs'[k].name.ext = "dll"
  BY DEF DllNames, Kept
<1>1. \A k \in 1..Len(libs) : libs[k].name.ext = "dll"
  BY DEF TraceInv, DllNames
<1>2. ASSUME NEW name, NEW kind, NEW handle, Register(name, kind, handle), name.ext = "dll"
      PROVE  \A k \in 1..Len(libs') : libs'[k].name.ext = "dll"
  <2>1. PICK l : l = [name |-> name, kind |-> kind, handle |-> handle]
    OBVIOUS
  <2>2. libs' = Append(libs, l) /\ libs \in Seq(T!Lib) /\ l.name = name
    BY <1>2, <2>1 DEF Register, ShapeInv, TableInv
  <2>3. PICK R : R = T!Lib \cup {l}
    OBVIOUS
  <2>4. libs \in Seq(R) /\ l \in R
    BY <2>2, <2>3, Wider
  <2>5. /\ Len(libs) \in Nat /\ Len(libs') = Len(libs) + 1 /\ libs'[Len(libs) + 1] = l
        /\ \A k \in 1..Len(libs) : libs'[k] = libs[k]
    BY <2>2, <2>4, AppendProperties, LenProperties
  <2> QED
    BY <1>1, <1>2, <2>2, <2>5
<1>3. CASE SearchNative
  <2>1. Searching /\ Register(Want(Top), "NATIVE", 0)
    BY <1>3 DEF SearchNative, Absent
  <2>2. Depth \in 1..Len(stack) /\ Top = stack[Depth] /\ Top.pc = "search"
    BY <2>1, TopRange DEF Searching
  <2>3. Want(Top).ext = "dll"
    BY <2>2, ImportNames DEF TraceInv
  <2> QED
    BY <1>2, <2>1, <2>3
<1>4. CASE RegisterDll
  BY <1>2, <1>4 DEF RegisterDll, Dll
<1>5. CASE ReturnToCaller /\ Register(Want(Below), "NATIVE", 0)
  <2>1. stack # <<>> /\ Top.kind = "load" /\ Top.inst # 1
    BY <1>5 DEF ReturnToCaller, At, IsExe
  <2>2. PICK N \in Nat : N = Len(insts) /\ Shape(stack, N)
    BY World DEF ShapeInv
  <2>3. {} \in SUBSET T!Pointer
    OBVIOUS
  <2>4. Depth > 1 /\ Below = stack[Depth - 1] /\ Below.pc = "await"
    BY <2>1, <2>2, <2>3, ShapeResume
  <2>5. Depth - 1 \in 1..Len(stack)
    BY <2>1, <2>4, TopRange
  <2>6. Want(Below).ext = "dll"
    BY <2>4, <2>5, ImportNames DEF TraceInv
  <2> QED
    BY <1>2, <1>5, <2>6
<1>6. CASE libs' = libs
  BY <1>1, <1>6
<1>7. ASSUME ~ SearchNative, ~ RegisterDll, ~ (ReturnToCaller /\ Register(Want(Below), "NATIVE", 0))
      PROVE  libs' = libs
  <2>1. CASE ExecuteStep
    BY <2>1 DEF ExecuteStep, ExecuteNotFound, ExecuteTrap, ExecuteFault, ExecuteBaseTaken,
       ExecuteRejected, ExecuteMap, Map, Stop, table
  <2>2. CASE SearchStep
    BY <1>7, <2>2 DEF SearchStep, SearchHit, SearchLoad, SearchTrap, SearchRejected,
       SearchMapFails, SearchNoMemory, SearchMissing, Map, Stop, table
  <2>3. CASE \/ AllocateTls \/ TlsMapFails \/ TlsNoArray \/ TlsCallback \/ TlsDone
             \/ NextImport \/ ImportNotFound \/ BindTellsNull \/ BindStale \/ BindWrongType \/ Bind
    BY <2>3 DEF AllocateTls, TlsMapFails, TlsNoArray, TlsCallback, TlsDone, NextImport,
       ImportNotFound, BindTellsNull, BindStale, BindWrongType, Bind, Stop, table
  <2>4. CASE \/ ImportsDone \/ BoundDll \/ BoundExe \/ BoundExeFails
             \/ EntryZero \/ InvokeEntry \/ ReturnToMain \/ ReturnToCaller
    BY <1>7, <2>4 DEF ImportsDone, BoundDll, BoundExe, BoundExeFails, EntryZero, InvokeEntry,
       ReturnToMain, ReturnToCaller, Stop, table
  <2>5. CASE GuestStep
    BY <2>5 DEF GuestStep, GuestCallsImport, LoadLibraryW, LoadLibraryReturns, UseHandle,
       GuestReturns, ExitProcess, Stop, table
  <2> QED
    BY <1>7, <2>1, <2>2, <2>3, <2>4, <2>5 DEF Step, LoadStep
<1> QED
  BY <1>3, <1>4, <1>5, <1>6, <1>7

(* What a search gives the top frame.                                      *)
LEMMA SearchTraced ==
  ASSUME BindInv, TraceInv, Kinds, Kept, SearchStep, NEW f, SameSearch(f),
         Waits(f) \/ Hits(f) \/ Finds(f) \/ Lacks(f)
  PROVE  Traced(f)'
<1>1. Searching /\ ShapeInv /\ HoldsInv
  BY DEF SearchStep, SearchHit, SearchLoad, SearchTrap, SearchRejected,
     SearchMapFails, SearchNoMemory, SearchNative, SearchMissing, Absent, BindInv, DepthInv
<1>2. /\ Depth \in 1..Len(stack) /\ Top = stack[Depth] /\ Top.pc = "search" /\ Top \in AnyFrame
      /\ Top.inst \in 1..Len(insts) /\ Want(Top) \in ModName
  BY <1>1, TopRange, Wanted DEF Searching
<1>3. Traced(Top) /\ FrameOK(Top, Attached)
  BY <1>1, <1>2 DEF TraceInv, HoldsInv
<1>4. Want(f) = Want(Top)
  BY DEF SameSearch, Want
<1>5. Traced(f)
  <2>1. f.kind = Top.kind /\ f.inst = Top.inst /\ f.want = Top.want
    BY DEF SameSearch
  <2>2. CASE f.kind # "load"
    BY <1>3, <2>1, <2>2 DEF Traced
  <2> SUFFICES ASSUME f.kind = "load" PROVE Traced(f)
    BY <2>2
  <2>3. Top.loaded = {} /\ Top.native = {}
    BY <1>2, <1>3, <2>1 DEF Traced, FrameOK
  <2>4. CASE Waits(f)
    BY <1>4, <2>4 DEF Waits, Traced, FileThere, IsFile, Files
  <2>5. CASE Hits(f)
    <3>1. PICK p : f.loaded = {p} /\ p.lib.name = Key(Top) /\ PtrOK(p)
      BY <2>5 DEF Hits
    <3>2. p.lib.name.ext # "dll"
      <4>1. Key(Top) = Cut4(Want(Top))
        BY <2>1 DEF Key
      <4> QED
        BY <1>2, <3>1, <4>1 DEF Cut4, ModName
    <3>3. p.lib \in T!Lib /\ p.idx \in 1..Len(libs) /\ p.lib = libs[p.idx]
      BY <3>1 DEF PtrOK, T!Pointer
    <3>4. p.lib.kind = "NATIVE"
      BY <1>1, <3>2, <3>3 DEF T!Lib, ShapeInv, TableInv
    <3>5. ~ OnlyDllNames(world)
      BY <3>2, <3>3 DEF TraceInv, DllNames
    <3> QED
      BY <2>3, <2>5, <3>1, <3>4, <3>5 DEF Hits, Traced
  <2>6. CASE Finds(f)
    BY <1>4, <2>3, <2>6 DEF Finds, Traced
  <2>7. CASE Lacks(f)
    BY <2>3, <2>7 DEF Lacks, Traced
  <2> QED
    BY <2>4, <2>5, <2>6, <2>7
<1> QED
  BY <1>1, <1>2, <1>5, TracedStays DEF SameSearch

(* The caller resumes with the module that was loaded for it.              *)
LEMMA ReturnTo ==
  ASSUME ShapeInv, ReturnToCaller
  PROVE  /\ Depth > 1 /\ Depth \in Nat /\ Depth = Len(stack) /\ Below = stack[Depth - 1] /\ Below \in AnyFrame
         /\ Below.pc = "await" /\ Below.kind \in {"load", "call"}
         /\ Top.kind = "load" /\ Top.pc = "return" /\ Top.inst # 1 /\ Top = stack[Depth]
         /\ Below.kind = "load" => Below.inst \in 1..Len(insts)
         /\ \E f \in AnyFrame :
              /\ Len(stack') = Depth - 1 /\ stack'[Depth - 1] = f
              /\ \A i \in 1..(Depth - 2) : stack'[i] = stack[i]
              /\ f.kind = Below.kind /\ f.inst = Below.inst /\ f.imp = Below.imp
              /\ f.want = Below.want /\ f.res = Below.res /\ f.status = Below.status
              /\ f.pc = "found" /\ f.loaded = Top.res
              /\ \/ f.native = {} /\ ~ FallsBack
                 \/ FallsBack /\ \E p : f.native = {p} /\ p.lib.name = Want(Below)
<1>1. stack # <<>> /\ Top.kind = "load" /\ Top.pc = "return" /\ Top.inst # 1
  BY DEF ReturnToCaller, At, IsExe
<1>2. PICK N \in Nat : N = Len(insts) /\ Shape(stack, N)
  BY World DEF ShapeInv
<1>3. \E native \in SUBSET T!Pointer :
        /\ stack' = Resume(native)
        /\ \/ native = {} /\ ~ FallsBack
           \/ FallsBack /\ \E p : native = {p} /\ p.lib.name = Want(Below)
  <2>1. CASE stack' = Resume({}) /\ ~ FallsBack
    BY <2>1
  <2>2. CASE FallsBack /\ Register(Want(Below), "NATIVE", 0) /\ stack' = Resume({PointerTo(Len(libs'))})
    <3>1. PICK q : q = PointerTo(Len(libs'))
      OBVIOUS
    <3>2. Want(Below) \in ModName
      <4>2. {} \in SUBSET T!Pointer
        OBVIOUS
      <4>3. Depth > 1 /\ Below = stack[Depth - 1] /\ Below.pc = "await"
        BY <1>1, <1>2, <4>2, ShapeResume
      <4>4. Depth - 1 \in 1..Len(stack)
        BY <1>1, <4>3, TopRange
      <4> QED
        BY <4>3, <4>4, Wanted
    <3>3. /\ PtrOK(q)' /\ q.lib = libs'[Len(libs')]
          /\ libs'[Len(libs')] = [name |-> Want(Below), kind |-> "NATIVE", handle |-> 0]
      <4>1. /\ "NATIVE" \in {"PE", "NATIVE"} /\ "NATIVE" # "PE" /\ 0 \in Nat
            /\ UNCHANGED <<handles, tlsIndex>> /\ TableInv
        BY DEF ReturnToCaller, guest, process, ShapeInv
      <4> QED
        BY <2>2, <3>1, <3>2, <4>1, Registered
    <3>4. {q} \in SUBSET T!Pointer /\ q.lib.name = Want(Below)
      BY <3>3 DEF PtrOK
    <3> QED
      BY <2>2, <3>1, <3>4
  <2> QED
    BY <2>1, <2>2 DEF ReturnToCaller
<1>4. PICK native \in SUBSET T!Pointer :
        /\ stack' = Resume(native)
        /\ \/ native = {} /\ ~ FallsBack
           \/ FallsBack /\ \E p : native = {p} /\ p.lib.name = Want(Below)
  BY <1>3
<1>5. /\ Depth > 1 /\ Below \in AnyFrame /\ Below = stack[Depth - 1]
      /\ Resumed(native) \in AnyFrame
      /\ Below.kind \in {"load", "call"} /\ Below.pc = "await"
  BY <1>1, <1>2, ShapeResume
<1>6. Depth \in Nat /\ Depth = Len(stack) /\ stack \in Seq(AnyFrame) /\ Top = stack[Depth]
  BY <1>1, TopRange DEF ShapeInv, Shape
<1>7. PICK f : f = Resumed(native)
  OBVIOUS
<1>8. /\ Len(stack') = Depth - 1 /\ stack'[Depth - 1] = f
      /\ \A i \in 1..(Depth - 2) : stack'[i] = stack[i]
  BY <1>4, <1>5, <1>6, <1>7, ResumeFrames
<1>9. /\ f \in AnyFrame /\ f.kind = Below.kind /\ f.inst = Below.inst /\ f.imp = Below.imp
      /\ f.want = Below.want /\ f.res = Below.res /\ f.status = Below.status
      /\ f.pc = "found" /\ f.loaded = Top.res /\ f.native = native
  BY <1>5, <1>7 DEF Resumed, AnyFrame
<1>10. Below.inst \in 1..Len(insts)
  BY <1>2, <1>5, <1>6 DEF Shape
<1> QED
  BY <1>1, <1>4, <1>5, <1>6, <1>8, <1>9, <1>10

LEMMA TraceFrames ==
  ASSUME BindInv, TraceInv, Step, Kinds, Kept
  PROVE  \A i \in 1..Len(stack') : Traced(stack[i])'
<1>1. ShapeInv /\ HoldsInv
  BY DEF BindInv, DepthInv
<1>2. ASSUME NEW i \in 1..Len(stack), NEW f, f = stack[i] PROVE Traced(f)'
  <2>1. f.inst \in 1..Len(insts) /\ Traced(f)
    BY <1>1, <1>2 DEF ShapeInv, Shape, TraceInv
  <2> QED
    BY <1>1, <2>1, TracedStays
<1>3. ASSUME NEW i \in 1..Len(stack'), NEW f, f = stack'[i], Traced(f)'
      PROVE  Traced(stack[i])'
  BY <1>3 DEF Traced, Want, ImportsOf, ImageOf
<1>4. ASSUME NEW f, Plain(f) PROVE Traced(f)'
  BY <1>4 DEF Traced, Plain
<1> SUFFICES ASSUME NEW i \in 1..Len(stack') PROVE \E f : f = stack'[i] /\ Traced(f)'
  BY <1>3
<1>5. CASE ~ SearchStep /\ ~ ReturnToCaller
  BY <1>1, <1>2, <1>4, <1>5, StepElsewhere DEF Elsewhere
<1>6. CASE SearchStep
  <2>1. CASE stack' = stack
    BY <1>2, <2>1
  <2>2. CASE stack' # stack
    <3>1. PICK f : /\ SameSearch(f)
                   /\ \/ Waits(f)
                      \/ stack' = Replace(f) /\ insts' = insts /\ (Hits(f) \/ Finds(f) \/ Lacks(f))
      BY <1>1, <1>6, <2>2, SearchTo
    <3>2. Traced(f)'
      BY <1>6, <3>1, SearchTraced
    <3>3. stack # <<>>
      BY <1>6 DEF SearchStep, SearchHit, SearchLoad, SearchTrap, SearchRejected,
       SearchMapFails, SearchNoMemory, SearchNative, SearchMissing, Absent, Searching
    <3>4. Depth = Len(stack) /\ Depth \in Nat
      BY <1>1, <3>3, TopRange
    <3>5. CASE stack' = Replace(f)
      <4>1. /\ stack'[Depth] = f /\ Len(stack') = Depth
            /\ \A k \in 1..(Depth - 1) : stack'[k] = stack[k]
        BY <1>1, <3>3, <3>5, Turned
      <4> QED
        BY <1>2, <3>2, <3>4, <4>1
    <3>6. CASE Waits(f)
      <4>1. PICK g : g = LoadFrame(Len(insts) + 1, "tls") /\ stack' = Push(Replace(f), g)
        BY <3>6 DEF Waits
      <4>2. /\ stack'[Depth] = f /\ Len(stack') = Depth + 1 /\ stack'[Depth + 1] = g
            /\ \A k \in 1..(Depth - 1) : stack'[k] = stack[k]
        BY <1>1, <3>3, <4>1, Turned
      <4>3. Plain(g)
        BY <4>1 DEF LoadFrame, Plain
      <4> QED
        BY <1>2, <1>4, <3>2, <3>4, <4>2, <4>3
    <3> QED
      BY <3>1, <3>5, <3>6
  <2> QED
    BY <2>1, <2>2
<1>7. CASE ReturnToCaller
  <2>1. PICK f \in AnyFrame :
              /\ Len(stack') = Depth - 1 /\ stack'[Depth - 1] = f
              /\ \A k \in 1..(Depth - 2) : stack'[k] = stack[k]
              /\ f.kind = Below.kind /\ f.inst = Below.inst /\ f.imp = Below.imp
              /\ f.want = Below.want /\ f.res = Below.res /\ f.status = Below.status
              /\ f.pc = "found" /\ f.loaded = Top.res
              /\ f.native = {} \/ \E p : f.native = {p} /\ p.lib.name = Want(Below)
    BY <1>1, <1>7, ReturnTo
  <2>2. /\ Depth > 1 /\ Depth \in Nat /\ Depth = Len(stack) /\ Below = stack[Depth - 1]
        /\ Below.pc = "await" /\ Top.kind = "load" /\ Top = stack[Depth]
        /\ Below.kind = "load" => Below.inst \in 1..Len(insts)
    BY <1>1, <1>7, ReturnTo
  <2>3. Traced(f)
    <3>1. Traced(Below) /\ Awaited(Below, Top) /\ FrameOK(Top, Attached) /\ Top.inst \in 1..Len(insts)
      BY <1>1, <2>2 DEF TraceInv, HoldsInv, ShapeInv, Shape
    <3>2. Want(f) = Want(Below)
      BY <2>1 DEF Want
    <3>3. CASE f.kind # "load"
      BY <2>1, <3>1, <3>3 DEF Traced
    <3>4. CASE f.kind = "load"
      <4>1. ASSUME NEW p \in f.loaded
            PROVE  /\ p.lib.kind = "PE" /\ IsFile(world, Want(f))
                   /\ p.lib.handle \in 1..Len(insts)
                   /\ insts[p.lib.handle].image = Want(f).stem
        <5>1. p.lib.kind = "PE" /\ p.lib.handle = Top.inst
          BY <2>1, <2>2, <3>1, <4>1 DEF FrameOK, OwnEntry
        <5>2. IsFile(world, Want(Below)) /\ insts[Top.inst].image = Want(Below).stem
          BY <2>1, <2>2, <3>1, <3>4 DEF Traced, Awaited
        <5> QED
          BY <3>1, <3>2, <5>1, <5>2
      <4>2. \A p \in f.native : p.lib.name.stem = Want(f).stem
        BY <2>1, <3>2
      <4> QED
        BY <2>1, <3>4, <4>1, <4>2 DEF Traced
    <3> QED
      BY <3>3, <3>4
  <2>4. Traced(f)'
    BY <1>1, <2>1, <2>2, <2>3, TracedStays
  <2> QED
    BY <1>2, <2>1, <2>2, <2>4
<1> QED
  BY <1>5, <1>6, <1>7

(* Whom a frame awaits is the module it asked for.                         *)
LEMMA AwaitedFrames ==
  ASSUME BindInv, TraceInv, Step, Kinds, Kept
  PROVE  \A i \in 1..(Len(stack') - 1) : Awaited(stack[i], stack[i + 1])'
<1>1. ShapeInv /\ HoldsInv /\ Len(stack) \in Nat
  BY NoFrames DEF BindInv, DepthInv, ShapeInv, Shape
<1> SUFFICES ASSUME NEW i \in 1..(Len(stack') - 1), NEW f, NEW g, f = stack'[i], g = stack'[i + 1],
                    f.kind = "load", f.pc = "await", g.kind = "load"
             PROVE  insts'[g.inst].image = (Want(f)').stem
  BY DEF Awaited, Want, ImportsOf, ImageOf
<1>2. Len(stack') \in Nat /\ i \in Nat /\ i \in 1..Len(stack') /\ i + 1 \in 1..Len(stack')
  <2>1. Len(stack') \in Nat
    BY <1>1, KindsKeepShape, NoFrames DEF ShapeInv, Shape
  <2> QED
    BY <2>1
<1>3. FrameFrom(i) /\ FrameFrom(i + 1)
  BY <1>1, <1>2, FramesAfter
<1>4. stack # <<>> => Depth = Len(stack) /\ Depth \in Nat \ {0} /\ Top = stack[Depth] /\ Top.pc # "await"
  BY <1>1, TopRange
<1>5. Len(stack) = 0 <=> stack = <<>>
  BY <1>1, NoFrames DEF ShapeInv, Shape
<1>6. CASE i \in 1..Len(stack) /\ i # Depth /\ f = stack[i]
  <2>1. i + 1 \in 1..Len(stack) /\ i \in 1..(Len(stack) - 1)
    BY <1>1, <1>2, <1>4, <1>5, <1>6
  <2>2. g.kind = stack[i + 1].kind /\ g.inst = stack[i + 1].inst
    BY <1>3, <1>4, <1>5, <1>6, <2>1 DEF FrameFrom
  <2>3. insts[stack[i + 1].inst].image = Want(f).stem
    BY <1>6, <2>1, <2>2 DEF TraceInv, Awaited
  <2>4. f.inst \in 1..Len(insts) /\ g.inst \in 1..Len(insts)
    BY <1>1, <1>6, <2>1, <2>2 DEF ShapeInv, Shape
  <2>5. insts'[g.inst].image = insts[g.inst].image /\ Want(f)' = Want(f)
    BY <1>1, <2>4, ImageStays, WantStays
  <2> QED
    BY <2>2, <2>3, <2>5
<1>7. CASE stack # <<>> /\ i = Depth
  <2>1. ~ ReturnToCaller
    BY <1>1, <1>2, <1>4, <1>7, ReturnTo
  <2>2. SearchStep /\ stack' # stack
    <3>1. stack' # stack
      BY <1>4, <1>7
    <3>2. ASSUME ~ SearchStep PROVE FALSE
      <4>1. Elsewhere(i)
        BY <1>1, <1>2, <2>1, <3>2, StepElsewhere
      <4> QED
        BY <1>4, <1>7, <4>1 DEF Elsewhere, Plain
    <3> QED
      BY <3>1, <3>2
  <2>3. PICK h : /\ SameSearch(h)
                 /\ \/ Waits(h)
                    \/ stack' = Replace(h) /\ insts' = insts /\ (Hits(h) \/ Finds(h) \/ Lacks(h))
    BY <1>1, <2>2, SearchTo
  <2>4. Waits(h)
    <3>1. CASE stack' = Replace(h)
      <4>1. Len(stack') = Depth
        BY <1>1, <1>7, <3>1, Turned
      <4> QED
        BY <1>2, <1>4, <1>7, <4>1
    <3> QED
      BY <2>3, <3>1
  <2>5. PICK l : l = LoadFrame(Len(insts) + 1, "tls") /\ stack' = Push(Replace(h), l)
    BY <2>4 DEF Waits
  <2>6. f = h /\ g = l
    BY <1>1, <1>7, <2>5, Turned
  <2>7. g.inst = Len(insts) + 1
    BY <2>5, <2>6 DEF LoadFrame
  <2>8. Top.inst \in 1..Len(insts) /\ Len(insts) \in Nat /\ Want(Top).stem \in DOMAIN world.img
    BY <1>1, <1>7, <2>4, TopRange, World DEF Waits, FileThere
  <2>9. insts'[Len(insts) + 1] = Instance(Want(Top).stem, Top.inst)
    BY <1>1, <2>4, <2>8, InstanceAdded DEF Waits
  <2>10. insts'[g.inst].image = Want(Top).stem
    BY <2>7, <2>9 DEF Instance
  <2>11. Want(f) = Want(Top) /\ f.inst = Top.inst
    BY <2>3, <2>6 DEF SameSearch, Want
  <2>12. Want(f)' = Want(f)
    BY <1>1, <2>8, <2>11, WantStays
  <2> QED
    BY <2>10, <2>11, <2>12
<1>8. CASE stack # <<>> /\ i = Depth + 1
  BY <1>2, <1>3, <1>4, <1>8 DEF FrameFrom
<1>9. CASE stack = <<>> /\ f = LoadFrame(1, "import")
  BY <1>9, StartFrame
<1> QED
  BY <1>3, <1>6, <1>7, <1>8, <1>9 DEF FrameFrom

LEMMA TraceInit == Init => TraceInv
<1> SUFFICES ASSUME Init PROVE TraceInv
  OBVIOUS
<1>1. libs = <<>> /\ stack = <<>>
  BY DEF Init
<1> QED
  BY <1>1 DEF TraceInv, DllNames

LEMMA TraceNext == BindInv /\ TraceInv /\ [Next]_vars => TraceInv'
<1> SUFFICES ASSUME BindInv, TraceInv, [Next]_vars PROVE TraceInv'
  OBVIOUS
<1>1. CASE Step
  <2>1. Kinds /\ Kept /\ ShapeInv
    BY <1>1, StepKinds DEF BindInv, DepthInv
  <2> QED
    BY <1>1, <2>1, DllNamesStep, TraceFrames, AwaitedFrames DEF TraceInv
<1>2. CASE UNCHANGED vars
  <2>1. UNCHANGED <<world, insts, stack, libs>>
    BY <1>2 DEF vars, table
  <2> QED
    <3>1. \A f : Want(f)' = Want(f)
      BY <2>1 DEF Want, ImportsOf, ImageOf
    <3>2. \A f : Traced(f) => Traced(f)'
      BY <2>1, <3>1 DEF Traced
    <3>3. \A f, g : Awaited(f, g) => Awaited(f, g)'
      BY <2>1, <3>1 DEF Awaited
    <3>4. DllNames'
      BY <2>1 DEF TraceInv, DllNames
    <3> QED
      BY <2>1, <3>2, <3>3, <3>4 DEF TraceInv
<1> QED
  BY <1>1, <1>2 DEF Next, Ended

LEMMA TraceAlways == Spec => []BindInv /\ []TraceInv
<1>1. Spec => []BindInv
  BY BindInit, BindStep, PTL DEF Spec
<1> QED
  BY <1>1, TraceInit, TraceNext, PTL DEF Spec

-----------------------------------------------------------------------------
(* What load_dll_library makes of its frame, between two searches.         *)
Carries(f) ==
  /\ f.kind = "load" /\ f.inst = Top.inst /\ f.imp = Top.imp
  /\ f.status = Top.status
Onward(f) == f.pc = IF Top.inst = 1 THEN "entry" ELSE "register"

TurnsTo(f) ==
  \/ /\ Carries(f) /\ f.res = Top.res /\ stack' = Replace(f)
     /\ \/ Top.pc = "tls" /\ (f.pc = "callbacks" \/ Onward(f))
        \/ Top.pc = "callbacks" /\ Onward(f)
        \/ Top.pc = "import" /\ f.pc = "search" /\ f.native = {}
        \/ Top.pc = "import" /\ f.pc = "bound" /\ Top.imp > Len(ImportsOf(Top.inst))
        \/ Top.pc = "bound" /\ f.pc = IF Top.inst = 1 THEN "tls" ELSE "entry"
  \/ /\ Carries(f) /\ f.res = Top.res /\ stack' = Push(Replace(f), GuestFrame(Top.inst))
     /\ \/ Top.pc = "callbacks" /\ f.pc = "callbacks" /\ ImageOf(Top.inst).tls > 0
        \/ Top.pc = "entry" /\ f.pc = "return"
  \/ /\ Carries(f) /\ f.res # {} /\ stack' = Replace(f)
     /\ Top.pc = "register" /\ f.pc = "import"
  \/ /\ f.kind = "load" /\ f.inst = Top.inst /\ f.res = Top.res /\ stack' = Replace(f)
     /\ Top.pc = "found" /\ f.pc \in {"import", "bound"}
     /\ Bind \/ (Top.loaded = {} /\ Top.native = {})

LEMMA LoadTurns ==
  ASSUME ShapeInv, LoadStep, ~ ReturnToCaller, stack' # stack
  PROVE  stack # <<>> /\ Top.kind = "load" /\ \E f : TurnsTo(f)
<1>1. ~ (\/ TlsMapFails \/ TlsNoArray \/ BindTellsNull \/ BindStale \/ BindWrongType
         \/ BoundExeFails \/ EntryZero \/ ReturnToMain)
  BY DEF TlsMapFails, TlsNoArray, BindTellsNull, BindStale, BindWrongType,
       BoundExeFails, EntryZero, ReturnToMain, Stop
<1>2. stack # <<>> /\ Top \in AnyFrame /\ Top.kind = "load" /\ Top.inst \in 1..Len(insts)
  <2>1. stack # <<>> /\ Top.kind = "load"
    BY <1>1 DEF LoadStep, AllocateTls, TlsCallback, TlsDone, RegisterDll, NextImport, ImportNotFound,
       Bind, Binding, ImportsDone, BoundDll, BoundExe, InvokeEntry, At
  <2> QED
    BY <2>1, TopRange
<1>3. CASE AllocateTls \/ TlsDone
  <2>1. PICK pc \in {"callbacks", IF Top.inst = 1 THEN "entry" ELSE "register"} :
          stack' = Replace([Top EXCEPT !.pc = pc]) /\ (pc = "callbacks" => Top.pc = "tls")
          /\ Top.pc \in {"tls", "callbacks"}
    BY <1>3 DEF AllocateTls, TlsDone, Stop, At, IsExe
  <2>2. PICK f : f = [Top EXCEPT !.pc = pc]
    OBVIOUS
  <2>3. Carries(f) /\ f.res = Top.res /\ f.pc = pc /\ stack' = Replace(f)
    BY <1>2, <2>1, <2>2 DEF AnyFrame, Carries
  <2> QED
    BY <1>2, <2>1, <2>3 DEF TurnsTo, Onward
<1>4. CASE TlsCallback
  <2>1. PICK f : f = [Top EXCEPT !.cb = Top.cb + 1]
    OBVIOUS
  <2>2. Carries(f) /\ f.res = Top.res /\ f.pc = Top.pc
    BY <1>2, <2>1 DEF AnyFrame, Carries
  <2>3. ImageOf(Top.inst).tls > 0
    <3>1. Top.cb \in Nat /\ ImageOf(Top.inst).tls \in Int /\ Top.cb < ImageOf(Top.inst).tls
      BY <1>2, <1>4, World DEF AnyFrame, Image, TlsCallback
    <3> QED
      BY <3>1
  <2>4. stack' = Push(Replace(f), GuestFrame(Top.inst)) /\ Top.pc = "callbacks"
    BY <1>4, <2>1 DEF TlsCallback, At
  <2> QED
    BY <1>2, <2>2, <2>3, <2>4 DEF TurnsTo
<1>5. CASE RegisterDll
  <2>1. PICK q : q = PointerTo(Len(libs'))
    OBVIOUS
  <2>2. PICK f : f = [Top EXCEPT !.pc = "import", !.res = {q}]
    OBVIOUS
  <2>3. Carries(f) /\ f.res = {q} /\ f.pc = "import"
    BY <1>2, <2>2 DEF AnyFrame, Carries
  <2>4. stack' = Replace(f) /\ Top.pc = "register"
    BY <1>5, <2>1, <2>2 DEF RegisterDll, At
  <2> QED
    BY <1>2, <2>3, <2>4 DEF TurnsTo
<1>6. CASE NextImport \/ ImportsDone
  <2>1. PICK pc \in {"search", "bound"} :
          /\ stack' = Replace([Top EXCEPT !.pc = pc, !.loaded = {}, !.native = {}])
          /\ Top.pc = "import" /\ (pc = "bound" => Top.imp > Len(ImportsOf(Top.inst)))
    BY <1>6 DEF NextImport, ImportsDone, At
  <2>2. PICK f : f = [Top EXCEPT !.pc = pc, !.loaded = {}, !.native = {}]
    OBVIOUS
  <2>3. Carries(f) /\ f.res = Top.res /\ f.pc = pc /\ f.native = {} /\ stack' = Replace(f)
    BY <1>2, <2>1, <2>2 DEF AnyFrame, Carries
  <2> QED
    BY <1>2, <2>1, <2>3 DEF TurnsTo
<1>7. CASE ImportNotFound
  <2>1. PICK f : f = [Top EXCEPT !.pc = "import", !.imp = Top.imp + 1, !.status = "NOT_FOUND"]
    OBVIOUS
  <2>2. f.kind = "load" /\ f.inst = Top.inst /\ f.res = Top.res /\ f.pc = "import"
    BY <1>2, <2>1 DEF AnyFrame
  <2>3. stack' = Replace(f) /\ Top.pc = "found" /\ Top.loaded = {} /\ Top.native = {}
    BY <1>7, <2>1 DEF ImportNotFound, At
  <2> QED
    BY <1>2, <2>2, <2>3 DEF TurnsTo
<1>8. CASE Bind
  <2>1. PICK f : /\ stack' = Replace(f)
                 /\ \/ f = [Top EXCEPT !.pc = "bound", !.status = "INVALID"]
                    \/ \E s : f = [Top EXCEPT !.pc = "import", !.imp = Top.imp + 1, !.status = s]
    <3>1. PICK invalid, missing :
            stack' = Replace(
             IF invalid THEN [Top EXCEPT !.pc = "bound", !.status = "INVALID"]
             ELSE [Top EXCEPT !.pc = "import", !.imp = Top.imp + 1,
                              !.status = IF missing THEN "NOT_FOUND" ELSE @])
      BY <1>8 DEF Bind
    <3> QED
      BY <3>1
  <2>2. f.kind = "load" /\ f.inst = Top.inst /\ f.res = Top.res /\ f.pc \in {"import", "bound"}
    BY <1>2, <2>1 DEF AnyFrame
  <2>3. Top.pc = "found"
    BY <1>8 DEF Bind, Binding, At
  <2> QED
    BY <1>2, <1>8, <2>1, <2>2, <2>3 DEF TurnsTo
<1>9. CASE BoundDll \/ BoundExe
  <2>1. PICK pc : /\ pc = IF Top.inst = 1 THEN "tls" ELSE "entry"
                  /\ stack' = Replace([Top EXCEPT !.pc = pc]) /\ Top.pc = "bound"
    BY <1>9 DEF BoundDll, BoundExe, At, IsExe
  <2>2. PICK f : f = [Top EXCEPT !.pc = pc]
    OBVIOUS
  <2>3. Carries(f) /\ f.res = Top.res /\ f.pc = pc /\ stack' = Replace(f)
    BY <1>2, <2>1, <2>2 DEF AnyFrame, Carries
  <2> QED
    BY <1>2, <2>1, <2>3 DEF TurnsTo
<1>10. CASE InvokeEntry
  <2>1. PICK f : f = [Top EXCEPT !.pc = "return"]
    OBVIOUS
  <2>2. Carries(f) /\ f.res = Top.res /\ f.pc = "return"
    BY <1>2, <2>1 DEF AnyFrame, Carries
  <2>3. stack' = Push(Replace(f), GuestFrame(Top.inst)) /\ Top.pc = "entry"
    BY <1>10, <2>1 DEF InvokeEntry, At
  <2> QED
    BY <1>2, <2>2, <2>3 DEF TurnsTo
<1> QED
  BY <1>1, <1>2, <1>3, <1>4, <1>5, <1>6, <1>7, <1>8, <1>9, <1>10 DEF LoadStep

(* A frame past allocate_tls stays past it.                                *)
LEMMA PastStays ==
  ASSUME ShapeInv, Step, stack # <<>>, Depth \in 1..Len(stack'), PastTls(Top)
  PROVE  PastTls(stack'[Depth])
<1>1. Top.kind = "load" /\ Depth \in Nat \ {0} /\ Top = stack[Depth] /\ PcOK(Top)
  BY TopRange DEF PastTls
<1>2. CASE stack' = stack
  BY <1>1, <1>2
<1>3. CASE SearchStep /\ stack' # stack
  <2>1. PICK f : /\ SameSearch(f) /\ f.pc \in {"found", "await"}
                 /\ (\E g : stack' = Push(Replace(f), g)) \/ stack' = Replace(f)
    BY <1>3, SearchTo DEF Waits, Hits, Finds, Lacks
  <2>2. stack'[Depth] = f
    BY <2>1, Turned
  <2>3. Top.pc = "search"
    BY <1>3 DEF SearchStep, SearchHit, SearchLoad, SearchTrap, SearchRejected,
       SearchMapFails, SearchNoMemory, SearchNative, SearchMissing, Absent, Searching
  <2> QED
    BY <1>1, <2>1, <2>2, <2>3 DEF SameSearch, PastTls
<1>4. CASE LoadStep /\ ~ ReturnToCaller /\ stack' # stack
  <2>1. PICK f : TurnsTo(f)
    BY <1>4, LoadTurns
  <2>2. stack' = Replace(f) \/ \E g : stack' = Push(Replace(f), g)
    BY <2>1 DEF TurnsTo
  <2>3. stack'[Depth] = f
    BY <2>2, Turned
  <2> QED
    BY <1>1, <2>1, <2>3 DEF TurnsTo, Carries, Onward, PastTls, PcOK
<1>5. ~ ReturnToCaller
  BY <1>1, ReturnTo
<1>6. ~ ExecuteStep \/ stack' = stack
  BY DEF ExecuteStep, ExecuteNotFound, ExecuteTrap, ExecuteFault, ExecuteBaseTaken,
     ExecuteRejected, ExecuteMap, PastTrap, Executing, Starting, Stop
<1>7. ~ GuestStep
  BY <1>1 DEF GuestStep, GuestCallsImport, LoadLibraryW, LoadLibraryReturns, UseHandle,
     GuestReturns, ExitProcess, Running, At
<1> QED
  BY <1>2, <1>3, <1>4, <1>5, <1>6, <1>7 DEF Step

-----------------------------------------------------------------------------
(* A frame of the loader that a step adds is that of the module it maps.   *)
LEMMA PushedLoad ==
  ASSUME ShapeInv, Kinds, stack # <<>>, Depth + 1 \in 1..Len(stack'),
         stack'[Depth + 1].kind = "load"
  PROVE  /\ outcome' = outcome /\ Loads
         /\ stack'[Depth + 1] = LoadFrame(Len(insts) + 1, "tls")
<1>1. Depth \in Nat \ {0} /\ Len(stack) = Depth
  BY TopRange
<1>2. ~ Goes /\ ~ Returns /\ ~ Attaches /\ ~ Stops /\ ~ Completes /\ ~ Starts
  BY <1>1, GoesOwners, ReturnsOwners, AttachesOwners DEF Stops, Completes, Starts
<1>3. ~ Calls
  <2> SUFFICES ASSUME Calls PROVE FALSE
    OBVIOUS
  <2>1. PICK f, g : /\ f \in AnyFrame /\ SameOwner(f, Top) /\ stack' = Push(Replace(f), g)
                    /\ g \in AnyFrame /\ g.kind \in {"guest", "call"}
    BY DEF Calls, NextTop
  <2> QED
    BY <2>1, CallsOwners
<1>4. outcome' = outcome /\ Loads
  BY <1>2, <1>3 DEF Kinds, Runs
<1>5. PICK f : /\ f \in AnyFrame /\ SameOwner(f, Top)
               /\ stack' = Push(Replace(f), LoadFrame(Len(insts) + 1, "tls"))
  BY <1>4 DEF Loads, NextTop
<1>6. PICK g : g = LoadFrame(Len(insts) + 1, "tls")
  OBVIOUS
<1>7. g \in AnyFrame
  <2>1. Len(insts) + 1 \in Nat \ {0} /\ "tls" \in Pc
    BY World DEF Pc
  <2> QED
    BY <1>6, <2>1, NewFrame
<1> QED
  BY <1>4, <1>5, <1>6, <1>7, CallsOwners
-----------------------------------------------------------------------------
(* TLS_INDEX counts the modules that have a slot; only those with a TLS    *)
(* directory take one, and each when it is at allocate_tls.                *)
HasSlot == {n \in 1..Len(insts) : insts[n].tls # -1}

CountInv ==
  /\ IsFiniteSet(HasSlot) /\ Cardinality(HasSlot) = tlsIndex
  /\ \A n \in HasSlot : ImageOf(n).tls # NoTls
  /\ \A i \in 1..Len(stack) :
       stack[i].kind = "load" /\ ~ PastTls(stack[i]) => insts[stack[i].inst].tls = -1

LEMMA SlotAllocated ==
  ASSUME ShapeInv, Step, SlotTaken
  PROVE  /\ At("load", "tls") /\ ImageOf(Top.inst).tls # NoTls
         /\ stack' = Replace([Top EXCEPT !.pc = "callbacks"])
<1>1. tlsIndex' # tlsIndex
  BY DEF SlotTaken, ShapeInv, TableInv
<1>2. AllocateTls
  <2>1. ~ ExecuteStep
    BY <1>1 DEF ExecuteStep, ExecuteNotFound, ExecuteTrap, ExecuteFault, ExecuteBaseTaken,
       ExecuteRejected, ExecuteMap, Map, Stop, process
  <2>2. ~ SearchStep
    BY <1>1 DEF SearchStep, SearchHit, SearchLoad, SearchTrap, SearchRejected,
       SearchMapFails, SearchNoMemory, SearchNative, SearchMissing, Map, Stop, process
  <2>3. ~ (\/ TlsMapFails \/ TlsNoArray \/ TlsCallback \/ TlsDone \/ RegisterDll
           \/ NextImport \/ ImportNotFound \/ BindTellsNull \/ BindStale \/ BindWrongType \/ Bind)
    BY <1>1 DEF TlsMapFails, TlsNoArray, TlsCallback, TlsDone, RegisterDll, NextImport,
       ImportNotFound, BindTellsNull, BindStale, BindWrongType, Bind, Stop, process
  <2>4. ~ (\/ ImportsDone \/ BoundDll \/ BoundExe \/ BoundExeFails
           \/ EntryZero \/ InvokeEntry \/ ReturnToMain \/ ReturnToCaller)
    BY <1>1 DEF ImportsDone, BoundDll, BoundExe, BoundExeFails, EntryZero, InvokeEntry,
       ReturnToMain, ReturnToCaller, Stop, process
  <2>5. ~ GuestStep
    BY <1>1 DEF GuestStep, GuestCallsImport, LoadLibraryW, LoadLibraryReturns, UseHandle,
       GuestReturns, ExitProcess, Stop, process
  <2> QED
    BY <2>1, <2>2, <2>3, <2>4, <2>5 DEF Step, LoadStep
<1> QED
  BY <1>1, <1>2 DEF AllocateTls, Stop, process

LEMMA CountStep ==
  ASSUME ShapeInv, CountInv, Step, Kinds, Kept, SlotStep
  PROVE  CountInv'
<1>1. /\ Len(insts) \in Nat /\ Len(insts') \in Nat /\ Len(insts) <= Len(insts') /\ tlsIndex \in Nat
      /\ \A n \in 1..Len(insts) : n \in 1..Len(insts') /\ ImageOf(n)' = ImageOf(n)
  BY ImageStays DEF ShapeInv, TableInv
<1>2. \A n \in 1..Len(insts') : n \notin 1..Len(insts) => insts'[n].tls = -1
  <2>1. CASE SameImages
    BY <1>1, <2>1 DEF SameImages
  <2>2. CASE \E s \in DOMAIN world.img, parent \in Nat : insts' = Append(insts, Instance(s, parent))
    <3>1. PICK s \in DOMAIN world.img, parent \in Nat : insts' = Append(insts, Instance(s, parent))
      BY <2>2
    <3>2. Len(insts') = Len(insts) + 1 /\ insts'[Len(insts) + 1] = Instance(s, parent)
      BY <3>1, InstanceAdded
    <3> QED
      BY <1>1, <3>2 DEF Instance
  <2> QED
    BY <2>1, <2>2, ImagesGrow
<1>3. CASE SlotTaken
  <2>1. /\ At("load", "tls") /\ ImageOf(Top.inst).tls # NoTls
        /\ stack' = Replace([Top EXCEPT !.pc = "callbacks"])
    BY <1>3, SlotAllocated
  <2>2. /\ Top.inst \in 1..Len(insts) /\ Depth \in 1..Len(stack) /\ Top = stack[Depth]
        /\ Top.kind = "load" /\ Top.pc = "tls" /\ Top \in AnyFrame /\ stack # <<>>
    BY <2>1, TopRange DEF At
  <2>3. Top.inst \notin HasSlot
    BY <2>2 DEF CountInv, PastTls, HasSlot
  <2>4. HasSlot' = HasSlot \cup {Top.inst}
    BY <1>1, <1>3, <2>2 DEF HasSlot, SlotTaken
  <2>5. IsFiniteSet(HasSlot') /\ Cardinality(HasSlot') = tlsIndex'
    BY <1>3, <2>3, <2>4, FS_AddElement DEF CountInv, SlotTaken
  <2>6. \A n \in HasSlot' : (ImageOf(n)').tls # NoTls
    BY <1>1, <2>1, <2>2, <2>4 DEF CountInv, HasSlot
  <2>7. ASSUME NEW i \in 1..Len(stack'), NEW f, f = stack'[i], f.kind = "load", ~ PastTls(f)
        PROVE  insts'[f.inst].tls = -1
    <3>1. PICK t : t = [Top EXCEPT !.pc = "callbacks"]
      OBVIOUS
    <3>2. t.pc = "callbacks"
      BY <2>2, <3>1 DEF AnyFrame
    <3>3. /\ stack'[Depth] = t /\ Len(stack') = Depth
          /\ \A k \in 1..(Depth - 1) : stack'[k] = stack[k]
      BY <2>1, <2>2, <3>1, Turned
    <3>4. i \in 1..(Depth - 1) /\ f = stack[i] /\ i \in 1..Len(stack)
      BY <2>2, <2>7, <3>2, <3>3 DEF PastTls
    <3>5. f.inst # Top.inst /\ f.inst \in 1..Len(insts)
      <4>1. Ordered(stack) /\ \A k \in 1..Len(stack) : stack[k].inst \in 1..Len(insts)
        BY DEF ShapeInv, Shape
      <4>2. i < Depth
        BY <2>2, <3>4
      <4>3. stack[i].inst < stack[Depth].inst
        BY <2>2, <3>4, <4>1, <4>2 DEF Ordered
      <4> QED
        BY <1>1, <2>2, <3>4, <4>1, <4>3
    <3> QED
      BY <1>3, <2>7, <3>4, <3>5 DEF SlotTaken, CountInv
  <2> QED
    BY <2>5, <2>6, <2>7 DEF CountInv, PastTls, ImageOf
<1>4. CASE SlotsKept
  <2>1. HasSlot' = HasSlot /\ tlsIndex' = tlsIndex
    BY <1>1, <1>2, <1>4 DEF HasSlot, SlotsKept
  <2>2. \A n \in HasSlot' : (ImageOf(n)').tls # NoTls
    BY <1>1, <2>1 DEF CountInv, HasSlot
  <2>3. ASSUME NEW i \in 1..Len(stack'), NEW f, f = stack'[i], f.kind = "load", ~ PastTls(f)
        PROVE  insts'[f.inst].tls = -1
    <3>1. FrameFrom(i)
      BY FramesAfter
    <3>2. ASSUME NEW k \in 1..Len(stack), stack[k].kind = "load", stack[k].inst = f.inst,
                 ~ PastTls(stack[k])
          PROVE  insts'[f.inst].tls = -1
      <4>1. insts[f.inst].tls = -1 /\ f.inst \in 1..Len(insts)
        BY <3>2 DEF CountInv, ShapeInv, Shape
      <4> QED
        BY <1>4, <4>1 DEF SlotsKept
    <3>3. CASE i \in 1..Len(stack) /\ i # Depth /\ stack'[i] = stack[i]
      BY <2>3, <3>2, <3>3
    <3>4. CASE stack # <<>> /\ i = Depth /\ stack'[i].kind = Top.kind /\ stack'[i].inst = Top.inst
      <4>1. Depth \in 1..Len(stack) /\ Top = stack[Depth]
        BY <3>4, TopRange
      <4>2. ~ PastTls(Top)
        BY <2>3, <3>4, PastStays
      <4> QED
        BY <2>3, <3>2, <3>4, <4>1, <4>2
    <3>5. CASE stack # <<>> /\ i = Depth + 1
      <4>1. Loads /\ f = LoadFrame(Len(insts) + 1, "tls")
        BY <2>3, <3>5, PushedLoad
      <4>2. f.inst = Len(insts) + 1
        BY <4>1 DEF LoadFrame
      <4>3. Len(insts') = Len(insts) + 1
        <5>1. PICK s \in DOMAIN world.img : insts' = Append(insts, Instance(s, Top.inst))
          BY <4>1 DEF Loads
        <5>2. Top.inst \in Nat
          BY <3>5, TopRange DEF AnyFrame
        <5> QED
          BY <5>1, <5>2, InstanceAdded
      <4> QED
        BY <1>1, <1>2, <4>2, <4>3
    <3>6. CASE /\ i \in 1..Len(stack) /\ stack[i].pc = "await" /\ stack'[i].pc = "found"
               /\ stack'[i].kind = stack[i].kind /\ stack'[i].inst = stack[i].inst
      BY <2>3, <3>2, <3>6 DEF PastTls
    <3>7. CASE stack = <<>> /\ stack'[i] = LoadFrame(1, "import")
      <4>1. f.inst = 1 /\ f.kind = "load"
        BY <2>3, <3>7, StartFrame
      <4>2. insts = <<>> /\ 1 \in 1..Len(insts')
        <5>1. insts = <<>> /\ ShapeInv'
          BY <3>7, KindsKeepShape DEF ShapeInv
        <5>2. f.inst \in 1..Len(insts')
          BY <2>3, <5>1 DEF ShapeInv, Shape
        <5> QED
          BY <4>1, <5>1, <5>2
      <4> QED
        BY <1>1, <1>2, <4>1, <4>2
    <3> QED
      BY <3>1, <3>3, <3>4, <3>5, <3>6, <3>7 DEF FrameFrom
  <2> QED
    BY <2>1, <2>2, <2>3 DEF CountInv, PastTls, ImageOf
<1> QED
  BY <1>3, <1>4 DEF SlotStep

LEMMA CountInit == Init => CountInv
<1> SUFFICES ASSUME Init PROVE CountInv
  OBVIOUS
<1>1. insts = <<>> /\ stack = <<>> /\ tlsIndex = 0
  BY DEF Init
<1>2. HasSlot = {}
  BY <1>1 DEF HasSlot
<1> QED
  BY <1>1, <1>2, FS_EmptySet DEF CountInv

LEMMA CountNext == ShapeInv /\ CountInv /\ [Next]_vars => CountInv'
<1> SUFFICES ASSUME ShapeInv, CountInv, [Next]_vars PROVE CountInv'
  OBVIOUS
<1>1. CASE Step
  BY <1>1, StepKinds, StepSlots, CountStep
<1>2. CASE UNCHANGED vars
  <2>1. UNCHANGED <<world, insts, stack, tlsIndex>>
    BY <1>2 DEF vars, process
  <2> QED
    BY <2>1 DEF CountInv, HasSlot, PastTls, ImageOf
<1> QED
  BY <1>1, <1>2 DEF Next, Ended

(* The assertion of allocate_tls fails when the slots are used up, by as   *)
(* many modules and the one that asks.                                     *)
LEMMA SlotsUsedUp ==
  ASSUME ShapeInv, CountInv, At("load", "tls"), ImageOf(Top.inst).tls # NoTls, TlsFull
  PROVE  Cardinality(WithTls) > TlsSlots
<1>1. /\ Top.inst \in 1..Len(insts) /\ Depth \in 1..Len(stack) /\ Top = stack[Depth]
      /\ Top.kind = "load" /\ Top.pc = "tls" /\ Len(insts) \in Nat
  BY TopRange, World DEF At
<1>2. Top.inst \notin HasSlot
  BY <1>1 DEF CountInv, PastTls, HasSlot
<1>3. DOMAIN insts = 1..Len(insts)
  BY LenProperties DEF ShapeInv, ImagesInv
<1>4. HasSlot \cup {Top.inst} \subseteq WithTls /\ WithTls \subseteq 1..Len(insts)
  BY <1>1, <1>3 DEF CountInv, WithTls, HasSlot
<1>5. /\ IsFiniteSet(HasSlot \cup {Top.inst})
      /\ Cardinality(HasSlot \cup {Top.inst}) = tlsIndex + 1
  BY <1>2, FS_AddElement DEF CountInv
<1>6. IsFiniteSet(WithTls)
  <2>1. 1 \in Int /\ Len(insts) \in Int
    BY <1>1
  <2>2. IsFiniteSet(1..Len(insts))
    BY <2>1, FS_Interval
  <2> QED
    BY <1>4, <2>2, FS_Subset
<1>7. Cardinality(HasSlot \cup {Top.inst}) <= Cardinality(WithTls)
  BY <1>4, <1>6, FS_Subset
<1>8. tlsIndex \in Nat /\ TlsSlots \in Nat /\ Cardinality(WithTls) \in Nat
  BY <1>6, LoaderAssumption, FS_CardinalityType DEF ShapeInv, TableInv
<1> QED
  BY <1>5, <1>7, <1>8 DEF TlsFull

(* What a frame of load_dll_library is about to load is imported by the    *)
(* image it loads.                                                         *)
LEMMA WantImported ==
  ASSUME ShapeInv, NEW i \in 1..Len(stack), stack[i].kind = "load",
         stack[i].pc \in {"search", "await", "found"}
  PROVE  /\ insts[stack[i].inst].image \in Files(world)
         /\ Want(stack[i]) \in Imported(world, insts[stack[i].inst].image)
         /\ stack[i].imp \in DOMAIN ImportsOf(stack[i].inst)
<1> DEFINE f == stack[i]
<1>1. f \in AnyFrame /\ f.inst \in 1..Len(insts) /\ FrameIn(f)
  BY ElementOfSeq, FramesIn DEF ShapeInv, Shape
<1>2. /\ f.imp \in 1..Len(ImportsOf(f.inst)) /\ DOMAIN ImportsOf(f.inst) = 1..Len(ImportsOf(f.inst))
  <2>1. ImportsOf(f.inst) \in Seq(Import) /\ f.imp \in Nat \ {0} /\ f.imp <= Len(ImportsOf(f.inst))
    BY <1>1, World DEF FrameIn, AnyFrame
  <2> QED
    BY <2>1, LenProperties
<1>3. insts[f.inst].image \in Files(world)
  BY <1>1 DEF ShapeInv, ImagesInv, Files
<1>4. Want(f) \in Imported(world, insts[f.inst].image)
  BY <1>2 DEF Want, Imported, ImportsOf, ImageOf
<1> QED
  BY <1>2, <1>3, <1>4
-----------------------------------------------------------------------------
(* How deep the stack is, when the files lie in h layers: a module's frame *)
(* is the deeper the lower its layer, and c calls of LoadLibraryW below it *)
(* account for h + 2 frames each.                                          *)
Layered(h, rank) ==
  \A f \in Files(world) : \A name \in Imported(world, f) :
    name.stem \in Files(world) => rank[name.stem] < rank[f]

FitsAt(i, f, h, rank, b) ==
  /\ f.kind = "load" => i + rank[insts[f.inst].image] <= h + 1 + b
  /\ f.kind = "guest" => i <= h + 1 + b
  /\ f.kind = "call" => i <= b

Fits(i, f, h, rank) == \E c \in Nat : c <= calls /\ FitsAt(i, f, h, rank, c * (h + 2))

NestInv ==
  /\ calls \in Nat /\ calls <= GuestCalls
  /\ \A h \in 1..StackLimit : \A rank \in [Files(world) -> 1..h] :
       Layered(h, rank) => \A i \in 1..Len(stack) : Fits(i, stack[i], h, rank)

LEMMA NextCall ==
  ASSUME NEW c \in Nat, NEW h \in Nat
  PROVE  c * (h + 2) \in Nat /\ (c + 1) * (h + 2) = c * (h + 2) + (h + 2)
OBVIOUS

LEMMA MoreCalls ==
  ASSUME NEW c \in Nat, NEW d \in Nat, NEW h \in Nat, c <= d
  PROVE  c * (h + 2) <= d * (h + 2)
<1>1. PICK e \in Nat : d = c + e
  <2>1. d - c \in Nat /\ d = c + (d - c)
    OBVIOUS
  <2> QED
    BY <2>1
<1>2. (c + e) * (h + 2) = c * (h + 2) + e * (h + 2) /\ e * (h + 2) \in Nat
  OBVIOUS
<1>3. c * (h + 2) \in Nat
  OBVIOUS
<1> QED
  BY <1>1, <1>2, <1>3

(* LoadLibraryW is what adds a frame of its own, and counts it.            *)
LEMMA CallsMove ==
  ASSUME ShapeInv, Step, calls \in Nat, calls <= GuestCalls
  PROVE  /\ calls' \in Nat /\ calls <= calls' /\ calls' <= GuestCalls
         /\ stack # <<>> /\ Depth + 1 \in 1..Len(stack') /\ stack'[Depth + 1].kind = "call" =>
              calls' = calls + 1
<1>1. CASE LoadLibraryW
  <2>1. calls < GuestCalls /\ calls' = calls + 1
    BY <1>1 DEF LoadLibraryW
  <2> QED
    BY <2>1, LoaderAssumption
<1>2. CASE ~ LoadLibraryW
  <2>1. calls' = calls
    <3>1. CASE ExecuteStep
      BY <3>1 DEF ExecuteStep, ExecuteNotFound, ExecuteTrap, ExecuteFault, ExecuteBaseTaken,
         ExecuteRejected, ExecuteMap, Map, Stop, guest
    <3>2. CASE SearchStep
      BY <3>2 DEF SearchStep, SearchHit, SearchLoad, SearchTrap, SearchRejected,
         SearchMapFails, SearchNoMemory, SearchNative, SearchMissing, Map, Stop, guest
    <3>3. CASE \/ AllocateTls \/ TlsMapFails \/ TlsNoArray \/ TlsCallback \/ TlsDone \/ RegisterDll
               \/ NextImport \/ ImportNotFound \/ BindTellsNull \/ BindStale \/ BindWrongType \/ Bind
      BY <3>3 DEF AllocateTls, TlsMapFails, TlsNoArray, TlsCallback, TlsDone, RegisterDll, NextImport,
         ImportNotFound, BindTellsNull, BindStale, BindWrongType, Bind, Stop, guest
    <3>4. CASE \/ ImportsDone \/ BoundDll \/ BoundExe \/ BoundExeFails
               \/ EntryZero \/ InvokeEntry \/ ReturnToMain \/ ReturnToCaller
      BY <3>4 DEF ImportsDone, BoundDll, BoundExe, BoundExeFails, EntryZero, InvokeEntry,
         ReturnToMain, ReturnToCaller, Stop, guest
    <3>5. CASE GuestStep
      BY <1>2, <3>5 DEF GuestStep, GuestCallsImport, LoadLibraryReturns, UseHandle,
         GuestReturns, ExitProcess, Stop, guest
    <3> QED
      BY <3>1, <3>2, <3>3, <3>4, <3>5 DEF Step, LoadStep
  <2>2. ASSUME stack # <<>>, Depth + 1 \in 1..Len(stack')
        PROVE  stack'[Depth + 1].kind # "call"
    <3>1. Depth \in Nat \ {0} /\ Len(stack) = Depth
      BY <2>2, TopRange
    <3>2. stack' # stack
      BY <2>2, <3>1
    <3>3. ~ ReturnToCaller
      BY <2>2, <3>1, ReturnTo
    <3>4. CASE SearchStep
      <4>1. PICK f : Waits(f) \/ stack' = Replace(f)
        BY <3>2, <3>4, SearchTo
      <4>2. stack' # Replace(f)
        BY <2>2, <3>1, Turned
      <4>3. PICK g : stack' = Push(Replace(f), g) /\ g.kind = "load"
        BY <4>1, <4>2 DEF Waits, LoadFrame
      <4>4. stack'[Depth + 1] = g
        BY <2>2, <4>3, Turned
      <4> QED
        BY <4>3, <4>4
    <3>5. CASE LoadStep
      <4>1. PICK f : stack' = Replace(f) \/ stack' = Push(Replace(f), GuestFrame(Top.inst))
        BY <3>2, <3>3, <3>5, LoadTurns DEF TurnsTo
      <4>2. stack' # Replace(f)
        BY <2>2, <3>1, Turned
      <4>3. PICK g : stack' = Push(Replace(f), g) /\ g.kind = "guest"
        BY <4>1, <4>2 DEF GuestFrame, LoadFrame
      <4>4. stack'[Depth + 1] = g
        BY <2>2, <4>3, Turned
      <4> QED
        BY <4>3, <4>4
    <3>6. CASE GuestStep
      <4>1. stack' = Popped
        BY <1>2, <3>2, <3>6 DEF GuestStep, GuestCallsImport, LoadLibraryReturns, UseHandle,
          GuestReturns, ExitProcess, Stop
      <4>2. Len(stack') = Depth - 1
        BY <2>2, <4>1, PopFrames DEF ShapeInv, Shape
      <4> QED
        BY <2>2, <3>1, <4>2
    <3>7. ~ ExecuteStep
      BY <2>2, <3>2 DEF ExecuteStep, ExecuteNotFound, ExecuteTrap, ExecuteFault, ExecuteBaseTaken,
         ExecuteRejected, ExecuteMap, PastTrap, Executing, Starting, Stop
    <3> QED
      BY <3>4, <3>5, <3>6, <3>7 DEF Step
  <2> QED
    BY <2>1, <2>2
<1> QED
  BY <1>1, <1>2

(* One frame deeper, what is still to come is at least one less.           *)
LEMMA OneBelow ==
  ASSUME NEW d \in Nat, NEW x \in Nat, NEW y \in Nat, NEW e \in Int, x < y, d + y <= e
  PROVE  d + 1 + x <= e
OBVIOUS

LEMMA NestStep ==
  ASSUME ShapeInv, NestInv, Step, Kinds, Kept
  PROVE  NestInv'
<1>1. /\ calls' \in Nat /\ calls <= calls' /\ calls' <= GuestCalls /\ calls \in Nat
      /\ GuestCalls \in Nat /\ world' = world /\ ShapeInv'
  BY CallsMove, KindsKeepShape, LoaderAssumption DEF NestInv, Kept
<1> SUFFICES ASSUME NEW h \in 1..StackLimit, NEW rank \in [Files(world) -> 1..h],
                    Layered(h, rank), NEW i \in 1..Len(stack')
             PROVE  \E f : f = stack'[i] /\ Fits(i, f, h, rank)'
  <2>1. \A h, rank : Layered(h, rank)' => Layered(h, rank)
    BY <1>1 DEF Layered, Files, Imported
  <2>2. Files(world') = Files(world)
    BY <1>1
  <2> SUFFICES ASSUME NEW h \in 1..StackLimit, NEW rank \in [Files(world) -> 1..h],
                      Layered(h, rank), NEW i \in 1..Len(stack')
               PROVE  Fits(i, stack[i], h, rank)'
    BY <1>1, <2>1, <2>2 DEF NestInv
  <2>3. PICK f : f = stack'[i] /\ Fits(i, f, h, rank)'
    OBVIOUS
  <2> QED
    BY <2>3 DEF Fits, FitsAt
<1>2. h \in Nat \ {0}
  BY LoaderAssumption
<1>3. ASSUME NEW k \in 1..Len(stack), NEW f, f.kind = stack[k].kind, f.inst = stack[k].inst
      PROVE  Fits(k, f, h, rank)'
  <2>1. PICK c \in Nat : c <= calls /\ FitsAt(k, stack[k], h, rank, c * (h + 2))
    BY DEF NestInv, Fits
  <2>2. f.inst \in 1..Len(insts)
    BY <1>3 DEF ShapeInv, Shape
  <2>3. insts'[f.inst].image = insts[f.inst].image
    BY <2>2, ImageStays
  <2>4. c <= calls'
    BY <1>1, <2>1
  <2>5. FitsAt(k, f, h, rank, c * (h + 2))'
    BY <1>3, <2>1, <2>3 DEF FitsAt
  <2> QED
    BY <2>4, <2>5 DEF Fits
<1>4. FrameFrom(i)
  BY FramesAfter
<1>5. CASE /\ i \in 1..Len(stack) /\ stack'[i].kind = stack[i].kind
           /\ stack'[i].inst = stack[i].inst
  BY <1>3, <1>5
<1>6. CASE stack # <<>> /\ i = Depth /\ stack'[i].kind = Top.kind /\ stack'[i].inst = Top.inst
  <2>1. Depth \in 1..Len(stack) /\ Top = stack[Depth]
    BY <1>6, TopRange
  <2> QED
    BY <1>3, <1>6, <2>1
<1>7. CASE stack # <<>> /\ i = Depth + 1
  <2>1. /\ Depth \in Nat \ {0} /\ Depth \in 1..Len(stack) /\ Top = stack[Depth]
        /\ Top \in AnyFrame /\ Top.inst \in 1..Len(insts)
    BY <1>7, TopRange
  <2>2. PICK c \in Nat : c <= calls /\ FitsAt(Depth, Top, h, rank, c * (h + 2))
    BY <2>1 DEF NestInv, Fits
  <2>3. PICK b \in Nat : b = c * (h + 2) /\ (c + 1) * (h + 2) = b + (h + 2)
    BY <1>2, <2>2, NextCall
  <2>4. insts[Top.inst].image \in Files(world) /\ rank[insts[Top.inst].image] \in 1..h
    BY <2>1 DEF ShapeInv, ImagesInv, Files
  <2>5. PICK g : g = stack'[i]
    OBVIOUS
  <2>6. g \in AnyFrame /\ g.inst \in 1..Len(insts') /\ Link(stack'[Depth], g)
    <3>1. /\ stack' \in Seq(AnyFrame) /\ i - 1 = Depth /\ Len(stack') \in Nat
          /\ Depth \in 1..(Len(stack') - 1)
      BY <1>1, <1>7, <2>1, NoFrames DEF ShapeInv, Shape
    <3> QED
      BY <1>1, <1>7, <2>5, <3>1, ElementOfSeq DEF ShapeInv, Shape
  <2>7. stack'[Depth].kind = Top.kind
    <3>1. Depth \in 1..Len(stack')
      BY <1>7, <2>1
    <3>2. FrameFrom(Depth)
      BY <3>1, FramesAfter
    <3> QED
      BY <1>7, <2>1, <3>2 DEF FrameFrom
  <2>8. CASE g.kind = "guest"
    <3>1. i <= h + 1 + b
      <4>1. Top.kind = "load"
        BY <2>6, <2>7, <2>8 DEF Link
      <4>2. PICK y \in Nat \ {0} : y = rank[insts[Top.inst].image]
        BY <1>2, <2>4
      <4>3. Depth + y <= h + 1 + b
        BY <2>2, <2>3, <4>1, <4>2 DEF FitsAt
      <4> QED
        BY <1>2, <1>7, <2>1, <4>2, <4>3
    <3>2. FitsAt(i, g, h, rank, b)'
      BY <2>8, <3>1 DEF FitsAt
    <3>3. c <= calls'
      BY <1>1, <2>2
    <3> QED
      BY <2>3, <2>5, <3>2, <3>3 DEF Fits
  <2>9. CASE g.kind = "call"
    <3>1. i <= b + (h + 2)
      BY <1>2, <1>7, <2>1, <2>2, <2>3, <2>6, <2>7, <2>9 DEF FitsAt, Link
    <3>2. FitsAt(i, g, h, rank, (c + 1) * (h + 2))'
      BY <2>3, <2>9, <3>1 DEF FitsAt
    <3>3. c + 1 <= calls' /\ c + 1 \in Nat
      <4>1. calls' = calls + 1
        BY <1>1, <1>7, <2>5, <2>9, CallsMove
      <4> QED
        BY <1>1, <2>2, <4>1
    <3> QED
      BY <2>5, <3>2, <3>3 DEF Fits
  <2>10. CASE g.kind = "load"
    <3>1. Loads /\ g = LoadFrame(Len(insts) + 1, "tls")
      BY <1>7, <2>5, <2>10, PushedLoad
    <3>2. SearchStep /\ stack' # stack
      <4>1. stack' # stack
        BY <1>7, <2>1, TopRange
      <4>2. stack'[Depth].pc = "await"
        BY <2>6, <2>10 DEF Link
      <4>3. ASSUME ~ SearchStep PROVE FALSE
        <5>1. ~ ReturnToCaller
          BY <1>7, <2>1, ReturnTo
        <5>2. Elsewhere(Depth)
          BY <1>7, <2>1, <4>3, <5>1, StepElsewhere
        <5> QED
          BY <1>7, <2>1, <4>2, <5>2, TopRange DEF Elsewhere, Plain
      <4> QED
        BY <4>1, <4>3
    <3>3. PICK f : Waits(f)
      <4>1. PICK f : Waits(f) \/ stack' = Replace(f)
        BY <3>2, SearchTo
      <4>2. stack' # Replace(f)
        BY <1>7, <2>1, Turned
      <4> QED
        BY <4>1, <4>2
    <3>4. /\ FileThere(Want(Top)) /\ insts' = Append(insts, Instance(Want(Top).stem, Top.inst))
          /\ Top.pc = "search"
      BY <3>2, <3>3 DEF Waits, SearchStep, SearchHit, SearchLoad, SearchTrap, SearchRejected,
       SearchMapFails, SearchNoMemory, SearchNative, SearchMissing, Absent, Searching
    <3>5. insts'[Len(insts) + 1] = Instance(Want(Top).stem, Top.inst) /\ Top.inst \in Nat
      <4>1. Want(Top).stem \in DOMAIN world.img /\ Top.inst \in Nat
        BY <2>1, <3>4 DEF FileThere, AnyFrame
      <4> QED
        BY <3>4, <4>1, InstanceAdded
    <3>6. g.inst = Len(insts) + 1 /\ insts'[g.inst].image = Want(Top).stem
      BY <3>1, <3>5 DEF LoadFrame, Instance
    <3>7. Want(Top).stem \in Files(world) /\ rank[Want(Top).stem] \in 1..h
      BY <3>4 DEF FileThere, Files
    <3>8. i + rank[Want(Top).stem] <= h + 1 + b
      <4>1. CASE Top.kind = "call"
        BY <1>2, <1>7, <2>1, <2>2, <2>3, <3>7, <4>1 DEF FitsAt
      <4>2. CASE Top.kind = "load"
        <5>1. Want(Top) \in Imported(world, insts[Top.inst].image)
          BY <2>1, <3>4, <4>2, WantImported
        <5>2. rank[Want(Top).stem] < rank[insts[Top.inst].image]
          BY <2>4, <3>7, <5>1 DEF Layered
        <5>3. Depth + rank[insts[Top.inst].image] <= h + 1 + b
          BY <2>2, <2>3, <4>2 DEF FitsAt
        <5> QED
          <6>1. PICK x \in Nat, y \in Nat : /\ x = rank[Want(Top).stem]
                                           /\ y = rank[insts[Top.inst].image]
            BY <2>4, <3>7
          <6>2. x < y /\ Depth + y <= h + 1 + b /\ i = Depth + 1 /\ Depth \in Nat
            BY <1>7, <2>1, <5>2, <5>3, <6>1
          <6>3. PICK e \in Int : e = h + 1 + b
            BY <2>3
          <6>4. Depth + y <= e
            BY <6>2, <6>3
          <6>5. Depth + 1 + x <= e
            BY <6>2, <6>4, OneBelow, Zenon
          <6> QED
            BY <6>1, <6>2, <6>3, <6>5
      <4> QED
        BY <2>6, <2>7, <2>10, <4>1, <4>2 DEF Link
    <3>9. FitsAt(i, g, h, rank, b)'
      BY <2>10, <3>6, <3>8 DEF FitsAt
    <3>10. c <= calls'
      BY <1>1, <2>2
    <3> QED
      BY <2>3, <2>5, <3>9, <3>10 DEF Fits
  <2> QED
    BY <2>6, <2>8, <2>9, <2>10 DEF AnyFrame
<1>8. CASE stack = <<>> /\ i = 1 /\ stack'[i] = LoadFrame(1, "import")
  <2>1. PICK f : f = stack'[i] /\ f.kind = "load"
    BY <1>8, StartFrame
  <2>2. insts'[f.inst].image \in Files(world)
    BY <1>1, <2>1 DEF ShapeInv, Shape, ImagesInv, Files
  <2>3. rank[insts'[f.inst].image] \in 1..h
    BY <2>2
  <2>4. 0 * (h + 2) = 0 /\ 0 \in Nat /\ 0 <= calls'
    BY <1>1, <1>2
  <2>5. FitsAt(i, f, h, rank, 0 * (h + 2))'
    BY <1>2, <1>8, <2>1, <2>3, <2>4 DEF FitsAt
  <2> QED
    BY <2>1, <2>4, <2>5 DEF Fits
<1> QED
  BY <1>4, <1>5, <1>6, <1>7, <1>8 DEF FrameFrom

LEMMA NestInit == Init => NestInv
<1> SUFFICES ASSUME Init PROVE NestInv
  OBVIOUS
<1>1. stack = <<>> /\ calls = 0
  BY DEF Init
<1> QED
  BY <1>1, LoaderAssumption DEF NestInv

LEMMA NestNext == ShapeInv /\ NestInv /\ [Next]_vars => NestInv'
<1> SUFFICES ASSUME ShapeInv, NestInv, [Next]_vars PROVE NestInv'
  OBVIOUS
<1>1. CASE Step
  BY <1>1, StepKinds, NestStep
<1>2. CASE UNCHANGED vars
  <2>1. UNCHANGED <<world, insts, stack, calls>>
    BY <1>2 DEF vars, guest
  <2> QED
    BY <2>1 DEF NestInv, Layered, Fits, FitsAt
<1> QED
  BY <1>1, <1>2 DEF Next, Ended

(* The stack suffices for the files of a shallow world.                    *)
LEMMA StackSuffices ==
  ASSUME ShapeInv, NestInv, Searching, FileThere(Want(Top)), Depth >= StackLimit
  PROVE  ~ Shallow(world)
<1> SUFFICES ASSUME Shallow(world) PROVE FALSE
  OBVIOUS
<1>1. /\ Depth \in Nat \ {0} /\ Depth \in 1..Len(stack) /\ Top = stack[Depth] /\ Top.pc = "search"
      /\ Top.kind \in {"load", "call"}
  BY TopRange, Wanted DEF Searching
<1>2. PICK h \in 1..StackLimit :
        /\ h + GuestCalls * (h + 2) <= StackLimit
        /\ \E rank \in [Files(world) -> 1..h] : Layered(h, rank)
  BY DEF Shallow, Layered
<1>3. PICK rank \in [Files(world) -> 1..h] : Layered(h, rank)
  BY <1>2
<1>4. PICK c \in Nat : c <= calls /\ FitsAt(Depth, Top, h, rank, c * (h + 2))
  BY <1>1, <1>3 DEF NestInv, Fits
<1>5. h \in Nat \ {0} /\ GuestCalls \in Nat /\ StackLimit \in Nat /\ c <= GuestCalls
  BY <1>4, LoaderAssumption DEF NestInv
<1>6. PICK b \in Nat, m \in Nat : b = c * (h + 2) /\ m = GuestCalls * (h + 2) /\ b <= m
  BY <1>4, <1>5, MoreCalls, NextCall
<1>7. h + m <= StackLimit
  BY <1>2, <1>6
<1>8. CASE Top.kind = "call"
  <2>1. Depth <= b
    BY <1>4, <1>6, <1>8 DEF FitsAt
  <2> QED
    BY <1>1, <1>5, <1>6, <1>7, <2>1
<1>9. CASE Top.kind = "load"
  <2>1. /\ insts[Top.inst].image \in Files(world)
        /\ Want(Top) \in Imported(world, insts[Top.inst].image)
        /\ Want(Top).stem \in Files(world)
    BY <1>1, <1>9, WantImported DEF FileThere, Files
  <2>2. /\ rank[Want(Top).stem] < rank[insts[Top.inst].image]
        /\ rank[Want(Top).stem] \in 1..h /\ rank[insts[Top.inst].image] \in 1..h
    BY <1>3, <2>1 DEF Layered
  <2>3. Depth + rank[insts[Top.inst].image] <= h + 1 + b
    BY <1>4, <1>6, <1>9 DEF FitsAt
  <2> QED
    BY <1>1, <1>5, <1>6, <1>7, <2>2, <2>3
<1> QED
  BY <1>1, <1>8, <1>9

-----------------------------------------------------------------------------
(* Where every import can be resolved, no file is rejected, no system call *)
(* fails and no DLL has TLS callbacks: what is found and bound.            *)
Sound ==
  /\ faults = 0 /\ ~ EarlyCallbacks(world)
  /\ \A f \in Files(world) : Resolvable(world, f) /\ world.img[f].verdict = "SUCCESS"

RowBound(n, i) == \A j \in DOMAIN insts[n].iat[i] : insts[n].iat[i][j] \notin {Raw, Null}
BoundUpTo(n, k) == \A i \in DOMAIN insts[n].iat : i < k => RowBound(n, i)
AllBound(n) == \A i \in DOMAIN insts[n].iat : RowBound(n, i)

FoundOne(f) ==
  \/ f.loaded # {} /\ f.native = {}
  \/ f.loaded = {} /\ f.native # {} /\ ~ IsFile(world, Want(f))

CleanFrame(f) ==
  /\ f.kind = "guest" => AllBound(f.inst)
  /\ f.kind = "load" =>
       /\ f.status = "SUCCESS"
       /\ f.inst # 1 => /\ f.pc \in {"tls", "callbacks", "register"} => f.imp = 1
                        /\ f.pc \in Importing \cup {"bound", "entry", "return"} => f.res # {}
       /\ f.pc = "found" => FoundOne(f)
       /\ f.pc \in Importing => BoundUpTo(f.inst, f.imp)
       /\ f.pc \in {"bound", "entry", "return"} => AllBound(f.inst)
       /\ f.inst = 1 /\ f.pc \in {"tls", "callbacks"} => AllBound(1)

CleanInv ==
  /\ faults \in Nat
  /\ \A n \in 1..Len(insts) : DOMAIN insts[n].iat = 1..Len(ImportsOf(n))
  /\ Sound => \A i \in 1..Len(stack) : CleanFrame(stack[i])

(* What an import resolves to where everything does.                       *)
LEMMA Resolved ==
  ASSUME ShapeInv, Sound, NEW i \in 1..Len(stack), stack[i].kind = "load",
         stack[i].pc \in {"search", "await", "found"}
  PROVE  /\ IsFile(world, Want(stack[i])) \/ NativeThere(Want(stack[i]))
         /\ \A j \in DOMAIN ImportsOf(stack[i].inst)[stack[i].imp].reqs :
              ImportsOf(stack[i].inst)[stack[i].imp].reqs[j] \in Provided(world, Want(stack[i]))
<1> DEFINE f == stack[i]
           image == insts[f.inst].image
<1>1. image \in Files(world) /\ f.imp \in DOMAIN ImportsOf(f.inst)
  BY WantImported
<1>2. Resolvable(world, image)
  BY <1>1 DEF Sound
<1>3. /\ Want(f) = world.img[image].imports[f.imp].lib
      /\ ImportsOf(f.inst) = world.img[image].imports
  BY DEF Want, ImportsOf, ImageOf
<1> QED
  BY <1>1, <1>2, <1>3 DEF Resolvable, NativeThere

LEMMA BoundClean ==
  ASSUME ShapeInv, TraceInv, Sound, Bind, outcome = "running", FoundOne(Top)
  PROVE  /\ \A j \in DOMAIN BoundSlots : BoundSlots[j] \notin {Raw, Null}
         /\ stack' = Replace([Top EXCEPT !.pc = "import", !.imp = Top.imp + 1])
<1>1. /\ Binding /\ At("load", "found") /\ stack # <<>> /\ Top.kind = "load" /\ Top.pc = "found"
      /\ Depth \in 1..Len(stack) /\ Top = stack[Depth] /\ Top \in AnyFrame
      /\ Top.inst \in 1..Len(insts)
  BY TopRange DEF Bind, Binding, At
<1>2. /\ IsFile(world, Want(Top)) \/ NativeThere(Want(Top))
      /\ \A j \in DOMAIN Reqs : Reqs[j] \in Provided(world, Want(Top))
  BY <1>1, Resolved DEF Reqs
<1>3. Traced(Top)
  BY <1>1 DEF TraceInv
<1>4. PICK n \in Nat : DOMAIN Reqs = 1..n
  BY <1>1, Requests, LenProperties
<1>5. /\ \A j \in DOMAIN Reqs : ~ Aborts(Top, Reqs[j])
      /\ Served(Top, Reqs) = DOMAIN Reqs =>
           \A j \in DOMAIN Reqs : Slot(Top, Reqs[j]) \notin {Raw, Null}
  <2>1. CASE Top.loaded # {} /\ Top.native = {}
    <3>1. \A req : ~ Aborts(Top, req) /\ FromPe(Top, req)
      BY <2>1 DEF Aborts, FromPe
    <3>2. ASSUME Served(Top, Reqs) = DOMAIN Reqs, NEW j \in DOMAIN Reqs
          PROVE  Slot(Top, Reqs[j]) \notin {Raw, Null}
      <4>1. UsesPe
        BY <3>1, <3>2 DEF UsesPe
      <4>2. \A p \in Top.loaded : Target(p).kind = "PE"
        BY <4>1 DEF Bind
      <4>3. ASSUME NEW p \in Top.loaded
            PROVE  /\ Target(p).handle \in Nat \ {0}
                   /\ Reqs[j] \in ImageOf(Target(p).handle).exports
        <5>1. PtrOK(p) /\ p.lib = Target(p)
          BY <1>1 DEF ShapeInv, PointersInv, Ptrs, PtrOK, Target
        <5>2. /\ IsFile(world, Want(Top)) /\ p.lib.handle \in 1..Len(insts)
              /\ insts[p.lib.handle].image = Want(Top).stem
          BY <1>1, <1>3, <4>2, <5>1 DEF Traced
        <5>3. Reqs[j] \in world.img[Want(Top).stem].exports
          BY <1>2, <5>2 DEF Provided
        <5>4. p.lib.handle \in Nat \ {0}
          BY <5>2, World
        <5> QED
          BY <5>1, <5>2, <5>3, <5>4 DEF ImageOf
      <4> DEFINE l == CHOOSE l \in {Target(p) : p \in Top.loaded} : TRUE
      <4>4. PICK p \in Top.loaded : l = Target(p)
        BY <2>1
      <4>5. Slot(Top, Reqs[j]) = IF Reqs[j] \in ImageOf(l.handle).exports THEN l.handle ELSE Null
        BY <3>1 DEF Slot
      <4> HIDE DEF l
      <4> QED
        BY <4>3, <4>4, <4>5 DEF Raw, Null
    <3> QED
      BY <3>1, <3>2
  <2>2. CASE Top.loaded = {} /\ Top.native # {} /\ ~ IsFile(world, Want(Top))
    <3>1. NativeExports(Top) = world.nat[Want(Top).stem]
      <4>1. \A p \in Top.native : world.nat[p.lib.name.stem] = world.nat[Want(Top).stem]
        BY <1>1, <1>3 DEF Traced
      <4> QED
        BY <2>2, <4>1 DEF NativeExports
    <3>2. \A j \in DOMAIN Reqs : Reqs[j] \in NativeExports(Top)
      BY <1>2, <2>2, <3>1 DEF Provided
    <3> QED
      BY <2>2, <3>2 DEF Aborts, Slot, FromPe, Native, Raw, Null
  <2> QED
    BY <2>1, <2>2 DEF FoundOne
<1>6. Served(Top, Reqs) = DOMAIN Reqs
  BY <1>4, <1>5 DEF Served
<1>7. \A j \in DOMAIN BoundSlots : BoundSlots[j] \notin {Raw, Null}
  BY <1>5, <1>6 DEF BoundSlots
<1>8. ~ \E j \in Served(Top, Reqs) : Missing(Top, Reqs[j])
  BY <1>5, <1>6 DEF Missing
<1>9. stack' = Replace([Top EXCEPT !.pc = "import", !.imp = Top.imp + 1])
  <2> DEFINE missing == \E j \in Served(Top, Reqs) : Missing(Top, Reqs[j])
  <2>1. stack' = Replace(
             IF Served(Top, Reqs) # DOMAIN Reqs THEN [Top EXCEPT !.pc = "bound", !.status = "INVALID"]
             ELSE [Top EXCEPT !.pc = "import", !.imp = Top.imp + 1,
                              !.status = IF missing THEN "NOT_FOUND" ELSE @])
    BY DEF Bind
  <2>2. ~ missing
    BY <1>8
  <2> HIDE DEF missing
  <2>3. stack' = Replace([Top EXCEPT !.pc = "import", !.imp = Top.imp + 1, !.status = Top.status])
    BY <1>6, <2>1, <2>2
  <2>4. [Top EXCEPT !.pc = "import", !.imp = Top.imp + 1, !.status = Top.status]
          = [Top EXCEPT !.pc = "import", !.imp = Top.imp + 1]
    BY <1>1 DEF AnyFrame
  <2> QED
    BY <2>3, <2>4
<1> QED
  BY <1>7, <1>9

LEMMA FaultsMove ==
  ASSUME Step, faults \in Nat
  PROVE  faults' \in Nat /\ (faults' = 0 => faults = 0 /\ ~ Fault)
<1>1. faults' = faults \/ faults' = faults + 1
  <2>1. CASE ExecuteStep
    BY <2>1 DEF ExecuteStep, ExecuteNotFound, ExecuteTrap, ExecuteFault, ExecuteBaseTaken,
       ExecuteRejected, ExecuteMap, Map, Stop, Fault
  <2>2. CASE SearchStep
    BY <2>2 DEF SearchStep, SearchHit, SearchLoad, SearchTrap, SearchRejected, OpenFails,
       SearchMapFails, SearchNoMemory, SearchNative, SearchMissing, Map, Stop, Fault
  <2>3. CASE \/ AllocateTls \/ TlsMapFails \/ TlsNoArray \/ TlsCallback \/ TlsDone \/ RegisterDll
             \/ NextImport \/ ImportNotFound \/ BindTellsNull \/ BindStale \/ BindWrongType \/ Bind
    BY <2>3 DEF AllocateTls, TlsMapFails, TlsNoArray, TlsCallback, TlsDone, RegisterDll, NextImport,
       ImportNotFound, BindTellsNull, BindStale, BindWrongType, Bind, Stop, Fault
  <2>4. CASE \/ ImportsDone \/ BoundDll \/ BoundExe \/ BoundExeFails
             \/ EntryZero \/ InvokeEntry \/ ReturnToMain \/ ReturnToCaller
    BY <2>4 DEF ImportsDone, BoundDll, BoundExe, BoundExeFails, EntryZero, InvokeEntry,
       ReturnToMain, ReturnToCaller, Stop
  <2>5. CASE GuestStep
    BY <2>5 DEF GuestStep, GuestCallsImport, LoadLibraryW, LoadLibraryReturns, UseHandle,
       GuestReturns, ExitProcess, Stop
  <2> QED
    BY <2>1, <2>2, <2>3, <2>4, <2>5 DEF Step, LoadStep
<1> QED
  BY <1>1 DEF Fault

(* Only binding writes an address table, that of the top frame's module.   *)
LEMMA TableOf ==
  ASSUME ShapeInv, Step
  PROVE  \A n \in 1..Len(insts) : ~ Bind \/ n # Top.inst => insts'[n].iat = insts[n].iat
<1>1. CASE ~ Bind
  BY <1>1, StepTables DEF SameTables
<1>2. CASE Bind
  BY <1>2, BindKinds DEF Step
<1> QED
  BY <1>1, <1>2

LEMMA TableDomains ==
  ASSUME ShapeInv, CleanInv, Step, Kinds, Kept
  PROVE  \A n \in 1..Len(insts') : (DOMAIN insts[n].iat = 1..Len(ImportsOf(n)))'
<1>1. /\ Len(insts) \in Nat /\ Len(insts') \in Nat
      /\ \A n \in 1..Len(insts) : ImportsOf(n)' = ImportsOf(n)
  BY ImageStays
<1>2. ASSUME NEW n \in 1..Len(insts) PROVE (DOMAIN insts[n].iat = 1..Len(ImportsOf(n)))'
  <2>1. DOMAIN insts'[n].iat = DOMAIN insts[n].iat
    <3>1. CASE Bind /\ n = Top.inst
      <4>1. insts[n] \in AnyInstance
        BY World
      <4>2. insts'[n] = [insts[n] EXCEPT !.iat = [@ EXCEPT ![Top.imp] = BoundSlots]]
        BY <3>1, BindKinds DEF Step
      <4>3. insts'[n].iat = [insts[n].iat EXCEPT ![Top.imp] = BoundSlots]
        BY <4>1, <4>2 DEF AnyInstance
      <4> QED
        BY <4>3
    <3> QED
      BY <3>1, TableOf
  <2> QED
    BY <1>1, <2>1 DEF CleanInv
<1>3. CASE SameImages
  BY <1>2, <1>3 DEF SameImages
<1>4. CASE \E s \in DOMAIN world.img, parent \in Nat : insts' = Append(insts, Instance(s, parent))
  <2>1. PICK s \in DOMAIN world.img, parent \in Nat : insts' = Append(insts, Instance(s, parent))
    BY <1>4
  <2>2. PICK n : n = Len(insts) + 1
    OBVIOUS
  <2>3. Len(insts') = n /\ insts'[n] = Instance(s, parent)
    BY <2>1, <2>2, InstanceAdded
  <2>4. insts'[n].image = s /\ insts'[n].iat = Unresolved(world.img[s])
    BY <2>3 DEF Instance
  <2>5. (ImportsOf(n))' = world.img[s].imports
    BY <2>4 DEF ImportsOf, ImageOf, Kept
  <2>6. world.img[s].imports \in Seq(Import)
    BY World DEF Image
  <2>7. DOMAIN insts'[n].iat = 1..Len(world.img[s].imports)
    BY <2>4, <2>6, LenProperties DEF Unresolved
  <2> QED
    BY <1>1, <1>2, <2>2, <2>3, <2>5, <2>7
<1> QED
  BY <1>3, <1>4, ImagesGrow

(* What is bound stays bound.                                              *)
LEMMA CleanStays ==
  ASSUME NEW f, CleanFrame(f), insts'[f.inst].iat = insts[f.inst].iat,
         f.kind = "load" => f.pc # "found"
  PROVE  CleanFrame(f)'
BY DEF CleanFrame, AllBound, BoundUpTo, RowBound

(* The frame that searches.                                                *)
LEMMA CleanSearch ==
  ASSUME BindInv, TraceInv, Sound, CleanInv, SearchStep, Step, Kinds, Kept, ~ Fault,
         Top.kind = "load", NEW f, SameSearch(f), Waits(f) \/ Hits(f) \/ Finds(f) \/ Lacks(f)
  PROVE  CleanFrame(f)'
<1>1. Searching /\ ShapeInv /\ HoldsInv
  BY DEF SearchStep, SearchHit, SearchLoad, SearchTrap, SearchRejected,
     SearchMapFails, SearchNoMemory, SearchNative, SearchMissing, Absent, BindInv, DepthInv
<1>2. /\ Depth \in 1..Len(stack) /\ Top = stack[Depth] /\ Top.pc = "search" /\ Top \in AnyFrame
      /\ Top.inst \in 1..Len(insts)
  BY <1>1, TopRange DEF Searching
<1>3. CleanFrame(Top) /\ Top.loaded = {} /\ Top.native = {}
  BY <1>1, <1>2 DEF CleanInv, TraceInv, Traced, HoldsInv, FrameOK
<1>4. ~ Bind
  BY <1>2 DEF Bind, Binding, At
<1>5. insts'[f.inst].iat = insts[f.inst].iat
  BY <1>1, <1>2, <1>4, TableOf DEF SameSearch
<1>6. f.pc \in {"await", "found"} /\ (f.pc = "found" => FoundOne(f))
  <2>1. Want(f) = Want(Top) /\ (FileThere(Want(Top)) <=> IsFile(world, Want(Top)))
    BY DEF SameSearch, Want, FileThere, IsFile, Files
  <2>2. IsFile(world, Want(Top)) \/ NativeThere(Want(Top))
    BY <1>1, <1>2, Resolved
  <2>3. FileThere(Want(Top)) => VerdictOf(Want(Top)) = "SUCCESS"
    BY DEF Sound, FileThere, VerdictOf, Files
  <2>4. ~ Lacks(f)
    BY <2>1, <2>2, <2>3 DEF Lacks, OpenFails
  <2> QED
    BY <1>3, <2>1, <2>4 DEF Waits, Hits, Finds, OpenFails, FoundOne
<1>7. f.kind = "load" /\ f.inst = Top.inst /\ f.imp = Top.imp /\ f.status = Top.status
      /\ f.res = Top.res
  BY DEF SameSearch
<1>8. FoundOne(f) => FoundOne(f)'
  <2>1. Want(f)' = Want(f) /\ world' = world
    BY <1>1, <1>2, <1>7, WantStays DEF Kept
  <2> QED
    BY <2>1 DEF FoundOne
<1>9. f.status = "SUCCESS" /\ BoundUpTo(f.inst, f.imp) /\ (f.inst # 1 => f.res # {})
  BY <1>2, <1>3, <1>7 DEF CleanFrame, Importing
<1>10. BoundUpTo(f.inst, f.imp)'
  BY <1>5, <1>9 DEF BoundUpTo, RowBound
<1> QED
  BY <1>6, <1>7, <1>8, <1>9, <1>10 DEF CleanFrame

(* The frame of load_dll_library between two searches.                     *)
LEMMA CleanLoad ==
  ASSUME ShapeInv, TraceInv, Sound, CleanInv, LoadStep, Step, Kinds, Kept,
         ~ ReturnToCaller, stack' # stack, NEW f, TurnsTo(f)
  PROVE  CleanFrame(f)'
<1>1. stack # <<>> /\ Top.kind = "load"
  BY LoadTurns
<1>2. /\ Depth \in 1..Len(stack) /\ Top = stack[Depth] /\ Top \in AnyFrame
      /\ Top.inst \in 1..Len(insts) /\ PcOK(Top)
  BY <1>1, TopRange
<1>3. /\ CleanFrame(Top) /\ DOMAIN insts[Top.inst].iat = 1..Len(ImportsOf(Top.inst))
      /\ Len(ImportsOf(Top.inst)) \in Nat
  BY <1>2, World, LenProperties DEF CleanInv
<1>4. CASE Bind
  <2>1. Top.pc = "found" /\ FoundOne(Top)
    BY <1>1, <1>3, <1>4 DEF CleanFrame, Bind, Binding, At
  <2>2. /\ \A j \in DOMAIN BoundSlots : BoundSlots[j] \notin {Raw, Null}
        /\ stack' = Replace([Top EXCEPT !.pc = "import", !.imp = Top.imp + 1])
    BY <1>4, <2>1, BoundClean DEF Step
  <2>3. PICK g : g = [Top EXCEPT !.pc = "import", !.imp = Top.imp + 1]
    OBVIOUS
  <2>4. f = g
    <3>1. stack' = Replace(g)
      BY <2>2, <2>3
    <3>2. stack'[Depth] = g
      BY <1>1, <3>1, Turned
    <3>3. stack'[Depth] = f
      <4>1. stack' = Replace(f) \/ \E h : stack' = Push(Replace(f), h)
        BY DEF TurnsTo
      <4> QED
        BY <1>1, <4>1, Turned
    <3> QED
      BY <3>2, <3>3
  <2>5. /\ f.kind = "load" /\ f.inst = Top.inst /\ f.pc = "import" /\ f.imp = Top.imp + 1
        /\ f.status = Top.status /\ f.res = Top.res
    BY <1>1, <1>2, <2>3, <2>4 DEF AnyFrame
  <2>6. insts'[f.inst].iat = [insts[f.inst].iat EXCEPT ![Top.imp] = BoundSlots]
    <3>1. insts[f.inst] \in AnyInstance
      BY <1>2, <2>5, World
    <3>2. insts'[f.inst] = [insts[f.inst] EXCEPT !.iat = [@ EXCEPT ![Top.imp] = BoundSlots]]
      BY <1>4, <2>5, BindKinds DEF Step
    <3> QED
      BY <3>1, <3>2 DEF AnyInstance
  <2>7. BoundUpTo(f.inst, f.imp)'
    <3>1. BoundUpTo(Top.inst, Top.imp) /\ Top.imp \in Nat
      BY <1>1, <1>2, <1>3, <2>1 DEF CleanFrame, Importing, AnyFrame
    <3> SUFFICES ASSUME NEW i \in DOMAIN insts'[f.inst].iat, i < f.imp, NEW j \in DOMAIN insts'[f.inst].iat[i]
                 PROVE  insts'[f.inst].iat[i][j] \notin {Raw, Null}
      BY DEF BoundUpTo, RowBound
    <3>2. CASE i = Top.imp
      BY <2>2, <2>6, <3>2
    <3>3. CASE i # Top.imp
      <4>1. i < Top.imp /\ i \in DOMAIN insts[f.inst].iat /\ insts'[f.inst].iat[i] = insts[f.inst].iat[i]
        BY <1>3, <2>5, <2>6, <3>1, <3>3
      <4> QED
        BY <2>5, <3>1, <4>1 DEF BoundUpTo, RowBound
    <3> QED
      BY <3>2, <3>3
  <2> QED
    BY <1>1, <1>3, <2>1, <2>5, <2>7 DEF CleanFrame, Importing
<1>5. CASE ~ Bind
  <2>1. insts'[Top.inst].iat = insts[Top.inst].iat
    BY <1>2, <1>5, TableOf
  <2>2. CleanFrame(f)
    <3>1. CASE /\ Carries(f) /\ f.res = Top.res
               /\ \/ Top.pc = "tls" /\ (f.pc = "callbacks" \/ Onward(f))
                  \/ Top.pc = "callbacks" /\ Onward(f)
                  \/ Top.pc = "callbacks" /\ f.pc = "callbacks"
      BY <1>1, <1>3, <3>1 DEF CleanFrame, Carries, Onward, Importing
    <3>2. CASE /\ Carries(f) /\ f.res = Top.res
               /\ \/ Top.pc = "import" /\ f.pc = "search"
                  \/ Top.pc = "bound" /\ f.pc = IF Top.inst = 1 THEN "tls" ELSE "entry"
                  \/ Top.pc = "entry" /\ f.pc = "return"
      BY <1>1, <1>3, <3>2 DEF CleanFrame, Carries, Importing
    <3>3. CASE /\ Carries(f) /\ f.res = Top.res
               /\ Top.pc = "import" /\ f.pc = "bound" /\ Top.imp > Len(ImportsOf(Top.inst))
      <4>1. BoundUpTo(Top.inst, Top.imp) /\ Top.imp \in Nat
        BY <1>1, <1>2, <1>3, <3>3 DEF CleanFrame, Importing, AnyFrame
      <4>2. AllBound(Top.inst)
        BY <1>3, <3>3, <4>1 DEF AllBound, BoundUpTo
      <4> QED
        BY <1>1, <1>3, <3>3, <4>2 DEF CleanFrame, Carries, Importing
    <3>4. CASE /\ Carries(f) /\ f.res # {} /\ Top.pc = "register" /\ f.pc = "import"
      <4>1. Top.imp = 1
        BY <1>1, <1>2, <1>3, <3>4 DEF CleanFrame, PcOK
      <4>2. BoundUpTo(Top.inst, 1)
        BY <1>3 DEF BoundUpTo
      <4> QED
        BY <1>1, <1>3, <3>4, <4>1, <4>2 DEF CleanFrame, Carries, Importing
    <3>5. ~ (Top.pc = "found" /\ Top.loaded = {} /\ Top.native = {})
      BY <1>1, <1>3 DEF CleanFrame, FoundOne
    <3> QED
      BY <1>5, <3>1, <3>2, <3>3, <3>4, <3>5 DEF TurnsTo
  <2>3. f.inst = Top.inst /\ f.pc # "found"
    BY DEF TurnsTo, Carries, Onward
  <2> QED
    BY <2>1, <2>2, <2>3, CleanStays
<1> QED
  BY <1>4, <1>5

LEMMA CleanFrames ==
  ASSUME BindInv, TraceInv, Sound, CleanInv, Step, Kinds, Kept, ~ Fault
  PROVE  \A i \in 1..Len(stack') : CleanFrame(stack[i])'
<1>1. ShapeInv /\ ShapeInv' /\ HoldsInv /\ Len(insts) \in Nat
  BY KindsKeepShape, World DEF BindInv, DepthInv
<1>2. ASSUME NEW i \in 1..Len(stack'), NEW f, f = stack'[i], CleanFrame(f)'
      PROVE  CleanFrame(stack[i])'
  BY <1>2 DEF CleanFrame, AllBound, BoundUpTo, RowBound, FoundOne, Want, ImportsOf, ImageOf
<1> SUFFICES ASSUME NEW i \in 1..Len(stack') PROVE \E f : f = stack'[i] /\ CleanFrame(f)'
  BY <1>2
<1>3. FrameFrom(i)
  BY <1>1, FramesAfter
<1>4. stack # <<>> => /\ Depth \in Nat \ {0} /\ Depth = Len(stack) /\ Depth \in 1..Len(stack)
                      /\ Top = stack[Depth] /\ Top.inst \in 1..Len(insts) /\ Top \in AnyFrame
  BY <1>1, TopRange
<1>5. \A k \in 1..Len(stack) : CleanFrame(stack[k]) /\ stack[k].inst \in 1..Len(insts)
  BY <1>1 DEF CleanInv, ShapeInv, Shape
<1>6. ASSUME ReturnToCaller
      PROVE  /\ Depth > 1 /\ Len(stack') = Depth - 1
             /\ \A k \in 1..(Depth - 2) : stack'[k] = stack[k]
             /\ i = Depth - 1 => \E f : f = stack'[i] /\ CleanFrame(f)'
  <2>1. PICK f \in AnyFrame :
              /\ Len(stack') = Depth - 1 /\ stack'[Depth - 1] = f
              /\ \A k \in 1..(Depth - 2) : stack'[k] = stack[k]
              /\ f.kind = Below.kind /\ f.inst = Below.inst /\ f.imp = Below.imp
              /\ f.want = Below.want /\ f.res = Below.res /\ f.status = Below.status
              /\ f.pc = "found" /\ f.loaded = Top.res
              /\ \/ f.native = {} /\ ~ FallsBack
                 \/ FallsBack /\ \E p : f.native = {p} /\ p.lib.name = Want(Below)
    BY <1>1, <1>6, ReturnTo
  <2>2. /\ Depth > 1 /\ Depth \in Nat /\ Depth = Len(stack) /\ Below = stack[Depth - 1]
        /\ Below.pc = "await" /\ Below.kind \in {"load", "call"}
        /\ Top.kind = "load" /\ Top.pc = "return" /\ Top.inst # 1 /\ Top = stack[Depth]
    BY <1>1, <1>6, ReturnTo
  <2>3. /\ CleanFrame(Top) /\ CleanFrame(Below) /\ Below.inst \in 1..Len(insts)
    BY <1>5, <2>2
  <2>4. FoundOne(f) /\ FoundOne(f)'
    BY <2>1, <2>2, <2>3 DEF CleanFrame, FoundOne, FallsBack
  <2>5. ~ Bind
    BY <2>2 DEF Bind, Binding, At
  <2>6. insts'[f.inst].iat = insts[f.inst].iat
    BY <1>1, <2>1, <2>3, <2>5, TableOf
  <2>7. ASSUME f.kind = "call" PROVE CleanFrame(f)'
    BY <2>1, <2>7 DEF CleanFrame
  <2>8. ASSUME f.kind = "load" PROVE CleanFrame(f)'
    <3>1. f.status = "SUCCESS" /\ BoundUpTo(f.inst, f.imp) /\ (f.inst # 1 => f.res # {})
      BY <2>1, <2>2, <2>3, <2>8 DEF CleanFrame, Importing
    <3>2. BoundUpTo(f.inst, f.imp)'
      BY <2>6, <3>1 DEF BoundUpTo, RowBound
    <3> QED
      BY <2>1, <2>2, <2>4, <2>8, <3>1, <3>2 DEF CleanFrame
  <2>9. CleanFrame(f)'
    BY <2>1, <2>2, <2>7, <2>8
  <2>10. i = Depth - 1 => f = stack'[i] /\ CleanFrame(f)'
    BY <2>1, <2>9
  <2>11. i = Depth - 1 => \E g : g = stack'[i] /\ CleanFrame(g)'
    BY <2>10
  <2> QED
    BY <2>1, <2>2, <2>11
<1>7. CASE i \in 1..Len(stack) /\ i # Depth /\ stack'[i] = stack[i]
  <2>1. PICK f : f = stack[i]
    OBVIOUS
  <2>2. CASE ReturnToCaller
    <3>1. stack # <<>>
      BY <2>2 DEF ReturnToCaller, At
    <3>2. i = Depth - 1 \/ i \in 1..(Depth - 2)
      BY <1>4, <1>6, <1>7, <2>2, <3>1
    <3>3. ~ Bind
      BY <2>2 DEF ReturnToCaller, Bind, Binding, At
    <3>4. insts'[f.inst].iat = insts[f.inst].iat
      BY <1>1, <1>5, <1>7, <2>1, <3>3, TableOf
    <3>5. CASE f.kind = "load" /\ f.pc = "found" /\ i \in 1..(Depth - 2)
      <4>1. Link(stack[i], stack[i + 1]) /\ stack[i + 1] \in AnyFrame
        <5>1. i \in 1..(Len(stack) - 1) /\ i + 1 \in 1..Len(stack)
          BY <1>4, <3>1, <3>5
        <5> QED
          BY <1>1, <5>1, ElementOfSeq DEF ShapeInv, Shape
      <4> QED
        BY <2>1, <3>5, <4>1 DEF Link, AnyFrame
    <3> QED
      BY <1>5, <1>6, <1>7, <2>1, <2>2, <3>2, <3>4, <3>5, CleanStays
  <2>3. CASE ~ ReturnToCaller
    <3>1. ~ Bind \/ f.inst # Top.inst
      <4>1. CASE Bind
        <5>1. stack # <<>> /\ Top.kind = "load"
          BY <4>1 DEF Bind, Binding, At
        <5>2. i < Depth
          BY <1>4, <1>7, <5>1
        <5>3. stack[i].inst < stack[Depth].inst
          BY <1>1, <1>4, <1>7, <5>1, <5>2 DEF ShapeInv, Shape, Ordered
        <5> QED
          BY <1>1, <1>4, <1>5, <1>7, <2>1, <5>1, <5>3
      <4> QED
        BY <4>1
    <3>2. insts'[f.inst].iat = insts[f.inst].iat
      BY <1>1, <1>5, <1>7, <2>1, <3>1, TableOf
    <3>3. f.kind = "load" => f.pc # "found"
      <4>1. stack # <<>>
        <5>1. Len(stack) # 0
          BY <1>7
        <5> QED
          BY <5>1
      <4>2. i \in 1..(Len(stack) - 1) /\ i + 1 \in 1..Len(stack)
        BY <1>4, <1>7, <4>1
      <4>3. Link(stack[i], stack[i + 1]) /\ stack[i + 1] \in AnyFrame
        BY <1>1, <4>2, ElementOfSeq DEF ShapeInv, Shape
      <4> QED
        BY <2>1, <4>3 DEF Link, AnyFrame
    <3> QED
      BY <1>5, <1>7, <2>1, <3>2, <3>3, CleanStays
  <2> QED
    BY <2>2, <2>3
<1>8. CASE stack # <<>> /\ i = Depth /\ stack'[i].kind = Top.kind /\ stack'[i].inst = Top.inst
  <2>1. ~ ReturnToCaller
    BY <1>4, <1>6, <1>8
  <2>2. PICK f : f = stack'[i]
    OBVIOUS
  <2>3. CASE Top.kind = "call"
    BY <1>8, <2>2, <2>3 DEF CleanFrame
  <2>4. CASE Top.kind = "guest"
    <3>1. ~ Bind
      BY <2>4 DEF Bind, Binding, At
    <3>2. AllBound(f.inst) /\ insts'[f.inst].iat = insts[f.inst].iat
      BY <1>1, <1>4, <1>5, <1>8, <2>2, <2>4, <3>1, TableOf DEF CleanFrame
    <3>3. AllBound(f.inst)'
      BY <3>2 DEF AllBound, RowBound
    <3> QED
      BY <1>8, <2>2, <2>4, <3>3 DEF CleanFrame
  <2>5. CASE Top.kind = "load" /\ stack' = stack
    <3>1. ~ Bind
      <4>1. ASSUME Bind PROVE FALSE
        <5>1. Top.pc = "found" /\ FoundOne(Top) /\ Top \in AnyFrame
          BY <1>4, <1>5, <1>8, <2>5, <4>1 DEF Bind, Binding, At, CleanFrame
        <5>2. PICK g : g = [Top EXCEPT !.pc = "import", !.imp = Top.imp + 1] /\ stack' = Replace(g)
          BY <1>1, <4>1, <5>1, BoundClean DEF Step
        <5>3. stack'[Depth] = g
          BY <1>1, <1>8, <5>2, Turned
        <5>4. g.pc = "import"
          BY <5>1, <5>2 DEF AnyFrame
        <5> QED
          BY <1>4, <1>8, <2>5, <5>1, <5>3, <5>4
      <4> QED
        BY <4>1
    <3>2. insts'[f.inst].iat = insts[f.inst].iat /\ f = Top /\ CleanFrame(f)
      BY <1>1, <1>4, <1>5, <1>8, <2>2, <2>5, <3>1, TableOf
    <3>3. FoundOne(f) => FoundOne(f)'
      <4>1. Want(f)' = Want(f) /\ world' = world
        BY <1>1, <1>4, <1>8, <3>2, WantStays DEF Kept
      <4> QED
        BY <4>1 DEF FoundOne
    <3>4. CleanFrame(f)'
      BY <2>5, <3>2, <3>3 DEF CleanFrame, AllBound, BoundUpTo, RowBound
    <3> QED
      BY <2>2, <3>4
  <2>6. CASE Top.kind = "load" /\ stack' # stack /\ SearchStep
    <3>1. PICK g : /\ SameSearch(g)
                   /\ \/ Waits(g)
                      \/ stack' = Replace(g) /\ insts' = insts /\ (Hits(g) \/ Finds(g) \/ Lacks(g))
      BY <1>1, <2>6, SearchTo
    <3>2. CleanFrame(g)'
      BY <2>6, <3>1, CleanSearch
    <3>3. stack' = Replace(g) \/ \E h : stack' = Push(Replace(g), h)
      BY <3>1 DEF Waits
    <3>4. stack'[Depth] = g
      BY <1>1, <1>8, <3>3, Turned
    <3> QED
      BY <1>8, <3>2, <3>4
  <2>7. CASE Top.kind = "load" /\ stack' # stack /\ LoadStep
    <3>1. PICK g : TurnsTo(g)
      BY <1>1, <2>1, <2>7, LoadTurns
    <3>2. CleanFrame(g)'
      BY <1>1, <2>1, <2>7, <3>1, CleanLoad
    <3>3. stack' = Replace(g) \/ \E h : stack' = Push(Replace(g), h)
      BY <3>1 DEF TurnsTo
    <3>4. stack'[Depth] = g
      BY <1>1, <1>8, <3>3, Turned
    <3> QED
      BY <1>8, <3>2, <3>4
  <2>8. ~ ExecuteStep \/ stack' = stack
    BY <1>8 DEF ExecuteStep, ExecuteNotFound, ExecuteTrap, ExecuteFault, ExecuteBaseTaken,
       ExecuteRejected, ExecuteMap, PastTrap, Executing, Starting, Stop
  <2>9. Top.kind = "load" => ~ GuestStep
    BY DEF GuestStep, GuestCallsImport, LoadLibraryW, LoadLibraryReturns, UseHandle,
       GuestReturns, ExitProcess, Running, At
  <2>10. Top.kind \in {"load", "guest", "call"}
    BY <1>4, <1>8 DEF AnyFrame
  <2> QED
    BY <2>3, <2>4, <2>5, <2>6, <2>7, <2>8, <2>9, <2>10 DEF Step
<1>9. CASE stack # <<>> /\ i = Depth + 1
  <2>1. ~ ReturnToCaller /\ stack' # stack
    BY <1>4, <1>6, <1>9
  <2>2. PICK g : g = stack'[i]
    OBVIOUS
  <2>3. g \in AnyFrame
    BY <1>1, <2>2, ElementOfSeq DEF ShapeInv, Shape
  <2>4. CASE g.kind = "call"
    BY <2>2, <2>4 DEF CleanFrame
  <2>5. CASE g.kind = "load"
    <3>1. g = LoadFrame(Len(insts) + 1, "tls")
      BY <1>1, <1>9, <2>2, <2>5, PushedLoad
    <3>2. /\ g.pc = "tls" /\ g.status = "SUCCESS" /\ g.imp = 1 /\ g.inst # 1
      BY <1>1, <1>4, <1>9, <3>1 DEF LoadFrame
    <3>3. CleanFrame(g)'
      BY <2>5, <3>2 DEF CleanFrame, Importing
    <3> QED
      BY <2>2, <3>3
  <2>6. CASE g.kind = "guest"
    <3>1. ~ SearchStep
      <4>1. ASSUME SearchStep PROVE FALSE
        <5>1. PICK f : Waits(f) \/ stack' = Replace(f)
          BY <1>1, <2>1, <4>1, SearchTo
        <5>2. stack' # Replace(f)
          BY <1>1, <1>4, <1>9, Turned
        <5>3. PICK h : stack' = Push(Replace(f), h) /\ h.kind = "load"
          BY <5>1, <5>2 DEF Waits, LoadFrame
        <5>4. stack'[Depth + 1] = h
          BY <1>1, <1>9, <5>3, Turned
        <5> QED
          BY <1>9, <2>2, <2>6, <5>3, <5>4
      <4> QED
        BY <4>1
    <3>2. ~ ExecuteStep
      BY <1>9, <2>1 DEF ExecuteStep, ExecuteNotFound, ExecuteTrap, ExecuteFault, ExecuteBaseTaken,
         ExecuteRejected, ExecuteMap, PastTrap, Executing, Starting, Stop
    <3>3. ~ GuestStep
      <4>1. ASSUME GuestStep PROVE FALSE
        <5>1. stack' = Popped \/ LoadLibraryW
          BY <2>1, <4>1 DEF GuestStep, GuestCallsImport, LoadLibraryReturns, UseHandle,
            GuestReturns, ExitProcess, Stop
        <5>2. ~ (stack' = Popped)
          BY <1>1, <1>4, <1>9, PopFrames DEF ShapeInv, Shape
        <5>3. PICK s \in Stem : stack' = Push(stack, CallFrame(Top.inst, Dll(s)))
          BY <5>1, <5>2 DEF LoadLibraryW
        <5>4. PICK h : h = CallFrame(Top.inst, Dll(s)) /\ h.kind = "call"
          <6>1. Top.inst \in Nat \ {0} /\ Dll(s) \in ModName
            BY <1>4, <1>9 DEF AnyFrame, Dll, ModName
          <6> QED
            BY <6>1, NewCall
        <5>5. stack' = Push(Replace(Top), h)
          <6>1. Shape(stack, Len(insts))
            BY <1>1 DEF ShapeInv
          <6> QED
            BY <1>1, <1>9, <5>3, <5>4, <6>1, ReplaceTop
        <5>6. stack'[Depth + 1] = h
          BY <1>1, <1>9, <5>5, Turned
        <5> QED
          BY <1>9, <2>2, <2>6, <5>4, <5>6
      <4> QED
        BY <4>1
    <3>4. LoadStep
      BY <3>1, <3>2, <3>3 DEF Step
    <3>5. PICK f : TurnsTo(f)
      BY <1>1, <2>1, <3>4, LoadTurns
    <3>6. stack' # Replace(f)
      BY <1>1, <1>4, <1>9, Turned
    <3>7. /\ stack' = Push(Replace(f), GuestFrame(Top.inst))
          /\ \/ Top.pc = "callbacks" /\ ImageOf(Top.inst).tls > 0
             \/ Top.pc = "entry"
      BY <3>5, <3>6 DEF TurnsTo
    <3>8. g = GuestFrame(Top.inst)
      BY <1>1, <1>9, <2>2, <3>7, Turned
    <3>9. g.inst = Top.inst /\ Top.kind = "load"
      BY <1>1, <1>4, <1>9, <2>1, <3>4, <3>8, LoadTurns DEF GuestFrame, LoadFrame
    <3>10. AllBound(Top.inst)
      <4>1. CASE Top.pc = "entry"
        BY <1>4, <1>5, <1>9, <3>9, <4>1 DEF CleanFrame
      <4>2. CASE Top.pc = "callbacks" /\ Top.inst = 1
        BY <1>4, <1>5, <1>9, <3>9, <4>2 DEF CleanFrame
      <4>3. ~ (Top.inst # 1 /\ ImageOf(Top.inst).tls > 0)
        <5>1. Top.inst # 1 => insts[Top.inst].image \in Files(world) \cap Stem
          BY <1>1, <1>4, <1>9 DEF ShapeInv, ImagesInv, Files
        <5> QED
          BY <5>1 DEF Sound, EarlyCallbacks, ImageOf
      <4> QED
        BY <3>7, <4>1, <4>2, <4>3
    <3>11. ~ Bind
      BY <3>7 DEF Bind, Binding, At
    <3>12. insts'[g.inst].iat = insts[g.inst].iat
      BY <1>1, <1>4, <1>9, <3>9, <3>11, TableOf
    <3>13. AllBound(g.inst)'
      BY <3>9, <3>10, <3>12 DEF AllBound, RowBound
    <3> QED
      BY <2>2, <2>6, <3>13 DEF CleanFrame
  <2> QED
    BY <2>3, <2>4, <2>5, <2>6 DEF AnyFrame
<1>10. CASE /\ i \in 1..Len(stack) /\ i # Depth /\ stack[i].pc = "await" /\ stack'[i].pc = "found"
  <2>1. CASE ReturnToCaller
    <3>1. stack # <<>>
      BY <2>1 DEF ReturnToCaller, At
    <3>2. i = Depth - 1 \/ i \in 1..(Depth - 2)
      BY <1>4, <1>6, <1>10, <2>1, <3>1
    <3> QED
      BY <1>6, <1>10, <2>1, <3>2
  <2>2. CASE SearchStep
    <3>1. CASE stack' = stack
      BY <1>10, <3>1
    <3>2. CASE stack' # stack
      <4>1. PICK g : stack' = Replace(g) \/ \E h : stack' = Push(Replace(g), h)
        BY <1>1, <2>2, <3>2, SearchTo DEF Waits
      <4>2. stack # <<>>
        BY <2>2 DEF SearchStep, SearchHit, SearchLoad, SearchTrap, SearchRejected,
       SearchMapFails, SearchNoMemory, SearchNative, SearchMissing, Absent, Searching
      <4>3. i \in 1..(Depth - 1)
        BY <1>4, <1>10, <4>2
      <4>4. stack'[i] = stack[i]
        BY <1>1, <4>1, <4>2, <4>3, Turned
      <4> QED
        BY <1>10, <4>4
    <3> QED
      BY <3>1, <3>2
  <2>3. CASE ~ SearchStep /\ ~ ReturnToCaller
    BY <1>1, <1>10, <2>3, StepElsewhere DEF Elsewhere, Plain
  <2> QED
    BY <2>1, <2>2, <2>3
<1>11. CASE stack = <<>> /\ stack'[i] = LoadFrame(1, "import")
  <2>1. PICK f : f = LoadFrame(1, "import") /\ f = stack'[i]
    BY <1>11
  <2>2. f.kind = "load" /\ f.inst = 1 /\ f.pc = "import" /\ f.imp = 1 /\ f.status = "SUCCESS"
    BY <2>1, StartFrame
  <2>3. DOMAIN insts'[1].iat = 1..(Len(ImportsOf(1)))' /\ (Len(ImportsOf(1)))' \in Nat
    <3>1. 1 \in 1..Len(insts')
      BY <1>1, <2>1, <2>2 DEF ShapeInv, Shape
    <3>2. (DOMAIN insts[1].iat = 1..Len(ImportsOf(1)))'
      BY <1>1, <3>1, TableDomains
    <3>3. (ImportsOf(1) \in Seq(Import))'
      <4>1. /\ insts'[1].image \in DOMAIN world.img
            /\ world' = world
        BY <1>1, <3>1 DEF ShapeInv, ImagesInv, Kept
      <4>2. world.img[insts'[1].image] \in Image
        BY <1>1, <4>1, World
      <4> QED
        BY <4>1, <4>2 DEF ImportsOf, ImageOf, Image
    <3> QED
      BY <3>2, <3>3, LenProperties
  <2>4. BoundUpTo(1, 1)'
    BY <2>3 DEF BoundUpTo
  <2>5. CleanFrame(f)'
    BY <2>2, <2>4 DEF CleanFrame, Importing
  <2> QED
    BY <2>1, <2>5
<1> QED
  BY <1>3, <1>7, <1>8, <1>9, <1>10, <1>11 DEF FrameFrom

LEMMA CleanInit == Init => CleanInv
<1> SUFFICES ASSUME Init PROVE CleanInv
  OBVIOUS
<1>1. insts = <<>> /\ stack = <<>> /\ faults = 0
  BY DEF Init
<1>2. Len(insts) = 0 /\ Len(stack) = 0
  BY <1>1
<1> QED
  BY <1>1, <1>2 DEF CleanInv

LEMMA CleanNext == BindInv /\ TraceInv /\ CleanInv /\ [Next]_vars => CleanInv'
<1> SUFFICES ASSUME BindInv, TraceInv, CleanInv, [Next]_vars PROVE CleanInv'
  OBVIOUS
<1>1. CASE Step
  <2>1. Kinds /\ Kept /\ ShapeInv
    BY <1>1, StepKinds DEF BindInv, DepthInv
  <2>2. faults' \in Nat /\ (faults' = 0 => faults = 0 /\ ~ Fault)
    BY <1>1, FaultsMove DEF CleanInv
  <2>3. \A n \in 1..Len(insts') : (DOMAIN insts[n].iat = 1..Len(ImportsOf(n)))'
    BY <1>1, <2>1, TableDomains
  <2>4. Sound' => Sound
    BY <2>1, <2>2 DEF Sound, Kept, Files, Resolvable, EarlyCallbacks, IsFile, Provided
  <2>5. Sound' => ~ Fault
    BY <2>2 DEF Sound
  <2>6. Sound' => \A i \in 1..Len(stack') : CleanFrame(stack[i])'
    BY <1>1, <2>1, <2>4, <2>5, CleanFrames
  <2> QED
    BY <2>2, <2>3, <2>6 DEF CleanInv
<1>2. CASE UNCHANGED vars
  <2>1. UNCHANGED <<world, insts, stack, faults>>
    BY <1>2 DEF vars
  <2>2. Sound' => Sound
    BY <2>1 DEF Sound, Files, Resolvable, EarlyCallbacks, IsFile, Provided
  <2>3. \A n : ImportsOf(n)' = ImportsOf(n)
    BY <2>1 DEF ImportsOf, ImageOf
  <2>4. ASSUME NEW i \in 1..Len(stack), CleanFrame(stack[i]) PROVE CleanFrame(stack[i])'
    <3>1. \A n : AllBound(n)' = AllBound(n)
      BY <2>1 DEF AllBound, RowBound
    <3>2. \A n, k : BoundUpTo(n, k)' = BoundUpTo(n, k)
      BY <2>1 DEF BoundUpTo, RowBound
    <3>3. FoundOne(stack[i])' = FoundOne(stack[i])
      <4>1. Want(stack[i])' = Want(stack[i])
        BY <2>1, <2>3 DEF Want
      <4> QED
        BY <2>1, <4>1 DEF FoundOne
    <3>4. stack' = stack
      BY <2>1
    <3> QED
      BY <2>4, <3>1, <3>2, <3>3, <3>4 DEF CleanFrame
  <2>5. Sound' => \A i \in 1..Len(stack') : CleanFrame(stack[i])'
    BY <2>1, <2>2, <2>4 DEF CleanInv
  <2>6. \A n \in 1..Len(insts') : (DOMAIN insts[n].iat = 1..Len(ImportsOf(n)))'
    BY <2>1, <2>3 DEF CleanInv
  <2> QED
    BY <2>1, <2>5, <2>6 DEF CleanInv
<1> QED
  BY <1>1, <1>2 DEF Next, Ended

(* Everything that explains how a run ends.                                *)
EndInv ==
  BindInv /\ TraceInv /\ CountInv /\ NestInv /\ CleanInv

LEMMA EndAlways == Spec => []EndInv
<1>1. Init => EndInv
  BY BindInit, TraceInit, CountInit, NestInit, CleanInit DEF EndInv
<1>2. EndInv /\ [Next]_vars => EndInv'
  BY BindStep, TraceNext, CountNext, NestNext, CleanNext DEF EndInv, BindInv, DepthInv
<1> QED
  BY <1>1, <1>2, PTL DEF Spec

-----------------------------------------------------------------------------
(* The actions that end a run, and what they say.                          *)
Rejects ==
  \/ outcome' = "debugTrap" /\ world.traps # {}
  \/ outcome' \in {"mapFailed", "NOT_FOUND", "NO_MEM"} /\ faults' > 0
  \/ outcome' = "NOT_FOUND" /\ Exe \notin Files(world)
  \/ /\ outcome' \in {"BAD_FORMAT", "BAD_ARCH", "NO_MEM"}
     /\ Exe \in Files(world) /\ world.img[Exe].verdict # "SUCCESS"

Overflows ==
  /\ outcome' = "stackOverflow"
  /\ Searching /\ FileThere(Want(Top)) /\ Depth >= StackLimit

AssertsTls ==
  /\ outcome' = "tlsAssert" /\ insts' = insts
  /\ At("load", "tls") /\ ImageOf(Top.inst).tls # NoTls /\ TlsFull

LEMMA Endings ==
  ASSUME ShapeInv, NestInv, CrashReasons, Step
  PROVE  \/ outcome' \in {"running", "exit"} \/ Rejects \/ Overflows \/ AssertsTls
         \/ BindTellsNull \/ BindStale \/ BindWrongType \/ TlsNoArray \/ BoundExeFails
         \/ EntryZero \/ GuestCallsImport \/ UseHandle
<1>1. outcome = "running" /\ faults \in Nat
  BY DEF Step, CrashReasons
<1>2. Fault => faults' > 0
  BY <1>1 DEF Fault
<1>3. CASE ExecuteStep
  <2>1. CASE ExecuteNotFound \/ ExecuteTrap \/ ExecuteFault \/ ExecuteBaseTaken
    BY <1>2, <2>1 DEF ExecuteNotFound, ExecuteTrap, ExecuteFault, ExecuteBaseTaken, Traps, Stop,
       Rejects, Files
  <2>2. CASE ExecuteRejected
    <3>1. Exe \in Files(world) /\ ExeVerdict # "SUCCESS" /\ ~ Traps(ExeVerdict)
      BY <2>2 DEF ExecuteRejected, PastTrap, Executing, Files
    <3>2. ExeVerdict \in Verdict
      BY <3>1, World DEF Image, ExeVerdict, Files
    <3>3. Refusal(ExeVerdict) \in {"BAD_FORMAT", "BAD_ARCH", "NO_MEM"}
      BY <3>1, <3>2 DEF Refusal, Verdict
    <3> QED
      BY <2>2, <3>1, <3>3 DEF ExecuteRejected, Stop, Rejects, ExeVerdict
  <2>3. CASE ExecuteMap
    <3>1. Len(stack) = 0 /\ StackLimit \in Nat \ {0}
      BY <2>3, LoaderAssumption DEF ExecuteMap, PastTrap, Executing, Starting, LoaderAssumption
    <3>2. ~ (Len(stack) >= StackLimit)
      BY <3>1
    <3>3. outcome' = outcome
      BY <2>3, <3>2 DEF ExecuteMap, Map
    <3> QED
      BY <1>1, <3>3
  <2> QED
    BY <1>3, <2>1, <2>2, <2>3 DEF ExecuteStep
<1>4. CASE SearchStep
  <2>1. CASE SearchHit \/ SearchRejected \/ SearchNoMemory \/ SearchNative \/ SearchMissing
    BY <1>1, <2>1 DEF SearchHit, SearchRejected, SearchNoMemory, SearchNative, SearchMissing
  <2>2. CASE SearchTrap \/ SearchMapFails
    BY <1>2, <2>2 DEF SearchTrap, SearchMapFails, Traps, Stop, Rejects
  <2>3. CASE SearchLoad
    <3>1. Searching /\ FileThere(Want(Top))
      BY <2>3 DEF SearchLoad, Absent
    <3>2. PICK f : f = [Top EXCEPT !.pc = "await"]
      OBVIOUS
    <3>3. Len(Replace(f)) = Depth
      <4>1. stack # <<>> /\ Top \in AnyFrame /\ stack \in Seq(AnyFrame)
        BY <3>1, TopRange DEF Searching, ShapeInv, Shape
      <4>2. f \in AnyFrame
        BY <3>2, <4>1 DEF AnyFrame, Pc
      <4> QED
        BY <4>1, <4>2, ReplaceFrames
    <3>4. outcome' = outcome \/ (Depth >= StackLimit /\ outcome' = "stackOverflow")
      BY <2>3, <3>2, <3>3 DEF SearchLoad, Map, Stop
    <3> QED
      BY <1>1, <3>1, <3>4 DEF Overflows
  <2> QED
    BY <1>4, <2>1, <2>2, <2>3 DEF SearchStep
<1>5. CASE AllocateTls \/ TlsMapFails
  BY <1>1, <1>2, <1>5 DEF AllocateTls, TlsMapFails, Stop, AssertsTls, Rejects
<1>6. CASE \/ TlsCallback \/ TlsDone \/ RegisterDll
           \/ NextImport \/ ImportNotFound \/ Bind \/ ImportsDone \/ BoundDll \/ BoundExe
           \/ InvokeEntry \/ ReturnToMain \/ ReturnToCaller
  BY <1>1, <1>6 DEF TlsCallback, TlsDone, RegisterDll, NextImport, ImportNotFound, Bind,
     ImportsDone, BoundDll, BoundExe, InvokeEntry, ReturnToMain, ReturnToCaller
<1>7. CASE LoadLibraryW \/ LoadLibraryReturns \/ GuestReturns \/ ExitProcess
  BY <1>1, <1>7 DEF LoadLibraryW, LoadLibraryReturns, GuestReturns, ExitProcess, Stop
<1> QED
  BY <1>3, <1>4, <1>5, <1>6, <1>7 DEF Step, LoadStep, GuestStep

(* The frame on top when the run ends.                                     *)
LEMMA TopEnds ==
  ASSUME EndInv, stack # <<>>
  PROVE  /\ ShapeInv /\ Depth \in 1..Len(stack) /\ Top = stack[Depth]
         /\ Top.inst \in 1..Len(insts) /\ insts[Top.inst].image \in Files(world)
         /\ Traced(Top) /\ (Sound => CleanFrame(Top))
         /\ \A p \in Ptrs(Top) : PtrOK(p) /\ Target(p) = p.lib
<1>1. ShapeInv
  BY DEF EndInv, BindInv, DepthInv
<1>2. Depth \in 1..Len(stack) /\ Top = stack[Depth] /\ Top.inst \in 1..Len(insts)
  BY <1>1, TopRange
<1>3. \A p \in Ptrs(Top) : PtrOK(p)
  BY <1>1, <1>2 DEF ShapeInv, PointersInv
<1>4. \A p \in Ptrs(Top) : Target(p) = p.lib
  BY <1>3 DEF PtrOK, Target
<1>5. insts[Top.inst].image \in Files(world)
  BY <1>1, <1>2 DEF ShapeInv, ImagesInv, Files
<1>6. Traced(Top) /\ (Sound => CleanFrame(Top))
  BY <1>2 DEF EndInv, TraceInv, CleanInv
<1> QED
  BY <1>1, <1>2, <1>3, <1>4, <1>5, <1>6

(* msvcrt and kernel32 are told through NULL only when they are PE files   *)
(* of the world, or were found under a name without .dll.                  *)
LEMMA ToldNull ==
  ASSUME EndInv, BindTellsNull
  PROVE  ~ ToldAreNative(world) \/ ~ OnlyDllNames(world)
<1>1. stack # <<>> /\ Top.kind = "load" /\ Top.pc = "found" /\ Top.loaded # {} /\ Told
  BY DEF BindTellsNull, Binding, At
<1>2. Traced(Top)
  BY <1>1, TopEnds
<1>3. IsFile(world, Want(Top)) \/ ~ OnlyDllNames(world)
  BY <1>1, <1>2 DEF Traced
<1> QED
  BY <1>1, <1>3 DEF Told, IsFile, ToldAreNative

(* A native library is taken for a PE image only under a name without .dll. *)
LEMMA WrongType ==
  ASSUME EndInv, BindWrongType
  PROVE  ~ OnlyDllNames(world)
<1>1. stack # <<>> /\ Top.kind = "load" /\ Top.pc = "found"
  BY DEF BindWrongType, Binding, At
<1>2. PICK p \in Top.loaded : Target(p).kind = "NATIVE"
  BY DEF BindWrongType
<1>3. Traced(Top) /\ p.lib.kind = "NATIVE"
  BY <1>1, <1>2, TopEnds DEF Ptrs
<1> QED
  BY <1>1, <1>2, <1>3 DEF Traced

(* Guest code finds its imports bound.                                     *)
LEMMA CallsBound ==
  ASSUME EndInv, GuestCallsImport
  PROVE  ~ Sound
<1>1. stack # <<>> /\ Top.kind = "guest"
  BY DEF GuestCallsImport, Running, At
<1>2. Sound => AllBound(Top.inst)
  BY <1>1, TopEnds DEF CleanFrame
<1> QED
  BY <1>2 DEF GuestCallsImport, AllBound, RowBound

(* The executable is not refused for its imports.                          *)
LEMMA ExeComplete ==
  ASSUME EndInv, BoundExeFails
  PROVE  ~ Sound
<1>1. stack # <<>> /\ Top.kind = "load" /\ Top.status # "SUCCESS"
  BY DEF BoundExeFails, At
<1> QED
  BY <1>1, TopEnds DEF CleanFrame

NullArray == \E n \in DOMAIN insts : ImageOf(n).tls = NoCallbacks
NoEntry == \E n \in DOMAIN insts : ~ ImageOf(n).entry

(* How a run may end, for a step of a process that still runs.             *)
LEMMA EndsExplained ==
  ASSUME EndInv, CrashReasons, CrashReasons', Step
  PROVE  CrashesExplained' /\ WellFormedRuns'
<1>1. ShapeInv /\ NestInv /\ CountInv /\ world' = world /\ faults \in Nat
  BY StepKinds DEF EndInv, BindInv, DepthInv, Kept, CrashReasons
<1> DEFINE Explained ==
             /\ outcome' = "wrongType" => ~ OnlyDllNames(world)
             /\ outcome' \in {"setArgsNull", "exePathNull"} =>
                  ~ ToldAreNative(world) \/ ~ OnlyDllNames(world)
             /\ outcome' = "stackOverflow" => ~ Shallow(world)
             /\ outcome' = "tlsAssert" => Cardinality(WithTls') > TlsSlots
             /\ outcome' = "tlsNull" => NullArray'
             /\ outcome' = "entryZero" => NoEntry'
             /\ outcome' = "unboundCall" => ~ Sound /\ faults' = faults
           Comes ==
             outcome' \in {"running", "exit"} \/ ~ WellFormed(world) \/ faults' > 0
               \/ Len(libs') > FirstCap \/ Cardinality(WithTls') > TlsSlots
<1>2. Explained /\ Comes
  <2>1. CASE outcome' \in {"running", "exit"}
    BY <2>1
  <2>2. CASE Rejects
    BY <2>2 DEF Rejects, WellFormed
  <2>3. CASE Overflows
    <3>1. ~ Shallow(world)
      BY <1>1, <2>3, StackSuffices DEF Overflows
    <3> QED
      BY <2>3, <3>1 DEF Overflows, WellFormed
  <2>4. CASE AssertsTls
    <3>1. Cardinality(WithTls) > TlsSlots
      BY <1>1, <2>4, SlotsUsedUp DEF AssertsTls
    <3>2. WithTls' = WithTls
      BY <1>1, <2>4 DEF AssertsTls, WithTls, ImageOf
    <3> QED
      BY <2>4, <3>1, <3>2 DEF AssertsTls
  <2>5. CASE BindTellsNull
    <3>1. outcome' \in {"setArgsNull", "exePathNull"}
      BY <2>5 DEF BindTellsNull, Stop
    <3> QED
      BY <2>5, <3>1, ToldNull DEF WellFormed
  <2>6. CASE BindStale \/ UseHandle
    <3>1. outcome' = "staleHandle"
      BY <2>6 DEF BindStale, UseHandle, Stop
    <3> QED
      BY <3>1 DEF CrashReasons
  <2>7. CASE BindWrongType
    <3>1. outcome' = "wrongType"
      BY <2>7 DEF BindWrongType, Stop
    <3> QED
      BY <2>7, <3>1, WrongType DEF WellFormed
  <2>8. CASE TlsNoArray \/ EntryZero
    <3>1. outcome' \in {"tlsNull", "entryZero"}
      BY <2>8 DEF TlsNoArray, EntryZero, Stop
    <3>2. stack # <<>> /\ (ImageOf(Top.inst).tls = NoCallbacks \/ ~ ImageOf(Top.inst).entry)
      BY <2>8 DEF TlsNoArray, EntryZero, At
    <3>3. insts[Top.inst].image \in Files(world)
      BY <3>2, TopEnds
    <3>4. ~ WellFormed(world)
      BY <3>2, <3>3 DEF WellFormed, ImageOf
    <3>5. Top.inst \in DOMAIN insts /\ insts' = insts
      BY <2>8, <3>2, TopEnds DEF TlsNoArray, EntryZero, Stop
    <3>6. (NullArray' <=> NullArray) /\ (NoEntry' <=> NoEntry)
      BY <1>1, <3>5 DEF NullArray, NoEntry, ImageOf
    <3>7. CASE TlsNoArray
      BY <3>1, <3>4, <3>5, <3>6, <3>7 DEF TlsNoArray, Stop, NullArray
    <3>8. CASE EntryZero
      BY <3>1, <3>4, <3>5, <3>6, <3>8 DEF EntryZero, Stop, NoEntry
    <3> QED
      BY <2>8, <3>7, <3>8
  <2>9. (WellFormed(world) /\ ~ Sound) => faults > 0
    BY <1>1 DEF WellFormed, Sound
  <2>10. CASE BoundExeFails
    <3>1. outcome' = "IMPORT_NOT_FOUND" /\ faults' = faults
      BY <2>10 DEF BoundExeFails, Stop
    <3> QED
      BY <2>9, <2>10, <3>1, ExeComplete
  <2>11. CASE GuestCallsImport
    <3>1. outcome' = "unboundCall" /\ faults' = faults
      BY <2>11 DEF GuestCallsImport, Stop
    <3> QED
      BY <2>9, <2>11, <3>1, CallsBound
  <2> QED
    BY <1>1, <2>1, <2>2, <2>3, <2>4, <2>5, <2>6, <2>7, <2>8, <2>10, <2>11, Endings
<1>3. ~ Sound =>
        \/ EarlyCallbacks(world) \/ faults > 0
        \/ \E f \in Files(world) : ~ Resolvable(world, f) \/ world.img[f].verdict # "SUCCESS"
  BY <1>1 DEF Sound
<1>4. CrashesExplained'
  BY <1>1, <1>2, <1>3 DEF CrashReasons, CrashesExplained, NullArray, NoEntry
<1>5. WellFormedRuns'
  BY <1>1, <1>2 DEF WellFormedRuns
<1> QED
  BY <1>4, <1>5

LEMMA EndedExplained ==
  ASSUME CrashesExplained, WellFormedRuns, UNCHANGED vars
  PROVE  CrashesExplained' /\ WellFormedRuns'
<1>1. UNCHANGED <<world, insts, libs, faults, outcome>>
  BY DEF vars, table
<1>2. /\ WithTls' = WithTls
      /\ \A n \in DOMAIN insts : ImageOf(n)' = ImageOf(n)
  BY <1>1 DEF WithTls, ImageOf
<1> QED
  BY <1>1, <1>2 DEF CrashesExplained, WellFormedRuns

LEMMA EndsAlways == Spec => []CrashesExplained /\ []WellFormedRuns
<1>1. Init => CrashesExplained /\ WellFormedRuns
  BY DEF Init, CrashesExplained, WellFormedRuns
<1>2. /\ EndInv /\ CrashReasons /\ CrashReasons' /\ CrashesExplained /\ WellFormedRuns /\ [Next]_vars
      => CrashesExplained' /\ WellFormedRuns'
  BY EndsExplained, EndedExplained DEF Next, Ended
<1> QED
  BY <1>1, <1>2, EndAlways, CrashReasonsAlways, PTL DEF Spec

(* Each crash of the loader has the reasons its source allows, and no      *)
(* other: an overflow of the stack only a deep or cyclic import graph, the *)
(* assertion of allocate_tls only too many modules with a TLS directory,   *)
(* a null callback array or a jump to the base only a mapped image that    *)
(* has none or no entry point, a call to an unbound address only an import *)
(* nothing provides, a file that is rejected, a failed system call or a    *)
(* DLL with TLS callbacks.                                                 *)
THEOREM LoaderCrashesExplained == Spec => []CrashesExplained
BY EndsAlways, PTL

(* A well-formed program never ends but by its own exit, as long as no     *)
(* system call fails, the first allocation of the table suffices and the   *)
(* TLS slots do.                                                           *)
THEOREM LoaderWellFormedRuns == Spec => []WellFormedRuns
BY EndsAlways, PTL
=============================================================================
