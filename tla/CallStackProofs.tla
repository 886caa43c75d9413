--------------------------- MODULE CallStackProofs ---------------------------
(***************************************************************************)
(* Proofs about CallStack, for every set of VMs and for every bound.       *)
(***************************************************************************)
EXTENDS CallStack, Induction, SequenceTheorems, TLAPS

-----------------------------------------------------------------------------
(* The inductive invariant.                                                *)

Activation == [kind : Kinds, vm : VMs]

(* How activations follow one another: a VM is entered at the bottom or    *)
(* from a native closure, its functions are called by it or by its         *)
(* scripts, and the debug hook is the newest activation.                   *)
Follows(k) ==
  /\ k = 1 => Kind(k) = "sq_call"
  /\ k > 1 /\ Kind(k) = "sq_call" => Kind(k - 1) = "native"
  /\ Kind(k) \in {"script", "native"} =>
       Kind(k - 1) \in {"sq_call", "script"} /\ stack[k - 1].vm = stack[k].vm
  /\ Kind(k) = "hook" =>
       k = Top /\ Kind(k - 1) = "script" /\ stack[k - 1].vm = stack[k].vm

StackOK == stack \in Seq(Activation) /\ \A k \in 1 .. Top : Follows(k)

(* A walk exists only while the program is stopped, is at a native frame,  *)
(* and leaves frames behind only if they are known to be of an earlier     *)
(* stop.                                                                   *)
WalkOK ==
  /\ process = "running" => next = 0
  /\ next # 0 => Kind(next) # "script"
  /\ ~walking /\ Leftover => "stale" \in disturbed

(* A list has all the frames of its VM up to activation k, newest first.   *)
Listed(vm, k) == {j \in 1 .. k : InVM(vm, j)}
ListOf(frames, vm, k) ==
  /\ NewestFirst(frames)
  /\ \A i \in DOMAIN frames : /\ frames[i].at \in Listed(vm, k)
                              /\ frames[i].kind = Kind(frames[i].at)
  /\ \A j \in Listed(vm, k) : \E i \in DOMAIN frames : frames[i].at = j

(* The fetched frames are those of the present stack, unless they are of   *)
(* an earlier stop.                                                        *)
CacheOK ==
  walking /\ "stale" \notin disturbed =>
    \A vm \in DOMAIN ActiveThreads : ListOf(ActiveThreads[vm], vm, Top)

(* What has been shown is a native frame the walk has passed or a function *)
(* that a native frame it has passed has claimed.                          *)
ClaimedAbove(cache, p, k) ==
  /\ Kind(k) = "script"
  /\ stack[k].vm \in DOMAIN cache
  /\ \E i \in DOMAIN cache[stack[k].vm] : /\ cache[stack[k].vm][i].at = k
                                         /\ cache[stack[k].vm][i].ParentFrameBase > p
Passed(cache, p, k) ==
  \/ Kind(k) # "script" /\ k > p
  \/ ClaimedAbove(cache, p, k)
ShownOK ==
  walking /\ disturbed \subseteq {"unread", "thrown"} =>
    /\ \A i \in DOMAIN shown : /\ shown[i].at \in 1 .. Top
                               /\ Passed(ActiveThreads, next, shown[i].at)
    /\ \A i, j \in DOMAIN shown : shown[i].at = shown[j].at => i = j

(* The sq_call that runs activation k, and the one that gets its frame: it *)
(* is the same, but if the newest frames do not end in a native closure or *)
(* the hook, that sq_call takes the next one's frames as well, and every   *)
(* older one of the VM those of the one below it.                          *)
Owner(k) == CHOOSE j \in 1 .. k : /\ Kind(j) = "sq_call"
                                  /\ \A i \in j + 1 .. k : Kind(i) # "sq_call"
Shifted(vm) == TopKind \in {"script", "sq_call"} /\ stack[Top].vm = vm
Newer(vm, k) == {j \in Calls(vm) : j > Owner(k)}
Claimant(k) ==
  IF Shifted(stack[k].vm) /\ Newer(stack[k].vm, k) # {}
    THEN CHOOSE j \in Newer(stack[k].vm, k) : \A i \in Newer(stack[k].vm, k) : j <= i
    ELSE Owner(k)

(* The frames of a list that are claimed, those of the claimants passed    *)
(* among them, are claimed by their claimant, and with all it claims.      *)
Claimed(frames, p) ==
  /\ \A i \in DOMAIN frames :
       /\ frames[i].ParentFrameBase \in {0, Claimant(frames[i].at)}
       /\ Claimant(frames[i].at) > p => frames[i].ParentFrameBase # 0
  /\ \A i, j \in DOMAIN frames :
       Claimant(frames[i].at) = Claimant(frames[j].at) =>
         frames[i].ParentFrameBase = frames[j].ParentFrameBase

Returned(p) ==
  {k \in 1 .. Top : Visible(k) /\ (IF Kind(k) = "script" THEN Claimant(k) > p ELSE k > p)}

SameVMScripts(j, k) ==
  Kind(j) = "script" /\ Kind(k) = "script" /\ stack[j].vm = stack[k].vm

MergeOK ==
  Undisturbed =>
    /\ \A vm \in DOMAIN ActiveThreads : Claimed(ActiveThreads[vm], next)
    /\ \A vm \in VMs \ DOMAIN ActiveThreads : \A j \in Calls(vm) : j <= next
    /\ ToSet(shown) = {Expected(k) : k \in Returned(next)}
    /\ \A i, j \in DOMAIN shown :
         i < j /\ SameVMScripts(shown[i].at, shown[j].at) => shown[i].at > shown[j].at
    /\ stack # <<>> /\ (TopKind \in {"hook", "native"} \/ EnteredOnce(stack[Top].vm))
         => NewestFirst(shown)

IInv == TypeOK /\ StackOK /\ WalkOK /\ CacheOK /\ ShownOK /\ MergeOK

-----------------------------------------------------------------------------
(* The loops.                                                              *)

FrameAt(k) == [at : 1 .. k, kind : Squirrel, ParentFrameBase : {0}]

(* The loop that fetches a list is a function of its turns.                *)
LEMMA ListFunction ==
  ASSUME StackOK, NEW vm \in VMs,
         NEW Callstack,
         Callstack = CHOOSE C : C = [k \in 0 .. Top |->
           IF k = 0 THEN <<>> ELSE FramesAt(vm, k) \o C[k - 1]]
  PROVE  /\ Callstack \in [0 .. Top -> Seq(FrameAt(Top))]
         /\ Callstack[0] = <<>>
         /\ \A k \in 1 .. Top : Callstack[k] = FramesAt(vm, k) \o Callstack[k - 1]
<1> DEFINE A == Seq(FrameAt(Top))
           step == [p \in (1 .. Top) \X A |-> FramesAt(vm, p[1]) \o p[2]]
<1>0. Top \in Nat
  BY LenProperties DEF Top, StackOK
<1>1. \A k \in 1 .. Top : FramesAt(vm, k) \in A
  <2> SUFFICES ASSUME NEW k \in 1 .. Top
               PROVE  FramesAt(vm, k) \in A
    OBVIOUS
  <2>1. InVM(vm, k) => Fetched(k) \in FrameAt(Top)
    BY DEF InVM, Fetched, FrameAt
  <2>2. QED
    BY <2>1 DEF FramesAt
<1>11. \A x, y \in A : x \o y \in A
  BY ConcatProperties
<1>2. step \in [(1 .. Top) \X A -> A]
  BY <1>1, <1>11
<1>3. <<>> \in A
  BY EmptySeq
<1> HIDE DEF A
<1>4. PICK f : IsTable(f, Top, A, <<>>, step)
  <2> HIDE DEF step
  <2>1. QED
    BY <1>0, <1>2, <1>3, Iteration
<1>5. f = [k \in 0 .. Top |-> IF k = 0 THEN <<>> ELSE FramesAt(vm, k) \o f[k - 1]]
  BY <1>0, <1>4 DEF IsTable
<1>6. Callstack = [k \in 0 .. Top |->
                     IF k = 0 THEN <<>> ELSE FramesAt(vm, k) \o Callstack[k - 1]]
  BY <1>5
<1>7. Callstack[0] = <<>>
  <2> DEFINE C == [j \in 0 .. Top |->
                     IF j = 0 THEN <<>> ELSE FramesAt(vm, j) \o Callstack[j - 1]]
  <2>1. C[0] = <<>>
    BY <1>0
  <2>2. QED
    BY <1>6, <2>1
<1>8. ASSUME NEW k \in 1 .. Top
      PROVE  Callstack[k] = FramesAt(vm, k) \o Callstack[k - 1]
  <2> DEFINE C == [j \in 0 .. Top |->
                     IF j = 0 THEN <<>> ELSE FramesAt(vm, j) \o Callstack[j - 1]]
  <2>1. C[k] = FramesAt(vm, k) \o Callstack[k - 1]
    <3>1. k \in 0 .. Top /\ k # 0
      BY <1>0
    <3>2. QED
      BY <3>1, Zenon
  <2>2. Callstack = C
    BY <1>6
  <2> HIDE DEF C
  <2>3. QED
    BY <2>1, <2>2
<1>9. \A k \in 0 .. Top : Callstack[k] \in A
  <2> DEFINE S == {k \in 0 .. Top : Callstack[k] \in A}
  <2>1. 0 \in S
    BY <1>0, <1>3, <1>7
  <2>2. ASSUME NEW k \in 0 .. Top, k \in S, k < Top
        PROVE  k + 1 \in S
    <3>0. k + 1 \in 1 .. Top /\ (k + 1) - 1 = k
      BY <1>0, <2>2
    <3>1. Callstack[k + 1] = FramesAt(vm, k + 1) \o Callstack[k]
      BY <1>8, <3>0
    <3>2. FramesAt(vm, k + 1) \in A /\ Callstack[k] \in A
      BY <1>1, <2>2, <3>0
    <3>3. FramesAt(vm, k + 1) \o Callstack[k] \in A
      BY <3>2, <1>11
    <3>4. k + 1 \in 0 .. Top
      BY <1>0, <3>0
    <3>5. QED
      BY <3>1, <3>3, <3>4
  <2> HIDE DEF S
  <2>3. 0 .. Top \subseteq S
    BY <1>0, <2>1, <2>2, InductiveUpTo
  <2>4. QED
    BY <2>3 DEF S
<1>10. Callstack \in [0 .. Top -> A]
  BY <1>6, <1>9
<1>12. QED
  BY <1>7, <1>8, <1>10 DEF A

(* The fetched list has every frame of the VM, newest first, unclaimed.    *)
LEMMA Fetch ==
  ASSUME StackOK, NEW vm \in VMs
  PROVE  /\ FetchThreadCallstack(vm) \in Seq(FrameAt(Top))
         /\ ListOf(FetchThreadCallstack(vm), vm, Top)
<1> DEFINE C == CHOOSE C : C = [k \in 0 .. Top |->
                  IF k = 0 THEN <<>> ELSE FramesAt(vm, k) \o C[k - 1]]
<1>1. FetchThreadCallstack(vm) = C[Top]
  BY DEF FetchThreadCallstack
<1>2. /\ C \in [0 .. Top -> Seq(FrameAt(Top))]
      /\ C[0] = <<>>
      /\ \A k \in 1 .. Top : C[k] = FramesAt(vm, k) \o C[k - 1]
  BY ListFunction
<1> HIDE DEF C
<1>3. Top \in Nat
  BY LenProperties DEF Top, StackOK
<1> DEFINE S == {k \in 0 .. Top : ListOf(C[k], vm, k)}
<1>4. 0 \in S
  BY <1>2, <1>3 DEF ListOf, Listed, NewestFirst
<1>5. ASSUME NEW k \in 0 .. Top, k \in S, k < Top
      PROVE  k + 1 \in S
  <2>1. /\ C[k] \in Seq(FrameAt(Top))
        /\ DOMAIN C[k] = 1 .. Len(C[k])
        /\ Len(C[k]) \in Nat
    BY <1>2, LenProperties
  <2>2. C[k + 1] = FramesAt(vm, k + 1) \o C[k]
    <3>1. k + 1 \in 1 .. Top /\ (k + 1) - 1 = k
      BY <1>3, <1>5
    <3>2. QED
      BY <1>2, <3>1
  <2>3. CASE InVM(vm, k + 1)
    <3>1. FramesAt(vm, k + 1) = <<Fetched(k + 1)>>
      BY <2>3 DEF FramesAt
    <3>2. Fetched(k + 1) \in FrameAt(Top) /\ Fetched(k + 1).at = k + 1
                                          /\ Fetched(k + 1).kind = Kind(k + 1)
      BY <1>3, <1>5, <2>3 DEF Fetched, FrameAt, InVM
    <3>3. /\ Len(C[k + 1]) = 1 + Len(C[k])
          /\ DOMAIN C[k + 1] = 1 .. 1 + Len(C[k])
          /\ C[k + 1][1] = Fetched(k + 1)
          /\ \A i \in 1 .. Len(C[k]) : C[k + 1][i + 1] = C[k][i]
      <4>1. <<Fetched(k + 1)>> \in Seq(FrameAt(Top)) /\ Len(<<Fetched(k + 1)>>) = 1
                                                     /\ <<Fetched(k + 1)>>[1] = Fetched(k + 1)
        BY <3>2
      <4>2. C[k + 1] \in Seq(FrameAt(Top))
        BY <1>2, <1>3, <1>5
      <4> HIDE DEF S
      <4>3. /\ Len(C[k + 1]) = 1 + Len(C[k])
            /\ \A i \in 1 .. 1 + Len(C[k]) :
                 C[k + 1][i] = IF i <= 1 THEN <<Fetched(k + 1)>>[i] ELSE C[k][i - 1]
        <5> DEFINE new == <<Fetched(k + 1)>>
        <5>1. new \in Seq(FrameAt(Top)) /\ Len(new) = 1 /\ C[k + 1] = new \o C[k]
          BY <2>2, <3>1, <4>1
        <5> HIDE DEF new
        <5>2. QED
          BY <2>1, <5>1, ConcatProperties DEF new
      <4>4. QED
        BY <2>1, <4>1, <4>2, <4>3, LenProperties
    <3>4. Listed(vm, k + 1) = Listed(vm, k) \cup {k + 1}
      BY <1>3, <2>3 DEF Listed
    <3>5. \A i \in DOMAIN C[k] : C[k][i].at \in Listed(vm, k) /\ C[k][i].at <= k
      BY <1>3, <1>5 DEF ListOf, Listed
    <3>6. \A i \in DOMAIN C[k + 1] : i = 1 \/ (i - 1 \in DOMAIN C[k] /\ C[k + 1][i] = C[k][i - 1])
      <4>1. SUFFICES ASSUME NEW i \in DOMAIN C[k + 1], i # 1
                     PROVE  i - 1 \in DOMAIN C[k] /\ C[k + 1][i] = C[k][i - 1]
        OBVIOUS
      <4>2. i - 1 \in 1 .. Len(C[k]) /\ i = (i - 1) + 1
        BY <2>1, <3>3, <4>1
      <4>3. QED
        BY <2>1, <3>3, <4>2
    <3>7. NewestFirst(C[k + 1])
      <4> SUFFICES ASSUME NEW i \in DOMAIN C[k + 1], NEW j \in DOMAIN C[k + 1], i < j
                   PROVE  C[k + 1][i].at > C[k + 1][j].at
        BY DEF NewestFirst
      <4>1. j # 1 /\ i \in Int /\ j \in Int
        BY <2>1, <3>3
      <4>2. CASE i = 1
        <5>1. C[k + 1][i].at = k + 1
          BY <3>2, <3>3, <4>2
        <5>2. j - 1 \in DOMAIN C[k] /\ C[k + 1][j] = C[k][j - 1]
          BY <3>6, <4>1
        <5>3. C[k + 1][j].at \in 1 .. k
          BY <3>5, <5>2 DEF Listed
        <5>4. QED
          BY <5>1, <5>3, <1>3
      <4>3. CASE i # 1
        <5>1. /\ i - 1 \in DOMAIN C[k] /\ C[k + 1][i] = C[k][i - 1]
              /\ j - 1 \in DOMAIN C[k] /\ C[k + 1][j] = C[k][j - 1]
          BY <3>6, <4>1, <4>3
        <5>2. i - 1 < j - 1
          BY <4>1
        <5>3. NewestFirst(C[k])
          BY <1>5 DEF ListOf
        <5>4. C[k][i - 1].at > C[k][j - 1].at
          BY <5>1, <5>2, <5>3 DEF NewestFirst
        <5>5. QED
          BY <5>1, <5>4
      <4>4. QED
        BY <4>2, <4>3
    <3>8. \A i \in DOMAIN C[k + 1] : /\ C[k + 1][i].at \in Listed(vm, k + 1)
                                     /\ C[k + 1][i].kind = Kind(C[k + 1][i].at)
      <4> SUFFICES ASSUME NEW i \in DOMAIN C[k + 1]
                   PROVE  /\ C[k + 1][i].at \in Listed(vm, k + 1)
                          /\ C[k + 1][i].kind = Kind(C[k + 1][i].at)
        OBVIOUS
      <4>1. CASE i = 1
        BY <3>2, <3>3, <3>4, <4>1
      <4>2. CASE i # 1
        <5>1. i - 1 \in DOMAIN C[k] /\ C[k + 1][i] = C[k][i - 1]
          BY <3>6, <4>2
        <5>2. C[k][i - 1].at \in Listed(vm, k) /\ C[k][i - 1].kind = Kind(C[k][i - 1].at)
          BY <1>5, <5>1 DEF ListOf
        <5>3. QED
          BY <3>4, <5>1, <5>2
      <4>3. QED
        BY <4>1, <4>2
    <3>9. \A j \in Listed(vm, k + 1) : \E i \in DOMAIN C[k + 1] : C[k + 1][i].at = j
      <4> SUFFICES ASSUME NEW j \in Listed(vm, k + 1)
                   PROVE  \E i \in DOMAIN C[k + 1] : C[k + 1][i].at = j
        OBVIOUS
      <4>1. CASE j = k + 1
        BY <2>1, <3>2, <3>3, <4>1
      <4>2. CASE j \in Listed(vm, k)
        <5>1. PICK i \in 1 .. Len(C[k]) : C[k][i].at = j
          BY <1>5, <2>1, <4>2 DEF ListOf
        <5>2. i + 1 \in DOMAIN C[k + 1] /\ C[k + 1][i + 1].at = j
          BY <2>1, <3>3, <5>1
        <5>3. QED
          BY <5>2
      <4>3. QED
        BY <3>4, <4>1, <4>2
    <3>10. QED
      BY <1>3, <1>5, <3>7, <3>8, <3>9 DEF ListOf
  <2>4. CASE ~InVM(vm, k + 1)
    <3>1. C[k + 1] = C[k]
      BY <2>1, <2>2, <2>4, ConcatEmptySeq DEF FramesAt
    <3>2. Listed(vm, k + 1) = Listed(vm, k)
      BY <1>3, <2>4 DEF Listed
    <3>3. QED
      BY <1>3, <1>5, <3>1, <3>2 DEF ListOf
  <2>5. QED
    BY <2>3, <2>4
<1> HIDE DEF S
<1>6. 0 .. Top \subseteq S
  BY <1>3, <1>4, <1>5, InductiveUpTo
<1>7. QED
  BY <1>1, <1>2, <1>3, <1>6 DEF S

-----------------------------------------------------------------------------
(* Stack bases.                                                            *)

Share(vm, j) == IF stack[j].vm = vm THEN Grows[Kind(j)] ELSE 0

(* An activation adds nothing to the stack base of a VM that does not      *)
(* list it.                                                                *)
LEMMA ShareIsNat ==
  ASSUME StackOK, NEW vm \in VMs, NEW j \in 1 .. Top
  PROVE  Share(vm, j) \in Nat /\ (~InVM(vm, j) => Share(vm, j) = 0)
<1>1. stack[j] \in Activation
  BY ElementOfSeq DEF StackOK, Top
<1>2. QED
  BY <1>1 DEF Share, Activation, Kinds, Grows, Kind, InVM, Squirrel

(* The base of an activation is that of the one below it and its share.    *)
LEMMA Base ==
  ASSUME StackOK, NEW vm \in VMs
  PROVE  /\ \A k \in 0 .. Top : BaseOf(vm, k) \in Nat
         /\ BaseOf(vm, 0) = 0
         /\ \A k \in 1 .. Top : BaseOf(vm, k) = BaseOf(vm, k - 1) + Share(vm, k)
<1> DEFINE base == CHOOSE base : base = [j \in 0 .. Top |->
                     IF j = 0 THEN 0
                     ELSE base[j - 1] + (IF stack[j].vm = vm THEN Grows[Kind(j)] ELSE 0)]
           step == [p \in (1 .. Top) \X Nat |-> p[2] + Share(vm, p[1])]
<1>1. Top \in Nat
  BY LenProperties DEF Top, StackOK
<1>2. step \in [(1 .. Top) \X Nat -> Nat]
  BY ShareIsNat
<1>3. PICK f : IsTable(f, Top, Nat, 0, step)
  <2> HIDE DEF step
  <2>1. QED
    BY <1>1, <1>2, Iteration
<1>4. f = [j \in 0 .. Top |-> IF j = 0 THEN 0
             ELSE f[j - 1] + (IF stack[j].vm = vm THEN Grows[Kind(j)] ELSE 0)]
  <2> DEFINE share(j) == IF stack[j].vm = vm THEN Grows[Kind(j)] ELSE 0
             g == [j \in 0 .. Top |-> IF j = 0 THEN 0 ELSE f[j - 1] + share(j)]
  <2>1. \A j \in 1 .. Top : step[<<j, f[j - 1]>>] = f[j - 1] + share(j)
    BY <1>1, <1>3 DEF IsTable, Share
  <2> HIDE DEF step, share
  <2>2. ASSUME NEW j \in 0 .. Top
        PROVE  f[j] = g[j]
    <3>1. CASE j = 0
      BY <1>1, <1>3, <3>1 DEF IsTable
    <3>2. CASE j # 0
      <4>1. j \in 1 .. Top
        BY <1>1, <3>2
      <4>2. f[j] = f[j - 1] + share(j)
        BY <1>3, <2>1, <4>1 DEF IsTable
      <4>3. QED
        BY <3>2, <4>2
    <3>3. QED
      BY <3>1, <3>2
  <2>3. f = [j \in 0 .. Top |-> f[j]] /\ g = [j \in 0 .. Top |-> g[j]]
    BY <1>3 DEF IsTable
  <2> HIDE DEF g
  <2>4. f = g
    BY <2>2, <2>3
  <2>5. QED
    BY <2>4 DEF g, share
<1>5. base = [j \in 0 .. Top |-> IF j = 0 THEN 0
                ELSE base[j - 1] + (IF stack[j].vm = vm THEN Grows[Kind(j)] ELSE 0)]
  BY <1>4
<1>6. \A k \in 0 .. Top : BaseOf(vm, k) = base[k]
  BY DEF BaseOf
<1> HIDE DEF base
<1>7. base[0] = 0
  BY <1>1, <1>5
<1>8. ASSUME NEW k \in 1 .. Top
      PROVE  base[k] = base[k - 1] + Share(vm, k)
  BY <1>1, <1>5 DEF Share
<1>9. \A k \in 0 .. Top : base[k] \in Nat
  <2> DEFINE S == {k \in 0 .. Top : base[k] \in Nat}
  <2>1. 0 \in S
    BY <1>1, <1>7
  <2>2. ASSUME NEW k \in 0 .. Top, k \in S, k < Top
        PROVE  k + 1 \in S
    <3>1. k + 1 \in 1 .. Top /\ (k + 1) - 1 = k
      BY <1>1, <2>2
    <3>2. base[k + 1] = base[k] + Share(vm, k + 1) /\ Share(vm, k + 1) \in Nat
      BY <1>8, <3>1, ShareIsNat
    <3>3. QED
      BY <1>1, <2>2, <3>1, <3>2
  <2> HIDE DEF S
  <2>3. 0 .. Top \subseteq S
    BY <1>1, <2>1, <2>2, InductiveUpTo
  <2>4. QED
    BY <2>3 DEF S
<1>10. QED
  BY <1>1, <1>6, <1>7, <1>8, <1>9

(* Activations that are not in the list of the VM add nothing.             *)
LEMMA SameBase ==
  ASSUME StackOK, NEW vm \in VMs,
         NEW a \in 0 .. Top, NEW b \in 0 .. Top, a <= b,
         \A j \in a + 1 .. b : ~InVM(vm, j)
  PROVE  BaseOf(vm, a) = BaseOf(vm, b)
<1> DEFINE S == {n \in 0 .. b - a : BaseOf(vm, a + n) = BaseOf(vm, a)}
<1>1. Top \in Nat /\ b - a \in Nat
  BY LenProperties DEF Top, StackOK
<1>2. 0 \in S
  BY <1>1
<1>3. ASSUME NEW n \in 0 .. b - a, n \in S, n < b - a
      PROVE  n + 1 \in S
  <2> DEFINE k == a + n + 1
  <2>1. k \in 1 .. Top /\ k \in a + 1 .. b /\ k - 1 = a + n /\ k = a + (n + 1)
    BY <1>1, <1>3
  <2>2. Share(vm, k) = 0
    BY <2>1, ShareIsNat
  <2>3. BaseOf(vm, k) = BaseOf(vm, a + n) /\ BaseOf(vm, a + n) \in Nat
    BY <1>1, <1>3, <2>1, <2>2, Base
  <2>4. QED
    BY <1>1, <1>3, <2>1, <2>3
<1> HIDE DEF S
<1>4. 0 .. b - a \subseteq S
  BY <1>1, <1>2, <1>3, InductiveUpTo
<1>5. b - a \in S
  BY <1>1, <1>4
<1>6. QED
  BY <1>1, <1>5 DEF S

(* What a list adds up to, frame by frame.                                 *)
LEMMA SumOfList ==
  ASSUME NEW frames \in Seq(FetchedFrame)
  PROVE  /\ \A n \in 0 .. Len(frames) : SumOf(frames, n) \in Nat
         /\ SumOf(frames, 0) = 0
         /\ \A n \in 1 .. Len(frames) :
              SumOf(frames, n) = SumOf(frames, n - 1) + Grows[frames[n].kind]
<1> DEFINE sum == CHOOSE sum : sum = [i \in 0 .. Len(frames) |->
                    IF i = 0 THEN 0 ELSE sum[i - 1] + Grows[frames[i].kind]]
           step == [p \in (1 .. Len(frames)) \X Nat |-> p[2] + Grows[frames[p[1]].kind]]
<1>1. Len(frames) \in Nat
  BY LenProperties
<1>2. \A i \in 1 .. Len(frames) : Grows[frames[i].kind] \in Nat
  <2> SUFFICES ASSUME NEW i \in 1 .. Len(frames)
               PROVE  Grows[frames[i].kind] \in Nat
    OBVIOUS
  <2>1. frames[i] \in FetchedFrame
    BY ElementOfSeq
  <2>2. QED
    BY <2>1 DEF FetchedFrame, Squirrel, Grows
<1>3. step \in [(1 .. Len(frames)) \X Nat -> Nat]
  BY <1>2
<1>4. PICK f : IsTable(f, Len(frames), Nat, 0, step)
  <2> HIDE DEF step
  <2>1. QED
    BY <1>1, <1>3, Iteration
<1>5. f = [i \in 0 .. Len(frames) |-> IF i = 0 THEN 0 ELSE f[i - 1] + Grows[frames[i].kind]]
  <2> DEFINE g == [i \in 0 .. Len(frames) |->
                     IF i = 0 THEN 0 ELSE f[i - 1] + Grows[frames[i].kind]]
  <2>1. ASSUME NEW i \in 1 .. Len(frames)
        PROVE  step[<<i, f[i - 1]>>] = f[i - 1] + Grows[frames[i].kind]
    <3>1. f[i - 1] \in Nat
      BY <1>1, <1>4 DEF IsTable
    <3>2. QED
      BY <3>1
  <2> HIDE DEF step
  <2>2. ASSUME NEW i \in 0 .. Len(frames)
        PROVE  f[i] = g[i]
    <3>1. CASE i = 0
      BY <1>1, <1>4, <3>1 DEF IsTable
    <3>2. CASE i # 0
      <4>1. i \in 1 .. Len(frames)
        BY <1>1, <3>2
      <4>2. f[i] = f[i - 1] + Grows[frames[i].kind]
        BY <1>4, <2>1, <4>1 DEF IsTable
      <4>3. QED
        BY <3>2, <4>2
    <3>3. QED
      BY <3>1, <3>2
  <2>3. f = [i \in 0 .. Len(frames) |-> f[i]] /\ g = [i \in 0 .. Len(frames) |-> g[i]]
    BY <1>4 DEF IsTable
  <2> HIDE DEF g
  <2>4. f = g
    BY <2>2, <2>3
  <2>5. QED
    BY <2>4 DEF g
<1>6. sum = [i \in 0 .. Len(frames) |->
               IF i = 0 THEN 0 ELSE sum[i - 1] + Grows[frames[i].kind]]
  BY <1>5
<1>7. \A n \in 0 .. Len(frames) : SumOf(frames, n) = sum[n]
  BY DEF SumOf
<1> HIDE DEF sum
<1>8. sum[0] = 0
  BY <1>1, <1>6
<1>9. ASSUME NEW n \in 1 .. Len(frames)
      PROVE  sum[n] = sum[n - 1] + Grows[frames[n].kind]
  BY <1>1, <1>6
<1>10. \A n \in 0 .. Len(frames) : sum[n] \in Nat
  <2> DEFINE S == {n \in 0 .. Len(frames) : sum[n] \in Nat}
  <2>1. 0 \in S
    BY <1>1, <1>8
  <2>2. ASSUME NEW n \in 0 .. Len(frames), n \in S, n < Len(frames)
        PROVE  n + 1 \in S
    <3>1. n + 1 \in 1 .. Len(frames) /\ (n + 1) - 1 = n
      BY <1>1, <2>2
    <3>2. sum[n + 1] = sum[n] + Grows[frames[n + 1].kind]
      BY <1>9, <3>1
    <3>3. QED
      BY <1>1, <1>2, <2>2, <3>1, <3>2
  <2> HIDE DEF S
  <2>3. 0 .. Len(frames) \subseteq S
    BY <1>1, <2>1, <2>2, InductiveUpTo
  <2>4. QED
    BY <2>3 DEF S
<1>11. \A n \in 0 .. Len(frames) : SumOf(frames, n) \in Nat
  BY <1>7, <1>10
<1>12. SumOf(frames, 0) = 0
  BY <1>1, <1>7, <1>8
<1>13. ASSUME NEW n \in 1 .. Len(frames)
       PROVE  SumOf(frames, n) = SumOf(frames, n - 1) + Grows[frames[n].kind]
  <2>1. n \in 0 .. Len(frames) /\ n - 1 \in 0 .. Len(frames)
    BY <1>1
  <2>2. QED
    BY <1>7, <1>9, <2>1
<1>14. QED
  BY <1>11, <1>12, <1>13

(* Between a frame of a list and the one before it, or the top of the      *)
(* stack, the VM has no frame.                                             *)
Before(frames, i) == IF i = 1 THEN Top ELSE frames[i - 1].at - 1

(* Between two neighbours of a list the stack holds nothing of the VM.     *)
LEMMA ListGap ==
  ASSUME StackOK, NEW vm \in VMs, NEW frames \in Seq(FetchedFrame),
         ListOf(frames, vm, Top), NEW i \in DOMAIN frames
  PROVE  /\ frames[i].at \in 1 .. Top
         /\ Before(frames, i) \in frames[i].at .. Top
         /\ \A j \in frames[i].at + 1 .. Before(frames, i) : ~InVM(vm, j)
<1>1. Top \in Nat /\ Len(frames) \in Nat /\ DOMAIN frames = 1 .. Len(frames)
  BY LenProperties DEF Top, StackOK
<1>2. \A m \in DOMAIN frames : frames[m].at \in 1 .. Top
  BY <1>1 DEF ListOf, Listed
<1>3. Before(frames, i) \in frames[i].at .. Top
  <2>1. CASE i = 1
    BY <1>1, <1>2, <2>1 DEF Before
  <2>2. CASE i # 1
    <3>1. i - 1 \in DOMAIN frames /\ i - 1 < i
      BY <1>1, <2>2
    <3>2. frames[i - 1].at > frames[i].at
      BY <3>1 DEF ListOf, NewestFirst
    <3>3. QED
      BY <1>1, <1>2, <2>2, <3>1, <3>2 DEF Before
  <2>3. QED
    BY <2>1, <2>2
<1>4. ASSUME NEW j \in frames[i].at + 1 .. Before(frames, i), InVM(vm, j)
      PROVE  FALSE
  <2>1. j \in 1 .. Top
    BY <1>1, <1>2, <1>3
  <2>2. PICK m \in DOMAIN frames : frames[m].at = j
    BY <1>4, <2>1 DEF ListOf, Listed
  <2>3. m \in Int /\ i \in Int
    BY <1>1
  <2>4. CASE m > i
    BY <1>2, <2>2, <2>3, <2>4 DEF ListOf, NewestFirst
  <2>5. CASE m = i
    BY <1>2, <2>2, <2>5
  <2>6. CASE m < i
    <3>1. i # 1 /\ i - 1 \in DOMAIN frames
      BY <1>1, <2>6
    <3>2. frames[m].at >= frames[i - 1].at
      <4>1. CASE m = i - 1
        BY <1>2, <4>1
      <4>2. CASE m < i - 1
        BY <1>2, <3>1, <4>2 DEF ListOf, NewestFirst
      <4>3. QED
        BY <2>3, <2>6, <4>1, <4>2
    <3>3. j <= frames[i - 1].at - 1
      BY <1>2, <3>1 DEF Before
    <3>4. QED
      BY <1>2, <2>2, <3>1, <3>2, <3>3
  <2>7. QED
    BY <2>3, <2>4, <2>5, <2>6
<1>5. QED
  BY <1>2, <1>3, <1>4

(* A frame's stack base, found by taking the newer frames off, is that of  *)
(* its activation.                                                         *)
LEMMA FrameStackBase ==
  ASSUME StackOK, NEW vm \in VMs, NEW frames \in Seq(FetchedFrame),
         ListOf(frames, vm, Top), NEW i \in DOMAIN frames
  PROVE  GetFrameStackBase(vm, frames, i) = BaseOf(vm, frames[i].at)
<1> DEFINE S == {n \in 0 .. Len(frames) : \A m \in DOMAIN frames : m = n + 1 =>
                   SumOf(frames, n) + BaseOf(vm, Before(frames, m)) = BaseOf(vm, Top)}
<1>1. Top \in Nat /\ Len(frames) \in Nat /\ DOMAIN frames = 1 .. Len(frames)
  BY LenProperties DEF Top, StackOK
<1>2. ASSUME NEW m \in DOMAIN frames
      PROVE  /\ frames[m].at \in 1 .. Top
             /\ BaseOf(vm, Before(frames, m)) = BaseOf(vm, frames[m].at)
             /\ BaseOf(vm, frames[m].at) \in Nat
             /\ BaseOf(vm, frames[m].at) = BaseOf(vm, frames[m].at - 1) + Grows[frames[m].kind]
             /\ Grows[frames[m].kind] \in Nat
             /\ BaseOf(vm, frames[m].at - 1) \in Nat
  <2> DEFINE k == frames[m].at
  <2>1. k \in 1 .. Top /\ Before(frames, m) \in k .. Top
        /\ \A j \in k + 1 .. Before(frames, m) : ~InVM(vm, j)
    BY ListGap
  <2>2. BaseOf(vm, k) = BaseOf(vm, Before(frames, m))
    <3>1. k \in 0 .. Top /\ Before(frames, m) \in 0 .. Top /\ k <= Before(frames, m)
      BY <1>1, <2>1
    <3> DEFINE b == Before(frames, m)
    <3> HIDE DEF k, b
    <3>2. QED
      BY <2>1, <3>1, SameBase DEF b
  <2>3. stack[k].vm = vm /\ frames[m].kind = Kind(k)
    BY DEF ListOf, Listed, InVM
  <2>4. Share(vm, k) = Grows[frames[m].kind]
    BY <2>3 DEF Share
  <2>5. Share(vm, k) \in Nat
    BY <2>1, ShareIsNat
  <2> HIDE DEF k
  <2>6. BaseOf(vm, k) = BaseOf(vm, k - 1) + Share(vm, k) /\ BaseOf(vm, k) \in Nat
    BY <1>1, <2>1, Base
  <2>7. k - 1 \in 0 .. Top
    BY <1>1, <2>1
  <2>8. BaseOf(vm, k - 1) \in Nat
    BY <2>7, Base
  <2>9. QED
    BY <2>1, <2>2, <2>4, <2>5, <2>6, <2>8 DEF k
<1>3. 0 \in S
  <2>1. SumOf(frames, 0) = 0 /\ BaseOf(vm, Top) \in Nat
    BY <1>1, SumOfList, Base
  <2>2. QED
    BY <1>1, <2>1 DEF Before
<1>4. ASSUME NEW n \in 0 .. Len(frames), n \in S, n < Len(frames)
      PROVE  n + 1 \in S
  <2> SUFFICES ASSUME NEW m \in DOMAIN frames, m = (n + 1) + 1
               PROVE  SumOf(frames, n + 1) + BaseOf(vm, Before(frames, m)) = BaseOf(vm, Top)
    BY <1>1, <1>4
  <2>1. n + 1 \in DOMAIN frames /\ (n + 1) - 1 = n /\ m # 1 /\ m - 1 = n + 1
    BY <1>1, <1>4
  <2>2. SumOf(frames, n) + BaseOf(vm, Before(frames, n + 1)) = BaseOf(vm, Top)
    BY <1>4, <2>1
  <2>3. Before(frames, m) = frames[n + 1].at - 1
    BY <2>1 DEF Before
  <2>4. SumOf(frames, n + 1) = SumOf(frames, n) + Grows[frames[n + 1].kind]
        /\ SumOf(frames, n) \in Nat
    BY <1>1, <1>4, <2>1, SumOfList
  <2>5. /\ BaseOf(vm, Before(frames, n + 1))
             = BaseOf(vm, frames[n + 1].at - 1) + Grows[frames[n + 1].kind]
        /\ Grows[frames[n + 1].kind] \in Nat /\ BaseOf(vm, frames[n + 1].at - 1) \in Nat
    BY <1>2, <2>1
  <2>6. BaseOf(vm, Before(frames, m)) = BaseOf(vm, frames[n + 1].at - 1)
    BY <2>3
  <2>7. QED
    BY <2>2, <2>4, <2>5, <2>6
<1> HIDE DEF S
<1>5. 0 .. Len(frames) \subseteq S
  BY <1>1, <1>3, <1>4, InductiveUpTo
<1>6. i - 1 \in 0 .. Len(frames) /\ i = (i - 1) + 1
  BY <1>1
<1>7. SumOf(frames, i - 1) + BaseOf(vm, Before(frames, i)) = BaseOf(vm, Top)
  BY <1>5, <1>6 DEF S
<1>8. SumOf(frames, i - 1) \in Nat
  BY <1>6, SumOfList
<1>9. QED
  BY <1>2, <1>7, <1>8 DEF GetFrameStackBase, StackBase

-----------------------------------------------------------------------------
(* One turn of the loop in GetNextSquirrelFrames.                          *)

ShownFrame == [at : 1 .. MaxDepth, ForcedLine : BOOLEAN, StackBase : Int]
Loop == [list : Seq(FetchedFrame), out : Seq(ShownFrame), done : BOOLEAN,
         SkipNextFrame : BOOLEAN, ForcedLine : BOOLEAN,
         HitHelperHook : BOOLEAN, HitNativeClosure : BOOLEAN]

Left(base, acc, f) == acc.done \/ f.ParentFrameBase \notin {0, base}
Mine(base, f) == [f EXCEPT !.ParentFrameBase = base]

(* A turn for a frame that is left to another sq_call, for one at which    *)
(* the filter throws, for one of each kind, for one whose function is      *)
(* about to return and for the last.                                       *)
VisitLeft(acc, f, v) ==
  /\ v.list = Append(acc.list, f)
  /\ v.out = acc.out
  /\ v.done = acc.done
  /\ v.SkipNextFrame = acc.SkipNextFrame /\ v.ForcedLine = acc.ForcedLine
  /\ v.HitHelperHook = acc.HitHelperHook /\ v.HitNativeClosure = acc.HitNativeClosure
VisitThrow(base, acc, f, v) ==
  /\ v.list = Append(acc.list, Mine(base, f))
  /\ v.out = acc.out
  /\ v.done
  /\ v.SkipNextFrame = acc.SkipNextFrame /\ v.ForcedLine = acc.ForcedLine
  /\ v.HitHelperHook = acc.HitHelperHook /\ v.HitNativeClosure = acc.HitNativeClosure
VisitHook(base, acc, f, v) ==
  /\ v.list = Append(acc.list, Mine(base, f))
  /\ v.out = acc.out
  /\ ~v.done
  /\ v.SkipNextFrame = (acc.SkipNextFrame \/ LastType = "r")
  /\ v.ForcedLine = (acc.ForcedLine \/ LastType # "r")
  /\ v.HitHelperHook = TRUE /\ v.HitNativeClosure = acc.HitNativeClosure
VisitNative(base, acc, f, v) ==
  /\ v.list = Append(acc.list, Mine(base, f))
  /\ v.out = acc.out
  /\ ~v.done
  /\ v.SkipNextFrame = acc.SkipNextFrame /\ v.ForcedLine = acc.ForcedLine
  /\ v.HitHelperHook = acc.HitHelperHook /\ v.HitNativeClosure = TRUE
VisitEnd(acc, f, v) ==
  /\ v.list = Append(acc.list, Mine(0, f))
  /\ v.out = acc.out
  /\ v.done
  /\ v.SkipNextFrame = acc.SkipNextFrame /\ v.ForcedLine = acc.ForcedLine
  /\ v.HitHelperHook = acc.HitHelperHook /\ v.HitNativeClosure = acc.HitNativeClosure
VisitSkipped(base, acc, f, v) ==
  /\ v.list = Append(acc.list, Mine(base, f))
  /\ v.out = acc.out
  /\ ~v.done
  /\ ~v.SkipNextFrame /\ v.ForcedLine = acc.ForcedLine
  /\ v.HitHelperHook = acc.HitHelperHook /\ v.HitNativeClosure = acc.HitNativeClosure
VisitScript(base, acc, f, stackBase, v) ==
  /\ v.list = Append(acc.list, Mine(base, f))
  /\ v.out = Append(acc.out, Frame(f.at, acc.ForcedLine, stackBase))
  /\ ~v.done
  /\ ~v.SkipNextFrame /\ ~v.ForcedLine
  /\ v.HitHelperHook = acc.HitHelperHook /\ v.HitNativeClosure = acc.HitNativeClosure

(* What one turn of the loop may do, as one case for each path of its      *)
(* body.                                                                   *)
LEMMA VisitCases ==
  ASSUME StackOK, NEW vm \in VMs, NEW base \in 1 .. MaxDepth,
         NEW frames \in Seq(FetchedFrame), NEW i \in 1 .. Len(frames), NEW acc \in Loop,
         NEW f, f = frames[i], NEW v, v = Visit(vm, base, frames, acc, i)
  PROVE  /\ v \in Loop
         /\ \/ Left(base, acc, f) /\ VisitLeft(acc, f, v)
            \/ ~Left(base, acc, f) /\ ~helperLoaded /\ VisitThrow(base, acc, f, v)
            \/ ~Left(base, acc, f) /\ f.kind = "hook" /\ VisitHook(base, acc, f, v)
            \/ ~Left(base, acc, f) /\ f.kind = "native" /\ EndsFrames(f, acc) /\ VisitEnd(acc, f, v)
            \/ ~Left(base, acc, f) /\ f.kind = "native" /\ ~EndsFrames(f, acc)
               /\ VisitNative(base, acc, f, v)
            \/ ~Left(base, acc, f) /\ f.kind = "script" /\ acc.SkipNextFrame
               /\ VisitSkipped(base, acc, f, v)
            \/ ~Left(base, acc, f) /\ f.kind = "script" /\ ~acc.SkipNextFrame
               /\ VisitScript(base, acc, f, GetFrameStackBase(vm, frames, i), v)
<1>1. f \in FetchedFrame
  BY ElementOfSeq
<1>2. MaxDepth \in Nat
  BY CallStackAssumption
<1>3. Mine(base, f) \in FetchedFrame /\ Mine(0, f) \in FetchedFrame
  BY <1>1, <1>2 DEF Mine, FetchedFrame
<1>4. GetFrameStackBase(vm, frames, i) \in Int
  <2>1. Top \in Nat /\ Len(frames) \in Nat
    BY LenProperties DEF Top, StackOK
  <2>2. BaseOf(vm, Top) \in Nat
    BY <2>1, Base
  <2>3. i - 1 \in 0 .. Len(frames)
    BY <2>1
  <2>4. SumOf(frames, i - 1) \in Nat
    BY <2>3, SumOfList
  <2>5. QED
    BY <2>2, <2>4 DEF GetFrameStackBase, StackBase
<1> DEFINE stackBase == GetFrameStackBase(vm, frames, i)
           new == Frame(f.at, acc.ForcedLine, stackBase)
<1>5. new \in ShownFrame
  BY <1>1, <1>4 DEF Frame, ShownFrame, FetchedFrame, Loop
<1>6. /\ \A g \in FetchedFrame : Append(acc.list, g) \in Seq(FetchedFrame)
      /\ Append(acc.out, new) \in Seq(ShownFrame)
  BY <1>5, AppendProperties DEF Loop
<1> HIDE DEF stackBase
<1>7. CASE Left(base, acc, f)
  <2>1. v = [acc EXCEPT !.list = Append(@, f)]
    BY <1>7 DEF Visit, Left, Keep
  <2>2. QED
    BY <1>1, <1>6, <1>7, <2>1 DEF Loop, VisitLeft
<1>8. CASE ~Left(base, acc, f) /\ f.kind = "hook" /\ helperLoaded
  <2>1. v = [[acc EXCEPT !.list = Append(@, Mine(base, f))]
               EXCEPT !.SkipNextFrame = @ \/ LastType = "r",
                      !.ForcedLine = @ \/ LastType # "r", !.HitHelperHook = TRUE]
    BY <1>8 DEF Visit, Left, Keep, Mine
  <2> DEFINE l == Append(acc.list, Mine(base, f))
  <2>2. l \in Seq(FetchedFrame)
    BY <1>3, <1>6
  <2> HIDE DEF l
  <2>3. v \in Loop
    BY <1>6, <2>1, <2>2 DEF Loop, l
  <2>4. VisitHook(base, acc, f, v)
    BY <1>8, <2>1 DEF Loop, VisitHook, Left
  <2>5. QED
    BY <1>8, <2>3, <2>4
<1>9. CASE ~Left(base, acc, f) /\ f.kind = "native" /\ EndsFrames(f, acc) /\ helperLoaded
  <2>1. v = [[acc EXCEPT !.list = Append(@, Mine(0, f))] EXCEPT !.done = TRUE]
    BY <1>9 DEF Visit, Left, Keep, Mine
  <2> DEFINE l == Append(acc.list, Mine(0, f))
  <2>2. l \in Seq(FetchedFrame)
    BY <1>3, <1>6
  <2> HIDE DEF l
  <2>3. v \in Loop
    BY <1>6, <2>1, <2>2 DEF Loop, l
  <2>4. VisitEnd(acc, f, v)
    BY <1>9, <2>1 DEF Loop, VisitEnd, Left
  <2>5. QED
    BY <1>9, <2>3, <2>4
<1>10. CASE ~Left(base, acc, f) /\ f.kind = "native" /\ ~EndsFrames(f, acc) /\ helperLoaded
  <2>1. v = [[acc EXCEPT !.list = Append(@, Mine(base, f))] EXCEPT !.HitNativeClosure = TRUE]
    BY <1>10 DEF Visit, Left, Keep, Mine
  <2> DEFINE l == Append(acc.list, Mine(base, f))
  <2>2. l \in Seq(FetchedFrame)
    BY <1>3, <1>6
  <2> HIDE DEF l
  <2>3. v \in Loop
    BY <1>6, <2>1, <2>2 DEF Loop, l
  <2>4. VisitNative(base, acc, f, v)
    BY <1>10, <2>1 DEF Loop, VisitNative, Left
  <2>5. QED
    BY <1>10, <2>3, <2>4
<1>11. CASE ~Left(base, acc, f) /\ f.kind = "script" /\ acc.SkipNextFrame
  <2>1. v = [[acc EXCEPT !.list = Append(@, Mine(base, f))] EXCEPT !.SkipNextFrame = FALSE]
    BY <1>11 DEF Visit, Left, Keep, Mine
  <2> DEFINE l == Append(acc.list, Mine(base, f))
  <2>2. l \in Seq(FetchedFrame)
    BY <1>3, <1>6
  <2> HIDE DEF l
  <2>3. v \in Loop
    BY <1>6, <2>1, <2>2 DEF Loop, l
  <2>4. VisitSkipped(base, acc, f, v)
    BY <1>11, <2>1 DEF Loop, VisitSkipped, Left
  <2>5. QED
    BY <1>11, <2>3, <2>4
<1>12. CASE ~Left(base, acc, f) /\ f.kind = "script" /\ ~acc.SkipNextFrame
  <2>1. v = [[acc EXCEPT !.list = Append(@, Mine(base, f))]
               EXCEPT !.out = Append(@, new), !.ForcedLine = FALSE]
    BY <1>12 DEF Visit, Left, Keep, Mine, stackBase
  <2> DEFINE l == Append(acc.list, Mine(base, f))
  <2>2. l \in Seq(FetchedFrame)
    BY <1>3, <1>6
  <2> HIDE DEF l
  <2>3. v \in Loop
    BY <1>6, <2>1, <2>2 DEF Loop, l
  <2>4. VisitScript(base, acc, f, stackBase, v)
    BY <1>12, <2>1 DEF Loop, VisitScript, Left
  <2>5. QED
    BY <1>12, <2>3, <2>4 DEF stackBase
<1>13. CASE ~Left(base, acc, f) /\ f.kind # "script" /\ ~helperLoaded
  <2>1. v = [[acc EXCEPT !.list = Append(@, Mine(base, f))] EXCEPT !.done = TRUE]
    BY <1>13 DEF Visit, Left, Keep, Mine
  <2> DEFINE l == Append(acc.list, Mine(base, f))
  <2>2. l \in Seq(FetchedFrame)
    BY <1>3, <1>6
  <2> HIDE DEF l
  <2>3. v \in Loop
    BY <1>6, <2>1, <2>2 DEF Loop, l
  <2>4. VisitThrow(base, acc, f, v)
    BY <1>13, <2>1 DEF Loop, VisitThrow, Left
  <2>5. QED
    BY <1>13, <2>3, <2>4
<1>14. QED
  BY <1>1, <1>7, <1>8, <1>9, <1>10, <1>11, <1>12, <1>13 DEF FetchedFrame, Squirrel

(* The whole loop.                                                         *)
Start == [list |-> <<>>, out |-> <<>>, done |-> FALSE, SkipNextFrame |-> FALSE,
          ForcedLine |-> FALSE, HitHelperHook |-> FALSE, HitNativeClosure |-> FALSE]
Turns(vm, base, frames, turn) ==
  /\ turn \in [0 .. Len(frames) -> Loop]
  /\ turn[0] = Start
  /\ \A i \in 1 .. Len(frames) : turn[i] = Visit(vm, base, frames, turn[i - 1], i)

(* The loop is the iteration of its turns.                                 *)
LEMMA LoopTurns ==
  ASSUME StackOK, NEW vm \in VMs, NEW base \in 1 .. MaxDepth,
         NEW frames \in Seq(FetchedFrame)
  PROVE  \E turn : /\ Turns(vm, base, frames, turn)
                   /\ GetNextSquirrelFrames(vm, base, frames) = turn[Len(frames)]
<1> DEFINE n == Len(frames)
           turn == CHOOSE turn : turn = [i \in 0 .. n |->
                     IF i = 0
                       THEN [list |-> <<>>, out |-> <<>>, done |-> FALSE, SkipNextFrame |-> FALSE,
                             ForcedLine |-> FALSE, HitHelperHook |-> FALSE,
                             HitNativeClosure |-> FALSE]
                       ELSE Visit(vm, base, frames, turn[i - 1], i)]
           step == [p \in (1 .. n) \X Loop |-> Visit(vm, base, frames, p[2], p[1])]
<1>1. n \in Nat
  BY LenProperties
<1>2. \A i \in 1 .. n, acc \in Loop : Visit(vm, base, frames, acc, i) \in Loop
  BY VisitCases
<1>3. step \in [(1 .. n) \X Loop -> Loop]
  BY <1>2
<1>4. Start \in Loop
  BY EmptySeq DEF Start, Loop
<1>5. PICK f : IsTable(f, n, Loop, Start, step)
  <2> HIDE DEF step, n
  <2>1. QED
    BY <1>1, <1>3, <1>4, Iteration
<1> DEFINE Body(g) == [i \in 0 .. n |->
                         IF i = 0 THEN Start ELSE Visit(vm, base, frames, g[i - 1], i)]
<1>6. f = Body(f)
  <2>1. ASSUME NEW i \in 1 .. n
        PROVE  step[<<i, f[i - 1]>>] = Visit(vm, base, frames, f[i - 1], i)
    <3>1. f[i - 1] \in Loop
      BY <1>1, <1>5 DEF IsTable
    <3>2. QED
      BY <3>1
  <2> HIDE DEF step
  <2> DEFINE g == Body(f)
  <2>2. ASSUME NEW i \in 0 .. n
        PROVE  f[i] = g[i]
    <3>1. CASE i = 0
      BY <1>1, <1>5, <3>1 DEF IsTable
    <3>2. CASE i # 0
      <4>1. i \in 1 .. n
        BY <1>1, <3>2
      <4>2. f[i] = Visit(vm, base, frames, f[i - 1], i)
        BY <1>5, <2>1, <4>1 DEF IsTable
      <4>3. QED
        BY <3>2, <4>2
    <3>3. QED
      BY <3>1, <3>2
  <2>3. f = [i \in 0 .. n |-> f[i]] /\ g = [i \in 0 .. n |-> g[i]]
    BY <1>5 DEF IsTable
  <2> HIDE DEF g
  <2>4. f = g
    BY <2>2, <2>3
  <2>5. QED
    BY <2>4 DEF g
<1>7. turn = Body(turn)
  BY <1>6 DEF Start
<1>8. GetNextSquirrelFrames(vm, base, frames) = turn[n]
  BY DEF GetNextSquirrelFrames
<1> HIDE DEF turn
<1>9. turn[0] = Start
  <2> DEFINE g == Body(turn)
  <2>1. g[0] = Start
    BY <1>1
  <2>2. QED
    BY <1>7, <2>1
<1>10. ASSUME NEW i \in 1 .. n
       PROVE  turn[i] = Visit(vm, base, frames, turn[i - 1], i)
  <2> DEFINE g == Body(turn)
  <2>1. g[i] = Visit(vm, base, frames, turn[i - 1], i)
    BY <1>1
  <2>2. QED
    BY <1>7, <2>1
<1>11. \A i \in 0 .. n : turn[i] \in Loop
  <2> DEFINE S == {i \in 0 .. n : turn[i] \in Loop}
  <2>1. 0 \in S
    BY <1>1, <1>4, <1>9
  <2>2. ASSUME NEW i \in 0 .. n, i \in S, i < n
        PROVE  i + 1 \in S
    <3>1. i + 1 \in 1 .. n /\ (i + 1) - 1 = i
      BY <1>1, <2>2
    <3>2. turn[i + 1] = Visit(vm, base, frames, turn[i], i + 1)
      BY <1>10, <3>1
    <3>3. QED
      BY <1>1, <1>2, <2>2, <3>1, <3>2
  <2> HIDE DEF S
  <2>3. 0 .. n \subseteq S
    BY <1>1, <2>1, <2>2, InductiveUpTo
  <2>4. QED
    BY <2>3 DEF S
<1>12. turn \in [0 .. n -> Loop]
  <2>1. turn = [i \in 0 .. n |-> turn[i]]
    BY <1>7
  <2>2. QED
    BY <1>11, <2>1
<1>13. QED
  BY <1>8, <1>9, <1>10, <1>12 DEF Turns

-----------------------------------------------------------------------------
(* What the loop keeps of any list: its frames and their order, and the    *)
(* claims of others.  What it shows are functions it has claimed.          *)

TurnKept(base, acc, f, g, v) ==
  /\ v.list = Append(acc.list, g)
  /\ g.at = f.at /\ g.kind = f.kind
  /\ g.ParentFrameBase \in {0, base, f.ParentFrameBase}
  /\ f.ParentFrameBase \notin {0, base} => g = f
  /\ \/ v.out = acc.out
     \/ /\ f.kind = "script"
        /\ f.ParentFrameBase \in {0, base}
        /\ g.ParentFrameBase = base
        /\ \E w \in ShownFrame : w.at = f.at /\ v.out = Append(acc.out, w)

(* A turn appends the frame it looks at, with at most another claim.       *)
LEMMA TurnKeeps ==
  ASSUME StackOK, NEW vm \in VMs, NEW base \in 1 .. MaxDepth,
         NEW frames \in Seq(FetchedFrame), NEW i \in 1 .. Len(frames), NEW acc \in Loop,
         NEW f, f = frames[i], NEW v, v = Visit(vm, base, frames, acc, i)
  PROVE  v \in Loop /\ \E g \in FetchedFrame : TurnKept(base, acc, f, g, v)
<1>1. f \in FetchedFrame /\ MaxDepth \in Nat
  BY ElementOfSeq, CallStackAssumption
<1>2. Mine(base, f) \in FetchedFrame /\ Mine(0, f) \in FetchedFrame
  BY <1>1 DEF Mine, FetchedFrame
<1>3. /\ Mine(base, f).at = f.at /\ Mine(base, f).kind = f.kind
      /\ Mine(base, f).ParentFrameBase = base
      /\ Mine(0, f).at = f.at /\ Mine(0, f).kind = f.kind
      /\ Mine(0, f).ParentFrameBase = 0
  BY <1>1 DEF Mine, FetchedFrame
<1> DEFINE stackBase == GetFrameStackBase(vm, frames, i)
<1>4. v \in Loop
  BY VisitCases
<1>5. \/ Left(base, acc, f) /\ VisitLeft(acc, f, v)
      \/ ~Left(base, acc, f) /\ (VisitHook(base, acc, f, v) \/ VisitEnd(acc, f, v)
           \/ VisitNative(base, acc, f, v) \/ VisitSkipped(base, acc, f, v)
           \/ VisitThrow(base, acc, f, v))
      \/ ~Left(base, acc, f) /\ f.kind = "script" /\ VisitScript(base, acc, f, stackBase, v)
  <2> HIDE DEF stackBase
  <2>1. QED
    BY VisitCases DEF stackBase
<1> HIDE DEF stackBase
<1>6. CASE Left(base, acc, f) /\ VisitLeft(acc, f, v)
  <2>1. TurnKept(base, acc, f, f, v)
    BY <1>6 DEF TurnKept, VisitLeft
  <2>2. QED
    BY <1>1, <1>4, <2>1
<1>7. CASE ~Left(base, acc, f) /\ (VisitHook(base, acc, f, v) \/ VisitNative(base, acc, f, v)
                                   \/ VisitSkipped(base, acc, f, v)
                                   \/ VisitThrow(base, acc, f, v))
  <2>1. TurnKept(base, acc, f, Mine(base, f), v)
    BY <1>3, <1>7 DEF TurnKept, VisitHook, VisitNative, VisitSkipped, VisitThrow, Left
  <2>2. QED
    BY <1>2, <1>4, <2>1
<1>8. CASE ~Left(base, acc, f) /\ VisitEnd(acc, f, v)
  <2>1. TurnKept(base, acc, f, Mine(0, f), v)
    BY <1>3, <1>8 DEF TurnKept, VisitEnd, Left
  <2>2. QED
    BY <1>2, <1>4, <2>1
<1>9. CASE ~Left(base, acc, f) /\ f.kind = "script" /\ VisitScript(base, acc, f, stackBase, v)
  <2> DEFINE w == Frame(f.at, acc.ForcedLine, stackBase)
  <2>1. v.out = Append(acc.out, w) /\ v.list = Append(acc.list, Mine(base, f))
    BY <1>9 DEF VisitScript
  <2>2. w.at = f.at
    BY DEF Frame
  <2>3. w \in ShownFrame
    <3>1. DOMAIN v.out = 1 .. Len(v.out) /\ v.out \in Seq(ShownFrame)
      BY <1>4, LenProperties DEF Loop
    <3>2. acc.out \in Seq(ShownFrame)
      BY DEF Loop
    <3> HIDE DEF w
    <3>3. Len(v.out) = Len(acc.out) + 1 /\ v.out[Len(acc.out) + 1] = w /\ Len(acc.out) \in Nat
      BY <2>1, <3>2, LenProperties
    <3>4. QED
      BY <3>1, <3>3, ElementOfSeq
  <2> HIDE DEF w
  <2>4. TurnKept(base, acc, f, Mine(base, f), v)
    BY <1>3, <1>9, <2>1, <2>2, <2>3 DEF TurnKept, Left
  <2>5. QED
    BY <1>2, <1>4, <2>4
<1>10. QED
  BY <1>5, <1>6, <1>7, <1>8, <1>9

Kept(base, frames, acc, i) ==
  /\ Len(acc.list) = i
  /\ \A x \in 1 .. i :
       /\ acc.list[x].at = frames[x].at /\ acc.list[x].kind = frames[x].kind
       /\ acc.list[x].ParentFrameBase \in {0, base, frames[x].ParentFrameBase}
       /\ frames[x].ParentFrameBase \notin {0, base} => acc.list[x] = frames[x]
  /\ \A y \in 1 .. Len(acc.out) : \E x \in 1 .. i :
       /\ acc.out[y].at = frames[x].at /\ frames[x].kind = "script"
       /\ frames[x].ParentFrameBase \in {0, base} /\ acc.list[x].ParentFrameBase = base
  /\ NewestFirst(acc.out)

(* The whole loop keeps every frame of the list, in its order.             *)
LEMMA LoopKeeps ==
  ASSUME StackOK, NEW vm \in VMs, NEW base \in 1 .. MaxDepth,
         NEW frames \in Seq(FetchedFrame), NewestFirst(frames)
  PROVE  /\ GetNextSquirrelFrames(vm, base, frames) \in Loop
         /\ Kept(base, frames, GetNextSquirrelFrames(vm, base, frames), Len(frames))
<1>1. PICK turn : /\ Turns(vm, base, frames, turn)
                  /\ GetNextSquirrelFrames(vm, base, frames) = turn[Len(frames)]
  BY LoopTurns
<1>2. Len(frames) \in Nat /\ DOMAIN frames = 1 .. Len(frames)
  BY LenProperties
<1> DEFINE S == {i \in 0 .. Len(frames) : Kept(base, frames, turn[i], i)}
<1>3. 0 \in S
  BY <1>1, <1>2 DEF Turns, Start, Kept, NewestFirst
<1>4. ASSUME NEW i \in 0 .. Len(frames), i \in S, i < Len(frames)
      PROVE  i + 1 \in S
  <2> DEFINE acc == turn[i]
             v == turn[i + 1]
             f == frames[i + 1]
  <2>1. i + 1 \in 1 .. Len(frames) /\ (i + 1) - 1 = i /\ i \in Nat
    BY <1>2, <1>4
  <2>2. acc \in Loop /\ v = Visit(vm, base, frames, acc, i + 1)
    BY <1>1, <2>1 DEF Turns
  <2>3. Kept(base, frames, acc, i)
    BY <1>4
  <2> HIDE DEF acc, v
  <2>4. v \in Loop
    BY <2>1, <2>2, TurnKeeps
  <2>5. PICK g \in FetchedFrame : TurnKept(base, acc, f, g, v)
    BY <2>1, <2>2, TurnKeeps
  <2>6. /\ v.list = Append(acc.list, g)
        /\ acc.list \in Seq(FetchedFrame) /\ Len(acc.list) = i
    BY <2>2, <2>3, <2>5 DEF Loop, Kept, TurnKept
  <2>7. /\ Len(v.list) = i + 1
        /\ v.list[i + 1] = g
        /\ \A x \in 1 .. i : v.list[x] = acc.list[x]
    <3> DEFINE l == acc.list
    <3>1. l \in Seq(FetchedFrame) /\ Len(l) = i /\ v.list = Append(l, g)
      BY <2>6
    <3> HIDE DEF l
    <3>2. QED
      BY <2>1, <3>1, AppendProperties DEF l
  <2>8. ASSUME NEW x \in 1 .. i + 1
        PROVE  /\ v.list[x].at = frames[x].at /\ v.list[x].kind = frames[x].kind
               /\ v.list[x].ParentFrameBase \in {0, base, frames[x].ParentFrameBase}
               /\ frames[x].ParentFrameBase \notin {0, base} => v.list[x] = frames[x]
    <3>1. CASE x = i + 1
      BY <2>5, <2>7, <3>1 DEF TurnKept
    <3>2. CASE x # i + 1
      <4>1. x \in 1 .. i
        BY <2>1, <3>2
      <4>2. QED
        BY <2>3, <2>7, <4>1 DEF Kept
    <3>3. QED
      BY <3>1, <3>2
  <2> DEFINE FromList(o, x) ==
               /\ o.at = frames[x].at /\ frames[x].kind = "script"
               /\ frames[x].ParentFrameBase \in {0, base} /\ v.list[x].ParentFrameBase = base
  <2>9. acc.out \in Seq(ShownFrame) /\ Len(acc.out) \in Nat /\ DOMAIN acc.out = 1 .. Len(acc.out)
    BY <2>2, LenProperties DEF Loop
  <2>10. \A y \in 1 .. Len(acc.out) : \E x \in 1 .. i : FromList(acc.out[y], x)
    <3> SUFFICES ASSUME NEW y \in 1 .. Len(acc.out)
                 PROVE  \E x \in 1 .. i : FromList(acc.out[y], x)
      OBVIOUS
    <3>1. PICK x \in 1 .. i :
            /\ acc.out[y].at = frames[x].at /\ frames[x].kind = "script"
            /\ frames[x].ParentFrameBase \in {0, base} /\ acc.list[x].ParentFrameBase = base
      BY <2>3 DEF Kept
    <3>2. v.list[x] = acc.list[x]
      BY <2>7
    <3>3. QED
      BY <3>1, <3>2
  <2>11. CASE v.out = acc.out
    <3>1. \A y \in 1 .. Len(v.out) : \E x \in 1 .. i + 1 : FromList(v.out[y], x)
      <4> SUFFICES ASSUME NEW y \in 1 .. Len(v.out)
                   PROVE  \E x \in 1 .. i + 1 : FromList(v.out[y], x)
        OBVIOUS
      <4> HIDE DEF FromList
      <4>1. PICK x \in 1 .. i : FromList(acc.out[y], x)
        BY <2>10, <2>11
      <4>2. x \in 1 .. i + 1
        BY <2>1
      <4>3. QED
        BY <2>11, <4>1, <4>2
    <3>2. NewestFirst(v.out)
      BY <2>3, <2>11 DEF Kept
    <3>3. Kept(base, frames, v, i + 1)
      BY <2>7, <2>8, <3>1, <3>2 DEF Kept
    <3>4. QED
      BY <2>1, <3>3 DEF v
  <2>12. ASSUME f.kind = "script", f.ParentFrameBase \in {0, base}, g.ParentFrameBase = base,
                NEW w \in ShownFrame, w.at = f.at, v.out = Append(acc.out, w)
         PROVE  i + 1 \in S
    <3>1. /\ Len(v.out) = Len(acc.out) + 1
          /\ v.out[Len(acc.out) + 1] = w
          /\ \A y \in 1 .. Len(acc.out) : v.out[y] = acc.out[y]
          /\ DOMAIN v.out = 1 .. Len(acc.out) + 1
      BY <2>4, <2>9, <2>12, AppendProperties, LenProperties DEF Loop
    <3>2. ASSUME NEW y \in 1 .. Len(v.out)
          PROVE  \E x \in 1 .. i + 1 : FromList(v.out[y], x)
      <4>1. CASE y = Len(acc.out) + 1
        <5>1. FromList(v.out[y], i + 1)
          BY <2>7, <2>12, <3>1, <4>1
        <5>2. QED
          BY <2>1, <5>1
      <4>2. CASE y # Len(acc.out) + 1
        <5>1. y \in 1 .. Len(acc.out)
          BY <2>9, <3>1, <4>2
        <5>2. PICK x \in 1 .. i : FromList(acc.out[y], x)
          BY <2>10, <5>1
        <5>3. x \in 1 .. i + 1 /\ v.out[y] = acc.out[y]
          BY <2>1, <3>1, <5>1
        <5>4. QED
          BY <5>2, <5>3
      <4>3. QED
        BY <4>1, <4>2
    <3>3. ASSUME NEW y \in 1 .. Len(acc.out)
          PROVE  v.out[y].at > w.at
      <4>1. PICK x \in 1 .. i : acc.out[y].at = frames[x].at
        BY <2>10
      <4>2. frames[x].at > frames[i + 1].at
        BY <1>2, <2>1, <4>1 DEF NewestFirst
      <4>3. QED
        BY <2>12, <3>1, <4>1, <4>2
    <3>4. NewestFirst(v.out)
      <4> SUFFICES ASSUME NEW a \in 1 .. Len(acc.out) + 1, NEW b \in 1 .. Len(acc.out) + 1, a < b
                   PROVE  v.out[a].at > v.out[b].at
        BY <3>1 DEF NewestFirst
      <4>1. a \in 1 .. Len(acc.out)
        BY <2>9
      <4>2. CASE b = Len(acc.out) + 1
        BY <3>1, <3>3, <4>1, <4>2
      <4>3. CASE b # Len(acc.out) + 1
        <5>1. b \in 1 .. Len(acc.out)
          BY <2>9, <4>3
        <5>2. acc.out[a].at > acc.out[b].at
          BY <2>3, <2>9, <4>1, <5>1 DEF Kept, NewestFirst
        <5>3. QED
          BY <3>1, <4>1, <5>1, <5>2
      <4>4. QED
        BY <4>2, <4>3
    <3>5. Kept(base, frames, v, i + 1)
      BY <2>7, <2>8, <3>2, <3>4 DEF Kept
    <3>6. QED
      BY <2>1, <3>5 DEF v
  <2>13. QED
    BY <2>5, <2>11, <2>12 DEF TurnKept
<1> HIDE DEF S
<1>5. 0 .. Len(frames) \subseteq S
  BY <1>2, <1>3, <1>4, InductiveUpTo
<1>6. QED
  BY <1>1, <1>2, <1>5 DEF S, Turns

-----------------------------------------------------------------------------
(* The stack.                                                              *)

(* What is used of the stack again and again.                              *)
LEMMA StackFacts ==
  ASSUME StackOK
  PROVE  /\ Top \in Nat /\ DOMAIN stack = 1 .. Top
         /\ \A k \in 1 .. Top : stack[k] \in Activation /\ Kind(k) \in Kinds
                                                       /\ stack[k].vm \in VMs
         /\ stack = <<>> <=> Top = 0
<1>1. Top \in Nat /\ DOMAIN stack = 1 .. Top /\ (stack = <<>> <=> Top = 0)
  BY LenProperties, EmptySeq DEF StackOK, Top
<1>2. \A k \in 1 .. Top : stack[k] \in Activation
  BY ElementOfSeq DEF StackOK, Top
<1>3. QED
  BY <1>1, <1>2 DEF Activation, Kind

(* The next native frame is the newest one: only scripts are passed over.  *)
LEMMA NextNativeIs ==
  ASSUME StackOK, NEW k \in 0 .. Top
  PROVE  /\ NextNative(k) \in 0 .. k
         /\ NextNative(k) # 0 => Kind(NextNative(k)) # "script"
         /\ \A j \in NextNative(k) + 1 .. k : Kind(j) = "script"
<1>1. Top \in Nat
  BY StackFacts
<1>2. CASE NativeFrames(k) = {}
  <2>1. NextNative(k) = 0
    BY <1>2 DEF NextNative
  <2>2. \A j \in 1 .. k : Kind(j) = "script"
    BY <1>2 DEF NativeFrames
  <2>3. QED
    BY <1>1, <2>1, <2>2
<1>3. CASE NativeFrames(k) # {}
  <2>1. NativeFrames(k) \in SUBSET (0 .. k) /\ k \in Nat
    BY <1>1 DEF NativeFrames
  <2>2. \E x \in NativeFrames(k) : \A y \in NativeFrames(k) : y <= x
    BY <1>3, <2>1, GreatestElement
  <2>3. /\ NextNative(k) \in NativeFrames(k)
        /\ \A y \in NativeFrames(k) : y <= NextNative(k)
    BY <1>3, <2>2 DEF NextNative
  <2>4. NextNative(k) \in 1 .. k /\ Kind(NextNative(k)) # "script"
    BY <2>3 DEF NativeFrames
  <2>5. ASSUME NEW j \in NextNative(k) + 1 .. k, Kind(j) # "script"
        PROVE  FALSE
    <3>1. j \in 1 .. k
      BY <1>1, <2>4
    <3>2. j <= NextNative(k)
      BY <2>3, <2>5, <3>1 DEF NativeFrames
    <3>3. QED
      BY <1>1, <2>4, <3>2
  <2>6. QED
    BY <1>1, <2>4, <2>5
<1>4. QED
  BY <1>2, <1>3

(* A call leaves what is below it as it was.                               *)
LEMMA PushKeepsStack ==
  ASSUME StackOK, NEW kind \in Kinds, NEW vm \in VMs, Push(kind, vm),
         \/ kind = "sq_call" /\ TopKind \in {"none", "native"}
         \/ kind \in {"script", "native"} /\ TopKind \in {"sq_call", "script"}
            /\ vm = stack[Top].vm
         \/ kind = "hook" /\ TopKind = "script" /\ vm = stack[Top].vm
  PROVE  StackOK' /\ Top' = Top + 1
<1> DEFINE a == [kind |-> kind, vm |-> vm]
<1>1. a \in Activation /\ stack \in Seq(Activation) /\ stack' = Append(stack, a)
  BY DEF Activation, StackOK, Push
<1>2. a.kind = kind /\ a.vm = vm
  OBVIOUS
<1> HIDE DEF a
<1>3. /\ stack' \in Seq(Activation)
      /\ Len(stack') = Len(stack) + 1
      /\ stack'[Len(stack) + 1] = a
      /\ \A k \in 1 .. Len(stack) : stack'[k] = stack[k]
  BY <1>1, AppendProperties
<1>4. Len(stack) \in Nat /\ Top = Len(stack) /\ Top' = Top + 1
  BY <1>1, <1>3, LenProperties DEF Top
<1>5. ASSUME NEW k \in 1 .. Top
      PROVE  Follows(k)'
  <2>1. Follows(k) /\ stack'[k] = stack[k]
    BY <1>3, <1>4 DEF StackOK
  <2>2. k > 1 => stack'[k - 1] = stack[k - 1]
    BY <1>3, <1>4
  <2>3. Kind(k) # "hook"
    <3>1. Top > 0 /\ stack # <<>>
      BY <1>4, StackFacts
    <3>2. QED
      BY <2>1, <3>1 DEF Follows, TopKind
  <2>4. QED
    BY <1>4, <2>1, <2>2, <2>3 DEF Follows, Kind
<1>6. PICK n \in Nat : n = Top + 1
  BY <1>4
<1>7. Follows(n)'
  <2>1. stack'[n] = a
    BY <1>3, <1>4, <1>6
  <2>2. CASE Top = 0
    <3>1. TopKind = "none"
      BY <2>2, StackFacts DEF TopKind
    <3>2. kind = "sq_call" /\ n = 1
      BY <1>6, <2>2, <3>1
    <3>3. QED
      BY <1>2, <2>1, <3>2 DEF Follows, Kind
  <2>3. CASE Top # 0
    <3>1. TopKind = Kind(Top) /\ Kind(Top) # "none"
      <4>1. stack # <<>> /\ Kind(Top) \in Kinds
        BY <1>4, <2>3, StackFacts
      <4>2. QED
        BY <4>1 DEF TopKind, Kinds
    <3>2. stack'[n - 1] = stack[Top] /\ n > 1
      BY <1>3, <1>4, <1>6, <2>3
    <3>3. Top' = n
      BY <1>4, <1>6
    <3>4. QED
      BY <1>2, <2>1, <3>1, <3>2, <3>3 DEF Follows, Kind
  <2>4. QED
    BY <2>2, <2>3
<1>8. QED
  <2>1. ASSUME NEW k \in 1 .. n
        PROVE  Follows(k)'
    <3>1. k \in 1 .. Top \/ k = n
      BY <1>4, <1>6
    <3>2. QED
      BY <1>5, <1>7, <3>1
  <2>2. Top' = n
    BY <1>4, <1>6
  <2>3. QED
    BY <1>3, <1>4, <2>1, <2>2 DEF StackOK

(* A return leaves a stack in which activations follow one another.        *)
LEMMA ReturnKeepsStack ==
  ASSUME StackOK, Return
  PROVE  StackOK' /\ Top' = Top - 1
<1>1. stack \in Seq(Activation) /\ stack # <<>> /\ Top \in Nat /\ Top > 0
  BY StackFacts DEF StackOK, Return
<1>2. stack' = SubSeq(stack, 1, Top - 1)
  BY DEF Return, Front, Top
<1>3. /\ stack' \in Seq(Activation)
      /\ Len(stack') = Top - 1
      /\ \A k \in 1 .. Top - 1 : stack'[k] = stack[k]
  <2>1. Top = Len(stack)
    BY DEF Top
  <2>2. /\ SubSeq(stack, 1, Top - 1) \in Seq(Activation)
        /\ Len(SubSeq(stack, 1, Top - 1)) = Top - 1
        /\ \A k \in 1 .. Top - 1 : SubSeq(stack, 1, Top - 1)[k] = stack[k]
    BY <1>1, <2>1, SubSeqProperties
  <2>3. QED
    BY <1>2, <2>2
<1>4. Top' = Top - 1
  BY <1>3 DEF Top
<1>5. ASSUME NEW k \in 1 .. Top - 1
      PROVE  Follows(k)'
  <2>1. Follows(k) /\ stack'[k] = stack[k] /\ k # Top
    BY <1>1, <1>3 DEF StackOK
  <2>2. k > 1 => stack'[k - 1] = stack[k - 1]
    BY <1>1, <1>3
  <2>3. QED
    BY <1>4, <2>1, <2>2 DEF Follows, Kind
<1>6. QED
  BY <1>3, <1>4, <1>5 DEF StackOK

-----------------------------------------------------------------------------
(* Type correctness, with the shape of the stack and of a walk.            *)

IType == TypeOK /\ StackOK /\ WalkOK

(* The initial states have the types, the shape of the stack and of the    *)
(* walk.                                                                   *)
LEMMA InitIType == Init => IType
<1> SUFFICES ASSUME Init
             PROVE  IType
  OBVIOUS
<1> USE CallStackAssumption
<1>1. stack = <<>> /\ <<>> \in Seq(Activation) /\ Len(<<>>) = 0 /\ shown = <<>>
  BY EmptySeq DEF Init
<1>2. StackOK
  BY <1>1 DEF StackOK, Top
<1>3. ActiveThreads = [vm \in {} |-> <<>>] /\ DOMAIN ActiveThreads = {}
  BY DEF Init
<1>4. shown \in Seq([at : 1 .. MaxDepth, ForcedLine : BOOLEAN, StackBase : Int])
  BY <1>1, EmptySeq
<1>5. TypeOK
  <2>1. stack \in Seq([kind : Kinds, vm : VMs]) /\ Top = 0
    BY <1>1 DEF Top, Activation
  <2>2. /\ DOMAIN ActiveThreads \subseteq VMs
        /\ \A vm \in DOMAIN ActiveThreads : ActiveThreads[vm] \in Seq(FetchedFrame)
        /\ \A vm \in DOMAIN ActiveThreads : NewestFirst(ActiveThreads[vm])
    BY <1>3
  <2>3. LastType \in Events /\ process \in {"running", "stopped"} /\ hasRuntime \in BOOLEAN
        /\ helperLoaded \in BOOLEAN /\ (helperLoaded => hasRuntime)
        /\ disturbed \subseteq Disturbances /\ abandoned \in 0 .. MaxAbandoned
    BY DEF Init, Events
  <2>4. Top <= MaxDepth /\ next \in 0 .. Top
    BY <2>1 DEF Init
  <2>5. walking \in BOOLEAN /\ ~walking
    BY DEF Init
  <2>6. QED
    BY <1>4, <2>1, <2>2, <2>3, <2>4, <2>5 DEF TypeOK
<1>6. WalkOK
  BY <1>3 DEF Init, WalkOK, Leftover
<1>7. QED
  BY <1>2, <1>5, <1>6 DEF IType

(* Any list in the cache or fetched anew is one of fetched frames.         *)
LEMMA CachedTyped ==
  ASSUME TypeOK, StackOK, NEW vm \in VMs
  PROVE  Cached(vm) \in Seq(FetchedFrame) /\ NewestFirst(Cached(vm))
<1>1. CASE vm \in DOMAIN ActiveThreads
  BY <1>1 DEF Cached, TypeOK
<1>2. CASE vm \notin DOMAIN ActiveThreads
  <2>1. Cached(vm) = FetchThreadCallstack(vm)
    BY <1>2 DEF Cached
  <2>2. FrameAt(Top) \subseteq FetchedFrame
    BY StackFacts, CallStackAssumption DEF FrameAt, FetchedFrame, TypeOK
  <2>3. Seq(FrameAt(Top)) \subseteq Seq(FetchedFrame)
    BY <2>2, SeqMonotonic
  <2>4. QED
    BY <2>1, <2>3, Fetch DEF ListOf
<1>3. QED
  BY <1>1, <1>2

CacheTyped(cache) ==
  /\ DOMAIN cache \subseteq VMs
  /\ \A vm \in DOMAIN cache : cache[vm] \in Seq(FetchedFrame) /\ NewestFirst(cache[vm])

(* The cache after a fetch or a claim.                                     *)
LEMMA CacheWithTyped ==
  ASSUME TypeOK, NEW vm \in VMs, NEW frames \in Seq(FetchedFrame), NewestFirst(frames)
  PROVE  /\ CacheTyped(CacheWith(vm, frames))
         /\ DOMAIN CacheWith(vm, frames) = DOMAIN ActiveThreads \cup {vm}
         /\ CacheWith(vm, frames)[vm] = frames
         /\ \A u \in DOMAIN ActiveThreads : u # vm => CacheWith(vm, frames)[u] = ActiveThreads[u]
BY DEF CacheWith, CacheTyped, TypeOK

(* A merged list has the frames of the one it was made of.                 *)
LEMMA MergedTyped ==
  ASSUME TypeOK, StackOK, NEW vm \in VMs, NEW base \in 1 .. MaxDepth,
         NEW merged, merged = GetNextSquirrelFrames(vm, base, Cached(vm))
  PROVE  /\ merged.list \in Seq(FetchedFrame) /\ NewestFirst(merged.list)
         /\ merged.out \in Seq(ShownFrame)
         /\ Kept(base, Cached(vm), merged, Len(Cached(vm)))
<1> DEFINE frames == Cached(vm)
<1>1. frames \in Seq(FetchedFrame) /\ NewestFirst(frames)
  BY CachedTyped
<1> HIDE DEF frames
<1>2. merged \in Loop /\ Kept(base, frames, merged, Len(frames))
  BY <1>1, LoopKeeps DEF frames
<1>3. merged.list \in Seq(FetchedFrame) /\ merged.out \in Seq(ShownFrame)
  BY <1>2 DEF Loop
<1>4. /\ Len(merged.list) = Len(frames)
      /\ \A x \in 1 .. Len(frames) : merged.list[x].at = frames[x].at
  BY <1>2 DEF Kept
<1>5. DOMAIN merged.list = DOMAIN frames /\ DOMAIN frames = 1 .. Len(frames)
  BY <1>1, <1>3, <1>4, LenProperties
<1>6. NewestFirst(merged.list)
  BY <1>1, <1>4, <1>5 DEF NewestFirst
<1>7. QED
  BY <1>2, <1>3, <1>6 DEF frames

(* A native frame may be shown after anything.                             *)
LEMMA ShowNative ==
  ASSUME NEW k \in 1 .. MaxDepth, NEW frames \in Seq(ShownFrame)
  PROVE  Append(frames, NativeFrame(k)) \in Seq(ShownFrame)
<1>1. NativeFrame(k) \in ShownFrame
  BY DEF NativeFrame, Frame, ShownFrame
<1>2. QED
  BY <1>1, AppendProperties

(* A filtered frame leaves the cache and what is shown in their types.     *)
LEMMA FilterTyped ==
  ASSUME TypeOK, StackOK, NEW evaluated \in BOOLEAN, FilterNextFrame(evaluated)
  PROVE  CacheTyped(ActiveThreads') /\ shown' \in Seq(ShownFrame)
<1>1. next \in 1 .. Top /\ Top \in Nat /\ Top <= MaxDepth /\ MaxDepth \in Nat
      /\ next \in 1 .. MaxDepth
  BY StackFacts, CallStackAssumption DEF FilterNextFrame, TypeOK
<1>2. shown \in Seq(ShownFrame) /\ CacheTyped(ActiveThreads)
  BY DEF TypeOK, ShownFrame, CacheTyped
<1> DEFINE vm == stack[next].vm
           frames == Cached(vm)
           merged == GetNextSquirrelFrames(vm, next, frames)
<1>3. vm \in VMs
  BY <1>1, StackFacts
<1> HIDE DEF vm
<1>4. frames \in Seq(FetchedFrame) /\ NewestFirst(frames)
  BY <1>3, CachedTyped
<1>5. /\ merged.list \in Seq(FetchedFrame) /\ NewestFirst(merged.list)
      /\ merged.out \in Seq(ShownFrame)
  BY <1>1, <1>3, MergedTyped
<1> HIDE DEF frames, merged
<1>6. CASE PassedOn
  BY <1>1, <1>2, <1>6, ShowNative DEF PassedOn
<1>7. CASE FilterSqCall /\ hasRuntime
  <2>1. /\ ActiveThreads' = CacheWith(vm, merged.list)
        /\ shown' \in {shown, Append(shown, NativeFrame(next)),
                        shown \o Append(merged.out, NativeFrame(next))}
    BY <1>7 DEF FilterSqCall, vm, frames, merged
  <2>2. /\ Append(merged.out, NativeFrame(next)) \in Seq(ShownFrame)
        /\ Append(shown, NativeFrame(next)) \in Seq(ShownFrame)
    BY <1>1, <1>2, <1>5, ShowNative
  <2>3. CacheTyped(CacheWith(vm, merged.list))
    BY <1>3, <1>5, CacheWithTyped
  <2>4. shown \o Append(merged.out, NativeFrame(next)) \in Seq(ShownFrame)
    BY <1>2, <2>2, ConcatProperties
  <2>5. QED
    BY <1>2, <2>1, <2>2, <2>3, <2>4
<1>8. CASE FilterSqCall /\ ~hasRuntime
  <2>1. ActiveThreads' = CacheWith(vm, frames) /\ shown' = Append(shown, NativeFrame(next))
    BY <1>8 DEF FilterSqCall, vm, frames
  <2>2. QED
    BY <1>1, <1>2, <1>3, <1>4, <2>1, ShowNative, CacheWithTyped
<1>9. QED
  BY <1>6, <1>7, <1>8 DEF FilterNextFrame

(* What does not touch the stack keeps how its activations follow.         *)
LEMMA SameStack ==
  ASSUME StackOK, UNCHANGED stack
  PROVE  StackOK' /\ Top' = Top
BY DEF StackOK, Top, Follows, Kind

(* Every step keeps the types, the shape of the stack and that of the      *)
(* walk.                                                                   *)
LEMMA NextIType == IType /\ [Next]_vars => IType'
<1> SUFFICES ASSUME IType, [Next]_vars
             PROVE  IType'
  OBVIOUS
<1> USE DEF IType
<1>0. /\ Top \in Nat /\ MaxDepth \in Nat /\ MaxAbandoned \in Nat
      /\ process = "running" => next = 0 /\ ~walking
      /\ shown \in Seq(ShownFrame) /\ CacheTyped(ActiveThreads)
  BY StackFacts, CallStackAssumption DEF TypeOK, WalkOK, ShownFrame, CacheTyped
<1> DEFINE Rest ==
      /\ LastType \in Events
      /\ process \in {"running", "stopped"}
      /\ hasRuntime \in BOOLEAN
      /\ helperLoaded \in BOOLEAN
      /\ helperLoaded => hasRuntime
      /\ walking \in BOOLEAN
      /\ walking => process = "stopped"
      /\ disturbed \subseteq Disturbances
      /\ abandoned \in 0 .. MaxAbandoned
<1>1. ASSUME StackOK', Top' <= MaxDepth, next' \in 0 .. Top', CacheTyped(ActiveThreads'),
             shown' \in Seq(ShownFrame), Rest', WalkOK'
      PROVE  IType'
  BY <1>1 DEF TypeOK, StackOK, Activation, ShownFrame, CacheTyped
<1>2. ASSUME NEW kind \in Kinds, NEW vm \in VMs, Push(kind, vm), StackOK', Top' = Top + 1,
             LastType' \in Events
      PROVE  IType'
  <2>1. Top < MaxDepth /\ next = 0 /\ ~walking /\ process = "running"
        /\ UNCHANGED <<process, hasRuntime, helperLoaded, next, walking, ActiveThreads, shown,
                       disturbed, abandoned>>
    BY <1>0, <1>2 DEF Push, walk
  <2>2. WalkOK'
    BY <2>1 DEF WalkOK, Leftover
  <2>3. Rest'
    BY <1>2, <2>1 DEF TypeOK
  <2>4. QED
    BY <1>0, <1>1, <1>2, <2>1, <2>2, <2>3
<1>3. ASSUME NEW vm \in VMs, sq_call(vm)
      PROVE  IType'
  <2>1. Push("sq_call", vm) /\ TopKind \in {"none", "native"} /\ UNCHANGED LastType
    BY <1>3 DEF sq_call
  <2>2. StackOK' /\ Top' = Top + 1
    BY <2>1, PushKeepsStack DEF Kinds
  <2>3. QED
    BY <1>2, <2>1, <2>2 DEF TypeOK, Kinds
<1>4. ASSUME NEW kind \in {"script", "native"}, Enter(kind)
      PROVE  IType'
  <2>1. Push(kind, stack[Top].vm) /\ TopKind \in {"sq_call", "script"} /\ UNCHANGED LastType
    BY <1>4 DEF Enter
  <2>2. stack[Top].vm \in VMs
    <3>1. Top \in 1 .. Top
      BY <2>1, StackFacts DEF TopKind
    <3>2. QED
      BY <3>1, StackFacts
  <2>3. kind \in Kinds
    BY DEF Kinds
  <2>4. StackOK' /\ Top' = Top + 1
    BY <2>1, <2>2, <2>3, PushKeepsStack
  <2>5. QED
    BY <1>2, <2>1, <2>2, <2>3, <2>4 DEF TypeOK
<1>5. ASSUME NEW type \in Events, TraceRoutine(type)
      PROVE  IType'
  <2>1. Push("hook", stack[Top].vm) /\ TopKind = "script" /\ LastType' = type
    BY <1>5 DEF TraceRoutine
  <2>2. stack[Top].vm \in VMs
    <3>1. Top \in 1 .. Top
      BY <2>1, StackFacts DEF TopKind
    <3>2. QED
      BY <3>1, StackFacts
  <2>3. StackOK' /\ Top' = Top + 1
    BY <2>1, <2>2, PushKeepsStack DEF Kinds
  <2>4. QED
    BY <1>2, <2>1, <2>2, <2>3 DEF Kinds
<1>6. CASE Return
  <2>1. StackOK' /\ Top' = Top - 1 /\ Top > 0
    BY <1>6, ReturnKeepsStack, StackFacts DEF Return
  <2>2. next = 0 /\ ~walking /\ process = "running"
        /\ UNCHANGED <<LastType, process, hasRuntime, helperLoaded, next, walking, ActiveThreads,
                       shown, disturbed, abandoned>>
    BY <1>0, <1>6 DEF Return, walk
  <2>3. WalkOK' /\ Rest'
    BY <2>2 DEF WalkOK, Leftover, TypeOK
  <2>4. QED
    BY <1>0, <1>1, <2>1, <2>2, <2>3 DEF TypeOK
<1>7. CASE RuntimeCreated
  <2>1. StackOK' /\ Top' = Top
    BY <1>7, SameStack DEF RuntimeCreated
  <2>2. WalkOK' /\ Rest'
    BY <1>7 DEF RuntimeCreated, walk, WalkOK, Leftover, TypeOK
  <2>3. QED
    BY <1>0, <1>1, <1>7, <2>1, <2>2 DEF RuntimeCreated, walk, TypeOK
<1>8. CASE InitalizeDebugHelper
  <2>1. StackOK' /\ Top' = Top
    BY <1>8, SameStack DEF InitalizeDebugHelper
  <2>2. WalkOK' /\ Rest'
    BY <1>8 DEF InitalizeDebugHelper, walk, WalkOK, Leftover, TypeOK
  <2>3. QED
    BY <1>0, <1>1, <1>8, <2>1, <2>2 DEF InitalizeDebugHelper, walk, TypeOK
<1>9. CASE Stop
  <2>1. StackOK' /\ Top' = Top
    BY <1>9, SameStack DEF Stop, debuggee
  <2>2. WalkOK' /\ Rest'
    BY <1>9 DEF Stop, debuggee, walk, WalkOK, Leftover, TypeOK
  <2>3. QED
    BY <1>0, <1>1, <1>9, <2>1, <2>2 DEF Stop, debuggee, walk, TypeOK
<1>10. ASSUME LeaveWalk
       PROVE  abandoned' \in 0 .. MaxAbandoned
  <2>1. abandoned \in 0 .. MaxAbandoned
    BY DEF TypeOK
  <2>2. CASE walking /\ Leftover
    BY <1>0, <1>10, <2>1, <2>2 DEF LeaveWalk
  <2>3. CASE ~(walking /\ Leftover)
    BY <1>10, <2>1, <2>3 DEF LeaveWalk
  <2>4. QED
    BY <2>2, <2>3
<1>11. CASE StartWalk
  <2>1. StackOK' /\ Top' = Top
    BY <1>11, SameStack DEF StartWalk, debuggee
  <2>2. next' \in 0 .. Top /\ (next' # 0 => stack[next'].kind # "script")
    <3>1. /\ NextNative(Top) \in 0 .. Top
          /\ NextNative(Top) # 0 => Kind(NextNative(Top)) # "script"
      BY <1>0, NextNativeIs
    <3>2. QED
      BY <1>11, <3>1 DEF StartWalk, debuggee, Kind
  <2>3. WalkOK' /\ Rest'
    BY <1>10, <1>11, <2>2 DEF StartWalk, debuggee, WalkOK, Leftover, TypeOK, Disturbances, Kind
  <2>4. shown' \in Seq(ShownFrame)
    BY <1>11, EmptySeq DEF StartWalk
  <2>5. QED
    BY <1>0, <1>1, <1>11, <2>1, <2>2, <2>3, <2>4 DEF StartWalk, TypeOK
<1>12. CASE Continue
  <2>1. StackOK' /\ Top' = Top
    BY <1>12, SameStack DEF Continue, debuggee
  <2>2. Rest'
    BY <1>10, <1>12 DEF Continue, debuggee, TypeOK, Disturbances
  <2>3. WalkOK'
    BY <1>12 DEF Continue, WalkOK, Leftover, TypeOK
  <2>4. shown' \in Seq(ShownFrame)
    BY <1>12, EmptySeq DEF Continue
  <2>5. QED
    BY <1>0, <1>1, <1>12, <2>1, <2>2, <2>3, <2>4 DEF Continue, TypeOK
<1>13. ASSUME NEW evaluated \in BOOLEAN, FilterNextFrame(evaluated)
       PROVE  IType'
  <2>1. StackOK' /\ Top' = Top
    BY <1>13, SameStack DEF FilterNextFrame, debuggee
  <2>2. next' \in 0 .. Top /\ (next' # 0 => stack[next'].kind # "script")
    <3>1. next \in 0 .. Top /\ next # 0 /\ next' = NextNative(next - 1)
      BY <1>13 DEF FilterNextFrame, TypeOK
    <3>2. next - 1 \in 0 .. Top /\ next - 1 \in Nat
      BY <1>0, <3>1
    <3> DEFINE k == next - 1
    <3> HIDE DEF k
    <3>3. NextNative(k) \in 0 .. k /\ (NextNative(k) # 0 => Kind(NextNative(k)) # "script")
      BY <3>2, NextNativeIs DEF k
    <3>4. QED
      BY <1>0, <3>1, <3>2, <3>3 DEF k, Kind
  <2>3. Rest'
    <3>1. disturbed' \subseteq disturbed \cup {"unread", "thrown"}
      BY <1>13 DEF FilterNextFrame, PassedOn, FilterSqCall
    <3>2. QED
      BY <1>13, <3>1 DEF FilterNextFrame, debuggee, TypeOK, Disturbances
  <2>4. WalkOK'
    BY <1>13, <2>2 DEF FilterNextFrame, debuggee, WalkOK, TypeOK, Kind
  <2>5. QED
    BY <1>1, <1>13, <2>1, <2>2, <2>3, <2>4, FilterTyped DEF TypeOK
<1>14. CASE FilterEndOfStack
  <2>1. StackOK' /\ Top' = Top
    BY <1>14, SameStack DEF FilterEndOfStack, debuggee
  <2>2. DOMAIN ActiveThreads' = {}
    BY <1>14 DEF FilterEndOfStack
  <2>3. WalkOK' /\ Rest' /\ CacheTyped(ActiveThreads')
    BY <1>14, <2>2 DEF FilterEndOfStack, debuggee, WalkOK, Leftover, TypeOK, CacheTyped
  <2>4. QED
    BY <1>0, <1>1, <1>14, <2>1, <2>3 DEF FilterEndOfStack, TypeOK
<1>15. CASE OtherThreadEndOfStack
  <2>1. StackOK' /\ Top' = Top
    BY <1>15, SameStack DEF OtherThreadEndOfStack, debuggee
  <2>2. DOMAIN ActiveThreads' = {}
    BY <1>15 DEF OtherThreadEndOfStack
  <2>3. WalkOK' /\ CacheTyped(ActiveThreads')
    BY <1>15, <2>2 DEF OtherThreadEndOfStack, debuggee, WalkOK, Leftover, TypeOK, CacheTyped, Kind
  <2>4. Rest'
    BY <1>15 DEF OtherThreadEndOfStack, debuggee, TypeOK, Disturbances
  <2>5. QED
    BY <1>0, <1>1, <1>15, <2>1, <2>3, <2>4 DEF OtherThreadEndOfStack, TypeOK
<1>16. CASE UNCHANGED vars
  <2>1. StackOK' /\ Top' = Top
    BY <1>16, SameStack DEF vars, debuggee
  <2>2. WalkOK' /\ Rest'
    BY <1>16 DEF vars, debuggee, walk, WalkOK, Leftover, TypeOK, Kind
  <2>3. QED
    BY <1>0, <1>1, <1>16, <2>1, <2>2 DEF vars, debuggee, walk, TypeOK
<1>17. QED
  BY <1>3, <1>4, <1>5, <1>6, <1>7, <1>8, <1>9, <1>11, <1>12, <1>13, <1>14, <1>15, <1>16
     DEF Next, Debuggee

(* Every variable stays in its type, and every list in the cache newest    *)
(* first, whatever the loop and the claims do to it.                       *)
THEOREM TypeCorrect == Spec => []TypeOK
<1>1. Spec => []IType
  BY InitIType, NextIType, PTL DEF Spec
<1>2. IType => TypeOK
  BY DEF IType
<1>3. QED
  BY <1>1, <1>2, PTL

-----------------------------------------------------------------------------
(* What a walk shows.                                                      *)

(* t is s and after it o and w.                                            *)
Shows(s, o, w, t) ==
  /\ DOMAIN t = 1 .. Len(s) + Len(o) + 1
  /\ \A i \in 1 .. Len(s) : t[i] = s[i]
  /\ \A j \in 1 .. Len(o) : t[Len(s) + j] = o[j]
  /\ t[Len(s) + Len(o) + 1] = w

(* The filter's result is what was shown, then the merged frames, then     *)
(* its own.                                                                *)
LEMMA ConcatShows ==
  ASSUME NEW A, NEW s \in Seq(A), NEW o \in Seq(A), NEW w \in A
  PROVE  Shows(s, o, w, s \o Append(o, w))
<1> DEFINE u == Append(o, w)
           t == s \o u
<1>1. Len(s) \in Nat /\ Len(o) \in Nat
  BY LenProperties
<1>2. /\ u \in Seq(A) /\ Len(u) = Len(o) + 1 /\ u[Len(o) + 1] = w
      /\ \A j \in 1 .. Len(o) : u[j] = o[j]
  BY AppendProperties
<1> HIDE DEF u
<1>3. /\ t \in Seq(A) /\ Len(t) = Len(s) + Len(u)
      /\ \A i \in 1 .. Len(s) + Len(u) : t[i] = IF i <= Len(s) THEN s[i] ELSE u[i - Len(s)]
  BY <1>2, ConcatProperties
<1>4. DOMAIN t = 1 .. Len(s) + Len(o) + 1
  BY <1>1, <1>2, <1>3, LenProperties
<1> HIDE DEF t
<1>5. \A i \in 1 .. Len(s) : t[i] = s[i]
  BY <1>1, <1>2, <1>3
<1>6. ASSUME NEW j \in 1 .. Len(o)
      PROVE  t[Len(s) + j] = o[j]
  <2>1. Len(s) + j \in 1 .. Len(s) + Len(u) /\ ~(Len(s) + j <= Len(s))
        /\ (Len(s) + j) - Len(s) = j
    BY <1>1, <1>2
  <2>2. QED
    BY <1>2, <1>3, <2>1
<1>7. t[Len(s) + Len(o) + 1] = w
  <2> DEFINE i == Len(s) + Len(o) + 1
  <2>1. i \in 1 .. Len(s) + Len(u) /\ ~(i <= Len(s)) /\ i - Len(s) = Len(o) + 1
    BY <1>1, <1>2
  <2> HIDE DEF i
  <2>2. t[i] = w
    BY <1>2, <1>3, <2>1
  <2>3. QED
    BY <2>2 DEF i
<1>8. QED
  BY <1>4, <1>5, <1>6, <1>7 DEF Shows, t, u

(* A frame that is passed on is shown alone.                               *)
LEMMA AppendShows ==
  ASSUME NEW A, NEW s \in Seq(A), NEW w \in A
  PROVE  Shows(s, <<>>, w, Append(s, w))
<1>1. /\ Append(s, w) \in Seq(A) /\ Len(Append(s, w)) = Len(s) + 1
      /\ Append(s, w)[Len(s) + 1] = w
      /\ \A i \in 1 .. Len(s) : Append(s, w)[i] = s[i]
      /\ Len(s) \in Nat
  BY AppendProperties, LenProperties
<1>2. DOMAIN Append(s, w) = 1 .. Len(s) + 1
  BY <1>1, LenProperties
<1>3. Len(<<>>) = 0
  BY EmptySeq
<1>4. QED
  BY <1>1, <1>2, <1>3 DEF Shows

(* Where an element of t comes from.                                       *)
LEMMA ShowsCases ==
  ASSUME NEW A, NEW s \in Seq(A), NEW o \in Seq(A), NEW w, NEW t,
         Shows(s, o, w, t), NEW i \in DOMAIN t
  PROVE  \/ i \in DOMAIN s /\ t[i] = s[i]
         \/ i - Len(s) \in DOMAIN o /\ t[i] = o[i - Len(s)]
         \/ i = Len(s) + Len(o) + 1 /\ t[i] = w
<1>1. Len(s) \in Nat /\ Len(o) \in Nat /\ DOMAIN s = 1 .. Len(s) /\ DOMAIN o = 1 .. Len(o)
  BY LenProperties
<1>2. i \in 1 .. Len(s) + Len(o) + 1
  BY DEF Shows
<1>3. CASE i <= Len(s)
  BY <1>1, <1>2, <1>3 DEF Shows
<1>4. CASE i > Len(s) /\ i <= Len(s) + Len(o)
  <2> DEFINE j == i - Len(s)
  <2>1. j \in 1 .. Len(o) /\ i = Len(s) + j
    BY <1>1, <1>2, <1>4
  <2> HIDE DEF j
  <2>2. t[i] = o[j] /\ j \in DOMAIN o
    BY <1>1, <2>1 DEF Shows
  <2>3. QED
    BY <2>2 DEF j
<1>5. CASE i = Len(s) + Len(o) + 1
  BY <1>5 DEF Shows
<1>6. QED
  BY <1>1, <1>2, <1>3, <1>4, <1>5

(* What the filter does with the frame it has come to.                     *)
Merged == GetNextSquirrelFrames(stack[next].vm, next, Cached(stack[next].vm))
FilterShows(out) ==
  \/ /\ Kind(next) # "sq_call" \/ "unread" \in disturbed'
     /\ out = <<>> /\ ActiveThreads' = ActiveThreads
  \/ /\ Kind(next) = "sq_call" /\ ~hasRuntime
     /\ out = <<>>
     /\ ActiveThreads' = CacheWith(stack[next].vm, Cached(stack[next].vm))
  \/ /\ Kind(next) = "sq_call" /\ hasRuntime /\ ~Threw(Merged)
     /\ out = Merged.out
     /\ ActiveThreads' = CacheWith(stack[next].vm, Merged.list)
  \/ /\ Kind(next) = "sq_call" /\ hasRuntime /\ "thrown" \in disturbed'
     /\ out = <<>>
     /\ ActiveThreads' = CacheWith(stack[next].vm, Merged.list)

(* A step of the filter: where it stands, what it shows and what it        *)
(* caches.                                                                 *)
LEMMA FilterStep ==
  ASSUME IType, NEW evaluated \in BOOLEAN, FilterNextFrame(evaluated)
  PROVE  /\ next \in 1 .. Top /\ next \in 1 .. MaxDepth
         /\ Kind(next) # "script" /\ stack[next].vm \in VMs
         /\ next' \in 0 .. next - 1
         /\ \A j \in next' + 1 .. next - 1 : Kind(j) = "script"
         /\ walking /\ UNCHANGED <<debuggee, process, walking>>
         /\ disturbed \subseteq disturbed'
         /\ \E out \in Seq(ShownFrame) :
              /\ FilterShows(out)
              /\ \/ Shows(shown, out, NativeFrame(next), shown')
                 \/ "thrown" \in disturbed' /\ out = <<>> /\ shown' = shown
<1> USE DEF IType
<1>1. next \in 1 .. Top /\ Top \in Nat /\ Top <= MaxDepth /\ MaxDepth \in Nat
      /\ next \in 1 .. MaxDepth
  BY StackFacts, CallStackAssumption DEF FilterNextFrame, TypeOK
<1>2. Kind(next) # "script"
  BY <1>1 DEF WalkOK
<1>3. stack[next].vm \in VMs
  BY <1>1, StackFacts
<1>4. next' \in 0 .. next - 1 /\ \A j \in next' + 1 .. next - 1 : Kind(j) = "script"
  <2> DEFINE k == next - 1
  <2>1. k \in 0 .. Top /\ next' = NextNative(k)
    BY <1>1 DEF FilterNextFrame
  <2> HIDE DEF k
  <2>2. next' \in 0 .. k /\ \A j \in next' + 1 .. k : Kind(j) = "script"
    BY <2>1, NextNativeIs
  <2>3. QED
    BY <2>2 DEF k
<1>5. walking /\ UNCHANGED <<debuggee, process, walking>> /\ disturbed \subseteq disturbed'
  BY DEF FilterNextFrame, PassedOn, FilterSqCall
<1>6. shown \in Seq(ShownFrame) /\ NativeFrame(next) \in ShownFrame
  BY <1>1 DEF TypeOK, ShownFrame, NativeFrame, Frame
<1>7. \E out \in Seq(ShownFrame) :
        /\ FilterShows(out)
        /\ \/ Shows(shown, out, NativeFrame(next), shown')
           \/ "thrown" \in disturbed' /\ out = <<>> /\ shown' = shown
  <2>1. CASE PassedOn /\ ~(Kind(next) = "sq_call" /\ evaluated)
    <3>1. Kind(next) # "sq_call" \/ "unread" \in disturbed'
      BY <2>1 DEF PassedOn
    <3>2. FilterShows(<<>>)
      BY <2>1, <3>1 DEF FilterShows, PassedOn
    <3>3. Shows(shown, <<>>, NativeFrame(next), shown')
      BY <1>6, <2>1, AppendShows DEF PassedOn
    <3>4. QED
      BY <3>2, <3>3, EmptySeq
  <2>2. CASE FilterSqCall /\ Kind(next) = "sq_call" /\ ~hasRuntime
    <3>1. FilterShows(<<>>) /\ shown' = Append(shown, NativeFrame(next))
      BY <2>2 DEF FilterShows, FilterSqCall
    <3>2. Shows(shown, <<>>, NativeFrame(next), shown')
      BY <1>6, <3>1, AppendShows
    <3>3. QED
      BY <3>1, <3>2, EmptySeq
  <2>3. CASE FilterSqCall /\ Kind(next) = "sq_call" /\ hasRuntime /\ ~Threw(Merged)
    <3> DEFINE out == Merged.out
    <3>1. FilterShows(out) /\ shown' = shown \o Append(out, NativeFrame(next))
      BY <2>3 DEF FilterShows, FilterSqCall, Merged
    <3>2. out \in Seq(ShownFrame)
      BY <1>1, <1>3, MergedTyped DEF Merged
    <3> HIDE DEF out
    <3>3. Shows(shown, out, NativeFrame(next), shown')
      BY <1>6, <3>1, <3>2, ConcatShows
    <3>4. QED
      BY <3>1, <3>2, <3>3
  <2>4. CASE FilterSqCall /\ Kind(next) = "sq_call" /\ hasRuntime /\ Threw(Merged)
    <3>1. /\ FilterShows(<<>>) /\ "thrown" \in disturbed'
          /\ shown' = shown \/ shown' = Append(shown, NativeFrame(next))
      BY <2>4 DEF FilterShows, FilterSqCall, Merged
    <3>2. Shows(shown, <<>>, NativeFrame(next), Append(shown, NativeFrame(next)))
      BY <1>6, AppendShows
    <3>3. QED
      BY <3>1, <3>2, EmptySeq
  <2>5. QED
    BY <2>1, <2>2, <2>3, <2>4 DEF FilterNextFrame
<1>8. QED
  BY <1>1, <1>2, <1>3, <1>4, <1>5, <1>7

-----------------------------------------------------------------------------
(* The cache.                                                              *)

(* Another list with the same frames is the list of the VM as well.        *)
LEMMA SameList ==
  ASSUME NEW vm, NEW frames \in Seq(FetchedFrame), NEW list \in Seq(FetchedFrame),
         ListOf(frames, vm, Top), NewestFirst(list), Len(list) = Len(frames),
         \A x \in 1 .. Len(frames) : /\ list[x].at = frames[x].at
                                     /\ list[x].kind = frames[x].kind
  PROVE  ListOf(list, vm, Top)
<1>1. DOMAIN frames = 1 .. Len(frames) /\ DOMAIN list = 1 .. Len(frames)
  BY LenProperties
<1>2. QED
  BY <1>1 DEF ListOf

(* The list that is used is complete, whether it was cached or is fetched  *)
(* now.                                                                    *)
LEMMA CachedList ==
  ASSUME IType, CacheOK, walking, "stale" \notin disturbed, NEW vm \in VMs
  PROVE  ListOf(Cached(vm), vm, Top)
<1>1. CASE vm \in DOMAIN ActiveThreads
  BY <1>1 DEF Cached, CacheOK
<1>2. CASE vm \notin DOMAIN ActiveThreads
  BY <1>2, Fetch DEF Cached, IType
<1>3. QED
  BY <1>1, <1>2

(* The filter leaves every list the one of its VM.                         *)
LEMMA FilterCache ==
  ASSUME IType, CacheOK, NEW evaluated \in BOOLEAN, FilterNextFrame(evaluated),
         "stale" \notin disturbed, NEW vm \in DOMAIN ActiveThreads'
  PROVE  vm \in VMs /\ ListOf(ActiveThreads'[vm], vm, Top)
<1> USE DEF IType
<1> DEFINE u == stack[next].vm
           frames == Cached(u)
           merged == Merged
<1>1. walking /\ next \in 1 .. MaxDepth /\ u \in VMs
  BY FilterStep
<1>2. \A w \in DOMAIN ActiveThreads : w \in VMs /\ ListOf(ActiveThreads[w], w, Top)
  BY <1>1 DEF CacheOK, TypeOK
<1>3. PICK out : FilterShows(out)
  BY FilterStep
<1>4. frames \in Seq(FetchedFrame) /\ NewestFirst(frames) /\ ListOf(frames, u, Top)
  BY <1>1, CachedTyped, CachedList
<1>5. ListOf(merged.list, u, Top) /\ merged.list \in Seq(FetchedFrame) /\ NewestFirst(merged.list)
  <2>1. /\ merged.list \in Seq(FetchedFrame) /\ NewestFirst(merged.list)
        /\ Kept(next, frames, merged, Len(frames))
    BY <1>1, MergedTyped DEF Merged
  <2> HIDE DEF frames, merged, u
  <2>2. ListOf(merged.list, u, Top)
    BY <1>4, <2>1, SameList DEF Kept
  <2>3. QED
    BY <2>1, <2>2
<1> HIDE DEF frames, merged, u
<1>6. ASSUME NEW list \in Seq(FetchedFrame), NewestFirst(list), ListOf(list, u, Top),
             ActiveThreads' = CacheWith(u, list)
      PROVE  vm \in VMs /\ ListOf(ActiveThreads'[vm], vm, Top)
  <2> DEFINE cache == CacheWith(u, list)
  <2>1. /\ DOMAIN cache = DOMAIN ActiveThreads \cup {u}
        /\ cache[u] = list
        /\ \A w \in DOMAIN ActiveThreads : w # u => cache[w] = ActiveThreads[w]
    BY <1>1, <1>6, CacheWithTyped
  <2>2. cache = ActiveThreads'
    BY <1>6
  <2> HIDE DEF cache
  <2>3. CASE vm = u
    BY <1>1, <1>6, <2>1, <2>2, <2>3
  <2>4. CASE vm # u
    <3>1. vm \in DOMAIN ActiveThreads /\ ActiveThreads'[vm] = ActiveThreads[vm]
      BY <2>1, <2>2, <2>4
    <3>2. QED
      BY <1>2, <3>1
  <2>5. QED
    BY <2>3, <2>4
<1>7. CASE ActiveThreads' = ActiveThreads
  BY <1>2, <1>7
<1>8. CASE ActiveThreads' = CacheWith(u, frames)
  BY <1>4, <1>6, <1>8
<1>9. CASE ActiveThreads' = CacheWith(u, merged.list)
  BY <1>5, <1>6, <1>9
<1>10. QED
  BY <1>3, <1>7, <1>8, <1>9 DEF FilterShows, u, frames, merged

(* Every step keeps the cached lists complete.                             *)
LEMMA NextCacheOK == IType /\ CacheOK /\ [Next]_vars => CacheOK'
<1> SUFFICES ASSUME IType, CacheOK, [Next]_vars, walking', "stale" \notin disturbed',
                    NEW vm \in DOMAIN ActiveThreads'
             PROVE  ListOf(ActiveThreads[vm], vm, Top)'
  BY DEF CacheOK
<1>1. ASSUME UNCHANGED stack, ListOf(ActiveThreads'[vm], vm, Top)
      PROVE  ListOf(ActiveThreads[vm], vm, Top)'
  BY <1>1 DEF ListOf, Listed, InVM, Kind, Top, NewestFirst
<1>2. process = "running" => ~walking
  BY DEF IType, TypeOK
<1>3. CASE Debuggee \/ Stop
  BY <1>2, <1>3 DEF Debuggee, Stop, sq_call, Enter, TraceRoutine, Push, Return, RuntimeCreated,
                    InitalizeDebugHelper, walk
<1>4. CASE StartWalk
  <2>1. ActiveThreads' = ActiveThreads /\ UNCHANGED stack /\ Leftover /\ disturbed' = disturbed
    BY <1>4 DEF StartWalk, debuggee, Leftover
  <2>2. walking
    BY <2>1 DEF IType, WalkOK
  <2>3. QED
    BY <1>1, <2>1, <2>2 DEF CacheOK
<1>5. CASE Continue \/ FilterEndOfStack \/ OtherThreadEndOfStack
  BY <1>5 DEF Continue, FilterEndOfStack, OtherThreadEndOfStack
<1>6. ASSUME NEW evaluated \in BOOLEAN, FilterNextFrame(evaluated)
      PROVE  ListOf(ActiveThreads[vm], vm, Top)'
  <2>1. "stale" \notin disturbed /\ UNCHANGED stack
    BY <1>6, FilterStep DEF debuggee
  <2>2. QED
    BY <1>1, <1>6, <2>1, FilterCache
<1>7. CASE UNCHANGED vars
  BY <1>1, <1>7 DEF vars, debuggee, walk, CacheOK
<1>8. QED
  BY <1>3, <1>4, <1>5, <1>6, <1>7 DEF Next

-----------------------------------------------------------------------------
(* Nothing is shown twice.                                                 *)

(* The functions a sq_call shows were not claimed by one passed before,    *)
(* and now are by this one.                                                *)
LEMMA OutIsNew ==
  ASSUME IType, CacheOK, NEW evaluated \in BOOLEAN, FilterNextFrame(evaluated),
         "stale" \notin disturbed, NEW out, FilterShows(out), NEW y \in 1 .. Len(out)
  PROVE  /\ out[y].at \in 1 .. Top
         /\ Kind(out[y].at) = "script"
         /\ ~ClaimedAbove(ActiveThreads, next, out[y].at)
         /\ ClaimedAbove(ActiveThreads', next', out[y].at)
<1> USE DEF IType
<1> DEFINE u == stack[next].vm
           frames == Cached(u)
           merged == Merged
           k == out[y].at
<1>1. /\ walking /\ next \in 1 .. MaxDepth /\ next \in 1 .. Top /\ u \in VMs
      /\ next' \in 0 .. next - 1
  BY FilterStep
<1>2. out # <<>>
  BY EmptySeq
<1>3. out = merged.out /\ ActiveThreads' = CacheWith(u, merged.list)
  BY <1>2 DEF FilterShows
<1>4. frames \in Seq(FetchedFrame) /\ NewestFirst(frames) /\ ListOf(frames, u, Top)
  BY <1>1, CachedTyped, CachedList
<1>5. /\ merged.list \in Seq(FetchedFrame) /\ NewestFirst(merged.list)
      /\ Kept(next, frames, merged, Len(frames))
  BY <1>1, MergedTyped DEF Merged
<1>6. /\ u \in DOMAIN CacheWith(u, merged.list)
      /\ CacheWith(u, merged.list)[u] = merged.list
  <2> DEFINE list == merged.list
  <2> HIDE DEF merged, u
  <2>1. list \in Seq(FetchedFrame) /\ NewestFirst(list)
    BY <1>5
  <2> HIDE DEF list
  <2>2. DOMAIN CacheWith(u, list) = DOMAIN ActiveThreads \cup {u} /\ CacheWith(u, list)[u] = list
    BY <1>1, <2>1, CacheWithTyped
  <2>3. QED
    BY <2>2 DEF list
<1> HIDE DEF frames, merged
<1>7. PICK x \in 1 .. Len(frames) :
        /\ k = frames[x].at /\ frames[x].kind = "script"
        /\ frames[x].ParentFrameBase \in {0, next} /\ merged.list[x].ParentFrameBase = next
  BY <1>3, <1>5 DEF Kept
<1>8. /\ DOMAIN frames = 1 .. Len(frames) /\ DOMAIN merged.list = 1 .. Len(frames)
      /\ merged.list[x].at = k /\ Len(frames) \in Nat
  BY <1>4, <1>5, <1>7, LenProperties DEF Kept
<1>9. k \in 1 .. Top /\ stack[k].vm = u /\ Kind(k) = "script"
  BY <1>4, <1>7, <1>8 DEF ListOf, Listed, InVM
<1> HIDE DEF u, k
<1>10. ClaimedAbove(ActiveThreads', next', k)
  <2>1. next > next'
    BY <1>1
  <2>2. QED
    BY <1>3, <1>6, <1>7, <1>8, <1>9, <2>1 DEF ClaimedAbove
<1>11. ASSUME ClaimedAbove(ActiveThreads, next, k)
       PROVE  FALSE
  <2>1. frames = ActiveThreads[u]
    BY <1>9, <1>11 DEF ClaimedAbove, frames, u, Cached
  <2>2. PICK i \in DOMAIN frames : frames[i].at = k /\ frames[i].ParentFrameBase > next
    BY <1>9, <1>11, <2>1 DEF ClaimedAbove
  <2>3. i = x
    <3>1. k \in Int /\ i \in Int /\ x \in Int
      BY <1>8, <1>9
    <3>2. ~(i < x) /\ ~(x < i)
      BY <1>4, <1>7, <1>8, <2>2, <3>1 DEF NewestFirst
    <3>3. QED
      BY <3>1, <3>2
  <2>4. QED
    BY <1>1, <1>7, <2>2, <2>3
<1>12. QED
  BY <1>9, <1>10, <1>11 DEF k

(* What was passed stays so.                                               *)
LEMMA StillPassed ==
  ASSUME IType, CacheOK, NEW evaluated \in BOOLEAN, FilterNextFrame(evaluated),
         "stale" \notin disturbed, NEW k \in 1 .. Top, Passed(ActiveThreads, next, k)
  PROVE  Passed(ActiveThreads', next', k)
<1> USE DEF IType
<1> DEFINE u == stack[next].vm
           vm == stack[k].vm
           frames == Cached(u)
           merged == Merged
<1>1. /\ walking /\ next \in 1 .. MaxDepth /\ next \in 1 .. Top /\ u \in VMs
      /\ next' \in 0 .. next - 1 /\ Top \in Nat
  BY FilterStep, StackFacts
<1>2. CASE Kind(k) # "script" /\ k > next
  BY <1>1, <1>2 DEF Passed
<1>3. CASE ClaimedAbove(ActiveThreads, next, k)
  <2>1. vm \in DOMAIN ActiveThreads /\ Kind(k) = "script"
    BY <1>3 DEF ClaimedAbove
  <2>2. PICK i \in DOMAIN ActiveThreads[vm] : /\ ActiveThreads[vm][i].at = k
                                              /\ ActiveThreads[vm][i].ParentFrameBase > next
    BY <1>3 DEF ClaimedAbove
  <2>3. ActiveThreads[vm] \in Seq(FetchedFrame)
    BY <2>1 DEF TypeOK
  <2>4. ActiveThreads[vm][i] \in FetchedFrame
    BY <2>3, ElementOfSeq, LenProperties
  <2>5. ActiveThreads[vm][i].ParentFrameBase \in Nat /\ MaxDepth \in Nat
    BY <2>4, CallStackAssumption DEF FetchedFrame
  <2>6. ActiveThreads[vm][i].ParentFrameBase > next'
    BY <1>1, <2>2, <2>5
  <2>7. CASE ActiveThreads' = ActiveThreads
    BY <1>1, <2>1, <2>2, <2>6, <2>7 DEF Passed, ClaimedAbove
  <2>8. ASSUME NEW list \in Seq(FetchedFrame), NewestFirst(list),
               ActiveThreads' = CacheWith(u, list),
               u = vm => i \in DOMAIN list /\ list[i] = ActiveThreads[vm][i]
        PROVE  Passed(ActiveThreads', next', k)
    <3> DEFINE cache == CacheWith(u, list)
    <3>1. /\ DOMAIN cache = DOMAIN ActiveThreads \cup {u}
          /\ cache[u] = list
          /\ \A w \in DOMAIN ActiveThreads : w # u => cache[w] = ActiveThreads[w]
      BY <1>1, <2>8, CacheWithTyped
    <3> HIDE DEF cache, u, vm
    <3>2. vm \in DOMAIN cache /\ i \in DOMAIN cache[vm] /\ cache[vm][i] = ActiveThreads[vm][i]
      BY <2>1, <2>8, <3>1
    <3>3. ActiveThreads' = cache
      BY <2>8 DEF cache
    <3>4. QED
      BY <2>1, <2>2, <2>6, <3>2, <3>3 DEF Passed, ClaimedAbove, vm
  <2>9. frames \in Seq(FetchedFrame) /\ NewestFirst(frames)
        /\ (u = vm => frames = ActiveThreads[vm])
    BY <1>1, <2>1, CachedTyped DEF Cached
  <2>10. /\ merged.list \in Seq(FetchedFrame) /\ NewestFirst(merged.list)
         /\ Kept(next, frames, merged, Len(frames))
    BY <1>1, MergedTyped DEF Merged
  <2>11. PICK out : FilterShows(out)
    BY FilterStep
  <2> HIDE DEF u, vm, frames, merged
  <2>12. CASE ActiveThreads' = CacheWith(u, frames)
    BY <2>2, <2>8, <2>9, <2>12
  <2>13. CASE ActiveThreads' = CacheWith(u, merged.list)
    <3>1. ASSUME u = vm
          PROVE  i \in DOMAIN merged.list /\ merged.list[i] = ActiveThreads[vm][i]
      <4>1. DOMAIN merged.list = 1 .. Len(frames) /\ DOMAIN frames = 1 .. Len(frames)
        BY <2>9, <2>10, LenProperties DEF Kept
      <4>2. i \in 1 .. Len(frames) /\ frames[i].ParentFrameBase \notin {0, next}
        BY <1>1, <2>2, <2>5, <2>9, <3>1, <4>1
      <4>3. QED
        BY <2>9, <2>10, <3>1, <4>1, <4>2 DEF Kept
    <3>2. QED
      BY <2>8, <2>10, <2>13, <3>1
  <2>14. QED
    BY <2>7, <2>11, <2>12, <2>13 DEF FilterShows, u, frames, merged
<1>4. QED
  BY <1>2, <1>3 DEF Passed

(* A step of the filter shows nothing again.                               *)
LEMMA FilterShown ==
  ASSUME IType, CacheOK, ShownOK, NEW evaluated \in BOOLEAN, FilterNextFrame(evaluated),
         disturbed' \subseteq {"unread", "thrown"}
  PROVE  /\ \A i \in DOMAIN shown' : /\ shown'[i].at \in 1 .. Top
                                      /\ Passed(ActiveThreads', next', shown'[i].at)
         /\ \A i, j \in DOMAIN shown' : shown'[i].at = shown'[j].at => i = j
<1>1. /\ walking /\ next \in 1 .. Top /\ next' \in 0 .. next - 1 /\ Kind(next) # "script"
      /\ disturbed \subseteq {"unread", "thrown"} /\ Top \in Nat /\ "stale" \notin disturbed
  BY FilterStep, StackFacts DEF IType
<1>2. PICK out \in Seq(ShownFrame) :
        FilterShows(out) /\ (Shows(shown, out, NativeFrame(next), shown') \/ shown' = shown)
  BY FilterStep
<1>3. shown \in Seq(ShownFrame) /\ DOMAIN shown = 1 .. Len(shown) /\ Len(shown) \in Nat
      /\ DOMAIN out = 1 .. Len(out) /\ Len(out) \in Nat
  BY LenProperties DEF IType, TypeOK, ShownFrame
<1>4. /\ \A i \in DOMAIN shown : /\ shown[i].at \in 1 .. Top
                                 /\ Passed(ActiveThreads, next, shown[i].at)
      /\ \A i, j \in DOMAIN shown : shown[i].at = shown[j].at => i = j
  BY <1>1 DEF ShownOK
<1>5. ASSUME NEW y \in DOMAIN out
      PROVE  /\ out[y].at \in 1 .. Top
             /\ out[y].at # next
             /\ ~Passed(ActiveThreads, next, out[y].at)
             /\ Passed(ActiveThreads', next', out[y].at)
  BY <1>1, <1>2, <1>3, OutIsNew DEF Passed
<1>6. ASSUME NEW x \in DOMAIN out, NEW y \in DOMAIN out, out[x].at = out[y].at
      PROVE  x = y
  <2>1. NewestFirst(out)
    <3>1. CASE out = <<>>
      BY <1>3, <3>1, EmptySeq DEF NewestFirst
    <3>2. CASE out = Merged.out
      <4> DEFINE vm == stack[next].vm
                 frames == Cached(vm)
      <4>1. Kept(next, frames, Merged, Len(frames))
        BY FilterStep, MergedTyped DEF Merged, IType
      <4>2. QED
        BY <3>2, <4>1 DEF Kept
    <3>3. QED
      BY <1>2, <3>1, <3>2 DEF FilterShows
  <2>2. ~(x < y) /\ ~(y < x)
    BY <1>5, <1>6, <2>1 DEF NewestFirst
  <2>3. QED
    BY <1>3, <2>2
<1>7. /\ NativeFrame(next).at = next
      /\ ~Passed(ActiveThreads, next, next)
      /\ Passed(ActiveThreads', next', next)
  BY <1>1 DEF NativeFrame, Frame, Passed, ClaimedAbove
<1>8. CASE shown' = shown
  <2>1. \A i \in DOMAIN shown : Passed(ActiveThreads', next', shown[i].at)
    BY <1>1, <1>4, StillPassed
  <2>2. QED
    BY <1>4, <1>8, <2>1
<1>9. ASSUME Shows(shown, out, NativeFrame(next), shown'), NEW i \in DOMAIN shown'
      PROVE  /\ shown'[i].at \in 1 .. Top /\ Passed(ActiveThreads', next', shown'[i].at)
             /\ \/ /\ i \in DOMAIN shown /\ shown'[i].at = shown[i].at
                   /\ Passed(ActiveThreads, next, shown'[i].at)
                \/ /\ i - Len(shown) \in DOMAIN out /\ shown'[i].at = out[i - Len(shown)].at
                   /\ ~Passed(ActiveThreads, next, shown'[i].at) /\ shown'[i].at # next
                \/ /\ i = Len(shown) + Len(out) + 1 /\ shown'[i].at = next
                   /\ ~Passed(ActiveThreads, next, shown'[i].at)
  <2>1. \/ i \in DOMAIN shown /\ shown'[i] = shown[i]
        \/ i - Len(shown) \in DOMAIN out /\ shown'[i] = out[i - Len(shown)]
        \/ i = Len(shown) + Len(out) + 1 /\ shown'[i] = NativeFrame(next)
    BY <1>3, <1>9, ShowsCases
  <2>2. CASE i \in DOMAIN shown /\ shown'[i] = shown[i]
    <3>1. shown[i].at \in 1 .. Top /\ Passed(ActiveThreads, next, shown[i].at)
      BY <1>4, <2>2
    <3>2. Passed(ActiveThreads', next', shown[i].at)
      BY <1>1, <3>1, StillPassed
    <3>3. QED
      BY <2>2, <3>1, <3>2
  <2>3. CASE i - Len(shown) \in DOMAIN out /\ shown'[i] = out[i - Len(shown)]
    BY <1>5, <2>3
  <2>4. CASE i = Len(shown) + Len(out) + 1 /\ shown'[i] = NativeFrame(next)
    BY <1>1, <1>7, <2>4
  <2>5. QED
    BY <2>1, <2>2, <2>3, <2>4
<1>10. ASSUME Shows(shown, out, NativeFrame(next), shown'),
             NEW i \in DOMAIN shown', NEW j \in DOMAIN shown', shown'[i].at = shown'[j].at
       PROVE  i = j
  <2>1. i \in Int /\ j \in Int
    BY <1>10 DEF Shows
  <2>2. CASE i \in DOMAIN shown /\ j \in DOMAIN shown /\ shown[i].at = shown[j].at
    BY <1>4, <2>2
  <2>3. CASE /\ i - Len(shown) \in DOMAIN out /\ j - Len(shown) \in DOMAIN out
             /\ out[i - Len(shown)].at = out[j - Len(shown)].at
    <3>1. i - Len(shown) = j - Len(shown)
      BY <1>6, <2>3
    <3>2. QED
      BY <1>3, <2>1, <3>1
  <2>4. CASE i = Len(shown) + Len(out) + 1 /\ j = Len(shown) + Len(out) + 1
    BY <2>4
  <2>5. QED
    BY <1>9, <1>10, <2>2, <2>3, <2>4
<1>11. QED
  BY <1>2, <1>8, <1>9, <1>10

(* Every step keeps that what was shown has been passed or claimed.        *)
LEMMA NextShownOK == IType /\ CacheOK /\ ShownOK /\ [Next]_vars => ShownOK'
<1> SUFFICES ASSUME IType, CacheOK, ShownOK, [Next]_vars, walking',
                    disturbed' \subseteq {"unread", "thrown"}
             PROVE  /\ \A i \in DOMAIN shown' : /\ (shown[i].at \in 1 .. Top)'
                                                 /\ Passed(ActiveThreads, next, shown[i].at)'
                    /\ \A i, j \in DOMAIN shown' : shown'[i].at = shown'[j].at => i = j
  BY DEF ShownOK
<1> DEFINE InOrder == /\ \A i \in DOMAIN shown' :
                           /\ shown'[i].at \in 1 .. Top
                           /\ Passed(ActiveThreads', next', shown'[i].at)
                      /\ \A i, j \in DOMAIN shown' : shown'[i].at = shown'[j].at => i = j
<1>1. CASE UNCHANGED stack /\ InOrder
  BY <1>1 DEF Passed, ClaimedAbove, Kind, Top
<1>2. process = "running" => ~walking
  BY DEF IType, TypeOK
<1>3. CASE Debuggee \/ Stop
  BY <1>2, <1>3 DEF Debuggee, Stop, sq_call, Enter, TraceRoutine, Push, Return, RuntimeCreated,
                    InitalizeDebugHelper, walk
<1>4. CASE StartWalk
  <2>1. UNCHANGED stack /\ DOMAIN shown' = {}
    BY <1>4, EmptySeq DEF StartWalk, debuggee
  <2>2. QED
    BY <1>1, <2>1
<1>5. CASE Continue \/ FilterEndOfStack
  BY <1>5 DEF Continue, FilterEndOfStack
<1>6. CASE OtherThreadEndOfStack
  BY <1>6 DEF OtherThreadEndOfStack
<1>7. ASSUME NEW evaluated \in BOOLEAN, FilterNextFrame(evaluated)
      PROVE  UNCHANGED stack /\ InOrder
  BY <1>7, FilterShown, FilterStep DEF debuggee
<1>8. CASE UNCHANGED vars
  <2>1. UNCHANGED stack /\ UNCHANGED shown /\ UNCHANGED ActiveThreads /\ UNCHANGED next
        /\ UNCHANGED walking /\ UNCHANGED disturbed
    BY <1>8 DEF vars, debuggee, walk
  <2>2. InOrder
    BY <2>1 DEF ShownOK
  <2>3. QED
    BY <1>1, <2>1, <2>2
<1>9. QED
  BY <1>1, <1>3, <1>4, <1>5, <1>6, <1>7, <1>8 DEF Next

(* No activation of the debuggee is shown twice in a walk, whichever       *)
(* arguments of its sq_calls can be read and wherever the filter throws.   *)
THEOREM NothingShownTwice == Spec => []NothingTwice
<1>1. Init => IType /\ CacheOK /\ ShownOK
  <2>1. Init => CacheOK /\ ShownOK
    BY DEF Init, CacheOK, ShownOK
  <2>2. QED
    BY <2>1, InitIType
<1>2. Spec => [](IType /\ CacheOK /\ ShownOK)
  BY <1>1, NextIType, NextCacheOK, NextShownOK, PTL DEF Spec
<1>3. ShownOK => NothingTwice
  BY DEF ShownOK, NothingTwice
<1>4. QED
  BY <1>2, <1>3, PTL

-----------------------------------------------------------------------------
(* Which sq_call runs an activation.                                       *)

(* Every activation has an sq_call that runs it.                           *)
LEMMA OwnerIs ==
  ASSUME StackOK, NEW k \in 1 .. Top
  PROVE  /\ Owner(k) \in 1 .. k
         /\ Kind(Owner(k)) = "sq_call"
         /\ \A i \in Owner(k) + 1 .. k : Kind(i) # "sq_call"
<1> DEFINE S == {j \in 1 .. k : Kind(j) = "sq_call"}
<1>1. Top \in Nat
  BY StackFacts
<1>2. 1 \in S
  BY <1>1 DEF StackOK, Follows
<1>3. S \in SUBSET (0 .. k) /\ k \in Nat
  BY <1>1
<1> HIDE DEF S
<1>4. PICK o \in S : \A j \in S : j <= o
  BY <1>2, <1>3, GreatestElement
<1>5. o \in 1 .. k /\ Kind(o) = "sq_call"
  BY <1>4 DEF S
<1>6. ASSUME NEW i \in o + 1 .. k
      PROVE  Kind(i) # "sq_call"
  <2>1. i \in 1 .. k /\ ~(i <= o)
    BY <1>1, <1>5
  <2>2. QED
    BY <1>4, <2>1 DEF S
<1>7. QED
  BY <1>5, <1>6 DEF Owner

(* That sq_call is the newest one up to the activation.                    *)
LEMMA OwnerUnique ==
  ASSUME StackOK, NEW k \in 1 .. Top, NEW p \in 1 .. k, Kind(p) = "sq_call",
         \A i \in p + 1 .. k : Kind(i) # "sq_call"
  PROVE  Owner(k) = p
<1> DEFINE o == Owner(k)
<1>1. Top \in Nat
  BY StackFacts
<1>2. o \in 1 .. k /\ Kind(o) = "sq_call" /\ \A i \in o + 1 .. k : Kind(i) # "sq_call"
  BY OwnerIs
<1> HIDE DEF o
<1>3. ~(o < p) /\ ~(p < o)
  BY <1>1, <1>2
<1>4. QED
  BY <1>1, <1>2, <1>3 DEF o

(* Older activations are run by older sq_calls.                            *)
LEMMA OwnerMonotone ==
  ASSUME StackOK, NEW j \in 1 .. Top, NEW k \in 1 .. Top, j <= k
  PROVE  Owner(j) <= Owner(k)
<1> DEFINE a == Owner(j)
           b == Owner(k)
<1>1. Top \in Nat
  BY StackFacts
<1>2. a \in 1 .. j /\ Kind(a) = "sq_call"
  BY OwnerIs
<1>3. b \in 1 .. k /\ \A i \in b + 1 .. k : Kind(i) # "sq_call"
  BY OwnerIs
<1> HIDE DEF a, b
<1>4. ~(b < a)
  BY <1>1, <1>2, <1>3
<1>5. QED
  BY <1>1, <1>2, <1>3, <1>4 DEF a, b

(* All an sq_call runs, down to the next one, is in its VM.                *)
LEMMA OwnerVM ==
  ASSUME StackOK, NEW k \in 1 .. Top
  PROVE  Owner(k) \in Calls(stack[k].vm)
<1> DEFINE o == Owner(k)
<1>1. Top \in Nat
  BY StackFacts
<1>2. o \in 1 .. k /\ Kind(o) = "sq_call" /\ \A i \in o + 1 .. k : Kind(i) # "sq_call"
  BY OwnerIs
<1> HIDE DEF o
<1> DEFINE S == {n \in 0 .. k - o : stack[o + n].vm = stack[o].vm}
<1>3. 0 \in S /\ k - o \in Nat
  BY <1>1, <1>2
<1>4. ASSUME NEW n \in 0 .. k - o, n \in S, n < k - o
      PROVE  n + 1 \in S
  <2> DEFINE i == o + n + 1
  <2>1. i \in o + 1 .. k /\ i \in 1 .. Top /\ i - 1 = o + n /\ i = o + (n + 1)
    BY <1>1, <1>2, <1>4
  <2> HIDE DEF i
  <2>2. Kind(i) \in {"script", "native", "hook"}
    BY <1>2, <2>1, StackFacts DEF Kinds
  <2>3. stack[i - 1].vm = stack[i].vm
    BY <2>1, <2>2 DEF StackOK, Follows
  <2>4. n + 1 \in 0 .. k - o
    BY <1>1, <1>2, <1>4
  <2>5. QED
    BY <1>4, <2>1, <2>3, <2>4
<1> HIDE DEF S
<1>5. 0 .. k - o \subseteq S
  BY <1>3, <1>4, InductiveUpTo
<1>6. stack[o].vm = stack[k].vm
  <2>1. k - o \in S /\ o + (k - o) = k
    BY <1>1, <1>2, <1>3, <1>5
  <2>2. QED
    BY <2>1 DEF S
<1>7. stack[o] \in Activation /\ o \in 1 .. Top
  BY <1>1, <1>2, StackFacts
<1>8. stack[o] = [kind |-> "sq_call", vm |-> stack[k].vm]
  BY <1>2, <1>6, <1>7 DEF Activation, Kind
<1>9. QED
  BY <1>7, <1>8 DEF Calls, o

(* An sq_call runs itself.                                                 *)
LEMMA CallsAre ==
  ASSUME StackOK, NEW vm, NEW p \in Calls(vm)
  PROVE  /\ p \in 1 .. Top /\ Kind(p) = "sq_call" /\ stack[p].vm = vm
         /\ Owner(p) = p
<1>1. p \in 1 .. Top /\ Kind(p) = "sq_call" /\ stack[p].vm = vm /\ Top \in Nat
  BY StackFacts DEF Calls, Kind
<1>2. p \in 1 .. p /\ \A i \in p + 1 .. p : Kind(i) # "sq_call"
  BY <1>1
<1>3. QED
  BY <1>1, <1>2, OwnerUnique

(* A native closure or the hook is the newest activation of its sq_call.   *)
LEMMA NativeEndsGroup ==
  ASSUME StackOK, NEW j \in 1 .. Top, NEW k \in 1 .. Top, j < k,
         Kind(j) \in {"native", "hook"}
  PROVE  j < Owner(k) /\ Owner(j) < Owner(k)
<1>1. PICK i \in 1 .. k : i = j + 1
  BY StackFacts
<1>2. i \in 1 .. Top /\ i > 1 /\ i - 1 = j /\ Top \in Nat
  BY <1>1, StackFacts
<1>3. Kind(i) = "sq_call"
  <2>1. Kind(i) \in {"sq_call", "script", "native", "hook"}
    BY <1>2, StackFacts DEF Kinds
  <2>2. Follows(i) /\ Follows(j)
    BY <1>2 DEF StackOK
  <2>3. QED
    BY <1>2, <2>1, <2>2 DEF Follows
<1> DEFINE b == Owner(k)
           a == Owner(j)
<1>4. b \in 1 .. k /\ \A n \in b + 1 .. k : Kind(n) # "sq_call"
  BY OwnerIs
<1>5. a \in 1 .. j
  BY OwnerIs
<1> HIDE DEF a, b
<1>6. ~(b < i)
  BY <1>1, <1>2, <1>3, <1>4
<1>7. QED
  BY <1>2, <1>4, <1>5, <1>6 DEF a, b

(* The newest activation of any sq_call but the last is a native closure.  *)
LEMMA GroupHasNative ==
  ASSUME StackOK, NEW k \in 1 .. Top, NEW q \in 1 .. Top,
         Kind(q) = "sq_call", Owner(k) < q
  PROVE  \E j \in k .. Top : Kind(j) = "native" /\ Owner(j) = Owner(k)
<1> DEFINE p == Owner(k)
           S == {i \in 1 .. Top : Kind(i) = "sq_call" /\ p < i}
<1>1. Top \in Nat
  BY StackFacts
<1>2. p \in 1 .. k /\ Kind(p) = "sq_call"
  BY OwnerIs
<1>3. q \in S /\ S \in SUBSET Nat
  BY <1>1
<1> HIDE DEF S
<1>4. PICK n \in S : \A i \in S : n <= i
  BY <1>3, LeastElement
<1> HIDE DEF p
<1>5. n \in 1 .. Top /\ Kind(n) = "sq_call" /\ p < n
  BY <1>4 DEF S
<1>6. PICK j \in 1 .. Top : j = n - 1
  BY <1>1, <1>2, <1>5
<1>7. Kind(j) = "native"
  BY <1>1, <1>2, <1>5, <1>6 DEF StackOK, Follows
<1>8. ASSUME NEW i \in 1 .. Top, p < i, i < n
      PROVE  Kind(i) # "sq_call"
  BY <1>1, <1>4, <1>5, <1>8 DEF S
<1>9. Owner(j) = p
  <2>1. p \in 1 .. j /\ \A i \in p + 1 .. j : Kind(i) # "sq_call"
    BY <1>1, <1>2, <1>5, <1>6, <1>8
  <2>2. QED
    BY <1>2, <2>1, OwnerUnique
<1>10. k <= j
  <2>1. ASSUME n <= k
        PROVE  FALSE
    <3>1. \A i \in p + 1 .. k : Kind(i) # "sq_call"
      BY OwnerIs DEF p
    <3>2. n \in p + 1 .. k
      BY <1>1, <1>2, <1>5, <2>1
    <3>3. QED
      BY <1>5, <3>1, <3>2
  <2>2. QED
    BY <1>1, <1>5, <1>6, <2>1
<1>11. QED
  BY <1>1, <1>7, <1>9, <1>10 DEF p

(* What one sq_call runs belongs to one VM.                                *)
LEMMA SameOwnerVM ==
  ASSUME StackOK, NEW j \in 1 .. Top, NEW k \in 1 .. Top, Owner(j) = Owner(k)
  PROVE  stack[j].vm = stack[k].vm
<1>1. Owner(j) \in Calls(stack[j].vm) /\ Owner(j) \in Calls(stack[k].vm)
  BY OwnerVM
<1>2. QED
  BY <1>1, CallsAre

-----------------------------------------------------------------------------
(* Which sq_call gets the frame of an activation.                          *)

(* The two cases of the claimant, without the choice.                      *)
LEMMA ClaimantIs ==
  ASSUME StackOK, NEW vm, NEW k \in 1 .. Top, stack[k].vm = vm
  PROVE  /\ Owner(k) \in Calls(vm)
         /\ ~Shifted(vm) => Claimant(k) = Owner(k)
         /\ Newer(vm, k) = {} => Claimant(k) = Owner(k)
         /\ Shifted(vm) /\ Newer(vm, k) # {} =>
              /\ Claimant(k) \in Calls(vm) /\ Claimant(k) > Owner(k)
              /\ \A i \in Calls(vm) : i > Owner(k) => Claimant(k) <= i
<1>1. Owner(k) \in Calls(vm)
  BY OwnerVM
<1>2. ASSUME Shifted(vm), Newer(vm, k) # {}
      PROVE  /\ Claimant(k) \in Calls(vm) /\ Claimant(k) > Owner(k)
             /\ \A i \in Calls(vm) : i > Owner(k) => Claimant(k) <= i
  <2> DEFINE S == Newer(vm, k)
  <2>1. S \in SUBSET Nat
    BY StackFacts DEF Newer, Calls
  <2>2. Claimant(k) = CHOOSE j \in S : \A i \in S : j <= i
    BY <1>2 DEF Claimant
  <2>3. S # {}
    BY <1>2
  <2> HIDE DEF S
  <2>4. \E x \in S : \A y \in S : x <= y
    BY <2>1, <2>3, LeastElement
  <2>5. Claimant(k) \in S /\ \A i \in S : Claimant(k) <= i
    BY <2>2, <2>4
  <2>6. QED
    BY <2>5 DEF S, Newer
<1>3. QED
  BY <1>1, <1>2 DEF Claimant

(* In a shifted VM the newest sq_call is also the newest of the stack.     *)
LEMMA NewestCall ==
  ASSUME StackOK, NEW vm, Shifted(vm)
  PROVE  /\ Top \in 1 .. Top
         /\ Owner(Top) \in Calls(vm)
         /\ \A i \in Calls(vm) : i <= Owner(Top)
         /\ Kind(Top) \notin {"native", "hook"}
         /\ \A k \in 1 .. Top : stack[k].vm = vm /\ Newer(vm, k) = {} => Owner(k) = Owner(Top)
<1>1. Top \in 1 .. Top /\ stack[Top].vm = vm /\ Kind(Top) \in {"script", "sq_call"}
  BY StackFacts DEF Shifted, TopKind
<1>2. Owner(Top) \in Calls(vm)
  BY <1>1, OwnerVM
<1>3. ASSUME NEW i \in Calls(vm)
      PROVE  i <= Owner(Top)
  <2>1. i \in 1 .. Top /\ Owner(i) = i
    BY CallsAre
  <2>2. QED
    BY <1>1, <2>1, OwnerMonotone
<1>4. ASSUME NEW k \in 1 .. Top, stack[k].vm = vm, Newer(vm, k) = {}
      PROVE  Owner(k) = Owner(Top)
  <2>1. Owner(k) \in Calls(vm)
    BY <1>4, OwnerVM
  <2>2. ~(Owner(Top) > Owner(k)) /\ Owner(k) <= Owner(Top)
    BY <1>2, <1>3, <1>4, <2>1 DEF Newer
  <2>3. Owner(k) \in Int /\ Owner(Top) \in Int
    BY <1>2, <2>1, CallsAre
  <2>4. QED
    BY <2>2, <2>3
<1>5. QED
  BY <1>1, <1>2, <1>3, <1>4

(* The claimant is an sq_call of the same VM.                              *)
LEMMA ClaimantIsCall ==
  ASSUME StackOK, NEW vm, NEW k \in 1 .. Top, stack[k].vm = vm
  PROVE  /\ Claimant(k) \in Calls(vm) /\ Claimant(k) \in 1 .. Top
         /\ Kind(Claimant(k)) = "sq_call" /\ stack[Claimant(k)].vm = vm
<1>1. Claimant(k) \in Calls(vm)
  BY ClaimantIs
<1>2. QED
  BY <1>1, CallsAre

(* Older frames of a VM are claimed by older sq_calls.                     *)
LEMMA ClaimantMonotone ==
  ASSUME StackOK, NEW vm, NEW j \in 1 .. Top, NEW k \in 1 .. Top,
         stack[j].vm = vm, stack[k].vm = vm, j <= k
  PROVE  Claimant(j) <= Claimant(k)
<1>1. Owner(j) <= Owner(k)
  BY OwnerMonotone
<1>2. /\ Owner(j) \in Calls(vm) /\ Owner(k) \in Calls(vm)
      /\ Owner(j) \in Int /\ Owner(k) \in Int
  BY ClaimantIs, CallsAre
<1>3. Claimant(j) \in Calls(vm) /\ Claimant(k) \in Calls(vm)
  BY ClaimantIsCall
<1>4. CASE ~Shifted(vm)
  BY <1>1, <1>4, ClaimantIs
<1>5. CASE Shifted(vm) /\ Newer(vm, k) = {}
  <2>1. Claimant(k) = Owner(Top)
    BY <1>5, ClaimantIs, NewestCall
  <2>2. QED
    BY <1>3, <1>5, <2>1, NewestCall
<1>6. CASE Shifted(vm) /\ Newer(vm, k) # {}
  <2>1. Claimant(k) > Owner(k)
    BY <1>6, ClaimantIs
  <2>2. Claimant(k) \in Int
    BY <1>3, CallsAre
  <2>3. Claimant(k) > Owner(j)
    BY <1>1, <1>2, <2>1, <2>2
  <2>4. Newer(vm, j) # {}
    BY <1>3, <2>3 DEF Newer
  <2>5. QED
    BY <1>3, <1>6, <2>3, <2>4, ClaimantIs
<1>7. QED
  BY <1>4, <1>5, <1>6

(* What one sq_call runs goes to one claimant.                             *)
LEMMA SameOwnerClaimant ==
  ASSUME StackOK, NEW j \in 1 .. Top, NEW k \in 1 .. Top, Owner(j) = Owner(k)
  PROVE  Claimant(j) = Claimant(k)
<1>1. stack[j].vm = stack[k].vm
  BY SameOwnerVM
<1>2. QED
  BY <1>1 DEF Claimant, Newer

(* The newest frame of what a sq_call gets is a native closure, except for *)
(* the newest sq_call of the VM.                                           *)
LEMMA ClaimStartsNative ==
  ASSUME StackOK, NEW vm, NEW k \in 1 .. Top, InVM(vm, k), Kind(k) # "native",
         NEW p \in Calls(vm), Claimant(k) < p
  PROVE  \E j \in 1 .. Top : /\ j > k /\ InVM(vm, j) /\ Kind(j) = "native"
                             /\ Claimant(j) = Claimant(k)
<1>1. stack[k].vm = vm /\ Top \in Nat
  BY StackFacts DEF InVM
<1>2. /\ Owner(k) \in Calls(vm) /\ Owner(k) \in 1 .. Top
      /\ Claimant(k) \in Calls(vm) /\ Claimant(k) \in 1 .. Top
      /\ p \in 1 .. Top /\ Kind(p) = "sq_call"
  BY <1>1, ClaimantIs, ClaimantIsCall, CallsAre
<1>3. Owner(k) < p
  <2>1. CASE Claimant(k) = Owner(k)
    BY <2>1
  <2>2. CASE Shifted(vm) /\ Newer(vm, k) # {}
    <3>1. Claimant(k) > Owner(k)
      BY <1>1, <2>2, ClaimantIs
    <3>2. QED
      BY <1>2, <3>1
  <2>3. QED
    BY <1>1, <2>1, <2>2, ClaimantIs
<1>4. PICK j \in k .. Top : Kind(j) = "native" /\ Owner(j) = Owner(k)
  BY <1>2, <1>3, GroupHasNative
<1>5. j \in 1 .. Top /\ j > k
  BY <1>1, <1>4
<1>6. Claimant(j) = Claimant(k) /\ stack[j].vm = vm
  BY <1>1, <1>4, <1>5, SameOwnerClaimant, SameOwnerVM
<1>7. QED
  BY <1>4, <1>5, <1>6 DEF InVM, Squirrel

(* A sq_call that is not the last to claim finds a native closure or the   *)
(* hook among its own.                                                     *)
LEMMA ClaimHasNative ==
  ASSUME StackOK, NEW vm, NEW k \in 1 .. Top, stack[k].vm = vm,
         NEW p \in Calls(vm), Claimant(k) < p
  PROVE  \E j \in 1 .. Top : /\ InVM(vm, j) /\ Kind(j) \in {"native", "hook"}
                             /\ Claimant(j) = p
<1>1. Top \in Nat /\ p \in 1 .. Top /\ Kind(p) = "sq_call" /\ stack[p].vm = vm /\ Owner(p) = p
  BY StackFacts, CallsAre
<1>2. CASE ~Shifted(vm) /\ \E q \in 1 .. Top : Kind(q) = "sq_call" /\ p < q
  <2>1. PICK j \in p .. Top : Kind(j) = "native" /\ Owner(j) = p
    BY <1>1, <1>2, GroupHasNative
  <2>2. j \in 1 .. Top /\ stack[j].vm = vm
    BY <1>1, <2>1, SameOwnerVM
  <2>3. Claimant(j) = p
    BY <1>2, <2>1, <2>2, ClaimantIs
  <2>4. QED
    BY <2>1, <2>2, <2>3 DEF InVM, Squirrel
<1>3. CASE ~Shifted(vm) /\ ~\E q \in 1 .. Top : Kind(q) = "sq_call" /\ p < q
  <2>1. Top \in 1 .. Top /\ Owner(Top) = p
    <3>1. \A i \in p + 1 .. Top : Kind(i) # "sq_call"
      BY <1>1, <1>3
    <3>2. Top \in 1 .. Top /\ p \in 1 .. Top
      BY <1>1
    <3>3. QED
      BY <1>1, <3>1, <3>2, OwnerUnique
  <2>2. stack[Top].vm = vm /\ Claimant(Top) = p
    BY <1>1, <1>3, <2>1, SameOwnerVM, ClaimantIs
  <2>3. Kind(Top) \in {"native", "hook"}
    <3>1. TopKind = Kind(Top) /\ Kind(Top) \in Kinds
      BY <2>1, StackFacts DEF TopKind
    <3>2. Kind(Top) \notin {"script", "sq_call"}
      BY <1>3, <2>2, <3>1 DEF Shifted
    <3>3. QED
      BY <3>1, <3>2 DEF Kinds
  <2>4. QED
    BY <2>1, <2>2, <2>3 DEF InVM, Squirrel
<1>4. CASE Shifted(vm)
  <2> DEFINE S == {i \in Calls(vm) : i < p}
  <2>1. Claimant(k) \in S
    BY ClaimantIsCall
  <2>2. S \in SUBSET (0 .. Top)
    BY <1>1 DEF Calls
  <2> HIDE DEF S
  <2>3. PICK q \in S : \A i \in S : i <= q
    BY <1>1, <2>1, <2>2, GreatestElement
  <2>4. q \in Calls(vm) /\ q < p /\ q \in 1 .. Top /\ Owner(q) = q /\ stack[q].vm = vm
    BY <2>3, CallsAre DEF S
  <2>5. PICK j \in q .. Top : Kind(j) = "native" /\ Owner(j) = q
    BY <1>1, <2>4, GroupHasNative
  <2>6. j \in 1 .. Top /\ stack[j].vm = vm
    BY <1>1, <2>4, <2>5, SameOwnerVM
  <2>7. p \in Newer(vm, j)
    BY <2>4, <2>5 DEF Newer
  <2>8. /\ Claimant(j) \in Calls(vm) /\ Claimant(j) > q /\ Claimant(j) <= p
        /\ Claimant(j) \in 1 .. Top
    BY <1>4, <2>4, <2>5, <2>6, <2>7, ClaimantIs, ClaimantIsCall
  <2>9. ~(Claimant(j) < p)
    BY <1>1, <2>3, <2>4, <2>8 DEF S
  <2>10. Claimant(j) = p
    BY <1>1, <2>8, <2>9
  <2>11. QED
    BY <2>5, <2>6, <2>10 DEF InVM, Squirrel
<1>5. QED
  BY <1>2, <1>3, <1>4

(* And no more than one.                                                   *)
LEMMA ClaimHasOneNative ==
  ASSUME StackOK, NEW vm, NEW j \in 1 .. Top, NEW k \in 1 .. Top, j < k,
         stack[j].vm = vm, stack[k].vm = vm,
         Kind(j) \in {"native", "hook"}, Kind(k) \in {"native", "hook"}
  PROVE  Claimant(j) < Claimant(k)
<1>1. Owner(j) < Owner(k) /\ Owner(k) \in Calls(vm) /\ Owner(k) \in 1 .. Top /\ Owner(j) \in 1 .. Top
  BY NativeEndsGroup, ClaimantIs, CallsAre
<1>2. CASE ~Shifted(vm)
  BY <1>1, <1>2, ClaimantIs
<1>3. CASE Shifted(vm)
  <2>1. Owner(k) \in Newer(vm, j)
    BY <1>1 DEF Newer
  <2>2. Claimant(j) <= Owner(k)
    BY <1>1, <1>3, <2>1, ClaimantIs
  <2>3. Top \in 1 .. Top /\ k # Top
    BY <1>3, NewestCall
  <2>4. Owner(k) < Owner(Top)
    BY <2>3, NativeEndsGroup, StackFacts
  <2>5. Owner(Top) \in Newer(vm, k)
    BY <1>3, <2>4, NewestCall DEF Newer
  <2>6. Claimant(k) > Owner(k)
    BY <1>3, <2>5, ClaimantIs
  <2>7. Claimant(j) \in 1 .. Top /\ Claimant(k) \in 1 .. Top
    BY ClaimantIsCall
  <2>8. QED
    BY <1>1, <2>2, <2>6, <2>7
<1>4. QED
  BY <1>2, <1>3

(* The function the hook stopped in goes with the hook.                    *)
LEMMA HookedClaimant ==
  ASSUME StackOK, TopKind = "hook"
  PROVE  /\ Top \in 1 .. Top /\ Top - 1 \in 1 .. Top /\ Kind(Top) = "hook"
         /\ Kind(Top - 1) = "script"
         /\ stack[Top - 1].vm = stack[Top].vm /\ Claimant(Top - 1) = Claimant(Top)
<1>1. Top \in 1 .. Top /\ Kind(Top) = "hook"
  BY StackFacts DEF TopKind
<1>2. Top # 1 /\ Kind(Top - 1) = "script" /\ stack[Top - 1].vm = stack[Top].vm
  BY <1>1 DEF StackOK, Follows
<1>3. PICK j \in 1 .. Top : j = Top - 1
  BY <1>1, <1>2
<1>4. Owner(Top) = Owner(j)
  <2> DEFINE o == Owner(j)
  <2>1. o \in 1 .. j /\ Kind(o) = "sq_call" /\ \A i \in o + 1 .. j : Kind(i) # "sq_call"
    BY OwnerIs
  <2> HIDE DEF o
  <2>2. o \in 1 .. Top /\ \A i \in o + 1 .. Top : Kind(i) # "sq_call"
    BY <1>1, <1>3, <2>1
  <2>3. Owner(Top) = o
    BY <1>1, <2>1, <2>2, OwnerUnique
  <2>4. QED
    BY <2>3 DEF o
<1>5. Claimant(j) = Claimant(Top)
  BY <1>1, <1>4, SameOwnerClaimant
<1>6. QED
  BY <1>1, <1>2, <1>3, <1>5

-----------------------------------------------------------------------------
(* The loop on a list of the present stack: a sq_call gets the frames of   *)
(* which it is the claimant, and no others.                                *)

(* What a sq_call at p finds.                                              *)
Mergeable(vm, p, frames) ==
  /\ vm \in VMs /\ p \in Calls(vm)
  /\ frames \in Seq(FetchedFrame)
  /\ ListOf(frames, vm, Top)
  /\ Claimed(frames, p)

ClaimedBy(frames, x) == Claimant(frames[x].at)
Ends(frames, x) == frames[x].kind \in {"native", "hook"}
ShownFor(frames, p, x) ==
  ClaimedBy(frames, x) = p /\ frames[x].kind = "script" /\ Visible(frames[x].at)
Pending(frames, p, i) == i = 1 /\ frames[1].kind = "hook" /\ ClaimedBy(frames, 1) = p

(* The state of the loop after i frames.                                   *)
MergeLoop(p, frames, acc, i) ==
  /\ Len(acc.list) = i
  /\ \A x \in 1 .. i :
       acc.list[x] = IF ClaimedBy(frames, x) = p THEN Mine(p, frames[x]) ELSE frames[x]
  /\ acc.done => \E x \in 1 .. i : ClaimedBy(frames, x) < p
  /\ \A x \in 1 .. i : ClaimedBy(frames, x) < p /\ frames[x].ParentFrameBase = 0 => acc.done
  /\ (acc.HitHelperHook \/ acc.HitNativeClosure)
       <=> \E x \in 1 .. i : ClaimedBy(frames, x) = p /\ Ends(frames, x)
  /\ acc.SkipNextFrame <=> Pending(frames, p, i) /\ LastType = "r"
  /\ acc.ForcedLine <=> Pending(frames, p, i) /\ LastType # "r"
  /\ \A y \in 1 .. Len(acc.out) :
       \E x \in 1 .. i : ShownFor(frames, p, x) /\ acc.out[y] = Expected(frames[x].at)
  /\ \A x \in 1 .. i : ShownFor(frames, p, x) =>
       \E y \in 1 .. Len(acc.out) : acc.out[y] = Expected(frames[x].at)

(* Order and claimants in a complete list.                                 *)
LEMMA ListClaims ==
  ASSUME StackOK, NEW vm, NEW frames \in Seq(FetchedFrame), ListOf(frames, vm, Top)
  PROVE  /\ \A x \in 1 .. Len(frames) :
              /\ frames[x].at \in 1 .. Top /\ stack[frames[x].at].vm = vm
              /\ frames[x].kind = Kind(frames[x].at) /\ frames[x].kind \in Squirrel
              /\ ClaimedBy(frames, x) \in Calls(vm) /\ ClaimedBy(frames, x) \in 1 .. Top
         /\ \A j \in 1 .. Top : InVM(vm, j) => \E x \in 1 .. Len(frames) : frames[x].at = j
         /\ \A x, y \in 1 .. Len(frames) :
              /\ x < y => frames[x].at > frames[y].at
              /\ x < y => ClaimedBy(frames, y) <= ClaimedBy(frames, x)
              /\ frames[x].at > frames[y].at => x < y
              /\ ClaimedBy(frames, y) < ClaimedBy(frames, x) => x < y
              /\ frames[x].at = frames[y].at => x = y
<1>1. DOMAIN frames = 1 .. Len(frames) /\ Len(frames) \in Nat /\ Top \in Nat
  BY LenProperties, StackFacts
<1>2. ASSUME NEW x \in 1 .. Len(frames)
      PROVE  /\ frames[x].at \in 1 .. Top /\ stack[frames[x].at].vm = vm
             /\ frames[x].kind = Kind(frames[x].at) /\ frames[x].kind \in Squirrel
             /\ ClaimedBy(frames, x) \in Calls(vm) /\ ClaimedBy(frames, x) \in 1 .. Top
  <2>1. /\ frames[x].at \in 1 .. Top /\ stack[frames[x].at].vm = vm
        /\ frames[x].kind = Kind(frames[x].at) /\ frames[x].kind \in Squirrel
    BY <1>1 DEF ListOf, Listed, InVM
  <2>2. QED
    BY <2>1, ClaimantIsCall DEF ClaimedBy
<1>3. \A j \in 1 .. Top : InVM(vm, j) => \E x \in 1 .. Len(frames) : frames[x].at = j
  BY <1>1 DEF ListOf, Listed
<1>4. \A x, y \in 1 .. Len(frames) : x < y => frames[x].at > frames[y].at
  BY <1>1 DEF ListOf, NewestFirst
<1>5. ASSUME NEW x \in 1 .. Len(frames), NEW y \in 1 .. Len(frames), frames[y].at <= frames[x].at
      PROVE  ClaimedBy(frames, y) <= ClaimedBy(frames, x)
  BY <1>2, <1>5, ClaimantMonotone DEF ClaimedBy
<1>6. ASSUME NEW x \in 1 .. Len(frames), NEW y \in 1 .. Len(frames)
      PROVE  /\ x < y => frames[x].at > frames[y].at
             /\ x < y => ClaimedBy(frames, y) <= ClaimedBy(frames, x)
             /\ frames[x].at > frames[y].at => x < y
             /\ ClaimedBy(frames, y) < ClaimedBy(frames, x) => x < y
             /\ frames[x].at = frames[y].at => x = y
  <2>1. x \in Int /\ y \in Int /\ frames[x].at \in Int /\ frames[y].at \in Int
        /\ ClaimedBy(frames, x) \in Int /\ ClaimedBy(frames, y) \in Int
    BY <1>1, <1>2
  <2>2. x < y => frames[x].at > frames[y].at
    BY <1>4
  <2>3. y < x => frames[y].at > frames[x].at
    BY <1>4
  <2>4. frames[y].at <= frames[x].at => ClaimedBy(frames, y) <= ClaimedBy(frames, x)
    BY <1>5
  <2>5. frames[x].at <= frames[y].at => ClaimedBy(frames, x) <= ClaimedBy(frames, y)
    BY <1>5
  <2>6. x = y => frames[x].at = frames[y].at
    OBVIOUS
  <2>7. QED
    BY <2>1, <2>2, <2>3, <2>4, <2>5, <2>6
<1>7. QED
  BY <1>2, <1>3, <1>6

(* Its own frames come before it is done, with its base or none, and there *)
(* is one that is not a script among them.                                 *)
LEMMA OwnFrames ==
  ASSUME StackOK, NEW vm, NEW p, NEW frames, Mergeable(vm, p, frames),
         NEW i \in 0 .. Len(frames), i < Len(frames),
         NEW acc, MergeLoop(p, frames, acc, i), ClaimedBy(frames, i + 1) = p
  PROVE  /\ ~Left(p, acc, frames[i + 1])
         /\ Ends(frames, i + 1) => ~(acc.HitHelperHook \/ acc.HitNativeClosure)
<1>1. PICK n \in 1 .. Len(frames) : n = i + 1
  BY LenProperties DEF Mergeable
<1>2. \A x \in 1 .. i : x \in 1 .. Len(frames) /\ x < n /\ n \in Int /\ x \in Int
  BY <1>1, LenProperties DEF Mergeable
<1>3. p \in 1 .. Top /\ ClaimedBy(frames, n) = p
  BY <1>1, CallsAre DEF Mergeable
<1>4. ~acc.done
  <2>1. ASSUME NEW x \in 1 .. i, ClaimedBy(frames, x) < p
        PROVE  FALSE
    <3>1. ClaimedBy(frames, n) <= ClaimedBy(frames, x)
      BY <1>2, ListClaims DEF Mergeable
    <3>2. ClaimedBy(frames, x) \in 1 .. Top
      BY <1>2, ListClaims DEF Mergeable
    <3>3. QED
      BY <1>3, <2>1, <3>1, <3>2
  <2>2. QED
    BY <2>1 DEF MergeLoop
<1>5. frames[n].ParentFrameBase \in {0, p}
  BY <1>1, <1>3, LenProperties DEF Mergeable, Claimed, ClaimedBy
<1>6. ASSUME Ends(frames, n), NEW x \in 1 .. i, ClaimedBy(frames, x) = p, Ends(frames, x)
      PROVE  FALSE
  <2>1. /\ frames[x].at \in 1 .. Top /\ frames[n].at \in 1 .. Top
        /\ stack[frames[x].at].vm = vm /\ stack[frames[n].at].vm = vm
        /\ frames[n].at < frames[x].at
        /\ frames[x].kind = Kind(frames[x].at) /\ frames[n].kind = Kind(frames[n].at)
    BY <1>2, ListClaims DEF Mergeable
  <2>2. ClaimedBy(frames, n) < ClaimedBy(frames, x)
    BY <1>6, <2>1, ClaimHasOneNative DEF ClaimedBy, Ends
  <2>3. QED
    BY <1>3, <1>6, <2>2
<1>7. QED
  BY <1>1, <1>4, <1>5, <1>6 DEF Left, MergeLoop

(* The first frame of another that nobody has claimed is a native closure, *)
(* and its own native closure or hook has been met.                        *)
LEMMA ForeignFrame ==
  ASSUME StackOK, NEW vm, NEW p, NEW frames, Mergeable(vm, p, frames),
         NEW i \in 0 .. Len(frames), i < Len(frames),
         NEW acc, MergeLoop(p, frames, acc, i),
         ClaimedBy(frames, i + 1) < p, frames[i + 1].ParentFrameBase = 0, ~acc.done
  PROVE  frames[i + 1].kind = "native" /\ (acc.HitHelperHook \/ acc.HitNativeClosure)
<1>1. PICK n \in 1 .. Len(frames) : n = i + 1
  BY LenProperties DEF Mergeable
<1>2. \A x \in 1 .. Len(frames) : x < n => x \in 1 .. i
  BY <1>1, LenProperties DEF Mergeable
<1>3. /\ p \in Calls(vm) /\ p \in 1 .. Top /\ ClaimedBy(frames, n) < p
      /\ frames[n].at \in 1 .. Top /\ stack[frames[n].at].vm = vm
      /\ frames[n].kind = Kind(frames[n].at) /\ frames[n].kind \in Squirrel
      /\ ClaimedBy(frames, n) \in 1 .. Top
  BY <1>1, CallsAre, ListClaims DEF Mergeable
<1>4. frames[n].kind = "native"
  <2>1. SUFFICES ASSUME frames[n].kind # "native"
                 PROVE  FALSE
    OBVIOUS
  <2>2. PICK j \in 1 .. Top : /\ j > frames[n].at /\ InVM(vm, j)
                              /\ Claimant(j) = Claimant(frames[n].at)
    BY <1>3, <2>1, ClaimStartsNative DEF ClaimedBy, InVM
  <2>3. PICK x \in 1 .. Len(frames) : frames[x].at = j
    BY <2>2, ListClaims DEF Mergeable
  <2>4. x < n
    BY <2>2, <2>3, ListClaims DEF Mergeable
  <2>5. frames[x].ParentFrameBase = frames[n].ParentFrameBase
    BY <2>2, <2>3, LenProperties DEF Mergeable, Claimed
  <2>6. ClaimedBy(frames, x) = ClaimedBy(frames, n)
    BY <2>2, <2>3 DEF ClaimedBy
  <2>7. x \in 1 .. i /\ ClaimedBy(frames, x) < p /\ frames[x].ParentFrameBase = 0
    BY <1>1, <1>2, <1>3, <2>4, <2>5, <2>6
  <2>8. QED
    BY <2>7 DEF MergeLoop
<1>5. acc.HitHelperHook \/ acc.HitNativeClosure
  <2>1. PICK j \in 1 .. Top : InVM(vm, j) /\ Kind(j) \in {"native", "hook"} /\ Claimant(j) = p
    BY <1>3, ClaimHasNative DEF ClaimedBy
  <2>2. PICK x \in 1 .. Len(frames) : frames[x].at = j
    BY <2>1, ListClaims DEF Mergeable
  <2>3. ClaimedBy(frames, x) = p /\ frames[x].kind = Kind(j)
    BY <2>1, <2>2, ListClaims DEF Mergeable, ClaimedBy
  <2>4. x < n
    BY <1>3, <2>3, ListClaims DEF Mergeable
  <2>5. x \in 1 .. i /\ ClaimedBy(frames, x) = p /\ Ends(frames, x)
    BY <1>2, <2>1, <2>3, <2>4 DEF Ends
  <2>6. QED
    BY <2>5 DEF MergeLoop
<1>6. QED
  BY <1>1, <1>4, <1>5

(* The frame after the hook is that of the function it stopped in.         *)
LEMMA HookFirst ==
  ASSUME StackOK, NEW vm, NEW frames \in Seq(FetchedFrame), ListOf(frames, vm, Top),
         NEW n \in 1 .. Len(frames), frames[n].kind = "hook"
  PROVE  n = 1 /\ frames[n].at = Top /\ TopKind = "hook" /\ stack[Top].vm = vm
<1>1. Top \in Nat /\ Len(frames) \in Nat
  BY StackFacts, LenProperties
<1>2. frames[n].at \in 1 .. Top /\ Kind(frames[n].at) = "hook" /\ stack[frames[n].at].vm = vm
  BY ListClaims
<1>3. frames[n].at = Top
  BY <1>2 DEF StackOK, Follows
<1>4. TopKind = "hook"
  BY <1>2, <1>3, StackFacts DEF TopKind
<1>5. ASSUME 1 < n
      PROVE  FALSE
  <2>1. 1 \in 1 .. Len(frames)
    BY <1>1
  <2>2. frames[1].at > Top /\ frames[1].at \in 1 .. Top
    BY <1>3, <1>5, <2>1, ListClaims
  <2>3. QED
    BY <1>1, <2>2
<1>6. QED
  BY <1>1, <1>2, <1>3, <1>4, <1>5

(* The frame after the hook is the function the program stopped in.        *)
LEMMA AfterHook ==
  ASSUME StackOK, NEW vm, NEW p, NEW frames, Mergeable(vm, p, frames),
         NEW i \in 0 .. Len(frames), i < Len(frames), Pending(frames, p, i)
  PROVE  Hooked(frames[i + 1].at) /\ frames[i + 1].kind = "script" /\ ClaimedBy(frames, i + 1) = p
<1>1. PICK n \in 1 .. Len(frames) : n = i + 1
  BY LenProperties DEF Mergeable
<1>2. Top \in Nat /\ Len(frames) \in Nat
  BY StackFacts, LenProperties DEF Mergeable
<1>3. frames[n].at \in 1 .. Top /\ frames[n].kind = Kind(frames[n].at)
  BY ListClaims DEF Mergeable
<1>4. 1 \in 1 .. Len(frames) /\ 1 < n /\ n = 2 /\ frames[1].kind = "hook"
      /\ Claimant(frames[1].at) = p
  BY <1>1, <1>2 DEF Pending, ClaimedBy
<1>5. frames[1].at = Top /\ TopKind = "hook" /\ stack[Top].vm = vm
  BY <1>4, HookFirst DEF Mergeable
<1>6. /\ Top - 1 \in 1 .. Top /\ InVM(vm, Top - 1) /\ Kind(Top - 1) = "script"
      /\ Claimant(Top - 1) = p
  BY <1>4, <1>5, HookedClaimant DEF InVM, Squirrel
<1>7. PICK x \in 1 .. Len(frames) : frames[x].at = Top - 1
  BY <1>6, ListClaims DEF Mergeable
<1>8. x # 1
  BY <1>2, <1>5, <1>7
<1>9. frames[n].at < frames[1].at
  BY <1>4, ListClaims DEF Mergeable
<1>10. x > n => frames[x].at < frames[n].at
  BY ListClaims DEF Mergeable
<1>11. x = n
  BY <1>2, <1>3, <1>4, <1>5, <1>7, <1>8, <1>9, <1>10
<1>12. frames[n].kind = "script" /\ ClaimedBy(frames, n) = p /\ Hooked(frames[n].at)
  BY <1>3, <1>5, <1>6, <1>7, <1>11 DEF ClaimedBy, Hooked
<1>13. QED
  BY <1>1, <1>12

(* The loop waits for a function to skip or to force exactly at that       *)
(* function.                                                               *)
LEMMA PendingIsHooked ==
  ASSUME StackOK, NEW vm, NEW p, NEW frames, Mergeable(vm, p, frames),
         NEW i \in 0 .. Len(frames), i < Len(frames),
         ClaimedBy(frames, i + 1) = p, frames[i + 1].kind = "script"
  PROVE  Pending(frames, p, i) <=> Hooked(frames[i + 1].at)
<1>1. PICK n \in 1 .. Len(frames) : n = i + 1
  BY LenProperties DEF Mergeable
<1>2. Top \in Nat /\ Len(frames) \in Nat
  BY StackFacts, LenProperties DEF Mergeable
<1>3. frames[n].at \in 1 .. Top /\ stack[frames[n].at].vm = vm
  BY ListClaims DEF Mergeable
<1>4. Pending(frames, p, i) => Hooked(frames[n].at)
  BY <1>1, AfterHook
<1>5. ASSUME Hooked(frames[n].at)
      PROVE  Pending(frames, p, i)
  <2>1. TopKind = "hook" /\ frames[n].at = Top - 1
    BY <1>5 DEF Hooked
  <2>2. /\ Top \in 1 .. Top /\ Kind(Top) = "hook" /\ stack[Top].vm = vm
        /\ Claimant(Top) = p
    BY <1>1, <1>3, <2>1, HookedClaimant DEF ClaimedBy
  <2>3. InVM(vm, Top)
    BY <2>2 DEF InVM, Squirrel
  <2>4. PICK x \in 1 .. Len(frames) : frames[x].at = Top
    BY <2>2, <2>3, ListClaims DEF Mergeable
  <2>5. ASSUME NEW y \in 1 .. Len(frames), y < x
        PROVE  FALSE
    <3>1. frames[y].at > Top /\ frames[y].at \in 1 .. Top
      BY <2>4, <2>5, ListClaims DEF Mergeable
    <3>2. QED
      BY <1>2, <3>1
  <2>6. x = 1
    BY <1>2, <2>5
  <2>7. n > 1
    BY <1>2, <2>1, <2>4, <2>6
  <2>8. ASSUME n > 2
        PROVE  FALSE
    <3>1. 2 \in 1 .. Len(frames) /\ 2 < n /\ 1 < 2 /\ 1 \in 1 .. Len(frames)
      BY <1>2, <2>8
    <3>2. frames[2].at > frames[n].at /\ frames[1].at > frames[2].at /\ frames[2].at \in 1 .. Top
      BY <3>1, ListClaims DEF Mergeable
    <3>3. QED
      BY <1>2, <2>1, <2>4, <2>6, <3>2
  <2>9. i = 1
    BY <1>1, <1>2, <2>7, <2>8
  <2>10. frames[1].kind = "hook" /\ ClaimedBy(frames, 1) = p
    <3>1. frames[x].kind = Kind(frames[x].at)
      BY ListClaims DEF Mergeable
    <3>2. QED
      BY <2>2, <2>4, <2>6, <3>1 DEF ClaimedBy
  <2>11. QED
    BY <2>9, <2>10 DEF Pending
<1>6. QED
  BY <1>1, <1>4, <1>5

(* A turn for a frame of another sq_call, for a native closure or the hook *)
(* of its own and for a script of its own.                                 *)
TurnForeign(p, acc, f, by, v) ==
  /\ v.list = Append(acc.list, f) /\ v.out = acc.out
  /\ v.done <=> acc.done \/ (by < p /\ f.ParentFrameBase = 0)
  /\ v.SkipNextFrame = acc.SkipNextFrame /\ v.ForcedLine = acc.ForcedLine
  /\ v.HitHelperHook \/ v.HitNativeClosure <=> acc.HitHelperHook \/ acc.HitNativeClosure
TurnNative(p, acc, f, v) ==
  /\ v.list = Append(acc.list, Mine(p, f)) /\ v.out = acc.out
  /\ ~acc.done /\ ~v.done
  /\ v.HitHelperHook \/ v.HitNativeClosure
  /\ v.SkipNextFrame <=> acc.SkipNextFrame \/ (f.kind = "hook" /\ LastType = "r")
  /\ v.ForcedLine <=> acc.ForcedLine \/ (f.kind = "hook" /\ LastType # "r")
TurnScript(p, acc, f, v) ==
  /\ v.list = Append(acc.list, Mine(p, f))
  /\ v.out = IF Visible(f.at) THEN Append(acc.out, Expected(f.at)) ELSE acc.out
  /\ ~acc.done /\ ~v.done /\ ~v.SkipNextFrame /\ ~v.ForcedLine
  /\ v.HitHelperHook \/ v.HitNativeClosure <=> acc.HitHelperHook \/ acc.HitNativeClosure

(* A turn for a frame of another claimant gives it nothing new.            *)
LEMMA ForeignTurn ==
  ASSUME StackOK, Top <= MaxDepth, NEW vm, NEW p, NEW frames, Mergeable(vm, p, frames),
         NEW i \in 0 .. Len(frames), i < Len(frames),
         NEW acc \in Loop, MergeLoop(p, frames, acc, i),
         NEW v, v = Visit(vm, p, frames, acc, i + 1), helperLoaded \/ ~v.done,
         NEW f, f = frames[i + 1],
         ClaimedBy(frames, i + 1) # p
  PROVE  TurnForeign(p, acc, f, ClaimedBy(frames, i + 1), v)
<1>1. PICK n \in 1 .. Len(frames) : n = i + 1
  BY LenProperties DEF Mergeable
<1>2. /\ vm \in VMs /\ frames \in Seq(FetchedFrame)
      /\ p \in 1 .. Top /\ p \in 1 .. MaxDepth
      /\ f \in FetchedFrame /\ ClaimedBy(frames, n) \in 1 .. Top
  <2>1. p \in 1 .. Top /\ Top \in Nat /\ MaxDepth \in Nat
    BY CallsAre, StackFacts, CallStackAssumption DEF Mergeable
  <2>2. f \in FetchedFrame
    BY <1>1, ElementOfSeq DEF Mergeable
  <2>3. QED
    BY <2>1, <2>2, ListClaims DEF Mergeable
<1>3. /\ f.ParentFrameBase \in {0, ClaimedBy(frames, n)}
      /\ ClaimedBy(frames, n) > p => f.ParentFrameBase # 0
  BY <1>1, LenProperties DEF Mergeable, Claimed, ClaimedBy
<1>4. CASE Left(p, acc, f) /\ VisitLeft(acc, f, v)
  <2>1. ClaimedBy(frames, n) < p /\ f.ParentFrameBase = 0 => acc.done
    BY <1>2, <1>4 DEF Left
  <2>2. QED
    BY <1>1, <1>4, <2>1 DEF TurnForeign, VisitLeft
<1>5. ASSUME ~Left(p, acc, f)
      PROVE  /\ ~acc.done /\ f.ParentFrameBase = 0 /\ ClaimedBy(frames, n) < p
             /\ f.kind = "native" /\ EndsFrames(f, acc)
             /\ Mine(0, f) = f
  <2>1. ~acc.done /\ f.ParentFrameBase = 0
    BY <1>1, <1>3, <1>5 DEF Left
  <2>2. ClaimedBy(frames, n) < p
    BY <1>1, <1>2, <1>3, <2>1
  <2>3. f.kind = "native" /\ (acc.HitHelperHook \/ acc.HitNativeClosure)
    BY <1>1, <2>1, <2>2, ForeignFrame
  <2>4. Mine(0, f) = f
    BY <1>2, <2>1 DEF Mine, FetchedFrame
  <2>5. QED
    BY <2>1, <2>2, <2>3, <2>4 DEF EndsFrames
<1>6. CASE ~Left(p, acc, f) /\ VisitEnd(acc, f, v)
  BY <1>1, <1>5, <1>6 DEF TurnForeign, VisitEnd
<1>7. \/ Left(p, acc, f) /\ VisitLeft(acc, f, v)
      \/ ~Left(p, acc, f) /\ VisitEnd(acc, f, v)
  <2> DEFINE stackBase == GetFrameStackBase(vm, frames, n)
  <2>1. \/ Left(p, acc, f) /\ VisitLeft(acc, f, v)
        \/ ~Left(p, acc, f) /\ ~helperLoaded /\ VisitThrow(p, acc, f, v)
        \/ ~Left(p, acc, f) /\ f.kind = "hook" /\ VisitHook(p, acc, f, v)
        \/ ~Left(p, acc, f) /\ f.kind = "native" /\ EndsFrames(f, acc) /\ VisitEnd(acc, f, v)
        \/ ~Left(p, acc, f) /\ f.kind = "native" /\ ~EndsFrames(f, acc)
           /\ VisitNative(p, acc, f, v)
        \/ ~Left(p, acc, f) /\ f.kind = "script" /\ acc.SkipNextFrame
           /\ VisitSkipped(p, acc, f, v)
        \/ ~Left(p, acc, f) /\ f.kind = "script" /\ ~acc.SkipNextFrame
           /\ VisitScript(p, acc, f, stackBase, v)
    BY <1>1, <1>2, VisitCases
  <2>2. ~(~helperLoaded /\ VisitThrow(p, acc, f, v))
    BY DEF VisitThrow
  <2>3. QED
    BY <1>5, <2>1, <2>2
<1>8. QED
  BY <1>4, <1>6, <1>7

(* A turn for a frame of its own claims it, and shows it if it is a        *)
(* function.                                                               *)
LEMMA OwnTurn ==
  ASSUME StackOK, Top <= MaxDepth, NEW vm, NEW p, NEW frames, Mergeable(vm, p, frames),
         NEW i \in 0 .. Len(frames), i < Len(frames),
         NEW acc \in Loop, MergeLoop(p, frames, acc, i),
         NEW v, v = Visit(vm, p, frames, acc, i + 1), helperLoaded \/ ~v.done,
         NEW f, f = frames[i + 1],
         ClaimedBy(frames, i + 1) = p
  PROVE  \/ f.kind \in {"native", "hook"} /\ TurnNative(p, acc, f, v)
         \/ f.kind = "script" /\ TurnScript(p, acc, f, v)
<1>1. PICK n \in 1 .. Len(frames) : n = i + 1
  BY LenProperties DEF Mergeable
<1>2. /\ vm \in VMs /\ frames \in Seq(FetchedFrame) /\ ListOf(frames, vm, Top)
      /\ p \in 1 .. MaxDepth /\ f.at \in 1 .. Top /\ stack[f.at].vm = vm
      /\ f.kind = Kind(f.at)
  <2>1. p \in 1 .. Top /\ Top \in Nat /\ MaxDepth \in Nat
    BY CallsAre, StackFacts, CallStackAssumption DEF Mergeable
  <2>2. QED
    BY <1>1, <2>1, ListClaims DEF Mergeable
<1>3. /\ ~Left(p, acc, f) /\ ~acc.done
      /\ f.kind \in {"native", "hook"} => ~(acc.HitHelperHook \/ acc.HitNativeClosure)
  BY <1>1, OwnFrames DEF Left, Ends
<1> DEFINE stackBase == GetFrameStackBase(vm, frames, n)
<1>4. /\ v \in Loop
      /\ \/ Left(p, acc, f) /\ VisitLeft(acc, f, v)
         \/ ~Left(p, acc, f) /\ ~helperLoaded /\ VisitThrow(p, acc, f, v)
         \/ ~Left(p, acc, f) /\ f.kind = "hook" /\ VisitHook(p, acc, f, v)
         \/ ~Left(p, acc, f) /\ f.kind = "native" /\ EndsFrames(f, acc) /\ VisitEnd(acc, f, v)
         \/ ~Left(p, acc, f) /\ f.kind = "native" /\ ~EndsFrames(f, acc)
            /\ VisitNative(p, acc, f, v)
         \/ ~Left(p, acc, f) /\ f.kind = "script" /\ acc.SkipNextFrame
            /\ VisitSkipped(p, acc, f, v)
         \/ ~Left(p, acc, f) /\ f.kind = "script" /\ ~acc.SkipNextFrame
            /\ VisitScript(p, acc, f, stackBase, v)
  BY <1>1, <1>2, VisitCases
<1>5. stackBase = BaseOf(vm, f.at)
  BY <1>1, <1>2, FrameStackBase, LenProperties
<1> HIDE DEF stackBase
<1>6. \/ f.kind = "hook" /\ VisitHook(p, acc, f, v)
      \/ f.kind = "native" /\ VisitNative(p, acc, f, v)
      \/ f.kind = "script" /\ acc.SkipNextFrame /\ VisitSkipped(p, acc, f, v)
      \/ f.kind = "script" /\ ~acc.SkipNextFrame /\ VisitScript(p, acc, f, stackBase, v)
  <2>1. ~(~helperLoaded /\ VisitThrow(p, acc, f, v))
    BY DEF VisitThrow
  <2>2. QED
    BY <1>3, <1>4, <2>1 DEF EndsFrames
<1>7. /\ acc.SkipNextFrame <=> Pending(frames, p, i) /\ LastType = "r"
      /\ acc.ForcedLine <=> Pending(frames, p, i) /\ LastType # "r"
      /\ acc.ForcedLine \in BOOLEAN /\ acc.SkipNextFrame \in BOOLEAN
  BY DEF MergeLoop, Loop
<1>8. f.kind = "script" => (Pending(frames, p, i) <=> Hooked(f.at))
  BY <1>1, PendingIsHooked
<1>9. CASE f.kind = "hook" /\ VisitHook(p, acc, f, v)
  BY <1>3, <1>7, <1>9 DEF VisitHook, TurnNative
<1>10. CASE f.kind = "native" /\ VisitNative(p, acc, f, v)
  BY <1>3, <1>7, <1>10 DEF VisitNative, TurnNative
<1>11. CASE f.kind = "script" /\ acc.SkipNextFrame /\ VisitSkipped(p, acc, f, v)
  <2>1. ~Visible(f.at)
    BY <1>2, <1>7, <1>8, <1>11 DEF Visible
  <2>2. ~acc.ForcedLine
    BY <1>7, <1>11
  <2>3. QED
    BY <1>3, <1>11, <2>1, <2>2 DEF VisitSkipped, TurnScript
<1>12. CASE f.kind = "script" /\ ~acc.SkipNextFrame /\ VisitScript(p, acc, f, stackBase, v)
  <2>1. Visible(f.at)
    BY <1>2, <1>7, <1>8, <1>12 DEF Visible
  <2>2. acc.ForcedLine = Hooked(f.at)
    <3>1. acc.ForcedLine <=> Hooked(f.at)
      BY <1>7, <1>8, <1>12
    <3>2. Hooked(f.at) \in BOOLEAN
      BY DEF Hooked
    <3>3. QED
      BY <1>7, <3>1, <3>2
  <2>3. Frame(f.at, acc.ForcedLine, stackBase) = Expected(f.at)
    BY <1>2, <1>5, <1>12, <2>2 DEF Expected, Kind
  <2>4. QED
    BY <1>3, <1>12, <2>1, <2>3 DEF VisitScript, TurnScript
<1>13. QED
  BY <1>6, <1>9, <1>10, <1>11, <1>12

(* Every turn keeps the loop's invariant.                                  *)
LEMMA MergeTurn ==
  ASSUME StackOK, Top <= MaxDepth, NEW vm, NEW p, NEW frames, Mergeable(vm, p, frames),
         NEW i \in 0 .. Len(frames), i < Len(frames),
         NEW acc \in Loop, MergeLoop(p, frames, acc, i),
         NEW v, v = Visit(vm, p, frames, acc, i + 1), helperLoaded \/ ~v.done
  PROVE  MergeLoop(p, frames, v, i + 1)
<1>1. PICK n \in 1 .. Len(frames) : n = i + 1
  BY LenProperties DEF Mergeable
<1>2. /\ i \in Nat /\ \A x \in 1 .. n : x \in 1 .. i \/ x = n
      /\ \A x \in 1 .. i : x \in 1 .. n
      /\ n \in 1 .. n
  BY <1>1, LenProperties DEF Mergeable
<1>3. /\ p \in 1 .. Top /\ ClaimedBy(frames, n) \in 1 .. Top /\ frames[n].kind \in Squirrel
      /\ p \in 1 .. MaxDepth /\ vm \in VMs /\ frames \in Seq(FetchedFrame)
      /\ frames[n] \in FetchedFrame
  <2>1. p \in 1 .. Top /\ Top \in Nat /\ MaxDepth \in Nat
    BY CallsAre, StackFacts, CallStackAssumption DEF Mergeable
  <2>2. frames[n] \in FetchedFrame
    BY ElementOfSeq DEF Mergeable
  <2>3. QED
    BY <2>1, <2>2, ListClaims DEF Mergeable
<1> DEFINE f == frames[n]
           by == ClaimedBy(frames, n)
           g == IF by = p THEN Mine(p, f) ELSE f
<1>4. \/ by # p /\ TurnForeign(p, acc, f, by, v)
      \/ by = p /\ f.kind \in {"native", "hook"} /\ TurnNative(p, acc, f, v)
      \/ by = p /\ f.kind = "script" /\ TurnScript(p, acc, f, v)
  BY <1>1, ForeignTurn, OwnTurn
<1>5. v \in Loop /\ v.list \in Seq(FetchedFrame) /\ acc.list \in Seq(FetchedFrame)
      /\ v.out \in Seq(ShownFrame) /\ acc.out \in Seq(ShownFrame)
  <2>1. v \in Loop
    BY <1>1, <1>3, VisitCases
  <2>2. QED
    BY <2>1 DEF Loop
<1>6. Pending(frames, p, i) => by = p /\ f.kind = "script"
  BY <1>1, AfterHook
<1>7. f.kind = "hook" => n = 1
  BY HookFirst DEF Mergeable
<1>8. Pending(frames, p, n) <=> n = 1 /\ f.kind = "hook" /\ by = p
  BY DEF Pending
<1> HIDE DEF by
<1>9. v.list = Append(acc.list, g)
  BY <1>4 DEF TurnForeign, TurnNative, TurnScript
<1>10. Len(v.list) = n /\ \A x \in 1 .. n :
         v.list[x] = IF ClaimedBy(frames, x) = p THEN Mine(p, frames[x]) ELSE frames[x]
  <2> DEFINE l == acc.list
  <2>1. l \in Seq(FetchedFrame) /\ Len(l) = i
        /\ \A x \in 1 .. i : l[x] = IF ClaimedBy(frames, x) = p THEN Mine(p, frames[x])
                                                               ELSE frames[x]
    BY <1>5 DEF MergeLoop
  <2>2. v.list = Append(l, g) /\ g \in FetchedFrame
    <3>1. \A h \in FetchedFrame : Mine(p, h) \in FetchedFrame
      <4>1. MaxDepth \in Nat
        BY CallStackAssumption
      <4>2. p \in 0 .. MaxDepth
        BY <1>3, <4>1
      <4>3. QED
        BY <4>2 DEF Mine, FetchedFrame
    <3>2. QED
      BY <1>3, <1>9, <3>1
  <2>3. g = IF ClaimedBy(frames, n) = p THEN Mine(p, frames[n]) ELSE frames[n]
    BY DEF by
  <2> HIDE DEF l, g
  <2>4. Len(v.list) = Len(l) + 1 /\ v.list[Len(l) + 1] = g
        /\ \A x \in 1 .. Len(l) : v.list[x] = l[x]
    <3>1. l \in Seq(FetchedFrame) /\ g \in FetchedFrame
      BY <2>1, <2>2
    <3>2. Len(Append(l, g)) = Len(l) + 1 /\ Append(l, g)[Len(l) + 1] = g
          /\ \A x \in 1 .. Len(l) : Append(l, g)[x] = l[x]
      BY <3>1, AppendProperties
    <3>3. QED
      BY <2>2, <3>2
  <2>5. Len(v.list) = n /\ v.list[n] = g /\ \A x \in 1 .. i : v.list[x] = l[x]
    BY <1>1, <1>2, <2>1, <2>4
  <2>6. ASSUME NEW x \in 1 .. n
        PROVE  v.list[x] = IF ClaimedBy(frames, x) = p THEN Mine(p, frames[x]) ELSE frames[x]
    <3>1. CASE x \in 1 .. i
      BY <2>1, <2>5, <3>1
    <3>2. CASE x = n
      BY <2>3, <2>5, <3>2
    <3>3. QED
      BY <1>2, <3>1, <3>2
  <2>7. QED
    BY <2>5, <2>6
<1>11. v.done => \E x \in 1 .. n : ClaimedBy(frames, x) < p
  <2>1. CASE v.done
    <3>1. acc.done \/ by < p
      BY <1>4, <2>1 DEF TurnForeign, TurnNative, TurnScript
    <3>2. QED
      BY <1>2, <3>1 DEF MergeLoop, by
  <2>2. QED
    BY <2>1
<1>12. ASSUME NEW x \in 1 .. n, ClaimedBy(frames, x) < p, frames[x].ParentFrameBase = 0
       PROVE  v.done
  <2>1. CASE x = n
    <3>1. by # p
      BY <1>3, <1>12, <2>1 DEF by
    <3>2. TurnForeign(p, acc, f, by, v)
      BY <1>4, <3>1
    <3>3. QED
      BY <1>12, <2>1, <3>2 DEF TurnForeign, by
  <2>2. CASE x \in 1 .. i
    <3>1. acc.done
      BY <1>12, <2>2 DEF MergeLoop
    <3>2. QED
      BY <1>4, <3>1 DEF TurnForeign, TurnNative, TurnScript
  <2>3. QED
    BY <1>2, <2>1, <2>2
<1>13. (v.HitHelperHook \/ v.HitNativeClosure)
         <=> \E x \in 1 .. n : ClaimedBy(frames, x) = p /\ Ends(frames, x)
  <2>1. (\E x \in 1 .. n : ClaimedBy(frames, x) = p /\ Ends(frames, x))
          <=> \/ \E x \in 1 .. i : ClaimedBy(frames, x) = p /\ Ends(frames, x)
              \/ by = p /\ f.kind \in {"native", "hook"}
    BY <1>2 DEF Ends, by
  <2>2. (acc.HitHelperHook \/ acc.HitNativeClosure)
          <=> \E x \in 1 .. i : ClaimedBy(frames, x) = p /\ Ends(frames, x)
    BY DEF MergeLoop
  <2>3. CASE by # p /\ TurnForeign(p, acc, f, by, v)
    BY <2>1, <2>2, <2>3 DEF TurnForeign
  <2>4. CASE by = p /\ f.kind \in {"native", "hook"} /\ TurnNative(p, acc, f, v)
    BY <2>1, <2>4 DEF TurnNative
  <2>5. CASE by = p /\ f.kind = "script" /\ TurnScript(p, acc, f, v)
    BY <2>1, <2>2, <2>5 DEF TurnScript
  <2>6. QED
    BY <1>4, <2>3, <2>4, <2>5
<1>14. /\ acc.SkipNextFrame <=> Pending(frames, p, i) /\ LastType = "r"
       /\ acc.ForcedLine <=> Pending(frames, p, i) /\ LastType # "r"
  BY DEF MergeLoop
<1>15. /\ v.SkipNextFrame <=> Pending(frames, p, n) /\ LastType = "r"
       /\ v.ForcedLine <=> Pending(frames, p, n) /\ LastType # "r"
  <2>1. CASE by # p /\ TurnForeign(p, acc, f, by, v)
    BY <1>6, <1>8, <1>14, <2>1 DEF TurnForeign
  <2>2. CASE by = p /\ f.kind \in {"native", "hook"} /\ TurnNative(p, acc, f, v)
    BY <1>6, <1>7, <1>8, <1>14, <2>2 DEF TurnNative
  <2>3. CASE by = p /\ f.kind = "script" /\ TurnScript(p, acc, f, v)
    BY <1>8, <2>3 DEF TurnScript
  <2>4. QED
    BY <1>4, <2>1, <2>2, <2>3
<1>16. \/ v.out = acc.out /\ ~ShownFor(frames, p, n)
       \/ v.out = Append(acc.out, Expected(f.at)) /\ ShownFor(frames, p, n)
  BY <1>4 DEF TurnForeign, TurnNative, TurnScript, ShownFor, by
<1>17. /\ \A y \in 1 .. Len(v.out) :
            \E x \in 1 .. n : ShownFor(frames, p, x) /\ v.out[y] = Expected(frames[x].at)
       /\ \A x \in 1 .. n : ShownFor(frames, p, x) =>
            \E y \in 1 .. Len(v.out) : v.out[y] = Expected(frames[x].at)
  <2> DEFINE o == acc.out
  <2>1. /\ \A y \in 1 .. Len(o) :
             \E x \in 1 .. i : ShownFor(frames, p, x) /\ o[y] = Expected(frames[x].at)
        /\ \A x \in 1 .. i : ShownFor(frames, p, x) =>
             \E y \in 1 .. Len(o) : o[y] = Expected(frames[x].at)
    BY DEF MergeLoop
  <2>2. o \in Seq(ShownFrame) /\ Len(o) \in Nat
    BY <1>5, LenProperties
  <2> HIDE DEF o
  <2>3. CASE v.out = o /\ ~ShownFor(frames, p, n)
    BY <1>2, <2>1, <2>3
  <2>4. CASE v.out = Append(o, Expected(f.at)) /\ ShownFor(frames, p, n)
    <3> DEFINE w == Expected(f.at)
    <3>1. w \in ShownFrame
      <4>1. Frame(f.at, Hooked(f.at), BaseOf(stack[f.at].vm, f.at)) \in ShownFrame
        <5>1. f.at \in 1 .. MaxDepth /\ stack[f.at].vm = vm /\ f.at \in 1 .. Top
          <6>1. \A h \in FetchedFrame : h.at \in 1 .. MaxDepth
            BY DEF FetchedFrame
          <6>2. QED
            BY <1>3, <6>1, ListClaims DEF Mergeable
        <5>2. BaseOf(vm, f.at) \in Nat
          BY <1>3, <5>1, Base
        <5>3. QED
          BY <5>1, <5>2 DEF Frame, ShownFrame, Hooked
      <4>2. NativeFrame(f.at) \in ShownFrame
        BY <1>3 DEF NativeFrame, Frame, ShownFrame, FetchedFrame
      <4>3. QED
        BY <4>1, <4>2 DEF Expected
    <3>2. v.out = Append(o, w)
      BY <2>4
    <3> HIDE DEF w
    <3>3. /\ Len(v.out) = Len(o) + 1 /\ v.out[Len(o) + 1] = w
          /\ \A y \in 1 .. Len(o) : v.out[y] = o[y]
      <4>1. /\ Len(Append(o, w)) = Len(o) + 1 /\ Append(o, w)[Len(o) + 1] = w
            /\ \A y \in 1 .. Len(o) : Append(o, w)[y] = o[y]
        BY <2>2, <3>1, AppendProperties
      <4>2. QED
        BY <3>2, <4>1
    <3>4. \A y \in 1 .. Len(v.out) :
            \E x \in 1 .. n : ShownFor(frames, p, x) /\ v.out[y] = Expected(frames[x].at)
      <4> SUFFICES ASSUME NEW y \in 1 .. Len(v.out)
                   PROVE  \E x \in 1 .. n : ShownFor(frames, p, x)
                                            /\ v.out[y] = Expected(frames[x].at)
        OBVIOUS
      <4>1. CASE y \in 1 .. Len(o)
        <5>1. PICK x \in 1 .. i : ShownFor(frames, p, x) /\ o[y] = Expected(frames[x].at)
          BY <2>1, <4>1
        <5>2. x \in 1 .. n /\ v.out[y] = o[y]
          BY <1>2, <3>3, <4>1
        <5>3. QED
          BY <5>1, <5>2
      <4>2. CASE y = Len(o) + 1
        BY <1>2, <2>4, <3>3, <4>2 DEF w
      <4>3. QED
        BY <2>2, <3>3, <4>1, <4>2
    <3>5. ASSUME NEW x \in 1 .. n, ShownFor(frames, p, x)
          PROVE  \E y \in 1 .. Len(v.out) : v.out[y] = Expected(frames[x].at)
      <4>1. CASE x \in 1 .. i
        <5>1. PICK y \in 1 .. Len(o) : o[y] = Expected(frames[x].at)
          BY <2>1, <3>5, <4>1
        <5>2. y \in 1 .. Len(v.out) /\ v.out[y] = o[y]
          BY <2>2, <3>3
        <5>3. QED
          BY <5>1, <5>2
      <4>2. CASE x = n
        <5>1. Len(o) + 1 \in 1 .. Len(v.out)
          BY <2>2, <3>3
        <5>2. QED
          BY <3>3, <4>2, <5>1 DEF w
      <4>3. QED
        BY <1>2, <4>1, <4>2
    <3>6. QED
      BY <3>4, <3>5
  <2>5. QED
    BY <1>16, <2>3, <2>4 DEF o
<1>18. MergeLoop(p, frames, v, n)
  BY <1>10, <1>11, <1>12, <1>13, <1>15, <1>17 DEF MergeLoop
<1>19. QED
  BY <1>1, <1>18

(* The loop claims the frames of its sq_call, all of them, and shows the   *)
(* visible, unless it throws.                                              *)
LEMMA LoopMerges ==
  ASSUME StackOK, Top <= MaxDepth, NEW vm, NEW p, NEW frames, Mergeable(vm, p, frames),
         helperLoaded \/ ~GetNextSquirrelFrames(vm, p, frames).done
  PROVE  MergeLoop(p, frames, GetNextSquirrelFrames(vm, p, frames), Len(frames))
<1>1. vm \in VMs /\ frames \in Seq(FetchedFrame) /\ p \in 1 .. MaxDepth
  BY CallsAre, StackFacts, CallStackAssumption DEF Mergeable
<1>2. PICK turn : /\ Turns(vm, p, frames, turn)
                  /\ GetNextSquirrelFrames(vm, p, frames) = turn[Len(frames)]
  BY <1>1, LoopTurns
<1>3. Len(frames) \in Nat
  BY <1>1, LenProperties
<1> DEFINE S == {i \in 0 .. Len(frames) : \/ ~helperLoaded /\ turn[i].done
                                         \/ MergeLoop(p, frames, turn[i], i)}
<1>4. 0 \in S
  <2>1. MergeLoop(p, frames, Start, 0)
    BY EmptySeq DEF MergeLoop, Start, Pending
  <2>2. QED
    BY <1>2, <1>3, <2>1 DEF Turns
<1>5. ASSUME NEW i \in 0 .. Len(frames), i \in S, i < Len(frames)
      PROVE  i + 1 \in S
  <2>1. i + 1 \in 1 .. Len(frames) /\ (i + 1) - 1 = i
    BY <1>3, <1>5
  <2>2. turn[i] \in Loop /\ turn[i + 1] = Visit(vm, p, frames, turn[i], i + 1)
    BY <1>2, <2>1 DEF Turns
  <2> DEFINE acc == turn[i]
             v == turn[i + 1]
             f == frames[i + 1]
  <2>3. CASE ~helperLoaded /\ acc.done
    <3>1. Left(p, acc, f)
      BY <2>3 DEF Left
    <3> HIDE DEF acc, v, f
    <3>2. VisitLeft(acc, f, v)
      BY <1>1, <2>1, <2>2, <3>1, VisitCases DEF acc, v, f
    <3>3. v.done
      BY <2>3, <3>2 DEF VisitLeft
    <3>4. QED
      BY <2>1, <2>3, <3>3 DEF v
  <2>4. CASE ~(~helperLoaded /\ acc.done) /\ ~(~helperLoaded /\ v.done)
    <3>1. MergeLoop(p, frames, acc, i)
      BY <1>5, <2>4
    <3>2. helperLoaded \/ ~v.done
      BY <2>4
    <3>3. MergeLoop(p, frames, v, i + 1)
      BY <1>5, <2>2, <3>1, <3>2, MergeTurn
    <3>4. QED
      BY <2>1, <3>3
  <2>5. QED
    BY <2>1, <2>3, <2>4
<1> HIDE DEF S
<1>6. 0 .. Len(frames) \subseteq S
  BY <1>3, <1>4, <1>5, InductiveUpTo
<1>7. Len(frames) \in S
  BY <1>3, <1>6
<1>8. QED
  BY <1>2, <1>7 DEF S

-----------------------------------------------------------------------------
(* The merged stack.                                                       *)

(* What is shown after a step, as a set.                                   *)
LEMMA ShowsSet ==
  ASSUME NEW A, NEW s \in Seq(A), NEW o \in Seq(A), NEW w, NEW t, Shows(s, o, w, t)
  PROVE  ToSet(t) = ToSet(s) \cup ToSet(o) \cup {w}
<1>1. Len(s) \in Nat /\ Len(o) \in Nat /\ DOMAIN s = 1 .. Len(s) /\ DOMAIN o = 1 .. Len(o)
  BY LenProperties
<1>2. DOMAIN t = 1 .. Len(s) + Len(o) + 1
  BY DEF Shows
<1>3. \A i \in DOMAIN t : t[i] \in ToSet(s) \cup ToSet(o) \cup {w}
  <2> SUFFICES ASSUME NEW i \in DOMAIN t
               PROVE  t[i] \in ToSet(s) \cup ToSet(o) \cup {w}
    OBVIOUS
  <2>1. \/ i \in DOMAIN s /\ t[i] = s[i]
        \/ i - Len(s) \in DOMAIN o /\ t[i] = o[i - Len(s)]
        \/ i = Len(s) + Len(o) + 1 /\ t[i] = w
    BY ShowsCases
  <2>2. QED
    BY <2>1 DEF ToSet
<1>4. ASSUME NEW i \in DOMAIN s
      PROVE  s[i] \in ToSet(t)
  <2>1. i \in DOMAIN t /\ t[i] = s[i]
    BY <1>1, <1>2 DEF Shows
  <2>2. QED
    BY <2>1 DEF ToSet
<1>5. ASSUME NEW j \in DOMAIN o
      PROVE  o[j] \in ToSet(t)
  <2>1. Len(s) + j \in DOMAIN t /\ t[Len(s) + j] = o[j]
    BY <1>1, <1>2 DEF Shows
  <2>2. QED
    BY <2>1 DEF ToSet
<1>6. w \in ToSet(t)
  <2>1. Len(s) + Len(o) + 1 \in DOMAIN t /\ t[Len(s) + Len(o) + 1] = w
    BY <1>1, <1>2 DEF Shows
  <2>2. QED
    BY <2>1 DEF ToSet
<1>7. QED
  BY <1>3, <1>4, <1>5, <1>6 DEF ToSet

(* Between a filtered frame and the next one there is no sq_call.          *)
LEMMA CallsPassed ==
  ASSUME IType, NEW evaluated \in BOOLEAN, FilterNextFrame(evaluated),
         NEW vm, NEW j \in Calls(vm), j > next'
  PROVE  j > next \/ (j = next /\ Kind(next) = "sq_call" /\ vm = stack[next].vm)
<1>1. /\ next \in 1 .. Top /\ next' \in 0 .. next - 1 /\ Top \in Nat
      /\ \A i \in next' + 1 .. next - 1 : Kind(i) = "script"
  BY FilterStep, StackFacts DEF IType
<1>2. j \in 1 .. Top /\ Kind(j) = "sq_call" /\ stack[j].vm = vm
  BY CallsAre DEF IType
<1>3. PICK p \in 0 .. next - 1 : p = next'
  BY <1>1
<1>4. j > next \/ j = next
  <2>1. j > p /\ j \notin p + 1 .. next - 1
    BY <1>1, <1>2, <1>3
  <2>2. QED
    BY <1>1, <1>2, <2>1
<1>5. QED
  BY <1>2, <1>4

(* The filter starts the loop with a list whose claims are right.          *)
LEMMA CachedMergeable ==
  ASSUME IType, CacheOK, MergeOK, Undisturbed, NEW u, next \in 1 .. Top,
         Kind(next) = "sq_call", u = stack[next].vm
  PROVE  Mergeable(u, next, Cached(u))
<1> USE DEF IType
<1>1. u \in VMs /\ next \in Calls(u)
  <2>1. stack[next] \in Activation
    BY StackFacts
  <2>2. stack[next] = [kind |-> "sq_call", vm |-> u]
    BY <2>1 DEF Activation, Kind
  <2>3. QED
    BY <2>1, <2>2 DEF Calls, Activation
<1>2. Cached(u) \in Seq(FetchedFrame)
  BY <1>1, CachedTyped
<1>3. ListOf(Cached(u), u, Top)
  BY <1>1, CachedList DEF Undisturbed
<1>4. Claimed(Cached(u), next)
  <2>1. CASE u \in DOMAIN ActiveThreads
    BY <2>1 DEF Cached, MergeOK
  <2>2. CASE u \notin DOMAIN ActiveThreads
    <3> DEFINE frames == FetchThreadCallstack(u)
    <3>1. frames = Cached(u) /\ frames \in Seq(FrameAt(Top))
      BY <1>1, <2>2, Fetch DEF Cached
    <3>2. \A j \in Calls(u) : j <= next
      BY <1>1, <2>2 DEF MergeOK
    <3> HIDE DEF frames
    <3>3. DOMAIN frames = 1 .. Len(frames)
      BY <3>1, LenProperties
    <3>4. ASSUME NEW i \in DOMAIN frames
          PROVE  frames[i].ParentFrameBase = 0 /\ ~(Claimant(frames[i].at) > next)
      <4>1. frames[i] \in FrameAt(Top)
        BY <3>1, <3>3, ElementOfSeq
      <4>2. ClaimedBy(frames, i) \in Calls(u) /\ ClaimedBy(frames, i) \in 1 .. Top
        BY <1>2, <1>3, <3>1, <3>3, ListClaims
      <4>3. QED
        BY <3>2, <4>1, <4>2 DEF FrameAt, ClaimedBy
    <3>5. QED
      BY <3>1, <3>4 DEF Claimed
  <2>3. QED
    BY <2>1, <2>2
<1>5. QED
  BY <1>1, <1>2, <1>3, <1>4 DEF Mergeable

(* What a filtered frame does to an undisturbed walk.                      *)
LEMMA UndisturbedStep ==
  ASSUME IType, CacheOK, MergeOK, NEW evaluated \in BOOLEAN, FilterNextFrame(evaluated),
         Undisturbed', NEW out, FilterShows(out)
  PROVE  /\ Undisturbed
         /\ \/ Kind(next) # "sq_call" /\ out = <<>> /\ ActiveThreads' = ActiveThreads
            \/ /\ Kind(next) = "sq_call"
               /\ Mergeable(stack[next].vm, next, Cached(stack[next].vm))
               /\ MergeLoop(next, Cached(stack[next].vm), Merged, Len(Cached(stack[next].vm)))
               /\ out = Merged.out
               /\ ActiveThreads' = CacheWith(stack[next].vm, Merged.list)
<1>1. /\ walking /\ UNCHANGED <<debuggee, process, walking>> /\ disturbed \subseteq disturbed'
      /\ next \in 1 .. Top
  BY FilterStep
<1>2. Undisturbed /\ hasRuntime /\ "unread" \notin disturbed' /\ "thrown" \notin disturbed'
  BY <1>1 DEF Undisturbed, debuggee
<1>3. CASE Kind(next) # "sq_call"
  BY <1>2, <1>3 DEF FilterShows
<1>4. CASE Kind(next) = "sq_call"
  <2> DEFINE u == stack[next].vm
             frames == Cached(u)
  <2>1. /\ out = Merged.out /\ ActiveThreads' = CacheWith(u, Merged.list)
        /\ helperLoaded \/ ~Merged.done
    BY <1>2, <1>4 DEF FilterShows, Threw
  <2>2. Mergeable(u, next, frames)
    BY <1>1, <1>2, <1>4, CachedMergeable
  <2>3. Merged = GetNextSquirrelFrames(u, next, frames)
    BY DEF Merged
  <2>4. Top <= MaxDepth
    BY DEF IType, TypeOK
  <2> HIDE DEF u, frames
  <2>5. MergeLoop(next, frames, Merged, Len(frames))
    BY <2>1, <2>2, <2>3, <2>4, LoopMerges DEF IType
  <2>6. QED
    BY <1>2, <1>4, <2>1, <2>2, <2>5 DEF u, frames
<1>5. QED
  BY <1>3, <1>4

(* After a step of the filter all claims of the cache are right.           *)
LEMMA MergedClaims ==
  ASSUME IType, CacheOK, MergeOK, NEW evaluated \in BOOLEAN, FilterNextFrame(evaluated), Undisturbed'
  PROVE  /\ \A vm \in DOMAIN ActiveThreads' : Claimed(ActiveThreads'[vm], next')
         /\ \A vm \in VMs \ DOMAIN ActiveThreads' : \A j \in Calls(vm) : j <= next'
<1> USE DEF IType
<1> DEFINE u == stack[next].vm
           frames == Cached(u)
           merged == Merged
<1>1. /\ walking /\ next \in 1 .. Top /\ next' \in 0 .. next - 1 /\ Top \in Nat /\ u \in VMs
      /\ next \in 1 .. MaxDepth
  BY FilterStep, StackFacts
<1>2. PICK out : FilterShows(out)
  BY FilterStep
<1>3. /\ Undisturbed
      /\ \/ Kind(next) # "sq_call" /\ ActiveThreads' = ActiveThreads
         \/ /\ Kind(next) = "sq_call" /\ Mergeable(u, next, frames)
            /\ MergeLoop(next, frames, merged, Len(frames))
            /\ ActiveThreads' = CacheWith(u, merged.list)
  BY <1>2, UndisturbedStep
<1>4. ASSUME NEW vm \in VMs, NEW j \in Calls(vm), j > next', j <= next
      PROVE  Kind(next) = "sq_call" /\ vm = u
  BY <1>1, <1>4, CallsPassed, CallsAre
(* The lists that stay as they are.                                        *)
<1>5. ASSUME NEW vm \in DOMAIN ActiveThreads, Kind(next) # "sq_call" \/ vm # u
      PROVE  Claimed(ActiveThreads[vm], next')
  <2> DEFINE list == ActiveThreads[vm]
  <2>1. /\ vm \in VMs /\ list \in Seq(FetchedFrame) /\ ListOf(list, vm, Top)
        /\ Claimed(list, next)
    BY <1>1, <1>3 DEF TypeOK, CacheOK, MergeOK, Undisturbed
  <2> HIDE DEF list
  <2>2. DOMAIN list = 1 .. Len(list)
    BY <2>1, LenProperties
  <2>3. ASSUME NEW i \in DOMAIN list, Claimant(list[i].at) > next'
        PROVE  Claimant(list[i].at) > next
    <3>1. Claimant(list[i].at) \in Calls(vm) /\ Claimant(list[i].at) \in 1 .. Top
      BY <2>1, <2>2, ListClaims DEF ClaimedBy
    <3>2. ~(Claimant(list[i].at) <= next)
      BY <1>4, <1>5, <2>1, <2>3, <3>1
    <3>3. QED
      BY <1>1, <3>1, <3>2
  <2>4. QED
    BY <2>1, <2>3 DEF Claimed, list
<1>6. CASE Kind(next) # "sq_call" /\ ActiveThreads' = ActiveThreads
  <2>1. ASSUME NEW vm \in VMs \ DOMAIN ActiveThreads, NEW j \in Calls(vm)
        PROVE  j <= next'
    <3>1. j <= next
      BY <1>3, <2>1 DEF MergeOK
    <3>2. ~(j > next')
      BY <1>4, <1>6, <2>1, <3>1
    <3>3. j \in 1 .. Top
      BY CallsAre
    <3>4. QED
      BY <1>1, <3>2, <3>3
  <2>2. QED
    BY <1>5, <1>6, <2>1
<1>7. CASE /\ Kind(next) = "sq_call" /\ Mergeable(u, next, frames)
           /\ MergeLoop(next, frames, merged, Len(frames))
           /\ ActiveThreads' = CacheWith(u, merged.list)
  <2> DEFINE list == merged.list
             cache == CacheWith(u, list)
  <2>1. list \in Seq(FetchedFrame) /\ NewestFirst(list)
    BY <1>1, MergedTyped DEF Merged
  <2>2. /\ DOMAIN cache = DOMAIN ActiveThreads \cup {u}
        /\ cache[u] = list
        /\ \A w \in DOMAIN ActiveThreads : w # u => cache[w] = ActiveThreads[w]
    <3> HIDE DEF u, list
    <3>1. QED
      BY <1>1, <2>1, CacheWithTyped
  <2>3. ActiveThreads' = cache
    BY <1>7
  <2> HIDE DEF cache, frames, merged
  <2>4. /\ DOMAIN list = 1 .. Len(frames) /\ DOMAIN frames = 1 .. Len(frames)
        /\ frames \in Seq(FetchedFrame) /\ ListOf(frames, u, Top) /\ Claimed(frames, next)
        /\ \A x \in 1 .. Len(frames) :
             list[x] = IF ClaimedBy(frames, x) = next THEN Mine(next, frames[x]) ELSE frames[x]
    <3>1. frames \in Seq(FetchedFrame) /\ ListOf(frames, u, Top) /\ Claimed(frames, next)
      BY <1>7 DEF Mergeable
    <3>2. Len(list) = Len(frames)
          /\ \A x \in 1 .. Len(frames) :
               list[x] = IF ClaimedBy(frames, x) = next THEN Mine(next, frames[x]) ELSE frames[x]
      BY <1>7 DEF MergeLoop
    <3>3. QED
      BY <2>1, <3>1, <3>2, LenProperties
  <2> HIDE DEF list
  <2>5. ASSUME NEW x \in 1 .. Len(frames)
        PROVE  /\ list[x].at = frames[x].at
               /\ list[x].ParentFrameBase = IF ClaimedBy(frames, x) = next THEN next
                                            ELSE frames[x].ParentFrameBase
    <3>1. frames[x] \in FetchedFrame
      BY <2>4, ElementOfSeq
    <3>2. Mine(next, frames[x]).at = frames[x].at /\ Mine(next, frames[x]).ParentFrameBase = next
      BY <3>1 DEF Mine, FetchedFrame
    <3>3. QED
      BY <2>4, <3>2
  <2>6. Claimed(list, next')
    <3>1. ASSUME NEW i \in 1 .. Len(frames)
          PROVE  /\ list[i].ParentFrameBase \in {0, Claimant(list[i].at)}
                 /\ Claimant(list[i].at) > next' => list[i].ParentFrameBase # 0
      <4>1. /\ ClaimedBy(frames, i) \in Calls(u) /\ ClaimedBy(frames, i) \in 1 .. Top
            /\ Claimant(list[i].at) = ClaimedBy(frames, i)
        BY <2>4, <2>5, ListClaims DEF ClaimedBy
      <4>2. /\ frames[i].ParentFrameBase \in {0, ClaimedBy(frames, i)}
            /\ ClaimedBy(frames, i) > next => frames[i].ParentFrameBase # 0
        BY <2>4 DEF Claimed, ClaimedBy
      <4>3. ClaimedBy(frames, i) > next' =>
              ClaimedBy(frames, i) > next \/ ClaimedBy(frames, i) = next
        BY <4>1, CallsPassed
      <4>4. QED
        BY <1>1, <2>5, <4>1, <4>2, <4>3
    <3>2. ASSUME NEW i \in 1 .. Len(frames), NEW j \in 1 .. Len(frames),
                 Claimant(list[i].at) = Claimant(list[j].at)
          PROVE  list[i].ParentFrameBase = list[j].ParentFrameBase
      <4>1. ClaimedBy(frames, i) = ClaimedBy(frames, j)
        BY <2>5, <3>2 DEF ClaimedBy
      <4>2. frames[i].ParentFrameBase = frames[j].ParentFrameBase
        BY <2>4, <4>1 DEF Claimed, ClaimedBy
      <4>3. QED
        BY <2>5, <4>1, <4>2
    <3>3. QED
      BY <2>4, <3>1, <3>2 DEF Claimed
  <2>7. ASSUME NEW vm \in DOMAIN cache
        PROVE  Claimed(cache[vm], next')
    BY <1>5, <2>2, <2>6
  <2>8. ASSUME NEW vm \in VMs \ DOMAIN cache, NEW j \in Calls(vm)
        PROVE  j <= next'
    <3>1. vm # u /\ vm \in VMs \ DOMAIN ActiveThreads
      BY <2>2
    <3>2. j <= next
      BY <1>3, <3>1 DEF MergeOK
    <3>3. ~(j > next')
      BY <1>4, <3>1, <3>2
    <3>4. j \in 1 .. Top
      BY CallsAre
    <3>5. QED
      BY <1>1, <3>3, <3>4
  <2>9. QED
    BY <2>3, <2>7, <2>8
<1>8. QED
  BY <1>3, <1>6, <1>7

(* The functions a sq_call adds to what is shown.                          *)
Gained(p) == {k \in 1 .. Top : Kind(k) = "script" /\ Visible(k) /\ Claimant(k) = p}

(* A step of the filter adds the visible functions its frame claims.       *)
LEMMA OutIsGained ==
  ASSUME IType, CacheOK, MergeOK, NEW evaluated \in BOOLEAN, FilterNextFrame(evaluated),
         Undisturbed', NEW out \in Seq(ShownFrame), FilterShows(out)
  PROVE  /\ ToSet(out) = {Expected(k) : k \in Gained(next)}
         /\ NewestFirst(out)
<1> USE DEF IType
<1> DEFINE u == stack[next].vm
           frames == Cached(u)
           merged == Merged
<1>1. DOMAIN out = 1 .. Len(out) /\ next \in 1 .. Top /\ next \in 1 .. MaxDepth /\ u \in VMs
  BY FilterStep, LenProperties
<1>2. \/ Kind(next) # "sq_call" /\ out = <<>>
      \/ /\ Kind(next) = "sq_call" /\ Mergeable(u, next, frames)
         /\ MergeLoop(next, frames, merged, Len(frames))
         /\ out = merged.out
  BY UndisturbedStep
<1>3. CASE Kind(next) # "sq_call" /\ out = <<>>
  <2>1. Gained(next) = {}
    BY <1>3, ClaimantIsCall, StackFacts DEF Gained
  <2>2. DOMAIN out = {}
    BY <1>3
  <2>3. QED
    BY <2>1, <2>2 DEF ToSet, NewestFirst
<1>4. CASE /\ Kind(next) = "sq_call" /\ Mergeable(u, next, frames)
           /\ MergeLoop(next, frames, merged, Len(frames))
           /\ out = merged.out
  <2>1. NewestFirst(out)
    <3>1. Kept(next, frames, merged, Len(frames))
      BY <1>1, MergedTyped DEF Merged
    <3>2. QED
      BY <1>4, <3>1 DEF Kept
  <2> HIDE DEF frames, merged
  <2>2. frames \in Seq(FetchedFrame) /\ ListOf(frames, u, Top)
    BY <1>4 DEF Mergeable
  <2>3. ASSUME NEW y \in DOMAIN out
        PROVE  \E k \in Gained(next) : out[y] = Expected(k)
    <3>1. PICK x \in 1 .. Len(frames) :
            ShownFor(frames, next, x) /\ out[y] = Expected(frames[x].at)
      BY <1>1, <1>4 DEF MergeLoop
    <3>2. frames[x].at \in 1 .. Top /\ frames[x].kind = Kind(frames[x].at)
      BY <2>2, ListClaims
    <3>3. frames[x].at \in Gained(next)
      BY <3>1, <3>2 DEF Gained, ShownFor, ClaimedBy
    <3>4. QED
      BY <3>1, <3>3
  <2>4. ASSUME NEW k \in Gained(next)
        PROVE  \E y \in DOMAIN out : out[y] = Expected(k)
    <3>1. k \in 1 .. Top /\ Kind(k) = "script" /\ Visible(k) /\ Claimant(k) = next
      BY DEF Gained
    <3>2. stack[k].vm = u
      BY <3>1, ClaimantIsCall
    <3>3. InVM(u, k)
      BY <3>1, <3>2 DEF InVM, Squirrel
    <3>4. PICK x \in 1 .. Len(frames) : frames[x].at = k
      BY <2>2, <3>1, <3>3, ListClaims
    <3>5. frames[x].kind = Kind(frames[x].at)
      BY <2>2, ListClaims
    <3>6. ShownFor(frames, next, x)
      BY <3>1, <3>4, <3>5 DEF ShownFor, ClaimedBy
    <3>7. QED
      BY <1>1, <1>4, <3>4, <3>6 DEF MergeLoop
  <2>5. QED
    BY <2>1, <2>3, <2>4 DEF ToSet
<1>5. QED
  BY <1>2, <1>3, <1>4

LEMMA ExpectedAt == \A k : Expected(k).at = k
BY DEF Expected, NativeFrame, Frame

(* A walk that goes on from one native frame to the next returns it and    *)
(* what it gains.                                                          *)
LEMMA ReturnedGrows ==
  ASSUME IType, NEW evaluated \in BOOLEAN, FilterNextFrame(evaluated)
  PROVE  Returned(next') = Returned(next) \cup Gained(next) \cup {next}
<1>1. /\ next \in 1 .. Top /\ next' \in 0 .. next - 1 /\ Top \in Nat /\ Kind(next) # "script"
      /\ \A i \in next' + 1 .. next - 1 : Kind(i) = "script"
  BY FilterStep, StackFacts DEF IType
<1>2. ASSUME NEW k \in 1 .. Top, Kind(k) = "script"
      PROVE  Claimant(k) > next' <=> Claimant(k) > next \/ Claimant(k) = next
  <2>1. Claimant(k) \in Calls(stack[k].vm) /\ Claimant(k) \in 1 .. Top
    BY ClaimantIsCall DEF IType
  <2>2. Claimant(k) > next' => Claimant(k) > next \/ Claimant(k) = next
    BY <2>1, CallsPassed
  <2>3. QED
    BY <1>1, <2>1, <2>2
<1>3. ASSUME NEW k \in 1 .. Top, Kind(k) # "script"
      PROVE  k > next' <=> k > next \/ k = next
  <2>1. PICK p \in 0 .. next - 1 : p = next'
    BY <1>1
  <2>2. k \notin p + 1 .. next - 1
    BY <1>1, <1>3, <2>1
  <2>3. k > p <=> k > next \/ k = next
    BY <1>1, <2>2
  <2>4. QED
    BY <2>1, <2>3
<1>4. Visible(next)
  BY <1>1 DEF Visible
<1> DEFINE R(p) == {k \in 1 .. Top : Visible(k) /\ (IF Kind(k) = "script" THEN Claimant(k) > p
                                                                          ELSE k > p)}
<1>5. R(next') = R(next) \cup Gained(next) \cup {next}
  BY <1>1, <1>2, <1>3, <1>4 DEF Gained
<1>6. QED
  BY <1>5 DEF Returned

(* Unless the program was broken into in a script that is nested in its    *)
(* VM, every sq_call gets the functions it runs.                           *)
InPlace == /\ stack # <<>>
           /\ TopKind \in {"hook", "native"} \/ EnteredOnce(stack[Top].vm)

(* In a stack that shows its order every sq_call claims what it runs.      *)
LEMMA OwnersClaim ==
  ASSUME StackOK, InPlace, NEW k \in 1 .. Top
  PROVE  Claimant(k) = Owner(k)
<1> DEFINE vm == stack[k].vm
<1>1. CASE ~Shifted(vm)
  BY <1>1, ClaimantIs
<1>2. CASE Shifted(vm)
  <2>1. EnteredOnce(vm)
    BY <1>2 DEF InPlace, Shifted
  <2>2. Owner(k) \in Calls(vm)
    BY ClaimantIs
  <2>3. Owner(k) \in 1 .. Top
    BY <2>2, CallsAre
  <2>4. Newer(vm, k) = {}
    BY <2>1, <2>2, <2>3, StackFacts DEF Newer, EnteredOnce
  <2>5. QED
    BY <2>4, ClaimantIs
<1>3. QED
  BY <1>1, <1>2

(* There, what was returned before is newer than what is gained.           *)
LEMMA NewerThanGained ==
  ASSUME IType, InPlace, NEW p \in 1 .. Top, NEW j \in Returned(p), NEW k \in Gained(p)
  PROVE  j > k
<1>1. /\ j \in 1 .. Top /\ k \in 1 .. Top /\ Top \in Nat /\ Kind(j) \in Kinds
      /\ Kind(k) = "script" /\ Owner(k) = p
      /\ IF Kind(j) = "script" THEN Owner(j) > p ELSE j > p
  BY StackFacts, OwnersClaim DEF Returned, Gained, IType
<1> SUFFICES ASSUME j < k
             PROVE  FALSE
  BY <1>1
<1>2. CASE Kind(j) = "script"
  <2>1. Owner(j) <= Owner(k)
    BY <1>1, OwnerMonotone DEF IType
  <2>2. Owner(j) \in 1 .. j
    BY <1>1, OwnerIs DEF IType
  <2>3. QED
    BY <1>1, <1>2, <2>1, <2>2
<1>3. CASE Kind(j) = "sq_call"
  <2>1. j \in Owner(k) + 1 .. k
    BY <1>1, <1>3
  <2>2. QED
    BY <1>1, <1>3, <2>1, OwnerIs DEF IType
<1>4. CASE Kind(j) \in {"native", "hook"}
  BY <1>1, <1>4, NativeEndsGroup DEF IType
<1>5. QED
  BY <1>1, <1>2, <1>3, <1>4 DEF Kinds

(* Where a frame of the longer walk comes from.                            *)
LEMMA MergedFrames ==
  ASSUME IType, CacheOK, MergeOK, NEW evaluated \in BOOLEAN, FilterNextFrame(evaluated),
         Undisturbed', NEW out \in Seq(ShownFrame), FilterShows(out),
         Shows(shown, out, NativeFrame(next), shown'), NEW i \in DOMAIN shown'
  PROVE  LET k == shown'[i].at
         IN  \/ i \in DOMAIN shown /\ k = shown[i].at /\ k \in Returned(next)
             \/ /\ i - Len(shown) \in DOMAIN out /\ k = out[i - Len(shown)].at
                /\ k \in Gained(next)
             \/ i = Len(shown) + Len(out) + 1 /\ k = next
<1> DEFINE k == shown'[i].at
<1>1. shown \in Seq(ShownFrame)
  BY DEF IType, TypeOK, ShownFrame
<1>2. \/ i \in DOMAIN shown /\ shown'[i] = shown[i]
      \/ i - Len(shown) \in DOMAIN out /\ shown'[i] = out[i - Len(shown)]
      \/ i = Len(shown) + Len(out) + 1 /\ shown'[i] = NativeFrame(next)
  BY <1>1, ShowsCases
<1>3. Undisturbed
  BY UndisturbedStep
<1>4. CASE i \in DOMAIN shown /\ shown'[i] = shown[i]
  <2>1. shown[i] \in ToSet(shown)
    BY <1>4 DEF ToSet
  <2>2. PICK j \in Returned(next) : shown[i] = Expected(j)
    BY <1>3, <2>1 DEF MergeOK
  <2>3. QED
    BY <1>4, <2>2, ExpectedAt
<1>5. CASE i - Len(shown) \in DOMAIN out /\ shown'[i] = out[i - Len(shown)]
  <2>1. shown'[i] \in ToSet(out)
    BY <1>5 DEF ToSet
  <2>2. PICK j \in Gained(next) : shown'[i] = Expected(j)
    BY <2>1, OutIsGained
  <2>3. QED
    BY <1>5, <2>2, ExpectedAt
<1>6. CASE i = Len(shown) + Len(out) + 1 /\ shown'[i] = NativeFrame(next)
  BY <1>6 DEF NativeFrame, Frame
<1>7. QED
  BY <1>2, <1>4, <1>5, <1>6

(* After a step of the filter the merged stack is the real one down to     *)
(* it.                                                                     *)
LEMMA MergedShows ==
  ASSUME IType, CacheOK, MergeOK, NEW evaluated \in BOOLEAN, FilterNextFrame(evaluated), Undisturbed'
  PROVE  /\ ToSet(shown') = {Expected(k) : k \in Returned(next')}
         /\ \A i, j \in DOMAIN shown' :
              i < j /\ SameVMScripts(shown'[i].at, shown'[j].at) => shown'[i].at > shown'[j].at
         /\ InPlace => NewestFirst(shown')
<1> USE DEF IType
<1>1. PICK out \in Seq(ShownFrame) :
        FilterShows(out) /\ Shows(shown, out, NativeFrame(next), shown')
  BY FilterStep DEF Undisturbed
<1>2. /\ shown \in Seq(ShownFrame) /\ DOMAIN shown = 1 .. Len(shown) /\ Len(shown) \in Nat
      /\ DOMAIN out = 1 .. Len(out) /\ Len(out) \in Nat
      /\ DOMAIN shown' = 1 .. Len(shown) + Len(out) + 1
  BY <1>1, LenProperties DEF TypeOK, ShownFrame, Shows
<1>3. /\ next \in 1 .. Top /\ Kind(next) # "script" /\ Top \in Nat
  BY FilterStep, StackFacts
<1>4. Undisturbed
  BY <1>1, UndisturbedStep
<1>5. /\ ToSet(out) = {Expected(k) : k \in Gained(next)}
      /\ NewestFirst(out)
  BY <1>1, OutIsGained
<1>6. ToSet(shown') = {Expected(k) : k \in Returned(next')}
  <2>1. ToSet(shown') = ToSet(shown) \cup ToSet(out) \cup {NativeFrame(next)}
    BY <1>1, <1>2, ShowsSet
  <2>2. ToSet(shown) = {Expected(k) : k \in Returned(next)}
    BY <1>4 DEF MergeOK
  <2>3. NativeFrame(next) = Expected(next)
    BY <1>3 DEF Expected
  <2>4. QED
    BY <1>5, <2>1, <2>2, <2>3, ReturnedGrows
<1>7. ASSUME NEW i \in DOMAIN shown'
      PROVE  /\ i \in Int
             /\ \/ i \in DOMAIN shown /\ shown'[i].at = shown[i].at /\ shown'[i].at \in Returned(next)
                \/ /\ i - Len(shown) \in DOMAIN out /\ shown'[i].at = out[i - Len(shown)].at
                   /\ shown'[i].at \in Gained(next)
                \/ i = Len(shown) + Len(out) + 1 /\ shown'[i].at = next
  BY <1>1, <1>2, MergedFrames
<1>8. ASSUME NEW i \in DOMAIN shown', NEW j \in DOMAIN shown', i < j
      PROVE  \/ /\ i \in DOMAIN shown /\ j \in DOMAIN shown
                /\ shown'[i].at = shown[i].at /\ shown'[j].at = shown[j].at
             \/ shown'[i].at \in Returned(next) /\ shown'[j].at \in Gained(next)
             \/ shown'[i].at \in Gained(next) /\ shown'[i].at > shown'[j].at
             \/ shown'[i].at \in Returned(next) \cup Gained(next) /\ shown'[j].at = next
  <2>1. CASE i \in DOMAIN shown /\ shown'[i].at = shown[i].at /\ shown'[i].at \in Returned(next)
    BY <1>7, <2>1
  <2>2. CASE /\ i - Len(shown) \in DOMAIN out /\ shown'[i].at = out[i - Len(shown)].at
             /\ shown'[i].at \in Gained(next)
    <3>1. ~(j \in DOMAIN shown)
      BY <1>2, <1>8, <2>2
    <3>2. CASE j - Len(shown) \in DOMAIN out /\ shown'[j].at = out[j - Len(shown)].at
      <4>1. i - Len(shown) < j - Len(shown)
        BY <1>2, <1>8
      <4>2. QED
        BY <1>5, <2>2, <3>2, <4>1 DEF NewestFirst
    <3>3. QED
      BY <1>7, <2>2, <3>1, <3>2
  <2>3. CASE i = Len(shown) + Len(out) + 1
    BY <1>2, <1>8, <2>3
  <2>4. QED
    BY <1>7, <2>1, <2>2, <2>3
<1>9. ASSUME NEW i \in DOMAIN shown', NEW j \in DOMAIN shown', i < j,
             SameVMScripts(shown'[i].at, shown'[j].at)
      PROVE  shown'[i].at > shown'[j].at
  <2> DEFINE a == shown'[i].at
             b == shown'[j].at
  <2>1. CASE i \in DOMAIN shown /\ j \in DOMAIN shown /\ a = shown[i].at /\ b = shown[j].at
    BY <1>4, <1>9, <2>1 DEF MergeOK
  <2>2. CASE a \in Returned(next) /\ b \in Gained(next)
    <3>1. /\ a \in 1 .. Top /\ b \in 1 .. Top /\ Claimant(a) > next /\ Claimant(b) = next
          /\ stack[a].vm = stack[b].vm
      BY <1>9, <2>2 DEF Returned, Gained, SameVMScripts
    <3>2. a <= b => Claimant(a) <= Claimant(b)
      BY <3>1, ClaimantMonotone
    <3>3. Claimant(a) \in 1 .. Top
      BY <3>1, ClaimantIsCall
    <3> HIDE DEF a, b
    <3>4. a > b
      BY <1>3, <3>1, <3>2, <3>3
    <3>5. QED
      BY <3>4 DEF a, b
  <2>3. b # next
    BY <1>3, <1>9 DEF SameVMScripts
  <2>4. QED
    BY <1>8, <1>9, <2>1, <2>2, <2>3
<1>10. ASSUME InPlace, NEW i \in DOMAIN shown', NEW j \in DOMAIN shown', i < j
       PROVE  shown'[i].at > shown'[j].at
  <2> DEFINE a == shown'[i].at
             b == shown'[j].at
  <2>1. CASE i \in DOMAIN shown /\ j \in DOMAIN shown /\ a = shown[i].at /\ b = shown[j].at
    <3>1. NewestFirst(shown)
      BY <1>4, <1>10 DEF MergeOK, InPlace
    <3>2. QED
      BY <1>10, <2>1, <3>1 DEF NewestFirst
  <2>2. CASE a \in Returned(next) /\ b \in Gained(next)
    BY <1>3, <1>10, <2>2, NewerThanGained
  <2>3. CASE a \in Returned(next) \cup Gained(next) /\ b = next
    <3>1. a \in 1 .. Top /\ Claimant(a) = Owner(a) /\ Owner(a) \in 1 .. a
      BY <1>10, <2>3, OwnersClaim, OwnerIs DEF Returned, Gained
    <3>2. a > next \/ Owner(a) > next \/ (Owner(a) = next /\ Kind(a) = "script")
      BY <2>3, <3>1 DEF Returned, Gained
    <3> HIDE DEF a
    <3>3. a > next
      BY <1>3, <3>1, <3>2
    <3>4. QED
      BY <2>3, <3>3 DEF a
  <2>4. QED
    BY <1>8, <1>10, <2>1, <2>2, <2>3
<1>11. QED
  BY <1>6, <1>9, <1>10 DEF NewestFirst

(* Every step keeps the claims right and the merged stack the real one.    *)
LEMMA NextMergeOK == IType /\ CacheOK /\ MergeOK /\ [Next]_vars => MergeOK'
<1> SUFFICES ASSUME IType, CacheOK, MergeOK, [Next]_vars, Undisturbed'
             PROVE  MergeOK'
  BY DEF MergeOK
<1> DEFINE Merging(cache, p, s) ==
      /\ \A vm \in DOMAIN cache : Claimed(cache[vm], p)
      /\ \A vm \in VMs \ DOMAIN cache : \A j \in Calls(vm) : j <= p
      /\ ToSet(s) = {Expected(k) : k \in Returned(p)}
      /\ \A i, j \in DOMAIN s : i < j /\ SameVMScripts(s[i].at, s[j].at) => s[i].at > s[j].at
      /\ InPlace => NewestFirst(s)
<1>1. ASSUME UNCHANGED <<stack, LastType>>, Merging(ActiveThreads', next', shown')
      PROVE  MergeOK'
  <2>0. /\ \A k : Claimant(k)' = Claimant(k)
        /\ \A k : Expected(k)' = Expected(k)
        /\ \A k : Visible(k)' <=> Visible(k)
        /\ \A k : Kind(k)' = Kind(k)
        /\ Top' = Top
    <3>1. \A k : Claimant(k)' = Claimant(k)
      BY <1>1 DEF Claimant, Shifted, Newer, Owner, Calls, Kind, Top, TopKind
    <3>2. \A k : Expected(k)' = Expected(k)
      BY <1>1 DEF Expected, Hooked, BaseOf, Kind, Top, TopKind
    <3>3. /\ \A k : Visible(k)' <=> Visible(k)
          /\ \A k : Kind(k)' = Kind(k)
          /\ Top' = Top
      BY <1>1 DEF Visible, Hooked, Kind, Top, TopKind
    <3>4. QED
      BY <3>1, <3>2, <3>3
  <2>1. (\A vm \in VMs \ DOMAIN ActiveThreads : \A j \in Calls(vm) : j <= next)'
    BY <1>1 DEF Calls, Top
  <2>2. ASSUME NEW vm \in DOMAIN ActiveThreads'
        PROVE  Claimed(ActiveThreads[vm], next)'
    <3>1. PICK list, p : list = ActiveThreads'[vm] /\ p = next'
      OBVIOUS
    <3>2. Claimed(list, p)
      BY <1>1, <3>1
    <3>3. Claimed(list, p)'
      BY <2>0, <3>2 DEF Claimed
    <3>4. QED
      BY <3>1, <3>3
  <2>3. (ToSet(shown) = {Expected(k) : k \in Returned(next)})'
    <3>1. PICK p : p = next'
      OBVIOUS
    <3>2. Returned(p)' = Returned(p)
      BY <2>0 DEF Returned
    <3>3. Returned(next)' = Returned(p)
      BY <3>1, <3>2
    <3>4. ToSet(shown') = {Expected(k) : k \in Returned(p)}
      BY <1>1, <3>1
    <3>5. ToSet(shown)' = ToSet(shown')
      BY DEF ToSet
    <3>6. QED
      BY <2>0, <3>3, <3>4, <3>5
  <2>4. (\A i, j \in DOMAIN shown :
           i < j /\ SameVMScripts(shown[i].at, shown[j].at) => shown[i].at > shown[j].at)'
    BY <1>1 DEF SameVMScripts, Kind
  <2>5. (InPlace => NewestFirst(shown))'
    BY <1>1 DEF InPlace, NewestFirst, Top, TopKind, Kind, Calls, EnteredOnce
  <2>6. QED
    BY <2>1, <2>2, <2>3, <2>4, <2>5 DEF MergeOK, InPlace
<1>2. process = "running" => ~walking
  BY DEF IType, TypeOK
<1>3. CASE Debuggee \/ Stop
  BY <1>2, <1>3 DEF Debuggee, Stop, sq_call, Enter, TraceRoutine, Push, Return, RuntimeCreated,
                    InitalizeDebugHelper, walk, Undisturbed
<1>4. CASE StartWalk
  <2>1. /\ UNCHANGED <<stack, LastType>> /\ shown' = <<>> /\ next' = NextNative(Top)
        /\ ActiveThreads' = ActiveThreads /\ hasRuntime
        /\ Leftover => disturbed = {}
    BY <1>4 DEF StartWalk, debuggee, Undisturbed
  <2> DEFINE p == NextNative(Top)
  <2>2. /\ Top \in Nat /\ p \in 0 .. Top
        /\ \A k \in 1 .. Top : k > p => Kind(k) = "script"
    <3>1. Top \in Nat /\ Top \in 0 .. Top
      BY StackFacts DEF IType
    <3>2. p \in 0 .. Top /\ \A k \in p + 1 .. Top : Kind(k) = "script"
      BY <3>1, NextNativeIs DEF IType
    <3> HIDE DEF p
    <3>3. QED
      BY <3>1, <3>2
  <2>3. next' = p
    BY <2>1
  <2> HIDE DEF p
  <2>4. ASSUME NEW vm, NEW j \in Calls(vm)
        PROVE  j <= p
    <3>1. j \in 1 .. Top /\ Kind(j) = "sq_call"
      BY CallsAre DEF IType
    <3>2. QED
      BY <2>2, <3>1
  <2>5. ASSUME NEW vm \in DOMAIN ActiveThreads
        PROVE  Claimed(ActiveThreads[vm], p)
    <3> DEFINE list == ActiveThreads[vm]
    <3>1. Leftover /\ disturbed = {} /\ walking
      BY <2>1 DEF Leftover, IType, WalkOK
    <3>2. /\ vm \in VMs /\ list \in Seq(FetchedFrame) /\ ListOf(list, vm, Top)
          /\ Claimed(list, next)
      BY <2>1, <3>1 DEF IType, TypeOK, CacheOK, MergeOK, Undisturbed
    <3> HIDE DEF list
    <3>3. DOMAIN list = 1 .. Len(list)
      BY <3>2, LenProperties
    <3>4. ASSUME NEW i \in DOMAIN list
          PROVE  ~(Claimant(list[i].at) > p)
      <4>1. Claimant(list[i].at) \in Calls(vm) /\ Claimant(list[i].at) \in 1 .. Top
        BY <3>2, <3>3, ListClaims DEF ClaimedBy, IType
      <4>2. QED
        BY <2>2, <2>4, <4>1
    <3>5. QED
      BY <3>2, <3>4 DEF Claimed, list
  <2>6. Returned(p) = {}
    <3>1. ASSUME NEW k \in Returned(p)
          PROVE  FALSE
      <4>1. /\ k \in 1 .. Top /\ Visible(k)
            /\ IF Kind(k) = "script" THEN Claimant(k) > p ELSE k > p
        BY DEF Returned
      <4>2. Claimant(k) \in Calls(stack[k].vm) /\ Claimant(k) \in 1 .. Top
        BY <4>1, ClaimantIsCall DEF IType
      <4>3. QED
        BY <2>2, <2>4, <4>1, <4>2
    <3>2. QED
      BY <3>1
  <2>7. Merging(ActiveThreads', next', shown')
    <3>1. DOMAIN shown' = {}
      BY <2>1
    <3>2. ToSet(shown') = {}
      BY <3>1 DEF ToSet
    <3>3. QED
      BY <2>1, <2>3, <2>4, <2>5, <2>6, <3>1, <3>2 DEF NewestFirst
  <2>8. QED
    BY <1>1, <2>1, <2>7
<1>5. CASE Continue \/ FilterEndOfStack
  BY <1>5 DEF Continue, FilterEndOfStack, Undisturbed
<1>6. CASE OtherThreadEndOfStack
  BY <1>6 DEF OtherThreadEndOfStack, Undisturbed
<1>7. ASSUME NEW evaluated \in BOOLEAN, FilterNextFrame(evaluated)
      PROVE  MergeOK'
  <2>1. UNCHANGED <<stack, LastType>>
    BY <1>7, FilterStep DEF debuggee
  <2>2. Merging(ActiveThreads', next', shown')
    BY <1>7, MergedClaims, MergedShows
  <2>3. QED
    BY <1>1, <2>1, <2>2
<1>8. CASE UNCHANGED vars
  <2>1. /\ UNCHANGED <<stack, LastType, hasRuntime, walking, disturbed>>
        /\ UNCHANGED <<next, ActiveThreads, shown>>
    BY <1>8 DEF vars, debuggee, walk
  <2>2. Undisturbed
    BY <2>1 DEF Undisturbed
  <2>3. Merging(ActiveThreads', next', shown')
    BY <2>1, <2>2 DEF MergeOK, InPlace
  <2>4. QED
    BY <1>1, <2>1, <2>3
<1>9. QED
  BY <1>3, <1>4, <1>5, <1>6, <1>7, <1>8 DEF Next

(* The claims are right and the merged stack is the real one in every      *)
(* state.                                                                  *)
LEMMA MergeInvariant == Spec => [](IType /\ CacheOK /\ MergeOK)
<1>1. Init => CacheOK /\ MergeOK
  BY DEF Init, CacheOK, MergeOK, Undisturbed
<1>2. Init => IType /\ CacheOK /\ MergeOK
  BY <1>1, InitIType
<1>3. QED
  BY <1>2, NextIType, NextCacheOK, NextMergeOK, PTL DEF Spec

(* What the user should have seen is what the walk has returned.           *)
LEMMA SeenIsReturned ==
  ASSUME IType, InPlace
  PROVE  Seen = Returned(next)
<1> USE DEF IType
<1>1. Top \in Nat /\ next \in 0 .. Top
  BY StackFacts DEF TypeOK
<1>2. Seen = {k \in 1 .. Top : Visible(k) /\ \E j \in next + 1 .. Top : Kind(j) # "script" /\ j <= k}
  BY DEF Seen
<1>3. ASSUME NEW k \in 1 .. Top, Kind(k) # "script"
      PROVE  (\E j \in next + 1 .. Top : Kind(j) # "script" /\ j <= k) <=> k > next
  BY <1>1, <1>3
<1>4. ASSUME NEW k \in 1 .. Top, Kind(k) = "script"
      PROVE  (\E j \in next + 1 .. Top : Kind(j) # "script" /\ j <= k) <=> Claimant(k) > next
  <2> DEFINE o == Owner(k)
  <2>1. /\ Claimant(k) = o /\ o \in 1 .. k /\ Kind(o) = "sq_call"
        /\ \A i \in o + 1 .. k : Kind(i) # "sq_call"
    BY OwnersClaim, OwnerIs
  <2>2. ASSUME NEW j \in next + 1 .. Top, Kind(j) # "script", j <= k
        PROVE  o > next
    <3>1. j \in 1 .. Top /\ j < k /\ Kind(j) \in Kinds
      BY <1>1, <1>4, <2>2, StackFacts
    <3>2. CASE Kind(j) = "sq_call"
      BY <1>1, <2>1, <2>2, <3>1, <3>2
    <3>3. CASE Kind(j) \in {"native", "hook"}
      <4>1. j < o
        BY <3>1, <3>3, NativeEndsGroup
      <4> HIDE DEF o
      <4>2. QED
        BY <1>1, <2>1, <2>2, <4>1
    <3>4. QED
      BY <2>2, <3>1, <3>2, <3>3 DEF Kinds
  <2> HIDE DEF o
  <2>3. ASSUME o > next
        PROVE  \E j \in next + 1 .. Top : Kind(j) # "script" /\ j <= k
    <3>1. o \in next + 1 .. Top /\ o <= k
      BY <1>1, <2>1, <2>3
    <3>2. QED
      BY <2>1, <3>1
  <2>4. QED
    BY <2>1, <2>2, <2>3
<1>5. QED
  BY <1>2, <1>3, <1>4 DEF Returned

(* The merged stack is the real one, in its order and at every moment of a *)
(* walk, unless the program was broken into in a nested script.            *)
THEOREM StackIsMergedInOrder == Spec => []MergedInOrder
<1>1. IType /\ MergeOK => MergedInOrder
  <2> SUFFICES ASSUME IType, MergeOK, Undisturbed, InPlace
               PROVE  NewestFirst(shown) /\ ToSet(shown) = {Expected(k) : k \in Seen}
    BY DEF MergedInOrder, InPlace
  <2>1. Seen = Returned(next)
    BY SeenIsReturned
  <2>2. QED
    BY <2>1 DEF MergeOK, InPlace
<1>2. QED
  BY <1>1, MergeInvariant, PTL

(* A whole walk shows every function of every VM once, in its order, even  *)
(* if the program was broken into in a nested script.                      *)
THEOREM EveryFrameIsShownOnce == Spec => []EveryFrameOnce
<1>1. IType /\ MergeOK => EveryFrameOnce
  <2> SUFFICES ASSUME IType, MergeOK, Undisturbed, next = 0, NEW vm \in VMs
               PROVE  LET scripts == {k \in 1 .. Top : stack[k] = [kind |-> "script", vm |-> vm]}
                          places == {i \in DOMAIN shown : shown[i].at \in scripts}
                      IN  /\ \A i, j \in places : i < j => shown[i].at > shown[j].at
                          /\ {shown[i] : i \in places} = {Expected(k) : k \in scripts \cap Seen}
    BY DEF EveryFrameOnce
  <2> USE DEF IType
  <2> DEFINE scripts == {k \in 1 .. Top : stack[k] = [kind |-> "script", vm |-> vm]}
             places == {i \in DOMAIN shown : shown[i].at \in scripts}
  <2>1. \A k \in scripts : Kind(k) = "script" /\ stack[k].vm = vm
    BY DEF Kind
  <2>2. ASSUME NEW i \in places, NEW j \in places, i < j
        PROVE  shown[i].at > shown[j].at
    BY <2>1, <2>2 DEF MergeOK, SameVMScripts
  <2>3. Seen = Returned(0)
    <3>1. Top \in Nat
      BY StackFacts
    <3>2. ASSUME NEW k \in 1 .. Top
          PROVE  /\ k > 0 /\ Claimant(k) > 0
                 /\ \E j \in 1 .. Top : Kind(j) # "script" /\ j <= k
      <4>1. Claimant(k) \in 1 .. Top
        BY ClaimantIsCall
      <4>2. 1 \in 1 .. Top /\ 1 <= k
        BY <3>1
      <4>3. Kind(1) = "sq_call"
        BY <4>2 DEF StackOK, Follows
      <4>4. QED
        BY <4>1, <4>2, <4>3
    <3>3. Seen = {k \in 1 .. Top : Visible(k) /\ \E j \in 1 .. Top : Kind(j) # "script" /\ j <= k}
      BY DEF Seen
    <3>4. QED
      BY <3>2, <3>3 DEF Returned
  <2>4. ToSet(shown) = {Expected(k) : k \in Seen}
    BY <2>3 DEF MergeOK
  <2> HIDE DEF scripts
  <2>5. ASSUME NEW i \in places
        PROVE  \E k \in scripts \cap Seen : shown[i] = Expected(k)
    <3>1. shown[i] \in ToSet(shown) /\ shown[i].at \in scripts
      BY DEF ToSet
    <3>2. PICK k \in Seen : shown[i] = Expected(k)
      BY <2>4, <3>1
    <3>3. k \in scripts
      BY <3>1, <3>2, ExpectedAt
    <3>4. QED
      BY <3>2, <3>3
  <2>6. ASSUME NEW k \in scripts \cap Seen
        PROVE  \E i \in places : shown[i] = Expected(k)
    <3>1. PICK i \in DOMAIN shown : shown[i] = Expected(k)
      BY <2>4 DEF ToSet
    <3>2. shown[i].at \in scripts
      BY <3>1, ExpectedAt
    <3>3. QED
      BY <3>1, <3>2
  <2>7. {shown[i] : i \in places} = {Expected(k) : k \in scripts \cap Seen}
    BY <2>5, <2>6
  <2>8. QED
    BY <2>2, <2>7 DEF scripts
<1>2. QED
  BY <1>1, MergeInvariant, PTL

-----------------------------------------------------------------------------
(* The whole of the inductive invariant: stack, walk, cache, claims and    *)
(* what has been shown agree in every state.                               *)
THEOREM Invariance == Spec => []IInv
<1>1. Init => IType /\ CacheOK /\ ShownOK /\ MergeOK
  <2>1. Init => CacheOK /\ ShownOK /\ MergeOK
    BY DEF Init, CacheOK, ShownOK, MergeOK, Undisturbed
  <2>2. QED
    BY <2>1, InitIType
<1>2. Spec => [](IType /\ CacheOK /\ ShownOK /\ MergeOK)
  BY <1>1, NextIType, NextCacheOK, NextShownOK, NextMergeOK, PTL DEF Spec
<1>3. IType /\ CacheOK /\ ShownOK /\ MergeOK => IInv
  BY DEF IType, IInv
<1>4. QED
  BY <1>2, <1>3, PTL

==============================================================================
