----------------------------- MODULE Dfs_proofs -----------------------------
(***************************************************************************)
(* The search leaves an order: SearchInv is an invariant of Dfs for every  *)
(* graph that meets the assumptions of GRC; Ordered and CycleIsReal follow *)
(* from it.                                                                *)
(***************************************************************************)
EXTENDS Dfs, GRC_proofs

Frames == [node : Node, next : Nat \ {0}, left : SUBSET Node]

(* A frame that has made progress past a set has done so past a larger one.*)
LEMMA ProgressGrows ==
  ASSUME NEW f, NEW S, NEW T, S \subseteq T, Progress(f, S)
  PROVE  Progress(f, T)
BY DEF Progress

(* The innermost call, what it looks at, and how it moves on.              *)
LEMMA LookFacts ==
  ASSUME DfsTypeOK, StackInv, NEW k \in Node \cup {0}, Look(k)
  PROVE  /\ stack \in Seq(Frames) /\ Len(stack) \in Nat \ {0}
         /\ Top \in Frames /\ Top = stack[Len(stack)] /\ Progress(Top, black)
         /\ k = 0 \/ k \in LeadsTo(Top.node)
         /\ MoveOn(k) \in Seq(Frames) /\ Len(MoveOn(k)) = Len(stack)
         /\ \A i \in 1..(Len(stack) - 1) : MoveOn(k)[i] = stack[i]
         /\ \A i \in 1..Len(stack) : MoveOn(k)[i].node = stack[i].node
         /\ Progress(MoveOn(k)[Len(stack)], black \cup ({k} \ {0}))
<1> DEFINE L == Len(stack)
           F == MovedOn(k)
<1> HIDE DEF F
<1>1. stack \in Seq(Frames) /\ stack # <<>>
  BY DEF DfsTypeOK, Look, Calling, Frames
<1>2. L \in Nat \ {0} /\ Top \in Frames /\ Top = stack[L]
  BY <1>1 DEF Top
<1>3. Progress(Top, black)
  <2>1. L \in DOMAIN stack /\ SeenTo(L) = black
    BY <1>1, <1>2 DEF SeenTo
  <2> QED
    BY <1>2, <2>1 DEF StackInv
<1>4. /\ InSucc => Top.next \in 1..Len(Succ(Top.node)) /\ k = Succ(Top.node)[Top.next]
      /\ ~InSucc => k \in Top.left
  BY <1>2, Arcs DEF Look, InSucc, Frames
<1>5. k = 0 \/ k \in LeadsTo(Top.node)
  <2>1. CASE InSucc
    <3>1. Top.node \in Node
      BY <1>2 DEF Frames
    <3>2. Top.next \in 1..Len(Succ(Top.node)) /\ k = Succ(Top.node)[Top.next]
      BY <2>1, <1>4
    <3>3. Succ(Top.node)[Top.next] # 0
            => Succ(Top.node)[Top.next] \in SuccSet(Top.node)
      BY <3>1, <3>2, Arcs
    <3> QED
      BY <3>2, <3>3 DEF LeadsTo
  <2>2. CASE ~InSucc
    BY <2>2, <1>3, <1>4 DEF LeadsTo, Progress
  <2> QED
    BY <2>1, <2>2
<1>6. F \in Frames /\ F.node = Top.node
  BY <1>2 DEF Frames, MovedOn, F
<1>7. MoveOn(k) = [stack EXCEPT ![L] = F]
  BY DEF MoveOn, F
<1>8. /\ MoveOn(k) \in Seq(Frames) /\ Len(MoveOn(k)) = L
      /\ \A i \in 1..(L - 1) : MoveOn(k)[i] = stack[i]
      /\ MoveOn(k)[L] = F
  BY <1>1, <1>2, <1>6, <1>7
<1>9. \A i \in 1..L : MoveOn(k)[i].node = stack[i].node
  BY <1>2, <1>6, <1>8
<1>10. Progress(F, black \cup ({k} \ {0}))
  <2>1. CASE InSucc
    <3>1. F.next = Top.next + 1 /\ F.left = Top.left
      BY <2>1, <1>2 DEF Frames, MovedOn, F
    <3>2. F.next <= Len(Succ(Top.node)) + 1
      BY <2>1, <1>2, <1>4, <3>1, Arcs DEF Frames
    <3>3. ASSUME NEW j \in 1..(F.next - 1)
          PROVE  Succ(Top.node)[j] \in black \cup {k} \cup {0}
      <4>1. CASE j = Top.next
        BY <4>1, <2>1, <1>4
      <4>2. CASE j \in 1..(Top.next - 1)
        BY <4>2, <1>3 DEF Progress
      <4> QED
        BY <4>1, <4>2, <3>1, <1>2 DEF Frames
    <3> QED
      BY <3>1, <3>2, <3>3, <1>3, <1>6 DEF Progress
  <2>2. CASE ~InSucc
    <3>1. F.next = Top.next /\ F.left = Top.left \ {k}
      BY <2>2, <1>2 DEF Frames, MovedOn, F
    <3>2. DataSucc(Top.node) \ F.left \subseteq black \cup ({k} \ {0})
      <4>1. 0 \notin DataSucc(Top.node)
        BY Arcs, <1>2 DEF Frames
      <4> QED
        BY <3>1, <4>1, <1>3 DEF Progress
    <3> QED
      BY <3>1, <3>2, <1>3, <1>6 DEF Progress
  <2> QED
    BY <2>1, <2>2
<1> QED
  BY <1>1, <1>2, <1>3, <1>5, <1>8, <1>9, <1>10

(* The search starts with one call, for Root.                              *)
LEMMA SearchStarts == DfsInit => SearchInv
<1> SUFFICES ASSUME DfsInit PROVE SearchInv
  OBVIOUS
<1> USE DEF DfsInit
<1>1. Frame(Root) \in Frames /\ Frame(Root).node = Root
  BY Arcs DEF Frame, Frames
<1>2. stack \in Seq(Frames) /\ Len(stack) = 1 /\ stack[1] = Frame(Root) /\ stack # <<>>
  BY <1>1
<1>3. DfsTypeOK
  BY <1>2, Arcs DEF DfsTypeOK, Frames
<1>4. OnStack = {Root} /\ DOMAIN stack = {1}
  BY <1>1, <1>2 DEF OnStack
<1>5. Progress(Frame(Root), {})
  BY Arcs DEF Progress, Frame
<1>6. StackInv
  <2>1. SeenTo(1) = {}
    BY <1>2 DEF SeenTo
  <2>2. notwhite = black \cup OnStack /\ black = {}
    BY <1>4
  <2>3. 1..(Len(stack) - 1) = {}
    BY <1>2
  <2>4. Progress(stack[1], SeenTo(1))
    BY <1>2, <1>5, <2>1
  <2> HIDE DEF DfsInit
  <2> QED
    BY <1>4, <2>2, <2>3, <2>4 DEF StackInv
<1>7. TopoInv
  BY DEF TopoInv, InTopo
<1>8. RootInv
  BY <1>1, <1>2, DataAssumption DEF RootInv
<1> QED
  BY <1>3, <1>6, <1>7, <1>8 DEF SearchInv

(* What is on the stack depends on the nodes of its frames alone.          *)
LEMMA TopoUnchanged ==
  ASSUME TopoInv, UNCHANGED <<topo, black>>
  PROVE  TopoInv'
BY DEF TopoInv, InTopo

(* A turn of dfs's loop that finds no node or a black one moves on.        *)
LEMMA SkipKeeps ==
  ASSUME SearchInv, NEW k \in Node \cup {0}, DfsSkip(k)
  PROVE  SearchInv'
<1> DEFINE L == Len(stack)
<1> USE DEF SearchInv
<1>1. Look(k) /\ (k = 0 \/ k \in black) /\ stack' = MoveOn(k)
      /\ UNCHANGED <<notwhite, black, topo, dfs>>
  BY DEF DfsSkip
<1>2. /\ stack \in Seq(Frames) /\ L \in Nat \ {0}
      /\ stack' \in Seq(Frames) /\ Len(stack') = L
      /\ \A i \in 1..(L - 1) : stack'[i] = stack[i]
      /\ \A i \in 1..L : stack'[i].node = stack[i].node
      /\ Progress(stack'[L], black \cup ({k} \ {0}))
  BY <1>1, LookFacts
<1>3. DOMAIN stack = 1..L /\ DOMAIN stack' = 1..L
  BY <1>2
<1>4. DfsTypeOK'
  BY <1>1, <1>2 DEF DfsTypeOK, Frames
<1>5. StackInv'
  <2>1. OnStack' = OnStack
    BY <1>2, <1>3 DEF OnStack
  <2>2. ASSUME NEW i \in 1..L
        PROVE  stack'[i].node \notin black /\ Progress(stack'[i], SeenTo(i)')
    <3>1. SeenTo(i)' = SeenTo(i) /\ (i = L => SeenTo(i) = black)
      BY <1>1, <1>2 DEF SeenTo
    <3>2. CASE i = L
      BY <3>1, <3>2, <1>1, <1>2, <1>3, ProgressGrows DEF StackInv
    <3>3. CASE i < L
      BY <3>1, <3>3, <1>2, <1>3 DEF StackInv
    <3> QED
      BY <3>2, <3>3, <1>2
  <2>3. \A i \in 1..(L - 1) : stack'[i + 1].node \in LeadsTo(stack'[i].node)
    BY <1>2 DEF StackInv
  <2>4. \A i, j \in 1..L : stack'[i].node = stack'[j].node => i = j
    BY <1>2, <1>3 DEF StackInv
  <2>5. notwhite' = black' \cup OnStack' /\ black' = black
    BY <1>1, <2>1 DEF StackInv
  <2> HIDE DEF SearchInv
  <2> QED
    BY <1>2, <1>3, <2>2, <2>3, <2>4, <2>5 DEF StackInv
<1>6. TopoInv'
  BY <1>1, TopoUnchanged
<1>7. RootInv'
  <2>1. dfs # "done" /\ stack' # <<>> /\ stack'[1].node = stack[1].node
    BY <1>1, <1>2 DEF Look, Calling
  <2> QED
    BY <1>1, <2>1 DEF RootInv
<1> QED
  BY <1>4, <1>5, <1>6, <1>7

(* A call of dfs grays a white node and puts it on the stack.              *)
LEMMA CallKeeps ==
  ASSUME SearchInv, NEW k \in Node \cup {0}, DfsCall(k)
  PROVE  SearchInv'
<1> DEFINE L == Len(stack)
           M == MoveOn(k)
<1> HIDE DEF M
<1>1. /\ Look(k) /\ k \in Node /\ k \notin notwhite
      /\ stack' = Append(M, Frame(k)) /\ notwhite' = notwhite \cup {k}
      /\ UNCHANGED <<black, topo, dfs>>
  BY DEF DfsCall, M
<1>2. /\ stack \in Seq(Frames) /\ L \in Nat \ {0}
      /\ M \in Seq(Frames) /\ Len(M) = L
      /\ \A i \in 1..(L - 1) : M[i] = stack[i]
      /\ \A i \in 1..L : M[i].node = stack[i].node
      /\ Progress(M[L], black \cup {k})
      /\ k \in LeadsTo(stack[L].node)
  <2>1. k # 0 /\ {k} \ {0} = {k}
    BY <1>1, Arcs
  <2>2. Top = stack[L] /\ (k = 0 \/ k \in LeadsTo(Top.node))
    BY <1>1, LookFacts DEF SearchInv
  <2> QED
    BY <1>1, <2>1, <2>2, LookFacts DEF M, SearchInv
<1>3. Frame(k) \in Frames /\ Frame(k).node = k /\ Progress(Frame(k), black)
  BY <1>1, Arcs DEF Frame, Frames, Progress
<1>4. /\ stack' \in Seq(Frames) /\ Len(stack') = L + 1
      /\ DOMAIN stack' = 1..(L + 1) /\ DOMAIN stack = 1..L
      /\ \A i \in 1..L : stack'[i] = M[i]
      /\ stack'[L + 1] = Frame(k)
  BY <1>1, <1>2, <1>3
<1>5. DfsTypeOK'
  BY <1>1, <1>4 DEF SearchInv, DfsTypeOK, Frames
<1>6. StackInv'
  <2>1. OnStack' = OnStack \cup {k}
    BY <1>2, <1>3, <1>4 DEF OnStack
  <2>2. notwhite' = black' \cup OnStack' /\ black' = black
    BY <1>1, <2>1 DEF StackInv, SearchInv
  <2>3. \A i \in 1..L : stack[i].node # k
    BY <1>1, <1>4 DEF StackInv, SearchInv, OnStack
  <2>4. \A i, j \in 1..(L + 1) : stack'[i].node = stack'[j].node => i = j
    <3>1. \A i, j \in 1..L : stack[i].node = stack[j].node => i = j
      BY <1>4 DEF StackInv, SearchInv
    <3>2. \A i \in 1..L : stack'[i].node = stack[i].node
      BY <1>2, <1>4
    <3> QED
      BY <1>2, <1>3, <1>4, <2>3, <3>1, <3>2
  <2>5. ASSUME NEW i \in 1..(L + 1)
        PROVE  stack'[i].node \notin black /\ Progress(stack'[i], SeenTo(i)')
    <3>1. CASE i = L + 1
      <4>1. SeenTo(i)' = black
        BY <3>1, <1>1, <1>2, <1>4 DEF SeenTo
      <4> QED
        BY <3>1, <4>1, <1>1, <1>3, <1>4 DEF StackInv, SearchInv
    <3>2. CASE i = L
      <4>1. SeenTo(i)' = black \cup {k}
        BY <3>2, <1>1, <1>2, <1>3, <1>4 DEF SeenTo
      <4>2. L \in DOMAIN stack /\ stack'[L] = M[L] /\ M[L].node = stack[L].node
        BY <1>2, <1>4
      <4> QED
        BY <3>2, <4>1, <4>2, <1>2 DEF StackInv, SearchInv
    <3>3. CASE i \in 1..(L - 1)
      <4>1. stack'[i] = stack[i] /\ stack'[i + 1].node = stack[i + 1].node
        BY <3>3, <1>2, <1>4
      <4>2. SeenTo(i)' = SeenTo(i) /\ i \in DOMAIN stack
        BY <3>3, <4>1, <1>1, <1>2, <1>4 DEF SeenTo
      <4> QED
        BY <4>1, <4>2 DEF StackInv, SearchInv
    <3> QED
      BY <3>1, <3>2, <3>3, <1>2
  <2>6. ASSUME NEW i \in 1..L
        PROVE  stack'[i + 1].node \in LeadsTo(stack'[i].node)
    <3>1. CASE i = L
      BY <3>1, <1>2, <1>3, <1>4
    <3>2. CASE i \in 1..(L - 1)
      <4>1. stack'[i].node = stack[i].node /\ stack'[i + 1].node = stack[i + 1].node
        BY <3>2, <1>2, <1>4
      <4> QED
        BY <3>2, <4>1 DEF StackInv, SearchInv
    <3> QED
      BY <3>1, <3>2, <1>2
  <2>7. Len(stack') - 1 = L
    BY <1>2, <1>4
  <2> QED
    BY <1>4, <2>2, <2>4, <2>5, <2>6, <2>7 DEF StackInv
<1>7. TopoInv'
  BY <1>1, TopoUnchanged DEF SearchInv
<1>8. RootInv'
  <2>1. dfs # "done" /\ stack' # <<>> /\ stack'[1].node = stack[1].node
    BY <1>1, <1>2, <1>4 DEF Look, Calling
  <2>2. stack[L].node \in Live
    BY <1>2, <1>4 DEF SearchInv, StackInv, RootInv, OnStack
  <2>3. k \in Live
    BY <1>2, <2>2, DataAssumption DEF LeadsTo
  <2> QED
    BY <1>1, <2>1, <2>3 DEF RootInv, SearchInv
<1> QED
  BY <1>5, <1>6, <1>7, <1>8 DEF SearchInv

(* A gray successor ends the search (exit(100)).                           *)
LEMMA CycleKeeps ==
  ASSUME SearchInv, NEW k \in Node \cup {0}, DfsCycle(k)
  PROVE  SearchInv'
<1>1. dfs = "run" /\ dfs' = "cycle" /\ UNCHANGED <<stack, notwhite, black, topo>>
  BY DEF DfsCycle, Look, Calling
<1>2. DfsTypeOK' /\ RootInv'
  BY <1>1 DEF SearchInv, DfsTypeOK, RootInv
<1>3. StackInv'
  BY <1>1 DEF SearchInv, StackInv, OnStack, SeenTo
<1>4. TopoInv'
  BY <1>1, TopoUnchanged DEF SearchInv
<1> QED
  BY <1>2, <1>3, <1>4 DEF SearchInv

(* A call of dfs that returns blackens its node and appends it to topo.    *)
LEMMA ReturnKeeps ==
  ASSUME SearchInv, DfsReturn
  PROVE  SearchInv'
<1> DEFINE L == Len(stack)
           n == Top.node
<1>1. /\ dfs = "run" /\ stack # <<>> /\ ~InSucc /\ Top.left = {}
      /\ topo' = Append(topo, n) /\ black' = black \cup {n}
      /\ stack' = SubSeq(stack, 1, L - 1) /\ notwhite' = notwhite
      /\ dfs' = IF L = 1 THEN "done" ELSE "run"
  BY DEF DfsReturn, Calling
<1>2. stack \in Seq(Frames) /\ topo \in Seq(Node)
  BY DEF SearchInv, DfsTypeOK, Frames
<1> PICK N \in Nat : N = Len(topo)
  BY <1>2
<1>3. L \in Nat \ {0} /\ Top = stack[L] /\ Top \in Frames /\ n \in Node /\ DOMAIN stack = 1..L
  <2>1. L \in Nat \ {0} /\ Top = stack[L] /\ Top \in Frames /\ DOMAIN stack = 1..L
    BY <1>1, <1>2 DEF Top
  <2> QED
    BY <2>1 DEF Frames
<1>4. /\ stack' \in Seq(Frames) /\ Len(stack') = L - 1 /\ DOMAIN stack' = 1..(L - 1)
      /\ \A i \in 1..(L - 1) : stack'[i] = stack[i]
  BY <1>1, <1>2, <1>3
<1>5. /\ topo' \in Seq(Node) /\ Len(topo') = N + 1 /\ DOMAIN topo' = 1..(N + 1)
      /\ \A i \in 1..N : topo'[i] = topo[i]
      /\ topo'[N + 1] = n /\ DOMAIN topo = 1..N
  BY <1>1, <1>2, <1>3
<1>6. n \notin black /\ Progress(Top, black)
  <2>1. SeenTo(L) = black
    BY <1>3 DEF SeenTo
  <2> QED
    BY <1>3, <2>1 DEF SearchInv, StackInv
<1>7. LeadsTo(n) \subseteq black
  <2>1. DataSucc(n) \subseteq black
    BY <1>1, <1>6 DEF Progress
  <2>2. \A j \in 1..Len(Succ(n)) : Succ(n)[j] \in black \cup {0}
    <3>1. Len(Succ(n)) \in Nat /\ Top.next \in Nat \ {0}
      BY <1>3, Arcs DEF Frames
    <3>2. Top.next = Len(Succ(n)) + 1
      BY <1>1, <1>6, <3>1 DEF InSucc, Progress
    <3>3. Top.next - 1 = Len(Succ(n))
      BY <3>1, <3>2
    <3> QED
      BY <3>3, <1>6 DEF Progress
  <2>3. ASSUME NEW m \in SuccSet(n) PROVE m \in black
    <3>1. m # 0 /\ \E i \in 1..Len(Succ(n)) : m = Succ(n)[i]
      BY <1>3, Arcs
    <3> QED
      BY <2>2, <3>1
  <2> QED
    BY <2>1, <2>3 DEF LeadsTo
<1>8. DfsTypeOK'
  BY <1>1, <1>3, <1>4, <1>5 DEF SearchInv, DfsTypeOK, Frames
<1>9. StackInv'
  <2>1. OnStack = OnStack' \cup {n}
    BY <1>3, <1>4 DEF OnStack
  <2>2. notwhite' = black' \cup OnStack'
    BY <1>1, <2>1 DEF SearchInv, StackInv
  <2>3. \A i, j \in 1..(L - 1) : stack'[i].node = stack'[j].node => i = j
    BY <1>3, <1>4 DEF SearchInv, StackInv
  <2>4. ASSUME NEW i \in 1..(L - 1)
        PROVE  stack'[i].node \notin black' /\ Progress(stack'[i], SeenTo(i)')
    <3>1. i \in 1..L /\ i # L /\ L \in 1..L /\ DOMAIN stack = 1..L
      <4>1. L \in Nat \ {0} /\ DOMAIN stack = 1..L
        BY <1>3
      <4> HIDE DEF L, n
      <4> QED
        BY <4>1
    <3>2. stack[i].node \notin black /\ Progress(stack[i], SeenTo(i))
      BY <3>1 DEF SearchInv, StackInv
    <3>3. stack[i].node # n
      BY <3>1, <1>3 DEF SearchInv, StackInv
    <3>4. SeenTo(i) \subseteq SeenTo(i)'
      BY <1>1, <1>3, <1>4 DEF SeenTo
    <3> QED
      BY <1>1, <1>4, <3>2, <3>3, <3>4, ProgressGrows
  <2>5. \A i \in 1..(L - 1 - 1) : stack'[i + 1].node \in LeadsTo(stack'[i].node)
    BY <1>3, <1>4 DEF SearchInv, StackInv
  <2> QED
    BY <1>4, <2>2, <2>3, <2>4, <2>5 DEF StackInv
<1>10. TopoInv'
  <2>1. \A k \in 0..N : InTopo(k)' = InTopo(k)
    BY <1>2, <1>5 DEF InTopo
  <2>2. black = InTopo(N) /\ InTopo(N)' = black
    BY <1>2, <2>1 DEF SearchInv, TopoInv
  <2>3. InTopo(N + 1)' = InTopo(N)' \cup {n}
    BY <1>2, <1>5 DEF InTopo
  <2>4. \A i \in 1..N : topo[i] # n
    BY <1>6, <2>2 DEF InTopo
  <2>5. \A i, j \in 1..(N + 1) : topo'[i] = topo'[j] => i = j
    <3>1. \A i, j \in 1..N : topo[i] = topo[j] => i = j
      BY <1>5 DEF SearchInv, TopoInv
    <3> QED
      BY <1>2, <1>5, <2>4, <3>1
  <2>6. ASSUME NEW i \in 1..(N + 1)
        PROVE  LeadsTo(topo'[i]) \subseteq InTopo(i - 1)'
    <3>1. CASE i = N + 1
      BY <3>1, <1>2, <1>5, <1>7, <2>2
    <3>2. CASE i \in 1..N
      <4>1. LeadsTo(topo[i]) \subseteq InTopo(i - 1) /\ i - 1 \in 0..N
        BY <3>2, <1>2, <1>5 DEF SearchInv, TopoInv
      <4> QED
        BY <3>2, <4>1, <1>5, <2>1
    <3> QED
      BY <3>1, <3>2, <1>2
  <2> QED
    BY <1>1, <1>5, <2>2, <2>3, <2>5, <2>6 DEF TopoInv
<1>11. RootInv'
  <2>1. stack[1].node = Root
    BY <1>1 DEF SearchInv, RootInv
  <2>2. CASE L = 1
    <3>1. n = Root /\ topo'[Len(topo')] = Root /\ topo' # <<>> /\ stack' = <<>>
      BY <2>1, <2>2, <1>2, <1>3, <1>4, <1>5
    <3> QED
      BY <2>2, <3>1, <1>1 DEF SearchInv, RootInv
  <2>3. CASE L > 1
    <3>1. stack'[1] = stack[1] /\ stack' # <<>>
      BY <2>3, <1>3, <1>4
    <3> QED
      BY <2>1, <2>3, <3>1, <1>1, <1>3 DEF SearchInv, RootInv
  <2> QED
    BY <2>2, <2>3, <1>3
<1> QED
  BY <1>8, <1>9, <1>10, <1>11 DEF SearchInv

(* Every step of the search, and a step that is none, keeps SearchInv.     *)
THEOREM SearchKeeps == SearchInv /\ [DfsNext]_dfsVars => SearchInv'
<1> SUFFICES ASSUME SearchInv, [DfsNext]_dfsVars PROVE SearchInv'
  OBVIOUS
<1>1. CASE UNCHANGED dfsVars
  <2>1. UNCHANGED <<stack, notwhite, black, topo, dfs>>
    BY <1>1 DEF dfsVars
  <2> QED
    BY <2>1 DEF SearchInv, DfsTypeOK, StackInv, TopoInv, RootInv, OnStack, InTopo, SeenTo
<1>2. CASE \E k \in Node \cup {0} : DfsSkip(k) \/ DfsCall(k) \/ DfsCycle(k)
  BY <1>2, SkipKeeps, CallKeeps, CycleKeeps
<1>3. CASE DfsReturn
  BY <1>3, ReturnKeeps
<1> QED
  BY <1>1, <1>2, <1>3 DEF DfsNext

(* The strengthened invariant holds of every search.                       *)
THEOREM SearchIsSound == DfsSpec => []SearchInv
BY SearchStarts, SearchKeeps, PTL DEF DfsSpec

(* The order that dotick reads backwards: no node before what it leads to. *)
LEMMA OrderFollows == SearchInv => Ordered
<1> SUFFICES ASSUME SearchInv PROVE Ordered
  OBVIOUS
<1>1. topo \in Seq(Node) /\ DOMAIN topo = 1..Len(topo)
  BY DEF SearchInv, DfsTypeOK
<1>2. \A i \in DOMAIN topo : \A m \in LeadsTo(topo[i]) : m \in InTopo(i - 1)
  BY DEF SearchInv, TopoInv
<1>3. \A i \in DOMAIN topo : \A m \in InTopo(i - 1) : \E j \in 1..(i - 1) : topo[j] = m
  BY DEF InTopo
<1> QED
  BY <1>2, <1>3 DEF Ordered, SearchInv, TopoInv

(* Whatever the order of data successors, all that a node of topo leads to *)
(* stands before it, and no node stands twice (GRCsim.cpp 437-478).        *)
THEOREM SearchOrders == DfsSpec => []Ordered
BY SearchIsSound, OrderFollows, PTL

(* A cycle is reported only where there is one.                            *)
LEMMA CycleStaysReal ==
  ASSUME SearchInv, CycleIsReal, [DfsNext]_dfsVars
  PROVE  CycleIsReal'
<1>1. CASE UNCHANGED dfsVars
  BY <1>1 DEF dfsVars, CycleIsReal, Top
<1>2. ASSUME NEW k \in Node \cup {0}, DfsCycle(k)
      PROVE  CycleIsReal'
  <2>1. Look(k) /\ k \in notwhite \ black /\ UNCHANGED stack
    BY <1>2 DEF DfsCycle
  <2>2. k \in LeadsTo(Top.node) /\ stack \in Seq(Frames)
    BY <2>1, LookFacts, Arcs DEF SearchInv, DfsTypeOK
  <2>3. PICK i \in DOMAIN stack : stack[i].node = k
    BY <2>1 DEF SearchInv, StackInv, OnStack
  <2>4. \A j \in i..(Len(stack) - 1) : stack[j + 1].node \in LeadsTo(stack[j].node)
    BY <2>2, <2>3 DEF SearchInv, StackInv
  <2> QED
    BY <2>1, <2>2, <2>3, <2>4 DEF CycleIsReal, Top
<1>3. CASE dfs' # "cycle"
  BY <1>3 DEF CycleIsReal
<1>4. ASSUME NEW k \in Node \cup {0}, DfsSkip(k) \/ DfsCall(k)
      PROVE  dfs' # "cycle"
  BY <1>4 DEF DfsSkip, DfsCall, Look, Calling
<1>5. DfsReturn => dfs' # "cycle"
  BY DEF DfsReturn
<1> QED
  BY <1>1, <1>2, <1>3, <1>4, <1>5 DEF DfsNext

(* exit(100) is reached only when the calls in progress form a cycle       *)
(* (GRCsim.cpp 445).                                                       *)
THEOREM CyclesAreReal == DfsSpec => []CycleIsReal
<1>1. DfsInit => CycleIsReal
  BY DEF DfsInit, CycleIsReal
<1> QED
  BY <1>1, SearchIsSound, CycleStaysReal, PTL DEF DfsSpec

=============================================================================
