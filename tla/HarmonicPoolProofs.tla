------------------------- MODULE HarmonicPoolProofs -------------------------
(***************************************************************************)
(* Proofs about HeapQueue, HeapOps and HarmonicPool, for any items, any    *)
(* finite set of workers and any set of tasks.  First the heap: what       *)
(* heap.Push and heap.Pop do to the items and to their order, and HeapOps, *)
(* the heap alone.  Then the pool around it.                               *)
(***************************************************************************)
EXTENDS HarmonicPool, HeapOps, FiniteSetTheorems, WellFoundedInduction, TLAPS

-----------------------------------------------------------------------------
(* Sequences and numbers. *)

\* appending puts one more element in a sequence, at the end
LEMMA AppendSet ==
  ASSUME NEW S, NEW s \in Seq(S), NEW e \in S
  PROVE  ToSet(Append(s, e)) = ToSet(s) \cup {e}
<1>1. /\ Len(Append(s, e)) = Len(s) + 1
      /\ DOMAIN Append(s, e) = 1..(Len(s) + 1)
      /\ DOMAIN s = 1..Len(s)
      /\ Append(s, e)[Len(s) + 1] = e
      /\ \A i \in 1..Len(s) : Append(s, e)[i] = s[i]
  OBVIOUS
<1>2. ASSUME NEW x \in ToSet(Append(s, e)) PROVE x \in ToSet(s) \cup {e}
  BY <1>1, <1>2 DEF ToSet
<1>3. ASSUME NEW x \in ToSet(s) \cup {e} PROVE x \in ToSet(Append(s, e))
  <2>1. CASE x = e
    BY <1>1, <2>1 DEF ToSet
  <2>2. CASE x \in ToSet(s)
    <3>1. PICK i \in 1..Len(s) : x = s[i]
      BY <1>1, <2>2 DEF ToSet
    <3>. QED
      BY <1>1, <3>1 DEF ToSet
  <2>. QED
    BY <1>3, <2>1, <2>2
<1>. QED
  BY <1>2, <1>3

\* appending something new keeps a sequence free of repetitions
LEMMA AppendNew ==
  ASSUME NEW S, NEW s \in Seq(S), NEW e \in S, IsInjective(s), e \notin ToSet(s)
  PROVE  IsInjective(Append(s, e))
<1>1. /\ DOMAIN Append(s, e) = 1..(Len(s) + 1)
      /\ DOMAIN s = 1..Len(s)
      /\ Append(s, e)[Len(s) + 1] = e
      /\ \A i \in 1..Len(s) : Append(s, e)[i] = s[i]
  OBVIOUS
<1>2. \A i \in 1..Len(s) : s[i] # e
  BY <1>1 DEF ToSet
<1>3. \A i, j \in 1..Len(s) : s[i] = s[j] => i = j
  BY <1>1 DEF IsInjective
<1>4. \A i, j \in 1..(Len(s) + 1) : Append(s, e)[i] = Append(s, e)[j] => i = j
  BY <1>1, <1>2, <1>3
<1>. QED
  BY <1>1, <1>4 DEF IsInjective

\* taking one out of the middle moves those after it one place up
LEMMA RemoveAtAt ==
  ASSUME NEW S, NEW s \in Seq(S), NEW k \in 1..Len(s)
  PROVE  /\ RemoveAt(s, k) \in Seq(S)
         /\ Len(s) \in Nat
         /\ Len(RemoveAt(s, k)) = Len(s) - 1
         /\ \A i \in 1..(Len(s) - 1) :
              RemoveAt(s, k)[i] = IF i < k THEN s[i] ELSE s[i + 1]
<1>. DEFINE front == SubSeq(s, 1, k - 1)  back == SubSeq(s, k + 1, Len(s))
<1>1. /\ front \in Seq(S) /\ Len(front) = k - 1
      /\ \A i \in 1..(k - 1) : front[i] = s[i]
  OBVIOUS
<1>2. /\ back \in Seq(S) /\ Len(back) = Len(s) - k
      /\ \A i \in 1..(Len(s) - k) : back[i] = s[k + i]
  OBVIOUS
<1>3. RemoveAt(s, k) = front \o back
  BY DEF RemoveAt
<1>. HIDE DEF front, back
<1>4. /\ front \o back \in Seq(S) /\ Len(s) \in Nat /\ Len(front \o back) = Len(s) - 1
      /\ \A i \in 1..(Len(s) - 1) :
           (front \o back)[i] = IF i <= k - 1 THEN front[i] ELSE back[i - (k - 1)]
  <2>1. ASSUME NEW u \in Seq(S), NEW v \in Seq(S)
        PROVE  /\ u \o v \in Seq(S) /\ Len(u \o v) = Len(u) + Len(v)
               /\ Len(u) \in Nat /\ Len(v) \in Nat
               /\ \A i \in 1..(Len(u) + Len(v)) :
                    (u \o v)[i] = IF i <= Len(u) THEN u[i] ELSE v[i - Len(u)]
    BY <2>1
  <2>2. Len(s) \in Nat /\ Len(front) + Len(back) = Len(s) - 1
    BY <1>1, <1>2
  <2>3. /\ front \o back \in Seq(S) /\ Len(front \o back) = Len(front) + Len(back)
        /\ \A i \in 1..(Len(front) + Len(back)) :
             (front \o back)[i] = IF i <= Len(front) THEN front[i] ELSE back[i - Len(front)]
    BY <1>1, <1>2, <2>1
  <2>. QED
    BY <1>1, <2>2, <2>3
<1>5. ASSUME NEW i \in 1..(Len(s) - 1)
      PROVE  (front \o back)[i] = IF i < k THEN s[i] ELSE s[i + 1]
  <2>1. CASE i < k
    BY <1>1, <1>4, <2>1
  <2>2. CASE i >= k
    <3>1. i - (k - 1) \in 1..(Len(s) - k) /\ k + (i - (k - 1)) = i + 1
      BY <1>4, <2>2
    <3>2. back[i - (k - 1)] = s[i + 1]
      BY <1>2, <3>1
    <3>3. (front \o back)[i] = back[i - (k - 1)]
      BY <1>1, <1>4, <2>2
    <3>. QED
      BY <2>2, <3>2, <3>3
  <2>. QED
    BY <1>4, <2>1, <2>2
<1>. QED
  BY <1>2, <1>3, <1>4, <1>5

\* a queue without repetitions loses the element taken out of it, and nothing else
LEMMA RemoveAtQueue ==
  ASSUME NEW S, NEW s \in Seq(S), NEW k \in 1..Len(s), IsInjective(s)
  PROVE  /\ ToSet(RemoveAt(s, k)) = ToSet(s) \ {s[k]}
         /\ IsInjective(RemoveAt(s, k))
<1>. DEFINE r == RemoveAt(s, k)
            at(i) == IF i < k THEN i ELSE i + 1
<1>1. /\ Len(s) \in Nat /\ DOMAIN s = 1..Len(s) /\ DOMAIN r = 1..(Len(s) - 1)
      /\ \A i \in 1..(Len(s) - 1) : r[i] = s[at(i)]
  BY RemoveAtAt
<1>2. \A i \in 1..(Len(s) - 1) : at(i) \in 1..Len(s) /\ at(i) # k
  BY <1>1
<1>3. \A i, j \in 1..(Len(s) - 1) : at(i) = at(j) => i = j
  BY <1>1
<1>4. \A i \in 1..Len(s) : i # k => \E j \in 1..(Len(s) - 1) : at(j) = i
  <2>. SUFFICES ASSUME NEW i \in 1..Len(s), i # k PROVE \E j \in 1..(Len(s) - 1) : at(j) = i
    OBVIOUS
  <2>1. CASE i < k
    <3>1. i \in 1..(Len(s) - 1) /\ at(i) = i
      BY <1>1, <2>1
    <3>. QED
      BY <3>1
  <2>2. CASE i > k
    <3>1. i - 1 \in 1..(Len(s) - 1) /\ at(i - 1) = i
      BY <1>1, <2>2
    <3>. QED
      BY <3>1
  <2>. QED
    BY <1>1, <2>1, <2>2
<1>5. \A i, j \in 1..Len(s) : s[i] = s[j] => i = j
  BY <1>1 DEF IsInjective
<1>. HIDE DEF r, at
<1>6. IsInjective(r)
  BY <1>1, <1>2, <1>3, <1>5 DEF IsInjective
<1>7. ASSUME NEW x \in ToSet(r) PROVE x \in ToSet(s) \ {s[k]}
  <2>1. PICK i \in 1..(Len(s) - 1) : r[i] = x
    BY <1>1, <1>7 DEF ToSet
  <2>. QED
    BY <1>1, <1>2, <1>5, <2>1 DEF ToSet
<1>8. ASSUME NEW x \in ToSet(s) \ {s[k]} PROVE x \in ToSet(r)
  <2>1. PICK i \in 1..Len(s) : s[i] = x
    BY <1>1, <1>8 DEF ToSet
  <2>2. PICK j \in 1..(Len(s) - 1) : at(j) = i
    BY <1>4, <1>8, <2>1
  <2>. QED
    BY <1>1, <2>1, <2>2 DEF ToSet
<1>. QED
  BY <1>6, <1>7, <1>8 DEF r

\* a set of numbers has a least one, if it has any
LEMMA LeastNumber ==
  ASSUME NEW T \in SUBSET Nat, T # {}
  PROVE  \E m \in T : \A k \in T : m <= k
<1>1. PICK x \in T : \A y \in T : ~(<<y, x>> \in OpToRel(<, Nat))
  BY NatLessThanWellFounded, WFMin
<1>2. \A y \in T : ~(y < x)
  BY <1>1 DEF OpToRel
<1>. QED
  BY <1>2

\* the function of a loop: from a state of X to what out says of the state it stops in
Loop(X, stop, nxt, out, f) == [x \in X |-> IF x \in stop THEN out[x] ELSE f[nxt[x]]]

\* every turn of the loop takes mu down
CountsDown(X, stop, nxt, b, mu) ==
  /\ nxt \in [X -> X] /\ b \in Nat /\ mu \in [X -> 0..b]
  /\ \A x \in X : x \notin stop => mu[nxt[x]] < mu[x]

\* a loop that counts down has a function
LEMMA LoopFunction ==
  ASSUME NEW X, NEW stop, NEW nxt, NEW out, NEW b, NEW mu, CountsDown(X, stop, nxt, b, mu)
  PROVE  \E f : f = Loop(X, stop, nxt, out, f)
<1>. USE DEF CountsDown
<1>. DEFINE Body(f, x) == IF x \in stop THEN out[x] ELSE f[nxt[x]]
            Upto(m) == \E f : \A x \in X : mu[x] < m => f[x] = Body(f, x)
            fails == {m \in Nat : ~Upto(m)}
<1>0. \A x \in X : mu[x] \in Nat /\ mu[x] <= b /\ nxt[x] \in X
  OBVIOUS
<1>1. ASSUME NEW m \in fails, \A k \in fails : m <= k PROVE FALSE
  <2>1. m # 0
    <3>1. Upto(0)
      BY <1>0
    <3>. QED
      BY <1>1, <3>1
  <2>2. m - 1 \in Nat /\ m \in Nat /\ ~(m - 1 \in fails)
    BY <1>1, <2>1
  <2>3. Upto(m - 1)
    BY <2>2
  <2>4. PICK f : \A x \in X : mu[x] < m - 1 => f[x] = Body(f, x)
    BY <2>3
  <2>5. PICK g : g = [x \in X |-> IF mu[x] < m - 1 THEN f[x] ELSE Body(f, x)]
    OBVIOUS
  <2>6. ASSUME NEW x \in X, mu[x] < m PROVE g[x] = Body(g, x)
    <3>1. g[x] = Body(f, x)
      BY <2>4, <2>5
    <3>2. CASE x \in stop
      BY <3>1, <3>2
    <3>3. CASE x \notin stop
      <4>1. mu[nxt[x]] < m - 1
        BY <1>0, <2>2, <2>6, <3>3
      <4>2. g[nxt[x]] = f[nxt[x]]
        BY <1>0, <2>5, <4>1
      <4>. QED
        BY <3>1, <3>3, <4>2
    <3>. QED
      BY <3>2, <3>3
  <2>7. Upto(m)
    BY <2>6
  <2>. QED
    BY <1>1, <2>7
<1>2. fails = {}
  <2>. SUFFICES ASSUME fails # {} PROVE FALSE
    OBVIOUS
  <2>1. \E m \in fails : \A k \in fails : m <= k
    <3>1. fails \in SUBSET Nat
      OBVIOUS
    <3>. HIDE DEF fails
    <3>. QED
      BY <3>1, LeastNumber
  <2>. QED
    BY <1>1, <2>1
<1>3. Upto(b + 1)
  <2>1. b + 1 \in Nat
    OBVIOUS
  <2>2. ~(b + 1 \in fails)
    <3>. HIDE DEF fails
    <3>. QED
      BY <1>2
  <2>. QED
    BY <2>1, <2>2
<1>4. PICK f : \A x \in X : mu[x] < b + 1 => f[x] = Body(f, x)
  BY <1>3
<1>5. \A x \in X : f[x] = Body(f, x)
  BY <1>0, <1>4
<1>6. PICK g : g = [x \in X |-> f[x]]
  OBVIOUS
<1>7. \A x \in X : g[x] = Body(g, x)
  BY <1>0, <1>5, <1>6
<1>8. g = [x \in X |-> Body(g, x)]
  BY <1>6, <1>7
<1>. QED
  BY <1>8 DEF Loop

\* what a loop keeps true is true of the state it stops in
LEMMA LoopRule ==
  ASSUME NEW X, NEW stop, NEW nxt, NEW out, NEW b, NEW mu, CountsDown(X, stop, nxt, b, mu),
         NEW f, f = Loop(X, stop, nxt, out, f),
         NEW I \in SUBSET X, \A x \in I : x \notin stop => nxt[x] \in I,
         NEW start \in I
  PROVE  \E y \in I : y \in stop /\ f[start] = out[y]
<1>. USE DEF CountsDown
<1>. DEFINE Ends(x) == \E y \in I : y \in stop /\ f[x] = out[y]
            bad == {m \in Nat : \E x \in I : mu[x] = m /\ ~Ends(x)}
<1>0. \A x \in I : x \in X /\ mu[x] \in Nat
  OBVIOUS
<1>1. ASSUME NEW m \in bad, \A k \in bad : m <= k PROVE FALSE
  <2>1. PICK x \in I : mu[x] = m /\ ~Ends(x)
    OBVIOUS
  <2>2. f[x] = IF x \in stop THEN out[x] ELSE f[nxt[x]]
    BY <1>0 DEF Loop
  <2>3. x \notin stop
    BY <2>1, <2>2
  <2>4. nxt[x] \in I /\ mu[nxt[x]] < m /\ f[x] = f[nxt[x]]
    BY <1>0, <2>1, <2>2, <2>3
  <2>5. ~Ends(nxt[x])
    BY <2>1, <2>4
  <2>6. mu[nxt[x]] \in bad
    BY <1>0, <2>4, <2>5
  <2>. QED
    BY <1>0, <1>1, <2>4, <2>6
<1>2. bad = {}
  <2>. SUFFICES ASSUME bad # {} PROVE FALSE
    OBVIOUS
  <2>1. \E m \in bad : \A k \in bad : m <= k
    <3>1. bad \in SUBSET Nat
      OBVIOUS
    <3>. HIDE DEF bad
    <3>. QED
      BY <3>1, LeastNumber
  <2>. QED
    BY <1>1, <2>1
<1>. QED
  BY <1>0, <1>2
-----------------------------------------------------------------------------
(* The two loops of container/heap. *)

\* swapping two of its items leaves a heap one of the same items
LEMMA SwapType ==
  ASSUME NEW n \in Nat, NEW S, NEW h \in [1..n -> S], NEW i \in 1..n, NEW j \in 1..n
  PROVE  /\ Swap(h, i, j) \in [1..n -> S]
         /\ \A a \in 1..n : Swap(h, i, j)[a] = IF a = i THEN h[j] ELSE IF a = j THEN h[i] ELSE h[a]
<1>1. Swap(h, i, j) \in [1..n -> S]
  BY DEF Swap
<1>2. \A a \in 1..n : Swap(h, i, j)[a] = IF a = i THEN h[j] ELSE IF a = j THEN h[i] ELSE h[a]
  BY DEF Swap
<1>. QED
  BY <1>1, <1>2

UpStops(k, j) == j = 1 \/ ~Less(k[j], k[j \div 2])
DownStops(k, i, n) == 2 * i > n \/ ~Less(k[LesserChild(k, i, n)], k[i])

\* heap.up ends in a state that its loop can reach and stops in
LEMMA SiftUpRule ==
  ASSUME NEW S, NEW h \in Seq(S), NEW from \in 1..Len(h),
         NEW I \in SUBSET Sifting(h), <<h, from>> \in I,
         \A s \in I : ~UpStops(s[1], s[2]) => <<Swap(s[1], s[2], s[2] \div 2), s[2] \div 2>> \in I
  PROVE  \E s \in I : UpStops(s[1], s[2]) /\ SiftUp(h, from) = s[1]
<1>. DEFINE X == Sifting(h)
            stop == {s \in X : UpStops(s[1], s[2])}
            out == [s \in X |-> s[1]]
            nxt == [s \in X |-> IF s \in stop THEN s
                                 ELSE <<Swap(s[1], s[2], s[2] \div 2), s[2] \div 2>>]
            mu == [s \in X |-> s[2]]
            Body(f, s) == IF s \in stop THEN out[s] ELSE f[nxt[s]]
<1>1. Len(h) \in Nat /\ DOMAIN h = 1..Len(h)
  OBVIOUS
<1>2. \A s \in X : /\ s = <<s[1], s[2]>> /\ s[2] \in 1..Len(h)
                   /\ s[1] \in [1..Len(h) -> Range(h)]
  BY DEF Sifting
<1>3. ASSUME NEW s \in X, s \notin stop
      PROVE  /\ s[2] \div 2 \in 1..Len(h) /\ s[2] \div 2 < s[2]
             /\ <<Swap(s[1], s[2], s[2] \div 2), s[2] \div 2>> \in X
  <2>1. s[2] # 1 /\ s[2] \in 1..Len(h)
    BY <1>2, <1>3 DEF UpStops
  <2>2. s[2] \div 2 \in 1..Len(h) /\ s[2] \div 2 < s[2]
    BY <1>1, <2>1
  <2>3. PICK k \in [1..Len(h) -> Range(h)], i \in 1..Len(h), j \in 1..Len(h) :
            k = s[1] /\ i = s[2] /\ j = s[2] \div 2
    BY <1>2, <2>2
  <2>4. Swap(k, i, j) \in [1..Len(h) -> Range(h)]
    BY <1>1, SwapType
  <2>. QED
    BY <2>2, <2>3, <2>4 DEF Sifting
<1>4. CountsDown(X, stop, nxt, Len(h), mu)
  <2>1. nxt \in [X -> X]
    BY <1>3
  <2>2. mu \in [X -> 0..Len(h)]
    BY <1>1, <1>2
  <2>3. \A s \in X : s \notin stop => mu[nxt[s]] < mu[s]
    BY <1>3
  <2>. HIDE DEF X, stop, nxt, mu
  <2>. QED
    BY <1>1, <2>1, <2>2, <2>3 DEF CountsDown
<1>5. \A s \in I : s \notin stop => nxt[s] \in I
  BY <1>3
<1>. DEFINE Up(f) == [s \in Sifting(h) |->
                        LET k == s[1]  j == s[2]
                        IN  IF j = 1 \/ ~Less(k[j], k[j \div 2])
                            THEN k
                            ELSE f[<<Swap(k, j, j \div 2), j \div 2>>]]
            up == CHOOSE f : f = Up(f)
<1>6. \A f : Loop(X, stop, nxt, out, f) = Up(f)
  BY DEF UpStops, Loop
<1>7. up = Loop(X, stop, nxt, out, up)
  <2>. HIDE DEF X, stop, nxt, out, mu, Up
  <2>1. \E f : f = Loop(X, stop, nxt, out, f)
    BY <1>4, LoopFunction
  <2>. QED
    BY <1>6, <2>1
<1>8. SiftUp(h, from) = up[<<h, from>>]
  BY DEF SiftUp
<1>9. \E s \in I : s \in stop /\ up[<<h, from>>] = out[s]
  <2>1. I \in SUBSET X
    OBVIOUS
  <2>. HIDE DEF X, stop, out, nxt, mu, up
  <2>. QED
    BY <1>4, <1>5, <1>7, <2>1, LoopRule
<1>. QED
  <2>. HIDE DEF up
  <2>. QED
    BY <1>8, <1>9

\* the child heap.down looks at is a child, and not above the other one
LEMMA ChildPlace ==
  ASSUME NEW k, NEW i \in Nat, NEW n \in Nat, i > 0, 2 * i <= n
  PROVE  /\ LesserChild(k, i, n) \in Nat /\ LesserChild(k, i, n) \div 2 = i
         /\ i < LesserChild(k, i, n) /\ LesserChild(k, i, n) <= n
<1>1. LesserChild(k, i, n) \in {2 * i, 2 * i + 1} /\ LesserChild(k, i, n) <= n
  BY DEF LesserChild
<1>2. (2 * i) \div 2 = i /\ (2 * i + 1) \div 2 = i
  OBVIOUS
<1>. QED
  BY <1>1, <1>2

\* heap.down ends in a state that its loop can reach and stops in
LEMMA SiftDownRule ==
  ASSUME NEW S, NEW h \in Seq(S), h # <<>>, NEW n \in Nat, n <= Len(h),
         NEW I \in SUBSET Sifting(h), <<h, 1>> \in I,
         \A s \in I : ~DownStops(s[1], s[2], n) =>
           <<Swap(s[1], s[2], LesserChild(s[1], s[2], n)), LesserChild(s[1], s[2], n)>> \in I
  PROVE  \E s \in I : DownStops(s[1], s[2], n) /\ SiftDown(h, n) = s[1]
<1>. DEFINE X == Sifting(h)
            child(s) == LesserChild(s[1], s[2], n)
            stop == {s \in X : DownStops(s[1], s[2], n)}
            out == [s \in X |-> s[1]]
            nxt == [s \in X |-> IF s \in stop THEN s
                                 ELSE <<Swap(s[1], s[2], child(s)), child(s)>>]
            mu == [s \in X |-> Len(h) - s[2]]
<1>1. Len(h) \in Nat /\ DOMAIN h = 1..Len(h)
  OBVIOUS
<1>2. \A s \in X : /\ s = <<s[1], s[2]>> /\ s[2] \in 1..Len(h)
                   /\ s[1] \in [1..Len(h) -> Range(h)]
  BY DEF Sifting
<1>3. ASSUME NEW s \in X, s \notin stop
      PROVE  /\ child(s) \in 1..Len(h) /\ s[2] < child(s)
             /\ <<Swap(s[1], s[2], child(s)), child(s)>> \in X
  <2>1. ~(2 * s[2] > n)
    BY <1>2, <1>3 DEF DownStops
  <2>2. s[2] \in Nat /\ s[2] > 0 /\ 2 * s[2] <= n
    BY <1>1, <1>2, <2>1
  <2>3. child(s) \in Nat /\ s[2] < child(s) /\ child(s) <= n
    BY <2>2, ChildPlace
  <2>4. child(s) \in 1..Len(h)
    BY <1>1, <2>2, <2>3
  <2>5. PICK k \in [1..Len(h) -> Range(h)], i \in 1..Len(h), j \in 1..Len(h) :
            k = s[1] /\ i = s[2] /\ j = child(s)
    BY <1>2, <2>4
  <2>6. Swap(k, i, j) \in [1..Len(h) -> Range(h)]
    BY <1>1, SwapType
  <2>. QED
    BY <2>3, <2>4, <2>5, <2>6 DEF Sifting
<1>4. CountsDown(X, stop, nxt, Len(h), mu)
  <2>1. nxt \in [X -> X]
    BY <1>3
  <2>2. mu \in [X -> 0..Len(h)]
    BY <1>1, <1>2
  <2>3. ASSUME NEW s \in X, s \notin stop PROVE mu[nxt[s]] < mu[s]
    <3>1. nxt[s] \in X /\ nxt[s][2] = child(s)
      BY <1>3, <2>1, <2>3
    <3>2. mu[nxt[s]] = Len(h) - child(s) /\ mu[s] = Len(h) - s[2]
      BY <3>1
    <3>3. child(s) \in 1..Len(h) /\ s[2] < child(s)
      BY <1>3, <2>3
    <3>4. s[2] \in 1..Len(h)
      BY <1>2
    <3>. HIDE DEF X, stop, nxt, mu, child
    <3>. QED
      BY <1>1, <3>2, <3>3, <3>4
  <2>. HIDE DEF X, stop, nxt, mu
  <2>. QED
    BY <1>1, <2>1, <2>2, <2>3 DEF CountsDown
<1>5. \A s \in I : s \notin stop => nxt[s] \in I
  BY <1>3
<1>. DEFINE Down(f) == [s \in Sifting(h) |->
                          LET k == s[1]  i == s[2]  c == LesserChild(k, i, n)
                          IN  IF 2 * i > n \/ ~Less(k[c], k[i])
                              THEN k
                              ELSE f[<<Swap(k, i, c), c>>]]
            down == CHOOSE f : f = Down(f)
<1>6. \A f : Loop(X, stop, nxt, out, f) = Down(f)
  BY DEF DownStops, Loop
<1>7. down = Loop(X, stop, nxt, out, down)
  <2>. HIDE DEF X, stop, nxt, out, mu, Down
  <2>1. \E f : f = Loop(X, stop, nxt, out, f)
    BY <1>4, LoopFunction
  <2>. QED
    BY <1>6, <2>1
<1>8. SiftDown(h, n) = down[<<h, 1>>]
  BY DEF SiftDown
<1>9. \E s \in I : s \in stop /\ down[<<h, 1>>] = out[s]
  <2>1. I \in SUBSET X
    OBVIOUS
  <2>. HIDE DEF X, stop, out, nxt, mu, down
  <2>. QED
    BY <1>4, <1>5, <1>7, <2>1, LoopRule
<1>. QED
  <2>. HIDE DEF down
  <2>. QED
    BY <1>8, <1>9

-----------------------------------------------------------------------------
(* The order of the heap.  R is any order that Less respects: a is before   *)
(* b, or may as well be.                                                    *)

Respects(R, S) ==
  /\ \A a, b, c \in S : <<a, b>> \in R /\ <<b, c>> \in R => <<a, c>> \in R
  /\ \A a, b \in S : Less(a, b) => <<a, b>> \in R
  /\ \A a, b \in S : ~Less(b, a) => <<a, b>> \in R

\* the first n places of h: no child before its parent
HeapOrdered(R, h, n) == \A k \in 2..n : <<h[k \div 2], h[k]>> \in R

\* ... but for the item at j, which may have to go up
OrderedButAbove(R, h, j, n) ==
  /\ \A k \in 2..n : k # j => <<h[k \div 2], h[k]>> \in R
  /\ \A k \in 2..n : j > 1 /\ k \div 2 = j => <<h[j \div 2], h[k]>> \in R

\* ... but for the item at j, which may have to go down
OrderedButBelow(R, h, j, n) ==
  /\ \A k \in 2..n : k \div 2 # j => <<h[k \div 2], h[k]>> \in R
  /\ \A k \in 2..n : j > 1 /\ k \div 2 = j => <<h[j \div 2], h[k]>> \in R

\* one turn of heap.up
LEMMA UpTurn ==
  ASSUME NEW n \in Nat, NEW S, NEW h \in [1..n -> S], NEW R, Respects(R, S),
         NEW j \in 2..n, OrderedButAbove(R, h, j, n), Less(h[j], h[j \div 2])
  PROVE  OrderedButAbove(R, Swap(h, j, j \div 2), j \div 2, n)
<1>1. PICK p \in 1..n : p = j \div 2 /\ p < j
  OBVIOUS
<1>2. j \in 1..n
  OBVIOUS
<1>3. PICK g \in [1..n -> S] : g = Swap(h, j, p)
  BY <1>2, SwapType
<1>4. /\ g[j] = h[p] /\ g[p] = h[j]
      /\ \A a \in 1..n : a # j /\ a # p => g[a] = h[a]
  BY <1>1, <1>2, <1>3, SwapType
<1>5. \A k \in 2..n : k \in 1..n /\ k \div 2 \in 1..n /\ k \div 2 # k
  OBVIOUS
<1>6. \A a \in 1..n : h[a] \in S
  OBVIOUS
<1>7. <<h[j], h[p]>> \in R
  BY <1>1, <1>2, <1>6 DEF Respects
<1>8. ASSUME NEW k \in 2..n, k # p PROVE <<g[k \div 2], g[k]>> \in R
  <2>1. CASE k = j
    BY <1>1, <1>4, <1>7, <2>1
  <2>2. CASE k # j /\ k \div 2 = j
    <3>1. <<h[p], h[k]>> \in R
      BY <1>1, <2>2 DEF OrderedButAbove
    <3>. QED
      BY <1>4, <1>5, <1>8, <2>2, <3>1
  <2>3. CASE k # j /\ k \div 2 = p
    <3>1. <<h[p], h[k]>> \in R
      BY <2>3 DEF OrderedButAbove
    <3>2. <<h[j], h[k]>> \in R
      BY <1>2, <1>5, <1>6, <1>7, <3>1 DEF Respects
    <3>. QED
      BY <1>4, <1>5, <1>8, <2>3, <3>2
  <2>4. CASE k # j /\ k \div 2 # j /\ k \div 2 # p
    <3>1. <<h[k \div 2], h[k]>> \in R
      BY <2>4 DEF OrderedButAbove
    <3>. QED
      BY <1>4, <1>5, <1>8, <2>4, <3>1
  <2>. QED
    BY <2>1, <2>2, <2>3, <2>4
<1>9. ASSUME NEW k \in 2..n, p > 1, k \div 2 = p PROVE <<g[p \div 2], g[k]>> \in R
  <2>1. p \in 2..n /\ p # j /\ p \div 2 \in 1..n /\ p \div 2 # p /\ p \div 2 # j
    BY <1>1, <1>9
  <2>2. <<h[p \div 2], h[p]>> \in R /\ g[p \div 2] = h[p \div 2]
    BY <1>4, <2>1 DEF OrderedButAbove
  <2>3. CASE k = j
    BY <1>4, <2>2, <2>3
  <2>4. CASE k # j
    <3>1. <<h[p], h[k]>> \in R
      BY <1>9, <2>4 DEF OrderedButAbove
    <3>2. <<h[p \div 2], h[k]>> \in R
      BY <1>5, <1>6, <2>1, <2>2, <3>1 DEF Respects
    <3>. QED
      BY <1>4, <1>5, <1>9, <2>2, <2>4, <3>2
  <2>. QED
    BY <2>3, <2>4
<1>. QED
  BY <1>1, <1>3, <1>8, <1>9 DEF OrderedButAbove

\* one turn of heap.down
LEMMA DownTurn ==
  ASSUME NEW m \in Nat, NEW S, NEW h \in [1..m -> S], NEW R, Respects(R, S),
         NEW n \in Nat, n <= m, NEW i \in 1..n, 2 * i <= n,
         OrderedButBelow(R, h, i, n), Less(h[LesserChild(h, i, n)], h[i])
  PROVE  /\ OrderedButBelow(R, Swap(h, i, LesserChild(h, i, n)), LesserChild(h, i, n), n)
         /\ \A a \in (n + 1)..m : Swap(h, i, LesserChild(h, i, n))[a] = h[a]
<1>1. PICK c \in 1..n : c = LesserChild(h, i, n) /\ c \div 2 = i /\ i < c
  BY ChildPlace
<1>2. i \in 1..m /\ c \in 1..m /\ i \in 1..n
  OBVIOUS
<1>3. PICK g \in [1..m -> S] : g = Swap(h, i, c)
  BY <1>2, SwapType
<1>4. /\ g[i] = h[c] /\ g[c] = h[i]
      /\ \A a \in 1..m : a # i /\ a # c => g[a] = h[a]
  BY <1>1, <1>2, <1>3, SwapType
<1>5. \A k \in 2..n : k \in 1..m /\ k \div 2 \in 1..m /\ k \div 2 # k
  OBVIOUS
<1>6. \A a \in 1..m : h[a] \in S
  OBVIOUS
<1>7. <<h[c], h[i]>> \in R
  BY <1>1, <1>2, <1>6 DEF Respects
<1>8. ASSUME NEW k \in 2..n, k \div 2 = i, k # c PROVE <<h[c], h[k]>> \in R
  <2>1. k = 2 * i \/ k = 2 * i + 1
    BY <1>8
  <2>2. CASE k = 2 * i
    <3>1. c = 2 * i + 1 /\ Less(h[c], h[k])
      BY <1>1, <1>8, <2>2 DEF LesserChild
    <3>. QED
      BY <1>2, <1>5, <1>6, <3>1 DEF Respects
  <2>3. CASE k = 2 * i + 1
    <3>1. c = 2 * i /\ ~Less(h[k], h[c])
      BY <1>1, <1>8, <2>3 DEF LesserChild
    <3>. QED
      BY <1>2, <1>5, <1>6, <3>1 DEF Respects
  <2>. QED
    BY <2>1, <2>2, <2>3
<1>9. ASSUME NEW k \in 2..n, k \div 2 # c PROVE <<g[k \div 2], g[k]>> \in R
  <2>1. CASE k = c
    BY <1>1, <1>4, <1>7, <2>1
  <2>2. CASE k # c /\ k \div 2 = i
    BY <1>4, <1>5, <1>8, <2>2
  <2>3. CASE k = i
    <3>1. <<h[i \div 2], h[c]>> \in R
      BY <1>1, <2>3 DEF OrderedButBelow
    <3>. QED
      BY <1>1, <1>4, <1>5, <1>9, <2>3, <3>1
  <2>4. CASE k # c /\ k # i /\ k \div 2 # i
    <3>1. <<h[k \div 2], h[k]>> \in R
      BY <2>4 DEF OrderedButBelow
    <3>. QED
      BY <1>4, <1>5, <1>9, <2>4, <3>1
  <2>. QED
    BY <2>1, <2>2, <2>3, <2>4
<1>10. ASSUME NEW k \in 2..n, k \div 2 = c PROVE <<g[c \div 2], g[k]>> \in R
  <2>1. k # i /\ k # c /\ k \in 1..m
    BY <1>1, <1>5, <1>10
  <2>2. <<h[c], h[k]>> \in R
    BY <1>1, <1>10 DEF OrderedButBelow
  <2>. QED
    BY <1>1, <1>4, <2>1, <2>2
<1>11. \A a \in (n + 1)..m : g[a] = h[a]
  BY <1>4
<1>. QED
  BY <1>1, <1>3, <1>9, <1>10, <1>11 DEF OrderedButBelow

-----------------------------------------------------------------------------
(* The items of the heap. *)

\* k has the items of h, at places that p names and q names back
Rearranged(h, k, n) ==
  \E p, q \in [1..n -> 1..n] :
    \A i \in 1..n : p[q[i]] = i /\ q[p[i]] = i /\ k[i] = h[p[i]]

\* to begin with every item is where it is
LEMMA RearrangedSelf == ASSUME NEW n, NEW h PROVE Rearranged(h, h, n)
<1>1. PICK p \in [1..n -> 1..n] : p = [i \in 1..n |-> i]
  OBVIOUS
<1>. QED
  BY <1>1 DEF Rearranged

\* two items swapped in what has the items of h
LEMMA RearrangedSwap ==
  ASSUME NEW n \in Nat, NEW S, NEW h, NEW k \in [1..n -> S], Rearranged(h, k, n),
         NEW i \in 1..n, NEW j \in 1..n
  PROVE  Rearranged(h, Swap(k, i, j), n)
<1>1. PICK p \in [1..n -> 1..n], q \in [1..n -> 1..n] :
        \A a \in 1..n : p[q[a]] = a /\ q[p[a]] = a /\ k[a] = h[p[a]]
  BY DEF Rearranged
<1>2. PICK g \in [1..n -> S] : g = Swap(k, i, j)
  BY SwapType
<1>3. \A a \in 1..n : g[a] = IF a = i THEN k[j] ELSE IF a = j THEN k[i] ELSE k[a]
  BY <1>2 DEF Swap
<1>4. PICK t \in [1..n -> 1..n] :
        t = [a \in 1..n |-> IF a = i THEN j ELSE IF a = j THEN i ELSE a]
  OBVIOUS
<1>5. \A a \in 1..n : t[t[a]] = a /\ g[a] = k[t[a]] /\ t[a] \in 1..n
  BY <1>3, <1>4
<1>6. PICK u \in [1..n -> 1..n] : \A a \in 1..n : u[a] = p[t[a]]
  <2>1. [a \in 1..n |-> p[t[a]]] \in [1..n -> 1..n]
    OBVIOUS
  <2>. QED
    BY <2>1
<1>7. PICK v \in [1..n -> 1..n] : \A a \in 1..n : v[a] = t[q[a]]
  <2>1. [a \in 1..n |-> t[q[a]]] \in [1..n -> 1..n]
    OBVIOUS
  <2>. QED
    BY <2>1
<1>8. ASSUME NEW a \in 1..n PROVE u[v[a]] = a /\ v[u[a]] = a /\ g[a] = h[u[a]]
  <2>1. u[v[a]] = a
    <3>1. q[a] \in 1..n /\ v[a] = t[q[a]] /\ v[a] \in 1..n
      BY <1>7
    <3>2. t[v[a]] = q[a]
      BY <1>5, <3>1
    <3>. QED
      BY <1>1, <1>6, <3>1, <3>2
  <2>2. v[u[a]] = a
    <3>1. t[a] \in 1..n /\ u[a] = p[t[a]] /\ u[a] \in 1..n
      BY <1>5, <1>6
    <3>2. q[u[a]] = t[a]
      BY <1>1, <3>1
    <3>. QED
      BY <1>5, <1>7, <3>1, <3>2
  <2>3. g[a] = h[u[a]]
    <3>1. t[a] \in 1..n /\ g[a] = k[t[a]] /\ u[a] = p[t[a]]
      BY <1>5, <1>6
    <3>2. k[t[a]] = h[p[t[a]]]
      BY <1>1, <3>1
    <3>. QED
      BY <3>1, <3>2
  <2>. QED
    BY <2>1, <2>2, <2>3
<1>9. Rearranged(h, g, n)
  BY <1>8 DEF Rearranged
<1>. QED
  BY <1>2, <1>9

-----------------------------------------------------------------------------
(* heap.Push and heap.Pop. *)

\* heap.Push keeps the order and adds one item
LEMMA PushKeepsHeap ==
  ASSUME NEW S, NEW h \in Seq(S), NEW x \in S,
         NEW R, Respects(R, S), HeapOrdered(R, h, Len(h))
  PROVE  /\ HeapPush(h, x) \in [1..(Len(h) + 1) -> S]
         /\ Rearranged(Append(h, x), HeapPush(h, x), Len(h) + 1)
         /\ HeapOrdered(R, HeapPush(h, x), Len(h) + 1)
<1>0. PICK n \in Nat \ {0} : n = Len(h) + 1
  OBVIOUS
<1>1. PICK g \in Seq(S) : n = Len(h) + 1 /\ g = Append(h, x)
  <2>1. Append(h, x) \in Seq(S)
    OBVIOUS
  <2>. QED
    BY <1>0, <2>1
<1>2. /\ Len(g) = n /\ DOMAIN g = 1..n /\ n \in 1..n
      /\ \A k \in 1..(n - 1) : g[k] = h[k]
  BY <1>1
<1>3. \A k \in [1..n -> Range(g)] : k \in [1..n -> S]
  BY <1>2 DEF Range
<1>. DEFINE I == {s \in Sifting(g) : /\ Rearranged(g, s[1], n)
                                     /\ OrderedButAbove(R, s[1], s[2], n)}
<1>4. <<g, n>> \in I
  <2>1. <<g, n>> \in Sifting(g)
    BY <1>2 DEF Sifting, Range
  <2>2. OrderedButAbove(R, g, n, n)
    <3>1. ASSUME NEW k \in 2..n, k # n PROVE <<g[k \div 2], g[k]>> \in R
      <4>1. k \in 2..Len(h) /\ k \in 1..(n - 1) /\ k \div 2 \in 1..(n - 1)
        BY <1>1, <3>1
      <4>. QED
        BY <1>2, <4>1 DEF HeapOrdered
    <3>2. \A k \in 2..n : k \div 2 # n
      OBVIOUS
    <3>. QED
      BY <3>1, <3>2 DEF OrderedButAbove
  <2>. QED
    BY <2>1, <2>2, RearrangedSelf
<1>5. ASSUME NEW s \in I, ~UpStops(s[1], s[2])
      PROVE  <<Swap(s[1], s[2], s[2] \div 2), s[2] \div 2>> \in I
  <2>1. s[1] \in [1..n -> Range(g)] /\ s[2] \in 1..n
    BY <1>2 DEF Sifting
  <2>2. PICK k \in [1..n -> Range(g)], j \in 2..n, p \in 1..n :
          k = s[1] /\ j = s[2] /\ p = s[2] \div 2
    BY <1>5, <2>1 DEF UpStops
  <2>3. k \in [1..n -> S] /\ n \in Nat /\ j \in 1..n
    BY <1>3
  <2>4. Swap(k, j, p) \in [1..n -> Range(g)]
    BY <2>3, SwapType
  <2>5. Rearranged(g, Swap(k, j, p), n)
    BY <2>2, <2>3, RearrangedSwap
  <2>6. OrderedButAbove(R, Swap(k, j, p), p, n)
    <3>1. Less(k[j], k[j \div 2]) /\ OrderedButAbove(R, k, j, n) /\ p = j \div 2
      BY <1>5, <2>2 DEF UpStops
    <3>. QED
      BY <2>3, <3>1, UpTurn
  <2>. QED
    BY <1>2, <2>2, <2>4, <2>5, <2>6 DEF Sifting
<1>6. PICK s \in I : UpStops(s[1], s[2]) /\ SiftUp(g, n) = s[1]
  <2>1. I \in SUBSET Sifting(g)
    OBVIOUS
  <2>. HIDE DEF I
  <2>. QED
    BY <1>2, <1>4, <1>5, <2>1, SiftUpRule
<1>7. PICK k \in [1..n -> Range(g)], j \in 1..n : k = s[1] /\ j = s[2]
  BY <1>2, <1>6 DEF Sifting
<1>8. HeapOrdered(R, k, n)
  <2>1. OrderedButAbove(R, k, j, n) /\ UpStops(k, j)
    BY <1>6, <1>7
  <2>2. ASSUME j # 1 PROVE <<k[j \div 2], k[j]>> \in R
    <3>1. ~Less(k[j], k[j \div 2]) /\ j \div 2 \in 1..n /\ k \in [1..n -> S]
      BY <1>3, <2>1, <2>2 DEF UpStops
    <3>. QED
      BY <3>1 DEF Respects
  <2>3. ASSUME NEW a \in 2..n PROVE <<k[a \div 2], k[a]>> \in R
    <3>1. CASE a = j
      <4>1. j # 1
        BY <3>1
      <4>. QED
        BY <2>2, <3>1, <4>1
    <3>2. CASE a # j
      BY <2>1, <3>2 DEF OrderedButAbove
    <3>. QED
      BY <3>1, <3>2
  <2>. QED
    BY <2>3 DEF HeapOrdered
<1>9. HeapPush(h, x) = k
  BY <1>1, <1>6, <1>7 DEF HeapPush
<1>. QED
  BY <1>1, <1>3, <1>6, <1>7, <1>8, <1>9

\* the root of an ordered heap is before every other item
LEMMA RootIsLeast ==
  ASSUME NEW S, NEW n \in Nat, NEW h \in [1..n -> S],
         NEW R, Respects(R, S), HeapOrdered(R, h, n)
  PROVE  \A a \in 2..n : <<h[1], h[a]>> \in R
<1>. DEFINE bad == {a \in 2..n : <<h[1], h[a]>> \notin R}
<1>1. ASSUME NEW a \in bad, \A b \in bad : a <= b PROVE FALSE
  <2>1. a \in 2..n /\ <<h[a \div 2], h[a]>> \in R
    BY DEF HeapOrdered
  <2>2. a \div 2 \in 1..n /\ a \div 2 < a /\ 1 \in 1..n /\ a \in 1..n
    BY <2>1
  <2>3. CASE a \div 2 = 1
    BY <2>1, <2>3
  <2>4. CASE a \div 2 # 1
    <3>1. a \div 2 \in 2..n /\ a \div 2 \notin bad
      BY <1>1, <2>2, <2>4
    <3>2. <<h[1], h[a \div 2]>> \in R
      BY <3>1
    <3>3. h[1] \in S /\ h[a \div 2] \in S /\ h[a] \in S
      BY <2>2
    <3>4. <<h[1], h[a]>> \in R
      BY <2>1, <3>2, <3>3 DEF Respects
    <3>. QED
      BY <3>4
  <2>. QED
    BY <2>3, <2>4
<1>2. bad = {}
  <2>. SUFFICES ASSUME bad # {} PROVE FALSE
    OBVIOUS
  <2>1. \E a \in bad : \A b \in bad : a <= b
    <3>1. bad \in SUBSET Nat
      OBVIOUS
    <3>. HIDE DEF bad
    <3>. QED
      BY <3>1, LeastNumber
  <2>. QED
    BY <1>1, <2>1
<1>. QED
  BY <1>2

\* heap.Pop: the last place gets the root, those before it stay in order
LEMMA PopKeepsHeap ==
  ASSUME NEW S, NEW h \in Seq(S), h # <<>>,
         NEW R, Respects(R, S), HeapOrdered(R, h, Len(h))
  PROVE  /\ PopOrder(h) \in [1..Len(h) -> S]
         /\ Rearranged(h, PopOrder(h), Len(h))
         /\ HeapOrdered(R, PopOrder(h), Len(h) - 1)
         /\ PopOrder(h)[Len(h)] = h[1]
<1>1. PICK m \in Nat \ {0} : m = Len(h)
  OBVIOUS
<1>2. h \in [1..m -> S] /\ 1 \in 1..m /\ m \in 1..m /\ m \in Nat
  BY <1>1
<1>3. PICK n \in Nat : n = m - 1 /\ n <= m
  OBVIOUS
<1>4. PICK g \in [1..m -> S] : g = Swap(h, 1, m)
  BY <1>2, SwapType
<1>5. g \in Seq(S) /\ Len(g) = m /\ DOMAIN g = 1..m /\ g # <<>>
  BY <1>1
<1>6. \A k \in [1..m -> Range(g)] : k \in [1..m -> S]
  BY <1>5 DEF Range
<1>7. g[m] = h[1] /\ \A k \in 2..n : g[k] = h[k]
  BY <1>2, <1>3, <1>4 DEF Swap
<1>. DEFINE I == {s \in Sifting(g) : /\ Rearranged(h, s[1], m)
                                     /\ OrderedButBelow(R, s[1], s[2], n)
                                     /\ s[1][m] = h[1]}
<1>8. <<g, 1>> \in I
  <2>1. <<g, 1>> \in Sifting(g)
    BY <1>2, <1>5 DEF Sifting, Range
  <2>2. OrderedButBelow(R, g, 1, n)
    <3>1. ASSUME NEW k \in 2..n, k \div 2 # 1 PROVE <<g[k \div 2], g[k]>> \in R
      <4>1. k \in 2..Len(h) /\ k \div 2 \in 2..n
        BY <1>1, <1>3, <3>1
      <4>2. <<h[k \div 2], h[k]>> \in R
        BY <4>1 DEF HeapOrdered
      <4>. QED
        BY <1>7, <4>1, <4>2
    <3>. QED
      BY <3>1 DEF OrderedButBelow
  <2>3. Rearranged(h, g, m)
    BY <1>2, <1>4, RearrangedSelf, RearrangedSwap
  <2>. QED
    BY <1>7, <2>1, <2>2, <2>3
<1>9. ASSUME NEW s \in I, ~DownStops(s[1], s[2], n)
      PROVE  <<Swap(s[1], s[2], LesserChild(s[1], s[2], n)), LesserChild(s[1], s[2], n)>> \in I
  <2>1. s[1] \in [1..m -> Range(g)] /\ s[2] \in 1..m
    BY <1>5 DEF Sifting
  <2>2. PICK k \in [1..m -> Range(g)], i \in 1..m : k = s[1] /\ i = s[2]
    BY <2>1
  <2>3. ~(2 * i > n) /\ Less(k[LesserChild(k, i, n)], k[i])
    BY <1>9, <2>2 DEF DownStops
  <2>4. 2 * i <= n /\ i > 0 /\ i \in Nat /\ i \in 1..n
    BY <1>3, <2>3
  <2>5. PICK c \in 1..m : c = LesserChild(k, i, n) /\ c # m /\ i # m
    <3>1. LesserChild(k, i, n) \in Nat /\ i < LesserChild(k, i, n) /\ LesserChild(k, i, n) <= n
      BY <2>4, ChildPlace
    <3>. HIDE DEF I
    <3>. QED
      BY <1>3, <2>4, <3>1
  <2>6. k \in [1..m -> S]
    BY <1>6
  <2>7. Swap(k, i, c) \in [1..m -> Range(g)]
    BY <1>2, SwapType
  <2>8. Rearranged(h, Swap(k, i, c), m)
    <3>1. Rearranged(h, k, m)
      BY <2>2
    <3>. QED
      BY <1>2, <2>6, <3>1, RearrangedSwap
  <2>9. OrderedButBelow(R, Swap(k, i, c), c, n)
    <3>1. OrderedButBelow(R, k, i, n)
      BY <2>2
    <3>. QED
      BY <1>2, <1>3, <2>3, <2>4, <2>5, <2>6, <3>1, DownTurn
  <2>10. Swap(k, i, c)[m] = h[1]
    <3>1. k[m] = h[1]
      BY <2>2
    <3>. QED
      BY <1>2, <2>5, <2>6, <3>1 DEF Swap
  <2>. QED
    BY <1>5, <2>2, <2>5, <2>7, <2>8, <2>9, <2>10 DEF Sifting
<1>10. PICK s \in I : DownStops(s[1], s[2], n) /\ SiftDown(g, n) = s[1]
  <2>1. I \in SUBSET Sifting(g)
    OBVIOUS
  <2>2. n <= Len(g) /\ g \in Seq(S) /\ g # <<>>
    BY <1>3, <1>5
  <2>. HIDE DEF I
  <2>. QED
    BY <1>8, <1>9, <2>1, <2>2, SiftDownRule
<1>11. PICK k \in [1..m -> S], i \in 1..m : k = s[1] /\ i = s[2]
  BY <1>5, <1>6, <1>10 DEF Sifting
<1>12. /\ Rearranged(h, k, m) /\ OrderedButBelow(R, k, i, n) /\ k[m] = h[1]
       /\ DownStops(k, i, n)
  BY <1>10, <1>11
<1>13. HeapOrdered(R, k, n)
  <2>1. ASSUME NEW a \in 2..n, a \div 2 = i PROVE <<k[i], k[a]>> \in R
    <3>1. 2 * i <= n /\ i \in Nat /\ i > 0
      BY <2>1
    <3>2. PICK c \in 1..m : c = LesserChild(k, i, n) /\ c <= n
      <4>1. LesserChild(k, i, n) \in Nat /\ i < LesserChild(k, i, n) /\ LesserChild(k, i, n) <= n
        BY <3>1, ChildPlace
      <4>. HIDE DEF I
      <4>. QED
        BY <1>3, <3>1, <4>1
    <3>3. ~Less(k[c], k[i])
      BY <1>12, <3>1, <3>2 DEF DownStops
    <3>4. k[c] \in S /\ k[i] \in S /\ a \in 1..m /\ k[a] \in S
      BY <1>3
    <3>5. <<k[i], k[c]>> \in R
      BY <3>3, <3>4 DEF Respects
    <3>6. a = 2 * i \/ a = 2 * i + 1
      BY <2>1
    <3>7. CASE a = c
      BY <3>5, <3>7
    <3>8. CASE a # c
      <4>1. <<k[c], k[a]>> \in R
        <5>1. CASE a = 2 * i
          <6>1. Less(k[c], k[a])
            BY <3>2, <3>8, <5>1 DEF LesserChild
          <6>. QED
            BY <3>4, <6>1 DEF Respects
        <5>2. CASE a = 2 * i + 1
          <6>1. ~Less(k[a], k[c])
            BY <3>2, <3>8, <5>2 DEF LesserChild
          <6>. QED
            BY <3>4, <6>1 DEF Respects
        <5>. QED
          BY <3>6, <5>1, <5>2
      <4>. QED
        BY <3>4, <3>5, <4>1 DEF Respects
    <3>. QED
      BY <3>7, <3>8
  <2>2. ASSUME NEW a \in 2..n PROVE <<k[a \div 2], k[a]>> \in R
    BY <1>12, <2>1 DEF OrderedButBelow
  <2>. QED
    BY <2>2 DEF HeapOrdered
<1>14. PopOrder(h) = k
  BY <1>1, <1>3, <1>4, <1>10, <1>11 DEF PopOrder
<1>. QED
  <2>. HIDE DEF I
  <2>. QED
    BY <1>1, <1>3, <1>12, <1>13, <1>14

\* what has the items of a heap has its set of items, and repeats none it does not repeat
LEMMA RearrangedItems ==
  ASSUME NEW S, NEW h \in Seq(S), NEW k \in [1..Len(h) -> S], Rearranged(h, k, Len(h))
  PROVE  /\ k \in Seq(S) /\ Len(k) = Len(h)
         /\ ToSet(k) = ToSet(h)
         /\ IsInjective(h) => IsInjective(k)
<1>1. PICK n \in Nat : n = Len(h)
  OBVIOUS
<1>2. k \in Seq(S) /\ Len(k) = n /\ DOMAIN k = 1..n /\ DOMAIN h = 1..n
  BY <1>1
<1>3. PICK p \in [1..n -> 1..n], q \in [1..n -> 1..n] :
        \A i \in 1..n : p[q[i]] = i /\ q[p[i]] = i /\ k[i] = h[p[i]]
  <2>1. Rearranged(h, k, n)
    BY <1>1
  <2>. QED
    BY <2>1 DEF Rearranged
<1>4. ASSUME NEW x \in ToSet(k) PROVE x \in ToSet(h)
  <2>1. PICK i \in 1..n : x = k[i]
    BY <1>2, <1>4 DEF ToSet
  <2>. QED
    BY <1>2, <1>3, <2>1 DEF ToSet
<1>5. ASSUME NEW x \in ToSet(h) PROVE x \in ToSet(k)
  <2>1. PICK i \in 1..n : x = h[i]
    BY <1>2, <1>5 DEF ToSet
  <2>2. q[i] \in 1..n /\ k[q[i]] = x
    BY <1>3, <2>1
  <2>. QED
    BY <1>2, <2>2 DEF ToSet
<1>6. ASSUME IsInjective(h), NEW i \in 1..n, NEW j \in 1..n, k[i] = k[j] PROVE i = j
  <2>1. p[i] \in 1..n /\ p[j] \in 1..n /\ h[p[i]] = h[p[j]]
    BY <1>3, <1>6
  <2>2. p[i] = p[j]
    BY <1>2, <1>6, <2>1 DEF IsInjective
  <2>3. q[p[i]] = i /\ q[p[j]] = j
    BY <1>3
  <2>. QED
    BY <2>2, <2>3
<1>7. IsInjective(h) => IsInjective(k)
  BY <1>2, <1>6 DEF IsInjective
<1>. QED
  BY <1>1, <1>2, <1>4, <1>5, <1>7

\* any two items are in the relation of all pairs
LEMMA AnyOrder == ASSUME NEW S, NEW h \in Seq(S)
                  PROVE Respects(S \X S, S) /\ HeapOrdered(S \X S, h, Len(h))
<1>1. Respects(S \X S, S)
  BY DEF Respects
<1>2. \A k \in 2..Len(h) : k \in 1..Len(h) /\ k \div 2 \in 1..Len(h)
  OBVIOUS
<1>3. \A k \in 1..Len(h) : h[k] \in S
  OBVIOUS
<1>. QED
  BY <1>1, <1>2, <1>3 DEF HeapOrdered

\* heap.Push puts one more item in the heap
LEMMA PushItems ==
  ASSUME NEW S, NEW h \in Seq(S), NEW x \in S
  PROVE  /\ HeapPush(h, x) \in Seq(S) /\ Len(HeapPush(h, x)) = Len(h) + 1
         /\ ToSet(HeapPush(h, x)) = ToSet(h) \cup {x}
         /\ IsInjective(h) /\ x \notin ToSet(h) => IsInjective(HeapPush(h, x))
<1>1. /\ HeapPush(h, x) \in [1..(Len(h) + 1) -> S]
      /\ Rearranged(Append(h, x), HeapPush(h, x), Len(h) + 1)
  BY AnyOrder, PushKeepsHeap
<1>2. Append(h, x) \in Seq(S) /\ Len(Append(h, x)) = Len(h) + 1
  OBVIOUS
<1>3. PICK g \in Seq(S) : g = Append(h, x) /\ Len(g) = Len(h) + 1
  BY <1>2
<1>4. PICK k \in [1..Len(g) -> S] : k = HeapPush(h, x) /\ Rearranged(g, k, Len(g))
  BY <1>1, <1>3
<1>5. /\ k \in Seq(S) /\ Len(k) = Len(g) /\ ToSet(k) = ToSet(g)
      /\ IsInjective(g) => IsInjective(k)
  BY <1>4, RearrangedItems
<1>6. ToSet(g) = ToSet(h) \cup {x}
  BY <1>3, AppendSet
<1>7. IsInjective(h) /\ x \notin ToSet(h) => IsInjective(g)
  BY <1>3, AppendNew
<1>. QED
  BY <1>3, <1>4, <1>5, <1>6, <1>7

\* heap.Pop takes the root out of the heap
LEMMA PopItems ==
  ASSUME NEW S, NEW h \in Seq(S), h # <<>>
  PROVE  /\ HeapTop(h) = h[1] /\ h[1] \in ToSet(h) /\ h[1] \in S
         /\ HeapRest(h) \in Seq(S) /\ Len(HeapRest(h)) = Len(h) - 1
         /\ \A i \in 1..(Len(h) - 1) : HeapRest(h)[i] = PopOrder(h)[i]
         /\ IsInjective(h) => /\ ToSet(HeapRest(h)) = ToSet(h) \ {h[1]}
                              /\ IsInjective(HeapRest(h))
<1>1. /\ PopOrder(h) \in [1..Len(h) -> S]
      /\ Rearranged(h, PopOrder(h), Len(h))
      /\ PopOrder(h)[Len(h)] = h[1]
  BY AnyOrder, PopKeepsHeap
<1>2. PICK n \in Nat \ {0} : n = Len(h)
  OBVIOUS
<1>3. PICK k \in [1..n -> S] : k = PopOrder(h)
  BY <1>1, <1>2
<1>4. /\ k \in Seq(S) /\ Len(k) = n /\ ToSet(k) = ToSet(h)
      /\ IsInjective(h) => IsInjective(k)
  BY <1>1, <1>2, <1>3, RearrangedItems
<1>5. PICK r \in Seq(S) : r = HeapRest(h)
  <2>1. SubSeq(k, 1, n - 1) \in Seq(S)
    BY <1>4
  <2>2. SubSeq(k, 1, n - 1) = HeapRest(h)
    BY <1>2, <1>3 DEF HeapRest
  <2>. QED
    BY <2>1, <2>2
<1>6. Len(r) = n - 1 /\ DOMAIN r = 1..(n - 1) /\ \A i \in 1..(n - 1) : r[i] = k[i]
  BY <1>2, <1>3, <1>4, <1>5 DEF HeapRest
<1>7. h[1] \in S /\ h[1] \in ToSet(h) /\ k[n] = h[1] /\ DOMAIN k = 1..n
  <2>1. h[1] \in S /\ 1 \in DOMAIN h
    BY <1>2
  <2>. QED
    BY <1>1, <1>2, <1>3, <1>4, <2>1 DEF ToSet
<1>8. ASSUME IsInjective(k) PROVE ToSet(r) = ToSet(k) \ {h[1]} /\ IsInjective(r)
  <2>1. \A i, j \in 1..n : k[i] = k[j] => i = j
    BY <1>7, <1>8 DEF IsInjective
  <2>2. IsInjective(r)
    BY <1>6, <2>1 DEF IsInjective
  <2>3. ASSUME NEW x \in ToSet(r) PROVE x \in ToSet(k) /\ x # h[1]
    <3>1. PICK i \in 1..(n - 1) : x = r[i]
      BY <1>6, <2>3 DEF ToSet
    <3>2. i \in 1..n /\ n \in 1..n /\ i # n /\ x = k[i]
      BY <1>6, <3>1
    <3>. QED
      BY <1>7, <2>1, <3>2 DEF ToSet
  <2>4. ASSUME NEW x \in ToSet(k), x # h[1] PROVE x \in ToSet(r)
    <3>1. PICK i \in 1..n : x = k[i]
      BY <1>7, <2>4 DEF ToSet
    <3>2. i # n
      BY <1>7, <2>4, <3>1
    <3>3. i \in 1..(n - 1)
      BY <3>2
    <3>. QED
      BY <1>6, <3>1, <3>3 DEF ToSet
  <2>. QED
    BY <2>2, <2>3, <2>4
<1>9. HeapTop(h) = h[1]
  BY <1>1 DEF HeapTop
<1>. QED
  BY <1>2, <1>3, <1>4, <1>5, <1>6, <1>7, <1>8, <1>9

\* both keep the order
LEMMA KeepOrder ==
  ASSUME NEW S, NEW h \in Seq(S), NEW R, Respects(R, S), HeapOrdered(R, h, Len(h))
  PROVE  /\ \A x \in S : HeapOrdered(R, HeapPush(h, x), Len(h) + 1)
         /\ h # <<>> => /\ HeapOrdered(R, HeapRest(h), Len(h) - 1)
                        /\ \A a \in 2..Len(h) : <<HeapTop(h), h[a]>> \in R
<1>1. ASSUME NEW x \in S PROVE HeapOrdered(R, HeapPush(h, x), Len(h) + 1)
  BY PushKeepsHeap
<1>2. ASSUME h # <<>> PROVE HeapOrdered(R, HeapRest(h), Len(h) - 1)
  <2>1. HeapOrdered(R, PopOrder(h), Len(h) - 1)
    BY <1>2, PopKeepsHeap
  <2>2. \A i \in 1..(Len(h) - 1) : HeapRest(h)[i] = PopOrder(h)[i]
    BY <1>2, PopItems
  <2>3. \A i \in 2..(Len(h) - 1) : i \in 1..(Len(h) - 1) /\ i \div 2 \in 1..(Len(h) - 1)
    OBVIOUS
  <2>. QED
    BY <2>1, <2>2, <2>3 DEF HeapOrdered
<1>3. ASSUME h # <<>> PROVE \A a \in 2..Len(h) : <<HeapTop(h), h[a]>> \in R
  <2>1. h \in [1..Len(h) -> S] /\ Len(h) \in Nat
    OBVIOUS
  <2>2. \A a \in 2..Len(h) : <<h[1], h[a]>> \in R
    BY <2>1, RootIsLeast
  <2>3. HeapTop(h) = h[1]
    BY <1>3, PopItems
  <2>. QED
    BY <2>2, <2>3
<1>. QED
  BY <1>1, <1>2, <1>3

-----------------------------------------------------------------------------
(* How often an item is in the heap. *)

\* how often x occurs in h
Count(h, x) == Cardinality({i \in DOMAIN h : h[i] = x})

\* what occurs is what is counted
LEMMA CountType ==
  ASSUME NEW S, NEW h \in Seq(S), NEW x
  PROVE  /\ IsFiniteSet({i \in DOMAIN h : h[i] = x})
         /\ Count(h, x) \in Nat
         /\ Count(h, x) = 0 <=> x \notin ToSet(h)
<1>1. PICK n \in Nat : n = Len(h) /\ DOMAIN h = 1..n
  OBVIOUS
<1>2. PICK T \in SUBSET (1..n) : T = {i \in DOMAIN h : h[i] = x}
  BY <1>1
<1>3. IsFiniteSet(T)
  <2>1. n \in Int /\ 1 \in Int
    BY <1>1
  <2>2. IsFiniteSet(1..n)
    BY <2>1, FS_Interval
  <2>. QED
    BY <2>2, FS_Subset
<1>4. Cardinality(T) \in Nat
  BY <1>3, FS_CardinalityType
<1>5. Cardinality(T) = 0 <=> T = {}
  BY <1>3, FS_EmptySet
<1>6. T = {} <=> x \notin ToSet(h)
  BY <1>2 DEF ToSet
<1>. QED
  BY <1>2, <1>3, <1>4, <1>5, <1>6 DEF Count

\* one more at the end is one more
LEMMA CountAppend ==
  ASSUME NEW S, NEW h \in Seq(S), NEW x \in S, NEW y
  PROVE  Count(Append(h, x), y) = IF y = x THEN Count(h, y) + 1 ELSE Count(h, y)
<1>1. PICK n \in Nat : n = Len(h) /\ DOMAIN h = 1..n
  OBVIOUS
<1>2. PICK g \in Seq(S) : g = Append(h, x)
  <2>1. Append(h, x) \in Seq(S)
    OBVIOUS
  <2>. QED
    BY <2>1
<1>3. /\ DOMAIN g = 1..(n + 1) /\ g[n + 1] = x
      /\ \A i \in 1..n : g[i] = h[i]
  BY <1>1, <1>2
<1>. DEFINE T == {i \in DOMAIN h : h[i] = y}
            U == {i \in DOMAIN g : g[i] = y}
<1>4. IsFiniteSet(T)
  BY CountType
<1>5. CASE y = x
  <2>1. U = T \cup {n + 1} /\ n + 1 \notin T
    BY <1>1, <1>3, <1>5
  <2>. HIDE DEF T, U
  <2>2. Cardinality(U) = Cardinality(T) + 1
    BY <1>4, <2>1, FS_AddElement
  <2>. QED
    BY <1>2, <1>5, <2>2 DEF Count, T, U
<1>6. CASE y # x
  <2>1. U = T
    BY <1>1, <1>3, <1>6
  <2>. QED
    BY <1>2, <1>6, <2>1 DEF Count
<1>. QED
  BY <1>5, <1>6

\* what has the items of a heap has each as often
LEMMA CountRearranged ==
  ASSUME NEW S, NEW h \in Seq(S), NEW k \in [1..Len(h) -> S], Rearranged(h, k, Len(h)), NEW y
  PROVE  Count(k, y) = Count(h, y)
<1>1. PICK n \in Nat : n = Len(h) /\ DOMAIN h = 1..n /\ DOMAIN k = 1..n
  OBVIOUS
<1>2. PICK p \in [1..n -> 1..n], q \in [1..n -> 1..n] :
        \A i \in 1..n : p[q[i]] = i /\ q[p[i]] = i /\ k[i] = h[p[i]]
  <2>1. Rearranged(h, k, n)
    BY <1>1
  <2>. QED
    BY <2>1 DEF Rearranged
<1>3. PICK T \in SUBSET (1..n) : T = {i \in DOMAIN h : h[i] = y}
  BY <1>1
<1>4. PICK U \in SUBSET (1..n) : U = {i \in DOMAIN k : k[i] = y}
  BY <1>1
<1>5. \A i \in U : p[i] \in T
  BY <1>1, <1>2, <1>3, <1>4
<1>6. PICK f \in [U -> T] : \A i \in U : f[i] = p[i]
  <2>1. [i \in U |-> p[i]] \in [U -> T]
    BY <1>5
  <2>. QED
    BY <2>1
<1>7. \A i \in T : q[i] \in U /\ f[q[i]] = i
  <2>. SUFFICES ASSUME NEW i \in T PROVE q[i] \in U /\ f[q[i]] = i
    OBVIOUS
  <2>1. i \in 1..n /\ q[i] \in 1..n /\ h[i] = y
    BY <1>3
  <2>2. k[q[i]] = y
    BY <1>2, <2>1
  <2>3. q[i] \in U
    BY <1>1, <1>4, <2>1, <2>2
  <2>. QED
    BY <1>2, <1>6, <2>1, <2>3
<1>8. ASSUME NEW i \in U, NEW j \in U, f[i] = f[j] PROVE i = j
  <2>1. p[i] = p[j] /\ i \in 1..n /\ j \in 1..n
    BY <1>6, <1>8
  <2>2. q[p[i]] = i /\ q[p[j]] = j
    BY <1>2, <2>1
  <2>. QED
    BY <2>1, <2>2
<1>9. ExistsBijection(U, T)
  <2>1. f \in Injection(U, T)
    BY <1>8 DEF Injection, IsInjective
  <2>2. f \in Surjection(U, T)
    BY <1>7 DEF Surjection
  <2>. QED
    BY <2>1, <2>2 DEF ExistsBijection, Bijection
<1>10. IsFiniteSet(U)
  <2>1. n \in Int /\ 1 \in Int
    BY <1>1
  <2>2. IsFiniteSet(1..n)
    BY <2>1, FS_Interval
  <2>. QED
    BY <2>2, FS_Subset
<1>11. Cardinality(T) = Cardinality(U)
  BY <1>9, <1>10, FS_Bijection
<1>. QED
  BY <1>3, <1>4, <1>11 DEF Count

\* a push adds what is pushed, once
LEMMA PushBag ==
  ASSUME NEW S, NEW h \in Seq(S), NEW x \in S
  PROVE  \A y : Count(HeapPush(h, x), y) = IF y = x THEN Count(h, y) + 1 ELSE Count(h, y)
<1>1. /\ HeapPush(h, x) \in [1..(Len(h) + 1) -> S]
      /\ Rearranged(Append(h, x), HeapPush(h, x), Len(h) + 1)
  BY AnyOrder, PushKeepsHeap
<1>2. PICK g \in Seq(S) : g = Append(h, x) /\ Len(g) = Len(h) + 1
  <2>1. Append(h, x) \in Seq(S) /\ Len(Append(h, x)) = Len(h) + 1
    OBVIOUS
  <2>. QED
    BY <2>1
<1>3. PICK k \in [1..Len(g) -> S] : k = HeapPush(h, x) /\ Rearranged(g, k, Len(g))
  BY <1>1, <1>2
<1>4. \A y : Count(k, y) = Count(g, y)
  BY <1>3, CountRearranged
<1>5. \A y : Count(Append(h, x), y) = IF y = x THEN Count(h, y) + 1 ELSE Count(h, y)
  BY CountAppend
<1>. QED
  BY <1>2, <1>3, <1>4, <1>5

\* a pop takes away what it returns, once
LEMMA PopBag ==
  ASSUME NEW S, NEW h \in Seq(S), h # <<>>
  PROVE  \A y : Count(h, y) = IF y = HeapTop(h) THEN Count(HeapRest(h), y) + 1
                                                ELSE Count(HeapRest(h), y)
<1>1. /\ PopOrder(h) \in [1..Len(h) -> S]
      /\ Rearranged(h, PopOrder(h), Len(h))
      /\ PopOrder(h)[Len(h)] = h[1]
  BY AnyOrder, PopKeepsHeap
<1>2. PICK n \in Nat \ {0} : n = Len(h)
  OBVIOUS
<1>3. PICK k \in [1..n -> S] : k = PopOrder(h) /\ k \in [1..Len(h) -> S]
  BY <1>1, <1>2
<1>4. \A y : Count(k, y) = Count(h, y)
  BY <1>1, <1>3, CountRearranged
<1>5. /\ HeapRest(h) \in Seq(S) /\ Len(HeapRest(h)) = n - 1 /\ HeapTop(h) = h[1] /\ h[1] \in S
      /\ \A i \in 1..(n - 1) : HeapRest(h)[i] = k[i]
  BY <1>2, <1>3, PopItems
<1>6. PICK r \in Seq(S) : r = HeapRest(h) /\ Len(r) = n - 1 /\ \A i \in 1..(n - 1) : r[i] = k[i]
  BY <1>5
<1>7. Append(r, h[1]) = k
  <2>1. Append(r, h[1]) \in [1..n -> S]
    <3>1. PICK g \in Seq(S) : g = Append(r, h[1]) /\ Len(g) = n
      <4>1. Append(r, h[1]) \in Seq(S) /\ Len(Append(r, h[1])) = n
        BY <1>5, <1>6
      <4>. QED
        BY <4>1
    <3>2. g \in [1..Len(g) -> S]
      OBVIOUS
    <3>. QED
      BY <3>1, <3>2
  <2>2. \A i \in 1..n : Append(r, h[1])[i] = k[i]
    BY <1>1, <1>2, <1>3, <1>5, <1>6
  <2>. QED
    BY <2>1, <2>2
<1>8. \A y : Count(Append(r, h[1]), y) = IF y = h[1] THEN Count(r, y) + 1 ELSE Count(r, y)
  BY <1>5, CountAppend
<1>. QED
  BY <1>4, <1>5, <1>6, <1>7, <1>8

-----------------------------------------------------------------------------
(* HeapOps: the heap as a priority queue. *)

ItemsByGroup == {p \in Items \X Items : p[1].group <= p[2].group}

NumberedItems == {x \in Items : x.order # NaN}

ItemsByPriority == {p \in NumberedItems \X NumberedItems : ~Less(p[2], p[1])}

\* the heap holds the items that held counts, each as often; it is one by group
\* always, and by priority as long as all of its items have a number
OInv ==
  /\ slice \in Seq(Items)
  /\ spoilt \in BOOLEAN
  /\ held = [x \in Items |-> Count(slice, x)]
  /\ HeapOrdered(ItemsByGroup, slice, Len(slice))
  /\ ~spoilt => /\ slice \in Seq(NumberedItems)
                /\ HeapOrdered(ItemsByPriority, slice, Len(slice))

\* both are orders that heap.up and heap.down keep
LEMMA ItemsRespected ==
  Respects(ItemsByGroup, Items) /\ Respects(ItemsByPriority, NumberedItems)
<1>. USE ItemsAssumption
<1>1. Respects(ItemsByGroup, Items)
  <2>1. \A a, b, c \in Items :
          a.group <= b.group /\ b.group <= c.group => a.group <= c.group
    OBVIOUS
  <2>2. \A a, b \in Items : Less(a, b) => a.group <= b.group
    BY DEF Less
  <2>3. \A a, b \in Items : ~Less(b, a) => a.group <= b.group
    BY DEF Less
  <2>. QED
    BY <2>1, <2>2, <2>3 DEF Respects, ItemsByGroup
<1>2. Respects(ItemsByPriority, NumberedItems)
  <2>1. \A a \in NumberedItems : a.group \in Int /\ a.order \in Int /\ a.order # NaN
    BY DEF NumberedItems
  <2>2. \A a, b, c \in NumberedItems : ~Less(b, a) /\ ~Less(c, b) => ~Less(c, a)
    BY <2>1 DEF Less, OrderLess
  <2>3. \A a, b \in NumberedItems : Less(a, b) => ~Less(b, a)
    BY <2>1 DEF Less, OrderLess
  <2>. QED
    BY <2>2, <2>3 DEF Respects, ItemsByPriority
<1>. QED
  BY <1>1, <1>2

\* the heap starts empty
LEMMA InitOInv == HeapInit => OInv
<1>. SUFFICES ASSUME HeapInit PROVE OInv
  OBVIOUS
<1>1. slice = <<>> /\ held = [x \in Items |-> 0] /\ spoilt = FALSE
  BY DEF HeapInit
<1>2. ASSUME NEW x \in Items PROVE Count(<<>>, x) = 0
  <2>1. <<>> \in Seq(Items) /\ x \notin ToSet(<<>>)
    BY DEF ToSet
  <2>. QED
    BY <2>1, CountType
<1>3. \A S, R : <<>> \in Seq(S) /\ HeapOrdered(R, <<>>, Len(<<>>))
  <2>1. Len(<<>>) = 0 /\ 2..0 = {}
    OBVIOUS
  <2>. QED
    BY <2>1 DEF HeapOrdered
<1>. QED
  BY <1>1, <1>2, <1>3 DEF OInv

\* a push keeps it
LEMMA PushOInv ==
  ASSUME OInv, NEW x \in Items, Push(x)
  PROVE  OInv'
<1>1. /\ slice' = HeapPush(slice, x) /\ held' = [held EXCEPT ![x] = @ + 1]
      /\ spoilt' = (x.order = NaN \/ (spoilt /\ slice # <<>>))
  BY DEF Push
<1>2. PICK h \in Seq(Items) :
        /\ h = slice /\ HeapOrdered(ItemsByGroup, h, Len(h))
        /\ held = [y \in Items |-> Count(h, y)]
  BY DEF OInv
<1>3. HeapPush(h, x) \in Seq(Items) /\ Len(HeapPush(h, x)) = Len(h) + 1
  BY PushItems
<1>4. HeapOrdered(ItemsByGroup, HeapPush(h, x), Len(h) + 1)
  BY <1>2, KeepOrder, ItemsRespected
<1>5. held' = [y \in Items |-> Count(slice', y)]
  <2>1. \A y : Count(HeapPush(h, x), y) = IF y = x THEN Count(h, y) + 1 ELSE Count(h, y)
    BY PushBag
  <2>. QED
    BY <1>1, <1>2, <2>1
<1>6. ASSUME ~spoilt'
      PROVE  /\ slice' \in Seq(NumberedItems)
             /\ HeapOrdered(ItemsByPriority, slice', Len(slice'))
  <2>1. x \in NumberedItems /\ (~spoilt \/ slice = <<>>)
    BY <1>1, <1>6 DEF NumberedItems
  <2>2. slice \in Seq(NumberedItems) /\ HeapOrdered(ItemsByPriority, slice, Len(slice))
    BY <2>1 DEF OInv, HeapOrdered
  <2>3. PICK g \in Seq(NumberedItems) : g = slice /\ HeapOrdered(ItemsByPriority, g, Len(g))
    BY <2>2
  <2>4. HeapPush(g, x) \in Seq(NumberedItems) /\ Len(HeapPush(g, x)) = Len(g) + 1
    BY <2>1, PushItems
  <2>5. HeapOrdered(ItemsByPriority, HeapPush(g, x), Len(g) + 1)
    BY <2>1, <2>3, KeepOrder, ItemsRespected
  <2>. QED
    BY <1>1, <2>3, <2>4, <2>5
<1>. QED
  BY <1>1, <1>2, <1>3, <1>4, <1>5, <1>6 DEF OInv

\* a pop keeps it, and what is popped is the least
LEMMA PopOInv ==
  ASSUME OInv, Pop
  PROVE  /\ OInv'
         /\ \A i \in DOMAIN popped' : \A y \in {x \in Items : held'[x] > 0} :
              /\ popped'[i].group <= y.group
              /\ spoilt \/ ~Less(y, popped'[i])
<1>1. /\ slice # <<>> /\ popped' = <<HeapTop(slice)>> /\ slice' = HeapRest(slice)
      /\ held' = [held EXCEPT ![HeapTop(slice)] = @ - 1] /\ spoilt' = spoilt
  BY DEF Pop
<1>2. PICK h \in Seq(Items) :
        /\ h = slice /\ h # <<>> /\ HeapOrdered(ItemsByGroup, h, Len(h))
        /\ held = [y \in Items |-> Count(h, y)]
  BY <1>1 DEF OInv
<1>3. /\ HeapRest(h) \in Seq(Items) /\ Len(HeapRest(h)) = Len(h) - 1
      /\ HeapTop(h) = h[1] /\ h[1] \in Items
  BY <1>2, PopItems
<1>4. /\ HeapOrdered(ItemsByGroup, HeapRest(h), Len(h) - 1)
      /\ \A a \in 2..Len(h) : <<HeapTop(h), h[a]>> \in ItemsByGroup
  BY <1>2, KeepOrder, ItemsRespected
<1>5. held' = [y \in Items |-> Count(slice', y)]
  <2>1. \A y : Count(h, y) = IF y = HeapTop(h) THEN Count(HeapRest(h), y) + 1
                                              ELSE Count(HeapRest(h), y)
    BY <1>2, PopBag
  <2>2. \A y : Count(HeapRest(h), y) \in Nat
    BY <1>3, CountType
  <2>3. \A y \in Items :
          Count(HeapRest(h), y) = IF y = HeapTop(h) THEN Count(h, y) - 1 ELSE Count(h, y)
    BY <2>1, <2>2
  <2>. QED
    BY <1>1, <1>2, <2>3
<1>6. ASSUME ~spoilt
      PROVE  /\ HeapRest(h) \in Seq(NumberedItems)
             /\ HeapOrdered(ItemsByPriority, HeapRest(h), Len(h) - 1)
             /\ \A a \in 2..Len(h) : <<HeapTop(h), h[a]>> \in ItemsByPriority
             /\ h[1] \in NumberedItems
  <2>1. PICK g \in Seq(NumberedItems) :
          g = h /\ g # <<>> /\ HeapOrdered(ItemsByPriority, g, Len(g))
    BY <1>2, <1>6 DEF OInv
  <2>2. HeapRest(g) \in Seq(NumberedItems) /\ g[1] \in NumberedItems
    BY <2>1, PopItems
  <2>3. /\ HeapOrdered(ItemsByPriority, HeapRest(g), Len(g) - 1)
        /\ \A a \in 2..Len(g) : <<HeapTop(g), g[a]>> \in ItemsByPriority
    BY <2>1, KeepOrder, ItemsRespected
  <2>. QED
    BY <2>1, <2>2, <2>3
<1>7. OInv'
  BY <1>1, <1>2, <1>3, <1>4, <1>5, <1>6 DEF OInv
<1>8. ASSUME NEW y \in {x \in Items : held'[x] > 0} PROVE \E a \in 1..Len(h) : y = h[a]
  <2>1. Count(HeapRest(h), y) > 0
    BY <1>1, <1>2, <1>5, <1>8
  <2>2. Count(HeapRest(h), y) \in Nat
    BY <1>3, CountType
  <2>3. Count(h, y) # 0
    <3>1. Count(h, y) = IF y = HeapTop(h) THEN Count(HeapRest(h), y) + 1
                                          ELSE Count(HeapRest(h), y)
      BY <1>2, PopBag
    <3>. QED
      BY <2>1, <2>2, <3>1
  <2>4. y \in ToSet(h)
    BY <2>3, CountType
  <2>. QED
    BY <2>4 DEF ToSet
<1>9. ASSUME NEW y \in {x \in Items : held'[x] > 0}
      PROVE  HeapTop(h).group <= y.group /\ (spoilt \/ ~Less(y, HeapTop(h)))
  <2>1. PICK a \in 1..Len(h) : y = h[a]
    BY <1>8
  <2>2. CASE a = 1
    <3>1. y = HeapTop(h) /\ y \in Items
      BY <1>3, <2>1, <2>2
    <3>2. y.group \in Int /\ y.order \in Int \cup {NaN}
      BY <3>1, ItemsAssumption
    <3>3. y.group <= y.group /\ ~Less(y, y)
      BY <3>2, ItemsAssumption DEF Less, OrderLess
    <3>. QED
      BY <3>1, <3>3
  <2>3. CASE a # 1
    <3>1. a \in 2..Len(h)
      BY <2>3
    <3>2. <<HeapTop(h), y>> \in ItemsByGroup
      BY <1>4, <2>1, <3>1
    <3>3. ~spoilt => <<HeapTop(h), y>> \in ItemsByPriority
      BY <1>6, <2>1, <3>1
    <3>. QED
      BY <3>2, <3>3 DEF ItemsByGroup, ItemsByPriority
  <2>. QED
    BY <2>2, <2>3
<1>10. \A i \in DOMAIN popped' : popped'[i] = HeapTop(h)
  BY <1>1, <1>2
<1>. QED
  BY <1>7, <1>9, <1>10

(***************************************************************************)
(* pool.go:35-52, 244-263.  Whatever is pushed and popped, heap.Push and   *)
(* heap.Pop lose no item, make up none and repeat none, and the slice is a *)
(* heap by Group, and by priority while every Order in it is a number.     *)
(***************************************************************************)
THEOREM HeapInvariant == HeapSpec => []OInv
<1>1. HeapInit => OInv
  BY InitOInv
<1>2. OInv /\ [HeapNext]_heapVars => OInv'
  <2>. SUFFICES ASSUME OInv, [HeapNext]_heapVars PROVE OInv'
    OBVIOUS
  <2>1. CASE UNCHANGED heapVars
    BY <2>1 DEF heapVars, OInv
  <2>2. ASSUME NEW x \in Items, Push(x) PROVE OInv'
    BY <2>2, PushOInv
  <2>3. CASE Pop
    BY <2>3, PopOInv
  <2>. QED
    BY <2>1, <2>2, <2>3 DEF HeapNext
<1>. QED
  BY <1>1, <1>2, PTL DEF HeapSpec

(***************************************************************************)
(* README.md:132 "Both axes sort ascending - lower values run first", for  *)
(* a heap of any size and any items: what heap.Pop returns has no greater  *)
(* Group than any item it leaves, and unless a NaN was among them since    *)
(* the heap was last empty, none of those is less than it.                 *)
(***************************************************************************)
THEOREM PopsInOrder == HeapSpec => PopsLeast
<1>. DEFINE Least ==
       \A i \in DOMAIN popped' : \A y \in {x \in Items : held'[x] > 0} :
         /\ popped'[i].group <= y.group
         /\ spoilt \/ ~Less(y, popped'[i])
<1>1. OInv /\ [HeapNext]_heapVars => [Least]_heapVars
  <2>. SUFFICES ASSUME OInv, HeapNext PROVE Least
    OBVIOUS
  <2>1. ASSUME NEW x \in Items, Push(x) PROVE Least
    BY <2>1 DEF Push
  <2>2. CASE Pop
    BY <2>2, PopOInv
  <2>. QED
    BY <2>1, <2>2 DEF HeapNext
<1>. QED
  BY <1>1, HeapInvariant, PTL DEF HeapSpec, PopsLeast

-----------------------------------------------------------------------------
(***************************************************************************)
(* The inductive invariant.  WakeupsCoverHeap needs GuardedWait (nothing   *)
(* is in the heap when a worker falls asleep); the promise needs Ledger    *)
(* (the heap and the line hold the same tasks, each of them once) and      *)
(* Priority (the root of the heap is the next to start).                   *)
(***************************************************************************)
CallState == {"idle", "validated", "pushed", "accepted", "refused"}
StopState == {"idle", "draining", "closed", "done"}

Running == {w \in Workers : wpc[w] = "run"}
Awake == At({"lock", "check"})
Pushed == {t \in Tasks : call[t] \in {"pushed", "accepted"}}

TypeOK ==
  /\ LoopTypeOK
  /\ running \in BOOLEAN
  /\ heap \in Seq(Tasks)
  /\ call \in [Tasks -> CallState]
  /\ job \in [Workers -> Tasks \cup {NoTask}]
  /\ stopper \in StopState
  /\ arrived \in Seq(Tasks)
  /\ finished \in SUBSET Tasks

\* p.mu has one holder; the heap found empty stays so until its finder sleeps
GuardedWait ==
  /\ MutexHeld
  /\ \A w \in Workers : wpc[w] = "park" => heap = <<>>
  /\ \A w \in Workers : wpc[w] = "run" <=> job[w] # NoTask

\* a task that was pushed is in the heap, with a worker or finished, one of the three
Ledger ==
  /\ IsInjective(heap)
  /\ IsInjective(arrived)
  /\ ToSet(arrived) = ToSet(heap)
  /\ ToSet(heap) \cup finished \cup {job[w] : w \in Running} = Pushed
  /\ ToSet(heap) \cap finished = {}
  /\ \A w \in Running : job[w] \notin finished /\ job[w] \notin ToSet(heap)
  /\ \A v, w \in Running : job[v] = job[w] => v = w

ByGroup == {p \in Tasks \X Tasks : p[1].group <= p[2].group}
ByPriority == {p \in Tasks \X Tasks : ~Less(p[2], p[1])}

\* the heap is one by group, whatever the orders; by priority if they are numbers
Priority ==
  /\ HeapOrdered(ByGroup, heap, Len(heap))
  /\ Numbered => HeapOrdered(ByPriority, heap, Len(heap))

FiniteCalls == IsFiniteSet(Calls)

IInv == TypeOK /\ GuardedWait /\ Ledger /\ Priority /\ FiniteCalls /\ WakeupsCoverHeap

-----------------------------------------------------------------------------
\* a task of the line leaves it from the one place it has
LEMMA WithoutLine ==
  ASSUME NEW S, NEW s \in Seq(S), IsInjective(s), NEW t \in ToSet(s)
  PROVE  /\ Without(s, t) \in Seq(S)
         /\ IsInjective(Without(s, t))
         /\ ToSet(Without(s, t)) = ToSet(s) \ {t}
         /\ \E i \in DOMAIN s : s[i] = t /\ Without(s, t) = RemoveAt(s, i)
<1>1. DOMAIN s = 1..Len(s)
  OBVIOUS
<1>2. PICK i \in DOMAIN s : i = CHOOSE a \in DOMAIN s : s[a] = t
  BY DEF ToSet
<1>3. s[i] = t
  BY <1>2 DEF ToSet
<1>4. Without(s, t) = RemoveAt(s, i)
  BY <1>2 DEF Without
<1>5. i \in 1..Len(s)
  BY <1>1
<1>6. /\ RemoveAt(s, i) \in Seq(S) /\ IsInjective(RemoveAt(s, i))
      /\ ToSet(RemoveAt(s, i)) = ToSet(s) \ {s[i]}
  BY <1>5, RemoveAtAt, RemoveAtQueue
<1>. QED
  BY <1>3, <1>4, <1>6

\* the pool starts with nothing in the heap and no call made
LEMMA InitIInv == Init => IInv
<1>. SUFFICES ASSUME Init PROVE IInv
  OBVIOUS
<1>1. TypeOK
  <2>1. LoopTypeOK
    BY DEF Init, LoopInit, LoopTypeOK, WorkerPC
  <2>2. running \in BOOLEAN /\ stopper \in StopState
    BY DEF Init, StopState
  <2>3. heap \in Seq(Tasks) /\ arrived \in Seq(Tasks)
    BY DEF Init
  <2>4. call \in [Tasks -> CallState]
    BY DEF Init, CallState
  <2>5. job \in [Workers -> Tasks \cup {NoTask}] /\ finished \in SUBSET Tasks
    BY DEF Init
  <2>. QED
    BY <2>1, <2>2, <2>3, <2>4, <2>5 DEF TypeOK
<1>2. GuardedWait
  BY WorkersAssumption DEF Init, LoopInit, GuardedWait, MutexHeld
<1>3. Ledger
  <2>1. Running = {}
    BY DEF Init, LoopInit, Running
  <2>2. IsInjective(heap) /\ IsInjective(arrived)
    BY DEF Init, IsInjective
  <2>3. ToSet(heap) = {} /\ ToSet(arrived) = {}
    BY DEF Init, ToSet
  <2>4. Pushed = {}
    BY DEF Init, Pushed
  <2>5. finished = {}
    BY DEF Init
  <2>. QED
    BY <2>1, <2>2, <2>3, <2>4, <2>5 DEF Ledger
<1>4. Priority
  <2>1. \A k \in 2..Len(heap) : FALSE
    BY DEF Init
  <2>. QED
    BY <2>1 DEF Priority, HeapOrdered
<1>5. FiniteCalls
  <2>1. Calls = {}
    BY DEF Init, Calls
  <2>. QED
    BY <2>1, FS_EmptySet DEF FiniteCalls
<1>6. WakeupsCoverHeap
  BY DEF Init, LoopInit, WakeupsCoverHeap, At
<1>. QED
  BY <1>1, <1>2, <1>3, <1>4, <1>5, <1>6 DEF IInv

-----------------------------------------------------------------------------
(* One lemma per conjunct of IInv. *)

\* every step keeps the types
LEMMA TypeStep ==
  ASSUME TypeOK, GuardedWait, Ledger, [Next]_vars
  PROVE  TypeOK'
<1>. USE DEF TypeOK, LoopTypeOK, MoveTo
<1>1. ASSUME NEW t \in Tasks, Validate(t) PROVE TypeOK'
  BY <1>1 DEF Validate, Progress, CallState, loopVars
<1>2. ASSUME NEW t \in Tasks, Submit(t) PROVE TypeOK'
  <2>1. heap' \in Seq(Tasks) /\ arrived' \in Seq(Tasks)
    BY <1>2, PushItems DEF Submit
  <2>2. call' \in [Tasks -> CallState]
    BY <1>2 DEF Submit, Progress, CallState
  <2>. QED
    BY <1>2, <2>1, <2>2 DEF Submit, loopVars
<1>3. ASSUME NEW t \in Tasks, SignalSubmit(t) PROVE TypeOK'
  <2>1. wpc' \in [Workers -> WorkerPC]
    BY <1>3 DEF SignalSubmit, Signal, WorkerPC
  <2>2. call' \in [Tasks -> CallState]
    BY <1>3 DEF SignalSubmit, Progress, CallState
  <2>. QED
    BY <1>3, <2>1, <2>2 DEF SignalSubmit, Signal
<1>4. ASSUME NEW w \in Workers, LockQueue(w) PROVE TypeOK'
  BY <1>4 DEF LockQueue, Acquire, WorkerPC
<1>5. ASSUME NEW w \in Workers, Dequeue(w) PROVE TypeOK'
  <2>0. /\ HeapTop(heap) \in Tasks /\ HeapRest(heap) \in Seq(Tasks)
        /\ HeapTop(heap) \in ToSet(arrived)
    BY <1>5, PopItems DEF Dequeue, Ledger
  <2>1. HeapTop(heap) \in Tasks /\ heap' \in Seq(Tasks) /\ arrived' \in Seq(Tasks)
    <3>1. Without(arrived, HeapTop(heap)) \in Seq(Tasks)
      BY <2>0, WithoutLine DEF Ledger
    <3>. QED
      BY <1>5, <2>0, <3>1 DEF Dequeue
  <2>2. wpc' \in [Workers -> WorkerPC] /\ mutex' = NoWorker
    BY <1>5 DEF Dequeue, Take, WorkerPC
  <2>3. job' \in [Workers -> Tasks \cup {NoTask}]
    BY <1>5, <2>1 DEF Dequeue
  <2>. QED
    BY <1>5, <2>1, <2>2, <2>3 DEF Dequeue, Take
<1>6. ASSUME NEW w \in Workers, Exit(w) PROVE TypeOK'
  BY <1>6 DEF Exit, Leave, WorkerPC
<1>7. ASSUME NEW w \in Workers, FindEmpty(w) PROVE TypeOK'
  BY <1>7 DEF FindEmpty, SeeOpen, WorkerPC
<1>8. ASSUME NEW w \in Workers, Sleep(w) PROVE TypeOK'
  BY <1>8 DEF Sleep, Wait, WorkerPC
<1>9. ASSUME NEW w \in Workers, FinishTask(w) PROVE TypeOK'
  <2>1. job[w] \in Tasks
    BY <1>9 DEF FinishTask, Return, GuardedWait
  <2>. QED
    BY <1>9, <2>1 DEF FinishTask, Return, WorkerPC
<1>10. ASSUME StopRunning PROVE TypeOK'
  BY <1>10 DEF StopRunning, StopState, loopVars
<1>11. ASSUME StopClose PROVE TypeOK'
  BY <1>11 DEF StopClose, CloseStop, StopState
<1>12. ASSUME StopBroadcast PROVE TypeOK'
  <2>1. wpc' \in [Workers -> WorkerPC]
    BY <1>12 DEF StopBroadcast, Broadcast, WorkerPC
  <2>. QED
    BY <1>12, <2>1 DEF StopBroadcast, Broadcast, StopState
<1>13. ASSUME UNCHANGED vars PROVE TypeOK'
  BY <1>13 DEF vars, loopVars
<1>. QED
  BY <1>1, <1>2, <1>3, <1>4, <1>5, <1>6, <1>7, <1>8, <1>9, <1>10, <1>11, <1>12, <1>13
  DEF Next, CallStep, WorkerStep

\* no step lets a worker fall asleep with a task in the heap, or run without one
LEMMA GuardedWaitStep ==
  ASSUME TypeOK, GuardedWait, [Next]_vars
  PROVE  GuardedWait'
<1>. USE WorkersAssumption, HTasksAssumption
     DEF TypeOK, LoopTypeOK, MoveTo, GuardedWait, MutexHeld
<1>1. ASSUME NEW t \in Tasks, Validate(t) PROVE GuardedWait'
  BY <1>1 DEF Validate, loopVars
<1>2. ASSUME NEW t \in Tasks, Submit(t) PROVE GuardedWait'
  BY <1>2 DEF Submit, loopVars
<1>3. ASSUME NEW t \in Tasks, SignalSubmit(t) PROVE GuardedWait'
  BY <1>3 DEF SignalSubmit, Signal
<1>4. ASSUME NEW w \in Workers, LockQueue(w) PROVE GuardedWait'
  BY <1>4 DEF LockQueue, Acquire
<1>5. ASSUME NEW w \in Workers, Dequeue(w) PROVE GuardedWait'
  <2>1. HeapTop(heap) \in Tasks
    BY <1>5, PopItems DEF Dequeue
  <2>. QED
    BY <1>5, <2>1 DEF Dequeue, Take
<1>6. ASSUME NEW w \in Workers, Exit(w) PROVE GuardedWait'
  BY <1>6 DEF Exit, Leave
<1>7. ASSUME NEW w \in Workers, FindEmpty(w) PROVE GuardedWait'
  BY <1>7 DEF FindEmpty, SeeOpen
<1>8. ASSUME NEW w \in Workers, Sleep(w) PROVE GuardedWait'
  BY <1>8 DEF Sleep, Wait
<1>9. ASSUME NEW w \in Workers, FinishTask(w) PROVE GuardedWait'
  BY <1>9 DEF FinishTask, Return
<1>10. ASSUME StopRunning PROVE GuardedWait'
  BY <1>10 DEF StopRunning, loopVars
<1>11. ASSUME StopClose PROVE GuardedWait'
  BY <1>11 DEF StopClose, CloseStop
<1>12. ASSUME StopBroadcast PROVE GuardedWait'
  BY <1>12 DEF StopBroadcast, Broadcast
<1>13. ASSUME UNCHANGED vars PROVE GuardedWait'
  BY <1>13 DEF vars, loopVars
<1>. QED
  BY <1>1, <1>2, <1>3, <1>4, <1>5, <1>6, <1>7, <1>8, <1>9, <1>10, <1>11, <1>12, <1>13
  DEF Next, CallStep, WorkerStep

\* Ledger looks at nothing but these
LEMMA LedgerFrame ==
  ASSUME Ledger, UNCHANGED <<heap, arrived, finished>>, Pushed' = Pushed,
         Running' = Running, \A w \in Running : job'[w] = job[w]
  PROVE  Ledger'
<1>1. {job'[w] : w \in Running'} = {job[w] : w \in Running}
  OBVIOUS
<1>. QED
  BY <1>1 DEF Ledger

\* a task is in one place, and counted as what it is
LEMMA LedgerStep ==
  ASSUME TypeOK, GuardedWait, Ledger, [Next]_vars
  PROVE  Ledger'
<1>1. ASSUME NEW t \in Tasks, Validate(t) PROVE Ledger'
  <2>1. Running' = Running /\ UNCHANGED <<heap, arrived, finished, job>>
    BY <1>1 DEF Validate, loopVars, Running
  <2>2. Pushed' = Pushed
    BY <1>1 DEF Validate, Progress, TypeOK, Pushed
  <2>. QED
    BY <2>1, <2>2, LedgerFrame
<1>2. ASSUME NEW t \in Tasks, Submit(t) PROVE Ledger'
  <2>1. t \notin Pushed
    BY <1>2 DEF Submit, Progress, Pushed
  <2>2. /\ t \notin ToSet(heap) /\ t \notin ToSet(arrived) /\ t \notin finished
        /\ \A w \in Running : job[w] # t
    BY <2>1 DEF Ledger
  <2>3. /\ heap \in Seq(Tasks) /\ arrived \in Seq(Tasks)
        /\ IsInjective(heap) /\ IsInjective(arrived) /\ ToSet(arrived) = ToSet(heap)
        /\ heap' = HeapPush(heap, t) /\ arrived' = Append(arrived, t)
    BY <1>2 DEF Submit, Ledger, TypeOK
  <2>4. ToSet(heap') = ToSet(heap) \cup {t} /\ IsInjective(heap')
    <3>1. heap \in Seq(Tasks) /\ IsInjective(heap) /\ t \notin ToSet(heap)
      BY <2>2, <2>3
    <3>2. ToSet(HeapPush(heap, t)) = ToSet(heap) \cup {t}
      BY <3>1, PushItems
    <3>3. IsInjective(HeapPush(heap, t))
      BY <3>1, PushItems
    <3>. QED
      BY <2>3, <3>2, <3>3
  <2>5. ToSet(arrived') = ToSet(arrived) \cup {t} /\ IsInjective(arrived')
    <3>1. ToSet(Append(arrived, t)) = ToSet(arrived) \cup {t}
      BY <2>3, AppendSet
    <3>2. IsInjective(Append(arrived, t))
      BY <2>2, <2>3, AppendNew
    <3>. QED
      BY <2>3, <3>1, <3>2
  <2>6. Pushed' = Pushed \cup {t}
    BY <1>2 DEF Submit, Progress, TypeOK, Pushed
  <2>7. Running' = Running /\ UNCHANGED <<finished, job>>
    BY <1>2 DEF Submit, loopVars, Running
  <2>. QED
    BY <2>2, <2>3, <2>4, <2>5, <2>6, <2>7 DEF Ledger
<1>3. ASSUME NEW t \in Tasks, SignalSubmit(t) PROVE Ledger'
  <2>1. Running' = Running
    BY <1>3 DEF SignalSubmit, Signal, MoveTo, Running, TypeOK, LoopTypeOK
  <2>2. UNCHANGED <<heap, arrived, finished, job>>
    BY <1>3 DEF SignalSubmit
  <2>3. Pushed' = Pushed
    BY <1>3 DEF SignalSubmit, Progress, TypeOK, Pushed
  <2>. QED
    BY <2>1, <2>2, <2>3, LedgerFrame
<1>4. ASSUME NEW w \in Workers, LockQueue(w) \/ Exit(w) \/ FindEmpty(w) \/ Sleep(w)
      PROVE Ledger'
  <2>1. Running' = Running
    BY <1>4 DEF LockQueue, Exit, FindEmpty, Sleep, Acquire, Leave, SeeOpen, Wait,
                MoveTo, Running, TypeOK, LoopTypeOK
  <2>2. UNCHANGED <<heap, arrived, finished, job, call>>
    BY <1>4 DEF LockQueue, Exit, FindEmpty, Sleep
  <2>. QED
    BY <2>1, <2>2, LedgerFrame DEF Pushed
<1>5. ASSUME NEW w \in Workers, Dequeue(w) PROVE Ledger'
  <2>0. heap \in Seq(Tasks) /\ heap # <<>> /\ arrived \in Seq(Tasks)
    BY <1>5 DEF Dequeue, TypeOK
  <2>1. PICK h \in Tasks : h = HeapTop(heap) /\ h \in ToSet(heap) /\ h \in ToSet(arrived)
    BY <2>0, PopItems DEF Ledger
  <2>2. ToSet(heap') = ToSet(heap) \ {h} /\ IsInjective(heap')
    BY <1>5, <2>0, <2>1, PopItems DEF Dequeue, Ledger
  <2>3. ToSet(arrived') = ToSet(arrived) \ {h} /\ IsInjective(arrived')
    <3>1. ToSet(Without(arrived, h)) = ToSet(arrived) \ {h} /\ IsInjective(Without(arrived, h))
      BY <2>0, <2>1, WithoutLine DEF Ledger
    <3>. QED
      BY <1>5, <2>1, <3>1 DEF Dequeue
  <2>4. w \notin Running /\ Running' = Running \cup {w}
    BY <1>5 DEF Dequeue, Take, MoveTo, Running, TypeOK, LoopTypeOK
  <2>5. job'[w] = h /\ \A v \in Running : job'[v] = job[v]
    BY <1>5, <2>1, <2>4 DEF Dequeue, TypeOK, Running
  <2>6. {job'[v] : v \in Running'} = {job[v] : v \in Running} \cup {h}
    BY <2>4, <2>5
  <2>7. h \notin finished /\ \A v \in Running : job[v] # h
    BY <2>1 DEF Ledger
  <2>8. UNCHANGED finished /\ Pushed' = Pushed
    BY <1>5 DEF Dequeue, Pushed
  <2>9. \A v \in Running' : job'[v] \notin finished' /\ job'[v] \notin ToSet(heap')
    BY <2>2, <2>4, <2>5, <2>7, <2>8 DEF Ledger
  <2>10. \A u, v \in Running' : job'[u] = job'[v] => u = v
    BY <2>4, <2>5, <2>7 DEF Ledger
  <2>. QED
    BY <2>1, <2>2, <2>3, <2>6, <2>8, <2>9, <2>10 DEF Ledger
<1>6. ASSUME NEW w \in Workers, FinishTask(w) PROVE Ledger'
  <2>1. w \in Running /\ Running' = Running \ {w}
    BY <1>6 DEF FinishTask, Return, MoveTo, Running, TypeOK, LoopTypeOK
  <2>2. \A v \in Running' : job'[v] = job[v]
    BY <1>6, <2>1 DEF FinishTask, TypeOK, Running
  <2>3. finished' = finished \cup {job[w]}
    BY <1>6 DEF FinishTask
  <2>4. finished' \cup {job'[v] : v \in Running'} = finished \cup {job[v] : v \in Running}
    BY <2>1, <2>2, <2>3
  <2>5. UNCHANGED <<heap, arrived>> /\ Pushed' = Pushed
    BY <1>6 DEF FinishTask, Pushed
  <2>6. \A v \in Running' : job'[v] \notin finished' /\ job'[v] \notin ToSet(heap')
    BY <2>1, <2>2, <2>3, <2>5 DEF Ledger
  <2>7. ToSet(heap') \cap finished' = {}
    BY <2>1, <2>3, <2>5 DEF Ledger
  <2>. QED
    BY <2>1, <2>2, <2>4, <2>5, <2>6, <2>7 DEF Ledger
<1>7. ASSUME StopRunning \/ StopClose \/ StopBroadcast PROVE Ledger'
  <2>1. Running' = Running
    BY <1>7 DEF StopRunning, StopClose, StopBroadcast, CloseStop, Broadcast, loopVars,
                Running, TypeOK, LoopTypeOK
  <2>2. UNCHANGED <<heap, arrived, finished, job, call>>
    BY <1>7 DEF StopRunning, StopClose, StopBroadcast
  <2>. QED
    BY <2>1, <2>2, LedgerFrame DEF Pushed
<1>8. ASSUME UNCHANGED vars PROVE Ledger'
  BY <1>8, LedgerFrame DEF vars, loopVars, Running, Pushed
<1>. QED
  BY <1>1, <1>2, <1>3, <1>4, <1>5, <1>6, <1>7, <1>8 DEF Next, CallStep, WorkerStep

\* Less respects the order by group, and the order by priority where orders are numbers
LEMMA OrdersRespected ==
  /\ Respects(ByGroup, Tasks)
  /\ Numbered => Respects(ByPriority, Tasks)
<1>1. \A t \in Tasks : t.group \in Int /\ t.order \in Int \cup {NaN}
  BY HTasksAssumption
<1>2. Respects(ByGroup, Tasks)
  BY <1>1 DEF Respects, ByGroup, Less
<1>3. ASSUME Numbered PROVE Respects(ByPriority, Tasks)
  <2>1. \A t \in Tasks : t.group \in Int /\ t.order \in Int /\ t.order # NaN
    BY <1>1, <1>3 DEF Numbered
  <2>2. \A a, b \in Tasks : Less(a, b) <=> \/ a.group < b.group
                                           \/ a.group = b.group /\ a.order < b.order
    BY <2>1 DEF Less, OrderLess
  <2>3. ASSUME NEW a \in Tasks, NEW b \in Tasks, NEW c \in Tasks,
               ~Less(b, a), ~Less(c, b)
        PROVE  ~Less(c, a)
    BY <2>1, <2>2, <2>3
  <2>4. ASSUME NEW a \in Tasks, NEW b \in Tasks, Less(a, b) PROVE ~Less(b, a)
    BY <2>1, <2>2, <2>4
  <2>. QED
    BY <2>3, <2>4 DEF Respects, ByPriority
<1>. QED
  BY <1>2, <1>3

\* pushes and pops keep the heap a heap
LEMMA PriorityStep ==
  ASSUME TypeOK, Priority, [Next]_vars
  PROVE  Priority'
<1>1. ASSUME heap' = heap PROVE Priority'
  BY <1>1 DEF Priority
<1>2. ASSUME NEW t \in Tasks, Submit(t) PROVE Priority'
  <2>1. heap \in Seq(Tasks) /\ heap' = HeapPush(heap, t) /\ Len(heap') = Len(heap) + 1
    BY <1>2, PushItems DEF Submit, TypeOK
  <2>2. HeapOrdered(ByGroup, HeapPush(heap, t), Len(heap) + 1)
    BY <2>1, OrdersRespected, KeepOrder DEF Priority
  <2>3. Numbered => HeapOrdered(ByPriority, HeapPush(heap, t), Len(heap) + 1)
    BY <2>1, OrdersRespected, KeepOrder DEF Priority
  <2>. QED
    BY <2>1, <2>2, <2>3 DEF Priority
<1>3. ASSUME NEW w \in Workers, Dequeue(w) PROVE Priority'
  <2>1. /\ heap \in Seq(Tasks) /\ heap # <<>> /\ heap' = HeapRest(heap)
        /\ Len(heap') = Len(heap) - 1
    BY <1>3, PopItems DEF Dequeue, TypeOK
  <2>2. HeapOrdered(ByGroup, HeapRest(heap), Len(heap) - 1)
    BY <2>1, OrdersRespected, KeepOrder DEF Priority
  <2>3. Numbered => HeapOrdered(ByPriority, HeapRest(heap), Len(heap) - 1)
    BY <2>1, OrdersRespected, KeepOrder DEF Priority
  <2>. QED
    BY <2>1, <2>2, <2>3 DEF Priority
<1>4. ASSUME NEW t \in Tasks, Validate(t) \/ SignalSubmit(t) PROVE heap' = heap
  BY <1>4 DEF Validate, SignalSubmit
<1>5. ASSUME NEW w \in Workers,
             LockQueue(w) \/ Exit(w) \/ FindEmpty(w) \/ Sleep(w) \/ FinishTask(w)
      PROVE heap' = heap
  BY <1>5 DEF LockQueue, Exit, FindEmpty, Sleep, FinishTask
<1>6. ASSUME StopRunning \/ StopClose \/ StopBroadcast PROVE heap' = heap
  BY <1>6 DEF StopRunning, StopClose, StopBroadcast
<1>7. ASSUME UNCHANGED vars PROVE heap' = heap
  BY <1>7 DEF vars
<1>. QED
  BY <1>1, <1>2, <1>3, <1>4, <1>5, <1>6, <1>7 DEF Next, CallStep, WorkerStep

\* a step makes one more call at most
LEMMA FiniteCallsStep ==
  ASSUME TypeOK, FiniteCalls, [Next]_vars
  PROVE  FiniteCalls'
<1>1. ASSUME NEW t \in Tasks, CallStep(t) PROVE FiniteCalls'
  <2>1. Calls' = Calls \/ Calls' = Calls \cup {t}
    BY <1>1 DEF CallStep, Validate, Submit, SignalSubmit, Progress, Calls, TypeOK
  <2>. QED
    BY <2>1, FS_AddElement DEF FiniteCalls
<1>2. ASSUME UNCHANGED call PROVE FiniteCalls'
  BY <1>2 DEF FiniteCalls, Calls
<1>3. ASSUME NEW w \in Workers, WorkerStep(w) PROVE UNCHANGED call
  BY <1>3 DEF WorkerStep, LockQueue, Dequeue, Exit, FindEmpty, Sleep, FinishTask
<1>4. ASSUME StopRunning \/ StopClose \/ StopBroadcast PROVE UNCHANGED call
  BY <1>4 DEF StopRunning, StopClose, StopBroadcast
<1>5. ASSUME UNCHANGED vars PROVE UNCHANGED call
  BY <1>5 DEF vars
<1>. QED
  BY <1>1, <1>2, <1>3, <1>4, <1>5 DEF Next

\* sets of workers and of calls have a cardinality
LEMMA FiniteParts ==
  ASSUME NEW C, IsFiniteSet(C)
  PROVE  /\ \A S \in SUBSET Workers : IsFiniteSet(S) /\ Cardinality(S) \in Nat
         /\ \A S \in SUBSET C : IsFiniteSet(S) /\ Cardinality(S) \in Nat
BY WorkersAssumption, FS_Subset, FS_CardinalityType

\* a step that pushes nothing, covers no less and puts nobody to sleep
LEMMA WakeupsFrame ==
  ASSUME TypeOK, FiniteCalls, WakeupsCoverHeap,
         heap' = heap, At({"asleep"})' \subseteq At({"asleep"}),
         Signalling' = Signalling, Awake \subseteq Awake', Awake' \subseteq Workers
  PROVE  WakeupsCoverHeap'
<1>0. Signalling \in SUBSET Calls /\ IsFiniteSet(Calls)
  BY DEF Signalling, Calls, FiniteCalls
<1>1. Cardinality(Awake) <= Cardinality(Awake')
  BY <1>0, FiniteParts, FS_Subset
<1>2. Cardinality(Awake) \in Nat /\ Cardinality(Awake') \in Nat /\ Awake \subseteq Workers
  BY <1>0, FiniteParts DEF Awake, At
<1>3. Cardinality(Signalling) \in Nat /\ Len(heap) \in Nat
  BY <1>0, FiniteParts DEF TypeOK
<1>. QED
  BY <1>1, <1>2, <1>3 DEF WakeupsCoverHeap, Awake

\* no step leaves a task in the heap without a wakeup while a worker sleeps
LEMMA WakeupsStep ==
  ASSUME TypeOK, GuardedWait, FiniteCalls, FiniteCalls', WakeupsCoverHeap, [Next]_vars
  PROVE  WakeupsCoverHeap'
<1>. USE DEF TypeOK, LoopTypeOK
<1>0. /\ Len(heap) \in Nat
      /\ Awake \subseteq Workers /\ Awake' \subseteq Workers
      /\ Cardinality(Awake) \in Nat /\ Cardinality(Awake') \in Nat
      /\ IsFiniteSet(Awake)
      /\ Cardinality(Signalling) \in Nat /\ Cardinality(Signalling') \in Nat
      /\ IsFiniteSet(Signalling)
  <2>1. Awake \in SUBSET Workers /\ Awake' \in SUBSET Workers
    BY DEF Awake, At
  <2>2. Signalling \in SUBSET Calls /\ IsFiniteSet(Calls)
    BY DEF Signalling, Calls, FiniteCalls
  <2>3. Signalling' \in SUBSET Calls' /\ IsFiniteSet(Calls')
    BY DEF Signalling, Calls, FiniteCalls
  <2>4. Len(heap) \in Nat
    OBVIOUS
  <2>. QED
    BY <2>1, <2>2, <2>3, <2>4, FiniteParts
<1>1. ASSUME NEW t \in Tasks, Validate(t) PROVE WakeupsCoverHeap'
  <2>1. Signalling' = Signalling
    BY <1>1 DEF Validate, Progress, Signalling
  <2>. QED
    BY <1>0, <1>1, <2>1, WakeupsFrame DEF Validate, loopVars, At, Awake
<1>2. ASSUME NEW t \in Tasks, Submit(t) PROVE WakeupsCoverHeap'
  <2>1. Signalling' = Signalling \cup {t} /\ t \notin Signalling
    BY <1>2 DEF Submit, Progress, Signalling
  <2>2. Cardinality(Signalling') = Cardinality(Signalling) + 1
    BY <1>0, <2>1, FS_AddElement
  <2>3. Len(heap') = Len(heap) + 1
    BY <1>2, PushItems DEF Submit
  <2>4. Awake' = Awake /\ At({"asleep"})' = At({"asleep"})
    BY <1>2 DEF Submit, loopVars, At, Awake
  <2>. QED
    BY <1>0, <2>2, <2>3, <2>4 DEF WakeupsCoverHeap, Awake
<1>3. ASSUME NEW t \in Tasks, SignalSubmit(t) PROVE WakeupsCoverHeap'
  <2>1. Signalling' = Signalling \ {t} /\ t \in Signalling
    BY <1>3 DEF SignalSubmit, Progress, Signalling
  <2>2. Cardinality(Signalling') = Cardinality(Signalling) - 1
    BY <1>0, <2>1, FS_RemoveElement
  <2>3. heap' = heap
    BY <1>3 DEF SignalSubmit
  <2>4. CASE At({"asleep"}) = {} /\ UNCHANGED wpc
    BY <2>4 DEF WakeupsCoverHeap, At
  <2>5. ASSUME NEW w \in Workers, MoveTo(w, "asleep", "lock") PROVE WakeupsCoverHeap'
    <3>1. w \in At({"asleep"})
      BY <2>5 DEF MoveTo, At
    <3>2. Awake' = Awake \cup {w} /\ w \notin Awake
      BY <2>5 DEF MoveTo, At, Awake
    <3>3. Cardinality(Awake') = Cardinality(Awake) + 1
      BY <1>0, <3>2, FS_AddElement
    <3>. QED
      BY <1>0, <2>2, <2>3, <3>1, <3>3 DEF WakeupsCoverHeap, Awake
  <2>. QED
    BY <1>3, <2>4, <2>5 DEF SignalSubmit, Signal
<1>4. ASSUME NEW w \in Workers, LockQueue(w) PROVE WakeupsCoverHeap'
  <2>1. Awake' = Awake /\ At({"asleep"})' = At({"asleep"})
    BY <1>4 DEF LockQueue, Acquire, MoveTo, At, Awake
  <2>. QED
    BY <1>0, <1>4, <2>1, WakeupsFrame DEF LockQueue, Signalling
<1>5. ASSUME NEW w \in Workers, Dequeue(w) PROVE WakeupsCoverHeap'
  <2>1. Awake' = Awake \ {w} /\ w \in Awake /\ At({"asleep"})' = At({"asleep"})
    BY <1>5 DEF Dequeue, Take, MoveTo, At, Awake
  <2>2. Cardinality(Awake') = Cardinality(Awake) - 1
    BY <1>0, <2>1, FS_RemoveElement
  <2>3. Len(heap') = Len(heap) - 1
    BY <1>5, PopItems DEF Dequeue
  <2>4. Signalling' = Signalling
    BY <1>5 DEF Dequeue, Signalling
  <2>. QED
    BY <1>0, <2>1, <2>2, <2>3, <2>4 DEF WakeupsCoverHeap, Awake
<1>6. ASSUME NEW w \in Workers, Exit(w) \/ FindEmpty(w) \/ Sleep(w) PROVE WakeupsCoverHeap'
  <2>1. heap' = <<>>
    BY <1>6 DEF Exit, FindEmpty, Sleep, Wait, MoveTo, GuardedWait
  <2>2. Len(heap') = 0
    BY <2>1
  <2>. QED
    BY <1>0, <2>2 DEF WakeupsCoverHeap, Awake
<1>7. ASSUME NEW w \in Workers, FinishTask(w) PROVE WakeupsCoverHeap'
  <2>1. Awake \subseteq Awake' /\ At({"asleep"})' = At({"asleep"})
    BY <1>7 DEF FinishTask, Return, MoveTo, At, Awake
  <2>. QED
    BY <1>0, <1>7, <2>1, WakeupsFrame DEF FinishTask, Signalling
<1>8. ASSUME StopRunning \/ StopClose PROVE WakeupsCoverHeap'
  <2>1. UNCHANGED <<wpc, heap, call>>
    BY <1>8 DEF StopRunning, StopClose, CloseStop, loopVars
  <2>. QED
    BY <1>0, <2>1, WakeupsFrame DEF At, Awake, Signalling
<1>9. ASSUME StopBroadcast PROVE WakeupsCoverHeap'
  <2>1. At({"asleep"})' = {}
    BY <1>9 DEF StopBroadcast, Broadcast, At
  <2>. QED
    BY <2>1 DEF WakeupsCoverHeap
<1>10. ASSUME UNCHANGED vars PROVE WakeupsCoverHeap'
  BY <1>0, <1>10, WakeupsFrame DEF vars, loopVars, At, Awake, Signalling
<1>. QED
  BY <1>1, <1>2, <1>3, <1>4, <1>5, <1>6, <1>7, <1>8, <1>9, <1>10
  DEF Next, CallStep, WorkerStep

-----------------------------------------------------------------------------
(***************************************************************************)
(* What the types, the mutex, the ledger of tasks and the order of the     *)
(* heap say holds together in every state that the calls, the workers and  *)
(* Stop can bring hPool to.                                                *)
(***************************************************************************)
THEOREM Inductive == Spec => []IInv
<1>1. Init => IInv
  BY InitIInv
<1>2. IInv /\ [Next]_vars => IInv'
  BY TypeStep, GuardedWaitStep, LedgerStep, PriorityStep, FiniteCallsStep, WakeupsStep DEF IInv
<1>. QED
  BY <1>1, <1>2, PTL DEF Spec

(***************************************************************************)
(* pool.go:244-263, for any number of workers and calls: a worker never    *)
(* sleeps on a task in the heap that no signal and no awake worker will    *)
(* reach.                                                                  *)
(***************************************************************************)
THEOREM NoLostWakeup == Spec => []WakeupsCoverHeap
BY Inductive, PTL DEF IInv

-----------------------------------------------------------------------------
(* The refinement: hPool implements TaskPromise. *)

\* the six states of a task, each told from the pool
LEMMA StateFacts ==
  ASSUME NEW t \in Tasks, TypeOK
  PROVE  /\ StateOf(t) = "new" <=> call[t] = "idle"
         /\ StateOf(t) = "refused" <=> call[t] = "refused"
         /\ StateOf(t) = "admitted" <=> call[t] = "validated"
         /\ t \in Pushed =>
              /\ t \in ToSet(heap) => StateOf(t) = "waiting"
              /\ t \notin ToSet(heap) /\ t \in finished => StateOf(t) = "done"
              /\ t \notin ToSet(heap) /\ t \notin finished => StateOf(t) = "running"
         /\ StateOf(t) = "running" =>
              t \in Pushed /\ t \notin ToSet(heap) /\ t \notin finished
BY DEF StateOf, TypeOK, CallState, Pushed

\* the pool starts as promised, with no task
LEMMA PromiseInit == Init => Promise!Init
<1>. SUFFICES ASSUME Init PROVE Promise!Init
  OBVIOUS
<1>1. \A t \in Tasks : StateOf(t) = "new"
  BY DEF Init, StateOf
<1>2. TaskStates = [t \in Tasks |-> "new"]
  BY <1>1 DEF TaskStates
<1>. QED
  BY <1>2 DEF Init, Promise!Init

\* no task changes its state
LEMMA StateKept ==
  ASSUME UNCHANGED <<heap, finished>>,
         \A t \in Tasks : call'[t] = call[t] \/ {call[t], call'[t]} \subseteq {"pushed", "accepted"}
  PROVE  TaskStates' = TaskStates
<1>1. ASSUME NEW t \in Tasks PROVE StateOf(t)' = StateOf(t)
  BY DEF StateOf
<1>. QED
  BY <1>1 DEF TaskStates

\* exactly one task changes its state
LEMMA StateMoved ==
  ASSUME NEW t \in Tasks, NEW from, NEW to, StateOf(t) = from, StateOf(t)' = to,
         \A u \in Tasks \ {t} : StateOf(u)' = StateOf(u)
  PROVE  Promise!Become(t, from, to)
<1>1. TaskStates[t] = from
  BY DEF TaskStates
<1>2. TaskStates' = [TaskStates EXCEPT ![t] = to]
  BY DEF TaskStates
<1>. QED
  BY <1>1, <1>2 DEF Promise!Become

\* a worker about to take a task leaves room in the pool for it
LEMMA Room ==
  ASSUME TypeOK, Ledger, NEW w \in Workers, w \notin Running
  PROVE  Cardinality(Promise!In("running")) < Cardinality(Workers)
<1>. DEFINE jobs == {job[v] : v \in Running}
            runs == [v \in Running |-> job[v]]
<1>1. Promise!In("running") \subseteq jobs
  <2>. SUFFICES ASSUME NEW t \in Tasks, StateOf(t) = "running" PROVE t \in jobs
    BY DEF Promise!In, TaskStates
  <2>. QED
    BY StateFacts DEF Ledger
<1>2. /\ IsFiniteSet(Running) /\ Cardinality(Running) \in Nat
      /\ Cardinality(Running) <= Cardinality(Workers \ {w})
      /\ IsFiniteSet(Workers \ {w})
  <2>1. Running \subseteq Workers \ {w}
    BY DEF Running
  <2>2. IsFiniteSet(Workers \ {w})
    BY WorkersAssumption, FS_RemoveElement
  <2>. QED
    BY <2>1, <2>2, FS_Subset, FS_CardinalityType
<1>3. Cardinality(Workers \ {w}) = Cardinality(Workers) - 1 /\ Cardinality(Workers) \in Nat
  BY WorkersAssumption, FS_RemoveElement, FS_CardinalityType
<1>4. runs \in Surjection(Running, jobs)
  BY DEF Surjection
<1>5. IsFiniteSet(jobs) /\ Cardinality(jobs) <= Cardinality(Running)
  BY <1>2, <1>4, FS_Surjection
<1>6. /\ Cardinality(Promise!In("running")) <= Cardinality(jobs)
      /\ Cardinality(Promise!In("running")) \in Nat /\ Cardinality(jobs) \in Nat
  BY <1>1, <1>5, FS_Subset, FS_CardinalityType
<1>. QED
  BY <1>2, <1>3, <1>5, <1>6

\* the root of the heap may be the next of the line to start
LEMMA TopMayStart ==
  ASSUME TypeOK, Ledger, Priority, heap # <<>>,
         NEW i \in DOMAIN arrived, arrived[i] = HeapTop(heap)
  PROVE  LeastFirst(arrived, i)
<1>. SUFFICES ASSUME NEW j \in DOMAIN arrived
              PROVE  /\ HeapTop(heap).group <= arrived[j].group
                     /\ Numbered => ~Less(arrived[j], HeapTop(heap))
  BY DEF LeastFirst
<1>1. heap \in Seq(Tasks) /\ HeapTop(heap) \in Tasks /\ HeapTop(heap) = heap[1]
  BY PopItems DEF TypeOK
<1>2. DOMAIN heap = 1..Len(heap) /\ Len(heap) \in Nat
  BY <1>1
<1>3. PICK a \in 1..Len(heap) : arrived[j] = heap[a]
  <2>1. arrived[j] \in ToSet(heap)
    BY DEF Ledger, ToSet
  <2>. QED
    BY <1>2, <2>1 DEF ToSet
<1>4. CASE a = 1
  <2>1. HeapTop(heap).group \in Int /\ HeapTop(heap).order \in Int \cup {NaN}
    BY <1>1, HTasksAssumption
  <2>2. ~Less(HeapTop(heap), HeapTop(heap))
    BY <2>1 DEF Less, OrderLess
  <2>. QED
    BY <1>1, <1>3, <1>4, <2>1, <2>2
<1>5. CASE a # 1
  <2>1. a \in 2..Len(heap)
    BY <1>2, <1>5
  <2>2. <<HeapTop(heap), heap[a]>> \in ByGroup
    <3>1. Respects(ByGroup, Tasks) /\ HeapOrdered(ByGroup, heap, Len(heap))
      BY OrdersRespected DEF Priority
    <3>. QED
      BY <1>1, <2>1, <3>1, KeepOrder
  <2>3. ASSUME Numbered PROVE <<HeapTop(heap), heap[a]>> \in ByPriority
    <3>1. Respects(ByPriority, Tasks) /\ HeapOrdered(ByPriority, heap, Len(heap))
      BY <2>3, OrdersRespected DEF Priority
    <3>. QED
      BY <1>1, <2>1, <3>1, KeepOrder
  <2>. QED
    BY <1>3, <2>2, <2>3 DEF ByGroup, ByPriority
<1>. QED
  BY <1>4, <1>5

\* the instance counts as this module does
LEMMA SameCount == ASSUME NEW S PROVE Promise!Cardinality(S) = Cardinality(S)
BY Zenon DEF Promise!Cardinality, Cardinality

\* every step is a step of the promise, or none
LEMMA PromiseStep ==
  ASSUME IInv, [Next]_vars
  PROVE  [Promise!Next]_Promise!vars
<1>0. TypeOK /\ GuardedWait /\ Ledger /\ Priority
  BY DEF IInv
<1>1. ASSUME NEW t \in Tasks, Validate(t) PROVE Promise!Next
  <2>1. UNCHANGED <<heap, arrived, finished, running>>
    BY <1>1 DEF Validate
  <2>2. \A u \in Tasks \ {t} : call'[u] = call[u]
    BY <1>0, <1>1 DEF Validate, Progress, TypeOK
  <2>3. \A u \in Tasks \ {t} : StateOf(u)' = StateOf(u)
    BY <2>1, <2>2 DEF StateOf
  <2>4. call[t] = "idle" /\ call'[t] = IF Refused(t) THEN "refused" ELSE "validated"
    BY <1>0, <1>1 DEF Validate, Progress, TypeOK
  <2>5. StateOf(t) = "new"
    BY <2>4 DEF StateOf
  <2>6. CASE Refused(t)
    <3>1. StateOf(t)' = "refused"
      BY <2>4, <2>6 DEF StateOf
    <3>2. Promise!Become(t, "new", "refused")
      BY <2>3, <2>5, <3>1, StateMoved
    <3>. QED
      BY <2>1, <3>2 DEF Promise!Next, Promise!Refuse
  <2>7. CASE ~Refused(t)
    <3>1. StateOf(t)' = "admitted" /\ running
      BY <2>4, <2>7 DEF StateOf, Refused
    <3>2. Promise!Become(t, "new", "admitted")
      BY <2>3, <2>5, <3>1, StateMoved
    <3>. QED
      BY <2>1, <3>1, <3>2 DEF Promise!Next, Promise!Admit
  <2>. QED
    BY <2>6, <2>7
<1>2. ASSUME NEW t \in Tasks, Submit(t) PROVE Promise!Next
  <2>1. /\ UNCHANGED <<finished, running>>
        /\ heap' = HeapPush(heap, t) /\ arrived' = Append(arrived, t)
    BY <1>2 DEF Submit
  <2>2. ToSet(heap') = ToSet(heap) \cup {t}
    <3>1. heap \in Seq(Tasks)
      BY <1>0 DEF TypeOK
    <3>2. ToSet(HeapPush(heap, t)) = ToSet(heap) \cup {t}
      BY <3>1, PushItems
    <3>. QED
      BY <2>1, <3>2
  <2>3. \A u \in Tasks \ {t} : call'[u] = call[u]
    BY <1>0, <1>2 DEF Submit, Progress, TypeOK
  <2>4. \A u \in Tasks \ {t} : StateOf(u)' = StateOf(u)
    BY <2>1, <2>2, <2>3 DEF StateOf
  <2>5. call[t] = "validated" /\ call'[t] = "pushed"
    BY <1>0, <1>2 DEF Submit, Progress, TypeOK
  <2>6. StateOf(t) = "admitted" /\ StateOf(t)' = "waiting"
    BY <2>2, <2>5 DEF StateOf
  <2>7. Promise!Become(t, "admitted", "waiting")
    BY <2>4, <2>6, StateMoved
  <2>. QED
    BY <2>1, <2>7 DEF Promise!Next, Promise!Join
<1>3. ASSUME NEW t \in Tasks, SignalSubmit(t) PROVE UNCHANGED Promise!vars
  <2>1. UNCHANGED <<heap, arrived, finished, running>>
    BY <1>3 DEF SignalSubmit
  <2>2. \A u \in Tasks : call'[u] = call[u] \/ {call[u], call'[u]} \subseteq {"pushed", "accepted"}
    BY <1>0, <1>3 DEF SignalSubmit, Progress, TypeOK
  <2>. QED
    BY <2>1, <2>2, StateKept DEF Promise!vars
<1>4. ASSUME NEW w \in Workers, LockQueue(w) \/ Exit(w) \/ FindEmpty(w) \/ Sleep(w)
      PROVE UNCHANGED Promise!vars
  <2>1. UNCHANGED <<heap, arrived, finished, running, call>>
    BY <1>4 DEF LockQueue, Exit, FindEmpty, Sleep
  <2>. QED
    BY <2>1, StateKept DEF Promise!vars
<1>5. ASSUME NEW w \in Workers, Dequeue(w) PROVE Promise!Next
  <2>1. /\ heap \in Seq(Tasks) /\ heap # <<>> /\ arrived \in Seq(Tasks)
        /\ heap' = HeapRest(heap) /\ UNCHANGED <<call, finished, running>>
    BY <1>0, <1>5 DEF Dequeue, TypeOK
  <2>2. PICK h \in Tasks : h = HeapTop(heap) /\ h \in ToSet(heap) /\ h \in ToSet(arrived)
    BY <1>0, <2>1, PopItems DEF Ledger
  <2>3. ToSet(heap') = ToSet(heap) \ {h}
    BY <1>0, <2>1, <2>2, PopItems DEF Ledger
  <2>4. PICK i \in DOMAIN arrived : arrived[i] = h /\ Without(arrived, h) = RemoveAt(arrived, i)
    BY <1>0, <2>1, <2>2, WithoutLine DEF Ledger
  <2>5. \A u \in Tasks \ {h} : StateOf(u)' = StateOf(u)
    BY <2>1, <2>3 DEF StateOf
  <2>6. h \in Pushed /\ h \notin finished
    BY <1>0, <2>2 DEF Ledger
  <2>7. StateOf(h) = "waiting" /\ StateOf(h)' = "running"
    BY <2>1, <2>2, <2>3, <2>6 DEF StateOf, Pushed
  <2>8. Promise!Become(arrived[i], "waiting", "running")
    BY <2>4, <2>5, <2>7, StateMoved
  <2>9. w \notin Running
    BY <1>5 DEF Dequeue, Take, MoveTo, Running
  <2>10. Cardinality(Promise!In("running")) < Cardinality(Workers)
    BY <1>0, <2>9, Room
  <2>11. arrived' = Promise!RemoveAt(arrived, i)
    <3>1. arrived' = RemoveAt(arrived, i)
      BY <1>5, <2>2, <2>4 DEF Dequeue
    <3>. QED
      BY <3>1 DEF RemoveAt, Promise!RemoveAt
  <2>12. LeastFirst(arrived, i)
    BY <1>0, <2>1, <2>2, <2>4, TopMayStart
  <2>13. Promise!Start(i)
    BY <2>1, <2>8, <2>10, <2>11, <2>12, SameCount DEF Promise!Start
  <2>. QED
    BY <2>4, <2>13 DEF Promise!Next
<1>6. ASSUME NEW w \in Workers, FinishTask(w) PROVE Promise!Next
  <2>0. PICK t \in Tasks : t = job[w]
    BY <1>0, <1>6 DEF FinishTask, Return, MoveTo, GuardedWait, TypeOK
  <2>1. w \in Running /\ t = job[w]
    BY <1>6, <2>0 DEF FinishTask, Return, MoveTo, Running
  <2>2. t \notin finished /\ t \notin ToSet(heap)
    BY <1>0, <2>1 DEF Ledger
  <2>3. call[t] \in {"pushed", "accepted"}
    BY <1>0, <2>1 DEF Ledger, Pushed
  <2>4. UNCHANGED <<heap, arrived, call, running>> /\ finished' = finished \cup {t}
    BY <1>6, <2>1 DEF FinishTask
  <2>5. \A u \in Tasks \ {t} : StateOf(u)' = StateOf(u)
    BY <2>4 DEF StateOf
  <2>6. StateOf(t) = "running" /\ StateOf(t)' = "done"
    BY <2>2, <2>3, <2>4 DEF StateOf
  <2>7. Promise!Become(t, "running", "done")
    BY <2>3, <2>5, <2>6, StateMoved
  <2>. QED
    BY <2>4, <2>7 DEF Promise!Next, Promise!Finish
<1>7. ASSUME StopRunning PROVE Promise!Next
  <2>1. UNCHANGED <<heap, arrived, finished, call>> /\ running' = FALSE
    BY <1>7 DEF StopRunning
  <2>2. TaskStates' = TaskStates
    BY <2>1, StateKept
  <2>. QED
    BY <2>1, <2>2 DEF Promise!Next, Promise!Close
<1>8. ASSUME StopClose \/ StopBroadcast PROVE UNCHANGED Promise!vars
  <2>1. UNCHANGED <<heap, arrived, finished, running, call>>
    BY <1>8 DEF StopClose, StopBroadcast
  <2>. QED
    BY <2>1, StateKept DEF Promise!vars
<1>9. ASSUME UNCHANGED vars PROVE UNCHANGED Promise!vars
  <2>1. UNCHANGED <<heap, arrived, finished, running, call>>
    BY <1>9 DEF vars
  <2>. QED
    BY <2>1, StateKept DEF Promise!vars
<1>. QED
  BY <1>1, <1>2, <1>3, <1>4, <1>5, <1>6, <1>7, <1>8, <1>9 DEF Next, CallStep, WorkerStep

(***************************************************************************)
(* factory.go:48-58, pool.go:35-52, 244-273, for any number of workers and *)
(* calls, any groups and any orders, NaN among them: hPool implements      *)
(* TaskPromise, with what its heap promises of the order of the starts.    *)
(***************************************************************************)
THEOREM Implements == Spec => KeepsPromise
<1>1. Init => Promise!Init
  BY PromiseInit
<1>2. IInv /\ [Next]_vars => [Promise!Next]_Promise!vars
  BY PromiseStep
<1>. QED
  BY <1>1, <1>2, Inductive, PTL DEF Spec, KeepsPromise, Promise!Spec
=============================================================================
