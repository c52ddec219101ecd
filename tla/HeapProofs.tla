----------------------------- MODULE HeapProofs -----------------------------
(***************************************************************************)
(* Proofs about Heap, for any number of executors and any memory.          *)
(*                                                                         *)
(* What is reachable and what is on the list are both least closed sets    *)
(* (Closure), so an induction along references is the choice of a closed   *)
(* set: every lemma about them shows that some set is closed.              *)
(***************************************************************************)
EXTENDS Heap, TLAPS

Succ == [Refs -> SUBSET Refs]
Nexts == [Refs -> RefOrNil]
-----------------------------------------------------------------------------
(* Closures. *)

\* A closure contains where it starts, is closed, and is the least such set.
LEMMA ClosureFacts ==
  ASSUME NEW S \in SUBSET Refs, NEW k \in Succ
  PROVE  /\ Closure(S, k) \subseteq Refs
         /\ S \subseteq Closure(S, k)
         /\ \A x \in Closure(S, k) : k[x] \subseteq Closure(S, k)
         /\ \A T \in SUBSET Refs :
              (S \subseteq T /\ \A t \in T : k[t] \subseteq T) => Closure(S, k) \subseteq T
<1>1. Closure(S, k) \subseteq Refs /\ S \subseteq Closure(S, k)
  BY DEF Closure
<1>2. ASSUME NEW x \in Closure(S, k), NEW y \in k[x] PROVE y \in Closure(S, k)
  <2>1. x \in Refs /\ y \in Refs
    BY <1>1, <1>2 DEF Succ
  <2>2. ASSUME NEW T \in SUBSET Refs, S \subseteq T, \A t \in T : k[t] \subseteq T
        PROVE  y \in T
    <3>1. x \in T
      BY <2>2 DEF Closure
    <3> QED BY <1>2, <2>2, <3>1
  <2> QED BY <2>1, <2>2 DEF Closure
<1>3. \A T \in SUBSET Refs :
        (S \subseteq T /\ \A t \in T : k[t] \subseteq T) => Closure(S, k) \subseteq T
  BY DEF Closure
<1> QED BY <1>1, <1>2, <1>3

\* What is reachable from reachable references is reachable.
LEMMA ClosureMonotone ==
  ASSUME NEW S \in SUBSET Refs, NEW U \in SUBSET Refs, NEW k \in Succ,
         S \subseteq Closure(U, k)
  PROVE  Closure(S, k) \subseteq Closure(U, k)
<1> DEFINE C == Closure(U, k)
<1>1. C \in SUBSET Refs /\ \A x \in C : k[x] \subseteq C
  BY ClosureFacts
<1> HIDE DEF C
<1> QED BY <1>1, ClosureFacts DEF C

\* Successors that change only outside a closure do not change it.
LEMMA ClosureFrame ==
  ASSUME NEW S \in SUBSET Refs, NEW k \in Succ, NEW m \in Succ,
         \A x \in Closure(S, k) : m[x] = k[x]
  PROVE  Closure(S, m) = Closure(S, k)
<1> DEFINE C == Closure(S, k)
           D == Closure(S, m)
<1>1. C \in SUBSET Refs /\ S \subseteq C /\ \A x \in C : k[x] \subseteq C
  BY ClosureFacts
<1>2. D \in SUBSET Refs /\ S \subseteq D /\ \A x \in D : m[x] \subseteq D
  BY ClosureFacts
<1>3. \A x \in C : m[x] = k[x]
  OBVIOUS
<1> HIDE DEF C, D
<1>4. D \subseteq C
  BY <1>1, <1>3, ClosureFacts DEF D
<1>5. C \subseteq D
  BY <1>2, <1>3, <1>4, ClosureFacts DEF C
<1> QED BY <1>4, <1>5 DEF C, D
-----------------------------------------------------------------------------
(* Chains. *)

\* A chain is closed under following it, and the least such set.
LEMMA ChainFacts ==
  ASSUME NEW nx \in Nexts, NEW r \in RefOrNil
  PROVE  /\ Chain(nx, r) \subseteq Refs
         /\ Nil \notin Chain(nx, r)
         /\ r # Nil => r \in Chain(nx, r)
         /\ \A x \in Chain(nx, r) : nx[x] # Nil => nx[x] \in Chain(nx, r)
         /\ \A T \in SUBSET Refs :
              (r # Nil => r \in T) /\ (\A t \in T : nx[t] # Nil => nx[t] \in T)
                => Chain(nx, r) \subseteq T
<1> DEFINE S == {r} \ {Nil}
           k == [x \in Refs |-> {nx[x]} \ {Nil}]
<1>1. S \in SUBSET Refs /\ k \in Succ
  BY DEF Succ, Nexts, RefOrNil
<1>2. /\ Closure(S, k) \subseteq Refs
      /\ S \subseteq Closure(S, k)
      /\ \A x \in Closure(S, k) : k[x] \subseteq Closure(S, k)
      /\ \A T \in SUBSET Refs :
           (S \subseteq T /\ \A t \in T : k[t] \subseteq T) => Closure(S, k) \subseteq T
  <2> HIDE DEF S, k
  <2> QED BY <1>1, ClosureFacts
<1>3. Chain(nx, r) = Closure(S, k)
  BY DEF Chain
<1>4. Nil \notin Chain(nx, r)
  BY <1>2, <1>3, HeapAssumption
<1>5. ASSUME NEW T \in SUBSET Refs, r # Nil => r \in T,
             \A t \in T : nx[t] # Nil => nx[t] \in T
      PROVE  Chain(nx, r) \subseteq T
  <2>1. S \subseteq T /\ \A t \in T : k[t] \subseteq T
    BY <1>5
  <2> HIDE DEF S, k
  <2> QED BY <1>2, <1>3, <2>1
<1>6. \A x \in Chain(nx, r) : nx[x] # Nil => nx[x] \in Chain(nx, r)
  <2> SUFFICES ASSUME NEW x \in Chain(nx, r), nx[x] # Nil PROVE nx[x] \in Chain(nx, r)
    OBVIOUS
  <2>1. k[x] \subseteq Closure(S, k) /\ x \in Refs
    <3> HIDE DEF S, k
    <3> QED BY <1>2, <1>3
  <2>2. nx[x] \in k[x]
    BY <2>1
  <2> HIDE DEF S, k
  <2> QED BY <1>3, <2>1, <2>2
<1>7. r # Nil => r \in Chain(nx, r)
  <2>1. r # Nil => r \in S
    OBVIOUS
  <2> HIDE DEF S, k
  <2> QED BY <1>2, <1>3, <2>1
<1>8. Chain(nx, r) \subseteq Refs
  <2> HIDE DEF S, k
  <2> QED BY <1>2, <1>3
<1> QED BY <1>4, <1>5, <1>6, <1>7, <1>8

\* The end of a chain is empty.
LEMMA ChainNil == ASSUME NEW nx \in Nexts PROVE Chain(nx, Nil) = {}
<1>1. Nil \in RefOrNil /\ {} \in SUBSET Refs
  BY DEF RefOrNil
<1>2. Chain(nx, Nil) \subseteq {}
  BY <1>1, ChainFacts
<1> QED BY <1>2

\* A chain is its first reference and the chain from the next one.
LEMMA ChainStep ==
  ASSUME NEW nx \in Nexts, NEW r \in Refs
  PROVE  Chain(nx, r) = {r} \cup Chain(nx, nx[r])
<1>1. r \in RefOrNil /\ nx[r] \in RefOrNil /\ r # Nil
  BY HeapAssumption DEF Nexts, RefOrNil
<1>2. Chain(nx, r) \subseteq {r} \cup Chain(nx, nx[r])
  <2> DEFINE T == {r} \cup Chain(nx, nx[r])
  <2>1. T \in SUBSET Refs
    BY <1>1, ChainFacts
  <2>2. \A t \in T : nx[t] # Nil => nx[t] \in T
    BY <1>1, ChainFacts
  <2>3. r \in T
    OBVIOUS
  <2> HIDE DEF T
  <2>4. Chain(nx, r) \subseteq T
    BY <1>1, <2>1, <2>2, <2>3, ChainFacts
  <2> QED BY <2>4 DEF T
<1>3. r \in Chain(nx, r)
  BY <1>1, ChainFacts
<1>4. Chain(nx, nx[r]) \subseteq Chain(nx, r)
  <2> DEFINE T == Chain(nx, r)
  <2>1. T \in SUBSET Refs /\ (\A t \in T : nx[t] # Nil => nx[t] \in T) /\ r \in T
    BY <1>1, ChainFacts
  <2> HIDE DEF T
  <2>2. Chain(nx, nx[r]) \subseteq T
    BY <1>1, <2>1, ChainFacts
  <2> QED BY <2>2 DEF T
<1> QED BY <1>2, <1>3, <1>4

\* The chain from a reference on a chain is a part of it.
LEMMA ChainSuffix ==
  ASSUME NEW nx \in Nexts, NEW h \in RefOrNil, NEW r \in Chain(nx, h) \cup {Nil}
  PROVE  r \in RefOrNil /\ Chain(nx, r) \subseteq Chain(nx, h)
<1> DEFINE T == Chain(nx, h)
<1>1. T \in SUBSET Refs /\ (\A t \in T : nx[t] # Nil => nx[t] \in T)
  BY ChainFacts
<1>2. r \in RefOrNil /\ (r # Nil => r \in T)
  BY <1>1 DEF RefOrNil
<1> HIDE DEF T
<1>3. Chain(nx, r) \subseteq T
  BY <1>1, <1>2, ChainFacts
<1> QED BY <1>2, <1>3 DEF T

\* Writing the next field of references that are not on a chain leaves it alone.
LEMMA ChainFrame ==
  ASSUME NEW nx \in Nexts, NEW mx \in Nexts, NEW r \in RefOrNil,
         \A x \in Chain(nx, r) : mx[x] = nx[x]
  PROVE  Chain(mx, r) = Chain(nx, r)
<1> DEFINE C == Chain(nx, r)
           D == Chain(mx, r)
<1>1. /\ C \in SUBSET Refs
      /\ r # Nil => r \in C
      /\ \A x \in C : nx[x] # Nil => nx[x] \in C
      /\ \A x \in C : mx[x] = nx[x]
  BY ChainFacts
<1>2. /\ D \in SUBSET Refs
      /\ r # Nil => r \in D
      /\ \A x \in D : mx[x] # Nil => mx[x] \in D
  BY ChainFacts
<1> HIDE DEF C, D
<1>3. D \subseteq C
  BY <1>1, ChainFacts DEF D
<1>4. \A x \in D : nx[x] # Nil => nx[x] \in D
  BY <1>1, <1>2, <1>3
<1>5. C \subseteq D
  BY <1>2, <1>4, ChainFacts DEF C
<1> QED BY <1>3, <1>5 DEF C, D

\* The references of a chain lie one after the other.
LEMMA ChainTotal ==
  ASSUME NEW nx \in Nexts, NEW h \in RefOrNil,
         NEW t \in Chain(nx, h), NEW u \in Chain(nx, h)
  PROVE  t \in Chain(nx, u) \/ u \in Chain(nx, t)
<1> DEFINE C == Chain(nx, h)
           T == {x \in C : t \in Chain(nx, x) \/ x \in Chain(nx, t)}
<1>1. /\ C \in SUBSET Refs
      /\ h # Nil => h \in C
      /\ \A x \in C : nx[x] # Nil => nx[x] \in C
  BY ChainFacts
<1>2. t \in Refs /\ t \in RefOrNil
  BY <1>1 DEF RefOrNil
<1>3. h # Nil => h \in T
  BY <1>1
<1>4. ASSUME NEW x \in T, nx[x] # Nil PROVE nx[x] \in T
  <2>1. nx[x] \in C /\ x \in Refs
    BY <1>1, <1>4
  <2>2. CASE x = t \/ x \in Chain(nx, t)
    <3>1. x \in Chain(nx, t)
      BY <1>2, <2>2, ChainStep
    <3>2. nx[x] \in Chain(nx, t)
      BY <1>2, <1>4, <3>1, ChainFacts
    <3> QED BY <2>1, <3>2
  <2>3. CASE x # t /\ t \in Chain(nx, x)
    <3>1. t \in Chain(nx, nx[x])
      BY <2>1, <2>3, ChainStep
    <3> QED BY <2>1, <3>1
  <2> QED BY <2>2, <2>3
<1>5. T \in SUBSET Refs
  BY <1>1
<1>6. C \subseteq T
  <2> HIDE DEF T
  <2> QED BY <1>3, <1>4, <1>5, ChainFacts
<1> QED BY <1>6

Acyclic(nx, h) == \A r \in Chain(nx, h) : r \notin Chain(nx, nx[r])

\* On a chain without a cycle only one reference leads to another.
LEMMA OnePredecessor ==
  ASSUME NEW nx \in Nexts, NEW h \in RefOrNil, Acyclic(nx, h),
         NEW t \in Chain(nx, h), NEW u \in Chain(nx, h), nx[t] = nx[u]
  PROVE  t = u
<1>1. t \in Refs /\ u \in Refs
  BY ChainFacts
<1>2. t \notin Chain(nx, nx[t]) /\ u \notin Chain(nx, nx[u])
  BY DEF Acyclic
<1>3. t \in Chain(nx, u) \/ u \in Chain(nx, t)
  BY ChainTotal
<1>4. t \in {u} \cup Chain(nx, nx[u]) \/ u \in {t} \cup Chain(nx, nx[t])
  BY <1>1, <1>3, ChainStep
<1> QED BY <1>2, <1>4

\* Taking the reference behind p off a list without a cycle removes that
\* reference and nothing else, and the rest of the list stays behind p.
LEMMA ChainUnlink ==
  ASSUME NEW nx \in Nexts, NEW h \in RefOrNil, Acyclic(nx, h),
         NEW p \in Chain(nx, h), nx[p] # Nil,
         NEW mx \in Nexts, mx[p] = nx[nx[p]],
         \A x \in Refs \ {p, nx[p]} : mx[x] = nx[x]
  PROVE  /\ Chain(mx, h) = Chain(nx, h) \ {nx[p]}
         /\ Acyclic(mx, h)
         /\ Chain(mx, mx[p]) = Chain(nx, nx[nx[p]])
<1> DEFINE r == nx[p]
           C == Chain(nx, h)
           D == Chain(mx, h)
<1>1. /\ C \in SUBSET Refs
      /\ h # Nil => h \in C
      /\ \A x \in C : nx[x] # Nil => nx[x] \in C
  BY ChainFacts
<1>2. p \in Refs /\ r \in Refs /\ r \in C /\ nx[r] \in RefOrNil /\ r \in RefOrNil
  BY <1>1 DEF Nexts, RefOrNil
<1>3. p \notin Chain(nx, r) /\ r \notin Chain(nx, nx[r])
  BY <1>2 DEF Acyclic
<1>4. Chain(nx, r) = {r} \cup Chain(nx, nx[r])
  BY <1>2, ChainStep
<1>5. p # r /\ h # r
  BY <1>3, <1>4
<1>6. /\ mx \in Nexts
      /\ mx[p] = nx[r]
      /\ \A x \in Refs \ {p, r} : mx[x] = nx[x]
  BY <1>2, <1>5
<1>7. /\ D \in SUBSET Refs
      /\ h # Nil => h \in D
      /\ \A x \in D : mx[x] # Nil => mx[x] \in D
  BY <1>6, ChainFacts
<1>8. \A x \in C : x # p => nx[x] # r
  BY OnePredecessor
<1>9. \A x \in C \cup {Nil} : x # r => Chain(mx, x) \subseteq Chain(nx, x) \ {r}
  <2> SUFFICES ASSUME NEW x \in C \cup {Nil}, x # r
               PROVE  Chain(mx, x) \subseteq Chain(nx, x) \ {r}
    OBVIOUS
  <2> DEFINE T == Chain(nx, x) \ {r}
  <2>1. x \in RefOrNil /\ Chain(nx, x) \subseteq C
    BY ChainSuffix
  <2>2. T \in SUBSET Refs /\ (x # Nil => x \in T)
    BY <2>1, ChainFacts
  <2>3. ASSUME NEW t \in T, mx[t] # Nil PROVE mx[t] \in T
    <3>1. t \in C /\ t \in Refs /\ t \in Chain(nx, x) /\ t # r
      BY <1>1, <2>1
    <3>2. CASE t = p
      <4>1. r \in Chain(nx, x)
        BY <2>1, <3>1, <3>2, ChainFacts
      <4>2. nx[r] \in Chain(nx, x)
        BY <1>6, <2>1, <2>3, <3>2, <4>1, ChainFacts
      <4>3. nx[r] # r
        BY <1>2, <1>3, <1>6, <2>3, <3>2, ChainFacts
      <4> QED BY <1>6, <3>2, <4>2, <4>3
    <3>3. CASE t # p
      <4>1. mx[t] = nx[t] /\ nx[t] # r
        BY <1>6, <1>8, <3>1, <3>3
      <4>2. nx[t] \in Chain(nx, x)
        BY <2>1, <2>3, <3>1, <4>1, ChainFacts
      <4> QED BY <4>1, <4>2
    <3> QED BY <3>2, <3>3
  <2> HIDE DEF T
  <2>4. Chain(mx, x) \subseteq T
    BY <1>6, <2>1, <2>2, <2>3, ChainFacts
  <2> QED BY <2>4 DEF T
<1>10. D \subseteq C \ {r}
  BY <1>1, <1>5, <1>9 DEF RefOrNil
<1>11. p \in D
  <2> SUFFICES ASSUME p \notin D PROVE FALSE
    OBVIOUS
  <2>1. \A x \in D : nx[x] # Nil => nx[x] \in D
    BY <1>6, <1>7, <1>10
  <2> HIDE DEF C, D
  <2>2. C \subseteq D
    BY <1>7, <2>1, ChainFacts DEF C
  <2> QED BY <2>2 DEF C
<1>12. C \ {r} \subseteq D
  <2> DEFINE T == D \cup {r}
  <2>1. T \in SUBSET Refs /\ (h # Nil => h \in T)
    BY <1>2, <1>7
  <2>2. \A t \in T : nx[t] # Nil => nx[t] \in T
    BY <1>2, <1>6, <1>7, <1>10, <1>11
  <2> HIDE DEF T, C
  <2>3. C \subseteq T
    BY <2>1, <2>2, ChainFacts DEF C
  <2> QED BY <2>3 DEF T
<1>13. Chain(mx, nx[r]) = Chain(nx, nx[r])
  <2>1. Chain(nx, nx[r]) \subseteq Chain(nx, r) /\ Chain(nx, nx[r]) \subseteq Refs
    BY <1>2, <1>4, ChainFacts
  <2>2. \A x \in Chain(nx, nx[r]) : mx[x] = nx[x]
    BY <1>3, <1>6, <2>1
  <2> QED BY <1>2, <1>6, <2>2, ChainFrame
<1>14. ASSUME NEW x \in D PROVE x \notin Chain(mx, mx[x])
  <2>1. x \in C /\ x # r /\ x \in Refs /\ x \notin Chain(nx, nx[x])
    BY <1>1, <1>10 DEF Acyclic
  <2>2. CASE x = p
    <3>1. x \notin Chain(nx, nx[r])
      BY <1>3, <1>4, <2>2
    <3> QED BY <1>6, <1>13, <2>2, <3>1
  <2>3. CASE x # p
    <3>1. mx[x] = nx[x] /\ nx[x] # r
      BY <1>6, <1>8, <2>1, <2>3
    <3>2. nx[x] \in C \cup {Nil}
      BY <1>1, <2>1
    <3>3. Chain(mx, nx[x]) \subseteq Chain(nx, nx[x])
      BY <1>9, <3>1, <3>2
    <3> QED BY <2>1, <3>1, <3>3
  <2> QED BY <2>2, <2>3
<1>15. Acyclic(mx, h)
  BY <1>14 DEF Acyclic
<1>16. D = C \ {r}
  BY <1>10, <1>12
<1>17. Chain(mx, mx[p]) = Chain(nx, nx[r])
  BY <1>6, <1>13
<1> QED BY <1>6, <1>15, <1>16, <1>17
-----------------------------------------------------------------------------
(* Types. *)

\* The set of references and Nil, one variable at a time.
LEMMA Typed ==
  TypeOK => /\ field \in [Refs -> RefOrNil] /\ collapsed \in [Refs -> RefOrNil]
            /\ next \in [Refs -> RefOrNil]
            /\ tmp \in [Executors -> RefOrNil] /\ link \in [Executors -> RefOrNil]
            /\ held \in [Executors -> RefOrNil]
            /\ next \in Nexts
BY DEF TypeOK, Nexts

\* The variables stay within their types.
LEMMA TypeStep == HeapInv /\ [Next]_vars => TypeOK'
<1> SUFFICES ASSUME TypeOK, OwnerInv, SweepInv, [Next]_vars PROVE TypeOK'
  BY DEF HeapInv
<1> USE MainAssumption, HeapAssumption
    DEF TypeOK, WorldStates, Modes, RefOrNil, refVars, execVars, gcVars, worldVars
<1>1. ASSUME NEW e \in Executors, ExecutorStep(e) PROVE TypeOK'
  <2>1. ASSUME NEW r \in Refs, NEW k \in Kinds, NEW f \in Refs \cup {Nil},
               Construct(e, r, k, f)
        PROVE  /\ live' \subseteq Refs
               /\ kind' \in [Refs -> Kinds \cup {"string"}]
               /\ {field', collapsed', next'} \subseteq [Refs -> RefOrNil]
               /\ tmp' \in [Executors -> RefOrNil]
               /\ opc' \in [Executors -> {"ready", "cas", "store", "write"}]
    BY <2>1 DEF Construct
  <2>2. ASSUME NEW r \in Refs, Alloc(e, r) PROVE TypeOK'
    BY <2>1, <2>2 DEF Alloc, Construct, Ready
  <2>3. CASE Cas(e)
    <3>1. /\ head' \in RefOrNil /\ next' \in [Refs -> RefOrNil]
          /\ tmp' \in [Executors -> RefOrNil]
      BY <2>3 DEF Cas
    <3>2. opc' \in [Executors -> {"ready", "cas", "store", "write"}]
      BY <2>3 DEF Cas
    <3>3. stack' \in [Executors -> SUBSET Refs]
      <4>1. tmp[e] \in Refs
        BY <2>3 DEF Cas, OwnerInv, Linking
      <4> QED BY <2>3, <4>1 DEF Cas
    <3> QED BY <2>3, <3>1, <3>2, <3>3 DEF Cas
  <2>4. ASSUME NEW r \in Refs, Drop(e, r) \/ LoadField(e, r) PROVE TypeOK'
    BY <2>4 DEF Drop, LoadField
  <2>5. ASSUME NEW r \in Refs, NEW q \in Refs, StoreField(e, r, q) PROVE TypeOK'
    BY <2>5 DEF StoreField
  <2>6. ASSUME NEW c \in Executors, ForkArgs(e, c) PROVE TypeOK'
    BY <2>6 DEF ForkArgs, WorldFork
  <2>7. CASE Park(e) \/ Exit(e) \/ Unwind(e) \/ WriteBlock(e) \/ Unpark(e)
    BY <2>7 DEF Park, Exit, Unwind, WriteBlock, Unpark, WorldPark, WorldExit, WorldUnwind, WorldUnpark
  <2>8. ASSUME NEW r \in Refs, WriteCollapsed(e, r) PROVE TypeOK'
    BY <2>8 DEF WriteCollapsed
  <2>9. ASSUME NEW l \in Refs, NEW r \in Refs, CollapseAlloc(e, l, r) PROVE TypeOK'
    BY <2>9 DEF CollapseAlloc, Construct
  <2>10. CASE SetCollapsed(e)
    <3>1. collapsed' \in [Refs -> RefOrNil]
      BY <2>10 DEF SetCollapsed
    <3>2. /\ held' \in [Executors -> RefOrNil] /\ link' \in [Executors -> RefOrNil]
          /\ tmp' \in [Executors -> RefOrNil]
      BY <2>10 DEF SetCollapsed
    <3>3. opc' \in [Executors -> {"ready", "cas", "store", "write"}]
      BY <2>10 DEF SetCollapsed
    <3> QED BY <2>10, <3>1, <3>2, <3>3 DEF SetCollapsed
  <2> QED BY <1>1, <2>2, <2>3, <2>4, <2>5, <2>6, <2>7, <2>8, <2>9, <2>10 DEF ExecutorStep
<1>2. CASE CollectorStep
  <2>1. CASE Stop
    BY <2>1 DEF Stop, WorldStop
  <2>2. CASE Mark
    BY <2>2 DEF Mark, Children
  <2>3. CASE MarkDone
    BY <2>3 DEF MarkDone
  <2>4. CASE ResumeBeforeSweep \/ BlockingSweep \/ SweepHead \/ SweepEnd
    BY <2>4 DEF ResumeBeforeSweep, BlockingSweep, SweepHead, SweepEnd, WorldResume
  <2>5. CASE SweepKeep
    BY <2>5 DEF SweepKeep
  <2>6. CASE SweepFree
    <3>1. field' \in [Refs -> RefOrNil] /\ collapsed' \in [Refs -> RefOrNil]
      BY <2>6 DEF SweepFree
    <3>2. next' \in [Refs -> RefOrNil]
      <4>1. prev \in Refs /\ next[prev] \in Refs
        BY <2>6 DEF SweepFree, SweepInv
      <4>2. next[next[prev]] \in RefOrNil
        BY <4>1
      <4> QED BY <2>6, <4>1, <4>2 DEF SweepFree
    <3>3. kind' \in [Refs -> Kinds \cup {"string"}]
      BY <2>6 DEF SweepFree
    <3> QED BY <2>6, <3>1, <3>2, <3>3 DEF SweepFree
  <2>7. CASE CollectEnd
    BY <2>7 DEF CollectEnd, WorldResume
  <2> QED BY <1>2, <2>1, <2>2, <2>3, <2>4, <2>5, <2>6, <2>7 DEF CollectorStep
<1>3. CASE StopForAbort \/ Abort
  BY <1>3 DEF StopForAbort, Abort, WorldStop, WorldAbort
<1>4. CASE Destroy
  BY <1>4 DEF Destroy
<1>5. CASE Finished \/ UNCHANGED vars
  BY <1>5 DEF Finished, vars
<1> QED BY <1>1, <1>2, <1>3, <1>4, <1>5 DEF Next
-----------------------------------------------------------------------------
(* Reachability. *)

Kids == [r \in Refs |-> Children(r)]

\* The roots are references, and so are the children of one.
LEMMA KidsTyped ==
  /\ TypeOK => Roots \in SUBSET Refs /\ Kids \in Succ
  /\ TypeOK' => Roots' \in SUBSET Refs /\ Kids' \in Succ
<1>1. TypeOK => Roots \in SUBSET Refs /\ Kids \in Succ
  BY DEF TypeOK, Roots, Kids, Succ, Children, RefOrNil
<1>2. TypeOK' => Roots' \in SUBSET Refs /\ Kids' \in Succ
  BY DEF TypeOK, Roots, Kids, Succ, Children, RefOrNil
<1> QED BY <1>1, <1>2

\* What is reachable from the stacks contains them and is closed.
LEMMA ReachFacts ==
  ASSUME TypeOK
  PROVE  /\ Reachable(Roots) \in SUBSET Refs
         /\ Roots \subseteq Reachable(Roots)
         /\ \A e \in Executors : stack[e] \subseteq Reachable(Roots)
         /\ \A t \in Reachable(Roots) : Children(t) \subseteq Reachable(Roots)
<1>1. Roots \in SUBSET Refs /\ Kids \in Succ
  BY KidsTyped
<1>2. Reachable(Roots) = Closure(Roots, Kids)
  BY DEF Reachable, Kids
<1>3. \A t \in Refs : Kids[t] = Children(t)
  BY DEF Kids
<1>4. \A e \in Executors : stack[e] \subseteq Roots
  BY DEF Roots
<1> QED BY <1>1, <1>2, <1>3, <1>4, ClosureFacts

\* After a step nothing outside a set is reachable that holds the roots and is
\* closed.
LEMMA ReachBound ==
  ASSUME TypeOK', NEW T \in SUBSET Refs, Roots' \subseteq T,
         \A t \in T : Children(t)' \subseteq T
  PROVE  Reachable(Roots)' \subseteq T
<1>1. Roots' \in SUBSET Refs /\ Kids' \in Succ
  BY KidsTyped
<1>2. Reachable(Roots)' = Closure(Roots', Kids')
  BY DEF Reachable, Kids
<1>3. \A t \in Refs : Kids'[t] = Children(t)'
  BY DEF Kids
<1> QED BY <1>1, <1>2, <1>3, ClosureFacts

\* A step that keeps the stacks and the children of what is reachable keeps
\* reachability.
LEMMA ReachSame ==
  ASSUME TypeOK, TypeOK', stack' = stack,
         \A t \in Reachable(Roots) : Children(t)' = Children(t)
  PROVE  Reachable(Roots)' = Reachable(Roots)
<1>1. Roots \in SUBSET Refs /\ Kids \in Succ /\ Kids' \in Succ /\ Roots' = Roots
  BY KidsTyped DEF Roots
<1>2. Reachable(Roots) = Closure(Roots, Kids)
  BY DEF Reachable, Kids
<1>3. Reachable(Roots)' = Closure(Roots', Kids')
  BY DEF Reachable, Kids
<1>4. \A t \in Refs : Kids[t] = Children(t) /\ Kids'[t] = Children(t)'
  BY DEF Kids
<1>5. Closure(Roots, Kids) \subseteq Refs
  BY <1>1, ClosureFacts
<1>6. \A t \in Closure(Roots, Kids) : Kids'[t] = Kids[t]
  BY <1>2, <1>4, <1>5
<1>7. Closure(Roots, Kids') = Closure(Roots, Kids)
  BY <1>1, <1>6, ClosureFrame
<1> QED BY <1>1, <1>2, <1>3, <1>7
-----------------------------------------------------------------------------
(* What an executor's step does to the list and to reachability. *)

\* The reference that a step of an executor gives to the rest of the program.
Published(e) == IF Linking(e) /\ ~Linking(e)' THEN {tmp[e]} ELSE {}

\* Executors only run when nobody marks.
LEMMA ExecutorsRun ==
  ASSUME HeapInv, NEW e \in Executors, ExecutorStep(e)
  PROVE  cpc # "mark" /\ UNCHANGED gcVars /\ world' = world /\ live \subseteq live'
<1> USE DEF HeapInv, PhaseInv, OwnerInv, Linking
<1>1. ASSUME NEW r \in Refs,
             \/ Alloc(e, r) \/ Drop(e, r) \/ LoadField(e, r) \/ WriteCollapsed(e, r)
             \/ \E q \in Refs : StoreField(e, r, q) \/ CollapseAlloc(e, r, q)
      PROVE  cpc # "mark" /\ UNCHANGED gcVars /\ world' = world /\ live \subseteq live'
  BY <1>1 DEF Alloc, Drop, LoadField, WriteCollapsed, StoreField, CollapseAlloc, Construct,
       Ready, worldVars, refVars
<1>2. CASE Cas(e) \/ SetCollapsed(e) \/ \E c \in Executors : ForkArgs(e, c)
  BY <1>2 DEF Cas, SetCollapsed, ForkArgs, WorldFork, Ready, worldVars, refVars
<1>3. CASE WriteBlock(e) \/ Park(e) \/ Unpark(e) \/ Exit(e) \/ Unwind(e)
  BY <1>3 DEF WriteBlock, Park, Unpark, Exit, Unwind, WorldPark, WorldUnpark, WorldExit,
       WorldUnwind, Ready, refVars
<1> QED BY <1>1, <1>2, <1>3 DEF ExecutorStep

\* An executor's step writes the next field only of references that are not on
\* the list, and the children only of those that are reachable or new.
LEMMA ExecutorWrites ==
  ASSUME HeapInv, NEW e \in Executors, ExecutorStep(e)
  PROVE  /\ \A y \in ListFrom(head) : next'[y] = next[y]
         /\ \A y \in live \ Reachable(Roots) : Children(y)' = Children(y)
         /\ \A x \in Executors \ {e} :
              /\ Linking(x)' <=> Linking(x)
              /\ tmp'[x] = tmp[x] /\ link'[x] = link[x]
              /\ Linking(x) => stack'[x] = stack[x] /\ mode'[x] = mode[x]
<1> DEFINE L == ListFrom(head)
           R == Reachable(Roots)
           Goal == /\ \A y \in L : next'[y] = next[y]
                   /\ \A y \in live \ R : Children(y)' = Children(y)
                   /\ \A x \in Executors \ {e} :
                        /\ Linking(x)' <=> Linking(x)
                        /\ tmp'[x] = tmp[x] /\ link'[x] = link[x]
                        /\ Linking(x) => stack'[x] = stack[x] /\ mode'[x] = mode[x]
<1>1. /\ live \subseteq Refs
      /\ kind \in [Refs -> Kinds \cup {"string"}]
      /\ field \in [Refs -> RefOrNil] /\ collapsed \in [Refs -> RefOrNil]
      /\ next \in [Refs -> RefOrNil]
      /\ stack \in [Executors -> SUBSET Refs]
      /\ opc \in [Executors -> {"ready", "cas", "store", "write"}]
      /\ tmp \in [Executors -> RefOrNil] /\ link \in [Executors -> RefOrNil]
      /\ mode \in [Executors -> Modes]
  BY Typed DEF HeapInv, TypeOK
<1>2. /\ R \in SUBSET Refs
      /\ \A x \in Executors : stack[x] \subseteq R
  BY ReachFacts DEF HeapInv
<1>3. /\ L \subseteq live
      /\ \A x \in Executors : opc[x] = "cas" => tmp[x] \notin L
  BY DEF HeapInv, HeapSound, ListSound
<1>4. \A x \in Executors : Linking(x) => mode[x] = "active" /\ link[x] \in stack[x] \cup {Nil}
  BY DEF HeapInv, OwnerInv
<1> HIDE DEF L, R
<1> USE HeapAssumption
<1>5. ASSUME NEW r \in Refs, NEW k \in Kinds, NEW f \in RefOrNil, Construct(e, r, k, f)
      PROVE  /\ \A y \in L : next'[y] = next[y]
             /\ \A y \in live \ R : Children(y)' = Children(y)
             /\ \A x \in Executors \ {e} : (Linking(x)' <=> Linking(x)) /\ tmp'[x] = tmp[x]
  BY <1>1, <1>3, <1>5 DEF Construct, Children, Linking
<1>6. ASSUME NEW r \in Refs, Alloc(e, r) PROVE Goal
  <2>1. PICK k \in Kinds, f \in stack[e] \cup {Nil} : Construct(e, r, k, f)
    BY <1>6 DEF Alloc
  <2>2. f \in RefOrNil
    BY <1>1 DEF RefOrNil
  <2> QED BY <1>5, <1>6, <2>1, <2>2 DEF Alloc, worldVars
<1>7. ASSUME NEW l \in Refs, NEW r \in Refs, CollapseAlloc(e, l, r) PROVE Goal
  <2>1. Construct(e, r, "string", Nil)
    BY <1>7 DEF CollapseAlloc
  <2>2. /\ \A y \in L : next'[y] = next[y]
        /\ \A y \in live \ R : Children(y)' = Children(y)
        /\ \A x \in Executors \ {e} : (Linking(x)' <=> Linking(x)) /\ tmp'[x] = tmp[x]
    BY <1>1, <1>3, <2>1 DEF Construct, Children, Linking
  <2> QED BY <1>1, <1>7, <2>2 DEF CollapseAlloc, worldVars
<1>8. ASSUME Cas(e) PROVE Goal
  <2>1. \A y \in L : next'[y] = next[y]
    BY <1>1, <1>3, <1>8 DEF Cas
  <2>2. \A y \in live \ R : Children(y)' = Children(y)
    BY <1>8 DEF Cas, Children
  <2>3. \A x \in Executors \ {e} : /\ opc'[x] = opc[x] /\ tmp'[x] = tmp[x]
                                   /\ link'[x] = link[x] /\ stack'[x] = stack[x]
    BY <1>1, <1>8 DEF Cas
  <2>4. mode' = mode
    BY <1>8 DEF Cas, worldVars
  <2>5. \A x \in Executors \ {e} : Linking(x)' <=> Linking(x)
    BY <2>3 DEF Linking
  <2> QED BY <2>1, <2>2, <2>3, <2>4, <2>5
<1>9. ASSUME SetCollapsed(e) PROVE Goal
  <2>1. link[e] \in R \cup {Nil}
    BY <1>2, <1>4, <1>9 DEF SetCollapsed, Linking
  <2>2. \A y \in live \ R : Children(y)' = Children(y)
    BY <1>1, <1>9, <2>1 DEF SetCollapsed, Children
  <2>3. \A x \in Executors \ {e} : /\ opc'[x] = opc[x] /\ tmp'[x] = tmp[x]
                                   /\ link'[x] = link[x] /\ stack'[x] = stack[x]
    BY <1>1, <1>9 DEF SetCollapsed
  <2>4. mode' = mode /\ next' = next
    BY <1>9 DEF SetCollapsed, worldVars
  <2>5. \A x \in Executors \ {e} : Linking(x)' <=> Linking(x)
    BY <2>3 DEF Linking
  <2> QED BY <2>2, <2>3, <2>4, <2>5
<1>10. ASSUME NEW r \in Refs, NEW q \in Refs, StoreField(e, r, q) PROVE Goal
  <2>1. \A y \in live \ R : Children(y)' = Children(y)
    BY <1>1, <1>2, <1>10 DEF StoreField, Children
  <2> QED BY <1>10, <2>1 DEF StoreField, Linking, execVars, worldVars
<1>11. ASSUME NEW r \in Refs, Drop(e, r) \/ LoadField(e, r) \/ WriteCollapsed(e, r) PROVE Goal
  BY <1>1, <1>11 DEF Drop, LoadField, WriteCollapsed, Ready, Children, Linking, refVars, worldVars
<1>12. ASSUME NEW c \in Executors, ForkArgs(e, c) PROVE Goal
  <2>1. ~Linking(c)
    BY <1>4, <1>12 DEF ForkArgs, WorldFork
  <2> QED BY <1>1, <1>12, <2>1 DEF ForkArgs, WorldFork, Ready, Children, Linking, refVars
<1>13. ASSUME WriteBlock(e) \/ Park(e) \/ Unpark(e) \/ Exit(e) \/ Unwind(e) PROVE Goal
  BY <1>1, <1>13 DEF WriteBlock, Park, Unpark, Exit, Unwind, WorldPark, WorldUnpark, WorldExit,
       WorldUnwind, Ready, Children, Linking, refVars, execVars
<1> QED BY <1>6, <1>7, <1>8, <1>9, <1>10, <1>11, <1>12, <1>13 DEF ExecutorStep, L, R

\* A step of an executor makes nothing reachable but what it publishes.
LEMMA ExecutorReach ==
  ASSUME HeapInv, TypeOK', NEW e \in Executors, ExecutorStep(e)
  PROVE  Reachable(Roots)' \subseteq Reachable(Roots) \cup Published(e)
<1> DEFINE R == Reachable(Roots)
           T == R \cup Published(e)
           Bound == Roots' \subseteq T /\ \A t \in T : Children(t)' \subseteq T
<1>1. /\ live \subseteq Refs
      /\ kind \in [Refs -> Kinds \cup {"string"}]
      /\ field \in [Refs -> RefOrNil] /\ collapsed \in [Refs -> RefOrNil]
      /\ stack \in [Executors -> SUBSET Refs]
      /\ opc \in [Executors -> {"ready", "cas", "store", "write"}]
      /\ tmp \in [Executors -> RefOrNil] /\ link \in [Executors -> RefOrNil]
  BY Typed DEF HeapInv, TypeOK
<1>2. /\ R \in SUBSET Refs
      /\ \A x \in Executors : stack[x] \subseteq R
      /\ \A t \in R : Children(t) \subseteq R
  BY ReachFacts DEF HeapInv
<1>3. Linking(e) => /\ tmp[e] \in live /\ tmp[e] \notin R
                    /\ Children(tmp[e]) \subseteq R
  BY <1>2 DEF HeapInv, OwnerInv
<1>4. T \in SUBSET Refs /\ \A t \in T : Children(t) \subseteq T
  BY <1>1, <1>2, <1>3 DEF Published
<1>5. world # "Aborted" => R \subseteq live
  BY DEF HeapInv, HeapSound, NoDangling
<1>6. world # "Running" => mode[e] # "active"
  BY DEF HeapInv, PhaseInv
<1> HIDE DEF R
<1> USE HeapAssumption
<1>7. ASSUME \A x \in Executors : stack'[x] \subseteq T PROVE Roots' \subseteq T
  BY <1>7 DEF Roots
<1>8. ASSUME \A t \in T : Children(t)' = Children(t) PROVE \A t \in T : Children(t)' \subseteq T
  BY <1>4, <1>8
<1>9. ASSUME UNCHANGED <<kind, field, collapsed>> PROVE \A t \in T : Children(t)' \subseteq T
  <2>1. \A t \in T : Children(t)' = Children(t)
    BY <1>9 DEF Children
  <2> QED BY <1>8, <2>1
<1>10. ASSUME NEW r \in Refs, NEW k, NEW f, Construct(e, r, k, f), stack' = stack, mode[e] = "active"
       PROVE  Bound
  <2>1. r \notin R
    BY <1>5, <1>6, <1>10 DEF Construct
  <2>2. r \notin T
    BY <1>3, <1>10, <2>1 DEF Construct, Published
  <2>3. \A t \in T : Children(t)' = Children(t)
    BY <1>1, <1>4, <1>10, <2>2 DEF Construct, Children
  <2> QED BY <1>2, <1>7, <1>8, <1>10, <2>3
<1>11. ASSUME NEW r \in Refs, Alloc(e, r) PROVE Bound
  BY <1>10, <1>11 DEF Alloc, Ready
<1>12. ASSUME NEW l \in Refs, NEW r \in Refs, CollapseAlloc(e, l, r) PROVE Bound
  BY <1>10, <1>12 DEF CollapseAlloc, Ready
<1>13. ASSUME Cas(e) PROVE Bound
  <2>1. ASSUME stack' # stack PROVE tmp[e] \in T
    BY <1>1, <1>13, <2>1 DEF Cas, Published, Linking
  <2>2. \A x \in Executors : stack'[x] \subseteq T
    BY <1>1, <1>2, <1>13, <2>1 DEF Cas
  <2>3. UNCHANGED <<kind, field, collapsed>>
    BY <1>13 DEF Cas
  <2> QED BY <1>7, <1>9, <2>2, <2>3
<1>14. ASSUME SetCollapsed(e) PROVE Bound
  <2>1. tmp[e] \in T
    BY <1>1, <1>14 DEF SetCollapsed, Published, Linking
  <2>2. \A t \in T : Children(t)' \subseteq T
    BY <1>1, <1>4, <1>14, <2>1 DEF SetCollapsed, Children
  <2>3. \A x \in Executors : stack'[x] \subseteq T
    BY <1>2, <1>14 DEF SetCollapsed
  <2> QED BY <1>7, <2>2, <2>3
<1>15. ASSUME NEW r \in Refs, NEW q \in Refs, StoreField(e, r, q) PROVE Bound
  <2>1. \A t \in T : Children(t)' \subseteq T
    BY <1>1, <1>2, <1>4, <1>15 DEF StoreField, Children
  <2> QED BY <1>2, <1>7, <1>15, <2>1 DEF StoreField, execVars
<1>16. ASSUME NEW r \in Refs, LoadField(e, r) PROVE Bound
  <2>1. field[r] \in R
    BY <1>1, <1>2, <1>16 DEF LoadField, Children
  <2>2. \A x \in Executors : stack'[x] \subseteq T
    BY <1>1, <1>2, <1>16, <2>1 DEF LoadField
  <2> QED BY <1>7, <1>9, <1>16, <2>2 DEF LoadField, refVars
<1>17. ASSUME NEW r \in Refs, Drop(e, r) \/ WriteCollapsed(e, r) PROVE Bound
  <2>1. \A x \in Executors : stack'[x] \subseteq T
    BY <1>1, <1>2, <1>17 DEF Drop, WriteCollapsed
  <2> QED BY <1>7, <1>9, <1>17, <2>1 DEF Drop, WriteCollapsed, refVars
<1>18. ASSUME NEW c \in Executors, ForkArgs(e, c) PROVE Bound
  <2>1. \A x \in Executors : stack'[x] \subseteq T
    BY <1>1, <1>2, <1>18 DEF ForkArgs
  <2> QED BY <1>7, <1>9, <1>18, <2>1 DEF ForkArgs, refVars
<1>19. ASSUME WriteBlock(e) \/ Park(e) \/ Unpark(e) \/ Exit(e) \/ Unwind(e) PROVE Bound
  <2>1. \A x \in Executors : stack'[x] \subseteq T
    BY <1>1, <1>2, <1>19 DEF WriteBlock, Park, Unpark, Exit, Unwind, execVars
  <2>2. UNCHANGED <<kind, field, collapsed>>
    BY <1>19 DEF WriteBlock, Park, Unpark, Exit, Unwind, refVars
  <2> QED BY <1>7, <1>9, <2>1, <2>2
<1>20. Bound
  <2> HIDE DEF Bound
  <2> QED BY <1>11, <1>12, <1>13, <1>14, <1>15, <1>16, <1>17, <1>18, <1>19 DEF ExecutorStep
<1> QED BY <1>4, <1>20, ReachBound DEF R
-----------------------------------------------------------------------------
(* The steps of executors preserve the invariant. *)

\* The references that are being linked, and the list in terms of chains.
Unlinked == {tmp[e] : e \in {x \in Executors : opc[x] = "cas"}}

LEMMA ListSoundChains ==
  /\ ListSound <=> Chain(next, head) = live \ Unlinked /\ Acyclic(next, head)
  /\ ListSound' <=> Chain(next', head') = live' \ Unlinked' /\ Acyclic(next', head')
BY DEF ListSound, ListFrom, Unlinked, Acyclic

\* What the invariant says of the list and of the sweep's place in it.
LEMMA ListFacts ==
  ASSUME HeapInv
  PROVE  /\ next \in Nexts /\ head \in RefOrNil /\ prev \in RefOrNil
         /\ Acyclic(next, head)
         /\ ListFrom(head) \subseteq live /\ Nil \notin ListFrom(head)
         /\ \A e \in Executors : opc[e] = "cas" => tmp[e] \notin ListFrom(head)
         /\ \A r \in ListFrom(head) : next[r] \in ListFrom(head) \cup {Nil}
         /\ \A r \in ListFrom(head) \cup {Nil} :
              r \in RefOrNil /\ ListFrom(r) \subseteq ListFrom(head)
<1>1. next \in Nexts /\ head \in RefOrNil /\ prev \in RefOrNil
  BY Typed DEF HeapInv, TypeOK
<1>2. Chain(next, head) = live \ Unlinked /\ Acyclic(next, head)
  BY ListSoundChains DEF HeapInv, HeapSound
<1>3. ListFrom(head) \subseteq live
  BY <1>2 DEF ListFrom
<1>4. \A e \in Executors : opc[e] = "cas" => tmp[e] \notin ListFrom(head)
  BY <1>2 DEF ListFrom, Unlinked
<1>5. \A r \in Chain(next, head) : next[r] \in Chain(next, head) \cup {Nil}
  BY <1>1, ChainFacts
<1>6. \A r \in Chain(next, head) \cup {Nil} : r \in RefOrNil /\ Chain(next, r) \subseteq Chain(next, head)
  BY <1>1, ChainSuffix
<1>7. Nil \notin Chain(next, head)
  BY <1>1, ChainFacts
<1> QED BY <1>1, <1>2, <1>3, <1>4, <1>5, <1>6, <1>7 DEF ListFrom

\* Every chain that begins on the list survives a step of an executor.
LEMMA ExecutorChains ==
  ASSUME HeapInv, TypeOK', NEW e \in Executors, ExecutorStep(e)
  PROVE  /\ next' \in Nexts /\ head' \in RefOrNil
         /\ \A y \in ListFrom(head) : next'[y] = next[y]
         /\ \A y \in ListFrom(head) \cup {Nil} : Chain(next', y) = ListFrom(y)
<1>1. next' \in Nexts /\ head' \in RefOrNil
  BY DEF TypeOK, Nexts
<1>2. \A y \in ListFrom(head) : next'[y] = next[y]
  BY ExecutorWrites
<1>3. ASSUME NEW y \in ListFrom(head) \cup {Nil} PROVE Chain(next', y) = ListFrom(y)
  <2>1. y \in RefOrNil /\ ListFrom(y) \subseteq ListFrom(head) /\ next \in Nexts
    BY ListFacts
  <2>2. \A x \in Chain(next, y) : next'[x] = next[x]
    BY <1>2, <2>1 DEF ListFrom
  <2> QED BY <1>1, <2>1, <2>2, ChainFrame DEF ListFrom
<1> QED BY <1>1, <1>2, <1>3

\* The list keeps its shape when an executor constructs and links a reference.
LEMMA ExecutorList ==
  ASSUME HeapInv, TypeOK', NEW e \in Executors, ExecutorStep(e)
  PROVE  ListSound' /\ ListFrom(head) \subseteq Chain(next', head')
<1> DEFINE L == ListFrom(head)
           Goal == ListSound' /\ L \subseteq Chain(next', head')
<1>1. /\ next' \in Nexts /\ head' \in RefOrNil
      /\ \A y \in L : next'[y] = next[y]
      /\ \A y \in L \cup {Nil} : Chain(next', y) = ListFrom(y)
  BY ExecutorChains
<1>2. /\ L = live \ Unlinked /\ L \subseteq Refs
      /\ \A r \in L : next[r] \in L \cup {Nil} /\ r \notin ListFrom(next[r])
      /\ head \in L \cup {Nil}
  <2>1. /\ L = live \ Unlinked
        /\ \A r \in L : next[r] \in L \cup {Nil} /\ r \notin ListFrom(next[r])
    BY ListFacts, ListSoundChains DEF HeapInv, HeapSound, Acyclic, ListFrom
  <2>2. head \in L \cup {Nil} /\ L \subseteq Refs
    BY ListFacts, ChainFacts DEF ListFrom
  <2> QED BY <2>1, <2>2
<1>3. /\ live \subseteq Refs
      /\ opc \in [Executors -> {"ready", "cas", "store", "write"}]
      /\ tmp \in [Executors -> RefOrNil]
  BY Typed DEF HeapInv, TypeOK
<1>4. \A x, y \in Executors : opc[x] = "cas" /\ opc[y] = "cas" /\ tmp[x] = tmp[y] => x = y
  BY DEF HeapInv, OwnerInv, Linking
<1>5. \A x \in Executors : opc[x] = "cas" => tmp[x] \in live
  BY DEF HeapInv, OwnerInv, Linking
<1> HIDE DEF L
<1>6. ASSUME head' = head, live' \ Unlinked' = live \ Unlinked PROVE Goal
  <2>1. Chain(next', head') = L
    BY <1>1, <1>2, <1>6 DEF L
  <2>2. \A r \in L : r \notin Chain(next', next'[r])
    BY <1>1, <1>2
  <2> QED BY <1>2, <1>6, <2>1, <2>2, ListSoundChains DEF Acyclic
<1>7. ASSUME head' = head, live' = live,
             \A x \in Executors : (opc'[x] = "cas") <=> (opc[x] = "cas"),
             \A x \in Executors : opc[x] = "cas" => tmp'[x] = tmp[x]
      PROVE  Goal
  <2>1. Unlinked' = Unlinked
    BY <1>7 DEF Unlinked
  <2> QED BY <1>6, <1>7, <2>1
<1>8. ASSUME NEW r \in Refs, NEW k, NEW f, Construct(e, r, k, f), opc[e] = "ready" PROVE Goal
  <2>1. Unlinked' = Unlinked \cup {r}
    BY <1>3, <1>8 DEF Unlinked, Construct
  <2>2. live' \ Unlinked' = live \ Unlinked
    BY <1>8, <2>1 DEF Construct
  <2> QED BY <1>6, <1>8, <2>2 DEF Construct
<1>9. ASSUME NEW r \in Refs, Alloc(e, r) PROVE Goal
  BY <1>8, <1>9 DEF Alloc, Ready
<1>10. ASSUME NEW l \in Refs, NEW r \in Refs, CollapseAlloc(e, l, r) PROVE Goal
  BY <1>8, <1>10 DEF CollapseAlloc, Ready
<1>11. ASSUME Cas(e), head = next[tmp[e]] PROVE Goal
  <2>1. /\ head' = tmp[e] /\ next' = next /\ live' = live
        /\ opc[e] = "cas" /\ opc'[e] # "cas"
        /\ \A x \in Executors \ {e} : opc'[x] = opc[x] /\ tmp'[x] = tmp[x]
    BY <1>3, <1>11 DEF Cas
  <2>2. tmp[e] \in live /\ tmp[e] \in Refs /\ tmp[e] \in Unlinked
    BY <1>3, <1>5, <2>1 DEF Unlinked
  <2>3. Unlinked' = Unlinked \ {tmp[e]}
    BY <1>4, <2>1 DEF Unlinked
  <2>4. Chain(next', head') = {tmp[e]} \cup L
    <3>1. Chain(next', head') = {tmp[e]} \cup Chain(next', head)
      BY <1>1, <1>11, <2>1, <2>2, ChainStep
    <3> QED BY <1>1, <1>2, <3>1 DEF L
  <2>5. Chain(next', head') = live' \ Unlinked'
    BY <1>2, <2>1, <2>2, <2>3, <2>4
  <2>6. \A r \in {tmp[e]} \cup L : r \notin Chain(next', next'[r])
    <3>1. tmp[e] \notin L
      BY <1>2, <2>2
    <3>2. Chain(next', next'[tmp[e]]) = L
      BY <1>1, <1>2, <1>11, <2>1 DEF L
    <3>3. \A r \in L : Chain(next', next'[r]) = ListFrom(next[r])
      BY <1>1, <1>2
    <3> QED BY <1>2, <3>1, <3>2, <3>3
  <2> QED BY <2>4, <2>5, <2>6, ListSoundChains DEF Acyclic
<1>12. ASSUME Cas(e), head # next[tmp[e]] PROVE Goal
  BY <1>7, <1>12 DEF Cas
<1>13. ASSUME SetCollapsed(e) PROVE Goal
  <2>1. \A x \in Executors : (opc'[x] = "cas") <=> (opc[x] = "cas")
    BY <1>3, <1>13 DEF SetCollapsed
  <2>2. \A x \in Executors : opc[x] = "cas" => tmp'[x] = tmp[x]
    BY <1>3, <1>13 DEF SetCollapsed
  <2> QED BY <1>7, <1>13, <2>1, <2>2 DEF SetCollapsed
<1>14. ASSUME NEW r \in Refs, Drop(e, r) \/ LoadField(e, r) \/ (\E q \in Refs : StoreField(e, r, q))
       PROVE Goal
  BY <1>7, <1>14 DEF Drop, LoadField, StoreField, refVars, execVars
<1>15. ASSUME NEW r \in Refs, WriteCollapsed(e, r) PROVE Goal
  <2>1. \A x \in Executors : (opc'[x] = "cas") <=> (opc[x] = "cas")
    BY <1>3, <1>15 DEF WriteCollapsed, Ready
  <2> QED BY <1>7, <1>15, <2>1 DEF WriteCollapsed, refVars
<1>16. ASSUME NEW c \in Executors, ForkArgs(e, c) PROVE Goal
  BY <1>7, <1>16 DEF ForkArgs, refVars
<1>17. ASSUME WriteBlock(e) \/ Park(e) \/ Exit(e) \/ Unwind(e) PROVE Goal
  BY <1>7, <1>17 DEF WriteBlock, Park, Exit, Unwind, refVars, execVars
<1>18. ASSUME Unpark(e) PROVE Goal
  <2>1. opc[e] # "cas"
    BY <1>18 DEF HeapInv, OwnerInv, Linking, Unpark, WorldUnpark
  <2>2. \A x \in Executors : (opc'[x] = "cas") <=> (opc[x] = "cas")
    BY <1>3, <1>18, <2>1 DEF Unpark
  <2> QED BY <1>7, <1>18, <2>2 DEF Unpark, refVars
<1>19. Goal
  <2> HIDE DEF Goal
  <2> QED BY <1>9, <1>10, <1>11, <1>12, <1>13, <1>14, <1>15, <1>16, <1>17, <1>18 DEF ExecutorStep
<1> QED BY <1>19 DEF L

\* A reference that is being linked stays unknown to everybody but its owner.
LEMMA ExecutorOwner ==
  ASSUME HeapInv, TypeOK', NEW e \in Executors, ExecutorStep(e)
  PROVE  OwnerInv'
<1> DEFINE R == Reachable(Roots)
           L == ListFrom(head)
           P == ListFrom(prev)
<1>1. /\ live \subseteq Refs /\ R \subseteq Refs
      /\ opc \in [Executors -> {"ready", "cas", "store", "write"}]
      /\ tmp \in [Executors -> RefOrNil] /\ link \in [Executors -> RefOrNil]
      /\ stack \in [Executors -> SUBSET Refs]
      /\ kind \in [Refs -> Kinds \cup {"string"}] /\ field \in [Refs -> RefOrNil]
      /\ collapsed \in [Refs -> RefOrNil]
      /\ mode \in [Executors -> Modes]
  BY Typed, ReachFacts DEF HeapInv, TypeOK
<1>2. \A x \in Executors :
        /\ link[x] # Nil => Linking(x)
        /\ Linking(x) =>
             /\ mode[x] = "active"
             /\ tmp[x] \in live /\ tmp[x] \notin R
             /\ tmp[x] \notin P
             /\ Children(tmp[x]) \subseteq stack[x]
             /\ link[x] \in stack[x] \cup {Nil}
             /\ \A y \in Executors : Linking(y) /\ tmp[y] = tmp[x] => y = x
  BY DEF HeapInv, OwnerInv
<1>3. /\ live \subseteq live' /\ prev' = prev
      /\ \A y \in live \ R : Children(y)' = Children(y)
      /\ \A x \in Executors \ {e} :
           /\ Linking(x)' <=> Linking(x)
           /\ tmp'[x] = tmp[x] /\ link'[x] = link[x]
           /\ Linking(x) => stack'[x] = stack[x] /\ mode'[x] = mode[x]
  BY ExecutorsRun, ExecutorWrites DEF gcVars
<1>4. Reachable(Roots)' \subseteq R \cup Published(e)
  BY ExecutorReach
<1>5. ListFrom(prev)' = P /\ P \subseteq L /\ L \subseteq live
  <2>1. prev \in L \cup {Nil}
    BY DEF HeapInv, SweepInv
  <2>2. Chain(next', prev) = P /\ P \subseteq L /\ L \subseteq live
    BY <2>1, ExecutorChains, ListFacts
  <2> QED BY <1>3, <2>2 DEF ListFrom
<1>6. mode[e] = "active" => R \subseteq live
  BY DEF HeapInv, HeapSound, NoDangling, PhaseInv
<1> HIDE DEF R, L, P
<1> USE HeapAssumption
<1>7. ASSUME NEW x \in Executors \ {e}, Linking(x)'
      PROVE  /\ mode'[x] = "active"
             /\ tmp'[x] \in live' /\ tmp'[x] \notin Reachable(Roots)'
             /\ tmp'[x] \notin ListFrom(prev)'
             /\ Children(tmp[x])' \subseteq stack'[x]
             /\ link'[x] \in stack'[x] \cup {Nil}
  <2>1. Linking(x) /\ tmp'[x] = tmp[x] /\ link'[x] = link[x]
        /\ stack'[x] = stack[x] /\ mode'[x] = mode[x]
    BY <1>3, <1>7
  <2>2. tmp[x] \in live \ R /\ tmp[x] \notin P
    BY <1>2, <2>1
  <2>3. tmp[x] \notin Published(e)
    BY <1>2, <2>1 DEF Published
  <2>5. Children(tmp[x])' = Children(tmp[x])
    BY <1>3, <2>1, <2>2 DEF Children
  <2> QED BY <1>2, <1>3, <1>4, <1>5, <2>1, <2>2, <2>3, <2>5
<1> DEFINE Own == /\ link'[e] # Nil => Linking(e)'
                  /\ Linking(e)' =>
                       /\ mode'[e] = "active"
                       /\ tmp'[e] \in live' /\ tmp'[e] \notin Reachable(Roots)'
                       /\ tmp'[e] \notin ListFrom(prev)'
                       /\ Children(tmp[e])' \subseteq stack'[e]
                       /\ link'[e] \in stack'[e] \cup {Nil}
                       /\ \A x \in Executors \ {e} : Linking(x) => tmp[x] # tmp'[e]
<1>8. ASSUME ~Linking(e)', link'[e] = Nil PROVE Own
  BY <1>8
<1>9. ASSUME NEW r \in Refs, NEW k, NEW f \in stack[e] \cup {Nil}, Construct(e, r, k, f),
             mode' = mode, mode[e] = "active", opc[e] = "ready", stack' = stack,
             link'[e] \in stack[e] \cup {Nil}
      PROVE  Own
  <2>1. Linking(e)' /\ ~Linking(e) /\ tmp'[e] = r /\ r \in live' /\ r \notin live
    BY <1>1, <1>9 DEF Construct, Linking
  <2>2. r \notin Reachable(Roots)' /\ r \notin ListFrom(prev)'
    BY <1>4, <1>5, <1>6, <1>9, <2>1 DEF Published
  <2>3. Children(tmp[e])' \subseteq stack'[e]
    <3>1. field'[r] = f /\ collapsed'[r] = Nil
      BY <1>1, <1>9 DEF Construct
    <3> QED BY <1>9, <2>1, <3>1 DEF Children
  <2>4. \A x \in Executors : Linking(x) => tmp[x] # r
    BY <1>2, <2>1
  <2> QED BY <1>9, <2>1, <2>2, <2>3, <2>4
<1>10. ASSUME NEW r \in Refs, Alloc(e, r) PROVE Own
  <2>1. PICK k \in Kinds, f \in stack[e] \cup {Nil} : Construct(e, r, k, f)
    BY <1>10 DEF Alloc
  <2>2. /\ mode' = mode /\ mode[e] = "active" /\ opc[e] = "ready" /\ stack' = stack /\ link' = link
    BY <1>10 DEF Alloc, Ready, worldVars
  <2>3. link[e] = Nil
    BY <1>2, <2>2 DEF Linking
  <2> QED BY <1>9, <2>1, <2>2, <2>3
<1>11. ASSUME NEW l \in Refs, NEW r \in Refs, CollapseAlloc(e, l, r) PROVE Own
  <2>1. /\ mode' = mode /\ mode[e] = "active" /\ opc[e] = "ready" /\ stack' = stack
        /\ link'[e] = l /\ l \in stack[e] /\ Construct(e, r, "string", Nil)
    BY <1>1, <1>11 DEF CollapseAlloc, Ready, worldVars
  <2> QED BY <1>9, <2>1
<1>12. ASSUME Linking(e), Linking(e)', mode' = mode, tmp' = tmp, stack' = stack, link' = link
       PROVE  Own
  <2>1. tmp[e] \in live \ R /\ tmp[e] \notin P
    BY <1>2, <1>12
  <2>2. tmp[e] \notin Reachable(Roots)'
    BY <1>4, <1>12, <2>1 DEF Published
  <2>3. Children(tmp[e])' = Children(tmp[e])
    BY <1>3, <1>12, <2>1 DEF Children
  <2> QED BY <1>2, <1>3, <1>5, <1>12, <2>1, <2>2, <2>3
<1>13. ASSUME Cas(e) PROVE Own
  <2>1. mode' = mode /\ link' = link /\ opc[e] = "cas" /\ Linking(e)
    BY <1>13 DEF Cas, Linking, worldVars
  <2>2. CASE head = next[tmp[e]] /\ link[e] = Nil
    BY <1>1, <1>8, <1>13, <2>1, <2>2 DEF Cas, Linking
  <2>3. CASE head = next[tmp[e]] /\ link[e] # Nil
    <3>1. opc'[e] = "store" /\ stack' = stack /\ tmp' = tmp
      BY <1>1, <1>13, <2>3 DEF Cas
    <3> QED BY <1>12, <2>1, <3>1 DEF Linking
  <2>4. CASE head # next[tmp[e]]
    <3>1. opc' = opc /\ stack' = stack /\ tmp' = tmp
      BY <1>13, <2>4 DEF Cas
    <3> QED BY <1>12, <2>1, <3>1 DEF Linking
  <2> HIDE DEF Own
  <2> QED BY <2>2, <2>3, <2>4
<1>14. ASSUME SetCollapsed(e) PROVE Own
  BY <1>1, <1>8, <1>14 DEF SetCollapsed, Linking
<1>15. ASSUME ~Linking(e), opc'[e] \in {"ready", "write"}, link' = link PROVE Own
  BY <1>2, <1>8, <1>15 DEF Linking
<1>16. ASSUME NEW r \in Refs,
              Drop(e, r) \/ LoadField(e, r) \/ WriteCollapsed(e, r) \/ (\E q \in Refs : StoreField(e, r, q))
       PROVE Own
  <2>1. ~Linking(e) /\ opc'[e] \in {"ready", "write"} /\ link' = link
    BY <1>1, <1>16 DEF Drop, LoadField, WriteCollapsed, StoreField, Ready, Linking, execVars
  <2> QED BY <1>15, <2>1
<1>17. ASSUME NEW c \in Executors, ForkArgs(e, c) PROVE Own
  <2>1. ~Linking(e) /\ opc'[e] \in {"ready", "write"} /\ link' = link
    BY <1>1, <1>17 DEF ForkArgs, Ready, Linking
  <2> QED BY <1>15, <2>1
<1>18. ASSUME WriteBlock(e) \/ Park(e) \/ Unpark(e) \/ Exit(e) \/ Unwind(e) PROVE Own
  <2>1. ~Linking(e)
    BY <1>2, <1>18 DEF WriteBlock, Park, Unpark, Exit, Unwind, WorldUnpark, WorldUnwind, Ready, Linking
  <2>2. opc'[e] \in {"ready", "write"} /\ link' = link
    BY <1>1, <1>18, <2>1 DEF WriteBlock, Park, Unpark, Exit, Unwind, Ready, Linking, execVars
  <2> QED BY <1>15, <2>1, <2>2
<1>19. Own
  <2> HIDE DEF Own
  <2> QED BY <1>10, <1>11, <1>13, <1>14, <1>16, <1>17, <1>18 DEF ExecutorStep
<1>20. \A x, y \in Executors : Linking(x)' /\ Linking(y)' /\ tmp'[y] = tmp'[x] => y = x
  BY <1>2, <1>3, <1>19
<1>21. \A x \in Executors \ {e} : link'[x] # Nil => Linking(x)'
  BY <1>2, <1>3
<1> QED BY <1>7, <1>19, <1>20, <1>21 DEF OwnerInv

\* The sweep's view of the list stays true while executors run beside it, and
\* nothing dangles.
LEMMA ExecutorSweep ==
  ASSUME HeapInv, TypeOK', NEW e \in Executors, ExecutorStep(e)
  PROVE  NoDangling' /\ MarkInv' /\ SweepInv'
<1> DEFINE R == Reachable(Roots)
           L == ListFrom(head)
<1>1. /\ UNCHANGED gcVars /\ cpc # "mark" /\ world' = world /\ live \subseteq live'
      /\ Reachable(Roots)' \subseteq R \cup Published(e)
  BY ExecutorsRun, ExecutorReach
<1>2. /\ prev \in L \cup {Nil} /\ Nil \notin L
      /\ \A r \in L : next[r] \in L \cup {Nil}
  BY ListFacts DEF HeapInv, SweepInv
<1>3. /\ \A y \in L : next'[y] = next[y]
      /\ \A y \in L \cup {Nil} : Chain(next', y) = ListFrom(y)
      /\ L \subseteq Chain(next', head')
  BY ExecutorChains, ExecutorList
<1>4. /\ \A x \in Published(e) : x \in live /\ x \notin ListFrom(prev)
      /\ world # "Aborted" => R \subseteq live
  BY DEF HeapInv, HeapSound, NoDangling, OwnerInv, Published
<1>5. prev # Nil => ListFrom(next[prev]) \subseteq ListFrom(prev)
  <2> SUFFICES ASSUME prev # Nil PROVE Chain(next, next[prev]) \subseteq Chain(next, prev)
    BY DEF ListFrom
  <2>1. prev \in Refs /\ next \in Nexts
    BY ListFacts DEF RefOrNil
  <2> QED BY <2>1, ChainStep
<1>6. ListFrom(prev)' = ListFrom(prev) /\ (prev # Nil => ListFrom(next[prev])' = ListFrom(next[prev]))
  <2>1. ListFrom(prev)' = Chain(next', prev) /\ ListFrom(next[prev])' = Chain(next', next'[prev])
    BY <1>1 DEF ListFrom, gcVars
  <2>2. prev # Nil => next'[prev] = next[prev] /\ next[prev] \in L \cup {Nil}
    BY <1>2, <1>3
  <2> QED BY <1>2, <1>3, <2>1, <2>2
<1>7. NoDangling'
  BY <1>1, <1>4 DEF NoDangling
<1>8. MarkInv'
  BY <1>1 DEF HeapInv, MarkInv, gcVars
<1>9. SweepInv'
  <2> HIDE DEF R, L
  <2>1. prev' \in ListFrom(head)' \cup {Nil}
    BY <1>1, <1>2, <1>3 DEF ListFrom, gcVars
  <2>2. prev # Nil => Reachable(Roots)' \cap ListFrom(next[prev]) \subseteq R \cap ListFrom(next[prev])
    BY <1>1, <1>4, <1>5
  <2>3. SweepInv
    BY DEF HeapInv
  <2> QED BY <1>1, <1>6, <2>1, <2>2, <2>3 DEF SweepInv, gcVars, R
<1> QED BY <1>7, <1>8, <1>9
-----------------------------------------------------------------------------
(* The phases of a collection. *)

\* The collector, the registry and the executors keep to their phases.
LEMMA PhaseStep == HeapInv /\ [Next]_vars => PhaseInv'
<1> SUFFICES ASSUME HeapInv, [Next]_vars PROVE PhaseInv'
  OBVIOUS
<1>1. PhaseInv /\ TypeOK
  BY DEF HeapInv
<1>2. /\ mode \in [Executors -> Modes]
      /\ stack \in [Executors -> SUBSET Refs] /\ blocking \in BOOLEAN
  BY <1>1 DEF TypeOK
<1> USE DEF PhaseInv
<1>3. ASSUME NEW e \in Executors, ExecutorStep(e) PROVE PhaseInv'
  <2>1. UNCHANGED <<cpc, blocking, world>>
    BY <1>3, ExecutorsRun DEF gcVars
  <2>2. ASSUME NEW x \in Executors, world # "Running" PROVE mode'[x] # "active"
    <3>1. mode[e] # "active"
      BY <1>1, <2>2
    <3>2. ~Linking(e)
      BY <3>1 DEF HeapInv, OwnerInv
    <3>3. CASE WriteBlock(e) \/ Park(e) \/ Unpark(e) \/ Exit(e) \/ Unwind(e)
      BY <1>1, <1>2, <2>2, <3>1, <3>3 DEF WriteBlock, Park, Unpark, Exit, Unwind, WorldPark,
           WorldUnpark, WorldExit, WorldUnwind
    <3> QED BY <1>3, <3>1, <3>2, <3>3 DEF ExecutorStep, Cas, SetCollapsed, Alloc, Drop, LoadField,
              WriteCollapsed, StoreField, CollapseAlloc, ForkArgs, WorldFork, Ready, Linking
  <2>3. ASSUME NEW x \in Executors, mode'[x] \in {"absent", "gone"}, cpc # "terminated"
        PROVE  stack'[x] = {}
    <3>1. ASSUME NEW r \in Refs,
                 \/ Alloc(e, r) \/ Drop(e, r) \/ LoadField(e, r) \/ WriteCollapsed(e, r)
                 \/ \E q \in Refs : StoreField(e, r, q) \/ CollapseAlloc(e, r, q)
          PROVE  stack'[x] = {}
      BY <1>1, <1>2, <2>3, <3>1 DEF Alloc, Drop, LoadField, WriteCollapsed, StoreField,
           CollapseAlloc, Ready, worldVars, execVars
    <3>2. CASE Cas(e)
      <4>1. mode[e] = "active" /\ mode' = mode
        BY <3>2 DEF HeapInv, OwnerInv, Linking, Cas, worldVars
      <4>2. x # e
        BY <2>3, <4>1
      <4>3. stack'[x] = stack[x]
        BY <1>2, <3>2, <4>2 DEF Cas
      <4> QED BY <1>1, <2>3, <4>1, <4>3
    <3>3. CASE SetCollapsed(e)
      BY <1>1, <2>3, <3>3 DEF SetCollapsed, worldVars
    <3>4. ASSUME NEW c \in Executors, ForkArgs(e, c) PROVE stack'[x] = {}
      BY <1>1, <1>2, <2>3, <3>4 DEF ForkArgs, WorldFork
    <3>5. CASE WriteBlock(e) \/ Park(e) \/ Unpark(e) \/ Exit(e) \/ Unwind(e)
      BY <1>1, <1>2, <2>3, <3>5 DEF WriteBlock, Park, Unpark, Exit, Unwind, WorldPark,
           WorldUnpark, WorldExit, WorldUnwind, execVars
    <3> QED BY <1>3, <3>1, <3>2, <3>3, <3>4, <3>5 DEF ExecutorStep
  <2> QED BY <1>1, <2>1, <2>2, <2>3
<1>4. CASE CollectorStep
  BY <1>1, <1>4 DEF CollectorStep, Stop, Mark, MarkDone, ResumeBeforeSweep, BlockingSweep, SweepHead,
       SweepKeep, SweepFree, SweepEnd, CollectEnd, WorldStop, WorldResume, worldVars, execVars
<1>5. CASE StopForAbort \/ Abort \/ Destroy
  BY <1>1, <1>5 DEF StopForAbort, Abort, Destroy, WorldStop, WorldAbort, worldVars, execVars, gcVars
<1>6. CASE Finished \/ UNCHANGED vars
  BY <1>1, <1>6 DEF Finished, vars, worldVars, execVars, gcVars
<1> QED BY <1>3, <1>4, <1>5, <1>6 DEF Next
-----------------------------------------------------------------------------
(* The steps of the collector preserve the invariant. *)

\* While the world is stopped no reference is being linked.
LEMMA Calm ==
  ASSUME HeapInv, world # "Running"
  PROVE  Unlinked = {} /\ \A e \in Executors : ~Linking(e) /\ link[e] = Nil
BY DEF HeapInv, PhaseInv, OwnerInv, Linking, Unlinked

\* A step that leaves the references and the executors alone keeps what is
\* reachable, what is listed, and who owns what the sweep has not reached.
LEMMA Quiet ==
  ASSUME HeapInv, TypeOK', UNCHANGED <<refVars, execVars, mode>>,
         world = "Aborted" => world' = "Aborted",
         \A e \in Executors : Linking(e) => tmp[e] \notin Chain(next, prev')
  PROVE  /\ Reachable(Roots)' = Reachable(Roots)
         /\ HeapSound' /\ OwnerInv'
<1>1. Reachable(Roots)' = Reachable(Roots)
  <2>1. \A t \in Reachable(Roots) : Children(t)' = Children(t)
    BY DEF Children, refVars
  <2> QED BY <2>1, ReachSame DEF HeapInv, execVars
<1>2. ListSound'
  <2>1. Unlinked' = Unlinked
    BY DEF Unlinked, execVars
  <2> QED BY <2>1, ListSoundChains DEF HeapInv, HeapSound, refVars
<1>3. OwnerInv'
  <2>1. OwnerInv
    BY DEF HeapInv
  <2>2. \A e \in Executors : (Linking(e)' <=> Linking(e)) /\ Children(tmp[e])' = Children(tmp[e])
    BY DEF Linking, Children, refVars, execVars
  <2>3. \A e \in Executors : Linking(e) => tmp[e] \notin ListFrom(prev)'
    BY DEF ListFrom, refVars
  <2> QED BY <1>1, <2>1, <2>2, <2>3 DEF OwnerInv, refVars, execVars
<1>4. NoDangling'
  BY <1>1 DEF HeapInv, HeapSound, NoDangling, refVars
<1> QED BY <1>1, <1>2, <1>3, <1>4 DEF HeapSound

\* Stopping the world puts every root on the mark-queue.
LEMMA StopStep ==
  ASSUME HeapInv, TypeOK', Stop PROVE HeapSound' /\ OwnerInv' /\ MarkInv' /\ SweepInv'
<1>1. /\ UNCHANGED <<refVars, execVars, mode, marked, prev, garbage>> /\ cpc' = "mark" /\ cpc = "idle"
      /\ world # "Aborted" /\ \A e \in Executors : mode[e] # "active"
  BY DEF Stop, WorldStop
<1>2. \A e \in Executors : ~Linking(e)
  BY <1>1 DEF HeapInv, OwnerInv
<1>3. Reachable(Roots)' = Reachable(Roots) /\ HeapSound' /\ OwnerInv'
  BY <1>1, <1>2, Quiet
<1>4. MarkInv'
  <2>1. queue' = Roots
    <3>1. \A e \in Executors : mode[e] # "parked" => stack[e] = {}
      BY <1>1 DEF HeapInv, TypeOK, PhaseInv, Modes
    <3> QED BY <3>1 DEF Stop, Roots
  <2>2. Roots' = Roots
    BY <1>1 DEF Roots, execVars
  <2>3. prev' = Nil /\ marked' = {}
    BY <1>1 DEF HeapInv, MarkInv
  <2>4. Roots \subseteq Reachable(Roots)
    BY ReachFacts DEF HeapInv
  <2> QED BY <1>1, <1>3, <2>1, <2>2, <2>3, <2>4 DEF MarkInv
<1>5. SweepInv'
  <2>1. prev = Nil /\ garbage = {}
    BY <1>1 DEF HeapInv, MarkInv, SweepInv
  <2> QED BY <1>1, <2>1 DEF SweepInv
<1> QED BY <1>3, <1>4, <1>5

\* One iteration of mark() marks a reachable reference and queues its children;
\* the link it clears is one that no longer counts.
LEMMA MarkStep ==
  ASSUME HeapInv, TypeOK', Mark PROVE HeapSound' /\ OwnerInv' /\ MarkInv' /\ SweepInv'
<1>1. /\ UNCHANGED <<worldVars, live, kind, collapsed, next, head, execVars, prev, garbage>>
      /\ cpc' = "mark" /\ cpc = "mark"
  BY DEF Mark
<1>2. TypeOK /\ field \in [Refs -> RefOrNil]
  BY Typed DEF HeapInv
<1>3. \A t \in Refs : Children(t)' = Children(t)
  BY <1>1, <1>2 DEF Mark, Children, TypeOK
<1>4. Reachable(Roots) \subseteq Refs /\ \A t \in Reachable(Roots) : Children(t) \subseteq Reachable(Roots)
  BY <1>2, ReachFacts
<1>5. Reachable(Roots)' = Reachable(Roots)
  BY <1>1, <1>2, <1>3, <1>4, ReachSame DEF execVars
<1>6. HeapSound'
  <2>1. Unlinked' = Unlinked
    BY <1>1 DEF Unlinked, execVars
  <2> QED BY <1>1, <1>5, <2>1, ListSoundChains DEF HeapInv, HeapSound, NoDangling, worldVars
<1>7. \A e \in Executors : ~Linking(e) /\ link[e] = Nil
  BY <1>1, Calm DEF HeapInv, PhaseInv
<1>8. OwnerInv'
  BY <1>1, <1>7 DEF OwnerInv, Linking, execVars
<1>9. MarkInv'
  <2>1. /\ prev = Nil
        /\ Roots \subseteq marked \cup queue
        /\ \A r \in marked : Children(r) \subseteq marked \cup queue
        /\ marked \cup queue \subseteq Reachable(Roots)
    BY <1>1 DEF HeapInv, MarkInv
  <2>2. PICK r \in queue :
          \/ r \in marked /\ queue' = queue \ {r} /\ marked' = marked
          \/ marked' = marked \cup {r} /\ queue' = (queue \ {r}) \cup Children(r)
    BY DEF Mark
  <2>3. /\ marked \cup queue \subseteq marked' \cup queue'
        /\ \A t \in marked' : Children(t) \subseteq marked' \cup queue'
        /\ marked' \cup queue' \subseteq Reachable(Roots)
    BY <1>4, <2>1, <2>2
  <2>4. \A t \in marked' : Children(t)' = Children(t)
    BY <1>3, <1>4, <2>3
  <2>5. Roots' = Roots
    BY <1>1 DEF Roots, execVars
  <2> QED BY <1>1, <1>5, <2>1, <2>3, <2>4, <2>5 DEF MarkInv
<1>10. SweepInv'
  <2>1. prev = Nil /\ garbage = {}
    BY <1>1 DEF HeapInv, MarkInv, SweepInv
  <2> QED BY <1>1, <2>1 DEF SweepInv
<1> QED BY <1>6, <1>8, <1>9, <1>10

\* When the queue is empty exactly what is reachable is marked, all of it on the
\* list that the sweep is about to follow.
LEMMA MarkDoneStep ==
  ASSUME HeapInv, TypeOK', MarkDone PROVE HeapSound' /\ OwnerInv' /\ MarkInv' /\ SweepInv'
<1> DEFINE R == Reachable(Roots)
<1>1. /\ UNCHANGED <<worldVars, refVars, execVars, marked, queue>> /\ cpc' = "marked" /\ cpc = "mark"
      /\ prev' = head /\ garbage' = (live \ R) \ {head} /\ queue = {}
  BY DEF MarkDone
<1>2. world = "Paused" /\ TypeOK
  BY <1>1 DEF HeapInv, PhaseInv
<1>3. Unlinked = {} /\ \A e \in Executors : ~Linking(e)
  BY <1>2, Calm
<1>4. R' = R /\ HeapSound' /\ OwnerInv'
  <2>1. UNCHANGED mode /\ world' = world
    BY <1>1 DEF worldVars
  <2> QED BY <1>1, <1>2, <1>3, <2>1, Quiet
<1>5. marked = R
  <2>1. /\ Roots \subseteq marked
        /\ \A r \in marked : Children(r) \subseteq marked
        /\ marked \subseteq R /\ marked \in SUBSET Refs
    BY <1>1, <1>2 DEF HeapInv, MarkInv, TypeOK
  <2>2. R \subseteq marked
    <3>1. Roots \in SUBSET Refs /\ Kids \in Succ
      BY <1>2, KidsTyped
    <3>2. R = Closure(Roots, Kids) /\ \A t \in marked : Kids[t] \subseteq marked
      BY <2>1 DEF Reachable, Kids
    <3> QED BY <2>1, <3>1, <3>2, ClosureFacts
  <2> QED BY <2>1, <2>2
<1>6. /\ live = ListFrom(head) /\ R \subseteq live
      /\ head # Nil => ListFrom(head) = {head} \cup ListFrom(next[head]) /\ head \notin ListFrom(next[head])
      /\ head = Nil => ListFrom(head) = {}
  <2>1. next \in Nexts /\ head \in RefOrNil /\ live = Chain(next, head) /\ Acyclic(next, head)
    BY <1>3, ListFacts, ListSoundChains DEF HeapInv, HeapSound
  <2>2. head # Nil => Chain(next, head) = {head} \cup Chain(next, next[head])
    BY <2>1, ChainStep DEF RefOrNil
  <2>3. head # Nil => head \notin Chain(next, next[head])
    BY <2>1, <2>2 DEF Acyclic
  <2>4. head = Nil => Chain(next, head) = {}
    BY <2>1, ChainNil
  <2>5. R \subseteq live
    BY <1>2 DEF HeapInv, HeapSound, NoDangling
  <2> QED BY <2>1, <2>2, <2>3, <2>4, <2>5 DEF ListFrom
<1>7. MarkInv'
  BY <1>1 DEF MarkInv
<1>8. SweepInv'
  <2> HIDE DEF R
  <2>1. /\ ListFrom(head)' = ListFrom(head) /\ ListFrom(prev)' = ListFrom(head)
        /\ ListFrom(next[prev])' = ListFrom(next[head])
    BY <1>1 DEF ListFrom, refVars
  <2>2. head # Nil => head \in ListFrom(head)
    BY <1>6
  <2> QED BY <1>1, <1>4, <1>5, <1>6, <2>1, <2>2 DEF SweepInv, R
<1> QED BY <1>4, <1>7, <1>8

\* The sweep starts at the head, which it unmarks.
LEMMA SweepStartStep ==
  ASSUME HeapInv, TypeOK', ResumeBeforeSweep \/ BlockingSweep \/ SweepHead
  PROVE  HeapSound' /\ OwnerInv' /\ MarkInv' /\ SweepInv'
<1>1. /\ UNCHANGED <<refVars, execVars, mode, queue, prev, garbage>>
      /\ cpc \in {"marked", "sweepHead"} /\ cpc' \in {"sweepHead", "sweep", "swept"}
      /\ world # "Aborted"
  BY DEF ResumeBeforeSweep, BlockingSweep, SweepHead, WorldResume, worldVars, HeapInv, PhaseInv
<1>2. Reachable(Roots)' = Reachable(Roots) /\ HeapSound' /\ OwnerInv'
  <2>1. \A e \in Executors : Linking(e) => tmp[e] \notin Chain(next, prev')
    BY <1>1 DEF HeapInv, OwnerInv, ListFrom
  <2> QED BY <1>1, <2>1, Quiet
<1>3. /\ ListFrom(head)' = ListFrom(head) /\ ListFrom(prev)' = ListFrom(prev)
      /\ ListFrom(next[prev])' = ListFrom(next[prev])
  BY <1>1 DEF ListFrom, refVars
<1>4. SweepInv /\ marked \subseteq ListFrom(prev)
  BY <1>1 DEF HeapInv, SweepInv
<1>5. ASSUME prev # Nil
      PROVE  ListFrom(prev) = {prev} \cup ListFrom(next[prev]) /\ prev \notin ListFrom(next[prev])
  <2>1. next \in Nexts /\ prev \in Refs /\ prev \in Chain(next, head) /\ Acyclic(next, head)
    BY <1>4, <1>5, ListFacts DEF SweepInv, RefOrNil, ListFrom
  <2> QED BY <2>1, ChainStep DEF Acyclic, ListFrom
<1>6. prev = Nil => ListFrom(prev) = {}
  BY ListFacts, ChainNil DEF ListFrom
<1>7. CASE ResumeBeforeSweep \/ BlockingSweep
  <2>1. marked' = marked /\ cpc' = "sweepHead" /\ cpc = "marked"
    BY <1>7 DEF ResumeBeforeSweep, BlockingSweep
  <2>2. MarkInv'
    BY <1>1, <2>1 DEF HeapInv, MarkInv
  <2>3. SweepInv'
    BY <1>1, <1>2, <1>3, <1>4, <2>1 DEF SweepInv
  <2> QED BY <1>2, <2>2, <2>3
<1>8. CASE SweepHead
  <2>1. marked' = marked \ {prev} /\ cpc = "sweepHead"
        /\ cpc' = IF prev = Nil THEN "swept" ELSE "sweep"
    BY <1>8 DEF SweepHead
  <2>2. MarkInv'
    BY <1>1, <1>4, <1>6, <2>1 DEF HeapInv, MarkInv
  <2>3. SweepInv'
    <3>1. CASE prev = Nil
      BY <1>1, <1>3, <1>4, <2>1, <3>1 DEF SweepInv
    <3>2. CASE prev # Nil
      BY <1>1, <1>2, <1>3, <1>4, <1>5, <2>1, <3>2 DEF SweepInv
    <3> QED BY <3>1, <3>2
  <2> QED BY <1>2, <2>2, <2>3
<1> QED BY <1>7, <1>8

\* The sweep moves past a reference that is marked.
LEMMA SweepKeepStep ==
  ASSUME HeapInv, TypeOK', SweepKeep PROVE HeapSound' /\ OwnerInv' /\ MarkInv' /\ SweepInv'
<1> DEFINE r == next[prev]
<1>1. /\ UNCHANGED <<worldVars, refVars, execVars, queue, cpc, blocking, garbage>>
      /\ cpc = "sweep" /\ r # Nil /\ r \in marked /\ marked' = marked \ {r} /\ prev' = r
  BY DEF SweepKeep
<1>2. /\ next \in Nexts /\ prev \in Refs /\ prev \in Chain(next, head) /\ Acyclic(next, head)
      /\ r \in Chain(next, head) /\ r \in Refs
  BY <1>1, ListFacts DEF HeapInv, SweepInv, RefOrNil, ListFrom
<1>3. /\ Chain(next, prev) = {prev} \cup Chain(next, r)
      /\ Chain(next, r) = {r} \cup Chain(next, next[r]) /\ r \notin Chain(next, next[r])
  BY <1>2, ChainStep DEF Acyclic
<1> HIDE DEF r
<1>4. Reachable(Roots)' = Reachable(Roots) /\ HeapSound' /\ OwnerInv'
  <2>1. \A e \in Executors : Linking(e) => tmp[e] \notin Chain(next, prev')
    BY <1>1, <1>3 DEF HeapInv, OwnerInv, ListFrom
  <2>2. world' = world /\ UNCHANGED mode
    BY <1>1 DEF worldVars
  <2> QED BY <1>1, <2>1, <2>2, Quiet
<1>5. MarkInv'
  BY <1>1 DEF HeapInv, MarkInv
<1>6. SweepInv'
  <2>1. /\ marked \subseteq Chain(next, r)
        /\ Reachable(Roots) \cap Chain(next, r) \subseteq marked
        /\ garbage \subseteq Chain(next, r) \ marked
    BY <1>1, <1>2, HeapAssumption DEF HeapInv, SweepInv, ListFrom, r
  <2>2. /\ ListFrom(head)' = Chain(next, head) /\ ListFrom(next[prev])' = Chain(next, next[r])
    BY <1>1 DEF ListFrom, refVars
  <2>3. /\ marked' \subseteq Chain(next, next[r])
        /\ Reachable(Roots) \cap Chain(next, next[r]) \subseteq marked'
        /\ garbage \subseteq Chain(next, next[r]) \ marked'
    BY <1>1, <1>3, <2>1
  <2> QED BY <1>1, <1>2, <1>4, <2>2, <2>3 DEF SweepInv
<1> QED BY <1>4, <1>5, <1>6

\* The sweep frees a reference that is not marked, and so not reachable, and not
\* one that is being linked.
LEMMA SweepFreeStep ==
  ASSUME HeapInv, TypeOK', SweepFree PROVE HeapSound' /\ OwnerInv' /\ MarkInv' /\ SweepInv'
<1> DEFINE r == next[prev]
           R == Reachable(Roots)
<1>1. /\ UNCHANGED <<worldVars, head, execVars, marked, queue, cpc, blocking, prev>>
      /\ cpc = "sweep" /\ r # Nil /\ r \notin marked
      /\ next' = [next EXCEPT ![prev] = next[r], ![r] = Nil]
      /\ live' = live \ {r} /\ garbage' = garbage \ {r}
  BY DEF SweepFree
<1>2. /\ next \in Nexts /\ prev \in Refs /\ prev \in Chain(next, head) /\ Acyclic(next, head)
      /\ head \in RefOrNil /\ r \in Refs /\ r \in Chain(next, head)
      /\ prev # Nil
  BY <1>1, ListFacts DEF HeapInv, SweepInv, RefOrNil, ListFrom
<1>3. /\ next' \in Nexts
      /\ Chain(next', head) = Chain(next, head) \ {r}
      /\ Acyclic(next', head)
      /\ next'[prev] = next[r]
      /\ Chain(next', next'[prev]) = Chain(next, next[r])
  <2>1. prev # r
    <3>1. prev \notin Chain(next, r) /\ r \in Chain(next, r)
      BY <1>2, ChainFacts DEF Acyclic, RefOrNil
    <3> QED BY <3>1
  <2>2. next[r] \in RefOrNil
    BY <1>2 DEF Nexts
  <2>3. next' \in Nexts /\ next'[prev] = next[r] /\ \A x \in Refs \ {prev, r} : next'[x] = next[x]
    BY <1>1, <1>2, <2>1, <2>2 DEF Nexts, RefOrNil
  <2>4. /\ Chain(next', head) = Chain(next, head) \ {r}
        /\ Acyclic(next', head)
        /\ Chain(next', next'[prev]) = Chain(next, next[r])
    <3>1. next[prev] # Nil
      BY <1>1
    <3>2. ASSUME NEW mx \in Nexts, mx[prev] = next[next[prev]],
                 \A x \in Refs \ {prev, next[prev]} : mx[x] = next[x]
          PROVE  /\ Chain(mx, head) = Chain(next, head) \ {next[prev]}
                 /\ Acyclic(mx, head)
                 /\ Chain(mx, mx[prev]) = Chain(next, next[next[prev]])
      BY <1>2, <3>1, <3>2, ChainUnlink
    <3> QED BY <2>3, <3>2
  <2> QED BY <2>3, <2>4
<1>4. /\ Chain(next, prev) = {prev} \cup Chain(next, r)
      /\ Chain(next, r) = {r} \cup Chain(next, next[r]) /\ r \notin Chain(next, next[r])
  BY <1>2, ChainStep DEF Acyclic
<1>5. /\ marked \subseteq Chain(next, r)
      /\ R \cap Chain(next, r) \subseteq marked
      /\ garbage \subseteq Chain(next, r) \ marked
  BY <1>1, <1>2 DEF HeapInv, SweepInv, ListFrom
<1>6. r \notin R
  BY <1>1, <1>4, <1>5
<1>7. /\ kind \in [Refs -> Kinds \cup {"string"}] /\ field \in [Refs -> RefOrNil]
      /\ collapsed \in [Refs -> RefOrNil] /\ R \subseteq Refs /\ TypeOK /\ live \subseteq Refs
  BY Typed, ReachFacts DEF HeapInv, TypeOK
<1>8. \A e \in Executors : Linking(e) => tmp[e] \in live /\ tmp[e] \notin Chain(next, prev) /\ tmp[e] # r
  BY <1>4 DEF HeapInv, OwnerInv, ListFrom
<1>9. \A t \in Refs \ {r} : Children(t)' = Children(t)
  <2> HIDE DEF r
  <2>1. /\ field' = [field EXCEPT ![r] = Nil]
        /\ collapsed' = [collapsed EXCEPT ![r] = Nil]
        /\ kind' = [kind EXCEPT ![r] = "string"]
    BY DEF SweepFree, r
  <2>2. \A t \in Refs \ {r} : kind'[t] = kind[t] /\ field'[t] = field[t] /\ collapsed'[t] = collapsed[t]
    BY <1>7, <2>1
  <2> QED BY <2>2 DEF Children
<1> HIDE DEF r
<1>10. Reachable(Roots)' = R
  <2>1. stack' = stack /\ \A t \in R : Children(t)' = Children(t)
    BY <1>1, <1>6, <1>7, <1>9 DEF execVars
  <2> HIDE DEF R
  <2> QED BY <1>7, <2>1, ReachSame DEF R
<1>11. HeapSound'
  <2>1. Unlinked' = Unlinked
    BY <1>1 DEF Unlinked, execVars
  <2>2. Chain(next, head) = live \ Unlinked
    BY ListSoundChains DEF HeapInv, HeapSound
  <2>3. Chain(next', head') = live' \ Unlinked'
    BY <1>1, <1>3, <2>1, <2>2
  <2>4. ListSound'
    BY <1>1, <1>3, <2>3, ListSoundChains
  <2>5. NoDangling'
    BY <1>1, <1>6, <1>10 DEF HeapInv, HeapSound, NoDangling, worldVars
  <2> QED BY <2>4, <2>5 DEF HeapSound
<1>12. OwnerInv'
  <2>1. Chain(next', prev) \subseteq Chain(next, prev)
    <3>1. Chain(next', prev) = {prev} \cup Chain(next', next'[prev])
      BY <1>2, <1>3, ChainStep
    <3> QED BY <1>3, <1>4, <3>1
  <2>2. OwnerInv
    BY DEF HeapInv
  <2>3. \A e \in Executors : Linking(e) =>
          /\ tmp[e] \in live' /\ tmp[e] \notin Reachable(Roots)' /\ tmp[e] \notin ListFrom(prev)'
          /\ Children(tmp[e])' = Children(tmp[e])
    BY <1>1, <1>7, <1>8, <1>9, <1>10, <2>1, <2>2 DEF OwnerInv, ListFrom, execVars, Children
  <2>4. \A e \in Executors : Linking(e)' <=> Linking(e)
    BY <1>1 DEF Linking, execVars
  <2> QED BY <1>1, <2>2, <2>3, <2>4 DEF OwnerInv, execVars, worldVars
<1>13. MarkInv'
  BY <1>1 DEF HeapInv, MarkInv
<1>14. SweepInv'
  <2>1. /\ ListFrom(head)' = Chain(next, head) \ {r} /\ ListFrom(next[prev])' = Chain(next, next[r])
    BY <1>1, <1>3 DEF ListFrom
  <2>2. prev # r
    BY <1>2, <1>4 DEF Acyclic, r
  <2>3. /\ marked \subseteq Chain(next, next[r])
        /\ R \cap Chain(next, next[r]) \subseteq marked
        /\ garbage' \subseteq Chain(next, next[r]) \ marked
    BY <1>1, <1>4, <1>5
  <2> QED BY <1>1, <1>2, <1>10, <2>1, <2>2, <2>3 DEF SweepInv
<1> QED BY <1>11, <1>12, <1>13, <1>14

\* At the end of the list nothing is marked and no garbage is left.
LEMMA SweepEndStep ==
  ASSUME HeapInv, TypeOK', SweepEnd \/ CollectEnd
  PROVE  HeapSound' /\ OwnerInv' /\ MarkInv' /\ SweepInv'
<1>1. /\ UNCHANGED <<refVars, execVars, mode, marked, queue, garbage>>
      /\ prev' = prev \/ prev' = Nil
      /\ cpc \in {"sweep", "swept"} /\ world # "Aborted"
  BY DEF SweepEnd, CollectEnd, WorldResume, worldVars, HeapInv, PhaseInv
<1>2. next \in Nexts /\ Chain(next, Nil) = {}
  BY ListFacts, ChainNil
<1>3. Reachable(Roots)' = Reachable(Roots) /\ HeapSound' /\ OwnerInv'
  <2>1. \A e \in Executors : Linking(e) => tmp[e] \notin Chain(next, prev')
    BY <1>1, <1>2 DEF HeapInv, OwnerInv, ListFrom
  <2> QED BY <1>1, <2>1, Quiet
<1>4. SweepInv /\ MarkInv
  BY DEF HeapInv
<1>5. marked = {} /\ garbage = {}
  <2>1. CASE SweepEnd
    BY <1>2, <1>4, <2>1 DEF SweepEnd, SweepInv, ListFrom
  <2>2. CASE CollectEnd
    BY <1>4, <2>2 DEF CollectEnd, SweepInv, MarkInv
  <2> QED BY <2>1, <2>2
<1>6. cpc' = "swept" \/ (cpc' = "idle" /\ prev' = Nil)
  BY DEF SweepEnd, CollectEnd
<1>7. MarkInv'
  BY <1>1, <1>4, <1>5, <1>6 DEF MarkInv
<1>8. SweepInv'
  <2>1. ListFrom(head)' = ListFrom(head)
    BY <1>1 DEF ListFrom, refVars
  <2> QED BY <1>1, <1>4, <1>5, <1>6, <2>1 DEF SweepInv
<1> QED BY <1>3, <1>7, <1>8

\* The end of run(): the destructor frees the list from its head.
LEMMA EndStep ==
  ASSUME HeapInv, TypeOK', StopForAbort \/ Abort \/ Destroy
  PROVE  HeapSound' /\ OwnerInv' /\ MarkInv' /\ SweepInv'
<1>1. CASE StopForAbort \/ Abort
  <2>1. /\ UNCHANGED <<refVars, execVars, mode, marked, queue, blocking, prev, garbage>>
        /\ cpc \in {"idle", "terminated"} /\ cpc' = "terminated" /\ world # "Aborted"
    BY <1>1 DEF StopForAbort, Abort, WorldStop, WorldAbort, gcVars
  <2>2. HeapSound' /\ OwnerInv'
    <3>1. \A e \in Executors : Linking(e) => tmp[e] \notin Chain(next, prev')
      BY <2>1 DEF HeapInv, OwnerInv, ListFrom
    <3> QED BY <2>1, <3>1, Quiet
  <2>3. MarkInv'
    BY <2>1 DEF HeapInv, MarkInv
  <2>4. SweepInv'
    <3>1. ListFrom(head)' = ListFrom(head)
      BY <2>1 DEF ListFrom, refVars
    <3> QED BY <2>1, <3>1 DEF HeapInv, SweepInv
  <2> QED BY <2>2, <2>3, <2>4
<1>2. CASE Destroy
  <2>1. /\ UNCHANGED <<worldVars, kind, field, collapsed, next, execVars, gcVars>>
        /\ world = "Aborted" /\ head # Nil /\ live' = live \ {head} /\ head' = next[head]
    BY <1>2 DEF Destroy
  <2>2. Unlinked = {} /\ \A e \in Executors : ~Linking(e) /\ link[e] = Nil
    BY <2>1, Calm
  <2>3. cpc = "terminated"
    BY <2>1 DEF HeapInv, PhaseInv, TypeOK
  <2>4. prev = Nil /\ garbage = {} /\ prev' = prev /\ garbage' = garbage /\ cpc' = cpc
    BY <2>1, <2>3 DEF HeapInv, MarkInv, SweepInv, gcVars
  <2>5. ListSound'
    <3>1. next \in Nexts /\ head \in Refs /\ Chain(next, head) = live \ Unlinked /\ Acyclic(next, head)
      BY <2>1, ListFacts, ListSoundChains DEF HeapInv, HeapSound, RefOrNil
    <3>2. Chain(next, head) = {head} \cup Chain(next, next[head])
      BY <3>1, ChainStep
    <3>3. head \notin Chain(next, next[head])
      BY <3>1, <3>2 DEF Acyclic
    <3>4. Unlinked' = Unlinked
      BY <2>1 DEF Unlinked, execVars
    <3>5. Chain(next', head') = live' \ Unlinked' /\ Acyclic(next', head')
      BY <2>1, <2>2, <3>1, <3>2, <3>3, <3>4 DEF Acyclic
    <3> QED BY <3>5, ListSoundChains
  <2>6. NoDangling'
    BY <2>1 DEF NoDangling, worldVars
  <2>7. OwnerInv'
    BY <2>1, <2>2 DEF OwnerInv, Linking, execVars
  <2>8. MarkInv'
    BY <2>1, <2>3 DEF HeapInv, MarkInv, gcVars
  <2>9. SweepInv'
    BY <2>3, <2>4 DEF SweepInv
  <2> QED BY <2>5, <2>6, <2>7, <2>8, <2>9 DEF HeapSound
<1> QED BY <1>1, <1>2
-----------------------------------------------------------------------------
(* The theorems. *)

\* Nothing is in use when run() starts.
LEMMA InitHolds == Init => HeapInv
<1> SUFFICES ASSUME Init PROVE HeapInv
  OBVIOUS
<1> USE MainAssumption, HeapAssumption DEF Init, WorldInit
<1>1. TypeOK
  BY DEF TypeOK, WorldStates, Modes, RefOrNil
<1>2. PhaseInv
  BY DEF PhaseInv
<1>3. OwnerInv
  BY DEF OwnerInv, Linking
<1>4. Chain(next, Nil) = {} /\ next \in Nexts
  BY <1>1, Typed, ChainNil
<1>5. ListSound
  BY <1>4 DEF ListSound, ListFrom
<1>6. NoDangling
  <2>1. Roots = {}
    BY DEF Roots
  <2>2. Kids \in Succ
    BY <1>1, KidsTyped
  <2>3. Closure({}, Kids) \subseteq {}
    BY <2>2, ClosureFacts
  <2> QED BY <2>1, <2>3 DEF NoDangling, Reachable, Kids
<1>7. MarkInv
  BY DEF MarkInv
<1>8. SweepInv
  BY DEF SweepInv
<1> QED BY <1>1, <1>2, <1>3, <1>5, <1>6, <1>7, <1>8 DEF HeapInv, HeapSound

\* Types, phases, ownership, the soundness of references and list, marking and
\* sweeping together are preserved by every step.
THEOREM Inductive == Spec => []HeapInv
<1>1. HeapInv /\ [Next]_vars => HeapInv'
  <2> SUFFICES ASSUME HeapInv, [Next]_vars PROVE HeapInv'
    OBVIOUS
  <2> DEFINE Goal == HeapSound' /\ OwnerInv' /\ MarkInv' /\ SweepInv'
  <2>1. TypeOK' /\ PhaseInv'
    BY TypeStep, PhaseStep
  <2>2. ASSUME NEW e \in Executors, ExecutorStep(e)
        PROVE  Goal
    BY <2>1, <2>2, ExecutorList, ExecutorOwner, ExecutorSweep DEF HeapSound
  <2>3. ASSUME CollectorStep PROVE Goal
    BY <2>1, <2>3, StopStep, MarkStep, MarkDoneStep, SweepStartStep, SweepKeepStep, SweepFreeStep,
       SweepEndStep DEF CollectorStep
  <2>4. ASSUME StopForAbort \/ Abort \/ Destroy PROVE Goal
    BY <2>1, <2>4, EndStep
  <2>5. ASSUME Finished \/ UNCHANGED vars PROVE Goal
    <3>1. UNCHANGED <<worldVars, refVars, execVars, gcVars>>
      BY <2>5 DEF Finished, vars
    <3>2. UNCHANGED mode /\ world' = world /\ prev' = prev /\ ListFrom(prev)' = ListFrom(prev)
      BY <3>1 DEF ListFrom, worldVars, refVars, gcVars
    <3>3. Reachable(Roots)' = Reachable(Roots) /\ HeapSound' /\ OwnerInv'
      <4>1. \A e \in Executors : Linking(e) => tmp[e] \notin Chain(next, prev')
        BY <3>2 DEF HeapInv, OwnerInv, ListFrom
      <4> QED BY <2>1, <3>1, <3>2, <4>1, Quiet
    <3>4. MarkInv'
      BY <3>1, <3>3 DEF HeapInv, MarkInv, Roots, Children, refVars, execVars, gcVars
    <3>5. SweepInv'
      <4>1. ListFrom(head)' = ListFrom(head) /\ ListFrom(next[prev])' = ListFrom(next[prev])
        BY <3>1 DEF ListFrom, refVars, gcVars
      <4> QED BY <3>1, <3>2, <3>3, <4>1 DEF HeapInv, SweepInv, refVars, gcVars
    <3> QED BY <3>3, <3>4, <3>5
  <2>6. Goal
    <3> HIDE DEF Goal
    <3> QED BY <2>2, <2>3, <2>4, <2>5 DEF Next
  <2> QED BY <2>1, <2>6 DEF HeapInv
<1> QED BY <1>1, InitHolds, PTL DEF Spec

\* Nothing that an executor can reach is ever freed while the program runs, and
\* the lock-free list has no cycle and holds exactly the references in use,
\* whatever the executors do beside the sweep.
THEOREM HeapSoundHolds == Spec => []HeapSound
<1>1. HeapInv => HeapSound
  BY DEF HeapInv
<1> QED BY <1>1, Inductive, PTL

\* When a collection is over, everything that was unreachable when it marked has
\* been freed, except for the head; and the destructor leaves nothing behind.
THEOREM CollectionCompleteHolds == Spec => []CollectionComplete
<1>1. HeapInv => CollectionComplete
  <2> SUFFICES ASSUME HeapInv PROVE CollectionComplete
    OBVIOUS
  <2>1. cpc = "idle" => garbage = {}
    BY DEF HeapInv, SweepInv
  <2>2. ASSUME world = "Aborted", head = Nil PROVE live = {}
    <3>1. Unlinked = {}
      BY <2>2, Calm
    <3>2. live = Chain(next, head)
      BY <3>1, ListSoundChains DEF HeapInv, HeapSound
    <3> QED BY <2>2, <3>2, ListFacts, ChainNil
  <2> QED BY <2>1, <2>2 DEF CollectionComplete
<1> QED BY <1>1, Inductive, PTL
-----------------------------------------------------------------------------
(* Strings that are being written. *)

\* What is in use keeps its kind.
LEMMA KindKept ==
  ASSUME HeapInv, [Next]_vars
  PROVE  \A r \in live \cap live' : kind'[r] = kind[r]
<1>1. kind \in [Refs -> Kinds \cup {"string"}] /\ live \subseteq Refs
  BY DEF HeapInv, TypeOK
<1>2. ASSUME NEW e \in Executors, NEW r \in Refs,
             Alloc(e, r) \/ \E q \in Refs : CollapseAlloc(e, q, r)
      PROVE  \A x \in live : kind'[x] = kind[x]
  <2>1. PICK k : r \notin live /\ kind' = [kind EXCEPT ![r] = k]
    BY <1>2 DEF Alloc, CollapseAlloc, Construct
  <2> QED BY <1>1, <2>1
<1>3. ASSUME SweepFree PROVE \A x \in live' : kind'[x] = kind[x]
  BY <1>1, <1>3 DEF SweepFree
<1>4. ASSUME NEW e \in Executors, NEW r \in Refs,
             \/ Cas(e) \/ SetCollapsed(e) \/ WriteBlock(e) \/ Park(e) \/ Unpark(e) \/ Exit(e) \/ Unwind(e)
             \/ \E c \in Executors : ForkArgs(e, c)
             \/ Drop(e, r) \/ LoadField(e, r) \/ WriteCollapsed(e, r)
             \/ \E q \in Refs : StoreField(e, r, q)
      PROVE  kind' = kind
  BY <1>4 DEF Cas, SetCollapsed, WriteBlock, Park, Unpark, Exit, Unwind, ForkArgs, Drop, LoadField,
     WriteCollapsed, StoreField, refVars
<1>5. ASSUME NEW e \in Executors,
             \/ Cas(e) \/ SetCollapsed(e) \/ WriteBlock(e) \/ Park(e) \/ Unpark(e) \/ Exit(e) \/ Unwind(e)
             \/ \E c \in Executors : ForkArgs(e, c)
      PROVE  kind' = kind
  BY <1>5 DEF Cas, SetCollapsed, WriteBlock, Park, Unpark, Exit, Unwind, ForkArgs, refVars
<1>6. ASSUME NEW e \in Executors, ExecutorStep(e) PROVE \A x \in live : kind'[x] = kind[x]
  BY <1>2, <1>4, <1>5, <1>6 DEF ExecutorStep
<1>7. ASSUME Stop \/ Mark \/ MarkDone \/ ResumeBeforeSweep \/ BlockingSweep \/ SweepHead \/ SweepKeep
             \/ SweepEnd \/ CollectEnd \/ StopForAbort \/ Abort \/ Destroy \/ Finished \/ UNCHANGED vars
      PROVE  kind' = kind
  BY <1>7 DEF Stop, Mark, MarkDone, ResumeBeforeSweep, BlockingSweep, SweepHead, SweepKeep, SweepEnd,
     CollectEnd, StopForAbort, Abort, Destroy, Finished, vars, refVars
<1> QED BY <1>3, <1>6, <1>7 DEF Next, CollectorStep

\* Only executors change what executors have.
LEMMA CollectorLeaves ==
  ASSUME CollectorStep \/ StopForAbort \/ Abort \/ Destroy \/ Finished \/ UNCHANGED vars
  PROVE  UNCHANGED <<stack, opc, tmp, link, held, mode>>
BY DEF CollectorStep, Stop, Mark, MarkDone, ResumeBeforeSweep, BlockingSweep, SweepHead, SweepKeep,
   SweepFree, SweepEnd, CollectEnd, StopForAbort, Abort, Destroy, Finished, vars, worldVars, execVars,
   WorldStop, WorldResume, WorldAbort

\* While the program runs, what is on a stack, or being collapsed, is in use.
LEMMA StackLive ==
  /\ HeapInv /\ world # "Aborted" => \A e \in Executors :
       stack[e] \subseteq live /\ (link[e] # Nil => link[e] \in stack[e])
  /\ HeapInv' /\ world' # "Aborted" => \A e \in Executors :
       stack'[e] \subseteq live' /\ (link'[e] # Nil => link'[e] \in stack'[e])
<1>1. HeapInv /\ world # "Aborted" => \A e \in Executors :
        stack[e] \subseteq live /\ (link[e] # Nil => link[e] \in stack[e])
  BY ReachFacts DEF HeapInv, HeapSound, NoDangling, OwnerInv
<1>2. (HeapInv /\ world # "Aborted" => \A e \in Executors :
         stack[e] \subseteq live /\ (link[e] # Nil => link[e] \in stack[e]))'
  BY <1>1, PTL
<1> QED BY <1>1, <1>2

\* What an executor holds is held on, if it keeps what leads to it.
LEMMA HeldFrame ==
  ASSUME HeapInv, HeapInv', CollapsedOnce, [Next]_vars, world # "Aborted", world' # "Aborted",
         NEW e \in Executors, HeldBy(e),
         opc'[e] = opc[e], link'[e] = link[e], held'[e] = held[e],
         mode'[e] = "absent" => mode[e] = "absent",
         held[e] # Nil => stack[e] \subseteq stack'[e]
  PROVE  HeldBy(e)'
<1>1. /\ stack[e] \subseteq live /\ stack'[e] \subseteq live'
      /\ link[e] # Nil => link[e] \in live \cap live'
  BY StackLive
<1>2. link[e] # Nil => kind'[link[e]] = "link"
  BY <1>1, KindKept DEF HeldBy
<1>3. ASSUME held[e] # Nil
      PROVE  \E l \in stack'[e] : kind'[l] = "link" /\ collapsed'[l] = held[e]
  <2>1. PICK l \in stack[e] : kind[l] = "link" /\ collapsed[l] = held[e]
    BY <1>3 DEF HeldBy
  <2>2. l \in live \cap live' /\ l \in stack'[e]
    BY <1>1, <1>3
  <2> QED BY <1>3, <2>1, <2>2, KindKept DEF CollapsedOnce
<1> QED BY <1>2, <1>3 DEF HeldBy

\* An executor that collapses no link and writes nothing.
LEMMA HoldsNothing ==
  ASSUME NEW e \in Executors, opc'[e] # "store", link'[e] = Nil, held'[e] = Nil
  PROVE  HeldBy(e)'
BY DEF HeldBy

\* A step of an executor, as the others see it.
LEMMA OthersHold ==
  ASSUME HeapInv, NEW e \in Executors, ExecutorStep(e), NEW x \in Executors \ {e}
  PROVE  /\ opc'[x] = opc[x] /\ link'[x] = link[x] /\ held'[x] = held[x]
         /\ mode'[x] = "absent" => mode[x] = "absent"
         /\ mode[x] # "absent" => stack'[x] = stack[x]
<1>1. /\ mode \in [Executors -> Modes] /\ stack \in [Executors -> SUBSET Refs]
      /\ opc \in [Executors -> {"ready", "cas", "store", "write"}]
      /\ link \in [Executors -> RefOrNil] /\ held \in [Executors -> RefOrNil]
  BY Typed DEF HeapInv, TypeOK
<1>2. ASSUME NEW r \in Refs,
             \/ Alloc(e, r) \/ Drop(e, r) \/ LoadField(e, r) \/ WriteCollapsed(e, r)
             \/ \E q \in Refs : StoreField(e, r, q) \/ CollapseAlloc(e, r, q)
      PROVE  /\ opc'[x] = opc[x] /\ link'[x] = link[x] /\ held'[x] = held[x] /\ mode' = mode
             /\ stack'[x] = stack[x]
  BY <1>1, <1>2 DEF Alloc, Drop, LoadField, WriteCollapsed, StoreField, CollapseAlloc, Construct,
     worldVars, execVars
<1>3. ASSUME Cas(e) \/ SetCollapsed(e) \/ WriteBlock(e) \/ Park(e) \/ Unpark(e) \/ Exit(e) \/ Unwind(e)
      PROVE  /\ opc'[x] = opc[x] /\ link'[x] = link[x] /\ held'[x] = held[x] /\ mode'[x] = mode[x]
             /\ stack'[x] = stack[x]
  BY <1>1, <1>3 DEF Cas, SetCollapsed, WriteBlock, Park, Unpark, Exit, Unwind, WorldPark, WorldUnpark,
     WorldExit, WorldUnwind, worldVars, execVars
<1>4. ASSUME NEW c \in Executors, ForkArgs(e, c)
      PROVE  /\ opc'[x] = opc[x] /\ link'[x] = link[x] /\ held'[x] = held[x]
             /\ mode'[x] = "absent" => mode[x] = "absent"
             /\ mode[x] # "absent" => stack'[x] = stack[x]
  BY <1>1, <1>4 DEF ForkArgs, WorldFork
<1> QED BY <1>2, <1>3, <1>4 DEF ExecutorStep

\* A step of an executor, as it sees it.
LEMMA ItselfHolds ==
  ASSUME HeapInv, HeapInv', CollapsedOnce, world # "Aborted", world' # "Aborted",
         NEW e \in Executors, HeldBy(e), ExecutorStep(e), [Next]_vars
  PROVE  HeldBy(e)'
<1>1. /\ mode \in [Executors -> Modes] /\ stack \in [Executors -> SUBSET Refs]
      /\ opc \in [Executors -> {"ready", "cas", "store", "write"}]
      /\ link \in [Executors -> RefOrNil] /\ held \in [Executors -> RefOrNil]
      /\ collapsed \in [Refs -> RefOrNil]
  BY Typed DEF HeapInv, TypeOK
<1>2. /\ opc[e] \in {"ready", "write"} \/ mode[e] # "active" => link[e] = Nil
      /\ opc[e] # "write" => held[e] = Nil
  BY DEF HeapInv, OwnerInv, Linking, HeldBy
<1>3. stack[e] \subseteq live /\ stack'[e] \subseteq live'
  BY StackLive
<1>4. ASSUME NEW r \in Refs,
             Alloc(e, r) \/ Drop(e, r) \/ LoadField(e, r) \/ \E q \in Refs : StoreField(e, r, q)
      PROVE  HeldBy(e)'
  <2>1. opc'[e] # "store" /\ link'[e] = Nil /\ held'[e] = Nil
    BY <1>1, <1>2, <1>4 DEF Ready, Alloc, Construct, Drop, LoadField, StoreField, execVars
  <2> QED BY <2>1, HoldsNothing
<1>5. ASSUME Park(e) \/ Exit(e) \/ Unpark(e) \/ \E c \in Executors : ForkArgs(e, c)
      PROVE  HeldBy(e)'
  <2>1. opc'[e] # "store" /\ link'[e] = Nil /\ held'[e] = Nil
    BY <1>1, <1>2, <1>5 DEF Ready, Park, Exit, Unpark, ForkArgs, WorldUnpark, execVars
  <2> QED BY <2>1, HoldsNothing
<1>6. ASSUME Unwind(e) \/ WriteBlock(e) PROVE HeldBy(e)'
  <2>1. UNCHANGED <<opc, link, held, stack>> /\ mode'[e] # "absent"
    BY <1>1, <1>6 DEF Unwind, WriteBlock, WorldUnwind, WorldPark, execVars
  <2> QED BY <2>1, HeldFrame
<1>7. ASSUME Cas(e) PROVE HeldBy(e)'
  <2>1. /\ opc'[e] = "store" => link[e] # Nil
        /\ link' = link /\ held' = held /\ held[e] = Nil /\ kind' = kind
    BY <1>1, <1>2, <1>7 DEF Cas
  <2> QED BY <2>1 DEF HeldBy
<1>8. ASSUME NEW l \in Refs, NEW r \in Refs, CollapseAlloc(e, l, r) PROVE HeldBy(e)'
  <2>1. /\ l \in stack[e] /\ stack' = stack /\ kind[l] = "link"
        /\ opc'[e] = "cas" /\ link'[e] = l /\ held' = held /\ held[e] = Nil
    BY <1>1, <1>2, <1>8 DEF CollapseAlloc, Construct, Ready
  <2>2. kind'[l] = "link"
    BY <1>3, <2>1, KindKept
  <2> QED BY <2>1, <2>2 DEF HeldBy
<1>9. ASSUME SetCollapsed(e) PROVE HeldBy(e)'
  <2>1. /\ opc[e] = "store" /\ link[e] # Nil /\ kind[link[e]] = "link" /\ mode[e] = "active"
        /\ link[e] \in stack[e] /\ link[e] \in Refs
    BY <1>1, <1>9, StackLive DEF SetCollapsed, HeldBy, HeapInv, OwnerInv, Linking
  <2>2. /\ opc'[e] = "write" /\ link'[e] = Nil /\ held'[e] = tmp[e] /\ collapsed'[link[e]] = tmp[e]
        /\ stack' = stack /\ mode' = mode /\ kind' = kind
    BY <1>1, <1>9, <2>1 DEF SetCollapsed, worldVars
  <2>3. \E l \in stack'[e] : kind'[l] = "link" /\ collapsed'[l] = held'[e]
    BY <2>1, <2>2
  <2> QED BY <2>1, <2>2, <2>3 DEF HeldBy
<1>10. ASSUME NEW l \in Refs, WriteCollapsed(e, l) PROVE HeldBy(e)'
  <2>1. /\ l \in stack[e] /\ kind[l] = "link" /\ mode[e] = "active" /\ opc[e] = "ready"
        /\ opc'[e] = "write" /\ link' = link /\ held'[e] = collapsed[l]
        /\ UNCHANGED <<stack, mode, kind, collapsed>>
    BY <1>1, <1>10 DEF WriteCollapsed, Ready, worldVars, refVars
  <2>2. \E x \in stack'[e] : kind'[x] = "link" /\ collapsed'[x] = held'[e]
    BY <2>1
  <2> QED BY <1>2, <2>1, <2>2 DEF HeldBy
<1> QED BY <1>4, <1>5, <1>6, <1>7, <1>8, <1>9, <1>10 DEF ExecutorStep

\* The string that a blocked StreamWriteString passes to the operating system
\* stays allocated, as the comment in pcall.hpp:113 has it, as long as no link
\* is collapsed twice: two executors in collapseStringLink() are its only
\* enemy.
THEOREM HeldAliveIfOnce == Spec /\ [][CollapsedOnce]_vars => []HeldAlive
<1>1. Init => HeldInv
  BY DEF Init, HeldInv, HeldBy
<1>2. HeapInv /\ HeapInv' /\ HeldInv /\ [Next]_vars /\ [CollapsedOnce]_vars => HeldInv'
  <2> SUFFICES ASSUME HeapInv, HeapInv', HeldInv, [Next]_vars, [CollapsedOnce]_vars,
                      world' # "Aborted", NEW e \in Executors
               PROVE  HeldBy(e)'
    BY DEF HeldInv
  <2>1. CASE UNCHANGED vars
    BY <2>1 DEF HeldInv, HeldBy, vars, worldVars, refVars, execVars
  <2>2. CASE Next /\ CollapsedOnce
    <3>1. world # "Aborted" /\ HeldBy(e)
      <4>1. world = "Aborted" => world' = "Aborted"
        <5>1. ASSUME NEW x \in Executors, ExecutorStep(x) PROVE world' = world
          BY <5>1, ExecutorsRun
        <5>2. ASSUME CollectorStep \/ StopForAbort \/ Abort \/ Destroy \/ Finished, world = "Aborted"
              PROVE  world' = "Aborted"
          BY <5>2 DEF CollectorStep, Stop, Mark, MarkDone, ResumeBeforeSweep, BlockingSweep, SweepHead,
             SweepKeep, SweepFree, SweepEnd, CollectEnd, StopForAbort, Abort, Destroy, Finished, vars,
             worldVars, WorldStop, WorldResume, WorldAbort
        <5> QED BY <2>2, <5>1, <5>2 DEF Next
      <4> QED BY <4>1 DEF HeldInv
    <3>2. ASSUME NEW x \in Executors, ExecutorStep(x) PROVE HeldBy(e)'
      <4>1. CASE x = e
        BY <2>2, <3>1, <3>2, <4>1, ItselfHolds
      <4>2. CASE x # e
        <5>1. /\ opc'[e] = opc[e] /\ link'[e] = link[e] /\ held'[e] = held[e]
              /\ mode'[e] = "absent" => mode[e] = "absent"
              /\ held[e] # Nil => stack[e] \subseteq stack'[e]
          BY <3>1, <3>2, <4>2, OthersHold DEF HeldBy
        <5> QED BY <2>2, <3>1, <5>1, HeldFrame
      <4> QED BY <4>1, <4>2
    <3>3. ASSUME CollectorStep \/ StopForAbort \/ Abort \/ Destroy \/ Finished PROVE HeldBy(e)'
      <4>1. UNCHANGED <<stack, opc, tmp, link, held, mode>>
        BY <3>3, CollectorLeaves
      <4> QED BY <2>2, <3>1, <4>1, HeldFrame
    <3> QED BY <2>2, <3>2, <3>3 DEF Next
  <2> QED BY <2>1, <2>2
<1>3. HeapInv /\ HeldInv => HeldAlive
  <2> SUFFICES ASSUME HeapInv, HeldInv, world # "Aborted", NEW e \in Executors, held[e] # Nil
               PROVE  held[e] \in live
    BY DEF HeldAlive
  <2>1. PICK l \in stack[e] : kind[l] = "link" /\ collapsed[l] = held[e]
    BY DEF HeldInv, HeldBy
  <2>2. held[e] \in Children(l)
    BY <2>1 DEF Children
  <2> QED BY <2>1, <2>2, ReachFacts DEF HeapInv, HeapSound, NoDangling
<1> QED BY <1>1, <1>2, <1>3, Inductive, PTL DEF Spec
=============================================================================
