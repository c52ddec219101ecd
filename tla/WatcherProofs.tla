---------------------------- MODULE WatcherProofs ---------------------------
(***************************************************************************)
(* Proofs about IOWatcher, for any executors, directories, names and trees,*)
(* any number of changes and any size of the event queue.                  *)
(***************************************************************************)
EXTENDS IOWatcher, FiniteSetTheorems, WellFoundedInduction, TLAPS

(* What is above a directory in the tree par. *)

AboveIn(par, d) ==
  {a \in Inodes : \A S \in SUBSET Inodes :
     d \in S /\ (\A x \in S \cap Dirs : par[x] # None => par[x] \in S) => a \in S}

Parents == [Dirs -> Inodes \cup {None}]

Closed(par, S) == \A x \in S \cap Dirs : par[x] # None => par[x] \in S

LEMMA RootFacts == Root \in Inodes /\ Root \notin Dirs /\ None \notin Inodes /\ Dirs \subseteq Inodes
  BY WatcherAssumption DEF Inodes, Root, Outside, None

LEMMA AboveFacts ==
  ASSUME NEW par \in Parents, NEW d \in Inodes
  PROVE  d \in AboveIn(par, d) /\ AboveIn(par, d) \subseteq Inodes /\ Closed(par, AboveIn(par, d))
<1>1. d \in AboveIn(par, d) /\ AboveIn(par, d) \subseteq Inodes
  BY DEF AboveIn
<1>2. ASSUME NEW x \in AboveIn(par, d) \cap Dirs, par[x] # None PROVE par[x] \in AboveIn(par, d)
  <2>1. par[x] \in Inodes
    BY <1>2 DEF Parents
  <2> QED BY <2>1, <1>2 DEF AboveIn
<1> QED BY <1>1, <1>2 DEF Closed

LEMMA AboveLeast ==
  ASSUME NEW par, NEW d, NEW S \in SUBSET Inodes, d \in S, Closed(par, S)
  PROVE  AboveIn(par, d) \subseteq S
  BY DEF AboveIn, Closed

LEMMA AboveTransitive ==
  ASSUME NEW par \in Parents, NEW d \in Inodes, NEW e \in AboveIn(par, d)
  PROVE  e \in Inodes /\ AboveIn(par, e) \subseteq AboveIn(par, d)
<1>1. AboveIn(par, d) \in SUBSET Inodes /\ Closed(par, AboveIn(par, d))
  BY AboveFacts
<1> QED BY <1>1, AboveLeast

\* What is above d is d or above the directory d is in.
LEMMA AboveUnfold ==
  ASSUME NEW par \in Parents, NEW d \in Inodes, NEW a \in AboveIn(par, d), a # d
  PROVE  d \in Dirs /\ par[d] \in Inodes /\ a \in AboveIn(par, par[d])
<1>1. CASE d \in Dirs /\ par[d] # None
  <2>1. par[d] \in Inodes
    BY <1>1 DEF Parents
  <2> DEFINE S == {d} \cup AboveIn(par, par[d])
  <2>2. par[d] \in AboveIn(par, par[d]) /\ AboveIn(par, par[d]) \subseteq Inodes
        /\ Closed(par, AboveIn(par, par[d]))
    BY <2>1, AboveFacts
  <2>3. Closed(par, S) /\ S \in SUBSET Inodes
    BY <2>2 DEF Closed
  <2>4. AboveIn(par, d) \subseteq S
    <3>1. d \in S
      OBVIOUS
    <3> HIDE DEF S
    <3> QED BY <3>1, <2>3, AboveLeast
  <2> QED BY <1>1, <2>1, <2>4
<1>2. CASE ~ (d \in Dirs /\ par[d] # None)
  <2>1. Closed(par, {d}) /\ {d} \in SUBSET Inodes
    BY <1>2 DEF Closed
  <2>2. AboveIn(par, d) \subseteq {d}
    BY <2>1, AboveLeast
  <2> QED BY <2>2
<1> QED BY <1>1, <1>2

\* Above d, but for d itself, everything has one of these directories in it.
LEMMA AboveHolds ==
  ASSUME NEW par \in Parents, NEW d \in Inodes, NEW e \in AboveIn(par, d), e # d
  PROVE  \E b \in AboveIn(par, d) \cap Dirs : par[b] = e
<1> SUFFICES ASSUME \A b \in AboveIn(par, d) \cap Dirs : par[b] # e PROVE FALSE
  OBVIOUS
<1> DEFINE S == AboveIn(par, d) \ {e}
<1>1. d \in S /\ S \in SUBSET Inodes /\ Closed(par, S)
  BY AboveFacts DEF Closed
<1> HIDE DEF S
<1>2. AboveIn(par, d) \subseteq S
  BY <1>1, AboveLeast
<1> QED BY <1>2 DEF S

\* Of two directories above d one is above the other.
LEMMA AboveLinear ==
  ASSUME NEW par \in Parents, NEW d \in Inodes, NEW x \in AboveIn(par, d), NEW a \in AboveIn(par, d)
  PROVE  a \in AboveIn(par, x) \/ x \in AboveIn(par, a)
<1> DEFINE S == {y \in Inodes : x \in AboveIn(par, y)} \cup AboveIn(par, x)
<1>1. x \in Inodes
  BY AboveFacts
<1>2. AboveIn(par, x) \subseteq Inodes /\ Closed(par, AboveIn(par, x)) /\ x \in AboveIn(par, x)
  BY <1>1, AboveFacts
<1>3. ASSUME NEW y \in S \cap Dirs, par[y] # None PROVE par[y] \in S
  <2>1. CASE y \in AboveIn(par, x)
    BY <2>1, <1>2, <1>3 DEF Closed
  <2>2. CASE y \notin AboveIn(par, x)
    <3>1. y \in Inodes /\ x \in AboveIn(par, y) /\ x # y
      BY <2>2, <1>2
    <3>2. par[y] \in Inodes /\ x \in AboveIn(par, par[y])
      BY <3>1, AboveUnfold
    <3> QED BY <3>2
  <2> QED BY <2>1, <2>2
<1>4. d \in S /\ S \in SUBSET Inodes
  BY <1>2
<1>5. Closed(par, S)
  BY <1>3 DEF Closed
<1> HIDE DEF S
<1>6. AboveIn(par, d) \subseteq S
  BY <1>4, <1>5, AboveLeast
<1> QED BY <1>6 DEF S

\* Two trees that differ in where x is.
LEMMA AboveElsewhere ==
  ASSUME NEW par \in Parents, NEW new \in Parents, NEW x, \A y \in Dirs \ {x} : new[y] = par[y],
         NEW d \in Inodes, x \notin AboveIn(par, d)
  PROVE  AboveIn(new, d) = AboveIn(par, d)
<1>1. d \in AboveIn(par, d) /\ AboveIn(par, d) \in SUBSET Inodes /\ Closed(par, AboveIn(par, d))
  BY AboveFacts
<1>2. Closed(new, AboveIn(par, d))
  BY <1>1 DEF Closed
<1>3. AboveIn(new, d) \subseteq AboveIn(par, d)
  BY <1>1, <1>2, AboveLeast
<1>4. d \in AboveIn(new, d) /\ AboveIn(new, d) \in SUBSET Inodes /\ Closed(new, AboveIn(new, d))
  BY AboveFacts
<1>5. Closed(par, AboveIn(new, d))
  BY <1>3, <1>4 DEF Closed
<1>6. AboveIn(par, d) \subseteq AboveIn(new, d)
  BY <1>4, <1>5, AboveLeast
<1> QED BY <1>3, <1>6

\* What is in the tree is below everything that is above it.
LEMMA AboveRooted ==
  ASSUME NEW par \in Parents, NEW d \in Inodes, Root \in AboveIn(par, d), NEW a \in AboveIn(par, d)
  PROVE  a \in Inodes /\ Root \in AboveIn(par, a)
<1>1. a \in Inodes
  BY AboveFacts
<1>2. Root \in AboveIn(par, a) \/ a \in AboveIn(par, Root)
  BY AboveLinear
<1>3. a \in AboveIn(par, Root) => a = Root
  BY AboveUnfold, RootFacts
<1>4. Root \in AboveIn(par, Root)
  BY AboveFacts, RootFacts
<1> QED BY <1>1, <1>2, <1>3, <1>4
-----------------------------------------------------------------------------
(* Where a path leads. *)

Walk(par, lab, p, d, c) ==
  /\ p # <<>> /\ p[1] = Root /\ c[1] = Root /\ c[Len(p)] = d
  /\ \A i \in 2 .. Len(p) : c[i] \in Dirs /\ par[c[i]] = c[i - 1] /\ lab[c[i]] = p[i]

LeadsIn(par, lab, p, d) == \E c \in [DOMAIN p -> Inodes] : Walk(par, lab, p, d, c)

UniqueNames(par, lab) ==
  \A d, e \in Dirs : par[d] = par[e] /\ lab[d] = lab[e] /\ par[d] # None => d = e

LEMMA LeastNumber ==
  ASSUME NEW S \in SUBSET Nat, S # {}
  PROVE  \E n \in S : \A m \in S : n <= m
<1>1. PICK n \in S : \A m \in S : ~ (<<m, n>> \in OpToRel(<, Nat))
  BY NatLessThanWellFounded, WFMin
<1>2. ASSUME NEW m \in S PROVE n <= m
  <2>1. ~ (m < n)
    BY <1>1 DEF OpToRel
  <2> QED BY <2>1
<1> QED BY <1>2

LEMMA PathFacts ==
  ASSUME NEW p \in Paths, p # <<>>
  PROVE  Len(p) \in Nat /\ Len(p) >= 1 /\ DOMAIN p = 1 .. Len(p)
  BY DEF Paths

\* A walk comes by what is above its end only.
LEMMA WalkAbove ==
  ASSUME NEW par \in Parents, NEW lab, NEW p \in Paths, NEW d \in Inodes,
         NEW c \in [DOMAIN p -> Inodes], Walk(par, lab, p, d, c)
  PROVE  \A i \in 1 .. Len(p) : c[i] \in AboveIn(par, d)
<1> DEFINE A == AboveIn(par, d)
           S == {n \in Nat : n < Len(p) /\ c[Len(p) - n] \notin A}
<1>1. Len(p) \in Nat /\ Len(p) >= 1 /\ DOMAIN p = 1 .. Len(p) /\ p # <<>>
  BY PathFacts DEF Walk
<1>2. d \in A /\ Closed(par, A) /\ c[Len(p)] = d
  BY AboveFacts DEF Walk
<1> HIDE DEF A
<1>3. ASSUME NEW n \in S PROVE n - 1 \in S
  <2>1. n \in Nat /\ n < Len(p) /\ c[Len(p) - n] \notin A
    OBVIOUS
  <2>2. n # 0
    BY <2>1, <1>1, <1>2
  <2> DEFINE k == Len(p) - n + 1
  <2>3. k \in 2 .. Len(p) /\ k - 1 = Len(p) - n /\ k = Len(p) - (n - 1) /\ n - 1 \in Nat /\ n - 1 < Len(p)
    BY <2>1, <2>2, <1>1
  <2> HIDE DEF k
  <2>4. c[k] \in Dirs /\ par[c[k]] = c[k - 1] /\ c[k - 1] \in Inodes
    BY <2>3, <1>1 DEF Walk
  <2>5. c[k] \notin A
    BY <2>1, <2>3, <2>4, <1>2, RootFacts DEF Closed
  <2> QED BY <2>3, <2>5
<1>4. S = {}
  <2> SUFFICES ASSUME S # {} PROVE FALSE
    OBVIOUS
  <2>1. S \in SUBSET Nat
    OBVIOUS
  <2> HIDE DEF S
  <2>2. PICK n \in S : \A m \in S : n <= m
    BY <2>1, LeastNumber
  <2>3. n - 1 \in S /\ n \in Nat
    BY <2>1, <1>3
  <2> QED BY <2>2, <2>3
<1>5. ASSUME NEW i \in 1 .. Len(p) PROVE c[i] \in A
  <2>1. Len(p) - i \in Nat /\ Len(p) - i < Len(p) /\ Len(p) - (Len(p) - i) = i
    BY <1>1
  <2>2. Len(p) - i \notin S
    BY <1>4
  <2> QED BY <2>1, <2>2
<1> QED BY <1>5 DEF A

\* A path leads to one directory at most.
LEMMA LeadsUnique ==
  ASSUME NEW par \in Parents, NEW lab, UniqueNames(par, lab), NEW p \in Paths, NEW d \in Inodes, NEW e \in Inodes,
         LeadsIn(par, lab, p, d), LeadsIn(par, lab, p, e)
  PROVE  d = e
<1>1. PICK c \in [DOMAIN p -> Inodes] : Walk(par, lab, p, d, c)
  BY DEF LeadsIn
<1>2. PICK f \in [DOMAIN p -> Inodes] : Walk(par, lab, p, e, f)
  BY DEF LeadsIn
<1>3. Len(p) \in Nat /\ Len(p) >= 1 /\ DOMAIN p = 1 .. Len(p)
  BY <1>1, PathFacts DEF Walk
<1> DEFINE S == {n \in 1 .. Len(p) : c[n] # f[n]}
<1>4. S = {}
  <2> SUFFICES ASSUME S # {} PROVE FALSE
    OBVIOUS
  <2>1. S \in SUBSET Nat
    BY <1>3
  <2>2. PICK n \in S : \A m \in S : n <= m
    <3> HIDE DEF S
    <3> QED BY <2>1, LeastNumber
  <2>3. n \in 1 .. Len(p) /\ n # 1 /\ c[n] # f[n]
    BY <1>1, <1>2 DEF Walk
  <2>4. n \in 2 .. Len(p) /\ n - 1 \in 1 .. Len(p)
    BY <2>3, <1>3
  <2>5. c[n - 1] = f[n - 1] /\ c[n - 1] \in Inodes
    BY <2>2, <2>4, <1>3
  <2>6. c[n] \in Dirs /\ par[c[n]] = c[n - 1] /\ lab[c[n]] = p[n]
    BY <1>1, <2>4 DEF Walk
  <2>7. f[n] \in Dirs /\ par[f[n]] = f[n - 1] /\ lab[f[n]] = p[n]
    BY <1>2, <2>4 DEF Walk
  <2> QED BY <2>3, <2>5, <2>6, <2>7, RootFacts DEF UniqueNames
<1>5. c[Len(p)] = f[Len(p)]
  BY <1>3, <1>4
<1> QED BY <1>1, <1>2, <1>5 DEF Walk

\* What x does changes no path that does not come by x.
LEMMA LeadsElsewhere ==
  ASSUME NEW par \in Parents, NEW lab, NEW newPar, NEW newLab,
         NEW x, \A y \in Dirs \ {x} : newPar[y] = par[y] /\ newLab[y] = lab[y],
         NEW p \in Paths, NEW d \in Inodes, x \notin AboveIn(par, d), LeadsIn(par, lab, p, d)
  PROVE  LeadsIn(newPar, newLab, p, d)
<1>1. PICK c \in [DOMAIN p -> Inodes] : Walk(par, lab, p, d, c)
  BY DEF LeadsIn
<1>2. Len(p) \in Nat /\ Len(p) >= 1 /\ DOMAIN p = 1 .. Len(p)
  BY <1>1, PathFacts DEF Walk
<1>3. \A i \in 1 .. Len(p) : c[i] # x
  BY <1>1, WalkAbove
<1>4. ASSUME NEW i \in 2 .. Len(p) PROVE c[i] \in Dirs /\ newPar[c[i]] = c[i - 1] /\ newLab[c[i]] = p[i]
  <2>1. c[i] \in Dirs /\ par[c[i]] = c[i - 1] /\ lab[c[i]] = p[i]
    BY <1>1 DEF Walk
  <2>2. c[i] # x
    BY <1>2, <1>3
  <2> QED BY <2>1, <2>2
<1>5. Walk(newPar, newLab, p, d, c)
  BY <1>1, <1>4 DEF Walk
<1> QED BY <1>5 DEF LeadsIn

\* A path and one more name.
LEMMA LeadsFurther ==
  ASSUME NEW par \in Parents, NEW lab, NEW p \in Paths, NEW a \in Dirs, NEW n \in DirNames, lab[a] = n,
         LeadsIn(par, lab, p, par[a])
  PROVE  Append(p, n) \in Paths /\ LeadsIn(par, lab, Append(p, n), a)
<1>1. PICK c \in [DOMAIN p -> Inodes] : Walk(par, lab, p, par[a], c)
  BY DEF LeadsIn
<1>2. Len(p) \in Nat /\ Len(p) >= 1 /\ DOMAIN p = 1 .. Len(p)
  BY <1>1, PathFacts DEF Walk
<1> DEFINE q == Append(p, n)
           f == [i \in 1 .. Len(p) + 1 |-> IF i = Len(p) + 1 THEN a ELSE c[i]]
<1>3. q \in Paths /\ Len(q) = Len(p) + 1 /\ q[Len(p) + 1] = n /\ DOMAIN q = 1 .. Len(p) + 1
  BY <1>2 DEF Paths
<1>4. \A i \in 1 .. Len(p) : q[i] = p[i]
  BY <1>2 DEF Paths
<1>5. f \in [DOMAIN q -> Inodes]
  <2>1. \A i \in 1 .. Len(p) + 1 : i # Len(p) + 1 => i \in DOMAIN p
    BY <1>2
  <2> QED BY <2>1, <1>3, RootFacts
<1>6. f[1] = Root /\ q[1] = Root /\ f[Len(q)] = a /\ q # <<>>
  BY <1>1, <1>2, <1>3, <1>4 DEF Walk
<1>7. f[Len(p) + 1] = a /\ \A i \in 1 .. Len(p) : f[i] = c[i]
  <2>1. Len(p) + 1 \in 1 .. Len(p) + 1 /\ \A i \in 1 .. Len(p) : i \in 1 .. Len(p) + 1 /\ i # Len(p) + 1
    BY <1>2
  <2> QED BY <2>1
<1> HIDE DEF f, q
<1>8. ASSUME NEW i \in 2 .. Len(q) PROVE f[i] \in Dirs /\ par[f[i]] = f[i - 1] /\ lab[f[i]] = q[i]
  <2>1. CASE i = Len(p) + 1
    <3>1. i - 1 = Len(p) /\ Len(p) \in 1 .. Len(p)
      BY <2>1, <1>2
    <3>2. f[i] = a /\ f[i - 1] = c[Len(p)]
      BY <2>1, <3>1, <1>7
    <3>3. c[Len(p)] = par[a] /\ q[i] = n
      BY <2>1, <1>1, <1>3 DEF Walk
    <3> QED BY <3>2, <3>3
  <2>2. CASE i # Len(p) + 1
    <3>1. i \in 2 .. Len(p) /\ i \in 1 .. Len(p) /\ i - 1 \in 1 .. Len(p)
      BY <2>2, <1>2, <1>3
    <3>2. f[i] = c[i] /\ f[i - 1] = c[i - 1] /\ q[i] = p[i]
      BY <3>1, <1>4, <1>7
    <3>3. c[i] \in Dirs /\ par[c[i]] = c[i - 1] /\ lab[c[i]] = p[i]
      BY <3>1, <1>1 DEF Walk
    <3> QED BY <3>2, <3>3
  <2> QED BY <2>1, <2>2
<1>9. Walk(par, lab, q, a, f)
  BY <1>6, <1>8 DEF Walk
<1>10. LeadsIn(par, lab, q, a)
  BY <1>5, <1>9 DEF LeadsIn
<1> QED BY <1>3, <1>10 DEF q

LEMMA LeadsRoot ==
  ASSUME NEW par, NEW lab
  PROVE  <<Root>> \in Paths /\ LeadsIn(par, lab, <<Root>>, Root)
<1> DEFINE p == <<Root>>
<1>1. p \in Paths /\ Len(p) = 1 /\ DOMAIN p = {1} /\ p[1] = Root /\ p # <<>>
  BY DEF Paths
<1>2. [i \in {1} |-> Root] \in [DOMAIN p -> Inodes]
  BY <1>1, RootFacts
<1> HIDE DEF p
<1>3. Walk(par, lab, p, Root, [i \in {1} |-> Root])
  BY <1>1 DEF Walk
<1>4. LeadsIn(par, lab, p, Root)
  BY <1>2, <1>3 DEF LeadsIn
<1> QED BY <1>1, <1>4 DEF p
-----------------------------------------------------------------------------
(* What the tree's changes leave attended. *)

ReachesIn(par, lab, f, d) ==
  \/ f.stage = "open" /\ \E a \in AboveIn(par, d) : LeadsIn(par, lab, f.path, a)
  \/ f.stage = "add" /\ f.dir \in AboveIn(par, d) /\ LeadsIn(par, lab, f.path, f.dir)
  \/ f.stage = "list" /\ f.dir \in AboveIn(par, d) \ {d} /\ LeadsIn(par, lab, f.path, f.dir)
  \/ f.stage = "descend" /\ \E b \in AboveIn(par, d) \cap Dirs :
                              lab[b] \in f.left /\ LeadsIn(par, lab, f.path, par[b])

\* The operators of IOWatcher are these ones, of the tree as it is and as it will be.
LEMMA InFacts ==
  ASSUME NEW d, NEW p, NEW f
  PROVE  /\ Above(d) = AboveIn(parent, d) /\ Above(d)' = AboveIn(parent', d)
         /\ InTree(d) <=> Root \in AboveIn(parent, d)
         /\ InTree(d)' <=> Root \in AboveIn(parent', d)
         /\ Leads(p, d) <=> LeadsIn(parent, label, p, d)
         /\ Leads(p, d)' <=> LeadsIn(parent', label', p, d)
         /\ Reaches(f, d) <=> ReachesIn(parent, label, f, d)
         /\ Reaches(f, d)' <=> ReachesIn(parent', label', f, d)
<1>1. \A x : Above(x) = AboveIn(parent, x) /\ Above(x)' = AboveIn(parent', x)
  BY DEF Above, AboveIn
<1>2. \A q, x : (Leads(q, x) <=> LeadsIn(parent, label, q, x)) /\ (Leads(q, x)' <=> LeadsIn(parent', label', q, x))
  BY DEF Leads, LeadsIn, Walk
<1>3. Reaches(f, d) <=> ReachesIn(parent, label, f, d)
  BY <1>1, <1>2, Zenon DEF Reaches, ReachesIn
<1>4. Reaches(f, d)' <=> ReachesIn(parent', label', f, d)
  BY <1>1, <1>2, Zenon DEF Reaches, ReachesIn
<1> QED BY <1>1, <1>2, <1>3, <1>4 DEF InTree

LEMMA LeadsInode ==
  ASSUME NEW par, NEW lab, NEW p \in Paths, NEW d, LeadsIn(par, lab, p, d)
  PROVE  d \in Inodes
<1>1. PICK c \in [DOMAIN p -> Inodes] : Walk(par, lab, p, d, c)
  BY DEF LeadsIn
<1>2. Len(p) \in DOMAIN p /\ c[Len(p)] = d
  BY <1>1, PathFacts DEF Walk
<1> QED BY <1>2

\* What comes to a directory comes to what is below it.
LEMMA Inherits ==
  ASSUME NEW par \in Parents, NEW lab, NEW f, NEW d \in Inodes, NEW e \in AboveIn(par, d), d \notin AboveIn(par, e),
         ReachesIn(par, lab, f, e)
  PROVE  ReachesIn(par, lab, f, d)
<1>1. AboveIn(par, e) \subseteq AboveIn(par, d)
  BY AboveTransitive
<1> QED BY <1>1 DEF ReachesIn

\* A frame comes to what is not below x whatever x does.
LEMMA ReachesElsewhere ==
  ASSUME NEW par \in Parents, NEW lab, NEW newPar \in Parents, NEW newLab,
         NEW x, \A y \in Dirs \ {x} : newPar[y] = par[y] /\ newLab[y] = lab[y],
         NEW f \in FrameType, NEW d \in Inodes, x \notin AboveIn(par, d), ReachesIn(par, lab, f, d)
  PROVE  ReachesIn(newPar, newLab, f, d)
<1>1. AboveIn(newPar, d) = AboveIn(par, d)
  BY AboveElsewhere
<1>2. f.path \in Paths
  BY DEF FrameType
<1>3. ASSUME NEW a \in AboveIn(par, d), LeadsIn(par, lab, f.path, a)
      PROVE  LeadsIn(newPar, newLab, f.path, a)
  <2>1. a \in Inodes /\ x \notin AboveIn(par, a)
    BY AboveTransitive
  <2> QED BY <2>1, <1>2, <1>3, LeadsElsewhere
<1>4. ASSUME NEW b \in AboveIn(par, d) \cap Dirs, LeadsIn(par, lab, f.path, par[b])
      PROVE  newPar[b] = par[b] /\ newLab[b] = lab[b] /\ LeadsIn(newPar, newLab, f.path, par[b])
  <2>1. par[b] \in Inodes
    BY <1>2, <1>4, LeadsInode
  <2>2. par[b] \in AboveIn(par, d)
    BY <2>1, AboveFacts, RootFacts DEF Closed
  <2>3. b # x
    OBVIOUS
  <2> QED BY <2>2, <2>3, <1>3, <1>4
<1>5. CASE f.stage = "open"
  BY <1>1, <1>3, <1>5 DEF ReachesIn
<1>6. CASE f.stage \in {"add", "list"}
  BY <1>1, <1>3, <1>6 DEF ReachesIn
<1>7. CASE f.stage = "descend"
  <2>1. PICK b \in AboveIn(par, d) \cap Dirs : lab[b] \in f.left /\ LeadsIn(par, lab, f.path, par[b])
    BY <1>7 DEF ReachesIn
  <2>2. newPar[b] = par[b] /\ newLab[b] = lab[b] /\ LeadsIn(newPar, newLab, f.path, par[b])
    BY <2>1, <1>4
  <2> QED BY <2>1, <2>2, <1>1, <1>7 DEF ReachesIn
<1> QED BY <1>5, <1>6, <1>7 DEF FrameType

\* The types of what the watcher remembers.
MemoryOK ==
  /\ parent \in Parents /\ watches \in [Inodes -> Paths]
  /\ setup \in Seq(FrameType)

\* Everything not below x stays attended when x comes, goes or moves.
LEMMA StaysAttended ==
  ASSUME MemoryOK, parent' \in Parents, UNCHANGED <<watches, setup>>,
         NEW x, \A y \in Dirs \ {x} : parent'[y] = parent[y] /\ label'[y] = label[y],
         kernel \ {x} \subseteq kernel', Events \subseteq Events',
         NEW d \in Inodes, x \notin AboveIn(parent, d), Attended(d)
  PROVE  Attended(d)'
<1>1. parent \in Parents /\ watches \in [Inodes -> Paths] /\ setup \in Seq(FrameType)
  BY DEF MemoryOK
<1>2. Above(d) = AboveIn(parent, d) /\ Above(d)' = AboveIn(parent, d)
  BY <1>1, InFacts, AboveElsewhere
<1>3. CASE Watched(d)
  <2>1. d # x
    BY <1>1, AboveFacts
  <2>2. LeadsIn(parent, label, watches[d], d)
    BY <1>3, InFacts DEF Watched
  <2>3. LeadsIn(parent', label', watches[d], d)
    BY <2>2, <1>1, LeadsElsewhere
  <2>4. Leads(watches[d], d)'
    BY <2>3 DEF Leads, LeadsIn, Walk
  <2> QED BY <2>1, <2>4, <1>3 DEF Attended, Watched
<1>4. CASE Announced(d)
  <2>1. PICK a \in Above(d) \cap Dirs, v \in Events : NewDir(v) /\ v.wd = parent[a] /\ v.name = label[a]
    BY <1>4 DEF Announced
  <2>2. a # x /\ a \in Dirs
    BY <1>2
  <2>3. parent'[a] = parent[a] /\ label'[a] = label[a]
    BY <2>2
  <2>4. NewDir(v)' = NewDir(v)
    BY DEF NewDir
  <2>5. a \in Above(d)' \cap Dirs /\ v \in Events' /\ NewDir(v)' /\ v.wd = parent'[a] /\ v.name = label'[a]
    BY <2>1, <2>3, <2>4, <1>2
  <2> QED BY <2>5 DEF Attended, Announced
<1>5. ASSUME NEW f \in Range(setup), Reaches(f, d) PROVE Attended(d)'
  <2>1. f \in FrameType /\ f \in Range(setup)'
    BY <1>1 DEF Range
  <2>2. ReachesIn(parent, label, f, d)
    BY <1>5, InFacts
  <2>3. ReachesIn(parent', label', f, d)
    BY <2>1, <2>2, <1>1, ReachesElsewhere
  <2>4. Reaches(f, d)'
    BY <2>3, InFacts
  <2> QED BY <2>1, <2>4 DEF Attended
<1> QED BY <1>3, <1>4, <1>5 DEF Attended
\* x comes to p, from somewhere else or from nowhere.
Arrives(x, p, n) ==
  /\ x \in Dirs /\ p \in Inodes /\ n \in DirNames
  /\ x \notin AboveIn(parent, p) /\ Exists(p) /\ ~Taken(p, n)
  /\ parent' = [parent EXCEPT ![x] = p] /\ label' = [label EXCEPT ![x] = n]

LEMMA ArrivesFacts ==
  ASSUME IsTree, NEW x, NEW p, NEW n, Arrives(x, p, n)
  PROVE  /\ parent \in Parents /\ parent' \in Parents
         /\ \A y \in Dirs \ {x} : parent'[y] = parent[y] /\ label'[y] = label[y]
         /\ parent'[x] = p /\ label'[x] = n /\ x \in Dirs /\ x # Root
         /\ AboveIn(parent', p) = AboveIn(parent, p)
<1>1. /\ parent \in Parents /\ parent' \in Parents
      /\ \A y \in Dirs \ {x} : parent'[y] = parent[y] /\ label'[y] = label[y]
      /\ parent'[x] = p /\ label'[x] = n /\ x \in Dirs /\ x # Root
  BY RootFacts DEF IsTree, Arrives, Parents
<1>2. AboveIn(parent', p) = AboveIn(parent, p)
  BY <1>1, AboveElsewhere DEF Arrives
<1> QED BY <1>1, <1>2

\* What is above what lies below x afterwards: the old way up to x, and the new one from there.
LEMMA ArrivesTree ==
  ASSUME IsTree, NEW x, NEW p, NEW n, Arrives(x, p, n)
  PROVE  IsTree'
<1>1. /\ parent \in Parents /\ parent' \in Parents
      /\ \A y \in Dirs \ {x} : parent'[y] = parent[y] /\ label'[y] = label[y]
      /\ parent'[x] = p /\ label'[x] = n /\ x \in Dirs
      /\ AboveIn(parent', p) = AboveIn(parent, p)
  BY ArrivesFacts
<1>2. p \in Inodes /\ n \in DirNames /\ x \notin AboveIn(parent, p) /\ p # None /\ n # None
  BY RootFacts, WatcherAssumption DEF Arrives
<1>3. label' \in [Dirs -> DirNames \cup {None}]
  BY DEF IsTree, Arrives
<1>4. ASSUME NEW d \in Dirs, parent'[d] # None
      PROVE  label'[d] # None /\ (parent'[d] \in Dirs => parent'[parent'[d]] # None) /\ d \notin AboveIn(parent', parent'[d])
  <2>1. CASE d = x
    BY <2>1, <1>1, <1>2 DEF Arrives, Exists
  <2>2. CASE d # x
    <3> DEFINE q == parent[d]
    <3>1. parent'[d] = q /\ label'[d] = label[d] /\ q # None /\ q \in Inodes
      BY <2>2, <1>1, <1>4 DEF Parents
    <3>2. label[d] # None /\ Exists(q) /\ d \notin AboveIn(parent, q)
      BY <3>1, InFacts DEF IsTree
    <3> HIDE DEF q
    <3>3. SUFFICES ASSUME d \in AboveIn(parent', q) PROVE FALSE
      BY <3>1, <3>2, <1>1, <1>2 DEF Exists
    <3>4. x \in AboveIn(parent, q)
      BY <3>1, <3>2, <3>3, <1>1, AboveElsewhere
    <3> DEFINE S == AboveIn(parent, q) \cup AboveIn(parent', x)
    <3>5. /\ q \in AboveIn(parent, q) /\ AboveIn(parent, q) \subseteq Inodes /\ Closed(parent, AboveIn(parent, q))
          /\ x \in AboveIn(parent', x) /\ AboveIn(parent', x) \subseteq Inodes /\ Closed(parent', AboveIn(parent', x))
      BY <3>1, <1>1, AboveFacts, RootFacts
    <3>6. Closed(parent', S) /\ q \in S /\ S \in SUBSET Inodes
      BY <3>5, <1>1 DEF Closed
    <3> HIDE DEF S
    <3>7. d \in S
      BY <3>3, <3>6, AboveLeast
    <3>8. d \in AboveIn(parent', x)
      BY <3>2, <3>7 DEF S
    <3>9. d \in AboveIn(parent, p)
      BY <3>8, <2>2, <1>1, AboveUnfold, RootFacts
    <3>10. x \notin AboveIn(parent, d) /\ AboveIn(parent', d) = AboveIn(parent, d)
      <4>1. AboveIn(parent, d) \subseteq AboveIn(parent, p)
        BY <3>9, <1>1, <1>2, AboveTransitive
      <4> QED BY <4>1, <1>1, <1>2, AboveElsewhere, RootFacts
    <3>11. parent[d] \in AboveIn(parent, d)
      BY <3>1, <1>1, AboveFacts, RootFacts DEF Closed, q
    <3>12. AboveIn(parent, q) \subseteq AboveIn(parent, d)
      BY <3>11, <1>1, AboveTransitive, RootFacts DEF q
    <3> QED BY <3>4, <3>10, <3>12
  <2> QED BY <2>1, <2>2
<1>5. ASSUME NEW d \in Dirs, NEW e \in Dirs, parent'[d] = parent'[e], label'[d] = label'[e], parent'[d] # None
      PROVE  d = e
  <2>1. \A y \in Dirs : ~ (parent[y] = p /\ label[y] = n)
    BY DEF Arrives, Taken
  <2>2. CASE d = x \/ e = x
    BY <2>1, <2>2, <1>1, <1>5
  <2>3. CASE d # x /\ e # x
    BY <2>3, <1>1, <1>5 DEF IsTree
  <2> QED BY <2>2, <2>3
<1>6. \A d \in Dirs : (parent[d] # None => label[d] # None /\ Exists(parent[d]) /\ d \notin Above(parent[d]))'
  <2> TAKE d \in Dirs
  <2>1. Above(parent[d])' = AboveIn(parent', parent'[d])
    BY DEF Above, AboveIn
  <2> QED BY <2>1, <1>4 DEF Exists
<1> QED BY <1>1, <1>3, <1>5, <1>6 DEF IsTree, Parents

\* What lies below x afterwards is attended: p's event tells of it, or what comes to p comes to it.
LEMMA ArrivesAttended ==
  ASSUME IsTree, MemoryOK, UNCHANGED <<watches, setup, kernel>>,
         NEW x, NEW p, NEW n, Arrives(x, p, n), Events \subseteq Events',
         p \in kernel => \E v \in Events' : NewDir(v) /\ v.wd = p /\ v.name = n,
         \A d \in Inodes : InTree(d) => Attended(d),
         NEW d \in Inodes, InTree(d)'
  PROVE  Attended(d)'
<1>1. /\ parent \in Parents /\ parent' \in Parents
      /\ \A y \in Dirs \ {x} : parent'[y] = parent[y] /\ label'[y] = label[y]
      /\ parent'[x] = p /\ label'[x] = n /\ x \in Dirs /\ x # Root
      /\ AboveIn(parent', p) = AboveIn(parent, p)
  BY ArrivesFacts
<1>2. p \in Inodes /\ x \notin AboveIn(parent, p)
  BY DEF Arrives
<1>3. Root \in AboveIn(parent', d)
  BY InFacts
<1>4. CASE x \notin AboveIn(parent', d)
  <2>1. AboveIn(parent, d) = AboveIn(parent', d)
    BY <1>1, <1>4, AboveElsewhere
  <2>2. InTree(d)
    BY <2>1, <1>3, InFacts
  <2> QED BY <2>1, <2>2, <1>1, <1>4, StaysAttended
<1>5. CASE x \in AboveIn(parent', d)
  <2>1. Root \in AboveIn(parent', x) /\ x \in Inodes
    BY <1>1, <1>3, <1>5, AboveRooted
  <2>2. Root \in AboveIn(parent', p)
    BY <2>1, <1>1, AboveUnfold
  <2>3. p \in AboveIn(parent', d) /\ AboveIn(parent', p) \subseteq AboveIn(parent', d)
    <3>1. p \in AboveIn(parent', x)
      BY <2>1, <1>1, <1>2, AboveFacts, RootFacts DEF Closed
    <3>2. p \in AboveIn(parent', d)
      BY <3>1, <1>1, <1>5, AboveTransitive
    <3> QED BY <3>2, <1>1, AboveTransitive
  <2>4. d \notin AboveIn(parent', p)
    <3>1. SUFFICES ASSUME d \in AboveIn(parent', p) PROVE FALSE
      OBVIOUS
    <3>2. AboveIn(parent', d) \subseteq AboveIn(parent', p)
      BY <3>1, <1>1, <1>2, AboveTransitive
    <3> QED BY <3>2, <1>1, <1>2, <1>5
  <2>5. CASE p \in kernel
    <3>1. PICK v \in Events' : NewDir(v) /\ v.wd = p /\ v.name = n
      BY <2>5
    <3>2. x \in Above(d)' \cap Dirs
      BY <1>1, <1>5, InFacts
    <3>3. NewDir(v)' /\ v.wd = parent'[x] /\ v.name = label'[x]
      BY <3>1, <1>1 DEF NewDir
    <3> QED BY <3>1, <3>2, <3>3 DEF Attended, Announced
  <2>6. CASE p \notin kernel
    <3>1. Attended(p) /\ ~Watched(p)
      BY <2>2, <2>6, <1>1, <1>2, InFacts DEF Watched
    <3>2. Attended(p)' /\ ~Watched(p)'
      BY <3>1, <2>6, <1>1, <1>2, StaysAttended DEF Watched
    <3>3. CASE Announced(p)'
      <4>1. Above(p)' \subseteq Above(d)'
        BY <2>3, InFacts
      <4> QED BY <3>3, <4>1 DEF Attended, Announced
    <3>4. ASSUME NEW f \in Range(setup)', Reaches(f, p)' PROVE Attended(d)'
      <4>1. ReachesIn(parent', label', f, p)
        BY <3>4, InFacts
      <4>2. ReachesIn(parent', label', f, d)
        BY <4>1, <2>3, <2>4, <1>1, Inherits
      <4>3. Reaches(f, d)'
        BY <4>2, InFacts
      <4> QED BY <3>4, <4>3 DEF Attended
    <3> QED BY <3>2, <3>3, <3>4 DEF Attended
  <2> QED BY <2>5, <2>6
<1> QED BY <1>4, <1>5
-----------------------------------------------------------------------------
(* Sequences and what is in them. *)

LEMMA RangeConcat ==
  ASSUME NEW T, NEW s \in Seq(T), NEW t \in Seq(T)
  PROVE  s \o t \in Seq(T) /\ Range(s \o t) = Range(s) \cup Range(t)
<1>1. /\ s \o t \in Seq(T) /\ Len(s) \in Nat /\ Len(t) \in Nat /\ Len(s \o t) = Len(s) + Len(t)
      /\ DOMAIN s = 1 .. Len(s) /\ DOMAIN t = 1 .. Len(t) /\ DOMAIN (s \o t) = 1 .. Len(s) + Len(t)
  OBVIOUS
<1>2. \A i \in 1 .. Len(s) + Len(t) : (s \o t)[i] = IF i <= Len(s) THEN s[i] ELSE t[i - Len(s)]
  OBVIOUS
<1> DEFINE u == s \o t
<1> HIDE DEF u
<1>3. ASSUME NEW i \in 1 .. Len(s) PROVE s[i] \in Range(u)
  <2>1. i \in 1 .. Len(s) + Len(t) /\ i <= Len(s)
    BY <1>1
  <2> QED BY <2>1, <1>1, <1>2 DEF u, Range
<1>4. ASSUME NEW i \in 1 .. Len(t) PROVE t[i] \in Range(u)
  <2>1. i + Len(s) \in 1 .. Len(s) + Len(t) /\ ~ (i + Len(s) <= Len(s)) /\ (i + Len(s)) - Len(s) = i
    BY <1>1
  <2>2. u[i + Len(s)] = t[i]
    BY <2>1, <1>2 DEF u
  <2> QED BY <2>1, <2>2, <1>1 DEF u, Range
<1>5. ASSUME NEW i \in 1 .. Len(s) + Len(t) PROVE u[i] \in Range(s) \cup Range(t)
  <2>1. CASE i <= Len(s)
    BY <2>1, <1>1, <1>2 DEF u, Range
  <2>2. CASE ~ (i <= Len(s))
    <3>1. i - Len(s) \in 1 .. Len(t)
      BY <2>2, <1>1
    <3> QED BY <3>1, <2>2, <1>1, <1>2 DEF u, Range
  <2> QED BY <2>1, <2>2
<1>6. Range(s) \cup Range(t) \subseteq Range(u)
  BY <1>1, <1>3, <1>4 DEF Range
<1>7. Range(u) \subseteq Range(s) \cup Range(t)
  BY <1>1, <1>5 DEF Range, u
<1> QED BY <1>1, <1>6, <1>7 DEF u

LEMMA RangeOne ==
  ASSUME NEW T, NEW v \in T
  PROVE  <<v>> \in Seq(T) /\ Range(<<v>>) = {v}
  BY DEF Range

LEMMA RangeNone == Range(<<>>) = {} /\ \A T : <<>> \in Seq(T)
  BY DEF Range

LEMMA RangeTail ==
  ASSUME NEW T, NEW s \in Seq(T), s # <<>>
  PROVE  /\ Tail(s) \in Seq(T) /\ Head(s) = s[1] /\ s[1] \in T
         /\ Range(s) = {s[1]} \cup Range(Tail(s))
<1>1. /\ Tail(s) \in Seq(T) /\ Head(s) = s[1] /\ s[1] \in T /\ Len(s) \in Nat /\ Len(s) >= 1
      /\ DOMAIN s = 1 .. Len(s) /\ DOMAIN Tail(s) = 1 .. Len(s) - 1
      /\ \A i \in 1 .. Len(s) - 1 : Tail(s)[i] = s[i + 1]
  OBVIOUS
<1> DEFINE t == Tail(s)
<1> HIDE DEF t
<1>2. ASSUME NEW i \in 1 .. Len(s) PROVE s[i] \in {s[1]} \cup Range(t)
  <2>1. CASE i = 1
    BY <2>1
  <2>2. CASE i # 1
    <3>1. i - 1 \in 1 .. Len(s) - 1 /\ (i - 1) + 1 = i
      BY <2>2, <1>1
    <3> QED BY <3>1, <1>1 DEF Range, t
  <2> QED BY <2>1, <2>2
<1>3. ASSUME NEW i \in 1 .. Len(s) - 1 PROVE t[i] \in Range(s)
  <2>1. i + 1 \in 1 .. Len(s)
    BY <1>1
  <2> QED BY <2>1, <1>1 DEF Range, t
<1>4. Range(s) \subseteq {s[1]} \cup Range(t) /\ s[1] \in Range(s)
  BY <1>1, <1>2 DEF Range
<1>5. Range(t) \subseteq Range(s)
  BY <1>1, <1>3 DEF Range, t
<1> QED BY <1>1, <1>4, <1>5 DEF t

LEMMA RangeType ==
  ASSUME NEW T, NEW s \in Seq(T), NEW v \in Range(s)
  PROVE  v \in T
  BY DEF Range
-----------------------------------------------------------------------------
(* The tree changes. *)

LEMMA EventFacts ==
  ASSUME NEW m \in Masks, NEW w \in Inodes \cup {None}, NEW n \in DirNames \cup {None, "file"}
  PROVE  /\ Event(m, w, n) \in EventType
         /\ Event(m, w, n).mask = m /\ Event(m, w, n).wd = w /\ Event(m, w, n).name = n
  BY DEF Event, EventType

Overflow == Event("Q_OVERFLOW", None, None)

\* The system's queue takes all the events or is said to have lost some.
LEMMA QueueFacts ==
  ASSUME queue \in Seq(EventType), buffer' = buffer, NEW evs \in Seq(EventType), Queue(evs)
  PROVE  /\ queue' \in Seq(EventType)
         /\ Events' \subseteq Events \cup Range(evs) \cup {Overflow}
         /\ lost => lost'
         /\ lost' \/ Events \cup Range(evs) \subseteq Events'
<1>1. Overflow \in EventType
  <2>1. Event("Q_OVERFLOW", None, None) \in EventType
    BY EventFacts, None \in {None}, None \in {None, "file"}, "Q_OVERFLOW" \in Masks DEF Masks
  <2> QED BY <2>1 DEF Overflow
<1>2. CASE queue' = queue \o evs /\ UNCHANGED lost
  BY <1>2, RangeConcat DEF Events
<1>3. CASE queue' = Append(queue, Overflow) /\ lost' = TRUE
  <2>1. queue' = queue \o <<Overflow>>
    BY <1>3
  <2>2. <<Overflow>> \in Seq(EventType) /\ Range(<<Overflow>>) = {Overflow}
    BY <1>1, RangeOne
  <2>3. queue' \in Seq(EventType) /\ Range(queue') = Range(queue) \cup {Overflow}
    <3>1. queue \o <<Overflow>> \in Seq(EventType) /\ Range(queue \o <<Overflow>>) = Range(queue) \cup Range(<<Overflow>>)
      BY <2>2, RangeConcat
    <3> QED BY <3>1, <2>1, <2>2
  <2> QED BY <2>3, <1>3 DEF Events
<1> QED BY <1>2, <1>3 DEF Queue, Overflow

LEMMA ObservedFacts ==
  ASSUME NEW v \in EventType
  PROVE  /\ Observed(v) \in Seq(EventType) /\ Range(Observed(v)) \subseteq {v}
         /\ v.wd \in kernel => v \in Range(Observed(v))
<1>1. CASE v.wd \in kernel
  BY <1>1, RangeOne DEF Observed
<1>2. CASE v.wd \notin kernel
  BY <1>2, RangeNone DEF Observed
<1> QED BY <1>1, <1>2

\* When events are lost nothing is claimed any more.
Claim == lost \/ sticky # "None" \/ \A d \in Inodes : InTree(d) => Attended(d)

TreeParts ==
  /\ IsTree /\ MemoryOK
  /\ queue \in Seq(EventType) /\ buffer \in Seq(EventType)
  /\ \A v \in Events : EventOK(v)
  /\ \A f \in Range(setup) : f.stage \in {"add", "list"} => f.dir \in Inodes
  /\ Claim

LEMMA TreeInvParts == (TreeInv <=> TreeParts) /\ (TreeInv' <=> TreeParts')
<1>1. IsTree => parent \in Parents
  BY DEF IsTree, Parents
<1>2. IsTree' => parent' \in Parents
  BY DEF IsTree, Parents
<1>3. TreeInv <=> TreeParts
  BY <1>1 DEF TreeInv, TreeParts, MemoryOK, Claim
<1>4. TreeInv' <=> TreeParts'
  BY <1>2 DEF TreeInv, TreeParts, MemoryOK, Claim
<1> QED BY <1>3, <1>4

LEMMA ArrivesStep ==
  ASSUME TreeInv, NEW x, NEW p, NEW n, Arrives(x, p, n), parent[x] # None \/ label[x] = None,
         NEW evs \in Seq(EventType), Queue(evs), UNCHANGED <<watches, setup, kernel, buffer, sticky>>,
         \A v \in Range(evs) : EventOK(v)',
         p \in kernel => \E v \in Range(evs) : NewDir(v) /\ v.wd = p /\ v.name = n
  PROVE  TreeInv'
<1>1. /\ IsTree /\ MemoryOK /\ Claim
      /\ queue \in Seq(EventType) /\ buffer \in Seq(EventType)
      /\ \A v \in Events : EventOK(v)
      /\ \A f \in Range(setup) : f.stage \in {"add", "list"} => f.dir \in Inodes
  BY TreeInvParts DEF TreeParts
<1>2. /\ queue' \in Seq(EventType) /\ Events' \subseteq Events \cup Range(evs) \cup {Overflow}
      /\ lost => lost'
      /\ lost' \/ Events \cup Range(evs) \subseteq Events'
  BY <1>1, QueueFacts
<1>3. IsTree' /\ MemoryOK'
  BY <1>1, ArrivesTree, ArrivesFacts DEF MemoryOK
<1>4. ASSUME NEW v \in Events' PROVE EventOK(v)'
  <2>1. CASE v \in Events
    <3>1. EventOK(v) /\ \A y \in Dirs \ {x} : parent'[y] = parent[y] /\ label'[y] = label[y]
      BY <2>1, <1>1, ArrivesFacts
    <3>2. v.mask = "IGNORED" => v.wd # x
      BY <3>1 DEF EventOK
    <3> QED BY <3>1, <3>2 DEF EventOK, NewDir
  <2>2. CASE v = Overflow
    BY <2>2 DEF Overflow, Event, EventOK, NewDir
  <2> QED BY <2>1, <2>2, <1>2
<1>5. Claim'
  <2>1. SUFFICES ASSUME ~lost', sticky = "None", NEW d \in Inodes, InTree(d)' PROVE Attended(d)'
    BY DEF Claim
  <2>2. \A y \in Inodes : InTree(y) => Attended(y)
    BY <2>1, <1>1, <1>2 DEF Claim
  <2>3. Events \subseteq Events' /\ Range(evs) \subseteq Events'
    BY <2>1, <1>2
  <2>4. p \in kernel => \E v \in Events' : NewDir(v) /\ v.wd = p /\ v.name = n
    BY <2>3
  <2> QED BY <2>1, <2>2, <2>3, <2>4, <1>1, ArrivesAttended
<1> QED BY <1>1, <1>2, <1>3, <1>4, <1>5, TreeInvParts DEF TreeParts

\* Steps that move nothing keep the invariant if they keep its claim.
LEMMA TreeStands ==
  ASSUME TreeInv, UNCHANGED <<parent, label>>,
         watches' \in [Inodes -> Paths], setup' \in Seq(FrameType),
         queue' \in Seq(EventType), buffer' \in Seq(EventType),
         \A v \in Events' : v \in Events \/ EventOK(v),
         \A f \in Range(setup') : f.stage \in {"add", "list"} => f.dir \in Inodes,
         Claim'
  PROVE  TreeInv'
<1>1. IsTree /\ parent \in Parents /\ \A v \in Events : EventOK(v)
  BY TreeInvParts DEF TreeParts, MemoryOK
<1>2. IsTree'
  BY <1>1 DEF IsTree, Above, Exists
<1>3. \A v \in Events' : EventOK(v)'
  BY <1>1 DEF EventOK, NewDir
<1>4. MemoryOK'
  BY <1>1 DEF MemoryOK
<1> QED BY <1>2, <1>3, <1>4, TreeInvParts DEF TreeParts

LEMMA MakeDirStep ==
  ASSUME TreeInv, NEW x \in Dirs, NEW p \in Inodes, NEW n \in DirNames, MakeDir(x, p, n)
  PROVE  TreeInv'
<1>1. parent \in Parents /\ queue \in Seq(EventType)
  BY TreeInvParts DEF TreeParts, MemoryOK
<1> DEFINE v == Event("CREATE_DIR", p, n)
<1>2. /\ parent[x] = None /\ label[x] = None /\ Exists(p) /\ ~Taken(p, n)
      /\ parent' = [parent EXCEPT ![x] = p] /\ label' = [label EXCEPT ![x] = n]
      /\ Queue(Observed(v)) /\ UNCHANGED <<kernel, watches, buffer, setup, sticky>>
  BY DEF MakeDir, TreeFrame
<1>3. v \in EventType /\ v.mask = "CREATE_DIR" /\ v.wd = p /\ v.name = n
  BY EventFacts DEF Masks
<1> HIDE DEF v
<1>4. x \notin AboveIn(parent, p)
  <2>1. SUFFICES ASSUME x \in AboveIn(parent, p) PROVE FALSE
    OBVIOUS
  <2>2. x # p
    BY <1>2 DEF Exists
  <2>3. PICK b \in Dirs : parent[b] = x
    BY <2>1, <2>2, <1>1, AboveHolds
  <2>4. x # None /\ Exists(x)
    BY <2>3, RootFacts, TreeInvParts DEF TreeParts, IsTree
  <2> QED BY <2>4, <1>2 DEF Exists
<1>5. Arrives(x, p, n)
  BY <1>2, <1>4 DEF Arrives
<1>6. Observed(v) \in Seq(EventType) /\ Range(Observed(v)) \subseteq {v} /\ (v.wd \in kernel => v \in Range(Observed(v)))
  BY <1>3, ObservedFacts
<1>7. EventOK(v)' /\ NewDir(v)
  BY <1>3 DEF EventOK, NewDir
<1>8. \A w \in Range(Observed(v)) : EventOK(w)'
  BY <1>6, <1>7
<1>9. p \in kernel => \E w \in Range(Observed(v)) : NewDir(w) /\ w.wd = p /\ w.name = n
  BY <1>3, <1>6, <1>7
<1> QED BY <1>2, <1>5, <1>6, <1>8, <1>9, ArrivesStep

LEMMA TwoEvents ==
  ASSUME NEW v \in EventType, NEW w \in EventType
  PROVE  /\ Observed(v) \o Observed(w) \in Seq(EventType)
         /\ Range(Observed(v) \o Observed(w)) \subseteq {v, w}
         /\ v.wd \in kernel => v \in Range(Observed(v) \o Observed(w))
<1>1. Observed(v) \in Seq(EventType) /\ Observed(w) \in Seq(EventType)
  BY ObservedFacts
<1>2. Range(Observed(v) \o Observed(w)) = Range(Observed(v)) \cup Range(Observed(w))
  BY <1>1, RangeConcat
<1>3. Observed(v) \o Observed(w) \in Seq(EventType)
  BY <1>1, RangeConcat
<1> QED BY <1>2, <1>3, ObservedFacts

LEMMA MoveDirStep ==
  ASSUME TreeInv, NEW x \in Dirs, NEW p \in Inodes, NEW n \in DirNames, MoveDir(x, p, n)
  PROVE  TreeInv'
<1> DEFINE v == Event("MOVED_TO_DIR", p, n)
           w == Event("MOVE_SELF", x, None)
<1>2. /\ parent[x] # None /\ Exists(p) /\ ~Taken(p, n) /\ x \notin Above(p)
      /\ parent' = [parent EXCEPT ![x] = p] /\ label' = [label EXCEPT ![x] = n]
      /\ Queue(Observed(v) \o Observed(w)) /\ UNCHANGED <<kernel, watches, buffer, setup, sticky>>
  BY DEF MoveDir, TreeFrame
<1>3. v \in EventType /\ v.mask = "MOVED_TO_DIR" /\ v.wd = p /\ v.name = n
  BY EventFacts DEF Masks
<1>4. w \in EventType /\ w.mask = "MOVE_SELF" /\ w.wd = x
  BY EventFacts, RootFacts DEF Masks
<1> HIDE DEF v, w
<1>5. Arrives(x, p, n)
  BY <1>2, InFacts DEF Arrives
<1> DEFINE evs == Observed(v) \o Observed(w)
<1>6. evs \in Seq(EventType) /\ Range(evs) \subseteq {v, w} /\ (v.wd \in kernel => v \in Range(evs))
  BY <1>3, <1>4, TwoEvents
<1>7. Queue(evs)
  BY <1>2
<1> HIDE DEF evs
<1>8. EventOK(v)' /\ EventOK(w)' /\ NewDir(v)
  BY <1>3, <1>4, RootFacts DEF EventOK, NewDir
<1>9. \A u \in Range(evs) : EventOK(u)'
  BY <1>6, <1>8
<1>10. p \in kernel => \E u \in Range(evs) : NewDir(u) /\ u.wd = p /\ u.name = n
  BY <1>3, <1>6, <1>8
<1> QED BY <1>2, <1>5, <1>6, <1>7, <1>9, <1>10, ArrivesStep

\* A directory that is removed has nothing below it.
LEMMA RemoveTree ==
  ASSUME IsTree, NEW x \in Dirs, \A y \in Dirs : parent[y] # x, parent' = [parent EXCEPT ![x] = None], UNCHANGED label
  PROVE  /\ IsTree' /\ parent' \in Parents
         /\ \A d \in Inodes : InTree(d)' => InTree(d) /\ x \notin AboveIn(parent, d)
<1>1. /\ parent \in Parents /\ parent' \in Parents /\ parent'[x] = None
      /\ \A y \in Dirs \ {x} : parent'[y] = parent[y] /\ label'[y] = label[y]
  BY DEF IsTree, Parents
<1>2. ASSUME NEW d \in Inodes, InTree(d)' PROVE InTree(d) /\ x \notin AboveIn(parent, d)
  <2>1. x \notin AboveIn(parent', d)
    <3>1. SUFFICES ASSUME x \in AboveIn(parent', d) PROVE FALSE
      OBVIOUS
    <3>2. x \in Inodes /\ Root \in AboveIn(parent', x)
      BY <3>1, <1>1, <1>2, InFacts, AboveRooted
    <3> QED BY <3>2, <1>1, AboveUnfold, RootFacts
  <2>2. AboveIn(parent, d) = AboveIn(parent', d)
    BY <2>1, <1>1, AboveElsewhere
  <2> QED BY <2>1, <2>2, <1>2, InFacts
<1>3. ASSUME NEW d \in Dirs, parent'[d] # None
      PROVE  label'[d] # None /\ (parent'[d] \in Dirs => parent'[parent'[d]] # None) /\ d \notin AboveIn(parent', parent'[d])
  <2> DEFINE q == parent[d]
  <2>1. d # x /\ parent'[d] = q /\ q # None /\ q # x /\ q \in Inodes
    BY <1>1, <1>3 DEF Parents
  <2>2. label[d] # None /\ Exists(q) /\ d \notin AboveIn(parent, q)
    BY <2>1, InFacts DEF IsTree
  <2> HIDE DEF q
  <2>3. x \notin AboveIn(parent, q)
    BY <2>1, <1>1, AboveHolds
  <2>4. AboveIn(parent', q) = AboveIn(parent, q)
    <3>1. /\ parent \in Parents /\ parent' \in Parents /\ q \in Inodes
          /\ \A y \in Dirs \ {x} : parent'[y] = parent[y]
      BY <1>1, <2>1
    <3> QED BY <3>1, <2>3, AboveElsewhere
  <2> QED BY <2>1, <2>2, <2>4, <1>1 DEF Exists
<1>4. \A d \in Dirs : (parent[d] # None => label[d] # None /\ Exists(parent[d]) /\ d \notin Above(parent[d]))'
  <2> TAKE d \in Dirs
  <2>1. Above(parent[d])' = AboveIn(parent', parent'[d])
    BY DEF Above, AboveIn
  <2> QED BY <2>1, <1>3 DEF Exists
<1>5. ASSUME NEW d \in Dirs, NEW e \in Dirs, parent'[d] = parent'[e], label'[d] = label'[e], parent'[d] # None
      PROVE  d = e
  <2>1. d # x /\ e # x
    BY <1>1, <1>5
  <2> QED BY <2>1, <1>1, <1>5 DEF IsTree
<1>6. label' \in [Dirs -> DirNames \cup {None}]
  BY DEF IsTree
<1> QED BY <1>1, <1>2, <1>4, <1>5, <1>6 DEF IsTree, Parents

LEMMA RemoveDirStep ==
  ASSUME TreeInv, NEW x \in Dirs, RemoveDir(x)
  PROVE  TreeInv'
<1>1. /\ IsTree /\ MemoryOK /\ Claim /\ parent \in Parents
      /\ queue \in Seq(EventType) /\ buffer \in Seq(EventType)
      /\ \A v \in Events : EventOK(v)
      /\ \A f \in Range(setup) : f.stage \in {"add", "list"} => f.dir \in Inodes
  BY TreeInvParts DEF TreeParts, MemoryOK
<1> DEFINE v == Event("DELETE_SELF", x, None)
           w == Event("IGNORED", x, None)
           evs == Observed(v) \o Observed(w)
<1>2. /\ parent[x] # None /\ \A y \in Dirs : parent[y] # x
      /\ parent' = [parent EXCEPT ![x] = None] /\ UNCHANGED label /\ kernel' = kernel \ {x}
      /\ Queue(evs) /\ UNCHANGED <<watches, buffer, setup, sticky>>
  BY DEF RemoveDir, TreeFrame
<1>3. v \in EventType /\ v.mask = "DELETE_SELF" /\ v.wd = x
  BY EventFacts, RootFacts DEF Masks
<1>4. w \in EventType /\ w.mask = "IGNORED" /\ w.wd = x
  BY EventFacts, RootFacts DEF Masks
<1> HIDE DEF v, w
<1>5. evs \in Seq(EventType) /\ Range(evs) \subseteq {v, w}
  BY <1>3, <1>4, TwoEvents
<1> HIDE DEF evs
<1>6. /\ queue' \in Seq(EventType) /\ Events' \subseteq Events \cup Range(evs) \cup {Overflow}
      /\ lost => lost'
      /\ lost' \/ Events \cup Range(evs) \subseteq Events'
  BY <1>1, <1>2, <1>5, QueueFacts
<1>7. /\ IsTree' /\ parent' \in Parents
      /\ \A d \in Inodes : InTree(d)' => InTree(d) /\ x \notin AboveIn(parent, d)
  BY <1>1, <1>2, RemoveTree
<1>8. parent'[x] = None /\ label[x] # None /\ \A y \in Dirs \ {x} : parent'[y] = parent[y] /\ label'[y] = label[y]
  BY <1>1, <1>2 DEF IsTree
<1>9. ASSUME NEW u \in Events' PROVE EventOK(u)'
  <2>1. CASE u \in Events
    <3>1. EventOK(u)
      BY <2>1, <1>1
    <3> QED BY <3>1, <1>2, <1>8 DEF EventOK, NewDir
  <2>2. CASE u = Overflow
    BY <2>2 DEF Overflow, Event, EventOK, NewDir
  <2>3. CASE u = v \/ u = w
    BY <2>3, <1>2, <1>3, <1>4, <1>8, RootFacts DEF EventOK, NewDir
  <2> QED BY <2>1, <2>2, <2>3, <1>5, <1>6
<1>10. Claim'
  <2>1. SUFFICES ASSUME ~lost', sticky = "None", NEW d \in Inodes, InTree(d)' PROVE Attended(d)'
    BY <1>2 DEF Claim
  <2>2. InTree(d) /\ x \notin AboveIn(parent, d)
    BY <2>1, <1>7
  <2>3. Attended(d) /\ Events \subseteq Events'
    BY <2>1, <2>2, <1>1, <1>6 DEF Claim
  <2>4. kernel \ {x} \subseteq kernel' /\ UNCHANGED <<watches, setup>>
    BY <1>2
  <2> QED BY <2>2, <2>3, <2>4, <1>1, <1>7, <1>8, StaysAttended
<1>11. MemoryOK' /\ Range(setup)' = Range(setup)
  BY <1>1, <1>2, <1>7 DEF MemoryOK
<1> QED BY <1>1, <1>2, <1>6, <1>7, <1>9, <1>10, <1>11, TreeInvParts DEF TreeParts

LEMMA WriteFileStep ==
  ASSUME TreeInv, NEW x \in Inodes, WriteFile(x)
  PROVE  TreeInv'
<1>1. /\ IsTree /\ MemoryOK /\ Claim /\ parent \in Parents /\ watches \in [Inodes -> Paths]
      /\ setup \in Seq(FrameType) /\ queue \in Seq(EventType) /\ buffer \in Seq(EventType)
      /\ \A f \in Range(setup) : f.stage \in {"add", "list"} => f.dir \in Inodes
  BY TreeInvParts DEF TreeParts, MemoryOK
<1> DEFINE v == Event("CLOSE_WRITE", x, "file")
<1>2. Queue(Observed(v)) /\ UNCHANGED <<parent, label, kernel, watches, buffer, setup, sticky>>
  BY DEF WriteFile, TreeFrame
<1>3. v \in EventType /\ v.mask = "CLOSE_WRITE" /\ v.wd = x
  BY EventFacts DEF Masks
<1> HIDE DEF v
<1>4. Observed(v) \in Seq(EventType) /\ Range(Observed(v)) \subseteq {v}
  BY <1>3, ObservedFacts
<1>5. /\ queue' \in Seq(EventType) /\ Events' \subseteq Events \cup Range(Observed(v)) \cup {Overflow}
      /\ lost => lost'
      /\ lost' \/ Events \cup Range(Observed(v)) \subseteq Events'
  BY <1>1, <1>2, <1>4, QueueFacts
<1>6. EventOK(v) /\ EventOK(Overflow)
  BY <1>3 DEF EventOK, NewDir, Overflow, Event
<1>7. Claim'
  <2>1. SUFFICES ASSUME ~lost', sticky = "None", NEW d \in Inodes, InTree(d)' PROVE Attended(d)'
    BY <1>2 DEF Claim
  <2>2. InTree(d) /\ None \notin AboveIn(parent, d)
    BY <2>1, <1>1, <1>2, InFacts, AboveFacts, RootFacts
  <2>3. Attended(d) /\ Events \subseteq Events'
    BY <2>1, <2>2, <1>1, <1>5 DEF Claim
  <2>4. parent' \in Parents /\ \A y \in Dirs \ {None} : parent'[y] = parent[y] /\ label'[y] = label[y]
    BY <1>1, <1>2
  <2> QED BY <2>2, <2>3, <2>4, <1>1, <1>2, StaysAttended
<1> QED BY <1>1, <1>2, <1>4, <1>5, <1>6, <1>7, TreeStands

LEMMA TreeSteps == TreeInv /\ TreeStep => TreeInv'
  BY MakeDirStep, MoveDirStep, RemoveDirStep, WriteFileStep DEF TreeStep
-----------------------------------------------------------------------------
(* setupWatchesReq. *)

\* While the tree stands still.
LEMMA Standing ==
  ASSUME UNCHANGED <<parent, label>>, NEW d
  PROVE  /\ Above(d)' = Above(d) /\ (InTree(d)' <=> InTree(d))
         /\ \A p : Leads(p, d)' <=> Leads(p, d)
         /\ \A f : Reaches(f, d)' <=> Reaches(f, d)
<1>1. Above(d)' = Above(d) /\ (InTree(d)' <=> InTree(d))
  BY InFacts
<1>2. ASSUME NEW p PROVE Leads(p, d)' <=> Leads(p, d)
  BY InFacts
<1>3. ASSUME NEW f PROVE Reaches(f, d)' <=> Reaches(f, d)
  BY InFacts
<1> QED BY <1>1, <1>2, <1>3

\* The innermost frame is replaced by some others.
LEMMA FrameStep ==
  ASSUME TreeInv, setup # <<>>, SetupFrame, NEW new \in Seq(FrameType), setup' = new \o Tail(setup),
         \A f \in Range(new) : f.stage \in {"add", "list"} => f.dir \in Inodes,
         watches' \in [Inodes -> Paths], sticky # "None" => sticky' # "None",
         sticky' = "None" =>
           \A d \in Inodes : InTree(d) => /\ Watched(d) => Watched(d)'
                                          /\ Reaches(Top, d) => Watched(d)' \/ \E f \in Range(new) : Reaches(f, d)
  PROVE  TreeInv'
<1>1. /\ Claim /\ setup \in Seq(FrameType) /\ queue \in Seq(EventType) /\ buffer \in Seq(EventType)
      /\ \A f \in Range(setup) : f.stage \in {"add", "list"} => f.dir \in Inodes
  BY TreeInvParts DEF TreeParts, MemoryOK
<1>2. UNCHANGED <<parent, label, queue, lost, buffer>>
  BY DEF SetupFrame, treeVars
<1>3. Tail(setup) \in Seq(FrameType) /\ Range(setup) = {Top} \cup Range(Tail(setup))
  BY <1>1, RangeTail DEF Top
<1>4. setup' \in Seq(FrameType) /\ Range(setup') = Range(new) \cup Range(Tail(setup))
  BY <1>3, RangeConcat
<1>5. ASSUME sticky' = "None", ~lost, NEW d \in Inodes, InTree(d) PROVE Attended(d)'
  <2>1. Attended(d)
    BY <1>1, <1>5 DEF Claim
  <2>2. Above(d)' = Above(d) /\ \A f : Reaches(f, d)' <=> Reaches(f, d)
    BY <1>2, Standing
  <2>3. CASE Watched(d)
    BY <2>3, <1>5 DEF Attended
  <2>4. CASE Announced(d)
    BY <2>2, <2>4, <1>2 DEF Attended, Announced, Events, NewDir
  <2>5. CASE Reaches(Top, d)
    BY <2>2, <2>5, <1>4, <1>5 DEF Attended
  <2>6. ASSUME NEW f \in Range(Tail(setup)), Reaches(f, d) PROVE Attended(d)'
    BY <2>2, <2>6, <1>4 DEF Attended
  <2> QED BY <2>1, <2>3, <2>4, <2>5, <2>6, <1>3 DEF Attended
<1>6. Claim'
  BY <1>2, <1>5, Standing DEF Claim
<1>7. Events' = Events
  BY <1>2 DEF Events
<1> QED BY <1>1, <1>2, <1>3, <1>4, <1>6, <1>7, TreeStands

LEMMA TopFacts ==
  ASSUME TreeInv, setup # <<>>
  PROVE  /\ Top \in FrameType /\ Top.path \in Paths /\ Tail(setup) \in Seq(FrameType)
         /\ Top.stage \in {"add", "list"} => Top.dir \in Inodes
         /\ parent \in Parents /\ UniqueNames(parent, label)
<1>1. setup \in Seq(FrameType) /\ parent \in Parents /\ UniqueNames(parent, label)
      /\ \A f \in Range(setup) : f.stage \in {"add", "list"} => f.dir \in Inodes
  BY TreeInvParts DEF TreeParts, MemoryOK, IsTree, UniqueNames
<1>2. Top \in FrameType /\ Top \in Range(setup) /\ Tail(setup) \in Seq(FrameType)
  BY <1>1, RangeTail DEF Top
<1> QED BY <1>1, <1>2 DEF FrameType

\* The innermost frame ends; it comes to nothing any more.
LEMMA FramePops ==
  ASSUME TreeInv, setup # <<>>, SetupFrame, setup' = Tail(setup), UNCHANGED <<kernel, watches>>,
         sticky # "None" => sticky' # "None",
         sticky' = "None" => \A d \in Inodes : ~Reaches(Top, d)
  PROVE  TreeInv'
<1>1. <<>> \in Seq(FrameType) /\ Range(<<>>) = {} /\ Tail(setup) = <<>> \o Tail(setup)
  BY TopFacts, RangeNone
<1>2. UNCHANGED <<parent, label>> /\ watches \in [Inodes -> Paths]
  BY TreeInvParts DEF SetupFrame, treeVars, TreeParts, MemoryOK
<1>3. \A d \in Inodes : Watched(d) => Watched(d)'
  <2> TAKE d \in Inodes
  <2>1. Leads(watches[d], d)' <=> Leads(watches[d], d)
    BY <1>2, Standing DEF Leads
  <2> QED BY <2>1 DEF Watched
<1> DEFINE new == <<>>
<1>4. new \in Seq(FrameType) /\ Range(new) = {} /\ setup' = new \o Tail(setup)
  BY <1>1
<1> HIDE DEF new
<1> QED BY <1>2, <1>3, <1>4, FrameStep

\* The innermost frame becomes g.
LEMMA FrameGoesOn ==
  ASSUME TreeInv, setup # <<>>, SetupFrame, NEW g \in FrameType, setup' = WithTop(g), UNCHANGED <<kernel, watches, sticky>>,
         g.stage \in {"add", "list"} => g.dir \in Inodes,
         \A d \in Inodes : Reaches(Top, d) => Reaches(g, d)
  PROVE  TreeInv'
<1>1. <<g>> \in Seq(FrameType) /\ Range(<<g>>) = {g} /\ setup' = <<g>> \o Tail(setup)
  BY RangeOne DEF WithTop
<1>2. UNCHANGED <<parent, label>> /\ watches \in [Inodes -> Paths]
  BY TreeInvParts DEF SetupFrame, treeVars, TreeParts, MemoryOK
<1>3. \A d \in Inodes : Watched(d) => Watched(d)'
  <2> TAKE d \in Inodes
  <2>1. Leads(watches[d], d)' <=> Leads(watches[d], d)
    BY <1>2, Standing DEF Leads
  <2> QED BY <2>1 DEF Watched
<1> DEFINE new == <<g>>
<1>4. new \in Seq(FrameType) /\ Range(new) = {g} /\ setup' = new \o Tail(setup)
  BY <1>1
<1> HIDE DEF new
<1> QED BY <1>2, <1>3, <1>4, FrameStep

LEMMA ResolveFacts ==
  ASSUME TreeInv, NEW p \in Paths
  PROVE  /\ Resolve(p) \subseteq Inodes
         /\ \A d : d \in Resolve(p) <=> Leads(p, d)
         /\ \A d, e : Leads(p, d) /\ Leads(p, e) => d = e
<1>1. parent \in Parents /\ UniqueNames(parent, label)
  BY TreeInvParts DEF TreeParts, MemoryOK, IsTree, UniqueNames
<1>2. \A d : Leads(p, d) <=> LeadsIn(parent, label, p, d)
  BY InFacts
<1>3. \A d : Leads(p, d) => d \in Inodes
  BY <1>2, LeadsInode
<1>4. \A d, e : Leads(p, d) /\ Leads(p, e) => d = e
  BY <1>1, <1>2, <1>3, LeadsUnique
<1> QED BY <1>3, <1>4 DEF Resolve

LEMMA OpenDirectoryStep ==
  ASSUME TreeInv, OpenDirectory
  PROVE  TreeInv'
<1>1. setup # <<>> /\ Top.stage = "open" /\ UNCHANGED <<kernel, watches>> /\ SetupFrame
  BY DEF OpenDirectory
<1>2. Top \in FrameType /\ Top.path \in Paths /\ parent \in Parents
  BY <1>1, TopFacts
<1>3. ASSUME NEW e \in Resolve(Top.path), setup' = WithTop([Top EXCEPT !.stage = "add", !.dir = e]), UNCHANGED sticky
      PROVE  TreeInv'
  <2> DEFINE g == [Top EXCEPT !.stage = "add", !.dir = e]
  <2>1. e \in Inodes /\ \A a : Leads(Top.path, a) => a = e
    BY <1>2, ResolveFacts
  <2>2. g \in FrameType /\ g.stage = "add" /\ g.dir = e /\ g.path = Top.path
    BY <1>2, <2>1 DEF FrameType
  <2>3. setup' = WithTop(g)
    BY <1>3
  <2> HIDE DEF g
  <2>4. ASSUME NEW d \in Inodes, Reaches(Top, d) PROVE Reaches(g, d)
    <3>1. PICK a \in Above(d) : Leads(Top.path, a)
      BY <2>4, <1>1 DEF Reaches
    <3> QED BY <3>1, <2>1, <2>2 DEF Reaches
  <2> QED BY <1>1, <1>3, <2>1, <2>2, <2>3, <2>4, FrameGoesOn
<1>4. ASSUME Resolve(Top.path) = {}, setup' = Tail(setup), sticky' = IF Top.missing THEN sticky ELSE "FileNotFound"
      PROVE  TreeInv'
  <2>1. \A d \in Inodes : ~Reaches(Top, d)
    BY <1>1, <1>2, <1>4, ResolveFacts DEF Reaches
  <2>2. sticky # "None" => sticky' # "None"
    BY <1>4
  <2> QED BY <1>1, <1>4, <2>1, <2>2, FramePops
<1> QED BY <1>3, <1>4 DEF OpenDirectory

LEMMA AddWatchStep ==
  ASSUME TreeInv, AddWatch
  PROVE  TreeInv'
<1>1. setup # <<>> /\ Top.stage = "add" /\ SetupFrame
  BY DEF AddWatch
<1>2. Top \in FrameType /\ Top.path \in Paths /\ Top.dir \in Inodes /\ parent \in Parents
  BY <1>1, TopFacts
<1>3. UNCHANGED <<parent, label>> /\ watches \in [Inodes -> Paths]
  BY <1>1, TreeInvParts DEF SetupFrame, treeVars, TreeParts, MemoryOK
<1>4. ASSUME NEW e \in Resolve(Top.path), kernel' = kernel \cup {e}, watches' = WatchPath(e, Top.path),
             setup' = WithTop([Top EXCEPT !.stage = "list"]), UNCHANGED sticky
      PROVE  TreeInv'
  <2> DEFINE g == [Top EXCEPT !.stage = "list"]
             new == <<g>>
  <2>1. e \in Inodes /\ Leads(Top.path, e) /\ \A a : Leads(Top.path, a) => a = e
    BY <1>2, ResolveFacts
  <2>2. g \in FrameType /\ g.stage = "list" /\ g.dir = Top.dir /\ g.path = Top.path
    BY <1>2 DEF FrameType
  <2>3. new \in Seq(FrameType) /\ Range(new) = {g} /\ setup' = new \o Tail(setup)
    BY <1>4, <2>2, RangeOne DEF WithTop
  <2> HIDE DEF g, new
  <2>4. watches' \in [Inodes -> Paths] /\ watches'[e] = Top.path /\ \A d \in Inodes \ {e} : watches'[d] = watches[d]
    BY <1>2, <1>3, <1>4, <2>1 DEF WatchPath
  <2>5. \A d, p : Leads(p, d)' <=> Leads(p, d)
    BY <1>3, Standing
  <2>6. Watched(e)'
    <3>1. LeadsIn(parent', label', Top.path, e)
      BY <2>1, <1>3, InFacts
    <3>2. Leads(watches[e], e)'
      BY <3>1, <2>4 DEF Leads, LeadsIn, Walk
    <3> QED BY <3>2, <1>4 DEF Watched
  <2>7. ASSUME NEW d \in Inodes, Watched(d), d # e PROVE Watched(d)'
    <3>1. watches'[d] = watches[d] /\ LeadsIn(parent', label', watches[d], d)
      BY <2>4, <2>7, <1>3, InFacts DEF Watched
    <3>2. Leads(watches[d], d)'
      BY <3>1 DEF Leads, LeadsIn, Walk
    <3> QED BY <3>2, <2>7, <1>4 DEF Watched
  <2>8. ASSUME NEW d \in Inodes, Reaches(Top, d), d # e PROVE Reaches(g, d)
    <3>1. Top.dir \in Above(d) /\ Leads(Top.path, Top.dir)
      BY <2>8, <1>1 DEF Reaches
    <3> QED BY <3>1, <2>1, <2>2, <2>8 DEF Reaches
  <2>9. \A d \in Inodes : /\ Watched(d) => Watched(d)'
                          /\ Reaches(Top, d) => Watched(d)' \/ \E f \in Range(new) : Reaches(f, d)
    BY <2>3, <2>6, <2>7, <2>8
  <2>10. \A f \in Range(new) : f.stage \in {"add", "list"} => f.dir \in Inodes
    BY <2>2, <2>3, <1>2
  <2> QED BY <1>1, <1>4, <2>3, <2>4, <2>9, <2>10, FrameStep
<1>5. ASSUME setup' = Tail(setup), sticky' = "FileNotFound", UNCHANGED <<kernel, watches>>
      PROVE  TreeInv'
  BY <1>1, <1>5, FramePops
<1> QED BY <1>4, <1>5 DEF AddWatch

LEMMA ListDirectoryStep ==
  ASSUME TreeInv, ListDirectory
  PROVE  TreeInv'
<1> DEFINE names == {label[d] : d \in {x \in Dirs : parent[x] = Top.dir}}
           g == [Top EXCEPT !.stage = "descend", !.left = names]
<1>1. setup # <<>> /\ Top.stage = "list" /\ UNCHANGED <<kernel, watches, sticky>> /\ SetupFrame /\ setup' = WithTop(g)
  BY DEF ListDirectory
<1>2. Top \in FrameType /\ Top.path \in Paths /\ Top.dir \in Inodes /\ parent \in Parents
  BY <1>1, TopFacts
<1>3. names \subseteq DirNames
  <2>1. \A d \in Dirs : parent[d] # None => label[d] \in DirNames
    BY TreeInvParts DEF TreeParts, IsTree
  <2> QED BY <2>1, <1>2, RootFacts
<1>4. g \in FrameType /\ g.stage = "descend" /\ g.left = names /\ g.path = Top.path
  BY <1>2, <1>3 DEF FrameType
<1> HIDE DEF g
<1>5. ASSUME NEW d \in Inodes, Reaches(Top, d) PROVE Reaches(g, d)
  <2>1. Top.dir \in Above(d) \ {d} /\ Leads(Top.path, Top.dir)
    BY <1>1, <1>5 DEF Reaches
  <2>2. PICK b \in AboveIn(parent, d) \cap Dirs : parent[b] = Top.dir
    BY <2>1, <1>2, InFacts, AboveHolds
  <2>3. b \in Above(d) \cap Dirs /\ label[b] \in names
    BY <2>2, InFacts
  <2> QED BY <2>1, <2>2, <2>3, <1>4 DEF Reaches
<1> QED BY <1>1, <1>4, <1>5, FrameGoesOn

\* The new frame opens what the name taken from the list leads to.
LEMMA DescendStep ==
  ASSUME TreeInv, Descend
  PROVE  TreeInv'
<1>1. setup # <<>> /\ Top.stage = "descend" /\ UNCHANGED <<kernel, watches, sticky>> /\ SetupFrame
  BY DEF Descend
<1>2. Top \in FrameType /\ Top.path \in Paths /\ Top.left \in SUBSET DirNames /\ parent \in Parents
  BY <1>1, TopFacts DEF FrameType
<1>3. ASSUME NEW n \in Top.left,
             setup' = <<NewFrame(Append(Top.path, n))>> \o WithTop([Top EXCEPT !.left = @ \ {n}])
      PROVE  TreeInv'
  <2> DEFINE g == [Top EXCEPT !.left = @ \ {n}]
             h == NewFrame(Append(Top.path, n))
             first == <<h>>
             second == <<g>>
             new == first \o second
  <2>1. g \in FrameType /\ g.stage = "descend" /\ g.left = Top.left \ {n} /\ g.path = Top.path
    BY <1>1, <1>2 DEF FrameType
  <2>2. Append(Top.path, n) \in Paths
    BY <1>2 DEF Paths
  <2>3. h \in FrameType /\ h.stage = "open" /\ h.path = Append(Top.path, n)
    BY <2>2 DEF NewFrame, FrameType
  <2>4. setup' = <<h>> \o (<<g>> \o Tail(setup)) /\ Tail(setup) \in Seq(FrameType)
    BY <1>1, <1>3, TopFacts DEF WithTop
  <2> HIDE DEF g, h
  <2>5. first \in Seq(FrameType) /\ second \in Seq(FrameType) /\ Range(first) = {h} /\ Range(second) = {g}
    BY <2>1, <2>3, RangeOne
  <2>6. setup' = new \o Tail(setup)
    BY <2>4, <2>5
  <2> HIDE DEF first, second
  <2>7. new \in Seq(FrameType) /\ Range(new) = {h, g}
    BY <2>5, RangeConcat
  <2> HIDE DEF new
  <2>8. ASSUME NEW d \in Inodes, Reaches(Top, d) PROVE \E f \in Range(new) : Reaches(f, d)
    <3>1. PICK b \in Above(d) \cap Dirs : label[b] \in Top.left /\ Leads(Top.path, parent[b])
      BY <2>8, <1>1 DEF Reaches
    <3>2. CASE label[b] = n
      <4>1. LeadsIn(parent, label, Top.path, parent[b])
        BY <3>1, InFacts
      <4>2. LeadsIn(parent, label, Append(Top.path, n), b)
        BY <4>1, <3>1, <3>2, <1>2, LeadsFurther
      <4>3. Leads(h.path, b)
        BY <4>2, <2>3, InFacts
      <4>4. Reaches(h, d)
        BY <4>3, <3>1, <2>3 DEF Reaches
      <4> QED BY <4>4, <2>7
    <3>3. CASE label[b] # n
      <4>1. Reaches(g, d)
        BY <3>1, <3>3, <2>1 DEF Reaches
      <4> QED BY <4>1, <2>7
    <3> QED BY <3>2, <3>3
  <2>9. watches \in [Inodes -> Paths] /\ \A d \in Inodes : Watched(d) => Watched(d)'
    <3>1. UNCHANGED <<parent, label>> /\ watches \in [Inodes -> Paths]
      BY <1>1, TreeInvParts DEF SetupFrame, treeVars, TreeParts, MemoryOK
    <3>2. ASSUME NEW d \in Inodes PROVE Watched(d) => Watched(d)'
      BY <3>1, <1>1 DEF Watched, Leads
    <3> QED BY <3>1, <3>2
  <2>10. \A f \in Range(new) : f.stage \in {"add", "list"} => f.dir \in Inodes
    BY <2>1, <2>3, <2>7, <1>1
  <2> QED BY <1>1, <2>7, <2>6, <2>8, <2>9, <2>10, FrameStep
<1>4. ASSUME Top.left = {}, setup' = Tail(setup)
      PROVE  TreeInv'
  <2>1. \A d \in Inodes : ~Reaches(Top, d)
    BY <1>1, <1>4 DEF Reaches
  <2> QED BY <1>1, <1>4, <2>1, FramePops
<1> QED BY <1>3, <1>4 DEF Descend

LEMMA SetupSteps == TreeInv /\ SetupStep => TreeInv'
  BY OpenDirectoryStep, AddWatchStep, ListDirectoryStep, DescendStep DEF SetupStep
-----------------------------------------------------------------------------
(* Events are handled. *)

\* Whom an event told of is attended still: the directory it arrived in is watched under its path, so
\* a frame opens it, or another event is still to tell of what holds that directory.
LEMMA ToldAttended ==
  ASSUME IsTree, MemoryOK, setup = <<>>, UNCHANGED <<parent, label>>, NEW v, Events \subseteq Events' \cup {v},
         \A d \in Inodes : InTree(d) => Attended(d),
         EventOK(v), NewDir(v) /\ v.mask # "Q_OVERFLOW" /\ watches[v.wd] # <<>> =>
                       setup' = <<NewFrame(Append(watches[v.wd], v.name))>>,
         NEW d \in Inodes, InTree(d), Announced(d)
  PROVE  Attended(d)'
<1>1. parent \in Parents /\ watches \in [Inodes -> Paths]
  BY DEF MemoryOK
<1>2. Above(d)' = Above(d) /\ \A f : Reaches(f, d)' <=> Reaches(f, d)
  BY Standing
<1>3. PICK a \in Above(d) \cap Dirs, u \in Events : NewDir(u) /\ u.wd = parent[a] /\ u.name = label[a]
  BY DEF Announced
<1>4. ASSUME NEW b \in Above(d) \cap Dirs, NEW w \in Events',
             NewDir(w), w.wd = parent[b], w.name = label[b]
      PROVE  Attended(d)'
  <2>1. b \in Above(d)' \cap Dirs /\ NewDir(w)' /\ w.wd = parent'[b] /\ w.name = label'[b]
    BY <1>2, <1>4 DEF NewDir
  <2> QED BY <2>1 DEF Attended, Announced
<1>5. CASE u # v
  BY <1>3, <1>4, <1>5
<1>6. CASE u = v
  <2> DEFINE p == parent[a]
  <2>1. p \in Inodes /\ v.name \in DirNames /\ v.wd = p /\ label[a] = v.name /\ NewDir(v)
    BY <1>3, <1>6 DEF EventOK
  <2>2. a \in Inodes /\ Root \in AboveIn(parent, a) /\ AboveIn(parent, a) \subseteq AboveIn(parent, d)
    BY <1>1, <1>3, InFacts, AboveRooted, AboveTransitive
  <2>3. p \in AboveIn(parent, a) /\ Root \in AboveIn(parent, p)
    <3>1. p \in AboveIn(parent, a)
      BY <2>1, <2>2, <1>1, <1>3, AboveFacts, RootFacts DEF Closed
    <3> QED BY <3>1, <2>2, <1>1, AboveRooted
  <2>4. AboveIn(parent, p) \subseteq AboveIn(parent, d) /\ a \notin AboveIn(parent, p) /\ p # None
    BY <2>1, <2>2, <2>3, <1>1, <1>3, InFacts, AboveTransitive, RootFacts DEF IsTree
  <2> HIDE DEF p
  <2>5. Attended(p)
    BY <2>1, <2>3, InFacts
  <2>6. CASE Watched(p)
    <3>1. LeadsIn(parent, label, watches[p], p) /\ watches[p] \in Paths
      BY <2>1, <2>6, <1>1, InFacts DEF Watched
    <3>2. watches[p] # <<>>
      BY <3>1 DEF LeadsIn, Walk
    <3>3. v.mask # "Q_OVERFLOW"
      BY <2>1 DEF NewDir
    <3> DEFINE f == NewFrame(Append(watches[p], v.name))
    <3>4. setup' = <<f>> /\ f.stage = "open" /\ f.path = Append(watches[p], v.name)
      BY <2>1, <3>2, <3>3 DEF NewFrame
    <3> HIDE DEF f
    <3>5. LeadsIn(parent, label, watches[p], parent[a])
      BY <3>1 DEF p
    <3>6. LeadsIn(parent, label, f.path, a)
      BY <3>1, <3>4, <3>5, <2>1, <1>1, <1>3, LeadsFurther
    <3>7. Reaches(f, d)
      BY <3>4, <3>6, <1>3, InFacts DEF Reaches
    <3>8. f \in Range(setup')
      BY <3>4, RangeOne
    <3> QED BY <3>7, <3>8, <1>2 DEF Attended
  <2>7. CASE Announced(p)
    <3>1. PICK b \in Above(p) \cap Dirs, w \in Events : NewDir(w) /\ w.wd = parent[b] /\ w.name = label[b]
      BY <2>7 DEF Announced
    <3>2. b # a /\ b \in Above(d)
      BY <3>1, <2>4, InFacts
    <3>3. w # v
      BY <3>1, <3>2, <2>1, <2>4, <1>3 DEF IsTree, p
    <3> QED BY <3>1, <3>2, <3>3, <1>4
  <2>8. ~ \E f \in Range(setup) : Reaches(f, p)
    BY RangeNone
  <2> QED BY <2>5, <2>6, <2>7, <2>8 DEF Attended
<1> QED BY <1>5, <1>6

LEMMA HandleEventStep ==
  ASSUME TreeInv, NEW e \in WatchExecutors, HandleEvent(e)
  PROVE  TreeInv'
<1> DEFINE v == Head(buffer)
           known == v.mask # "Q_OVERFLOW" /\ watches[v.wd] # <<>>
           f == NewFrame(Append(watches[v.wd], v.name))
<1>1. /\ IsTree /\ MemoryOK /\ Claim /\ watches \in [Inodes -> Paths] /\ parent \in Parents
      /\ queue \in Seq(EventType) /\ buffer \in Seq(EventType)
      /\ \A u \in Events : EventOK(u)
  BY TreeInvParts DEF TreeParts, MemoryOK
<1>2. /\ buffer # <<>> /\ setup = <<>> /\ buffer' = Tail(buffer)
      /\ setup' = IF known /\ NewDir(v) THEN <<f>> ELSE setup
      /\ watches' = IF known /\ v.mask = "IGNORED" THEN [watches EXCEPT ![v.wd] = <<>>] ELSE watches
      /\ UNCHANGED <<parent, label, kernel, queue, lost>>
  BY DEF HandleEvent, treeVars
<1>3. UNCHANGED sticky \/ sticky' = "IOWatcherUnknownError"
  BY DEF HandleEvent
<1>4. /\ v \in EventType /\ buffer' \in Seq(EventType) /\ Range(buffer) = {v} \cup Range(buffer')
      /\ Events = {v} \cup Events' /\ EventOK(v)
  <2>1. buffer' \in Seq(EventType) /\ Range(buffer) = {v} \cup Range(buffer') /\ v \in EventType
    BY <1>1, <1>2, RangeTail
  <2> HIDE DEF v
  <2> QED BY <2>1, <1>1, <1>2 DEF Events
<1> HIDE DEF v
<1>5. setup' = <<>> \/ (known /\ NewDir(v) /\ setup' = <<f>>)
  BY <1>2
<1>6. known /\ NewDir(v) => f \in FrameType /\ f.stage = "open"
  <2>1. SUFFICES ASSUME NewDir(v) PROVE f \in FrameType /\ f.stage = "open"
    OBVIOUS
  <2>2. v.wd \in Inodes /\ v.name \in DirNames
    BY <2>1, <1>4 DEF EventOK
  <2>3. watches[v.wd] \in Paths
    BY <2>2, <1>1
  <2>4. Append(watches[v.wd], v.name) \in Paths
    BY <2>2, <2>3 DEF Paths
  <2> QED BY <2>4 DEF NewFrame, FrameType
<1> HIDE DEF f
<1>7. setup' \in Seq(FrameType) /\ \A g \in Range(setup') : g.stage = "open"
  BY <1>5, <1>6, RangeOne, RangeNone
<1>8. watches' \in [Inodes -> Paths]
  <2>1. <<>> \in Paths
    BY RangeNone DEF Paths
  <2>2. watches' = watches \/ watches' = [watches EXCEPT ![v.wd] = <<>>]
    BY <1>2
  <2> QED BY <2>1, <2>2, <1>1
<1>9. ASSUME sticky' = "None", ~lost, NEW d \in Inodes, InTree(d) PROVE Attended(d)'
  <2>1. \A y \in Inodes : InTree(y) => Attended(y)
    BY <1>1, <1>3, <1>9 DEF Claim
  <2>2. CASE Watched(d)
    <3>1. v.mask = "IGNORED" => v.wd # d
      <4>1. SUFFICES ASSUME v.mask = "IGNORED", v.wd = d PROVE FALSE
        OBVIOUS
      <4>2. d \in Dirs /\ parent[d] = None
        BY <4>1, <1>4 DEF EventOK
      <4> QED BY <4>2, <1>1, <1>9, InFacts, AboveUnfold, RootFacts
    <3>2. watches'[d] = watches[d]
      BY <3>1, <1>1, <1>2
    <3>3. LeadsIn(parent', label', watches[d], d)
      BY <2>2, <1>2, InFacts DEF Watched
    <3>4. Leads(watches[d], d)'
      BY <3>2, <3>3 DEF Leads, LeadsIn, Walk
    <3> QED BY <3>4, <2>2, <1>2 DEF Watched, Attended
  <2>3. CASE Announced(d)
    <3>1. NewDir(v) /\ v.mask # "Q_OVERFLOW" /\ watches[v.wd] # <<>> => setup' = <<f>>
      BY <1>2
    <3>2. Events \subseteq Events' \cup {v}
      BY <1>4
    <3> QED BY <3>1, <3>2, <2>1, <2>3, <1>1, <1>2, <1>4, <1>9, ToldAttended DEF f
  <2>4. ~ \E g \in Range(setup) : Reaches(g, d)
    BY <1>2, RangeNone
  <2> QED BY <2>1, <2>2, <2>3, <2>4, <1>9 DEF Attended
<1>10. Claim'
  BY <1>2, <1>9, Standing DEF Claim
<1> QED BY <1>1, <1>2, <1>4, <1>7, <1>8, <1>10, TreeStands

\* Steps that leave the tree, its watches and their setup as they are, and the events on their way.
LEMMA GetQuiet ==
  ASSUME TreeInv, UNCHANGED <<parent, label, kernel, lost, setup, watches>>, sticky # "None" => sticky' # "None",
         queue' \in Seq(EventType), buffer' \in Seq(EventType), Events' = Events
  PROVE  TreeInv'
<1>1. /\ Claim /\ watches \in [Inodes -> Paths] /\ setup \in Seq(FrameType)
      /\ \A f \in Range(setup) : f.stage \in {"add", "list"} => f.dir \in Inodes
  BY TreeInvParts DEF TreeParts, MemoryOK
<1>2. ASSUME NEW d \in Inodes, Attended(d) PROVE Attended(d)'
  <2>1. Above(d)' = Above(d) /\ \A f : Reaches(f, d)' <=> Reaches(f, d)
    BY Standing
  <2>2. Watched(d) => Watched(d)'
    BY DEF Watched, Leads
  <2> QED BY <1>2, <2>1, <2>2 DEF Attended, Announced, NewDir
<1>3. Claim'
  BY <1>1, <1>2, Standing DEF Claim
<1> QED BY <1>1, <1>3, TreeStands

LEMMA GetSteps ==
  ASSUME TreeInv, NEW e \in WatchExecutors,
         GetBegins(e) \/ GetLocks(e) \/ ReadEvents(e) \/ LoopEnds(e) \/ GetUnlocks(e) \/ GetEnds(e)
  PROVE  TreeInv'
<1>1. queue \in Seq(EventType) /\ buffer \in Seq(EventType)
  BY TreeInvParts DEF TreeParts
<1>2. UNCHANGED <<parent, label, kernel, lost, setup, watches>>
  BY DEF GetBegins, GetLocks, ReadEvents, LoopEnds, GetUnlocks, GetEnds, GetFrame, treeVars
<1>3. CASE GetBegins(e) \/ GetLocks(e) \/ LoopEnds(e) \/ GetUnlocks(e) \/ GetEnds(e)
  <2>1. UNCHANGED <<queue, buffer, sticky>>
    BY <1>3 DEF GetBegins, GetLocks, LoopEnds, GetUnlocks, GetEnds
  <2> QED BY <2>1, <1>1, <1>2, GetQuiet DEF Events
<1>4. CASE ReadEvents(e)
  <2>1. sticky # "None" => sticky' # "None"
    BY <1>4 DEF ReadEvents
  <2>2. \/ UNCHANGED <<queue, buffer>>
        \/ buffer = <<>> /\ buffer' = queue /\ queue' = <<>>
    BY <1>4 DEF ReadEvents
  <2>3. CASE UNCHANGED <<queue, buffer>>
    BY <2>1, <2>3, <1>1, <1>2, GetQuiet DEF Events
  <2>4. CASE buffer = <<>> /\ buffer' = queue /\ queue' = <<>>
    <3>1. Events' = Events /\ queue' \in Seq(EventType) /\ buffer' \in Seq(EventType)
      BY <2>4, <1>1, RangeNone DEF Events
    <3> QED BY <3>1, <2>1, <1>2, GetQuiet
  <2> QED BY <2>2, <2>3, <2>4
<1> QED BY <1>3, <1>4

LEMMA TreeStart == WatcherInit => TreeInv
<1> SUFFICES ASSUME WatcherInit PROVE TreeInv
  OBVIOUS
<1>1. /\ IsTree /\ queue = <<>> /\ buffer = <<>> /\ watches = [d \in Inodes |-> <<>>] /\ parent \in Parents
  BY DEF WatcherInit, IsTree, Parents
<1> DEFINE f == [path |-> <<Root>>, stage |-> "open", dir |-> None, left |-> {}, missing |-> FALSE]
<1>2. setup = <<f>> \/ (setup = <<>> /\ sticky # "None")
  BY DEF WatcherInit
<1>3. f \in FrameType /\ f.stage = "open" /\ f.path = <<Root>>
  BY LeadsRoot DEF FrameType
<1> HIDE DEF f
<1>4. setup \in Seq(FrameType) /\ \A g \in Range(setup) : g.stage = "open"
  BY <1>2, <1>3, RangeOne, RangeNone
<1>5. watches \in [Inodes -> Paths]
  BY <1>1 DEF Paths
<1>6. Events = {} /\ queue \in Seq(EventType) /\ buffer \in Seq(EventType)
  BY <1>1, RangeNone DEF Events
<1>7. Claim
  <2>1. SUFFICES ASSUME setup = <<f>>, NEW d \in Inodes, InTree(d) PROVE Attended(d)
    BY <1>2 DEF Claim
  <2>2. Leads(<<Root>>, Root)
    BY LeadsRoot, InFacts
  <2>3. Reaches(f, d)
    BY <2>1, <2>2, <1>3 DEF Reaches, InTree
  <2>4. f \in Range(setup)
    BY <2>1, RangeOne
  <2> QED BY <2>3, <2>4 DEF Attended
<1> QED BY <1>1, <1>4, <1>5, <1>6, <1>7, TreeInvParts DEF TreeParts, MemoryOK

\* Whatever is made, moved and removed while watches are set up and events handled, every directory in
\* the tree is watched under its path, or announced by an event, or will be come to by a frame of
\* setupWatchesReq: for any tree, any directories and any number of changes.
THEOREM TreeInductive == WatcherSpec => []TreeInv
<1>1. WatcherInit => TreeInv
  BY TreeStart
<1>2. TreeInv /\ [WatcherNext]_watcherVars => TreeInv'
  <2> SUFFICES ASSUME TreeInv, [WatcherNext]_watcherVars PROVE TreeInv'
    OBVIOUS
  <2>1. CASE TreeStep
    BY <2>1, TreeSteps
  <2>2. CASE SetupStep
    BY <2>2, SetupSteps
  <2>3. queue \in Seq(EventType) /\ buffer \in Seq(EventType)
    BY TreeInvParts DEF TreeParts
  <2>4. CASE Release \/ EndRun
    <3>1. UNCHANGED <<parent, label, kernel, lost, setup, watches, queue, buffer, sticky>>
      BY <2>4 DEF Release, EndRun, GetFrame, treeVars
    <3> QED BY <3>1, <2>3, GetQuiet DEF Events
  <2>5. ASSUME NEW e \in WatchExecutors,
               GetBegins(e) \/ GetLocks(e) \/ ReadEvents(e) \/ LoopEnds(e) \/ GetUnlocks(e) \/ GetEnds(e)
        PROVE  TreeInv'
    BY <2>5, GetSteps
  <2>6. ASSUME NEW e \in WatchExecutors, HandleEvent(e) PROVE TreeInv'
    BY <2>6, HandleEventStep
  <2>7. CASE UNCHANGED watcherVars
    <3>1. UNCHANGED <<parent, label, kernel, lost, setup, watches, queue, buffer, sticky>>
      BY <2>7 DEF watcherVars
    <3> QED BY <3>1, <2>3, GetQuiet DEF Events
  <2> QED BY <2>1, <2>2, <2>4, <2>5, <2>6, <2>7 DEF WatcherNext
<1> QED BY <1>1, <1>2, PTL DEF WatcherSpec

\* When every event has been handled, every directory of the tree is watched under the path it has,
\* unless the queue overflowed or the watcher reports an error (iowatcher_linux.cpp:165).
THEOREM DirectoriesWatchedHolds == WatcherSpec => []DirectoriesWatched
<1>1. TreeInv => DirectoriesWatched
  <2> SUFFICES ASSUME TreeInv, setup = <<>>, queue = <<>>, buffer = <<>>, sticky = "None", ~lost,
                      NEW d \in Inodes, InTree(d)
               PROVE  d \in kernel /\ Leads(watches[d], d)
    BY DEF DirectoriesWatched
  <2>1. Attended(d)
    BY TreeInvParts DEF TreeParts, Claim
  <2>2. Events = {} /\ Range(setup) = {}
    BY RangeNone DEF Events
  <2> QED BY <2>1, <2>2 DEF Attended, Announced, Watched
<1> QED BY <1>1, TreeInductive, PTL
-----------------------------------------------------------------------------
(* The watcher's reference counter and mutex. *)

LEMMA UsersFinite ==
  /\ IsFiniteSet(Users) /\ Cardinality(Users) \in Nat
  /\ Cardinality(Users) = 0 <=> Users = {}
<1>1. IsFiniteSet(WatchExecutors) /\ Users \subseteq WatchExecutors
  BY WatcherAssumption DEF Users
<1>2. IsFiniteSet(Users)
  BY <1>1, FS_Subset
<1> QED BY <1>2, FS_CardinalityType, FS_EmptySet

\* What leaves the watcher's memory alone keeps the invariant.
LEMMA WatcherQuiet ==
  ASSUME WatcherInv, UNCHANGED <<refCount, mutex, wpc, released, destroyed>>
  PROVE  WatcherInv'
<1>1. Users' = Users
  BY DEF Users
<1> QED BY <1>1 DEF WatcherInv, WatcherTypeOK, UsersCounted, DeletedAtZero, HolderInside

\* Trees and setups do not touch it.
LEMMA TreeQuiet ==
  ASSUME TreeStep \/ SetupStep
  PROVE  UNCHANGED <<refCount, mutex, wpc, released, destroyed>>
<1>1. CASE TreeStep
  BY <1>1 DEF TreeStep, MakeDir, MoveDir, RemoveDir, WriteFile, TreeFrame, memoryVars
<1>2. CASE SetupStep
  BY <1>2 DEF SetupStep, OpenDirectory, AddWatch, ListDirectory, Descend, SetupFrame, memoryVars
<1> QED BY <1>1, <1>2

\* An executor moves on inside ioWatcherGet: the counter keeps its meaning.
LEMMA StaysInside ==
  ASSUME WatcherInv, NEW e \in Users, NEW l \in {"lock", "next", "unlock", "unref"},
         WGoto(e, l), UNCHANGED <<refCount, released, destroyed>>,
         mutex' \in WatchExecutors \cup {None}, HolderInside'
  PROVE  WatcherInv'
<1>1. e \in WatchExecutors /\ WatcherTypeOK /\ UsersCounted /\ DeletedAtZero
  BY DEF Users, WatcherInv
<1>2. wpc' \in [WatchExecutors -> {"out", "lock", "next", "unlock", "unref", "gone"}]
  BY <1>1 DEF WGoto, WatcherTypeOK
<1>3. WatcherTypeOK'
  BY <1>1, <1>2 DEF WatcherTypeOK
<1>4. \A x \in WatchExecutors : wpc'[x] = IF x = e THEN l ELSE wpc[x]
  BY <1>1 DEF WGoto, WatcherTypeOK
<1>5. Users' = Users
  BY <1>4 DEF Users
<1> QED BY <1>1, <1>3, <1>5 DEF WatcherInv, UsersCounted, DeletedAtZero

\* An executor comes in or leaves, with the counter.
LEMMA ComesOrLeaves ==
  ASSUME WatcherInv, NEW e \in WatchExecutors,
         NEW l \in {"out", "lock", "next", "unlock", "unref", "gone"}, WGoto(e, l),
         wpc[e] \notin {"next", "unlock"}, l \notin {"next", "unlock"},
         UNCHANGED <<mutex, released>>, refCount' \in Nat,
         refCount' - refCount = Cardinality(Users') - Cardinality(Users), DeletedAtZero'
  PROVE  WatcherInv'
<1>1. WatcherTypeOK /\ UsersCounted /\ DeletedAtZero /\ HolderInside
  BY DEF WatcherInv
<1>2. wpc' \in [WatchExecutors -> {"out", "lock", "next", "unlock", "unref", "gone"}]
  BY <1>1 DEF WGoto, WatcherTypeOK
<1>3. \A x \in WatchExecutors : wpc'[x] = IF x = e THEN l ELSE wpc[x]
  BY <1>1 DEF WGoto, WatcherTypeOK
<1>4. destroyed' \in BOOLEAN
  BY DEF DeletedAtZero
<1>5. WatcherTypeOK'
  BY <1>1, <1>2 DEF WatcherTypeOK, DeletedAtZero
<1>6. HolderInside'
  BY <1>1, <1>3 DEF HolderInside
<1>7. Users' \in SUBSET WatchExecutors
  BY DEF Users
<1>8. Cardinality(Users') \in Nat /\ Cardinality(Users) \in Nat
  BY <1>7, UsersFinite, FS_Subset, FS_CardinalityType, WatcherAssumption
<1>9. UsersCounted'
  BY <1>1, <1>8 DEF UsersCounted, WatcherTypeOK
<1> QED BY <1>5, <1>6, <1>9 DEF WatcherInv

\* The counter is only zero once the collector's reference and all users are gone.
LEMMA CountPositive ==
  ASSUME WatcherInv, ~released \/ Users # {}
  PROVE  refCount \in Nat /\ refCount >= 1 /\ ~destroyed
<1>1. refCount \in Nat /\ refCount = (IF released THEN 0 ELSE 1) + Cardinality(Users)
  BY DEF WatcherInv, UsersCounted, WatcherTypeOK
<1>2. refCount # 0
  BY <1>1, UsersFinite
<1> QED BY <1>1, <1>2 DEF WatcherInv, DeletedAtZero

LEMMA GetBeginsStep ==
  ASSUME WatcherInv, NEW e \in WatchExecutors, GetBegins(e)
  PROVE  WatcherInv'
<1>1. WatcherTypeOK /\ e \notin Users /\ wpc[e] = "out"
  BY DEF WatcherInv, GetBegins, At, Users
<1>2. \A x \in WatchExecutors : wpc'[x] = IF x = e THEN "lock" ELSE wpc[x]
  BY <1>1 DEF GetBegins, WGoto, WatcherTypeOK
<1>3. Users' = Users \cup {e}
  BY <1>2 DEF Users
<1>4. Cardinality(Users') = Cardinality(Users) + 1
  BY <1>1, <1>3, UsersFinite, FS_AddElement
<1>5. refCount \in Nat /\ ~destroyed
  BY CountPositive DEF GetBegins
<1>6. refCount' = refCount + 1 /\ UNCHANGED <<mutex, released, destroyed>> /\ WGoto(e, "lock")
  BY DEF GetBegins
<1>7. refCount' \in Nat /\ refCount' - refCount = Cardinality(Users') - Cardinality(Users)
  BY <1>4, <1>5, <1>6, UsersFinite
<1>8. DeletedAtZero'
  BY <1>5, <1>6 DEF DeletedAtZero
<1> QED BY <1>1, <1>6, <1>7, <1>8, ComesOrLeaves

LEMMA GetEndsStep ==
  ASSUME WatcherInv, NEW e \in WatchExecutors, GetEnds(e)
  PROVE  WatcherInv'
<1> DEFINE l == IF ending THEN "gone" ELSE "out"
<1>1. WatcherTypeOK /\ e \in Users /\ wpc[e] = "unref"
  BY DEF WatcherInv, GetEnds, At, Users
<1>2. WGoto(e, l) /\ l \in {"gone", "out"} /\ UNCHANGED <<mutex, released>>
  BY DEF GetEnds
<1> HIDE DEF l
<1>3. \A x \in WatchExecutors : wpc'[x] = IF x = e THEN l ELSE wpc[x]
  BY <1>1, <1>2 DEF WGoto, WatcherTypeOK
<1>4. Users' = Users \ {e}
  BY <1>2, <1>3 DEF Users
<1>5. Cardinality(Users') = Cardinality(Users) - 1
  BY <1>1, <1>4, UsersFinite, FS_RemoveElement
<1>6. refCount \in Nat /\ refCount >= 1 /\ ~destroyed
  BY <1>1, CountPositive
<1>7. refCount' = refCount - 1 /\ destroyed' = (destroyed \/ refCount = 1)
  BY DEF GetEnds, watcherRefDec
<1>8. refCount' \in Nat /\ refCount' - refCount = Cardinality(Users') - Cardinality(Users)
  BY <1>5, <1>6, <1>7, UsersFinite
<1>9. DeletedAtZero'
  <2>1. refCount = 1 <=> refCount' = 0
    BY <1>6, <1>7
  <2>2. destroyed' <=> refCount = 1
    BY <1>6, <1>7, Zenon
  <2> QED BY <2>1, <2>2, Zenon DEF DeletedAtZero
<1> QED BY <1>1, <1>2, <1>8, <1>9, ComesOrLeaves

\* The collector gives its reference up.
LEMMA ReleaseStep ==
  ASSUME WatcherInv, Release
  PROVE  WatcherInv'
<1>1. WatcherTypeOK /\ UsersCounted /\ DeletedAtZero /\ HolderInside
  BY DEF WatcherInv
<1>2. Users' = Users /\ UNCHANGED <<mutex, wpc>> /\ ~released /\ released' = TRUE
  BY DEF Release, Users
<1>3. refCount \in Nat /\ refCount >= 1 /\ ~destroyed
  BY <1>2, CountPositive
<1>4. refCount' = refCount - 1 /\ destroyed' = (destroyed \/ refCount = 1)
  BY DEF Release, watcherRefDec
<1>5. DeletedAtZero'
  <2>1. refCount = 1 <=> refCount' = 0
    BY <1>3, <1>4
  <2>2. destroyed' <=> refCount = 1
    BY <1>3, <1>4, Zenon
  <2> QED BY <2>1, <2>2, Zenon DEF DeletedAtZero
<1>6. destroyed' \in BOOLEAN
  BY <1>4
<1>7. WatcherTypeOK'
  BY <1>1, <1>2, <1>3, <1>4, <1>6 DEF WatcherTypeOK
<1>8. UsersCounted'
  BY <1>1, <1>2, <1>4, UsersFinite DEF UsersCounted
<1> QED BY <1>1, <1>2, <1>5, <1>7, <1>8 DEF WatcherInv, HolderInside

\* The mutex passes from nobody to an executor and back.
LEMMA LockSteps ==
  ASSUME WatcherInv, NEW e \in WatchExecutors, GetLocks(e) \/ GetUnlocks(e)
  PROVE  WatcherInv'
<1>1. WatcherTypeOK /\ HolderInside /\ None \notin WatchExecutors
  BY WatcherAssumption DEF WatcherInv
<1>2. CASE GetLocks(e)
  <2> DEFINE l == IF ending \/ sticky # "None" THEN "unlock" ELSE "next"
  <2>1. e \in Users /\ mutex = None /\ mutex' = e /\ WGoto(e, l) /\ l \in {"next", "unlock"}
        /\ UNCHANGED <<refCount, released, destroyed>>
    BY <1>2 DEF GetLocks, At, Users
  <2> HIDE DEF l
  <2>2. \A x \in WatchExecutors : wpc'[x] = IF x = e THEN l ELSE wpc[x]
    BY <1>1, <2>1 DEF WGoto, WatcherTypeOK
  <2>3. HolderInside'
    BY <1>1, <2>1, <2>2 DEF HolderInside
  <2> QED BY <2>1, <2>3, StaysInside
<1>3. CASE GetUnlocks(e)
  <2>1. e \in Users /\ wpc[e] = "unlock" /\ mutex' = None /\ WGoto(e, "unref")
        /\ UNCHANGED <<refCount, released, destroyed>>
    BY <1>3 DEF GetUnlocks, At, Users
  <2>2. \A x \in WatchExecutors : wpc'[x] = IF x = e THEN "unref" ELSE wpc[x]
    BY <1>1, <2>1 DEF WGoto, WatcherTypeOK
  <2>3. HolderInside'
    BY <1>1, <2>1, <2>2 DEF HolderInside
  <2> QED BY <2>1, <2>3, StaysInside
<1> QED BY <1>2, <1>3

\* Inside the critical section an executor reads, handles events and leaves the loop.
LEMMA LoopSteps ==
  ASSUME WatcherInv, NEW e \in WatchExecutors, ReadEvents(e) \/ HandleEvent(e) \/ LoopEnds(e)
  PROVE  WatcherInv'
<1>1. WatcherTypeOK /\ HolderInside
  BY DEF WatcherInv
<1>2. wpc[e] = "next" /\ e \in Users
  BY DEF ReadEvents, HandleEvent, LoopEnds, At, Users
<1>3. UNCHANGED memoryVars /\ (WGoto(e, "unlock") \/ UNCHANGED wpc)
  BY DEF ReadEvents, HandleEvent, LoopEnds
<1>4. CASE UNCHANGED wpc
  BY <1>3, <1>4, WatcherQuiet DEF memoryVars
<1>5. CASE WGoto(e, "unlock")
  <2>1. \A x \in WatchExecutors : wpc'[x] = IF x = e THEN "unlock" ELSE wpc[x]
    BY <1>1, <1>5 DEF WGoto, WatcherTypeOK
  <2>2. HolderInside' /\ mutex' \in WatchExecutors \cup {None}
    BY <1>1, <1>2, <1>3, <2>1 DEF HolderInside, memoryVars, WatcherTypeOK
  <2> QED BY <1>2, <1>3, <1>5, <2>2, StaysInside DEF memoryVars
<1> QED BY <1>3, <1>4, <1>5

\* The counter counts the users, the watcher is deleted at zero, and one
\* executor at a time is inside, however the tree changes meanwhile.
THEOREM WatcherInductive == WatcherSpec => []WatcherInv
<1>1. WatcherInit => WatcherInv
  <2> SUFFICES ASSUME WatcherInit PROVE WatcherInv
    OBVIOUS
  <2>1. wpc \in [WatchExecutors -> {"out"}] /\ refCount = 1 /\ mutex = None /\ ~released /\ ~destroyed
        /\ released \in BOOLEAN /\ destroyed \in BOOLEAN
    BY DEF WatcherInit
  <2>2. Users = {}
    BY <2>1 DEF Users
  <2>3. UsersCounted
    BY <2>1, <2>2, UsersFinite DEF UsersCounted
  <2>4. WatcherTypeOK /\ DeletedAtZero
    BY <2>1 DEF WatcherTypeOK, DeletedAtZero
  <2>5. HolderInside
    BY <2>1, WatcherAssumption DEF HolderInside
  <2> QED BY <2>3, <2>4, <2>5 DEF WatcherInv
<1>2. WatcherInv /\ [WatcherNext]_watcherVars => WatcherInv'
  <2> SUFFICES ASSUME WatcherInv, [WatcherNext]_watcherVars PROVE WatcherInv'
    OBVIOUS
  <2>1. CASE TreeStep \/ SetupStep
    BY <2>1, TreeQuiet, WatcherQuiet
  <2>2. CASE Release
    BY <2>2, ReleaseStep
  <2>3. CASE EndRun
    BY <2>3, WatcherQuiet DEF EndRun
  <2>4. ASSUME NEW e \in WatchExecutors, GetBegins(e) PROVE WatcherInv'
    BY <2>4, GetBeginsStep
  <2>5. ASSUME NEW e \in WatchExecutors, GetLocks(e) \/ GetUnlocks(e) PROVE WatcherInv'
    BY <2>5, LockSteps
  <2>6. ASSUME NEW e \in WatchExecutors, ReadEvents(e) \/ HandleEvent(e) \/ LoopEnds(e)
        PROVE  WatcherInv'
    BY <2>6, LoopSteps
  <2>7. ASSUME NEW e \in WatchExecutors, GetEnds(e) PROVE WatcherInv'
    BY <2>7, GetEndsStep
  <2>8. CASE UNCHANGED watcherVars
    BY <2>8, WatcherQuiet DEF watcherVars
  <2> QED BY <2>1, <2>2, <2>3, <2>4, <2>5, <2>6, <2>7, <2>8 DEF WatcherNext
<1> QED BY <1>1, <1>2, PTL DEF WatcherSpec

\* Nobody is inside ioWatcherGet when the watcher is deleted, and it is
\* deleted as soon as its last user is gone (iowatcher_linux.cpp:328).
THEOREM WatcherKeptHolds == WatcherSpec => []WatcherKept
<1>1. WatcherInv => WatcherKept
  <2> SUFFICES ASSUME WatcherInv PROVE WatcherKept
    OBVIOUS
  <2>1. WatcherTypeOK /\ UsersCounted /\ DeletedAtZero /\ HolderInside
    BY DEF WatcherInv
  <2>2. ASSUME destroyed PROVE released /\ Users = {}
    BY <2>2, CountPositive
  <2>3. Users = {} => \A e \in WatchExecutors : wpc[e] \in {"out", "gone"}
    BY <2>1 DEF Users, WatcherTypeOK
  <2>4. Users = {} => mutex = None
    BY <2>1 DEF Users, WatcherTypeOK, HolderInside
  <2>5. ASSUME released, \A e \in WatchExecutors : wpc[e] \in {"out", "gone"}
        PROVE  destroyed
    <3>1. Users = {}
      BY <2>5 DEF Users
    <3>2. refCount = 0
      BY <2>1, <2>5, <3>1, UsersFinite DEF UsersCounted
    <3> QED BY <2>1, <3>2 DEF DeletedAtZero
  <2> QED BY <2>1, <2>2, <2>3, <2>4, <2>5 DEF WatcherKept, HolderInside
<1> QED BY <1>1, WatcherInductive, PTL

\* Both: the watcher misses no directory and outlives its users, for any executors and directories
\* (iowatcher_linux.cpp:165, 328).
THEOREM WatcherSoundHolds == WatcherSpec => []WatcherSound
  BY DirectoriesWatchedHolds, WatcherKeptHolds, PTL DEF WatcherSound
=============================================================================
