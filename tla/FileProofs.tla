----------------------------- MODULE FileProofs -----------------------------
(***************************************************************************)
(* Proofs about FileStream, for any executors, names, streams and programs *)
(* of calls.                                                               *)
(***************************************************************************)
EXTENDS FileStream, FiniteSetTheorems, WellFoundedInduction, TLAPS

(* Listings. *)

\* The entries a directory shows all the time are finitely many.
LEMMA NamesFinite ==
  /\ IsFiniteSet(Names) /\ IsFiniteSet(Dots)
  /\ \A S \in SUBSET (Names \cup Dots) : IsFiniteSet(S) /\ Cardinality(S) \in Nat
<1>1. IsFiniteSet(Names)
  BY FileAssumption
<1>2. IsFiniteSet({".", ".."})
  <2>1. IsFiniteSet({"."} \cup {".."})
    BY FS_Singleton, FS_Union
  <2>2. {"."} \cup {".."} = {".", ".."}
    OBVIOUS
  <2> QED BY <2>1, <2>2
<1>3. IsFiniteSet(Names \cup Dots)
  BY <1>1, <1>2, FS_Union DEF Dots
<1>4. \A S \in SUBSET (Names \cup Dots) : IsFiniteSet(S) /\ Cardinality(S) \in Nat
  BY <1>3, FS_Subset, FS_CardinalityType
<1> QED BY <1>1, <1>2, <1>4 DEF Dots

\* One more name, or one less.
LEMMA OneMore ==
  ASSUME NEW S \in SUBSET (Names \cup Dots), NEW n \in Names \cup Dots, n \notin S
  PROVE  Cardinality(S \cup {n}) = Cardinality(S) + 1
<1>1. IsFiniteSet(S)
  BY NamesFinite
<1> QED BY <1>1, FS_AddElement

LEMMA NoMore ==
  ASSUME NEW T \in SUBSET (Names \cup Dots), NEW S \in SUBSET T
  PROVE  Cardinality(S) <= Cardinality(T) /\ Cardinality(S) \in Nat /\ Cardinality(T) \in Nat
<1>1. IsFiniteSet(T) /\ S \in SUBSET (Names \cup Dots)
  BY NamesFinite
<1> QED BY <1>1, FS_Subset, NamesFinite

\* The two dots count for two.
LEMMA DotsMore ==
  ASSUME NEW S \in SUBSET Names
  PROVE  Cardinality(S \cup Dots) = Cardinality(S) + 2 /\ Cardinality(S) \in Nat
<1>1. "." \notin S /\ ".." \notin S \cup {"."}
  BY FileAssumption DEF Dots
<1>2. Cardinality(S \cup {"."}) = Cardinality(S) + 1 /\ Cardinality(S) \in Nat
  BY <1>1, OneMore, NamesFinite DEF Dots
<1>3. Cardinality((S \cup {"."}) \cup {".."}) = Cardinality(S \cup {"."}) + 1
  BY <1>1, OneMore DEF Dots
<1>4. (S \cup {"."}) \cup {".."} = S \cup Dots
  BY DEF Dots
<1>5. Cardinality(S \cup Dots) = Cardinality(S \cup {"."}) + 1
  BY <1>3, <1>4
<1> QED BY <1>2, <1>5

\* The directory changes under a listing: an entry it knew may go, one it did
\* not know may come.
LEMMA ReadKept ==
  ASSUME NEW l \in ListingSet, NEW m \in ListingSet, NEW P, NEW L, NEW P2, NEW L2,
         ReadSound(l, P, L), m.op = l.op, m.links = l.links, m.got = l.got, m.count = l.count,
         m.always \subseteq l.always, l.ever \subseteq m.ever,
         l.left \subseteq m.left, m.left \subseteq l.left \cup (m.ever \ l.ever),
         m.always \subseteq P2, m.always \cap L \subseteq L2
  PROVE  ReadSound(m, P2, L2)
<1>1. /\ l.left \in SUBSET (Names \cup Dots) /\ l.ever \in SUBSET Names /\ l.always \in SUBSET Names
      /\ m.left \in SUBSET (Names \cup Dots) /\ m.ever \in SUBSET Names /\ m.always \in SUBSET Names
      /\ l.count \in Int /\ Names \cap Dots = {}
  BY FileAssumption DEF ListingSet
<1>2. Seen(m, L2) \subseteq Seen(l, L) /\ Seen(l, L) \subseteq Names
  BY <1>1 DEF Seen
<1>3. m.left \subseteq m.ever \cup Dots
  BY DEF ReadSound
<1>4. m.op = "list" => Seen(m, L2) \subseteq m.got \cup m.left /\ m.got \subseteq m.ever
  BY <1>2 DEF ReadSound
<1>5. ASSUME m.op = "count"
      PROVE  /\ Cardinality((Seen(m, L2) \cup Dots) \ m.left) <= m.count + 2
             /\ m.count + 2 <= Cardinality((m.ever \cup Dots) \ m.left)
  <2> DEFINE A == (Seen(l, L) \cup Dots) \ l.left
             A2 == (Seen(m, L2) \cup Dots) \ m.left
             B == (l.ever \cup Dots) \ l.left
             B2 == (m.ever \cup Dots) \ m.left
  <2>1. A2 \subseteq A /\ A \in SUBSET (Names \cup Dots)
    BY <1>1, <1>2
  <2>2. B \subseteq B2 /\ B2 \in SUBSET (Names \cup Dots)
    BY <1>1
  <2>3. Cardinality(A) <= l.count + 2 /\ l.count + 2 <= Cardinality(B)
    BY <1>5 DEF ReadSound
  <2> HIDE DEF A, A2, B, B2
  <2>4. Cardinality(A2) <= Cardinality(A) /\ Cardinality(A2) \in Nat /\ Cardinality(A) \in Nat
    BY <2>1, NoMore
  <2>5. Cardinality(B) <= Cardinality(B2) /\ Cardinality(B) \in Nat /\ Cardinality(B2) \in Nat
    BY <2>2, NoMore
  <2>6. Cardinality(A2) <= m.count + 2 /\ m.count + 2 <= Cardinality(B2)
    BY <1>1, <2>3, <2>4, <2>5
  <2> QED BY <2>6 DEF A2, B2
<1> QED BY <1>3, <1>4, <1>5 DEF ReadSound

\* What a finished listing tells of one that is sound.
LEMMA ReadDone ==
  ASSUME NEW l \in ListingSet, NEW P, NEW L, ReadSound(l, P, L), l.left = {}
  PROVE  /\ l.op = "list" => Seen(l, L) \subseteq l.got /\ l.got \subseteq l.ever
         /\ l.op = "count" => Cardinality(Seen(l, L)) <= l.count /\ l.count <= Cardinality(l.ever)
<1>1. Seen(l, L) \in SUBSET Names /\ l.ever \in SUBSET Names /\ l.count \in Int
  BY DEF Seen, ListingSet
<1>2. ASSUME l.op = "count"
      PROVE  Cardinality(Seen(l, L)) <= l.count /\ l.count <= Cardinality(l.ever)
  <2>1. (Seen(l, L) \cup Dots) \ l.left = Seen(l, L) \cup Dots /\ (l.ever \cup Dots) \ l.left = l.ever \cup Dots
    OBVIOUS
  <2>2. Cardinality(Seen(l, L) \cup Dots) <= l.count + 2 /\ l.count + 2 <= Cardinality(l.ever \cup Dots)
    BY <1>2, <2>1 DEF ReadSound
  <2>3. Cardinality(Seen(l, L) \cup Dots) = Cardinality(Seen(l, L)) + 2 /\ Cardinality(Seen(l, L)) \in Nat
    BY <1>1, DotsMore
  <2>4. Cardinality(l.ever \cup Dots) = Cardinality(l.ever) + 2 /\ Cardinality(l.ever) \in Nat
    BY <1>1, DotsMore
  <2> QED BY <1>1, <2>2, <2>3, <2>4
<1> QED BY <1>2 DEF ReadSound

\* The fields of a listing after a change: a name n that is passed over, ...
Passed(l, n) == [l EXCEPT !.left = @ \ {n}]
Counted(l, n) == [l EXCEPT !.left = @ \ {n}, !.count = @ + 1]
Known(l, A, E, F) == [l EXCEPT !.always = A, !.ever = E, !.left = F]
Opened(op, links, F) ==
  [NoListing EXCEPT !.stage = "read", !.op = op, !.links = links, !.left = F \cup Dots,
                    !.always = F, !.ever = F, !.count = -2]

SameBut(m, l) ==
  /\ m.stage = l.stage /\ m.op = l.op /\ m.links = l.links /\ m.head = l.head /\ m.size = l.size
  /\ m.got = l.got

LEMMA PassedFacts ==
  ASSUME NEW l \in ListingSet, NEW n
  PROVE  LET m == Passed(l, n)
         IN  /\ m \in ListingSet /\ SameBut(m, l) /\ m.left = l.left \ {n} /\ m.count = l.count
             /\ m.always = l.always /\ m.ever = l.ever
BY DEF Passed, ListingSet, SameBut

\* ... counted, ...
LEMMA CountedFacts ==
  ASSUME NEW l \in ListingSet, NEW n
  PROVE  LET m == Counted(l, n)
         IN  /\ m \in ListingSet /\ SameBut(m, l) /\ m.left = l.left \ {n} /\ m.count = l.count + 1
             /\ m.always = l.always /\ m.ever = l.ever
<1> DEFINE b == Passed(l, n)
<1>1. /\ b \in ListingSet /\ SameBut(b, l) /\ b.left = l.left \ {n} /\ b.count = l.count
      /\ b.always = l.always /\ b.ever = l.ever
  BY PassedFacts
<1>2. Counted(l, n) = [b EXCEPT !.count = @ + 1]
  BY DEF Counted, Passed
<1> HIDE DEF b
<1> QED BY <1>1, <1>2 DEF ListingSet, SameBut

\* ... or listed, in a buffer that has room for it.
LEMMA ListedFacts ==
  ASSUME NEW l \in ListingSet, RoomLeft(l), NEW n \in Names, n \in l.left
  PROVE  LET m == Listed(l, n)
         IN  /\ m \in ListingSet /\ m.stage = l.stage /\ m.op = l.op /\ m.links = l.links
             /\ m.left = l.left \ {n} /\ m.got = l.got \cup {n}
             /\ m.always = l.always /\ m.ever = l.ever /\ RoomLeft(m)
<1> DEFINE len == NameLength[n]
           grown == IF Grows(l, len) THEN NewSize(l) ELSE l.size
           b == Passed(l, n)
<1>1. /\ b \in ListingSet /\ SameBut(b, l) /\ b.left = l.left \ {n}
      /\ b.always = l.always /\ b.ever = l.ever
  BY PassedFacts
<1>2. len \in Nat /\ len >= 1 /\ len <= NameMax /\ NameMax \in Nat /\ NameMax > 2
  BY FileAssumption
<1>3. l.head \in Nat /\ l.size \in Nat
  BY DEF ListingSet
<1>4. Listed(l, n) = [b EXCEPT !.got = @ \cup {n}, !.size = grown, !.head = @ + len + 2]
  BY DEF Listed, Passed
<1>5. grown \in Nat /\ l.head + len + 2 <= grown /\ grown >= 2 * NameMax
  <2> HIDE DEF len
  <2>1. CASE ~Grows(l, len)
    BY <1>2, <1>3, <2>1 DEF Grows, RoomLeft
  <2>2. CASE Grows(l, len) /\ l.size = 0
    BY <1>2, <1>3, <2>2 DEF NewSize, RoomLeft
  <2>3. CASE Grows(l, len) /\ l.size # 0
    BY <1>2, <1>3, <2>3 DEF NewSize, RoomLeft
  <2> QED BY <2>1, <2>2, <2>3
<1> HIDE DEF b, grown, len
<1> DEFINE b2 == [b EXCEPT !.got = @ \cup {n}]
           b3 == [b2 EXCEPT !.size = grown]
           b4 == [b3 EXCEPT !.head = @ + len + 2]
<1>6. /\ b2 \in ListingSet /\ b2.stage = l.stage /\ b2.op = l.op /\ b2.links = l.links /\ b2.left = l.left \ {n}
      /\ b2.always = l.always /\ b2.ever = l.ever /\ b2.got = l.got \cup {n} /\ b2.head = l.head
  BY <1>1 DEF ListingSet, SameBut
<1>7. Listed(l, n) = b4
  BY <1>4
<1> HIDE DEF b2
<1>8. /\ b3 \in ListingSet /\ b3.stage = l.stage /\ b3.op = l.op /\ b3.links = l.links /\ b3.left = l.left \ {n}
      /\ b3.always = l.always /\ b3.ever = l.ever /\ b3.got = l.got \cup {n} /\ b3.head = l.head
      /\ b3.size = grown
  BY <1>5, <1>6 DEF ListingSet
<1> HIDE DEF b3
<1>9. /\ b4 \in ListingSet /\ b4.stage = l.stage /\ b4.op = l.op /\ b4.links = l.links /\ b4.left = l.left \ {n}
      /\ b4.always = l.always /\ b4.ever = l.ever /\ b4.got = l.got \cup {n} /\ b4.head = l.head + len + 2
      /\ b4.size = grown
  BY <1>2, <1>3, <1>8 DEF ListingSet
<1> HIDE DEF b4
<1> QED BY <1>2, <1>3, <1>5, <1>7, <1>9 DEF RoomLeft

\* A listing that begins, and one whose directory changes.
LEMMA OpenedFacts ==
  ASSUME NEW op \in {"list", "count"}, NEW links \in BOOLEAN, NEW F \in SUBSET Names
  PROVE  LET m == Opened(op, links, F)
         IN  /\ m \in ListingSet /\ m.stage = "read" /\ m.op = op /\ m.links = links /\ m.left = F \cup Dots
             /\ m.head = 0 /\ m.size = 0 /\ m.got = {} /\ m.count = -2 /\ m.always = F /\ m.ever = F
<1> DEFINE a == [NoListing EXCEPT !.stage = "read", !.op = op]
           b == [a EXCEPT !.links = links]
           c == [b EXCEPT !.left = F \cup Dots, !.always = F]
<1>1. NoListing \in ListingSet /\ NoListing.head = 0 /\ NoListing.size = 0 /\ NoListing.got = {}
  BY DEF NoListing, ListingSet
<1>2. /\ a \in ListingSet /\ a.stage = "read" /\ a.op = op
      /\ a.head = 0 /\ a.size = 0 /\ a.got = {}
  BY <1>1 DEF ListingSet
<1>3. Opened(op, links, F) = [c EXCEPT !.ever = F, !.count = -2]
  BY DEF Opened
<1> HIDE DEF a
<1>4. /\ b \in ListingSet /\ b.stage = "read" /\ b.op = op /\ b.links = links
      /\ b.head = 0 /\ b.size = 0 /\ b.got = {}
  BY <1>2 DEF ListingSet
<1> HIDE DEF b
<1>5. /\ c \in ListingSet /\ c.stage = "read" /\ c.op = op /\ c.links = links
      /\ c.head = 0 /\ c.size = 0 /\ c.got = {} /\ c.left = F \cup Dots /\ c.always = F
  BY <1>4 DEF ListingSet
<1> HIDE DEF c
<1>6. -2 \in Int
  OBVIOUS
<1> QED BY <1>3, <1>5, <1>6 DEF ListingSet

LEMMA KnownFacts ==
  ASSUME NEW l \in ListingSet, NEW A \in SUBSET Names, NEW E \in SUBSET Names,
         NEW F \in SUBSET (Names \cup Dots)
  PROVE  LET m == Known(l, A, E, F)
         IN  /\ m \in ListingSet /\ SameBut(m, l) /\ m.count = l.count
             /\ m.always = A /\ m.ever = E /\ m.left = F
<1> DEFINE b == [l EXCEPT !.always = A, !.ever = E]
<1>1. b \in ListingSet /\ SameBut(b, l) /\ b.count = l.count /\ b.always = A /\ b.ever = E
  BY DEF ListingSet, SameBut
<1>2. Known(l, A, E, F) = [b EXCEPT !.left = F]
  BY DEF Known
<1> HIDE DEF b
<1> QED BY <1>1, <1>2 DEF ListingSet, SameBut
-----------------------------------------------------------------------------
(* What readdir() yields keeps a listing sound. *)

\* An entry is passed over when it is not to be shown.
LEMMA PassedSound ==
  ASSUME NEW l \in ListingSet, NEW P, NEW L, ReadSound(l, P, L), NEW n \in l.left,
         n \notin Seen(l, L), l.op = "count" => n \notin Dots
  PROVE  ReadSound(Passed(l, n), P, L)
<1> DEFINE m == Passed(l, n)
<1>1. /\ m \in ListingSet /\ SameBut(m, l) /\ m.left = l.left \ {n} /\ m.count = l.count
      /\ m.always = l.always /\ m.ever = l.ever
  BY PassedFacts
<1> HIDE DEF m
<1>2. /\ l.left \in SUBSET (Names \cup Dots) /\ l.ever \in SUBSET Names /\ l.always \in SUBSET Names
      /\ l.count \in Int
  BY DEF ListingSet
<1>3. Seen(m, L) = Seen(l, L) /\ Seen(l, L) \subseteq Names
  BY <1>1, <1>2 DEF Seen, SameBut
<1>4. ASSUME l.op = "count"
      PROVE  /\ Cardinality((Seen(m, L) \cup Dots) \ m.left) <= m.count + 2
             /\ m.count + 2 <= Cardinality((m.ever \cup Dots) \ m.left)
  <2> DEFINE B == (l.ever \cup Dots) \ l.left
             B2 == (m.ever \cup Dots) \ m.left
  <2>1. (Seen(m, L) \cup Dots) \ m.left = (Seen(l, L) \cup Dots) \ l.left
    BY <1>1, <1>3, <1>4
  <2>2. B \subseteq B2 /\ B2 \in SUBSET (Names \cup Dots)
    BY <1>1, <1>2
  <2>3. Cardinality((Seen(l, L) \cup Dots) \ l.left) <= l.count + 2 /\ l.count + 2 <= Cardinality(B)
    BY <1>4 DEF ReadSound
  <2> HIDE DEF B, B2
  <2>4. Cardinality(B) <= Cardinality(B2) /\ Cardinality(B) \in Nat /\ Cardinality(B2) \in Nat
    BY <2>2, NoMore
  <2>5. m.count + 2 <= Cardinality(B2)
    BY <1>1, <1>2, <2>3, <2>4
  <2>6. Cardinality((Seen(m, L) \cup Dots) \ m.left) <= m.count + 2
    BY <1>1, <2>1, <2>3
  <2> QED BY <2>5, <2>6 DEF B2
<1>5. m.op = "list" => Seen(m, L) \subseteq m.got \cup m.left /\ m.got \subseteq m.ever
  BY <1>1, <1>3 DEF ReadSound, SameBut
<1>6. m.op = l.op /\ m.always \subseteq P /\ m.left \subseteq m.ever \cup Dots
  BY <1>1 DEF ReadSound, SameBut
<1>7. ReadSound(m, P, L)
  BY <1>4, <1>5, <1>6 DEF ReadSound
<1> QED BY <1>7 DEF m

\* A count counts the others, the dots among them.
LEMMA CountedSound ==
  ASSUME NEW l \in ListingSet, NEW P, NEW L, ReadSound(l, P, L), NEW n \in l.left, l.op = "count"
  PROVE  ReadSound(Counted(l, n), P, L)
<1> DEFINE m == Counted(l, n)
<1>1. /\ m \in ListingSet /\ SameBut(m, l) /\ m.left = l.left \ {n} /\ m.count = l.count + 1
      /\ m.always = l.always /\ m.ever = l.ever
  BY CountedFacts
<1> HIDE DEF m
<1>2. /\ l.left \in SUBSET (Names \cup Dots) /\ l.ever \in SUBSET Names /\ l.always \in SUBSET Names
      /\ l.count \in Int /\ l.left \subseteq l.ever \cup Dots
  BY DEF ListingSet, ReadSound
<1>3. Seen(m, L) = Seen(l, L) /\ Seen(l, L) \subseteq Names
  BY <1>1, <1>2 DEF Seen, SameBut
<1> DEFINE A == (Seen(l, L) \cup Dots) \ l.left
           A2 == (Seen(m, L) \cup Dots) \ m.left
           B == (l.ever \cup Dots) \ l.left
           B2 == (m.ever \cup Dots) \ m.left
<1>4. A2 \subseteq A \cup {n} /\ A \in SUBSET (Names \cup Dots) /\ n \notin A /\ n \in Names \cup Dots
      /\ A \cup {n} \in SUBSET (Names \cup Dots)
  BY <1>1, <1>2, <1>3
<1>5. B2 = B \cup {n} /\ n \notin B /\ B \in SUBSET (Names \cup Dots)
  BY <1>1, <1>2
<1>6. Cardinality(A) <= l.count + 2 /\ l.count + 2 <= Cardinality(B)
  BY DEF ReadSound
<1> HIDE DEF A, A2, B, B2
<1>7. Cardinality(A \cup {n}) = Cardinality(A) + 1 /\ Cardinality(B2) = Cardinality(B) + 1
  BY <1>4, <1>5, OneMore
<1>8. Cardinality(A2) <= Cardinality(A \cup {n}) /\ Cardinality(A2) \in Nat
  BY <1>4, NoMore
<1>9. Cardinality(A) \in Nat /\ Cardinality(B) \in Nat
  BY <1>4, <1>5, NamesFinite
<1>10. Cardinality(A2) <= m.count + 2 /\ m.count + 2 <= Cardinality(B2)
  BY <1>1, <1>2, <1>6, <1>7, <1>8, <1>9
<1>11. m.op = "count" /\ m.always \subseteq P /\ m.left \subseteq m.ever \cup Dots
  BY <1>1 DEF ReadSound, SameBut
<1>12. ReadSound(m, P, L)
  BY <1>10, <1>11 DEF ReadSound, A2, B2
<1> QED BY <1>12 DEF m

\* A listing takes them.
LEMMA ListedSound ==
  ASSUME NEW l \in ListingSet, RoomLeft(l), NEW P, NEW L, ReadSound(l, P, L), NEW n \in Names,
         n \in l.left, l.op = "list"
  PROVE  ReadSound(Listed(l, n), P, L)
<1> DEFINE m == Listed(l, n)
<1>1. /\ m.op = l.op /\ m.links = l.links /\ m.left = l.left \ {n} /\ m.got = l.got \cup {n}
      /\ m.always = l.always /\ m.ever = l.ever
  BY ListedFacts
<1> HIDE DEF m
<1>2. Seen(m, L) = Seen(l, L) /\ n \in l.ever
  BY <1>1, FileAssumption DEF Seen, ReadSound
<1>3. ReadSound(m, P, L)
  BY <1>1, <1>2 DEF ReadSound
<1> QED BY <1>3 DEF m

\* Nothing has been read yet.
LEMMA OpenedSound ==
  ASSUME NEW op \in {"list", "count"}, NEW links \in BOOLEAN, NEW F \in SUBSET Names, NEW L
  PROVE  ReadSound(Opened(op, links, F), F, L) /\ RoomLeft(Opened(op, links, F))
<1> DEFINE m == Opened(op, links, F)
<1>1. /\ m \in ListingSet /\ m.op = op /\ m.left = F \cup Dots /\ m.head = 0 /\ m.size = 0 /\ m.got = {}
      /\ m.count = -2 /\ m.always = F /\ m.ever = F
  BY OpenedFacts
<1> HIDE DEF m
<1>2. (Seen(m, L) \cup Dots) \ m.left = {} /\ (m.ever \cup Dots) \ m.left = {}
  BY <1>1 DEF Seen
<1>3. Cardinality((Seen(m, L) \cup Dots) \ m.left) = 0 /\ Cardinality((m.ever \cup Dots) \ m.left) = 0
  BY <1>2, FS_EmptySet
<1>4. Seen(m, L) \subseteq m.got \cup m.left /\ m.got \subseteq m.ever
  BY <1>1 DEF Seen
<1>5. m.count + 2 = 0
  BY <1>1
<1>6. ReadSound(m, F, L) /\ RoomLeft(m)
  <2>1. RoomLeft(m)
    BY <1>1 DEF RoomLeft
  <2>2. m.always \subseteq F /\ m.left \subseteq m.ever \cup Dots
    BY <1>1
  <2> QED BY <1>3, <1>4, <1>5, <2>1, <2>2 DEF ReadSound
<1> QED BY <1>6 DEF m
-----------------------------------------------------------------------------
(* Names come and go. *)

\* A listing m that goes on as l when the names A change in the directory.
Follows(m, l, A) ==
  /\ m \in ListingSet /\ SameBut(m, l) /\ m.count = l.count
  /\ m.always \subseteq l.always \ A /\ l.ever \subseteq m.ever
  /\ l.left \subseteq m.left /\ m.left \subseteq l.left \cup (m.ever \ l.ever)

ListingsFollow(A) ==
  /\ listing' = [e \in FileExecutors |-> listing'[e]]
  /\ \A e \in FileExecutors :
       IF listing[e].stage = "done" THEN listing'[e] = listing[e] ELSE Follows(listing'[e], listing[e], A)

LEMMA GoneStep == ASSUME FilesTypeOK, NEW A, Gone(A) PROVE ListingsFollow(A)
<1>1. listing \in [FileExecutors -> ListingSet]
  BY DEF FilesTypeOK
<1>2. /\ listing' = [e \in FileExecutors |-> listing'[e]]
      /\ \A e \in FileExecutors :
           listing'[e] = IF listing[e].stage = "done" THEN listing[e] ELSE [listing[e] EXCEPT !.always = @ \ A]
  BY DEF Gone
<1>3. ASSUME NEW l \in ListingSet PROVE Follows([l EXCEPT !.always = @ \ A], l, A)
  <2> DEFINE m == Known(l, l.always \ A, l.ever, l.left)
  <2>1. l.always \ A \in SUBSET Names /\ l.ever \in SUBSET Names /\ l.left \in SUBSET (Names \cup Dots)
    BY DEF ListingSet
  <2>2. /\ m \in ListingSet /\ SameBut(m, l) /\ m.count = l.count
        /\ m.always = l.always \ A /\ m.ever = l.ever /\ m.left = l.left
    BY <2>1, KnownFacts
  <2>3. m = [l EXCEPT !.always = @ \ A]
    BY DEF Known, ListingSet
  <2> HIDE DEF m
  <2>4. Follows(m, l, A)
    BY <2>2 DEF Follows
  <2> QED BY <2>3, <2>4
<1> QED BY <1>1, <1>2, <1>3 DEF ListingsFollow

LEMMA AppearsStep ==
  ASSUME FilesTypeOK, NEW n \in Names, NEW A, Appears(n, A) PROVE ListingsFollow(A)
<1>1. listing \in [FileExecutors -> ListingSet]
  BY DEF FilesTypeOK
<1> DEFINE next(l, in) == [l EXCEPT !.always = @ \ A, !.ever = @ \cup {n},
                                    !.left = IF in /\ n \notin l.ever THEN @ \cup {n} ELSE @]
<1>2. PICK E \in SUBSET {e \in FileExecutors : listing[e].stage = "read"} :
        listing' = [e \in FileExecutors |-> IF listing[e].stage = "done" THEN listing[e]
                                            ELSE next(listing[e], e \in E)]
  BY DEF Appears
<1>3. /\ listing' = [e \in FileExecutors |-> listing'[e]]
      /\ \A e \in FileExecutors :
           listing'[e] = IF listing[e].stage = "done" THEN listing[e] ELSE next(listing[e], e \in E)
  BY <1>2
<1>4. ASSUME NEW l \in ListingSet, NEW in \in BOOLEAN PROVE Follows(next(l, in), l, A)
  <2> DEFINE F == IF in /\ n \notin l.ever THEN l.left \cup {n} ELSE l.left
             m == Known(l, l.always \ A, l.ever \cup {n}, F)
  <2>1. /\ l.always \ A \in SUBSET Names /\ l.ever \cup {n} \in SUBSET Names /\ F \in SUBSET (Names \cup Dots)
        /\ F \subseteq l.left \cup ((l.ever \cup {n}) \ l.ever) /\ l.left \subseteq F
    BY DEF ListingSet
  <2>2. next(l, in) = m
    BY DEF Known
  <2> HIDE DEF F
  <2>3. /\ m \in ListingSet /\ SameBut(m, l) /\ m.count = l.count
        /\ m.always = l.always \ A /\ m.ever = l.ever \cup {n} /\ m.left = F
    BY <2>1, KnownFacts
  <2> HIDE DEF m
  <2>4. Follows(m, l, A)
    BY <2>1, <2>3 DEF Follows
  <2> HIDE DEF next
  <2> QED BY <2>2, <2>4
<1> HIDE DEF next
<1>5. \A e \in FileExecutors : (e \in E) \in BOOLEAN
  OBVIOUS
<1> QED BY <1>1, <1>3, <1>4, <1>5 DEF ListingsFollow

\* Then all listings stay sound.
LEMMA ListingsKept ==
  ASSUME FilesTypeOK, ReadsSound, NEW A, ListingsFollow(A),
         \A x \in Present \ A : x \in Present' /\ (x \in Links => x \in Links')
  PROVE  listing' \in [FileExecutors -> ListingSet] /\ ReadsSound'
<1>1. listing \in [FileExecutors -> ListingSet]
  BY DEF FilesTypeOK
<1>2. ASSUME NEW e \in FileExecutors
      PROVE  /\ listing'[e] \in ListingSet /\ RoomLeft(listing'[e])
             /\ listing'[e].stage = "read" => ReadSound(listing'[e], Present', Links')
  <2>1. RoomLeft(listing[e]) /\ (listing[e].stage = "read" => ReadSound(listing[e], Present, Links))
    BY DEF ReadsSound
  <2>2. CASE listing[e].stage = "done"
    BY <1>1, <2>1, <2>2 DEF ListingsFollow
  <2>3. CASE listing[e].stage # "done"
    <3> DEFINE l == listing[e]
               m == listing'[e]
    <3>1. l \in ListingSet /\ l.stage = "read"
      BY <1>1, <2>3 DEF ListingSet
    <3>2. Follows(m, l, A)
      BY <2>3 DEF ListingsFollow
    <3>3. ReadSound(l, Present, Links) /\ RoomLeft(l)
      BY <2>1, <3>1
    <3> HIDE DEF l, m
    <3>4. /\ m \in ListingSet /\ m.op = l.op /\ m.links = l.links /\ m.got = l.got /\ m.count = l.count
          /\ m.always \subseteq l.always /\ l.ever \subseteq m.ever
          /\ l.left \subseteq m.left /\ m.left \subseteq l.left \cup (m.ever \ l.ever)
      BY <3>2 DEF Follows, SameBut
    <3>5. m.always \subseteq Present' /\ m.always \cap Links \subseteq Links'
      BY <3>2, <3>3 DEF Follows, ReadSound
    <3>6. ReadSound(m, Present', Links')
      BY <3>1, <3>3, <3>4, <3>5, ReadKept
    <3>7. RoomLeft(m)
      BY <3>2, <3>3 DEF Follows, SameBut, RoomLeft
    <3> QED BY <3>4, <3>6, <3>7 DEF m
  <2> QED BY <2>2, <2>3
<1>3. listing' \in [FileExecutors -> ListingSet]
  <2>1. listing' = [e \in FileExecutors |-> listing'[e]]
    BY DEF ListingsFollow
  <2> QED BY <1>2, <2>1
<1> QED BY <1>2, <1>3 DEF ReadsSound

\* A name that is not touched stays what it is.
LEMMA NameKept ==
  ASSUME FilesTypeOK, NEW x \in Present, entries'[x] = entries[x],
         files' = files \/ \E t : files' = Append(files, t)
  PROVE  x \in Present' /\ (x \in Links => x \in Links')
<1>1. x \in Names /\ entries[x] # 0 /\ entries[x] \in 1..Len(files) /\ files \in Seq(FileTypes)
  BY DEF FilesTypeOK, Present
<1>2. files'[entries[x]] = files[entries[x]]
  BY <1>1
<1> QED BY <1>1, <1>2 DEF Present, Links, Type

\* Creators keep their files, or are excused.
LEMMA CreatorsStay ==
  ASSUME FilesTypeOK, CreatorsKept, ExclusiveCreate, fstreams' = fstreams, excused \subseteq excused',
         \A x \in Names : entries'[x] = entries[x] \/ entries[x] = 0 \/ x \in excused'
  PROVE  CreatorsKept' /\ ExclusiveCreate'
<1>1. ASSUME NEW s \in Slots, fstreams[s].mode = "CreateNew", fstreams[s].file # 0
      PROVE  fstreams[s].path \in excused' \/ entries'[fstreams[s].path] = fstreams[s].file
  <2>1. fstreams[s].path \in Names
    BY <1>1 DEF CreatorsKept, NoFile
  <2> QED BY <1>1, <2>1 DEF CreatorsKept
<1>2. CreatorsKept'
  BY <1>1 DEF CreatorsKept
<1> QED BY <1>2 DEF ExclusiveCreate
-----------------------------------------------------------------------------
(* Every step keeps the invariant. *)

LEMMA FilesInvParts == FilesInv <=> FilesTypeOK /\ CreatorsKept /\ ExclusiveCreate /\ ReadsSound
BY DEF FilesInv

\* A step that leaves the directory, the streams and the listings alone.
LEMMA QuietStep == FilesInv /\ UNCHANGED <<entries, files, fstreams, listing, excused>> => FilesInv'
<1> SUFFICES ASSUME FilesInv, UNCHANGED <<entries, files, fstreams, listing, excused>> PROVE FilesInv'
  OBVIOUS
<1>1. Present' = Present /\ Links' = Links
  BY DEF Present, Links, Type
<1> QED BY <1>1 DEF FilesInv, FilesTypeOK, CreatorsKept, ExclusiveCreate, ReadsSound

\* One that changes the names A of the directory.
LEMMA DirectoryStep ==
  ASSUME FilesInv, NEW A, ListingsFollow(A), fstreams' = fstreams,
         excused \subseteq excused', excused' \subseteq Names,
         files' = files \/ \E t \in FileTypes : files' = Append(files, t),
         entries' \in [Names -> 0..Len(files')],
         \A x \in Names \ A : entries'[x] = entries[x] \/ entries[x] = 0,
         \A x \in Names : x \in A => entries[x] = 0 \/ x \in excused'
  PROVE  FilesInv'
<1>1. FilesTypeOK /\ CreatorsKept /\ ExclusiveCreate /\ ReadsSound
  BY FilesInvParts
<1>2. \A x \in Present \ A : x \in Present' /\ (x \in Links => x \in Links')
  <2> SUFFICES ASSUME NEW x \in Present \ A PROVE x \in Present' /\ (x \in Links => x \in Links')
    OBVIOUS
  <2>1. entries'[x] = entries[x]
    BY DEF Present
  <2> QED BY <1>1, <2>1, NameKept
<1>3. listing' \in [FileExecutors -> ListingSet] /\ ReadsSound'
  BY <1>1, <1>2, ListingsKept
<1>4. CreatorsKept' /\ ExclusiveCreate'
  BY <1>1, CreatorsStay
<1>5. files' \in Seq(FileTypes)
  <2>1. files \in Seq(FileTypes) /\ \A t \in FileTypes : Append(files, t) \in Seq(FileTypes)
    BY <1>1 DEF FilesTypeOK
  <2> QED BY <2>1
<1> QED BY <1>1, <1>3, <1>4, <1>5 DEF FilesInv, FilesTypeOK

\* A directory is made.
LEMMA CreateFileDirStep ==
  FilesInv /\ (\E e \in FileExecutors, n \in Names : CreateFileDir(e, n)) => FilesInv'
<1> SUFFICES ASSUME FilesInv, NEW e \in FileExecutors, NEW n \in Names, CreateFileDir(e, n) PROVE FilesInv'
  OBVIOUS
<1>1. FilesTypeOK
  BY FilesInvParts
<1>2. CASE entries[n] # 0
  BY <1>2, QuietStep DEF CreateFileDir
<1>3. CASE entries[n] = 0
  <2>1. /\ entries' = [entries EXCEPT ![n] = Len(files) + 1] /\ files' = Append(files, "Directory")
        /\ Appears(n, {}) /\ fstreams' = fstreams /\ excused' = excused
    BY <1>3 DEF CreateFileDir
  <2>2. ListingsFollow({})
    BY <1>1, <2>1, AppearsStep
  <2>3. "Directory" \in FileTypes /\ files \in Seq(FileTypes) /\ entries \in [Names -> 0..Len(files)] /\ excused \subseteq Names
    BY <1>1 DEF FilesTypeOK, FileTypes
  <2>4. Len(files') = Len(files) + 1 /\ Len(files) \in Nat
    BY <2>1, <2>3
  <2>5. entries' \in [Names -> 0..Len(files')]
    BY <2>1, <2>3, <2>4
  <2>6. \A x \in Names : entries'[x] = entries[x] \/ entries[x] = 0
    BY <1>3, <2>1, <2>3
  <2> QED BY <2>1, <2>2, <2>3, <2>5, <2>6, DirectoryStep
<1> QED BY <1>2, <1>3

\* A name is removed.
LEMMA RemoveStep ==
  FilesInv /\ (\E e \in FileExecutors, n \in Names, op \in {"remove", "rmdir"} : Remove(e, n, op)) => FilesInv'
<1> SUFFICES ASSUME FilesInv, NEW e \in FileExecutors, NEW n \in Names, NEW op \in {"remove", "rmdir"},
                    Remove(e, n, op)
             PROVE  FilesInv'
  OBVIOUS
<1>1. FilesTypeOK
  BY FilesInvParts
<1>2. CASE UNCHANGED <<entries, excused, listing>>
  BY <1>2, QuietStep DEF Remove
<1>3. CASE entries' = [entries EXCEPT ![n] = 0] /\ excused' = excused \cup {n} /\ Gone({n})
  <2>1. files' = files /\ fstreams' = fstreams
    BY DEF Remove
  <2>2. ListingsFollow({n})
    BY <1>1, <1>3, GoneStep
  <2>3. files \in Seq(FileTypes) /\ entries \in [Names -> 0..Len(files)] /\ excused \subseteq Names
    BY <1>1 DEF FilesTypeOK
  <2>4. entries' \in [Names -> 0..Len(files')]
    BY <1>3, <2>1, <2>3
  <2>5. \A x \in Names \ {n} : entries'[x] = entries[x]
    BY <1>3, <2>3
  <2>6. excused \subseteq excused' /\ excused' \subseteq Names /\ n \in excused'
    BY <1>3, <2>3
  <2> QED BY <2>1, <2>2, <2>4, <2>5, <2>6, DirectoryStep
<1> QED BY <1>2, <1>3 DEF Remove

\* A name is given to what another stood for.
LEMMA RenameStep ==
  FilesInv /\ (\E e \in FileExecutors, old, new \in Names : RenameFile(e, old, new)) => FilesInv'
<1> SUFFICES ASSUME FilesInv, NEW e \in FileExecutors, NEW old \in Names, NEW new \in Names, RenameFile(e, old, new)
             PROVE  FilesInv'
  OBVIOUS
<1>1. FilesTypeOK
  BY FilesInvParts
<1>2. CASE UNCHANGED <<entries, excused, listing>>
  BY <1>2, QuietStep DEF RenameFile
<1>3. CASE /\ entries' = [entries EXCEPT ![old] = 0, ![new] = entries[old]]
           /\ excused' = excused \cup {old, new} /\ Appears(new, {old, new})
  <2>1. files' = files /\ fstreams' = fstreams
    BY DEF RenameFile
  <2>2. ListingsFollow({old, new})
    BY <1>1, <1>3, AppearsStep
  <2>3. files \in Seq(FileTypes) /\ entries \in [Names -> 0..Len(files)] /\ excused \subseteq Names
    BY <1>1 DEF FilesTypeOK
  <2>4. entries' \in [Names -> 0..Len(files')]
    BY <1>3, <2>1, <2>3
  <2>5. \A x \in Names \ {old, new} : entries'[x] = entries[x]
    BY <1>3, <2>3
  <2>6. excused \subseteq excused' /\ excused' \subseteq Names /\ old \in excused' /\ new \in excused'
    BY <1>3, <2>3
  <2> QED BY <2>1, <2>2, <2>4, <2>5, <2>6, DirectoryStep
<1> QED BY <1>2, <1>3 DEF RenameFile
-----------------------------------------------------------------------------
(* Streams. *)

Creator(f) == f.mode = "CreateNew" /\ f.file # 0

\* Stream s becomes r: creators keep their files all the same.
LEMMA FileStreamStep ==
  ASSUME FilesTypeOK, CreatorsKept, ExclusiveCreate, NEW s \in Slots, NEW r \in FileStreamSet,
         fstreams' = [fstreams EXCEPT ![s] = r], r = NoFile \/ r.path \in Names, excused \subseteq excused',
         \A t \in Slots \ {s} : Creator(fstreams[t]) =>
           fstreams[t].path \in excused' \/ entries'[fstreams[t].path] = fstreams[t].file,
         Creator(r) => /\ entries'[r.path] = r.file
                       /\ \A t \in Slots \ {s} : Creator(fstreams[t]) /\ fstreams[t].path = r.path => r.path \in excused'
  PROVE  fstreams' \in [Slots -> FileStreamSet] /\ CreatorsKept' /\ ExclusiveCreate'
<1>1. fstreams \in [Slots -> FileStreamSet]
  BY DEF FilesTypeOK
<1>2. fstreams'[s] = r /\ \A t \in Slots \ {s} : fstreams'[t] = fstreams[t]
  BY <1>1
<1>3. fstreams' \in [Slots -> FileStreamSet]
  BY <1>1
<1>4. CreatorsKept'
  <2>1. \A t \in Slots : fstreams'[t] = NoFile \/ fstreams'[t].path \in Names
    BY <1>2 DEF CreatorsKept
  <2>2. \A t \in Slots : Creator(fstreams'[t]) =>
          fstreams'[t].path \in excused' \/ entries'[fstreams'[t].path] = fstreams'[t].file
    BY <1>2
  <2> QED BY <2>1, <2>2 DEF CreatorsKept, Creator
<1>5. ExclusiveCreate'
  <2> SUFFICES ASSUME NEW t \in Slots, NEW u \in Slots, t # u, Creator(fstreams'[t]), Creator(fstreams'[u]),
                      fstreams'[t].path = fstreams'[u].path
               PROVE  fstreams'[t].path \in excused'
    BY DEF ExclusiveCreate, Creator
  <2>1. CASE t # s /\ u # s
    BY <1>2, <2>1 DEF ExclusiveCreate, Creator
  <2>2. CASE t = s
    BY <1>2, <2>2
  <2>3. CASE u = s
    BY <1>2, <2>3
  <2> QED BY <2>1, <2>2, <2>3
<1> QED BY <1>3, <1>4, <1>5

\* A new stream takes the place of none.
LEMMA FreeSlotFacts ==
  ASSUME \E s \in Slots : fstreams[s] = NoFile
  PROVE  FreeSlot \in Slots /\ fstreams[FreeSlot] = NoFile
<1> DEFINE S == {s \in Slots : fstreams[s] = NoFile}
<1>1. S \subseteq Nat /\ S # {}
  BY FileAssumption
<1> HIDE DEF S
<1>2. PICK x \in S : \A y \in S : ~ (<<y, x>> \in OpToRel(<, Nat))
  BY <1>1, NatLessThanWellFounded, WFMin
<1>3. \A y \in S : x <= y
  <2> SUFFICES ASSUME NEW y \in S, y < x PROVE FALSE
    BY <1>1
  <2>1. <<y, x>> \in OpToRel(<, Nat)
    BY <1>1 DEF OpToRel
  <2> QED BY <1>2, <2>1
<1>4. \E s \in Slots : fstreams[s] = NoFile /\ \A y \in Slots : fstreams[y] = NoFile => s <= y
  BY <1>3 DEF S
<1> QED BY <1>4 DEF FreeSlot

\* Only a file that was not there is created exclusively.
LEMMA OpenStep ==
  FilesInv /\ (\E e \in FileExecutors, n \in Names, m \in Modes, auto \in BOOLEAN : OpenFileStream(e, n, m, auto))
    => FilesInv'
<1> SUFFICES ASSUME FilesInv, NEW e \in FileExecutors, NEW n \in Names, NEW m \in Modes, NEW auto \in BOOLEAN,
                    OpenFileStream(e, n, m, auto)
             PROVE  FilesInv'
  OBVIOUS
<1> DEFINE new == Len(files) + 1
           rec(f) == [path |-> n, mode |-> m, auto |-> auto, file |-> f]
           s == FreeSlot
<1>1. FilesTypeOK /\ CreatorsKept /\ ExclusiveCreate /\ ReadsSound
  BY FilesInvParts
<1>2. /\ files \in Seq(FileTypes) /\ entries \in [Names -> 0..Len(files)] /\ excused \subseteq Names
      /\ fstreams \in [Slots -> FileStreamSet] /\ Len(files) \in Nat
  BY <1>1 DEF FilesTypeOK
<1>3. s \in Slots /\ fstreams[s] = NoFile
  BY FreeSlotFacts DEF OpenFileStream
<1> HIDE DEF s
<1>4. \A f \in Nat : rec(f) \in FileStreamSet /\ rec(f).path = n /\ rec(f).mode = m /\ rec(f).file = f
  BY DEF FileStreamSet
<1>5. \A t \in Slots \ {s} : Creator(fstreams[t]) =>
        /\ fstreams[t].path \in Names
        /\ fstreams[t].path \in excused \/ entries[fstreams[t].path] = fstreams[t].file
  BY <1>1 DEF CreatorsKept, Creator, NoFile
<1>6. excused' = excused
  BY DEF OpenFileStream
<1>7. CASE /\ entries[n] = 0 /\ entries' = [entries EXCEPT ![n] = new]
           /\ files' = Append(files, "Regular") /\ Appears(n, {})
           /\ fstreams' = [fstreams EXCEPT ![s] = rec(new)]
  <2> DEFINE r == rec(new)
  <2>1. r \in FileStreamSet /\ r.path = n /\ r.file = new
    BY <1>2, <1>4
  <2>2. fstreams' = [fstreams EXCEPT ![s] = r]
    BY <1>7
  <2> HIDE DEF r
  <2>3. ListingsFollow({})
    BY <1>1, <1>7, AppearsStep
  <2>4. \A x \in Present : x \in Present' /\ (x \in Links => x \in Links')
    <3> SUFFICES ASSUME NEW x \in Present PROVE x \in Present' /\ (x \in Links => x \in Links')
      OBVIOUS
    <3>1. entries'[x] = entries[x]
      BY <1>2, <1>7 DEF Present
    <3> QED BY <1>1, <1>7, <3>1, NameKept
  <2>5. listing' \in [FileExecutors -> ListingSet] /\ ReadsSound'
    BY <1>1, <2>3, <2>4, ListingsKept
  <2>6. entries'[n] = new /\ \A x \in Names \ {n} : entries'[x] = entries[x]
    BY <1>2, <1>7
  <2>7. \A t \in Slots \ {s} : Creator(fstreams[t]) =>
          fstreams[t].path \in excused' \/ entries'[fstreams[t].path] = fstreams[t].file
    <3> SUFFICES ASSUME NEW t \in Slots \ {s}, Creator(fstreams[t])
                 PROVE  fstreams[t].path \in excused' \/ entries'[fstreams[t].path] = fstreams[t].file
      OBVIOUS
    <3>1. CASE fstreams[t].path = n
      BY <1>5, <1>6, <1>7, <3>1 DEF Creator
    <3>2. CASE fstreams[t].path # n
      BY <1>5, <1>6, <2>6, <3>2
    <3> QED BY <3>1, <3>2
  <2>8. \A t \in Slots \ {s} : Creator(fstreams[t]) /\ fstreams[t].path = n => n \in excused'
    BY <1>5, <1>6, <1>7 DEF Creator
  <2>9. fstreams' \in [Slots -> FileStreamSet] /\ CreatorsKept' /\ ExclusiveCreate'
    BY <1>1, <1>3, <1>6, <2>1, <2>2, <2>6, <2>7, <2>8, FileStreamStep
  <2>10. "Regular" \in FileTypes
    BY DEF FileTypes
  <2>11. files' \in Seq(FileTypes) /\ Len(files') = new
    BY <1>2, <1>7, <2>10
  <2>12. entries' \in [Names -> 0..Len(files')]
    BY <1>2, <1>7, <2>11
  <2> QED BY <1>2, <1>6, <2>5, <2>9, <2>11, <2>12 DEF FilesInv, FilesTypeOK
<1>8. ASSUME NEW f \in Nat, fstreams' = [fstreams EXCEPT ![s] = rec(f)], m = "CreateNew" => f = 0,
             UNCHANGED <<entries, files, listing>>
      PROVE  FilesInv'
  <2> DEFINE r == rec(f)
  <2>1. r \in FileStreamSet /\ r.path = n /\ ~Creator(r)
    BY <1>4, <1>8 DEF Creator
  <2>2. fstreams' = [fstreams EXCEPT ![s] = r]
    BY <1>8
  <2> HIDE DEF r
  <2>3. \A t \in Slots \ {s} : Creator(fstreams[t]) =>
          fstreams[t].path \in excused' \/ entries'[fstreams[t].path] = fstreams[t].file
    BY <1>5, <1>6, <1>8
  <2>4. fstreams' \in [Slots -> FileStreamSet] /\ CreatorsKept' /\ ExclusiveCreate'
    BY <1>1, <1>3, <1>6, <2>1, <2>2, <2>3, FileStreamStep
  <2>5. Present' = Present /\ Links' = Links
    BY <1>8 DEF Present, Links, Type
  <2>6. ReadsSound'
    BY <1>1, <1>8, <2>5 DEF ReadsSound
  <2> QED BY <1>1, <1>6, <1>8, <2>4, <2>6 DEF FilesInv, FilesTypeOK
<1>9. entries[n] \in Nat /\ 0 \in Nat
  BY <1>2
<1>10. CASE fstreams' = [fstreams EXCEPT ![s] = rec(0)] /\ UNCHANGED <<entries, files, listing>>
  BY <1>8, <1>9, <1>10
<1>11. CASE ~Exclusive(m) /\ fstreams' = [fstreams EXCEPT ![s] = rec(entries[n])] /\ UNCHANGED <<entries, files, listing>>
  BY <1>8, <1>9, <1>11 DEF Exclusive
<1> QED BY <1>7, <1>10, <1>11 DEF OpenFileStream, s

\* A file that is freed with its stream excuses every other creator of its
\* name.
LEMMA FreeStep == FilesInv /\ (\E s \in Slots : FreeFileStream(s)) => FilesInv'
<1> SUFFICES ASSUME FilesInv, NEW s \in Slots, FreeFileStream(s) PROVE FilesInv'
  OBVIOUS
<1> DEFINE f == fstreams[s]
           p == f.path
<1>1. FilesTypeOK /\ CreatorsKept /\ ExclusiveCreate /\ ReadsSound
  BY FilesInvParts
<1>2. /\ files \in Seq(FileTypes) /\ entries \in [Names -> 0..Len(files)] /\ excused \subseteq Names
      /\ fstreams \in [Slots -> FileStreamSet] /\ Len(files) \in Nat
  BY <1>1 DEF FilesTypeOK
<1>3. f # NoFile /\ fstreams' = [fstreams EXCEPT ![s] = NoFile] /\ files' = files
  BY DEF FreeFileStream
<1>4. p \in Names
  BY <1>1, <1>3 DEF CreatorsKept
<1>5. NoFile \in FileStreamSet /\ ~Creator(NoFile)
  BY DEF NoFile, FileStreamSet, Creator
<1>6. \A t \in Slots : Creator(fstreams[t]) =>
        /\ fstreams[t].path \in Names
        /\ fstreams[t].path \in excused \/ entries[fstreams[t].path] = fstreams[t].file
  BY <1>1 DEF CreatorsKept, Creator, NoFile
<1>7. CASE UNCHANGED <<entries, excused, listing>>
  <2>1. Present' = Present /\ Links' = Links
    BY <1>3, <1>7 DEF Present, Links, Type
  <2>2. ReadsSound'
    BY <1>1, <1>7, <2>1 DEF ReadsSound
  <2>3. fstreams' \in [Slots -> FileStreamSet] /\ CreatorsKept' /\ ExclusiveCreate'
    BY <1>1, <1>3, <1>5, <1>6, <1>7, FileStreamStep
  <2> QED BY <1>1, <1>3, <1>7, <2>2, <2>3 DEF FilesInv, FilesTypeOK
<1>8. CASE /\ Type(p) \in {"Regular", "Symlink"} /\ entries' = [entries EXCEPT ![p] = 0]
           /\ excused' = IF f.mode = "CreateNew" /\ entries[p] = f.file THEN excused ELSE excused \cup {p}
           /\ Gone({p})
  <2>1. ListingsFollow({p})
    BY <1>1, <1>8, GoneStep
  <2>2. \A x \in Present \ {p} : x \in Present' /\ (x \in Links => x \in Links')
    <3> SUFFICES ASSUME NEW x \in Present \ {p} PROVE x \in Present' /\ (x \in Links => x \in Links')
      OBVIOUS
    <3>1. entries'[x] = entries[x]
      BY <1>2, <1>8 DEF Present
    <3> QED BY <1>1, <1>3, <3>1, NameKept
  <2>3. listing' \in [FileExecutors -> ListingSet] /\ ReadsSound'
    BY <1>1, <2>1, <2>2, ListingsKept
  <2>4. excused \subseteq excused' /\ excused' \subseteq Names
    BY <1>2, <1>4, <1>8
  <2>5. entries[p] # 0
    BY <1>8 DEF Type
  <2>6. \A t \in Slots \ {s} : Creator(fstreams[t]) =>
          fstreams[t].path \in excused' \/ entries'[fstreams[t].path] = fstreams[t].file
    <3> SUFFICES ASSUME NEW t \in Slots \ {s}, Creator(fstreams[t])
                 PROVE  fstreams[t].path \in excused' \/ entries'[fstreams[t].path] = fstreams[t].file
      OBVIOUS
    <3>1. CASE fstreams[t].path # p
      BY <1>2, <1>6, <1>8, <2>4, <3>1
    <3>2. CASE fstreams[t].path = p
      <4>1. CASE f.mode = "CreateNew" /\ entries[p] = f.file
        BY <1>1, <2>4, <2>5, <3>2, <4>1 DEF ExclusiveCreate, Creator
      <4>2. CASE ~(f.mode = "CreateNew" /\ entries[p] = f.file)
        BY <1>8, <3>2, <4>2
      <4> QED BY <4>1, <4>2
    <3> QED BY <3>1, <3>2
  <2>7. fstreams' \in [Slots -> FileStreamSet] /\ CreatorsKept' /\ ExclusiveCreate'
    BY <1>1, <1>3, <1>5, <2>4, <2>6, FileStreamStep
  <2>8. entries' \in [Names -> 0..Len(files')]
    <3>1. 0 \in 0..Len(files) /\ entries' = [entries EXCEPT ![p] = 0]
      BY <1>2, <1>8
    <3> QED BY <1>2, <1>3, <3>1
  <2> QED BY <1>2, <1>3, <2>3, <2>4, <2>7, <2>8 DEF FilesInv, FilesTypeOK
<1> QED BY <1>7, <1>8 DEF FreeFileStream
-----------------------------------------------------------------------------
(* Listings, step by step. *)

\* One executor's listing becomes m.
LEMMA ListingStep ==
  ASSUME FilesInv, UNCHANGED <<entries, files, fstreams, excused>>,
         NEW e \in FileExecutors, NEW m \in ListingSet, listing' = [listing EXCEPT ![e] = m],
         RoomLeft(m), m.stage = "read" => ReadSound(m, Present, Links)
  PROVE  FilesInv'
<1>1. FilesTypeOK /\ CreatorsKept /\ ExclusiveCreate /\ ReadsSound
  BY FilesInvParts
<1>2. Present' = Present /\ Links' = Links
  BY DEF Present, Links, Type
<1>3. listing \in [FileExecutors -> ListingSet]
  BY <1>1 DEF FilesTypeOK
<1>4. listing'[e] = m /\ \A d \in FileExecutors \ {e} : listing'[d] = listing[d]
  BY <1>3
<1>5. ReadsSound'
  BY <1>1, <1>2, <1>4 DEF ReadsSound
<1>6. listing' \in [FileExecutors -> ListingSet]
  BY <1>3
<1>7. FilesTypeOK' /\ CreatorsKept' /\ ExclusiveCreate'
  BY <1>1, <1>6 DEF FilesTypeOK, CreatorsKept, ExclusiveCreate
<1> QED BY <1>5, <1>7 DEF FilesInv

LEMMA OpenDirStep ==
  FilesInv /\ (\E e \in FileExecutors, op \in {"list", "count"}, links \in BOOLEAN : OpenDir(e, op, links))
    => FilesInv'
<1> SUFFICES ASSUME FilesInv, NEW e \in FileExecutors, NEW op \in {"list", "count"}, NEW links \in BOOLEAN,
                    OpenDir(e, op, links)
             PROVE  FilesInv'
  OBVIOUS
<1>1. CASE UNCHANGED listing
  BY <1>1, QuietStep DEF OpenDir
<1>2. CASE listing' = [listing EXCEPT ![e] = Opened(op, links, Present)]
  <2> DEFINE m == Opened(op, links, Present)
  <2>1. Present \in SUBSET Names
    BY DEF Present
  <2>2. m \in ListingSet
    BY <2>1, OpenedFacts
  <2>3. ReadSound(m, Present, Links) /\ RoomLeft(m)
    BY <2>1, OpenedSound
  <2>4. UNCHANGED <<entries, files, fstreams, excused>> /\ listing' = [listing EXCEPT ![e] = m]
    BY <1>2 DEF OpenDir
  <2> HIDE DEF m
  <2> QED BY <2>2, <2>3, <2>4, ListingStep
<1> QED BY <1>1, <1>2 DEF OpenDir, Opened

\* What is passed over is a link that is not asked for, one of the dots, or
\* gone.
LEMMA ReadDirStep ==
  FilesInv /\ (\E e \in FileExecutors, n \in Names \cup Dots : ReadDir(e, n)) => FilesInv'
<1> SUFFICES ASSUME FilesInv, NEW e \in FileExecutors, NEW n \in Names \cup Dots, ReadDir(e, n) PROVE FilesInv'
  OBVIOUS
<1> DEFINE l == listing[e]
           passes == \/ ~l.links /\ n \in Names /\ Type(n) = "Symlink"
                     \/ l.op = "list" /\ n \in Dots
                     \/ n \in Names /\ entries[n] = 0
           m == IF passes THEN Passed(l, n) ELSE IF l.op = "list" THEN Listed(l, n) ELSE Counted(l, n)
<1>1. FilesTypeOK /\ ReadsSound
  BY FilesInvParts
<1>2. l \in ListingSet
  BY <1>1 DEF FilesTypeOK
<1>3. l.stage = "read" /\ n \in l.left /\ UNCHANGED <<entries, files, fstreams, excused>>
  BY DEF ReadDir
<1>4. listing' = [listing EXCEPT ![e] = m]
  BY DEF ReadDir, Passed, Counted
<1>5. ReadSound(l, Present, Links) /\ RoomLeft(l)
  BY <1>1, <1>3 DEF ReadsSound
<1>6. Names \cap Dots = {} /\ l.always \subseteq Names
  BY <1>2, FileAssumption DEF ListingSet
<1>7. l.op = "list" \/ l.op = "count" \/ l.op = "none"
  BY <1>2 DEF ListingSet
<1> HIDE DEF l
<1>8. CASE passes
  <2>1. n \notin Seen(l, Links)
    BY <1>5, <1>6, <1>8 DEF Seen, Links, ReadSound, Present
  <2>2. l.op = "count" => n \notin Dots
    BY <1>6, <1>8
  <2>3. ReadSound(m, Present, Links)
    BY <1>2, <1>3, <1>5, <1>8, <2>1, <2>2, PassedSound
  <2>4. m \in ListingSet /\ RoomLeft(m)
    <3>1. m = Passed(l, n)
      BY <1>8
    <3>2. Passed(l, n) \in ListingSet /\ SameBut(Passed(l, n), l)
      BY <1>2, PassedFacts
    <3> HIDE DEF m
    <3> QED BY <1>5, <3>1, <3>2 DEF SameBut, RoomLeft
  <2> HIDE DEF m
  <2> QED BY <1>3, <1>4, <2>3, <2>4, ListingStep
<1>9. CASE ~passes /\ l.op = "list"
  <2>1. n \in Names
    BY <1>9
  <2>2. m = Listed(l, n)
    BY <1>9
  <2> HIDE DEF m, passes
  <2>3. m \in ListingSet /\ RoomLeft(m)
    BY <1>2, <1>3, <1>5, <2>1, <2>2, ListedFacts
  <2>4. ReadSound(m, Present, Links)
    BY <1>2, <1>3, <1>5, <1>9, <2>1, <2>2, ListedSound
  <2> QED BY <1>3, <1>4, <2>3, <2>4, ListingStep
<1>10. CASE ~passes /\ l.op # "list"
  <2>1. m = Counted(l, n)
    BY <1>10
  <2> HIDE DEF m, passes
  <2>2. m \in ListingSet /\ SameBut(m, l)
    BY <1>2, <2>1, CountedFacts
  <2>3. RoomLeft(m)
    BY <1>5, <2>2 DEF SameBut, RoomLeft
  <2>4. ReadSound(m, Present, Links)
    <3>1. CASE l.op = "count"
      BY <1>2, <1>3, <1>5, <2>1, <3>1, CountedSound
    <3>2. CASE l.op = "none"
      <4>1. /\ m.left = l.left \ {n} /\ m.always = l.always /\ m.ever = l.ever /\ m.op = "none"
        BY <1>2, <2>1, <3>2, CountedFacts DEF SameBut
      <4> QED BY <1>5, <4>1 DEF ReadSound
    <3> QED BY <1>7, <1>10, <3>1, <3>2
  <2> QED BY <1>3, <1>4, <2>2, <2>3, <2>4, ListingStep
<1> QED BY <1>8, <1>9, <1>10

\* A listing that ends, or runs out of memory.
LEMMA ListEndsStep ==
  FilesInv /\ (\E e \in FileExecutors : CloseDir(e) \/ ListAllocFails(e)) => FilesInv'
<1> SUFFICES ASSUME FilesInv, NEW e \in FileExecutors, CloseDir(e) \/ ListAllocFails(e) PROVE FilesInv'
  OBVIOUS
<1> DEFINE l == listing[e]
<1>1. l \in ListingSet /\ RoomLeft(l)
  BY FilesInvParts DEF FilesTypeOK, ReadsSound
<1>2. UNCHANGED <<entries, files, fstreams, excused>>
  BY DEF CloseDir, ListAllocFails
<1>3. CASE CloseDir(e)
  <2> DEFINE m == [l EXCEPT !.stage = "done"]
  <2>1. listing' = [listing EXCEPT ![e] = m]
    BY <1>3 DEF CloseDir
  <2>2. m \in ListingSet /\ m.stage = "done" /\ m.head = l.head /\ m.size = l.size
    BY <1>1 DEF ListingSet
  <2> HIDE DEF m
  <2>3. RoomLeft(m)
    BY <1>1, <2>2 DEF RoomLeft
  <2> QED BY <1>2, <2>1, <2>2, <2>3, ListingStep
<1>4. CASE ListAllocFails(e)
  <2>1. listing' = [listing EXCEPT ![e] = NoListing]
    BY <1>4 DEF ListAllocFails
  <2>2. NoListing \in ListingSet /\ NoListing.stage = "done" /\ RoomLeft(NoListing)
    BY DEF NoListing, ListingSet, RoomLeft
  <2> QED BY <1>2, <2>1, <2>2, ListingStep
<1> QED BY <1>3, <1>4
-----------------------------------------------------------------------------
(* The theorems about files. *)

LEMMA FilesStart == FilesInit => FilesInv
<1> SUFFICES ASSUME FilesInit PROVE FilesInv
  OBVIOUS
<1>1. files \in Seq(FileTypes) /\ entries \in [Names -> 0..Len(files)]
  BY FileAssumption DEF FilesInit
<1>2. NoFile \in FileStreamSet /\ NoFile.mode = "none"
  BY DEF NoFile, FileStreamSet
<1>3. fstreams \in [Slots -> FileStreamSet] /\ \A s \in Slots : fstreams[s] = NoFile
  BY <1>2 DEF FilesInit
<1>4. NoListing \in ListingSet /\ NoListing.stage = "done" /\ RoomLeft(NoListing)
  BY DEF NoListing, ListingSet, RoomLeft
<1>5. listing \in [FileExecutors -> ListingSet] /\ \A e \in FileExecutors : listing[e] = NoListing
  BY <1>4 DEF FilesInit
<1>6. excused \subseteq Names
  BY DEF FilesInit
<1>7. ReadsSound
  BY <1>4, <1>5 DEF ReadsSound
<1>8. CreatorsKept /\ ExclusiveCreate
  BY <1>2, <1>3 DEF CreatorsKept, ExclusiveCreate
<1> QED BY <1>1, <1>3, <1>5, <1>6, <1>7, <1>8 DEF FilesInv, FilesTypeOK

\* The invariant holds whatever executors do to one directory at once.
THEOREM FilesInductive == FilesSpec => []FilesInv
<1>1. FilesInv /\ [FilesNext]_fileVars => FilesInv'
  <2> SUFFICES ASSUME FilesInv, [FilesNext]_fileVars PROVE FilesInv'
    OBVIOUS
  <2>1. ASSUME NEW e \in FileExecutors, FileStep(e) PROVE FilesInv'
    <3>1. CASE \E n \in Names, m \in Modes, auto \in BOOLEAN : OpenFileStream(e, n, m, auto)
      BY <3>1, OpenStep
    <3>2. CASE \E n \in Names : GetFileType(e, n) \/ StatFile(e, n)
      BY <3>2, QuietStep DEF GetFileType, StatFile
    <3>3. CASE \E n \in Names : CreateFileDir(e, n)
      BY <3>3, CreateFileDirStep
    <3>4. CASE \E n \in Names, op \in {"remove", "rmdir"} : Remove(e, n, op)
      BY <3>4, RemoveStep
    <3>5. CASE \E old, new \in Names : RenameFile(e, old, new)
      BY <3>5, RenameStep
    <3>6. CASE \E op \in {"list", "count"}, links \in BOOLEAN : OpenDir(e, op, links)
      BY <3>6, OpenDirStep
    <3>7. CASE \E n \in Names \cup Dots : ReadDir(e, n)
      BY <3>7, ReadDirStep
    <3>8. CASE CloseDir(e) \/ ListAllocFails(e)
      BY <3>8, ListEndsStep
    <3> QED BY <2>1, <3>1, <3>2, <3>3, <3>4, <3>5, <3>6, <3>7, <3>8 DEF FileStep
  <2>2. CASE \E s \in Slots : FreeFileStream(s)
    BY <2>2, FreeStep
  <2>3. CASE UNCHANGED fileVars
    BY <2>3, QuietStep DEF fileVars
  <2> QED BY <2>1, <2>2, <2>3 DEF FilesNext
<1> QED BY <1>1, FilesStart, PTL DEF FilesSpec

\* A listing never writes past its buffer, has every entry that was there all
\* the time and none that never was, a count agrees with it, and CreateNew
\* is a lock, whatever happens to the directory meanwhile
\* (ref_stream_file.hpp:234, 520).
THEOREM FilesSoundHolds == FilesSpec => []FilesSound
<1>1. FilesInv => FilesSound
  <2> SUFFICES ASSUME FilesInv PROVE ListingsSound
    BY DEF FilesSound, FilesInv
  <2> SUFFICES ASSUME NEW e \in FileExecutors
               PROVE  LET l == listing[e]
                      IN /\ l.head <= l.size
                         /\ l.stage = "read" /\ l.left = {} /\ l.op = "list" =>
                              Shown(l, l.always) \subseteq l.got /\ l.got \subseteq l.ever
                         /\ l.stage = "read" /\ l.left = {} /\ l.op = "count" =>
                              Cardinality(Shown(l, l.always)) <= l.count /\ l.count <= Cardinality(l.ever)
    BY DEF ListingsSound
  <2> DEFINE l == listing[e]
  <2>1. l \in ListingSet /\ RoomLeft(l) /\ (l.stage = "read" => ReadSound(l, Present, Links))
    BY FilesInvParts DEF FilesTypeOK, ReadsSound
  <2> HIDE DEF l
  <2>2. Shown(l, l.always) = Seen(l, Links)
    BY <2>1 DEF Shown, Seen, Links, ListingSet
  <2>3. l.stage = "read" /\ l.left = {} =>
          /\ l.op = "list" => Seen(l, Links) \subseteq l.got /\ l.got \subseteq l.ever
          /\ l.op = "count" => Cardinality(Seen(l, Links)) <= l.count /\ l.count <= Cardinality(l.ever)
    BY <2>1, ReadDone
  <2> QED BY <2>1, <2>2, <2>3 DEF l, RoomLeft
<1> QED BY <1>1, FilesInductive, PTL
=============================================================================
