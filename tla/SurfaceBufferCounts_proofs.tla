--------------------- MODULE SurfaceBufferCounts_proofs ---------------------
(***************************************************************************)
(* Proofs about SurfaceBufferCounts, for any finite numbers of surfaces    *)
(* and views, any buffers, any size of the pool, and clients that reuse    *)
(* buffers or do not: the counts are exact, no reference dangles, and      *)
(* counting references, handler by handler, implements SurfaceBuffers.     *)
(*                                                                         *)
(* A handler is a series of assignments to QWaylandBufferRef members.  The *)
(* result of one is Settled: the members point where they should, the      *)
(* counts are theirs, and what nothing points to any more is disowned.     *)
(* Two in a row settle like one, if the second points to nothing new       *)
(* (SettledTwice), so a handler that only lets go or hands on references   *)
(* settles as a whole (Reached).  Then one step of SurfaceBuffers is one   *)
(* disowning of what became unused (the lemmas ...Steps, one for each      *)
(* action).                                                                *)
(***************************************************************************)
EXTENDS SurfaceBufferCounts, FiniteSetTheorems, WellFoundedInduction, TLAPS

\* The types of what heap holds.
Heaps == [ref : [Holders -> Slots \cup {None}], count : [Slots -> Int],
          content : [Slots -> Buffers \cup {None}], pool : SUBSET Slots,
          registered : SUBSET Slots, committed : SUBSET Slots, dying : SUBSET Slots,
          owned : SUBSET Buffers]

\* The holders that point to x, if r says who points where.
Pointing(r, x) == {k \in Holders : r[k] = x}

\* What is pointed to, by them or by a temporary that points to e.
Pointed(r, e) == {x \in Slots : x = e \/ \E k \in Holders : r[k] = x}

\* The count each SurfaceBuffer should have.
CountOf(r, e) ==
  [x \in Slots |-> Cardinality(Pointing(r, x)) + (IF x = e THEN 1 ELSE 0)]

\* The counts are exact, and what is pointed to exists.
HeapOK(h, e) ==
  /\ h \in Heaps /\ e \in h.pool \cup {None}
  /\ h.count = CountOf(h.ref, e)
  /\ \A k \in Holders : h.ref[k] \in h.pool \cup {None}
  /\ h.dying \subseteq Pointed(h.ref, e)

\* The heap in which the SurfaceBuffers X are disowned.
Freed(h, X) ==
  [ref |-> h.ref, count |-> h.count,
   content |-> [x \in Slots |-> IF x \in X THEN None ELSE h.content[x]],
   pool |-> h.pool \ (X \cap h.dying), registered |-> h.registered \ X,
   committed |-> h.committed \ X, dying |-> h.dying \ X,
   owned |-> h.owned \cup ({h.content[x] : x \in X \cap h.committed} \ {None})]

\* The heap after the holders were made to point where r says, one by one.
Settled(h, e, r) ==
  [Freed(h, Pointed(h.ref, e) \ Pointed(r, e)) EXCEPT
     !.ref = r, !.count = CountOf(r, e)]

LEMMA SameHeap ==
  ASSUME NEW g \in Heaps, NEW h \in Heaps, g.ref = h.ref, g.count = h.count,
         g.content = h.content, g.pool = h.pool, g.registered = h.registered,
         g.committed = h.committed, g.dying = h.dying, g.owned = h.owned
  PROVE  g = h
BY DEF Heaps

LEMMA FreedType ==
  ASSUME NEW h \in Heaps, NEW X \in SUBSET Slots
  PROVE  Freed(h, X) \in Heaps
BY DEF Heaps, Freed

LEMMA HoldersFinite == IsFiniteSet(Holders)
<1>1. \A k : IsFiniteSet({k} \X Surfaces) /\ IsFiniteSet({k} \X Views)
  BY FiniteAssumption, FS_Product, FS_Singleton
<1>2. IsFiniteSet(({"current"} \X Views) \cup ({"provider"} \X Views))
  BY <1>1, FS_Union
<1>3. IsFiniteSet(({"next"} \X Views)
                    \cup (({"current"} \X Views) \cup ({"provider"} \X Views)))
  BY <1>1, <1>2, FS_Union
<1>4. {"next", "current", "provider"} \X Views =
        ({"next"} \X Views) \cup (({"current"} \X Views) \cup ({"provider"} \X Views))
  OBVIOUS
<1> QED
  BY <1>1, <1>3, <1>4, FS_Union DEF Holders

LEMMA PointingCounts ==
  ASSUME NEW r, NEW x
  PROVE  IsFiniteSet(Pointing(r, x)) /\ Cardinality(Pointing(r, x)) \in Nat
<1>1. Pointing(r, x) \in SUBSET Holders
  BY DEF Pointing
<1> QED
  BY <1>1, HoldersFinite, FS_Subset, FS_CardinalityType

LEMMA CountType == \A r, e : CountOf(r, e) \in [Slots -> Nat]
BY PointingCounts DEF CountOf

LEMMA SettledType ==
  ASSUME NEW h \in Heaps, NEW e, NEW r \in [Holders -> Slots \cup {None}]
  PROVE  Settled(h, e, r) \in Heaps
<1> DEFINE X == Pointed(h.ref, e) \ Pointed(r, e)
<1>1. X \in SUBSET Slots
  BY DEF Pointed
<1>2. CountOf(r, e) \in [Slots -> Int]
  BY CountType
<1> HIDE DEF X
<1>3. Freed(h, X) \in Heaps
  BY <1>1, FreedType
<1>4. [Freed(h, X) EXCEPT !.ref = r, !.count = CountOf(r, e)] \in Heaps
  BY <1>2, <1>3 DEF Heaps
<1> QED
  BY <1>4 DEF Settled, X

\* How many point to a SurfaceBuffer when one of the holders is assigned.
LEMMA PointingAfter ==
  ASSUME NEW r, NEW q, NEW k \in Holders, NEW x, NEW z,
         \A j \in Holders : q[j] = IF j = k THEN x ELSE r[j]
  PROVE  Cardinality(Pointing(q, z)) =
           IF r[k] = x THEN Cardinality(Pointing(r, z))
           ELSE IF z = x THEN Cardinality(Pointing(r, z)) + 1
           ELSE IF z = r[k] THEN Cardinality(Pointing(r, z)) - 1
           ELSE Cardinality(Pointing(r, z))
<1>1. Pointing(q, z) = IF r[k] = x THEN Pointing(r, z)
                       ELSE IF z = x THEN Pointing(r, z) \cup {k}
                       ELSE Pointing(r, z) \ {k}
  BY DEF Pointing
<1>2. k \in Pointing(r, z) <=> z = r[k]
  BY DEF Pointing
<1>3. IsFiniteSet(Pointing(r, z))
  BY PointingCounts
<1>4. CASE r[k] = x
  BY <1>1, <1>4
<1>5. CASE r[k] # x /\ z = x
  <2>1. Pointing(q, z) = Pointing(r, z) \cup {k} /\ k \notin Pointing(r, z)
    BY <1>1, <1>2, <1>5
  <2>2. Cardinality(Pointing(q, z)) = Cardinality(Pointing(r, z)) + 1
    BY <1>3, <2>1, FS_AddElement
  <2> QED
    BY <1>5, <2>2
<1>6. CASE r[k] # x /\ z # x
  <2>1. Pointing(q, z) = Pointing(r, z) \ {k}
    BY <1>1, <1>6
  <2>2. CASE z = r[k]
    <3>1. Cardinality(Pointing(q, z)) = Cardinality(Pointing(r, z)) - 1
      BY <1>2, <1>3, <2>1, <2>2, FS_RemoveElement
    <3> QED
      BY <1>6, <2>2, <3>1
  <2>3. CASE z # r[k]
    <3>1. Pointing(q, z) = Pointing(r, z)
      BY <1>2, <2>1, <2>3
    <3> QED
      BY <1>6, <2>3, <3>1
  <2> QED
    BY <2>2, <2>3
<1> QED
  BY <1>4, <1>5, <1>6

-----------------------------------------------------------------------------
(* Folds over a finite set *)

\* What an induction over the natural numbers starts from.
LEMMA Least ==
  ASSUME NEW T \in SUBSET Nat, T # {}
  PROVE  \E x \in T : \A y \in T : x =< y
<1> DEFINE R == OpToRel(<, Nat)
<1>1. IsWellFoundedOn(R, Nat)
  BY NatLessThanWellFounded, Zenon
<1>2. PICK x \in T : \A y \in T : <<y, x>> \notin R
  <2> HIDE DEF R
  <2> QED
    BY <1>1, WFMin
<1>3. \A y \in T : ~(y < x)
  BY <1>2 DEF OpToRel
<1> HIDE DEF R
<1> QED
  BY <1>3

\* Two folds are the same when each of their steps is.
LEMMA SameFold ==
  ASSUME NEW S, IsFiniteSet(S), NEW f, NEW g,
         f[{}] = g[{}],
         \A s \in SUBSET S :
           LET w == CHOOSE y \in s : TRUE
           IN  s # {} /\ f[s \ {w}] = g[s \ {w}] => f[s] = g[s]
  PROVE  f[S] = g[S]
<1> DEFINE Bad == {s \in SUBSET S : f[s] # g[s]}
           Sizes == {Cardinality(s) : s \in Bad}
<1>1. SUFFICES ASSUME Bad # {} PROVE FALSE
  OBVIOUS
<1>2. \A s \in Bad : IsFiniteSet(s) /\ Cardinality(s) \in Nat
  BY FS_Subset, FS_CardinalityType
<1>3. Sizes \in SUBSET Nat /\ Sizes # {}
  BY <1>1, <1>2
<1>4. PICK n \in Sizes : \A m \in Sizes : n =< m
  <2> HIDE DEF Sizes
  <2> QED
    BY <1>3, Least
<1>5. PICK s \in Bad : Cardinality(s) = n
  BY <1>4
<1> DEFINE w == CHOOSE y \in s : TRUE
<1>6. s # {} /\ s \in SUBSET S /\ f[s] # g[s]
  BY <1>5
<1>7. w \in s
  BY <1>6
<1> HIDE DEF w
<1>8. Cardinality(s \ {w}) = Cardinality(s) - 1
  BY <1>2, <1>5, <1>7, FS_RemoveElement
<1>9. s \ {w} \notin Bad
  <2>1. SUFFICES ASSUME s \ {w} \in Bad PROVE FALSE
    OBVIOUS
  <2>2. Cardinality(s \ {w}) \in Sizes
    BY <2>1
  <2> HIDE DEF Bad, Sizes
  <2>3. n \in Nat /\ n =< Cardinality(s \ {w})
    BY <1>3, <1>4, <2>2
  <2> QED
    BY <2>3, <1>5, <1>8
<1>10. f[s \ {w}] = g[s \ {w}]
  BY <1>6, <1>9
<1> QED
  BY <1>6, <1>10 DEF w

LEMMA AssignAllUnfolds ==
  ASSUME NEW h, NEW kind, NEW views, NEW x
  PROVE  LET f == CHOOSE g : g = [s \in SUBSET views |->
                    IF s = {} THEN h
                    ELSE Assign(g[s \ {CHOOSE w \in s : TRUE}],
                                <<kind, CHOOSE w \in s : TRUE>>, x)]
         IN  AssignAll(h, kind, views, x) = f[views]
BY Zenon DEF AssignAll, FoldSet, MapThenFoldSet

LEMMA MarkPoolUnfolds ==
  ASSUME NEW h, NEW s
  PROVE  LET entries == {x \in h.pool : Of(x) = s}
             f == CHOOSE g : g = [S \in SUBSET entries |->
                    IF S = {} THEN h
                    ELSE LET x == CHOOSE y \in S : TRUE
                         IN  DestroyIfUnused([g[S \ {x}] EXCEPT !.dying = @ \cup {x}],
                                             x)]
         IN  MarkPool(h, s) = f[entries]
BY Zenon DEF MarkPool, FoldSet, MapThenFoldSet

-----------------------------------------------------------------------------
(* One assignment *)

\* Disowning a SurfaceBuffer that nobody counts, or that stays in its pool.
LEMMA DisownFrees ==
  ASSUME NEW h \in Heaps, NEW x \in Slots, h.count[x] = 0 \/ x \notin h.dying
  PROVE  Disown(h, x) = Freed(h, {x})
<1> DEFINE d == DestructBufferState(h, x)
<1>1. /\ d \in Heaps /\ d.ref = h.ref /\ d.count = h.count /\ d.pool = h.pool
      /\ d.dying = h.dying /\ d.registered = h.registered \ {x}
      /\ d.committed = h.committed \ {x}
      /\ d.content = [h.content EXCEPT ![x] = None]
      /\ d.owned = IF x \in h.committed /\ h.content[x] # None
                   THEN h.owned \cup {h.content[x]} ELSE h.owned
  BY DEF Heaps, DestructBufferState
<1>2. /\ d.content = [y \in Slots |-> IF y \in {x} THEN None ELSE h.content[y]]
      /\ d.owned = h.owned \cup ({h.content[y] : y \in {x} \cap h.committed} \ {None})
  BY <1>1 DEF Heaps
<1> DEFINE g == Disown(h, x)
<1>3. /\ g \in Heaps /\ g.ref = h.ref /\ g.count = h.count
      /\ g.pool = h.pool \ ({x} \cap h.dying) /\ g.dying = h.dying \ {x}
      /\ g.registered = h.registered \ {x} /\ g.committed = h.committed \ {x}
      /\ g.content = d.content /\ g.owned = d.owned
  <2> HIDE DEF d
  <2>1. g = IF x \in d.dying /\ d.count[x] = 0
            THEN [DestructBufferState(d, x) EXCEPT !.pool = @ \ {x}, !.dying = @ \ {x}]
            ELSE d
    BY DEF Disown, DestroyIfUnused, d
  <2>2. CASE x \in h.dying
    <3> DEFINE c == DestructBufferState(d, x)
    <3>1. /\ c \in Heaps /\ c.ref = d.ref /\ c.count = d.count /\ c.pool = d.pool
          /\ c.dying = d.dying /\ c.registered = d.registered
          /\ c.committed = d.committed /\ c.content = d.content /\ c.owned = d.owned
      BY <1>1 DEF Heaps, DestructBufferState
    <3> HIDE DEF c
    <3>2. g = [c EXCEPT !.pool = @ \ {x}, !.dying = @ \ {x}]
      BY <2>1, <2>2, <1>1 DEF c
    <3> HIDE DEF g
    <3>3. /\ g \in Heaps /\ g.ref = c.ref /\ g.count = c.count
          /\ g.pool = c.pool \ {x} /\ g.dying = c.dying \ {x}
          /\ g.registered = c.registered /\ g.committed = c.committed
          /\ g.content = c.content /\ g.owned = c.owned
      BY <3>1, <3>2 DEF Heaps
    <3>4. {x} \cap h.dying = {x}
      BY <2>2
    <3> QED
      BY <3>1, <3>3, <3>4, <1>1
  <2>3. CASE x \notin h.dying
    <3>1. g = d
      BY <2>1, <2>3, <1>1
    <3> HIDE DEF g
    <3> QED
      BY <3>1, <2>3, <1>1 DEF Heaps
  <2> QED
    BY <2>2, <2>3
<1> HIDE DEF d, g
<1> DEFINE e == Freed(h, {x})
<1>4. e \in Heaps
  BY FreedType
<1>5. /\ e.ref = h.ref /\ e.count = h.count
      /\ e.pool = h.pool \ ({x} \cap h.dying) /\ e.dying = h.dying \ {x}
      /\ e.registered = h.registered \ {x} /\ e.committed = h.committed \ {x}
      /\ e.content = [y \in Slots |-> IF y \in {x} THEN None ELSE h.content[y]]
      /\ e.owned = h.owned \cup ({h.content[y] : y \in {x} \cap h.committed} \ {None})
  BY DEF Freed
<1> HIDE DEF e
<1>6. g = e
  <2>1. g.content = e.content /\ g.owned = e.owned
    BY <1>2, <1>3, <1>5, Zenon
  <2>2. /\ g.ref = e.ref /\ g.count = e.count /\ g.pool = e.pool /\ g.dying = e.dying
        /\ g.registered = e.registered /\ g.committed = e.committed
    BY <1>3, <1>5, Zenon
  <2> QED
    BY <1>3, <1>4, <2>1, <2>2, SameHeap
<1> QED
  BY <1>6 DEF e, g

\* The counter is zero when nobody points to the SurfaceBuffer.
LEMMA CountZero ==
  ASSUME NEW r, NEW e, NEW z \in Slots
  PROVE  CountOf(r, e)[z] = 0 <=> z \notin Pointed(r, e)
<1> DEFINE P == Pointing(r, z)
<1>1. IsFiniteSet(P) /\ Cardinality(P) \in Nat
  BY PointingCounts
<1>2. Cardinality(P) = 0 <=> P = {}
  BY <1>1, FS_EmptySet
<1>3. P = {} <=> \A k \in Holders : r[k] # z
  BY DEF Pointing
<1>4. CountOf(r, e)[z] = Cardinality(P) + (IF z = e THEN 1 ELSE 0)
  BY DEF CountOf
<1> HIDE DEF P
<1>5. z \in Pointed(r, e) <=> z = e \/ \E k \in Holders : r[k] = z
  BY DEF Pointed
<1> QED
  BY <1>1, <1>2, <1>3, <1>4, <1>5

\* The counters when one of the holders lets go.
LEMMA CountDrops ==
  ASSUME NEW r \in [Holders -> Slots \cup {None}], NEW e, NEW k \in Holders
  PROVE  CountOf([r EXCEPT ![k] = None], e) =
           IF r[k] = None THEN CountOf(r, e)
           ELSE [CountOf(r, e) EXCEPT ![r[k]] = @ - 1]
<1> DEFINE q == [r EXCEPT ![k] = None]
           c == CountOf(r, e)
           d == CountOf(q, e)
<1>1. /\ c \in [Slots -> Nat] /\ d \in [Slots -> Nat]
  BY CountType
<1>2. ASSUME NEW z \in Slots
      PROVE  d[z] = IF r[k] # None /\ z = r[k] THEN c[z] - 1 ELSE c[z]
  <2>1. z # None
    BY NoneAssumption
  <2> DEFINE n == Cardinality(Pointing(r, z))
             m == Cardinality(Pointing(q, z))
  <2>2. m = IF r[k] = None THEN n ELSE IF z = None THEN n + 1
            ELSE IF z = r[k] THEN n - 1 ELSE n
    <3>1. \A j \in Holders : q[j] = IF j = k THEN None ELSE r[j]
      OBVIOUS
    <3> HIDE DEF q
    <3> QED
      BY <3>1, PointingAfter
  <2>3. n \in Nat
    BY PointingCounts
  <2>4. /\ c[z] = n + (IF z = e THEN 1 ELSE 0)
        /\ d[z] = m + (IF z = e THEN 1 ELSE 0)
    BY DEF CountOf
  <2> HIDE DEF c, d, q, n, m
  <2> QED
    BY <2>1, <2>2, <2>3, <2>4
<1> HIDE DEF c, d
<1>3. CASE r[k] = None
  <2>1. \A z \in Slots : d[z] = c[z]
    BY <1>2, <1>3
  <2> QED
    BY <2>1, <1>1, <1>3 DEF c, d
<1>4. CASE r[k] # None
  <2> DEFINE b == [c EXCEPT ![r[k]] = @ - 1]
  <2>1. \A z \in Slots : b[z] = IF z = r[k] THEN c[z] - 1 ELSE c[z]
    BY <1>1
  <2>2. b = [z \in Slots |-> b[z]] /\ d = [z \in Slots |-> d[z]]
    BY <1>1
  <2> HIDE DEF b
  <2>3. \A z \in Slots : d[z] = b[z]
    BY <2>1, <1>2, <1>4
  <2>4. d = b
    BY <2>2, <2>3
  <2> QED
    BY <2>4, <1>4 DEF b, c, d
<1> QED
  BY <1>3, <1>4

\* And when it takes hold of another one.
LEMMA CountRises ==
  ASSUME NEW r, NEW q, NEW e, NEW k \in Holders, r[k] = None, NEW x \in Slots,
         \A j \in Holders : q[j] = IF j = k THEN x ELSE r[j]
  PROVE  \A z \in Slots : CountOf(q, e)[z] =
           IF z = x THEN CountOf(r, e)[z] + 1 ELSE CountOf(r, e)[z]
<1> DEFINE c == CountOf(r, e)
           d == CountOf(q, e)
<1>1. /\ c \in [Slots -> Nat] /\ d \in [Slots -> Nat]
  BY CountType
<1>2. ASSUME NEW z \in Slots
      PROVE  d[z] = IF z = x THEN c[z] + 1 ELSE c[z]
  <2>1. z # None /\ x # None
    BY NoneAssumption
  <2> DEFINE n == Cardinality(Pointing(r, z))
             m == Cardinality(Pointing(q, z))
  <2>2. m = IF r[k] = x THEN n ELSE IF z = x THEN n + 1
            ELSE IF z = r[k] THEN n - 1 ELSE n
    BY PointingAfter
  <2>3. n \in Nat
    BY PointingCounts
  <2>4. /\ c[z] = n + (IF z = e THEN 1 ELSE 0)
        /\ d[z] = m + (IF z = e THEN 1 ELSE 0)
    BY DEF CountOf
  <2> HIDE DEF c, d, n, m
  <2> QED
    BY <2>1, <2>2, <2>3, <2>4
<1> QED
  BY <1>2 DEF c, d

\* From heap h to heap g the SurfaceBuffers X are disowned.
Frees(h, X, g) ==
  /\ g.content = [x \in Slots |-> IF x \in X THEN None ELSE h.content[x]]
  /\ g.pool = h.pool \ (X \cap h.dying)
  /\ g.registered = h.registered \ X
  /\ g.committed = h.committed \ X
  /\ g.dying = h.dying \ X
  /\ g.owned = h.owned \cup ({h.content[x] : x \in X \cap h.committed} \ {None})

LEMMA SettledIs ==
  ASSUME NEW h \in Heaps, NEW e, NEW r \in [Holders -> Slots \cup {None}]
  PROVE  /\ Settled(h, e, r) \in Heaps
         /\ Settled(h, e, r).ref = r
         /\ Settled(h, e, r).count = CountOf(r, e)
         /\ Frees(h, Pointed(h.ref, e) \ Pointed(r, e), Settled(h, e, r))
<1> DEFINE X == Pointed(h.ref, e) \ Pointed(r, e)
           f == Freed(h, X)
<1>1. Frees(h, X, f)
  BY DEF Freed, Frees
<1>2. X \in SUBSET Slots
  BY DEF Pointed
<1> HIDE DEF X
<1>3. f \in Heaps
  BY <1>2, FreedType
<1> HIDE DEF f
<1> DEFINE s == Settled(h, e, r)
<1>4. s = [f EXCEPT !.ref = r, !.count = CountOf(r, e)]
  BY DEF Settled, f, X
<1>5. s \in Heaps
  BY SettledType
<1> HIDE DEF s
<1>6. /\ s.ref = r /\ s.count = CountOf(r, e) /\ s.content = f.content
      /\ s.pool = f.pool /\ s.registered = f.registered
      /\ s.committed = f.committed /\ s.dying = f.dying /\ s.owned = f.owned
  BY <1>3, <1>4 DEF Heaps
<1>7. Frees(h, X, s)
  BY <1>1, <1>6, Zenon DEF Frees
<1> QED
  BY <1>5, <1>6, <1>7 DEF s, X

\* A heap is known by what it has of the references and what it frees.
LEMMA SameFrees ==
  ASSUME NEW g \in Heaps, NEW c \in Heaps, NEW h, NEW X, Frees(h, X, g), Frees(h, X, c),
         g.ref = c.ref, g.count = c.count
  PROVE  g = c
<1>1. /\ g.content = c.content /\ g.pool = c.pool /\ g.registered = c.registered
      /\ g.committed = c.committed /\ g.dying = c.dying /\ g.owned = c.owned
  BY Zenon DEF Frees
<1> QED
  BY <1>1, SameHeap

LEMMA FreesTwice ==
  ASSUME NEW h \in Heaps, NEW a \in Heaps, NEW b,
         NEW X \in SUBSET Slots, NEW Y \in SUBSET Slots, X \cap Y = {},
         Frees(h, X, a), Frees(a, Y, b)
  PROVE  Frees(h, X \cup Y, b)
<1>1. /\ a.content = [x \in Slots |-> IF x \in X THEN None ELSE h.content[x]]
      /\ a.pool = h.pool \ (X \cap h.dying) /\ a.registered = h.registered \ X
      /\ a.committed = h.committed \ X /\ a.dying = h.dying \ X
      /\ a.owned = h.owned \cup ({h.content[x] : x \in X \cap h.committed} \ {None})
  BY DEF Frees
<1>2. /\ b.content = [x \in Slots |-> IF x \in Y THEN None ELSE a.content[x]]
      /\ b.pool = a.pool \ (Y \cap a.dying) /\ b.registered = a.registered \ Y
      /\ b.committed = a.committed \ Y /\ b.dying = a.dying \ Y
      /\ b.owned = a.owned \cup ({a.content[x] : x \in Y \cap a.committed} \ {None})
  BY DEF Frees
<1>3. b.content = [x \in Slots |-> IF x \in X \cup Y THEN None ELSE h.content[x]]
  BY <1>1, <1>2
<1>4. /\ b.pool = h.pool \ ((X \cup Y) \cap h.dying)
      /\ b.registered = h.registered \ (X \cup Y)
      /\ b.committed = h.committed \ (X \cup Y) /\ b.dying = h.dying \ (X \cup Y)
  BY <1>1, <1>2
<1>5. b.owned = h.owned \cup
                  ({h.content[x] : x \in (X \cup Y) \cap h.committed} \ {None})
  <2>1. Y \cap a.committed = Y \cap h.committed
    BY <1>1
  <2>2. \A x \in Y : a.content[x] = h.content[x]
    BY <1>1
  <2>3. {a.content[x] : x \in Y \cap a.committed} =
          {h.content[x] : x \in Y \cap h.committed}
    BY <2>1, <2>2
  <2>4. {h.content[x] : x \in (X \cup Y) \cap h.committed} =
          {h.content[x] : x \in X \cap h.committed} \cup
          {h.content[x] : x \in Y \cap h.committed}
    OBVIOUS
  <2> QED
    BY <2>3, <2>4, <1>1, <1>2
<1> QED
  BY <1>3, <1>4, <1>5 DEF Frees

\* Settling in two steps, when the second one only lets go.
LEMMA SettledTwice ==
  ASSUME NEW h \in Heaps, NEW e,
         NEW q \in [Holders -> Slots \cup {None}],
         NEW r \in [Holders -> Slots \cup {None}],
         Pointed(r, e) \subseteq Pointed(q, e),
         Pointed(q, e) \ Pointed(r, e) \subseteq Pointed(h.ref, e)
  PROVE  Settled(Settled(h, e, q), e, r) = Settled(h, e, r)
<1> DEFINE P == Pointed(h.ref, e)
           Q == Pointed(q, e)
           R == Pointed(r, e)
           a == Settled(h, e, q)
           b == Settled(a, e, r)
           c == Settled(h, e, r)
<1>1. P \in SUBSET Slots /\ Q \in SUBSET Slots /\ R \subseteq Q /\ Q \ R \subseteq P
  BY DEF Pointed
<1>2. a \in Heaps /\ a.ref = q /\ Frees(h, P \ Q, a)
  BY SettledIs
<1>3. c \in Heaps /\ c.ref = r /\ c.count = CountOf(r, e) /\ Frees(h, P \ R, c)
  BY SettledIs
<1>4. Q = Pointed(a.ref, e)
  BY <1>2
<1> HIDE DEF a, c, P, Q
<1>5. b \in Heaps /\ b.ref = r /\ b.count = CountOf(r, e) /\ Frees(a, Q \ R, b)
  BY <1>2, <1>4, SettledIs
<1> HIDE DEF b, R
<1>6. (P \ Q) \cup (Q \ R) = P \ R /\ (P \ Q) \cap (Q \ R) = {}
  BY <1>1
<1>7. Frees(h, (P \ Q) \cup (Q \ R), b)
  BY <1>1, <1>2, <1>5, <1>6, FreesTwice
<1>8. b = c
  BY <1>3, <1>5, <1>6, <1>7, SameFrees
<1> QED
  BY <1>8 DEF a, b, c

\* Nobody is freed.
LEMMA FreesNobody ==
  ASSUME NEW h \in Heaps, NEW g \in Heaps,
         g.content = h.content, g.pool = h.pool, g.registered = h.registered,
         g.committed = h.committed, g.dying = h.dying, g.owned = h.owned
  PROVE  Frees(h, {}, g)
<1>1. h.content = [x \in Slots |-> IF x \in {} THEN None ELSE h.content[x]]
  BY DEF Heaps
<1>2. {h.content[x] : x \in {} \cap h.committed} = {}
  OBVIOUS
<1> QED
  BY <1>1, <1>2 DEF Frees

\* What a holder pointed to loses it, and is disowned when it was the last.
LEMMA DerefFrees ==
  ASSUME NEW h, NEW e, HeapOK(h, e), NEW k \in Holders,
         NEW q, q = [h.ref EXCEPT ![k] = None]
  PROVE  /\ Deref(h, h.ref[k]) \in Heaps
         /\ Deref(h, h.ref[k]).ref = h.ref
         /\ Deref(h, h.ref[k]).count = CountOf(q, e)
         /\ Frees(h, Pointed(h.ref, e) \ Pointed(q, e), Deref(h, h.ref[k]))
<1> DEFINE o == h.ref[k]
           P == Pointed(h.ref, e)
           Q == Pointed(q, e)
<1>1. /\ h \in Heaps /\ h.ref \in [Holders -> Slots \cup {None}]
      /\ h.count = CountOf(h.ref, e) /\ o \in Slots \cup {None}
  BY DEF HeapOK, Heaps
<1>2. CountOf(q, e) = IF o = None THEN h.count ELSE [h.count EXCEPT ![o] = @ - 1]
  BY <1>1, CountDrops
<1>3. CASE o = None
  <2>1. P \ Q = {}
    <3>1. q = h.ref
      BY <1>1, <1>3
    <3> QED
      BY <3>1
  <2>2. Deref(h, o) = h
    BY <1>3 DEF Deref
  <2>3. Frees(h, {}, h)
    BY <1>1, FreesNobody
  <2> HIDE DEF P, Q, o
  <2> QED
    BY <2>1, <2>2, <2>3, <1>1, <1>2, <1>3 DEF P, Q, o
<1>4. CASE o # None
  <2> DEFINE less == [h EXCEPT !.count[o] = @ - 1]
  <2>1. /\ o \in Slots /\ less \in Heaps /\ less.ref = h.ref
        /\ less.count = [h.count EXCEPT ![o] = @ - 1]
        /\ less.content = h.content /\ less.pool = h.pool
        /\ less.registered = h.registered /\ less.committed = h.committed
        /\ less.dying = h.dying /\ less.owned = h.owned
    BY <1>1, <1>4 DEF Heaps
  <2>2. Deref(h, o) = IF less.count[o] = 0 THEN Disown(less, o) ELSE less
    BY <1>4 DEF Deref
  <2> HIDE DEF less
  <2>3. P = Q \cup {o} /\ P \in SUBSET Slots /\ Q \in SUBSET Slots
    <3>1. \A j \in Holders : q[j] = IF j = k THEN None ELSE h.ref[j]
      BY <1>1
    <3>2. None \notin Slots
      BY NoneAssumption
    <3> QED
      BY <3>1, <3>2, <2>1 DEF Pointed
  <2>4. less.count = CountOf(q, e)
    BY <2>1, <1>2, <1>4
  <2>5. less.count[o] = 0 <=> o \notin Q
    <3> HIDE DEF o
    <3>1. CountOf(q, e)[o] = 0 <=> o \notin Pointed(q, e)
      BY <2>1, CountZero
    <3> QED
      BY <3>1, <2>4
  <2> HIDE DEF P, Q
  <2>6. CASE o \in Q
    <3>1. Deref(h, o) = less /\ P \ Q = {}
      BY <2>2, <2>3, <2>5, <2>6
    <3>2. Frees(h, {}, less)
      BY <1>1, <2>1, FreesNobody
    <3> HIDE DEF o
    <3> QED
      BY <3>1, <3>2, <2>1, <2>4 DEF P, Q, o
  <2>7. CASE o \notin Q
    <3>1. Deref(h, o) = Disown(less, o) /\ P \ Q = {o}
      BY <2>2, <2>3, <2>5, <2>7
    <3>2. Disown(less, o) = Freed(less, {o})
      BY <2>1, <2>5, <2>7, DisownFrees
    <3>3. Freed(less, {o}) \in Heaps
      BY <2>1, FreedType
    <3>4. /\ Freed(less, {o}).ref = h.ref
          /\ Freed(less, {o}).count = less.count
      BY <2>1 DEF Freed
    <3>5. Frees(h, {o}, Freed(less, {o}))
      BY <2>1 DEF Freed, Frees
    <3> HIDE DEF o
    <3> QED
      BY <3>1, <3>2, <3>3, <3>4, <3>5, <2>4 DEF P, Q, o
  <2> QED
    BY <2>6, <2>7
<1> QED
  BY <1>3, <1>4

\* An assignment settles the heap: the target is referenced by another holder,
\* or by the temporary, while the holder has let go of the old one.
LEMMA AssignSettles ==
  ASSUME NEW h, NEW e, HeapOK(h, e), NEW k \in Holders, NEW x \in Slots \cup {None},
         x = None \/ x = e \/ (\E j \in Holders : j # k /\ h.ref[j] = x),
         NEW r \in [Holders -> Slots \cup {None}],
         \A j \in Holders : r[j] = IF j = k THEN x ELSE h.ref[j]
  PROVE  Assign(h, k, x) = Settled(h, e, r)
<1> DEFINE q == [h.ref EXCEPT ![k] = None]
           P == Pointed(h.ref, e)
           d == Deref(h, h.ref[k])
           a == [d EXCEPT !.ref[k] = x]
           s == Settled(h, e, r)
<1>1. /\ h \in Heaps /\ h.ref \in [Holders -> Slots \cup {None}]
  BY DEF HeapOK, Heaps
<1>2. q \in [Holders -> Slots \cup {None}] /\ r \in [Holders -> Slots \cup {None}]
  BY <1>1
<1>3. /\ d \in Heaps /\ d.ref = h.ref /\ d.count = CountOf(q, e)
      /\ Frees(h, P \ Pointed(q, e), d)
  BY DerefFrees
<1>4. /\ s \in Heaps /\ s.ref = r /\ s.count = CountOf(r, e)
      /\ Frees(h, P \ Pointed(r, e), s)
  BY <1>1, <1>2, SettledIs
<1>5. Pointed(r, e) = Pointed(q, e)
  <2>1. \A j \in Holders : /\ q[j] = IF j = k THEN None ELSE h.ref[j]
                           /\ r[j] = IF j = k THEN x ELSE h.ref[j]
    BY <1>1
  <2>2. x = None \/ x = e \/ (\E j \in Holders : j # k /\ h.ref[j] = x)
    OBVIOUS
  <2>3. None \notin Slots
    BY NoneAssumption
  <2> HIDE DEF q
  <2> QED
    BY <2>1, <2>2, <2>3 DEF Pointed
<1> HIDE DEF P, d, s
<1>6. /\ a \in Heaps /\ a.ref = r /\ a.count = d.count /\ a.content = d.content
      /\ a.pool = d.pool /\ a.registered = d.registered /\ a.committed = d.committed
      /\ a.dying = d.dying /\ a.owned = d.owned
  <2>1. r = [h.ref EXCEPT ![k] = x]
    BY <1>1
  <2> QED
    BY <2>1, <1>3 DEF Heaps
<1>7. Assign(h, k, x) = Ref(a, x)
  BY DEF Assign, d
<1> HIDE DEF a
<1>8. CASE x = None
  <2>1. Assign(h, k, x) = a
    BY <1>7, <1>8 DEF Ref
  <2>2. Frees(h, P \ Pointed(q, e), a)
    BY <1>3, <1>6, Zenon DEF Frees
  <2>3. a.count = CountOf(r, e)
    <3>1. q = r
      BY <1>1, <1>8
    <3> QED
      BY <3>1, <1>3, <1>6
  <2> HIDE DEF q
  <2>4. a = s
    BY <2>2, <2>3, <1>4, <1>5, <1>6, SameFrees
  <2> QED
    BY <2>1, <2>4 DEF s
<1>9. CASE x # None
  <2> DEFINE b == [a EXCEPT !.count[x] = @ + 1]
  <2>1. /\ b \in Heaps /\ b.ref = r /\ b.count = [a.count EXCEPT ![x] = @ + 1]
        /\ b.content = a.content /\ b.pool = a.pool /\ b.registered = a.registered
        /\ b.committed = a.committed /\ b.dying = a.dying /\ b.owned = a.owned
    BY <1>6, <1>9 DEF Heaps
  <2>2. Assign(h, k, x) = b
    BY <1>7, <1>9 DEF Ref
  <2> HIDE DEF b
  <2>3. Frees(h, P \ Pointed(q, e), b)
    BY <1>3, <1>6, <2>1, Zenon DEF Frees
  <2>4. q[k] = None /\ x \in Slots
    BY <1>1, <1>9
  <2>5. b.count = CountOf(r, e)
    <3>1. \A j \in Holders : r[j] = IF j = k THEN x ELSE q[j]
      BY <1>1
    <3> HIDE DEF q
    <3>2. \A z \in Slots : CountOf(r, e)[z] =
            IF z = x THEN CountOf(q, e)[z] + 1 ELSE CountOf(q, e)[z]
      BY <2>4, <3>1, CountRises
    <3>3. CountOf(r, e) \in [Slots -> Nat] /\ CountOf(q, e) \in [Slots -> Nat]
      BY CountType
    <3> QED
      BY <3>2, <3>3, <2>1, <1>3, <1>6
  <2> HIDE DEF q
  <2>6. b = s
    BY <2>1, <2>3, <2>5, <1>4, <1>5, SameFrees
  <2> QED
    BY <2>2, <2>6 DEF s
<1> QED
  BY <1>8, <1>9

\* A settled heap is again one with exact counts.
LEMMA SettledOK ==
  ASSUME NEW h, NEW e, HeapOK(h, e), NEW r \in [Holders -> Slots \cup {None}],
         \A k \in Holders : r[k] \in h.pool \cup {None}
  PROVE  HeapOK(Settled(h, e, r), e)
<1> DEFINE P == Pointed(h.ref, e)
           R == Pointed(r, e)
           s == Settled(h, e, r)
<1>1. /\ h \in Heaps /\ e \in h.pool \cup {None} /\ h.dying \subseteq P
      /\ h.pool \in SUBSET Slots
  BY DEF HeapOK, Heaps
<1>2. /\ s \in Heaps /\ s.ref = r /\ s.count = CountOf(r, e)
      /\ s.pool = h.pool \ ((P \ R) \cap h.dying) /\ s.dying = h.dying \ (P \ R)
  <2>1. s \in Heaps /\ s.ref = r /\ s.count = CountOf(r, e) /\ Frees(h, P \ R, s)
    BY <1>1, SettledIs
  <2> HIDE DEF P, R, s
  <2> QED
    BY <2>1 DEF Frees
<1>3. \A x \in Slots : x = e \/ (\E k \in Holders : r[k] = x) => x \in R
  BY DEF Pointed
<1> HIDE DEF P, R, s
<1>4. e \in s.pool \cup {None}
  BY <1>1, <1>2, <1>3
<1>5. \A k \in Holders : r[k] \in s.pool \cup {None}
  BY <1>1, <1>2, <1>3
<1>6. s.dying \subseteq R
  BY <1>1, <1>2
<1>7. HeapOK(s, e)
  BY <1>2, <1>4, <1>5, <1>6 DEF HeapOK, R
<1> QED
  BY <1>7 DEF s

\* A temporary reference keeps the new target alive during the assignment.
LEMMA AssignTemporarySettles ==
  ASSUME NEW h, HeapOK(h, None), NEW k \in Holders, NEW x \in h.pool \cup {None}
  PROVE  AssignTemporary(h, k, x) = Settled(h, None, [h.ref EXCEPT ![k] = x])
<1> DEFINE r == [h.ref EXCEPT ![k] = x]
           s == Settled(h, None, r)
<1>1. /\ h \in Heaps /\ h.ref \in [Holders -> Slots \cup {None}]
      /\ h.pool \in SUBSET Slots
      /\ x \in Slots \cup {None} /\ r \in [Holders -> Slots \cup {None}]
  BY DEF HeapOK, Heaps
<1>2. None \notin Slots
  BY NoneAssumption
<1>3. CASE x = None
  <2>1. AssignTemporary(h, k, x) = Assign(h, k, x)
    BY <1>3 DEF AssignTemporary, Ref, Deref
  <2>2. \A j \in Holders : r[j] = IF j = k THEN x ELSE h.ref[j]
    BY <1>1
  <2> HIDE DEF r, s
  <2>3. Assign(h, k, x) = Settled(h, None, r)
    BY <1>1, <1>3, <2>2, AssignSettles
  <2> QED
    BY <2>1, <2>3 DEF s, r
<1>4. CASE x # None
  <2> DEFINE g == [h EXCEPT !.count[x] = @ + 1]
             a == Settled(g, x, r)
             less == [a EXCEPT !.count[x] = @ - 1]
             X == Pointed(h.ref, None) \ Pointed(r, None)
  <2>1. /\ g \in Heaps /\ g.ref = h.ref /\ g.count = [h.count EXCEPT ![x] = @ + 1]
        /\ g.content = h.content /\ g.pool = h.pool /\ g.registered = h.registered
        /\ g.committed = h.committed /\ g.dying = h.dying /\ g.owned = h.owned
        /\ x \in Slots
    BY <1>1, <1>4 DEF Heaps
  <2>2. \A q : /\ CountOf(q, x) \in [Slots -> Nat] /\ CountOf(q, None) \in [Slots -> Nat]
               /\ \A z \in Slots : CountOf(q, x)[z] =
                    IF z = x THEN CountOf(q, None)[z] + 1 ELSE CountOf(q, None)[z]
    <3> SUFFICES ASSUME NEW q
                 PROVE  \A z \in Slots : CountOf(q, x)[z] =
                    IF z = x THEN CountOf(q, None)[z] + 1 ELSE CountOf(q, None)[z]
      BY CountType
    <3> TAKE z \in Slots
    <3>1. Cardinality(Pointing(q, z)) \in Nat
      BY PointingCounts
    <3> QED
      BY <3>1, <1>2 DEF CountOf
  <2>3. g.count = CountOf(h.ref, x)
    BY <2>1, <2>2 DEF HeapOK
  <2>4. \A q : Pointed(q, x) = Pointed(q, None) \cup {x}
    BY <2>1, <1>2 DEF Pointed
  <2> HIDE DEF g
  <2>5. HeapOK(g, x)
    BY <2>1, <2>3, <2>4, <1>4 DEF HeapOK
  <2>6. Assign(g, k, x) = a
    <3>1. \A j \in Holders : r[j] = IF j = k THEN x ELSE g.ref[j]
      BY <1>1, <2>1
    <3> HIDE DEF r, a
    <3>2. Assign(g, k, x) = Settled(g, x, r)
      BY <1>1, <2>5, <3>1, AssignSettles
    <3> QED
      BY <3>2 DEF a
  <2>7. x \in Pointed(r, None)
    BY <1>1, <2>1 DEF Pointed
  <2>8. X = Pointed(g.ref, x) \ Pointed(r, x)
    BY <2>1, <2>4, <2>7
  <2>9. a \in Heaps /\ a.ref = r /\ a.count = CountOf(r, x) /\ Frees(g, X, a)
    BY <1>1, <2>1, <2>8, SettledIs
  <2> HIDE DEF a, r
  <2>10. /\ less \in Heaps /\ less.ref = a.ref
         /\ less.count = [a.count EXCEPT ![x] = @ - 1]
         /\ less.content = a.content /\ less.pool = a.pool
         /\ less.registered = a.registered /\ less.committed = a.committed
         /\ less.dying = a.dying /\ less.owned = a.owned
    BY <2>1, <2>9 DEF Heaps
  <2> HIDE DEF less, X
  <2>11. less.count = CountOf(r, None)
    BY <2>2, <2>9, <2>10
  <2>12. less.count[x] # 0
    BY <2>1, <2>7, <2>11, CountZero
  <2>13. AssignTemporary(h, k, x) = less
    BY <2>6, <2>12, <1>4 DEF AssignTemporary, Ref, Deref, g, less
  <2>14. Frees(h, X, less)
    <3>1. Frees(h, X, a)
      BY <2>1, <2>9 DEF Frees
    <3> QED
      BY <3>1, <2>10, Zenon DEF Frees
  <2>15. s \in Heaps /\ s.ref = r /\ s.count = CountOf(r, None) /\ Frees(h, X, s)
    BY <1>1, SettledIs DEF X
  <2> HIDE DEF s
  <2>16. less = s
    BY <2>9, <2>10, <2>11, <2>14, <2>15, SameFrees
  <2> QED
    BY <2>13, <2>16 DEF s, r
<1> QED
  BY <1>3, <1>4

\* Who points where after the holders K were made to point to x.
Redirected(r, K, x) == [j \in Holders |-> IF j \in K THEN x ELSE r[j]]

LEMMA SettledSame ==
  ASSUME NEW h, NEW e, HeapOK(h, e)
  PROVE  Settled(h, e, h.ref) = h
<1> DEFINE s == Settled(h, e, h.ref)
           P == Pointed(h.ref, e)
<1>1. /\ h \in Heaps /\ h.ref \in [Holders -> Slots \cup {None}]
      /\ h.count = CountOf(h.ref, e)
  BY DEF HeapOK, Heaps
<1>2. s \in Heaps /\ s.ref = h.ref /\ s.count = h.count /\ Frees(h, P \ P, s)
  BY <1>1, SettledIs
<1> HIDE DEF s, P
<1>3. P \ P = {}
  OBVIOUS
<1>4. Frees(h, {}, h)
  BY <1>1, FreesNobody
<1>5. s = h
  BY <1>1, <1>2, <1>3, <1>4, SameFrees
<1> QED
  BY <1>5 DEF s

\* Several assignments to views settle the heap as one.
LEMMA AssignAllSettles ==
  ASSUME NEW h, HeapOK(h, None), NEW kind \in {"next", "current", "provider"},
         NEW views \in SUBSET Views, NEW x,
         \/ x = None
         \/ x \in Slots /\ \E j \in Holders : j[1] # kind /\ h.ref[j] = x
  PROVE  AssignAll(h, kind, views, x) =
           Settled(h, None, Redirected(h.ref, {kind} \X views, x))
<1> DEFINE R(s) == Redirected(h.ref, {kind} \X s, x)
           g == [s \in SUBSET views |-> Settled(h, None, R(s))]
           f == CHOOSE q : q = [s \in SUBSET views |->
                    IF s = {} THEN h
                    ELSE Assign(q[s \ {CHOOSE w \in s : TRUE}],
                                <<kind, CHOOSE w \in s : TRUE>>, x)]
<1>1. AssignAll(h, kind, views, x) = f[views]
  BY AssignAllUnfolds
<1>2. /\ h \in Heaps /\ h.ref \in [Holders -> Slots \cup {None}]
      /\ \A j \in Holders : h.ref[j] \in h.pool \cup {None}
      /\ x \in Slots \cup {None} /\ None \notin Slots
  BY NoneAssumption DEF HeapOK, Heaps
<1>3. \A s : R(s) \in [Holders -> Slots \cup {None}]
  BY <1>2 DEF Redirected
<1>4. IsFiniteSet(views)
  BY FiniteAssumption, FS_Subset
<1>5. g[{}] = h
  <2>1. R({}) = h.ref
    BY <1>2 DEF Redirected
  <2>2. Settled(h, None, h.ref) = h
    BY SettledSame
  <2> HIDE DEF R
  <2> QED
    BY <2>1, <2>2
<1>6. ASSUME NEW s \in SUBSET views, NEW w \in s
      PROVE  g[s] = Assign(g[s \ {w}], <<kind, w>>, x)
  <2> DEFINE p == R(s \ {w})
             r == R(s)
             a == Settled(h, None, p)
             k == <<kind, w>>
  <2>1. k \in Holders /\ k \in {kind} \X s /\ k \notin {kind} \X (s \ {w})
    BY DEF Holders
  <2>2. {kind} \X s = ({kind} \X (s \ {w})) \cup {k}
    OBVIOUS
  <2> HIDE DEF k
  <2>3. \A j \in Holders : r[j] = IF j = k THEN x ELSE p[j]
    BY <2>1, <2>2 DEF Redirected
  <2>4. \A j \in Holders : p[j] \in h.pool \cup {None}
    BY <1>2 DEF Redirected
  <2>5. p \in [Holders -> Slots \cup {None}] /\ r \in [Holders -> Slots \cup {None}]
    BY <1>3
  <2>6. \A j \in Holders : j[1] # kind => p[j] = h.ref[j] /\ r[j] = h.ref[j] /\ j # k
    BY DEF Redirected, k
  <2>7. \A j \in Holders : /\ p[j] = x \/ p[j] = h.ref[j]
                           /\ r[j] = x \/ r[j] = p[j]
    BY <2>3, <2>5 DEF Redirected
  <2>8. HeapOK(a, None) /\ a.ref = p
    <3> HIDE DEF p, R
    <3>1. HeapOK(Settled(h, None, p), None)
      BY <2>4, <2>5, SettledOK
    <3>2. Settled(h, None, p).ref = p
      BY <1>2, <2>5, SettledIs
    <3> QED
      BY <3>1, <3>2
  <2> HIDE DEF p, r, a, R
  <2>9. x = None \/ \E j \in Holders : j # k /\ a.ref[j] = x
    BY <2>6, <2>8
  <2>10. Assign(a, k, x) = Settled(a, None, r)
    <3>1. \A j \in Holders : r[j] = IF j = k THEN x ELSE a.ref[j]
      BY <2>3, <2>8
    <3> QED
      BY <3>1, <1>2, <2>1, <2>5, <2>8, <2>9, AssignSettles
  <2>11. Pointed(r, None) \subseteq Pointed(p, None)
    BY <2>6, <2>7, <1>2 DEF Pointed
  <2>12. Pointed(p, None) \ Pointed(r, None) \subseteq Pointed(h.ref, None)
    BY <2>6, <2>7, <1>2 DEF Pointed
  <2>13. Settled(a, None, r) = Settled(h, None, r)
    BY <2>5, <2>11, <2>12, <1>2, SettledTwice DEF a
  <2>14. g[s] = Settled(h, None, r) /\ g[s \ {w}] = a
    BY DEF a, p, r
  <2> QED
    BY <2>10, <2>13, <2>14 DEF k
<1> HIDE DEF R
<1>7. g = [s \in SUBSET views |->
             IF s = {} THEN h
             ELSE Assign(g[s \ {CHOOSE w \in s : TRUE}],
                         <<kind, CHOOSE w \in s : TRUE>>, x)]
  <2>1. ASSUME NEW s \in SUBSET views
        PROVE  g[s] = IF s = {} THEN h
                      ELSE Assign(g[s \ {CHOOSE w \in s : TRUE}],
                                  <<kind, CHOOSE w \in s : TRUE>>, x)
    <3>1. CASE s = {}
      BY <3>1, <1>5
    <3>2. CASE s # {}
      <4>1. (CHOOSE w \in s : TRUE) \in s
        BY <3>2
      <4> HIDE DEF g
      <4> QED
        BY <4>1, <3>2, <1>6
    <3> QED
      BY <3>1, <3>2
  <2>2. g = [s \in SUBSET views |-> g[s]]
    OBVIOUS
  <2> HIDE DEF g
  <2> QED
    BY <2>1, <2>2, Zenon
<1> HIDE DEF g
<1>8. f = [s \in SUBSET views |->
             IF s = {} THEN h
             ELSE Assign(f[s \ {CHOOSE w \in s : TRUE}],
                         <<kind, CHOOSE w \in s : TRUE>>, x)]
  BY <1>7, ZenonT(60)
<1> HIDE DEF f
<1>9. f[{}] = g[{}]
  BY <1>5, <1>8
<1>10. \A s \in SUBSET views :
         LET w == CHOOSE y \in s : TRUE
         IN  s # {} /\ f[s \ {w}] = g[s \ {w}] => f[s] = g[s]
  <2> TAKE s \in SUBSET views
  <2> DEFINE w == CHOOSE y \in s : TRUE
  <2>1. s # {} => f[s] = Assign(f[s \ {w}], <<kind, w>>, x)
    BY <1>8, ZenonT(60)
  <2>2. s # {} => g[s] = Assign(g[s \ {w}], <<kind, w>>, x)
    BY <1>7, ZenonT(60)
  <2> QED
    BY <2>1, <2>2
<1>11. f[views] = g[views]
  BY <1>4, <1>9, <1>10, SameFold
<1> QED
  BY <1>1, <1>11 DEF g, R

-----------------------------------------------------------------------------
(* The pool of a surface that goes away *)

\* The SurfaceBuffers S are to be destroyed when unused.
Dying(h, S) == [h EXCEPT !.dying = @ \cup S]

\* The heap after setDestroyIfUnused(true) was called for each of S.
Marked(h, S) == Freed(Dying(h, S), {x \in S : h.count[x] = 0})

LEMMA DyingIs ==
  ASSUME NEW h \in Heaps, NEW S \in SUBSET Slots
  PROVE  /\ Dying(h, S) \in Heaps /\ Dying(h, S).dying = h.dying \cup S
         /\ Dying(h, S).ref = h.ref /\ Dying(h, S).count = h.count
         /\ Dying(h, S).content = h.content /\ Dying(h, S).pool = h.pool
         /\ Dying(h, S).registered = h.registered
         /\ Dying(h, S).committed = h.committed /\ Dying(h, S).owned = h.owned
BY DEF Heaps, Dying

LEMMA MarkedIs ==
  ASSUME NEW h \in Heaps, NEW S \in SUBSET Slots, NEW X, X = {x \in S : h.count[x] = 0}
  PROVE  /\ Marked(h, S) \in Heaps /\ Marked(h, S).ref = h.ref
         /\ Marked(h, S).count = h.count /\ Frees(Dying(h, S), X, Marked(h, S))
<1> DEFINE m == Dying(h, S)
<1>1. m \in Heaps /\ m.ref = h.ref /\ m.count = h.count
  BY DyingIs
<1>2. Marked(h, S) = Freed(m, X) /\ X \in SUBSET Slots
  BY DEF Marked
<1> HIDE DEF m
<1>3. Freed(m, X) \in Heaps
  BY <1>1, <1>2, FreedType
<1>4. Freed(m, X).ref = m.ref /\ Freed(m, X).count = m.count
  BY DEF Freed
<1>5. Frees(m, X, Freed(m, X))
  BY DEF Freed, Frees
<1> QED
  BY <1>1, <1>2, <1>3, <1>4, <1>5 DEF m

\* destroyIfUnused() of a SurfaceBuffer that was just marked.
LEMMA DestroyIfUnusedFrees ==
  ASSUME NEW h \in Heaps, NEW x \in h.dying
  PROVE  DestroyIfUnused(h, x) = IF h.count[x] = 0 THEN Freed(h, {x}) ELSE h
<1>1. CASE h.count[x] # 0
  BY <1>1 DEF DestroyIfUnused
<1>2. CASE h.count[x] = 0
  <2> DEFINE d == DestructBufferState(h, x)
             g == [d EXCEPT !.pool = @ \ {x}, !.dying = @ \ {x}]
             f == Freed(h, {x})
  <2>1. DestroyIfUnused(h, x) = g
    BY <1>2 DEF DestroyIfUnused
  <2>2. /\ d \in Heaps /\ d.ref = h.ref /\ d.count = h.count /\ d.pool = h.pool
        /\ d.dying = h.dying /\ d.registered = h.registered \ {x}
        /\ d.committed = h.committed \ {x}
        /\ d.content = [h.content EXCEPT ![x] = None]
        /\ d.owned = IF x \in h.committed /\ h.content[x] # None
                     THEN h.owned \cup {h.content[x]} ELSE h.owned
    BY DEF Heaps, DestructBufferState
  <2>3. /\ d.content = [y \in Slots |-> IF y \in {x} THEN None ELSE h.content[y]]
        /\ d.owned = h.owned \cup ({h.content[y] : y \in {x} \cap h.committed} \ {None})
    BY <2>2 DEF Heaps
  <2> HIDE DEF d
  <2>4. /\ g \in Heaps /\ g.ref = h.ref /\ g.count = h.count
        /\ g.pool = h.pool \ {x} /\ g.dying = h.dying \ {x}
        /\ g.registered = d.registered /\ g.committed = d.committed
        /\ g.content = d.content /\ g.owned = d.owned
    BY <2>2 DEF Heaps
  <2> HIDE DEF g
  <2>5. {x} \cap h.dying = {x}
    OBVIOUS
  <2>6. g.registered = h.registered \ {x} /\ g.committed = h.committed \ {x}
    BY <2>2, <2>4
  <2>7. Frees(h, {x}, g)
    BY <2>3, <2>4, <2>5, <2>6, Zenon DEF Frees
  <2>8. {x} \in SUBSET Slots
    BY DEF Heaps
  <2>9. f \in Heaps
    BY <2>8, FreedType
  <2>10. Frees(h, {x}, f) /\ f.ref = h.ref /\ f.count = h.count
    BY DEF Freed, Frees
  <2> HIDE DEF f
  <2>11. g = f
    BY <2>4, <2>7, <2>9, <2>10, SameFrees
  <2> QED
    BY <2>1, <2>11, <1>2 DEF f
<1> QED
  BY <1>1, <1>2

LEMMA MarkOne ==
  ASSUME NEW h \in Heaps, NEW S \in SUBSET Slots, NEW x \in S
  PROVE  Marked(h, S) = DestroyIfUnused(Dying(Marked(h, S \ {x}), {x}), x)
<1> DEFINE T == S \ {x}
           X == {y \in S : h.count[y] = 0}
           Y == {y \in T : h.count[y] = 0}
           m == Dying(h, S)
           n == Dying(h, T)
           a == Marked(h, S)
           b == Marked(h, T)
           c == Dying(b, {x})
<1>1. T \in SUBSET Slots /\ x \in Slots /\ X \in SUBSET Slots /\ Y \in SUBSET Slots
  OBVIOUS
<1>2. /\ X = IF h.count[x] = 0 THEN Y \cup {x} ELSE Y
      /\ x \notin Y
  OBVIOUS
<1>3. a \in Heaps /\ a.ref = h.ref /\ a.count = h.count /\ Frees(m, X, a)
  BY MarkedIs
<1>4. b \in Heaps /\ b.ref = h.ref /\ b.count = h.count /\ Frees(n, Y, b)
  BY <1>1, MarkedIs
<1>5. /\ m \in Heaps /\ m.dying = h.dying \cup S
      /\ m.ref = h.ref /\ m.count = h.count
      /\ m.content = h.content /\ m.pool = h.pool /\ m.registered = h.registered
      /\ m.committed = h.committed /\ m.owned = h.owned
  BY DyingIs
<1>6. /\ n \in Heaps /\ n.dying = h.dying \cup T
      /\ n.content = h.content /\ n.pool = h.pool /\ n.registered = h.registered
      /\ n.committed = h.committed /\ n.owned = h.owned
  BY <1>1, DyingIs
<1> HIDE DEF b
<1>7. /\ c \in Heaps /\ c.dying = b.dying \cup {x}
      /\ c.ref = b.ref /\ c.count = b.count
      /\ c.content = b.content /\ c.pool = b.pool /\ c.registered = b.registered
      /\ c.committed = b.committed /\ c.owned = b.owned
  BY <1>1, <1>4, DyingIs
<1> HIDE DEF a, c, m, n, X, Y
<1>8. S = T \cup {x} /\ x \notin T
  OBVIOUS
<1> HIDE DEF T
<1>9. Frees(m, Y, c)
  <2>1. /\ b.content = [z \in Slots |-> IF z \in Y THEN None ELSE n.content[z]]
        /\ b.pool = n.pool \ (Y \cap n.dying)
        /\ b.registered = n.registered \ Y /\ b.committed = n.committed \ Y
        /\ b.dying = n.dying \ Y
        /\ b.owned = n.owned \cup
                       ({n.content[z] : z \in Y \cap n.committed} \ {None})
    BY <1>4 DEF Frees
  <2>2. Y \cap n.dying = Y \cap m.dying /\ c.dying = m.dying \ Y
    BY <2>1, <1>2, <1>5, <1>6, <1>7, <1>8
  <2>3. /\ c.content = [z \in Slots |-> IF z \in Y THEN None ELSE m.content[z]]
        /\ c.pool = m.pool \ (Y \cap m.dying)
        /\ c.registered = m.registered \ Y /\ c.committed = m.committed \ Y
        /\ c.owned = m.owned \cup
                       ({m.content[z] : z \in Y \cap m.committed} \ {None})
    <3>1. /\ n.content = m.content /\ n.pool = m.pool
          /\ n.registered = m.registered /\ n.committed = m.committed
          /\ n.owned = m.owned
      BY <1>5, <1>6, Zenon
    <3> QED
      BY <3>1, <2>1, <2>2, <1>7
  <2> QED
    BY <2>2, <2>3 DEF Frees
<1>10. DestroyIfUnused(c, x) = IF c.count[x] = 0 THEN Freed(c, {x}) ELSE c
  <2>1. x \in c.dying
    BY <1>7
  <2> QED
    BY <2>1, <1>7, DestroyIfUnusedFrees
<1>11. a = DestroyIfUnused(c, x)
  <2>1. CASE h.count[x] = 0
    <3> DEFINE f == Freed(c, {x})
    <3>1. f \in Heaps
      BY <1>1, <1>7, FreedType
    <3>2. Frees(c, {x}, f) /\ f.ref = c.ref /\ f.count = c.count
      BY DEF Freed, Frees
    <3> HIDE DEF f
    <3>3. {x} \in SUBSET Slots /\ Y \cap {x} = {}
      BY <1>1, <1>2
    <3>4. Frees(m, Y \cup {x}, f)
      BY <3>2, <3>3, <1>1, <1>5, <1>7, <1>9, FreesTwice
    <3>5. X = Y \cup {x}
      BY <1>2, <2>1
    <3>6. a = f
      BY <3>1, <3>2, <3>4, <3>5, <1>3, <1>4, <1>7, SameFrees
    <3> QED
      BY <3>6, <2>1, <1>4, <1>7, <1>10 DEF f
  <2>2. CASE h.count[x] # 0
    <3>1. a = c
      BY <2>2, <1>2, <1>3, <1>4, <1>7, <1>9, SameFrees
    <3> QED
      BY <3>1, <2>2, <1>4, <1>7, <1>10
  <2> QED
    BY <2>1, <2>2
<1> QED
  BY <1>11 DEF a, b, c, T

LEMMA MarkPoolFrees ==
  ASSUME NEW h \in Heaps, NEW s
  PROVE  MarkPool(h, s) = Marked(h, {x \in h.pool : Of(x) = s})
<1> DEFINE E == {x \in h.pool : Of(x) = s}
           g == [S \in SUBSET E |-> Marked(h, S)]
           f == CHOOSE q : q = [S \in SUBSET E |->
                  IF S = {} THEN h
                  ELSE LET x == CHOOSE y \in S : TRUE
                       IN  DestroyIfUnused([q[S \ {x}] EXCEPT !.dying = @ \cup {x}], x)]
<1>1. MarkPool(h, s) = f[E]
  BY MarkPoolUnfolds
<1>2. IsFiniteSet(Slots)
  <2>1. IsFiniteSet(1..MaxPool)
    BY MaxPoolAssumption, FS_Interval
  <2> QED
    BY <2>1, FiniteAssumption, FS_Product DEF Slots
<1>3. E \in SUBSET Slots /\ IsFiniteSet(E)
  BY <1>2, FS_Subset DEF Heaps
<1>4. g[{}] = h
  <2>1. Marked(h, {}) = h
    <3> DEFINE a == Marked(h, {})
    <3>1. {x \in {} : h.count[x] = 0} = {} /\ {} \in SUBSET Slots
      OBVIOUS
    <3>2. Dying(h, {}) = h
      BY DEF Dying, Heaps
    <3>3. a \in Heaps /\ a.ref = h.ref /\ a.count = h.count /\ Frees(h, {}, a)
      BY <3>1, <3>2, MarkedIs
    <3> HIDE DEF a
    <3>4. Frees(h, {}, h)
      BY FreesNobody
    <3>5. a = h
      BY <3>3, <3>4, SameFrees
    <3> QED
      BY <3>5 DEF a
  <2> QED
    BY <2>1
<1>5. ASSUME NEW S \in SUBSET E, NEW x \in S
      PROVE  g[S] = DestroyIfUnused([g[S \ {x}] EXCEPT !.dying = @ \cup {x}], x)
  <2>1. Marked(h, S) = DestroyIfUnused(Dying(Marked(h, S \ {x}), {x}), x)
    BY <1>3, MarkOne
  <2>2. g[S] = Marked(h, S) /\ g[S \ {x}] = Marked(h, S \ {x})
    OBVIOUS
  <2> HIDE DEF g
  <2> QED
    BY <2>1, <2>2 DEF Dying
<1>6. g = [S \in SUBSET E |->
             IF S = {} THEN h
             ELSE LET x == CHOOSE y \in S : TRUE
                  IN  DestroyIfUnused([g[S \ {x}] EXCEPT !.dying = @ \cup {x}], x)]
  <2>1. ASSUME NEW S \in SUBSET E
        PROVE  g[S] = IF S = {} THEN h
                      ELSE LET x == CHOOSE y \in S : TRUE
                           IN  DestroyIfUnused([g[S \ {x}] EXCEPT !.dying = @ \cup {x}], x)
    <3>1. CASE S = {}
      BY <3>1, <1>4
    <3>2. CASE S # {}
      <4>1. (CHOOSE y \in S : TRUE) \in S
        BY <3>2
      <4> HIDE DEF g
      <4> QED
        BY <4>1, <3>2, <1>5
    <3> QED
      BY <3>1, <3>2
  <2>2. g = [S \in SUBSET E |-> g[S]]
    OBVIOUS
  <2> HIDE DEF g
  <2> QED
    BY <2>1, <2>2, Zenon
<1> HIDE DEF g
<1>7. f = [S \in SUBSET E |->
             IF S = {} THEN h
             ELSE LET x == CHOOSE y \in S : TRUE
                  IN  DestroyIfUnused([f[S \ {x}] EXCEPT !.dying = @ \cup {x}], x)]
  BY <1>6, ZenonT(60)
<1> HIDE DEF f, E
<1>8. f[{}] = g[{}]
  BY <1>4, <1>7
<1>9. \A S \in SUBSET E :
        LET x == CHOOSE y \in S : TRUE
        IN  S # {} /\ f[S \ {x}] = g[S \ {x}] => f[S] = g[S]
  <2> TAKE S \in SUBSET E
  <2> DEFINE x == CHOOSE y \in S : TRUE
  <2>1. S # {} => f[S] = DestroyIfUnused([f[S \ {x}] EXCEPT !.dying = @ \cup {x}], x)
    BY <1>7, ZenonT(60)
  <2>2. S # {} => g[S] = DestroyIfUnused([g[S \ {x}] EXCEPT !.dying = @ \cup {x}], x)
    BY <1>6, ZenonT(60)
  <2> QED
    BY <2>1, <2>2
<1>10. f[E] = g[E]
  BY <1>3, <1>8, <1>9, SameFold
<1> QED
  BY <1>1, <1>10 DEF g, E

-----------------------------------------------------------------------------
(* Several assignments in a row *)

\* Heap a is heap h with references let go or handed on, none of them new.
Reached(h, a) ==
  /\ HeapOK(h, None) /\ HeapOK(a, None)
  /\ a = Settled(h, None, a.ref)
  /\ Pointed(a.ref, None) \subseteq Pointed(h.ref, None)

LEMMA ReachedSelf ==
  ASSUME NEW h, HeapOK(h, None)
  PROVE  Reached(h, h)
BY SettledSame DEF Reached

\* What is pointed to is in the pool.
LEMMA PointedInPool ==
  ASSUME NEW h, HeapOK(h, None)
  PROVE  /\ h \in Heaps /\ h.ref \in [Holders -> Slots \cup {None}]
         /\ Pointed(h.ref, None) \subseteq h.pool /\ h.pool \in SUBSET Slots
         /\ h.dying \subseteq h.pool
         /\ \A j \in Holders : h.ref[j] # None => h.ref[j] \in Pointed(h.ref, None)
BY NoneAssumption DEF HeapOK, Heaps, Pointed

LEMMA ReachedSettled ==
  ASSUME NEW h, NEW a, Reached(h, a), NEW r \in [Holders -> Slots \cup {None}],
         Pointed(r, None) \subseteq Pointed(a.ref, None)
  PROVE  Reached(h, Settled(a, None, r)) /\ Settled(a, None, r).ref = r
<1> DEFINE b == Settled(a, None, r)
<1>1. /\ HeapOK(h, None) /\ HeapOK(a, None) /\ a = Settled(h, None, a.ref)
      /\ Pointed(a.ref, None) \subseteq Pointed(h.ref, None)
  BY DEF Reached
<1>2. /\ h \in Heaps /\ a \in Heaps /\ a.ref \in [Holders -> Slots \cup {None}]
      /\ Pointed(a.ref, None) \subseteq a.pool
  BY <1>1, PointedInPool
<1>3. b.ref = r
  BY <1>2, SettledIs
<1>4. \A j \in Holders : r[j] \in a.pool \cup {None}
  <2>1. \A j \in Holders : r[j] # None => r[j] \in Pointed(r, None)
    BY DEF Pointed
  <2> QED
    BY <2>1, <1>2
<1>5. HeapOK(b, None)
  BY <1>1, <1>4, SettledOK
<1>6. b = Settled(h, None, r)
  <2>1. Settled(Settled(h, None, a.ref), None, r) = Settled(h, None, r)
    BY <1>1, <1>2, SettledTwice
  <2> QED
    BY <2>1, <1>1
<1> HIDE DEF b
<1>7. Reached(h, b)
  BY <1>1, <1>3, <1>5, <1>6 DEF Reached
<1> QED
  BY <1>3, <1>7 DEF b

\* The target of the assignment is the one of another holder.
LEMMA ReachedAssign ==
  ASSUME NEW h, NEW a, Reached(h, a), NEW k \in Holders, NEW x, NEW i \in Holders,
         x = None \/ (i # k /\ a.ref[i] = x)
  PROVE  /\ Reached(h, Assign(a, k, x))
         /\ Assign(a, k, x).ref = Redirected(a.ref, {k}, x)
<1> DEFINE r == Redirected(a.ref, {k}, x)
<1>1. HeapOK(a, None) /\ a.ref \in [Holders -> Slots \cup {None}]
  BY PointedInPool DEF Reached
<1>2. \A j \in Holders : r[j] = IF j = k THEN x ELSE a.ref[j]
  BY DEF Redirected
<1>3. x \in Slots \cup {None} /\ r \in [Holders -> Slots \cup {None}]
  BY <1>1 DEF Redirected
<1> HIDE DEF r
<1>4. Assign(a, k, x) = Settled(a, None, r)
  BY <1>1, <1>2, <1>3, AssignSettles
<1>5. Pointed(r, None) \subseteq Pointed(a.ref, None)
  BY <1>2, NoneAssumption DEF Pointed
<1>6. Reached(h, Settled(a, None, r)) /\ Settled(a, None, r).ref = r
  BY <1>3, <1>5, ReachedSettled
<1> QED
  BY <1>4, <1>6, Zenon DEF r

LEMMA ReachedLetGo ==
  ASSUME NEW h, NEW a, Reached(h, a), NEW k \in Holders
  PROVE  /\ Reached(h, Assign(a, k, None))
         /\ Assign(a, k, None).ref = Redirected(a.ref, {k}, None)
BY ReachedAssign

LEMMA ReachedTemporary ==
  ASSUME NEW h, NEW a, Reached(h, a), NEW k \in Holders, NEW x, NEW i \in Holders,
         x = None \/ a.ref[i] = x
  PROVE  /\ Reached(h, AssignTemporary(a, k, x))
         /\ AssignTemporary(a, k, x).ref = Redirected(a.ref, {k}, x)
<1> DEFINE r == Redirected(a.ref, {k}, x)
<1>1. /\ HeapOK(a, None) /\ a.ref \in [Holders -> Slots \cup {None}]
      /\ \A j \in Holders : a.ref[j] \in a.pool \cup {None}
  BY PointedInPool DEF Reached, HeapOK
<1>2. \A j \in Holders : r[j] = IF j = k THEN x ELSE a.ref[j]
  BY DEF Redirected
<1>3. /\ x \in Slots \cup {None} /\ r \in [Holders -> Slots \cup {None}]
      /\ x \in a.pool \cup {None}
  BY <1>1 DEF Redirected
<1>4. r = [a.ref EXCEPT ![k] = x]
  BY <1>1 DEF Redirected
<1> HIDE DEF r
<1>5. AssignTemporary(a, k, x) = Settled(a, None, [a.ref EXCEPT ![k] = x])
  BY <1>1, <1>3, AssignTemporarySettles
<1>6. AssignTemporary(a, k, x) = Settled(a, None, r)
  BY <1>4, <1>5
<1>7. Pointed(r, None) \subseteq Pointed(a.ref, None)
  BY <1>2, NoneAssumption DEF Pointed
<1>8. Reached(h, Settled(a, None, r)) /\ Settled(a, None, r).ref = r
  BY <1>3, <1>7, ReachedSettled
<1> QED
  BY <1>6, <1>8, Zenon DEF r

LEMMA ReachedAssignAll ==
  ASSUME NEW h, NEW a, Reached(h, a), NEW kind \in {"next", "current", "provider"},
         NEW views \in SUBSET Views
  PROVE  /\ Reached(h, AssignAll(a, kind, views, None))
         /\ AssignAll(a, kind, views, None).ref =
              Redirected(a.ref, {kind} \X views, None)
<1> DEFINE r == Redirected(a.ref, {kind} \X views, None)
<1>1. HeapOK(a, None) /\ a.ref \in [Holders -> Slots \cup {None}]
  BY PointedInPool DEF Reached
<1>2. \A j \in Holders : r[j] = None \/ r[j] = a.ref[j]
  BY DEF Redirected
<1>3. r \in [Holders -> Slots \cup {None}]
  BY <1>1 DEF Redirected
<1>4. AssignAll(a, kind, views, None) = Settled(a, None, r)
  BY <1>1, AssignAllSettles
<1> HIDE DEF r
<1>5. Pointed(r, None) \subseteq Pointed(a.ref, None)
  BY <1>2, NoneAssumption DEF Pointed
<1>6. Reached(h, Settled(a, None, r)) /\ Settled(a, None, r).ref = r
  BY <1>3, <1>5, ReachedSettled
<1> QED
  BY <1>4, <1>6, Zenon DEF r

-----------------------------------------------------------------------------
(* The specification *)

\* The inductive invariant.  To ReferencesExact it adds that a SurfaceBuffer of
\* a surface that is gone exists only while something points to it, and that
\* what is attached is in the pool of its surface, which is alive.
Inv ==
  /\ HeapOK(heap, None)
  /\ live \subseteq Surfaces
  /\ resources \subseteq Buffers
  /\ pending \in [Surfaces -> Slots \cup {None}]
  /\ \A s \in Surfaces : pending[s] # None =>
       s \in live /\ pending[s] \in heap.pool /\ Of(pending[s]) = s
  /\ \A x \in heap.pool : x \in heap.dying <=> Of(x) \notin live

LEMMA HeldIs ==
  ASSUME heap \in Heaps
  PROVE  References!Held = Pointed(heap.ref, None)
<1>1. heap.ref \in [Holders -> Slots \cup {None}]
  BY DEF Heaps
<1>2. \A j \in Holders :
        \/ \E s \in Surfaces : j = <<"buffer", s>>
        \/ \E v \in Views : j \in {<<"next", v>>, <<"current", v>>, <<"provider", v>>}
  BY DEF Holders
<1>3. /\ \A s \in Surfaces : <<"buffer", s>> \in Holders
      /\ \A v \in Views : <<"next", v>> \in Holders /\ <<"current", v>> \in Holders
                          /\ <<"provider", v>> \in Holders
  BY DEF Holders
<1>4. None \notin Slots
  BY NoneAssumption
<1>5. \A x : x \in References!Held <=>
               /\ x # None
               /\ \/ \E s \in Surfaces : heap.ref[<<"buffer", s>>] = x
                  \/ \E v \in Views : \/ heap.ref[<<"next", v>>] = x
                                      \/ heap.ref[<<"current", v>>] = x
                                      \/ heap.ref[<<"provider", v>>] = x
  BY DEF References!Held, Target
<1>6. \A x : x \in References!Held <=>
               x # None /\ \E j \in Holders : heap.ref[j] = x
  BY <1>2, <1>3, <1>5
<1> QED
  BY <1>1, <1>4, <1>6 DEF Pointed

LEMMA HeldIsPrimed ==
  ASSUME (heap \in Heaps)'
  PROVE  References!Held' = Pointed(heap'.ref, None)
<1>1. heap'.ref \in [Holders -> Slots \cup {None}]
  BY DEF Heaps
<1>2. \A j \in Holders :
        \/ \E s \in Surfaces : j = <<"buffer", s>>
        \/ \E v \in Views : j \in {<<"next", v>>, <<"current", v>>, <<"provider", v>>}
  BY DEF Holders
<1>3. /\ \A s \in Surfaces : <<"buffer", s>> \in Holders
      /\ \A v \in Views : <<"next", v>> \in Holders /\ <<"current", v>> \in Holders
                          /\ <<"provider", v>> \in Holders
  BY DEF Holders
<1>4. None \notin Slots
  BY NoneAssumption
<1>5. \A x : x \in References!Held' <=>
               /\ x # None
               /\ \/ \E s \in Surfaces : heap'.ref[<<"buffer", s>>] = x
                  \/ \E v \in Views : \/ heap'.ref[<<"next", v>>] = x
                                      \/ heap'.ref[<<"current", v>>] = x
                                      \/ heap'.ref[<<"provider", v>>] = x
  BY DEF References!Held, Target
<1>6. \A x : x \in References!Held' <=>
               x # None /\ \E j \in Holders : heap'.ref[j] = x
  BY <1>2, <1>3, <1>5
<1> QED
  BY <1>1, <1>4, <1>6 DEF Pointed

\* What the abstract module takes for unused, when no surface goes.
LEMMA UnusedIs ==
  ASSUME Inv, (heap \in Heaps)', live' = live
  PROVE  References!Unused = Pointed(heap.ref, None) \ Pointed(heap'.ref, None)
<1>1. /\ heap \in Heaps /\ Pointed(heap.ref, None) \subseteq heap.pool
      /\ heap.dying \subseteq Pointed(heap.ref, None)
      /\ \A x \in heap.pool : x \in heap.dying <=> Of(x) \notin live
  BY PointedInPool DEF Inv, HeapOK
<1>2. References!Held = Pointed(heap.ref, None)
  BY <1>1, HeldIs
<1>3. References!Held' = Pointed(heap'.ref, None)
  BY HeldIsPrimed
<1>4. References!Unused =
        {x \in heap.pool : /\ x \notin References!Held'
                           /\ x \in References!Held \/ Of(x) \notin live}
  BY DEF References!Unused, References!DestroyIfUnused, References!Of, Of
<1> QED
  BY <1>1, <1>2, <1>3, <1>4

\* A step that only lets go, or hands on, is one of the abstract module.
LEMMA ReachedDisowns ==
  ASSUME Inv, Reached(heap, heap'), live' = live
  PROVE  References!DisownUnused({})
<1> DEFINE U == Pointed(heap.ref, None) \ Pointed(heap'.ref, None)
<1>1. HeapOK(heap, None) /\ HeapOK(heap', None) /\ heap' = Settled(heap, None, heap'.ref)
  BY DEF Reached
<1>2. /\ heap \in Heaps /\ U \subseteq heap.pool
      /\ heap' \in Heaps /\ heap'.ref \in [Holders -> Slots \cup {None}]
  BY <1>1, PointedInPool
<1>3. Frees(heap, U, Settled(heap, None, heap'.ref))
  BY <1>2, SettledIs
<1>4. References!Unused = U
  BY <1>2, UnusedIs
<1> HIDE DEF U
<1>5. Frees(heap, U, heap')
  BY <1>1, <1>3
<1>6. U \cap heap.dying = {x \in U : References!DestroyIfUnused(x)'}
  BY <1>2 DEF Inv, References!DestroyIfUnused, References!Of, Of
<1>7. /\ heap'.content = [x \in Slots |-> IF x \in U THEN None ELSE heap.content[x]]
      /\ heap'.pool = heap.pool \ (U \cap heap.dying)
      /\ heap'.registered = heap.registered \ U
      /\ heap'.committed = heap.committed \ U
      /\ heap'.owned = heap.owned \cup
                         ({heap.content[x] : x \in U \cap heap.committed} \ {None})
  BY <1>5 DEF Frees
<1>8. References!ReleasedBy(U) = {heap.content[x] : x \in U \cap heap.committed} \ {None}
  BY DEF References!ReleasedBy
<1>9. heap'.committed = (heap.committed \ U) \cup {}
  BY <1>7
<1>10. heap'.owned = (heap.owned \ {heap.content[x] : x \in {}})
                       \cup References!ReleasedBy(U)
  <2>1. {heap.content[x] : x \in {}} = {}
    OBVIOUS
  <2> QED
    BY <2>1, <1>7, <1>8
<1>11. heap'.pool = heap.pool \ {x \in U : References!DestroyIfUnused(x)'}
  BY <1>6, <1>7
<1> QED
  BY <1>4, <1>7, <1>9, <1>10, <1>11
     DEF References!DisownUnused, References!Slots, Slots

LEMMA ReachedInv ==
  ASSUME Inv, Reached(heap, heap'), UNCHANGED <<live, pending, resources>>
  PROVE  Inv'
<1> DEFINE U == Pointed(heap.ref, None) \ Pointed(heap'.ref, None)
<1>1. HeapOK(heap, None) /\ HeapOK(heap', None) /\ heap' = Settled(heap, None, heap'.ref)
  BY DEF Reached
<1>2. /\ heap \in Heaps /\ U \subseteq heap.pool
      /\ heap' \in Heaps /\ heap'.ref \in [Holders -> Slots \cup {None}]
  BY <1>1, PointedInPool
<1>3. Frees(heap, U, Settled(heap, None, heap'.ref))
  BY <1>2, SettledIs
<1> HIDE DEF U
<1>4. Frees(heap, U, heap')
  BY <1>1, <1>3
<1>5. heap'.pool = heap.pool \ (U \cap heap.dying) /\ heap'.dying = heap.dying \ U
  BY <1>4 DEF Frees
<1>6. \A x \in heap'.pool : x \in heap'.dying <=> Of(x) \notin live'
  BY <1>5 DEF Inv
<1>7. \A s \in Surfaces : pending'[s] # None =>
        s \in live' /\ pending'[s] \in heap'.pool /\ Of(pending'[s]) = s
  BY <1>5 DEF Inv
<1> QED
  BY <1>1, <1>6, <1>7 DEF Inv

-----------------------------------------------------------------------------
(* The actions on views *)

LEMMA DestroyViewSteps ==
  ASSUME Inv, NEW v \in Views, DestroyView(v)
  PROVE  Inv' /\ References!DestroyView(v)
<1> DEFINE a == Assign(heap, <<"next", v>>, None)
           b == Assign(a, <<"current", v>>, None)
           c == Assign(b, <<"provider", v>>, None)
<1>1. /\ <<"next", v>> \in Holders /\ <<"current", v>> \in Holders
      /\ <<"provider", v>> \in Holders
  BY DEF Holders
<1>2. Reached(heap, heap)
  BY ReachedSelf DEF Inv
<1>3. Reached(heap, a) /\ a.ref = Redirected(heap.ref, {<<"next", v>>}, None)
  BY <1>1, <1>2, ReachedLetGo
<1> HIDE DEF a
<1>4. Reached(heap, b) /\ b.ref = Redirected(a.ref, {<<"current", v>>}, None)
  BY <1>1, <1>3, ReachedLetGo
<1> HIDE DEF b
<1>5. Reached(heap, c) /\ c.ref = Redirected(b.ref, {<<"provider", v>>}, None)
  BY <1>1, <1>4, ReachedLetGo
<1> HIDE DEF c
<1>6. heap' = c
  BY DEF DestroyView, a, b, c
<1>7. \A j \in Holders : heap'.ref[j] =
        IF j \in {<<"next", v>>, <<"current", v>>, <<"provider", v>>}
        THEN None ELSE heap.ref[j]
  BY <1>3, <1>4, <1>5, <1>6 DEF Redirected
<1>8. UNCHANGED <<live, pending, mapped, resources>>
  BY DEF DestroyView, surfaceVars
<1>9. Inv'
  BY <1>5, <1>6, <1>8, ReachedInv
<1>10. References!DisownUnused({})
  BY <1>5, <1>6, <1>8, ReachedDisowns
<1>11. /\ \A s \in Surfaces : Target("buffer", s)' = Target("buffer", s)
       /\ \A w \in Views :
            /\ Target("next", w)' = IF w = v THEN None ELSE Target("next", w)
            /\ Target("current", w)' = IF w = v THEN None ELSE Target("current", w)
            /\ Target("provider", w)' = IF w = v THEN None ELSE Target("provider", w)
  BY <1>7 DEF Holders, Target
<1>12. References!DestroyView(v)
  BY <1>8, <1>10, <1>11
     DEF DestroyView, Without, References!DestroyView, References!Without,
         References!surfaceVars
<1> QED
  BY <1>9, <1>12

LEMMA ShowSteps ==
  ASSUME Inv, NEW v \in Views, NEW s \in live \cup {None}, Show(v, s)
  PROVE  Inv' /\ References!Show(v, s)
<1> DEFINE a == IF v \in locked THEN heap ELSE Assign(heap, <<"current", v>>, None)
           b == Assign(a, <<"next", v>>, None)
           x == Target("buffer", s)
           c == IF s = None THEN b ELSE AssignTemporary(b, <<"next", v>>, x)
<1>1. /\ <<"next", v>> \in Holders /\ <<"current", v>> \in Holders
      /\ s # None => <<"buffer", s>> \in Holders
  BY DEF Holders, Inv
<1>2. Reached(heap, heap)
  BY ReachedSelf DEF Inv
<1>3. /\ Reached(heap, a)
      /\ \A j \in Holders : a.ref[j] =
           IF v \notin locked /\ j = <<"current", v>> THEN None ELSE heap.ref[j]
  <2>1. CASE v \in locked
    BY <2>1, <1>2
  <2>2. CASE v \notin locked
    <3>1. /\ Reached(heap, Assign(heap, <<"current", v>>, None))
          /\ Assign(heap, <<"current", v>>, None).ref =
               Redirected(heap.ref, {<<"current", v>>}, None)
      BY <1>1, <1>2, ReachedLetGo
    <3> QED
      BY <3>1, <2>2 DEF Redirected
  <2> QED
    BY <2>1, <2>2
<1> HIDE DEF a
<1>4. Reached(heap, b) /\ b.ref = Redirected(a.ref, {<<"next", v>>}, None)
  BY <1>1, <1>3, ReachedLetGo
<1> HIDE DEF b
<1>5. \A j \in Holders : b.ref[j] =
        IF j = <<"next", v>> THEN None
        ELSE IF v \notin locked /\ j = <<"current", v>> THEN None ELSE heap.ref[j]
  BY <1>3, <1>4 DEF Redirected
<1>6. /\ Reached(heap, c)
      /\ \A j \in Holders : c.ref[j] =
           IF j = <<"next", v>> THEN (IF s = None THEN None ELSE x) ELSE b.ref[j]
  <2>1. CASE s = None
    BY <2>1, <1>4, <1>5
  <2>2. CASE s # None
    <3>1. b.ref[<<"buffer", s>>] = x
      BY <2>2, <1>1, <1>5 DEF Target
    <3> HIDE DEF x
    <3>2. /\ Reached(heap, AssignTemporary(b, <<"next", v>>, x))
          /\ AssignTemporary(b, <<"next", v>>, x).ref =
               Redirected(b.ref, {<<"next", v>>}, x)
      <4> DEFINE k == <<"next", v>>
                 i == <<"buffer", s>>
      <4>1. k \in Holders /\ i \in Holders /\ b.ref[i] = x
        BY <1>1, <2>2, <3>1
      <4> HIDE DEF k, i
      <4>2. /\ Reached(heap, AssignTemporary(b, k, x))
            /\ AssignTemporary(b, k, x).ref = Redirected(b.ref, {k}, x)
        BY <4>1, <1>4, ReachedTemporary
      <4> QED
        BY <4>2 DEF k
    <3> QED
      BY <3>2, <2>2 DEF Redirected
  <2> QED
    BY <2>1, <2>2
<1> HIDE DEF c
<1>7. heap' = c
  BY DEF Show, a, b, c
<1>8. UNCHANGED <<live, pending, mapped, resources>>
  BY DEF Show, surfaceVars
<1>9. Inv'
  BY <1>6, <1>7, <1>8, ReachedInv
<1>10. References!DisownUnused({})
  BY <1>6, <1>7, <1>8, ReachedDisowns
<1>11. /\ \A t \in Surfaces : Target("buffer", t)' = Target("buffer", t)
       /\ \A w \in Views :
            /\ Target("next", w)' = IF w = v THEN (IF s = None THEN None ELSE x)
                                    ELSE Target("next", w)
            /\ Target("current", w)' = IF w = v /\ v \notin locked THEN None
                                       ELSE Target("current", w)
            /\ Target("provider", w)' = Target("provider", w)
  BY <1>5, <1>6, <1>7 DEF Holders, Target
<1>12. s # None => s \in Surfaces
  BY DEF Inv
<1>13. /\ [t \in Surfaces |-> Target("buffer", t)]' =
            [t \in Surfaces |-> Target("buffer", t)]
       /\ [w \in Views |-> Target("next", w)]' =
            [[w \in Views |-> Target("next", w)] EXCEPT ![v] =
               IF s = None THEN None ELSE [t \in Surfaces |-> Target("buffer", t)][s]]
       /\ [w \in Views |-> Target("current", w)]' =
            [[w \in Views |-> Target("current", w)] EXCEPT ![v] =
               IF v \in locked THEN @ ELSE None]
       /\ [w \in Views |-> Target("provider", w)]' =
            [w \in Views |-> Target("provider", w)]
  BY <1>11, <1>12
<1>14. References!Show(v, s)
  BY <1>8, <1>10, <1>13 DEF Show, References!Show
<1> QED
  BY <1>9, <1>14

LEMMA AdvanceSteps ==
  ASSUME Inv, NEW v \in Views, Advance(v)
  PROVE  Inv' /\ References!Advance(v)
<1> DEFINE D == Discarded(v)
           a == AssignAll(heap, "current", D, None)
           x == Target("next", v)
           c == Assign(a, <<"current", v>>, x)
<1>1. <<"next", v>> \in Holders /\ <<"current", v>> \in Holders /\ D \in SUBSET Views
  BY DEF Holders, Discarded, ViewsOf
<1>2. Reached(heap, heap)
  BY ReachedSelf DEF Inv
<1> HIDE DEF D
<1>3. Reached(heap, a) /\ a.ref = Redirected(heap.ref, {"current"} \X D, None)
  BY <1>1, <1>2, ReachedAssignAll
<1> HIDE DEF a
<1>4. a.ref[<<"next", v>>] = x
  BY <1>1, <1>3 DEF Redirected, Target
<1> HIDE DEF x
<1>5. Reached(heap, c) /\ c.ref = Redirected(a.ref, {<<"current", v>>}, x)
  <2> DEFINE k == <<"current", v>>
             i == <<"next", v>>
  <2>1. k \in Holders /\ i \in Holders /\ i # k /\ a.ref[i] = x
    BY <1>1, <1>4
  <2> HIDE DEF k, i
  <2>2. Reached(heap, Assign(a, k, x)) /\ Assign(a, k, x).ref = Redirected(a.ref, {k}, x)
    BY <2>1, <1>3, ReachedAssign
  <2> QED
    BY <2>2 DEF k
<1> HIDE DEF c
<1>6. heap' = c
  BY DEF Advance, a, c, D, x
<1>7. \A j \in Holders : heap'.ref[j] =
        IF j = <<"current", v>> THEN x
        ELSE IF j \in {"current"} \X D THEN None ELSE heap.ref[j]
  BY <1>3, <1>5, <1>6 DEF Redirected
<1>8. UNCHANGED <<live, pending, mapped, resources>>
  BY DEF Advance, surfaceVars
<1>9. Inv'
  BY <1>5, <1>6, <1>8, ReachedInv
<1>10. References!DisownUnused({})
  BY <1>5, <1>6, <1>8, ReachedDisowns
<1>11. /\ \A s \in Surfaces : Target("buffer", s)' = Target("buffer", s)
       /\ \A w \in Views :
            /\ Target("next", w)' = Target("next", w)
            /\ Target("current", w)' = IF w = v THEN x
                                       ELSE IF w \in D THEN None
                                       ELSE Target("current", w)
            /\ Target("provider", w)' = Target("provider", w)
  BY <1>7 DEF Holders, Target
<1>12. References!Discarded(v) = D
  BY DEF References!Discarded, References!Throttles, References!ViewsOf, D,
         Discarded, Throttles, ViewsOf
<1>13. References!CanAdvance(v)
  BY DEF Advance, CanAdvance, References!CanAdvance
<1>14. References!Advance(v)
  BY <1>8, <1>10, <1>11, <1>12, <1>13
     DEF Advance, References!Advance, References!surfaceVars, D, x
<1> QED
  BY <1>9, <1>14

LEMMA PaintSteps ==
  ASSUME Inv, NEW v \in Views, Paint(v)
  PROVE  /\ Inv'
         /\ References!Render(v) \/ UNCHANGED References!vars
<1> DEFINE x == Target("current", v)
           picture == viewSurface[v] \in mapped /\ x # None /\ v \notin hidden
           c == AssignTemporary(heap, <<"provider", v>>, x)
<1>1. <<"current", v>> \in Holders /\ <<"provider", v>> \in Holders
  BY DEF Holders
<1>2. UNCHANGED <<surfaceVars, viewSurface, ahead, locked, discard, hidden, force, resources>>
  BY DEF Paint
<1>3. References!Advanced(v)
  BY DEF Paint, CanAdvance, References!Advanced, References!CanAdvance
<1>4. References!HasPicture(v) <=> picture
  BY DEF References!HasPicture
<1>5. ASSUME heap' = heap
      PROVE  /\ Inv'
             /\ \A k : \A j : Target(k, j)' = Target(k, j)
  BY <1>2, <1>5 DEF Inv, Target, surfaceVars
<1>6. CASE ~picture
  <2>1. stale' = stale \cup {v} /\ heap' = heap
    BY <1>6 DEF Paint
  <2>2. References!PaintNothing(v)
    BY <2>1, <1>2, <1>3, <1>4, <1>5, <1>6
       DEF References!PaintNothing, References!surfaceVars, References!slotVars,
           References!clientVars, surfaceVars
  <2> QED
    BY <2>1, <2>2, <1>5 DEF References!Render
<1>7. CASE picture /\ heap.content[x] = None
  <2>1. stale' = stale \ {v} /\ heap' = heap
    BY <1>7 DEF Paint
  <2>2. References!PaintGeometry(v)
    BY <2>1, <1>2, <1>3, <1>4, <1>5, <1>7
       DEF References!PaintGeometry, References!surfaceVars, References!slotVars,
           References!clientVars, surfaceVars
  <2> QED
    BY <2>1, <2>2, <1>5 DEF References!Render
<1>8. CASE picture /\ heap.content[x] # None /\ v \notin stale
  <2>1. stale' = stale /\ heap' = heap
    BY <1>8 DEF Paint
  <2>2. UNCHANGED References!vars
    BY <2>1, <1>2, <1>5
       DEF References!vars, References!surfaceVars, References!slotVars,
           References!viewVars, References!clientVars, surfaceVars
  <2> QED
    BY <2>1, <2>2, <1>5
<1>9. CASE picture /\ heap.content[x] # None /\ v \in stale
  <2>1. stale' = stale \ {v} /\ heap' = c
    BY <1>9 DEF Paint, AssignTemporary
  <2>2. Reached(heap, heap)
    BY ReachedSelf DEF Inv
  <2>3. heap.ref[<<"current", v>>] = x
    BY DEF Target
  <2> HIDE DEF x
  <2>4. Reached(heap, c) /\ c.ref = Redirected(heap.ref, {<<"provider", v>>}, x)
    <3> DEFINE k == <<"provider", v>>
               i == <<"current", v>>
    <3>1. k \in Holders /\ i \in Holders /\ heap.ref[i] = x
      BY <1>1, <2>3
    <3> HIDE DEF k, i
    <3>2. /\ Reached(heap, AssignTemporary(heap, k, x))
          /\ AssignTemporary(heap, k, x).ref = Redirected(heap.ref, {k}, x)
      BY <2>2, <3>1, ReachedTemporary
    <3> QED
      BY <3>2 DEF k
  <2> HIDE DEF c
  <2>5. UNCHANGED <<live, pending, mapped, resources>>
    BY <1>2 DEF surfaceVars
  <2>6. Inv' /\ References!DisownUnused({})
    BY <2>1, <2>4, <2>5, ReachedInv, ReachedDisowns
  <2>7. /\ \A s \in Surfaces : Target("buffer", s)' = Target("buffer", s)
        /\ \A w \in Views :
             /\ Target("next", w)' = Target("next", w)
             /\ Target("current", w)' = Target("current", w)
             /\ Target("provider", w)' = IF w = v THEN x ELSE Target("provider", w)
    BY <2>1, <2>4 DEF Holders, Target, Redirected
  <2>8. References!PaintTexture(v)
    BY <2>1, <2>5, <2>6, <2>7, <1>2, <1>3, <1>4, <1>9
       DEF References!PaintTexture, References!surfaceVars, x
  <2> QED
    BY <2>6, <2>8 DEF References!Render
<1> QED
  BY <1>6, <1>7, <1>8, <1>9

LEMMA OperateSteps ==
  ASSUME Inv, NEW v \in Views, Operate(v)
  PROVE  /\ Inv'
         /\ References!Operate(v) \/ References!Render(v) \/ UNCHANGED References!vars
<1>1. ASSUME NEW s \in live \cup {None}, SetSurface(v, s)
      PROVE  Inv' /\ References!SetSurface(v, s)
  <2>1. Inv' /\ References!Show(v, s)
    BY <1>1, ShowSteps DEF SetSurface
  <2> QED
    BY <2>1, <1>1
       DEF SetSurface, Without, ViewsOf, References!SetSurface, References!Without,
           References!ViewsOf
<1>2. ASSUME NEW s \in live, SetThrottlingView(s, v)
      PROVE  Inv' /\ References!SetThrottlingView(s, v)
  <2>1. ahead' = References!Without(v)
                   \cup {<<v, w>> : w \in References!ViewsOf(s) \ {v}}
    BY <1>2 DEF SetThrottlingView, Without, ViewsOf, References!Without,
                References!ViewsOf
  <2>2. CASE viewSurface[v] # s /\ Show(v, s)
    <3>1. Inv' /\ References!Show(v, s)
      BY <2>2, ShowSteps
    <3> QED
      BY <3>1, <2>1, <2>2 DEF References!SetThrottlingView
  <2>3. CASE /\ viewSurface[v] = s
             /\ UNCHANGED <<heap, surfaceVars, viewSurface, locked, discard, hidden, force,
                            stale, resources>>
    <3>1. Inv'
      BY <2>3 DEF Inv, surfaceVars
    <3>2. \A k : \A j : Target(k, j)' = Target(k, j)
      BY <2>3 DEF Target
    <3> QED
      BY <3>1, <3>2, <2>1, <2>3
         DEF References!SetThrottlingView, References!surfaceVars, References!slotVars,
             References!clientVars, surfaceVars
  <2> QED
    BY <1>2, <2>2, <2>3 DEF SetThrottlingView
<1>3. ASSUME SetBufferLocked(v) \/ SetDiscardFrontBuffers(v) \/ SetPaintEnabled(v)
      PROVE  /\ Inv'
             /\ \/ References!SetBufferLocked(v)
                \/ References!SetDiscardFrontBuffers(v)
                \/ References!SetPaintEnabled(v)
  <2>1. UNCHANGED <<heap, surfaceVars, resources>>
    BY <1>3 DEF SetBufferLocked, SetDiscardFrontBuffers, SetPaintEnabled
  <2>2. Inv'
    BY <2>1 DEF Inv, surfaceVars
  <2>3. \A k : \A j : Target(k, j)' = Target(k, j)
    BY <2>1 DEF Target
  <2> QED
    BY <2>1, <2>2, <2>3, <1>3
       DEF SetBufferLocked, SetDiscardFrontBuffers, SetPaintEnabled,
           References!SetBufferLocked, References!SetDiscardFrontBuffers,
           References!SetPaintEnabled, References!surfaceVars,
           References!slotVars, References!clientVars, surfaceVars
<1> QED
  BY <1>1, <1>2, <1>3, DestroyViewSteps, AdvanceSteps, PaintSteps
     DEF Operate, References!Operate, References!Render

-----------------------------------------------------------------------------
(* The requests *)

\* The counters say nothing of content and owners, and the pool may grow.
LEMMA HeapOKKept ==
  ASSUME NEW h, HeapOK(h, None), NEW g \in Heaps, g.ref = h.ref, g.count = h.count,
         h.pool \subseteq g.pool, g.dying = h.dying
  PROVE  HeapOK(g, None)
BY DEF HeapOK

LEMMA CreateSurfaceSteps ==
  ASSUME Inv, NEW s \in Surfaces, CreateSurface(s)
  PROVE  Inv' /\ References!CreateSurface(s)
<1>1. UNCHANGED <<heap, pending, mapped, viewVars, resources>>
  BY DEF CreateSurface
<1>2. live' = live \cup {s} /\ s \notin live /\ \A x \in heap.pool : Of(x) # s
  BY DEF CreateSurface
<1>3. Inv'
  BY <1>1, <1>2 DEF Inv
<1>4. \A k : \A j : Target(k, j)' = Target(k, j)
  BY <1>1 DEF Target
<1>5. References!CreateSurface(s)
  BY <1>1, <1>2, <1>4
     DEF References!CreateSurface, References!Of, References!slotVars,
         References!viewVars, References!clientVars, viewVars, Of
<1> QED
  BY <1>3, <1>5

LEMMA CreateBufferSteps ==
  ASSUME Inv, NEW b \in Buffers, CreateBuffer(b)
  PROVE  Inv' /\ References!CreateBuffer(b)
<1>1. heap \in Heaps
  BY DEF Inv, HeapOK
<1>2. heap' = [heap EXCEPT !.owned = @ \cup {b}]
  BY DEF CreateBuffer
<1>3. /\ heap' \in Heaps /\ heap'.ref = heap.ref /\ heap'.count = heap.count
      /\ heap'.content = heap.content /\ heap'.pool = heap.pool
      /\ heap'.registered = heap.registered /\ heap'.committed = heap.committed
      /\ heap'.dying = heap.dying /\ heap'.owned = heap.owned \cup {b}
  BY <1>1, <1>2 DEF Heaps
<1>4. HeapOK(heap', None)
  BY <1>3, HeapOKKept DEF Inv
<1>5. /\ b \notin resources /\ resources' = resources \cup {b}
      /\ UNCHANGED <<surfaceVars, viewVars>>
  BY DEF CreateBuffer
<1>6. Inv'
  BY <1>3, <1>4, <1>5 DEF Inv, surfaceVars
<1>7. \A k : \A j : Target(k, j)' = Target(k, j)
  BY <1>3 DEF Target
<1>8. References!CreateBuffer(b)
  BY <1>3, <1>5, <1>7
     DEF References!CreateBuffer, References!surfaceVars, References!slotVars,
         References!viewVars, surfaceVars, viewVars
<1> QED
  BY <1>6, <1>8

LEMMA DestroyBufferSteps ==
  ASSUME Inv, NEW b \in Buffers, DestroyBuffer(b)
  PROVE  Inv' /\ References!DestroyBuffer(b)
<1> DEFINE c == [x \in Slots |-> IF heap.content[x] = b THEN None ELSE heap.content[x]]
<1>1. heap \in Heaps /\ c \in [Slots -> Buffers \cup {None}]
  BY DEF Inv, HeapOK, Heaps
<1>2. heap' = [heap EXCEPT !.owned = @ \ {b}, !.content = c]
  BY DEF DestroyBuffer
<1> HIDE DEF c
<1>3. /\ heap' \in Heaps /\ heap'.ref = heap.ref /\ heap'.count = heap.count
      /\ heap'.content = c /\ heap'.pool = heap.pool
      /\ heap'.registered = heap.registered /\ heap'.committed = heap.committed
      /\ heap'.dying = heap.dying /\ heap'.owned = heap.owned \ {b}
  BY <1>1, <1>2 DEF Heaps
<1>4. HeapOK(heap', None)
  BY <1>3, HeapOKKept DEF Inv
<1>5. /\ b \in resources /\ resources' = resources \ {b}
      /\ UNCHANGED <<surfaceVars, viewVars>>
  BY DEF DestroyBuffer
<1>6. Inv'
  BY <1>3, <1>4, <1>5 DEF Inv, surfaceVars
<1>7. \A k : \A j : Target(k, j)' = Target(k, j)
  BY <1>3 DEF Target
<1>8. References!DestroyBuffer(b)
  BY <1>3, <1>5, <1>7
     DEF References!DestroyBuffer, References!surfaceVars, References!viewVars,
         References!Slots, Slots, surfaceVars, viewVars, c
<1> QED
  BY <1>6, <1>8

\* Disowning the buffer that was attached but not committed.
LEMMA DisownPending ==
  ASSUME Inv, NEW s \in live, NEW h,
         h = IF pending[s] = None THEN heap ELSE Disown(heap, pending[s])
  PROVE  /\ h \in Heaps /\ h.ref = heap.ref /\ h.count = heap.count
         /\ h.pool = heap.pool /\ h.dying = heap.dying
         /\ h.registered = heap.registered \ {pending[s]}
         /\ h.committed = heap.committed \ {pending[s]}
         /\ h.content = [x \in Slots |-> IF x = pending[s] THEN None ELSE heap.content[x]]
         /\ h.owned = heap.owned \cup References!ReleasedBy({pending[s]})
<1> DEFINE p == pending[s]
           R == {heap.content[x] : x \in {p} \cap heap.committed} \ {None}
<1>1. /\ heap \in Heaps /\ None \notin Slots /\ p \in Slots \cup {None}
      /\ p # None => p \in heap.pool /\ Of(p) = s
  BY NoneAssumption DEF Inv, HeapOK
<1>2. References!ReleasedBy({p}) = R
  BY DEF References!ReleasedBy
<1>3. CASE p = None
  <2>1. h = heap
    BY <1>3
  <2>2. /\ heap.registered \ {p} = heap.registered
        /\ heap.committed \ {p} = heap.committed /\ {p} \cap heap.committed = {}
    BY <1>1, <1>3 DEF Heaps
  <2>3. heap.content = [x \in Slots |-> IF x = p THEN None ELSE heap.content[x]]
    BY <1>1, <1>3 DEF Heaps
  <2>4. R = {}
    BY <2>2
  <2> HIDE DEF p, R
  <2> QED
    BY <2>1, <2>2, <2>3, <2>4, <1>1, <1>2 DEF p
<1>4. CASE p # None
  <2>1. p \in Slots /\ p \notin heap.dying
    BY <1>1, <1>4 DEF Inv
  <2>2. h = Freed(heap, {p})
    BY <2>1, <1>1, <1>4, DisownFrees
  <2>3. {p} \in SUBSET Slots /\ {p} \cap heap.dying = {}
    BY <2>1
  <2>4. Freed(heap, {p}) \in Heaps
    BY <2>3, <1>1, FreedType
  <2>5. heap.pool \ ({p} \cap heap.dying) = heap.pool /\ heap.dying \ {p} = heap.dying
    BY <2>3
  <2>6. /\ h.ref = heap.ref /\ h.count = heap.count
        /\ h.pool = heap.pool \ ({p} \cap heap.dying) /\ h.dying = heap.dying \ {p}
        /\ h.registered = heap.registered \ {p} /\ h.committed = heap.committed \ {p}
        /\ h.content = [x \in Slots |-> IF x \in {p} THEN None ELSE heap.content[x]]
        /\ h.owned = heap.owned \cup R
    BY <2>2 DEF Freed
  <2>7. [x \in Slots |-> IF x \in {p} THEN None ELSE heap.content[x]] =
          [x \in Slots |-> IF x = p THEN None ELSE heap.content[x]]
    OBVIOUS
  <2> HIDE DEF p, R
  <2> QED
    BY <2>2, <2>4, <2>5, <2>6, <2>7, <1>2 DEF p
<1> QED
  BY <1>3, <1>4

LEMMA AttachBufferSteps ==
  ASSUME Inv, NEW s \in Surfaces, NEW b \in resources \cup {None}, AttachBuffer(s, b)
  PROVE  Inv' /\ References!AttachBuffer(s, b)
<1> DEFINE p == pending[s]
           h == IF p = None THEN heap ELSE Disown(heap, p)
           free == {i \in 1..MaxPool : <<s, i>> \notin h.registered}
           x == <<s, Min(free)>>
<1>1. /\ s \in live /\ free # {}
      /\ heap' = [h EXCEPT !.pool = @ \cup {x}, !.registered = @ \cup {x},
                           !.content[x] = b]
      /\ pending' = [pending EXCEPT ![s] = x]
      /\ UNCHANGED <<live, mapped, viewVars, resources>>
  BY DEF AttachBuffer
<1>2. /\ h \in Heaps /\ h.ref = heap.ref /\ h.count = heap.count
      /\ h.pool = heap.pool /\ h.dying = heap.dying
      /\ h.registered = heap.registered \ {p} /\ h.committed = heap.committed \ {p}
      /\ h.content = [y \in Slots |-> IF y = p THEN None ELSE heap.content[y]]
      /\ h.owned = heap.owned \cup References!ReleasedBy({p})
  BY <1>1, DisownPending
<1> HIDE DEF h
<1>3. Min(free) \in free /\ \A i \in free : Min(free) =< i
  <2>1. free \in SUBSET Nat
    BY MaxPoolAssumption
  <2>2. \E i \in free : \A j \in free : i =< j
    <3> HIDE DEF free
    <3> QED
      BY <2>1, <1>1, Least
  <2> HIDE DEF free
  <2> QED
    BY <2>2 DEF Min
<1>4. x \in Slots /\ Of(x) = s /\ x \notin h.registered
  BY <1>3 DEF Slots, Of
<1>5. x \in References!FreeSlots(s)
  BY <1>2, <1>4 DEF References!FreeSlots, References!Slots, References!Of, Slots, Of
<1>6. \A y \in References!FreeSlots(s) : x[2] =< y[2]
  <2> TAKE y \in References!FreeSlots(s)
  <2>1. y \in Slots /\ y[1] = s /\ (y \notin heap.registered \/ y = p)
    BY DEF References!FreeSlots, References!Slots, References!Of, Slots
  <2>2. y = <<s, y[2]>> /\ y[2] \in 1..MaxPool
    BY <2>1 DEF Slots
  <2>3. y[2] \in free
    BY <2>1, <2>2, <1>2
  <2>4. Min(free) =< y[2]
    BY <2>3, <1>3
  <2> QED
    BY <2>4
<1> HIDE DEF x
<1>7. /\ heap' \in Heaps /\ heap'.ref = heap.ref /\ heap'.count = heap.count
      /\ heap'.content = [h.content EXCEPT ![x] = b]
      /\ heap'.pool = heap.pool \cup {x} /\ heap'.registered = h.registered \cup {x}
      /\ heap'.committed = h.committed /\ heap'.dying = heap.dying
      /\ heap'.owned = h.owned
  <2>1. b \in Buffers \cup {None}
    BY DEF Inv
  <2> QED
    BY <2>1, <1>1, <1>2, <1>4 DEF Heaps
<1>8. HeapOK(heap', None)
  <2>1. heap.pool \subseteq heap'.pool /\ HeapOK(heap, None)
    BY <1>7 DEF Inv
  <2> QED
    BY <2>1, <1>7, HeapOKKept
<1>9. x \notin heap'.dying
  <2>1. x \in heap.dying => x \in heap.pool
    BY PointedInPool DEF Inv
  <2> QED
    BY <2>1, <1>1, <1>4, <1>7 DEF Inv
<1>10. Inv'
  <2>1. pending' \in [Surfaces -> Slots \cup {None}]
    BY <1>1, <1>4 DEF Inv
  <2>2. \A t \in Surfaces : pending'[t] # None =>
          t \in live' /\ pending'[t] \in heap'.pool /\ Of(pending'[t]) = t
    BY <1>1, <1>4, <1>7 DEF Inv
  <2>3. \A y \in heap'.pool : y \in heap'.dying <=> Of(y) \notin live'
    BY <1>1, <1>4, <1>7, <1>9 DEF Inv
  <2> QED
    BY <2>1, <2>2, <2>3, <1>1, <1>8 DEF Inv
<1>11. \A k : \A j : Target(k, j)' = Target(k, j)
  BY <1>7 DEF Target
<1>12. heap'.content = [y \in Slots |-> IF y = x THEN b ELSE IF y = p THEN None
                                       ELSE heap.content[y]]
  BY <1>2, <1>4, <1>7
<1>13. References!AttachBuffer(s, b)
  <2>1. heap'.registered = (heap.registered \ {p}) \cup {x}
    BY <1>2, <1>7
  <2>2. /\ heap'.committed = heap.committed \ {p}
        /\ heap'.owned = heap.owned \cup References!ReleasedBy({p})
    BY <1>2, <1>7
  <2>3. UNCHANGED <<live, [t \in Surfaces |-> Target("buffer", t)], mapped,
                    References!viewVars, resources>>
    BY <1>1, <1>11 DEF viewVars, References!viewVars
  <2>4. References!Slots = Slots
    BY DEF References!Slots, Slots
  <2> HIDE DEF p
  <2> QED
    BY <2>1, <2>2, <2>3, <2>4, <1>1, <1>5, <1>6, <1>7, <1>12, Zenon
       DEF References!AttachBuffer, p
<1> QED
  BY <1>10, <1>13

LEMMA CommitBufferSteps ==
  ASSUME Inv, NEW s \in Surfaces, CommitBuffer(s)
  PROVE  Inv' /\ References!CommitBuffer(s)
<1> DEFINE x == pending[s]
           k == <<"buffer", s>>
           given == [heap EXCEPT !.owned = @ \ {heap.content[x]}]
           h1 == AssignTemporary(given, k, x)
           h == AssignAll(h1, "next", ViewsOf(s), x)
           q == [heap.ref EXCEPT ![k] = x]
           r == Redirected(q, {"next"} \X ViewsOf(s), x)
           P == Pointed(heap.ref, None)
           U == P \ Pointed(r, None)
<1>1. /\ s \in live /\ x # None
      /\ ClientReuses \/ heap.content[x] \in heap.owned \cup {None}
      /\ heap' = [h EXCEPT !.committed = @ \cup {x}]
      /\ mapped' = IF h.content[x] # None THEN mapped \cup {s} ELSE mapped \ {s}
      /\ pending' = [pending EXCEPT ![s] = None]
      /\ UNCHANGED <<live, viewVars, resources>>
  BY DEF CommitBuffer
<1>2. /\ HeapOK(heap, None) /\ heap \in Heaps /\ x \in Slots /\ x \in heap.pool
      /\ heap.ref \in [Holders -> Slots \cup {None}]
      /\ \A j \in Holders : heap.ref[j] \in heap.pool \cup {None}
      /\ heap.pool \in SUBSET Slots /\ P \subseteq heap.pool
  <2>1. HeapOK(heap, None) /\ x \in heap.pool
    <3>1. pending[s] # None
      BY DEF CommitBuffer
    <3> QED
      BY <3>1 DEF Inv
  <2>2. /\ heap \in Heaps /\ heap.ref \in [Holders -> Slots \cup {None}]
        /\ heap.pool \in SUBSET Slots /\ P \subseteq heap.pool
    BY <2>1, PointedInPool
  <2>3. \A j \in Holders : heap.ref[j] \in heap.pool \cup {None}
    BY <2>1 DEF HeapOK
  <2> HIDE DEF x, P
  <2> QED
    BY <2>1, <2>2, <2>3
<1>3. /\ given \in Heaps /\ given.ref = heap.ref /\ given.count = heap.count
      /\ given.content = heap.content /\ given.pool = heap.pool
      /\ given.registered = heap.registered /\ given.committed = heap.committed
      /\ given.dying = heap.dying /\ given.owned = heap.owned \ {heap.content[x]}
  BY <1>2 DEF Heaps
<1> HIDE DEF given
<1>4. HeapOK(given, None)
  BY <1>2, <1>3, HeapOKKept
<1>5. k \in Holders /\ ViewsOf(s) \in SUBSET Views
  BY DEF Holders, ViewsOf
<1>6. /\ \A j \in Holders : q[j] = IF j = k THEN x ELSE heap.ref[j]
      /\ q \in [Holders -> Slots \cup {None}]
      /\ q = [given.ref EXCEPT ![k] = x]
  BY <1>2, <1>3
<1> HIDE DEF q
<1>7. h1 = Settled(given, None, q)
  BY <1>2, <1>3, <1>4, <1>5, <1>6, AssignTemporarySettles
<1>8. \A j \in Holders : q[j] \in given.pool \cup {None}
  BY <1>2, <1>3, <1>6
<1>9. HeapOK(h1, None) /\ h1.ref = q
  <2>1. HeapOK(Settled(given, None, q), None)
    BY <1>4, <1>6, <1>8, SettledOK
  <2> HIDE DEF h1, x, k, r
  <2>2. Settled(given, None, q).ref = q
    <3>1. given \in Heaps /\ q \in [Holders -> Slots \cup {None}]
      BY <1>3, <1>6
    <3> QED
      BY <3>1, SettledIs
  <2> QED
    BY <2>1, <2>2, <1>7
<1>10. q[k] = x /\ k[1] # "next"
  BY <1>5, <1>6
<1> HIDE DEF h1, k
<1>11. h = Settled(h1, None, r)
  <2>1. x \in Slots /\ \E j \in Holders : j[1] # "next" /\ h1.ref[j] = x
    BY <1>2, <1>5, <1>9, <1>10
  <2> HIDE DEF x
  <2>2. AssignAll(h1, "next", ViewsOf(s), x) =
          Settled(h1, None, Redirected(h1.ref, {"next"} \X ViewsOf(s), x))
    BY <2>1, <1>5, <1>9, AssignAllSettles
  <2> QED
    BY <2>2, <1>9
<1>12. /\ \A j \in Holders : r[j] = IF j \in {"next"} \X ViewsOf(s) THEN x ELSE q[j]
       /\ r \in [Holders -> Slots \cup {None}]
  BY <1>2, <1>6 DEF Redirected
<1> HIDE DEF r, x
<1>13. x \in Pointed(r, None) /\ x \in Pointed(q, None)
  BY <1>2, <1>5, <1>10, <1>12 DEF Pointed
<1>14. Pointed(r, None) \subseteq Pointed(q, None)
  BY <1>12, <1>13 DEF Pointed
<1>15. Pointed(q, None) \ Pointed(r, None) \subseteq P
  BY <1>6, <1>13 DEF Pointed
<1>16. h = Settled(given, None, r)
  <2>1. Settled(Settled(given, None, q), None, r) = Settled(given, None, r)
    BY <1>3, <1>6, <1>12, <1>14, <1>15, SettledTwice
  <2> HIDE DEF h
  <2> QED
    BY <2>1, <1>7, <1>11
<1>17. h \in Heaps /\ h.ref = r /\ HeapOK(h, None) /\ Frees(given, U, h)
  <2>1. \A j \in Holders : r[j] \in given.pool \cup {None}
    BY <1>2, <1>3, <1>8, <1>12
  <2>2. HeapOK(Settled(given, None, r), None)
    BY <2>1, <1>4, <1>12, SettledOK
  <2>3. /\ Settled(given, None, r) \in Heaps /\ Settled(given, None, r).ref = r
        /\ Frees(given, Pointed(given.ref, None) \ Pointed(r, None),
                 Settled(given, None, r))
    BY <1>3, <1>12, SettledIs
  <2> HIDE DEF h
  <2> QED
    BY <2>2, <2>3, <1>3, <1>16
<1> HIDE DEF h
<1>18. /\ heap' \in Heaps /\ heap'.ref = r /\ heap'.count = h.count
       /\ heap'.content = h.content /\ heap'.pool = h.pool
       /\ heap'.registered = h.registered /\ heap'.committed = h.committed \cup {x}
       /\ heap'.dying = h.dying /\ heap'.owned = h.owned
  BY <1>1, <1>2, <1>17 DEF Heaps
<1>19. HeapOK(heap', None)
  BY <1>17, <1>18, HeapOKKept
<1>20. References!Unused = U
  <2>1. References!Unused = Pointed(heap.ref, None) \ Pointed(heap'.ref, None)
    BY <1>1, <1>18, UnusedIs
  <2> QED
    BY <2>1, <1>18
<1>21. x \notin U /\ U \subseteq heap.pool
  BY <1>2, <1>13
<1> HIDE DEF U, P
<1>22. /\ h.content = [y \in Slots |-> IF y \in U THEN None ELSE heap.content[y]]
       /\ h.pool = heap.pool \ (U \cap heap.dying)
       /\ h.registered = heap.registered \ U /\ h.committed = heap.committed \ U
       /\ h.dying = heap.dying \ U
       /\ h.owned = (heap.owned \ {heap.content[x]}) \cup
                      ({heap.content[y] : y \in U \cap heap.committed} \ {None})
  <2>1. /\ h.content = [y \in Slots |-> IF y \in U THEN None ELSE given.content[y]]
        /\ h.pool = given.pool \ (U \cap given.dying)
        /\ h.registered = given.registered \ U /\ h.committed = given.committed \ U
        /\ h.dying = given.dying \ U
        /\ h.owned = given.owned \cup
                       ({given.content[y] : y \in U \cap given.committed} \ {None})
    BY <1>17 DEF Frees
  <2> QED
    BY <2>1, <1>3
<1>23. Inv'
  <2>1. \A y \in heap'.pool : y \in heap'.dying <=> Of(y) \notin live'
    BY <1>1, <1>18, <1>22 DEF Inv
  <2>2. /\ pending' \in [Surfaces -> Slots \cup {None}]
        /\ \A t \in Surfaces : pending'[t] # None =>
             t \in live' /\ pending'[t] \in heap'.pool /\ Of(pending'[t]) = t
    BY <1>1, <1>18, <1>22 DEF Inv
  <2> QED
    BY <2>1, <2>2, <1>1, <1>19 DEF Inv
<1>24. U \cap heap.dying = {y \in U : References!DestroyIfUnused(y)'}
  BY <1>1, <1>21 DEF Inv, References!DestroyIfUnused, References!Of, Of
<1>25. References!DisownUnused({x})
  <2>1. References!ReleasedBy(U) =
          {heap.content[y] : y \in U \cap heap.committed} \ {None}
    BY DEF References!ReleasedBy
  <2>2. heap'.owned = (heap.owned \ {heap.content[y] : y \in {x}})
                        \cup References!ReleasedBy(U)
    <3>1. {heap.content[y] : y \in {x}} = {heap.content[x]}
      OBVIOUS
    <3> QED
      BY <3>1, <2>1, <1>18, <1>22
  <2>3. heap'.pool = heap.pool \ {y \in U : References!DestroyIfUnused(y)'}
    BY <1>18, <1>22, <1>24
  <2>4. /\ heap'.registered = heap.registered \ U
        /\ heap'.committed = (heap.committed \ U) \cup {x}
        /\ heap'.content = [y \in Slots |-> IF y \in U THEN None ELSE heap.content[y]]
    BY <1>18, <1>22
  <2> QED
    BY <2>2, <2>3, <2>4, <1>20 DEF References!DisownUnused, References!Slots, Slots
<1>26. h.content[x] = heap.content[x]
  BY <1>2, <1>21, <1>22
<1>27. /\ \A t \in Surfaces :
            Target("buffer", t)' = IF t = s THEN x ELSE Target("buffer", t)
       /\ \A v \in Views :
            /\ Target("next", v)' = IF v \in ViewsOf(s) THEN x ELSE Target("next", v)
            /\ Target("current", v)' = Target("current", v)
            /\ Target("provider", v)' = Target("provider", v)
  BY <1>6, <1>12, <1>18 DEF Target, Holders, k
<1>28. References!ViewsOf(s) = ViewsOf(s)
  BY DEF References!ViewsOf, ViewsOf
<1>29. References!CommitBuffer(s)
  <2>1. [t \in Surfaces |-> Target("buffer", t)]' =
          [[t \in Surfaces |-> Target("buffer", t)] EXCEPT ![s] = x]
    BY <1>27
  <2>2. [v \in Views |-> Target("next", v)]' =
          [v \in Views |-> IF v \in References!ViewsOf(s) THEN x
                           ELSE [w \in Views |-> Target("next", w)][v]]
    BY <1>27, <1>28
  <2>3. /\ [v \in Views |-> Target("current", v)]' =
             [v \in Views |-> Target("current", v)]
        /\ [v \in Views |-> Target("provider", v)]' =
             [v \in Views |-> Target("provider", v)]
    BY <1>27
  <2>4. mapped' = IF heap.content[x] # None THEN mapped \cup {s} ELSE mapped \ {s}
    BY <1>1, <1>26
  <2>5. UNCHANGED <<live, viewSurface, ahead, locked, discard, hidden, force, stale, resources>>
    BY <1>1 DEF viewVars
  <2>6. /\ s \in live /\ x # None
        /\ ClientReuses \/ heap.content[x] \in heap.owned \cup {None}
        /\ pending' = [pending EXCEPT ![s] = None]
    BY DEF CommitBuffer, x
  <2> QED
    BY <2>1, <2>2, <2>3, <2>4, <2>5, <2>6, <1>25, Zenon DEF References!CommitBuffer, x
<1> QED
  BY <1>23, <1>29

LEMMA DestroySurfaceSteps ==
  ASSUME Inv, NEW s \in Surfaces, DestroySurface(s)
  PROVE  Inv' /\ References!DestroySurface(s)
<1> DEFINE V == ViewsOf(s)
           a == AssignAll(heap, "current", V \ locked, None)
           b == AssignAll(a, "next", V, None)
           k == <<"buffer", s>>
           h == Assign(b, k, None)
           E == {x \in h.pool : Of(x) = s}
           m == Dying(h, E)
           P == Pointed(heap.ref, None)
           Q == Pointed(h.ref, None)
           U == P \ Q
           X == {x \in E : x \notin Q}
<1>1. /\ s \in live /\ heap' = MarkPool(h, s) /\ live' = live \ {s}
      /\ pending' = [pending EXCEPT ![s] = None] /\ mapped' = mapped \ {s}
      /\ viewSurface' = [v \in Views |-> IF v \in V THEN None ELSE viewSurface[v]]
      /\ ahead' = {p \in ahead : p[1] \notin V}
      /\ UNCHANGED <<locked, discard, hidden, force, stale, resources>>
  BY DEF DestroySurface
<1>2. /\ Reached(heap, heap) /\ k \in Holders
      /\ V \in SUBSET Views /\ V \ locked \in SUBSET Views
  BY ReachedSelf DEF Inv, Holders, ViewsOf
<1> HIDE DEF k
<1>3. Reached(heap, a) /\ a.ref = Redirected(heap.ref, {"current"} \X (V \ locked), None)
  BY <1>2, ReachedAssignAll
<1> HIDE DEF a
<1>4. Reached(heap, b) /\ b.ref = Redirected(a.ref, {"next"} \X V, None)
  BY <1>2, <1>3, ReachedAssignAll
<1> HIDE DEF b
<1>5. Reached(heap, h) /\ h.ref = Redirected(b.ref, {k}, None)
  BY <1>2, <1>4, ReachedLetGo
<1> HIDE DEF h
<1>6. /\ HeapOK(heap, None) /\ HeapOK(h, None) /\ h = Settled(heap, None, h.ref)
      /\ Q \subseteq P
  BY <1>5 DEF Reached
<1>7. /\ heap \in Heaps /\ P \subseteq heap.pool /\ heap.dying \subseteq P
      /\ h \in Heaps /\ h.ref \in [Holders -> Slots \cup {None}] /\ Q \subseteq h.pool
      /\ h.dying \subseteq Q /\ h.pool \in SUBSET Slots /\ h.count = CountOf(h.ref, None)
  BY <1>6, PointedInPool DEF HeapOK
<1>8. Frees(heap, U, h)
  <2>1. Frees(heap, U, Settled(heap, None, h.ref))
    BY <1>7, SettledIs
  <2> HIDE DEF U
  <2> QED
    BY <2>1, <1>6
<1>9. /\ h.content = [y \in Slots |-> IF y \in U THEN None ELSE heap.content[y]]
      /\ h.pool = heap.pool \ (U \cap heap.dying)
      /\ h.registered = heap.registered \ U /\ h.committed = heap.committed \ U
      /\ h.dying = heap.dying \ U
      /\ h.owned = heap.owned \cup
                     ({heap.content[y] : y \in U \cap heap.committed} \ {None})
  BY <1>8 DEF Frees
<1>10. E \in SUBSET Slots /\ X \in SUBSET Slots /\ X = {x \in E : h.count[x] = 0}
  BY <1>7, CountZero
<1>11. heap' = Marked(h, E)
  BY <1>1, <1>7, MarkPoolFrees
<1>12. /\ m \in Heaps /\ m.dying = h.dying \cup E
       /\ m.content = h.content /\ m.pool = h.pool /\ m.registered = h.registered
       /\ m.committed = h.committed /\ m.owned = h.owned
  BY <1>7, <1>10, DyingIs
<1>13. /\ heap' \in Heaps /\ heap'.ref = h.ref /\ heap'.count = h.count
       /\ Frees(m, X, heap')
  <2> HIDE DEF E, m, X
  <2> QED
    BY <1>7, <1>10, <1>11, MarkedIs DEF m
<1>14. X = {x \in heap.pool : Of(x) = s /\ x \notin Q}
  BY <1>1, <1>9 DEF Inv
<1>15. E = {x \in heap.pool : Of(x) = s}
  BY <1>1, <1>9 DEF Inv
<1> HIDE DEF m, X, E
<1>16. /\ heap'.content = [y \in Slots |-> IF y \in X THEN None ELSE h.content[y]]
       /\ heap'.pool = h.pool \ (X \cap (h.dying \cup E))
       /\ heap'.registered = h.registered \ X /\ heap'.committed = h.committed \ X
       /\ heap'.dying = (h.dying \cup E) \ X
       /\ heap'.owned = h.owned \cup
                          ({h.content[y] : y \in X \cap h.committed} \ {None})
  <2>1. /\ heap'.content = [y \in Slots |-> IF y \in X THEN None ELSE m.content[y]]
        /\ heap'.pool = m.pool \ (X \cap m.dying)
        /\ heap'.registered = m.registered \ X /\ heap'.committed = m.committed \ X
        /\ heap'.dying = m.dying \ X
        /\ heap'.owned = m.owned \cup
                           ({m.content[y] : y \in X \cap m.committed} \ {None})
    BY <1>13 DEF Frees
  <2> QED
    BY <2>1, <1>12
<1>17. X \subseteq E
  BY <1>14, <1>15
<1>18. heap'.pool = (heap.pool \ (U \cap heap.dying)) \ X
  BY <1>9, <1>16, <1>17
<1>19. HeapOK(heap', None)
  <2>1. \A j \in Holders : heap'.ref[j] \in heap'.pool \cup {None}
    <3>1. \A j \in Holders : /\ h.ref[j] \in h.pool \cup {None}
                             /\ h.ref[j] # None => h.ref[j] \in Q
      BY <1>6, PointedInPool DEF HeapOK
    <3> HIDE DEF Q
    <3> QED
      BY <3>1, <1>9, <1>13, <1>14, <1>18
  <2>2. heap'.dying \subseteq Q
    BY <1>7, <1>14, <1>15, <1>16
  <2> HIDE DEF Q
  <2>3. heap'.dying \subseteq Pointed(heap'.ref, None)
    BY <2>2, <1>13 DEF Q
  <2> QED
    BY <2>1, <2>3, <1>7, <1>13 DEF HeapOK
<1>20. Inv'
  <2>1. \A y \in heap'.pool : y \in heap'.dying <=> Of(y) \notin live'
    BY <1>1, <1>9, <1>14, <1>15, <1>16, <1>18 DEF Inv
  <2>2. /\ pending' \in [Surfaces -> Slots \cup {None}]
        /\ \A t \in Surfaces : pending'[t] # None =>
             t \in live' /\ pending'[t] \in heap'.pool /\ Of(pending'[t]) = t
    BY <1>1, <1>14, <1>18 DEF Inv
  <2> QED
    BY <2>1, <2>2, <1>1, <1>19 DEF Inv
<1>21. References!Unused = U \cup X
  <2>1. References!Held = P /\ References!Held' = Q
    BY <1>7, <1>13, HeldIs, HeldIsPrimed
  <2>2. References!Unused =
          {x \in heap.pool : x \notin References!Held'
                             /\ (x \in References!Held \/ Of(x) \notin live')}
    BY DEF References!Unused, References!DestroyIfUnused, References!Of, Of
  <2> HIDE DEF P, Q
  <2> QED
    BY <2>1, <2>2, <1>1, <1>7, <1>14 DEF Inv
<1>22. {x \in U \cup X : References!DestroyIfUnused(x)'} = (U \cap heap.dying) \cup X
  <2>1. \A x : References!DestroyIfUnused(x)' <=> Of(x) \notin live'
    BY DEF References!DestroyIfUnused, References!Of, Of
  <2>2. \A x \in U : x \in heap.pool /\ x \notin Q
    BY <1>7
  <2> HIDE DEF U, Q
  <2> QED
    BY <2>1, <2>2, <1>1, <1>14 DEF Inv
<1>23. References!DisownUnused({})
  <2> DEFINE W == U \cup X
  <2>1. References!ReleasedBy(W) =
          {heap.content[y] : y \in W \cap heap.committed} \ {None}
    BY DEF References!ReleasedBy
  <2>2. {h.content[y] : y \in X \cap h.committed} =
          {heap.content[y] : y \in (X \ U) \cap heap.committed}
    <3>1. X \cap h.committed = (X \ U) \cap heap.committed
      BY <1>9
    <3>2. \A y \in X \ U : h.content[y] = heap.content[y]
      BY <1>9, <1>10
    <3> QED
      BY <3>1, <3>2
  <2>3. heap'.owned = (heap.owned \ {heap.content[y] : y \in {}})
                        \cup References!ReleasedBy(W)
    <3>1. {heap.content[y] : y \in W \cap heap.committed} =
            {heap.content[y] : y \in U \cap heap.committed}
              \cup {heap.content[y] : y \in (X \ U) \cap heap.committed}
      OBVIOUS
    <3>2. {heap.content[y] : y \in {}} = {}
      OBVIOUS
    <3> HIDE DEF W, U
    <3> QED
      BY <3>1, <3>2, <2>1, <2>2, <1>9, <1>16
  <2>4. heap'.pool = heap.pool \ {x \in W : References!DestroyIfUnused(x)'}
    <3> HIDE DEF U
    <3> QED
      BY <1>18, <1>22
  <2>5. /\ heap'.registered = heap.registered \ W
        /\ heap'.committed = (heap.committed \ W) \cup {}
    BY <1>9, <1>16
  <2>6. heap'.content = [y \in Slots |-> IF y \in W THEN None ELSE heap.content[y]]
    BY <1>9, <1>16
  <2> HIDE DEF W
  <2> QED
    BY <2>3, <2>4, <2>5, <2>6, <1>21
       DEF References!DisownUnused, References!Slots, Slots, W
<1>24. \A j \in Holders : heap'.ref[j] =
         IF j = k \/ j \in {"next"} \X V \/ j \in {"current"} \X (V \ locked)
         THEN None ELSE heap.ref[j]
  BY <1>3, <1>4, <1>5, <1>13 DEF Redirected
<1>25. /\ \A t \in Surfaces :
            Target("buffer", t)' = IF t = s THEN None ELSE Target("buffer", t)
       /\ \A v \in Views :
            /\ Target("next", v)' = IF v \in V THEN None ELSE Target("next", v)
            /\ Target("current", v)' = IF v \in V \ locked THEN None
                                       ELSE Target("current", v)
            /\ Target("provider", v)' = Target("provider", v)
  <2> HIDE DEF V
  <2> QED
    BY <1>24 DEF Target, Holders, k
<1>26. References!ViewsOf(s) = V
  BY DEF References!ViewsOf, ViewsOf
<1> HIDE DEF V
<1>27. References!DestroySurface(s)
  <2>1. [t \in Surfaces |-> Target("buffer", t)]' =
          [[t \in Surfaces |-> Target("buffer", t)] EXCEPT ![s] = None]
    BY <1>25
  <2>2. /\ [v \in Views |-> Target("next", v)]' =
             [v \in Views |-> IF v \in V THEN None
                              ELSE [w \in Views |-> Target("next", w)][v]]
        /\ [v \in Views |-> Target("current", v)]' =
             [v \in Views |-> IF v \in V \ locked THEN None
                              ELSE [w \in Views |-> Target("current", w)][v]]
        /\ [v \in Views |-> Target("provider", v)]' =
             [v \in Views |-> Target("provider", v)]
    BY <1>25
  <2> QED
    BY <2>1, <2>2, <1>1, <1>23, <1>26 DEF References!DestroySurface
<1> QED
  BY <1>20, <1>27

-----------------------------------------------------------------------------
(* The theorems *)

LEMMA InitInv == Init => Inv /\ References!Init
<1> SUFFICES ASSUME Init PROVE Inv /\ References!Init
  OBVIOUS
<1>1. /\ heap.ref = [h \in Holders |-> None] /\ heap.count = [x \in Slots |-> 0]
      /\ heap.content = [x \in Slots |-> None] /\ heap.pool = {}
      /\ heap.registered = {} /\ heap.committed = {} /\ heap.dying = {}
      /\ heap.owned = {} /\ heap \in Heaps
  BY DEF Init, Heaps
<1>2. CountOf(heap.ref, None) = [x \in Slots |-> 0]
  <2>1. ASSUME NEW x \in Slots
        PROVE  Pointing(heap.ref, x) = {} /\ x # None
    BY <1>1, NoneAssumption DEF Pointing
  <2>2. \A x \in Slots : CountOf(heap.ref, None)[x] = 0
    BY <2>1, FS_EmptySet DEF CountOf
  <2> QED
    BY <2>2 DEF CountOf
<1>3. HeapOK(heap, None)
  BY <1>1, <1>2 DEF HeapOK
<1>4. Inv
  BY <1>1, <1>3 DEF Init, Inv
<1>5. References!Init
  BY <1>1 DEF Init, References!Init, References!Slots, Slots, Target, Holders
<1> QED
  BY <1>4, <1>5

LEMMA NextSteps ==
  ASSUME Inv, [Next]_vars
  PROVE  Inv' /\ [References!Next]_References!vars
<1>1. CASE Request
  <2>1. Inv' /\ References!Request
    BY <1>1, CreateSurfaceSteps, CreateBufferSteps, DestroyBufferSteps, AttachBufferSteps,
       CommitBufferSteps, DestroySurfaceSteps DEF Request, References!Request
  <2> QED
    BY <2>1 DEF References!Next
<1>2. ASSUME NEW v \in Views, Operate(v)
      PROVE  Inv' /\ [References!Next]_References!vars
  BY <1>2, OperateSteps DEF References!Next
<1>3. CASE UNCHANGED vars
  <2>1. UNCHANGED <<heap, live, pending, mapped, viewVars, resources>>
    BY <1>3 DEF vars, surfaceVars
  <2>2. Inv'
    BY <2>1 DEF Inv
  <2>3. \A k : \A j : Target(k, j)' = Target(k, j)
    BY <2>1 DEF Target
  <2> QED
    BY <2>1, <2>2, <2>3
       DEF viewVars, References!vars, References!surfaceVars, References!slotVars,
           References!viewVars, References!clientVars
<1> QED
  BY <1>1, <1>2, <1>3 DEF Next

\* The invariant holds whatever clients, surfaces, buffers and views do.
THEOREM Invariance == Spec => []Inv
<1>1. Init => Inv
  BY InitInv
<1>2. Inv /\ [Next]_vars => Inv'
  BY NextSteps
<1> QED
  BY <1>1, <1>2, PTL DEF Spec

\* m_refCount of a SurfaceBuffer is the number of QWaylandBufferRef members that
\* point to it, and none points to a SurfaceBuffer that was deleted.
THEOREM CountsAlwaysExact == Spec => []ReferencesExact
<1>1. Inv => ReferencesExact
  <2> SUFFICES ASSUME Inv PROVE ReferencesExact
    OBVIOUS
  <2>1. HeapOK(heap, None)
    BY DEF Inv
  <2>2. NoDanglingReference
    BY <2>1 DEF HeapOK, NoDanglingReference
  <2>3. ASSUME NEW x \in Slots
        PROVE  heap.count[x] = Cardinality({h \in Holders : heap.ref[h] = x})
    <3>1. heap.count[x] = Cardinality(Pointing(heap.ref, x)) + 0
      BY <2>1, NoneAssumption DEF HeapOK, CountOf
    <3>2. Cardinality(Pointing(heap.ref, x)) \in Nat
      BY PointingCounts
    <3> QED
      BY <3>1, <3>2 DEF Pointing
  <2> QED
    BY <2>2, <2>3 DEF ReferencesExact, CountsAreExact
<1> QED
  BY <1>1, Invariance, PTL

\* Counting references, handler by handler, does what SurfaceBuffers says:
\* a buffer is released, and a SurfaceBuffer deleted, exactly when its last
\* reference goes.
THEOREM CountingRefines == Spec => ImplementsReferences
<1>1. Init => References!Init
  BY InitInv
<1>2. Inv /\ [Next]_vars => [References!Next]_References!vars
  BY NextSteps
<1> QED
  BY <1>1, <1>2, Invariance, PTL DEF Spec, ImplementsReferences, References!Spec

=============================================================================
