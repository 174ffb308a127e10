------------------------ MODULE FrameCallbacks_proofs ------------------------
(***************************************************************************)
(* Proofs about FrameCallbacks for any number of surfaces, views and       *)
(* outputs: callbacks are sent in the order of the requests, and surface,  *)
(* view, output and client agree on what is shown where.  And about        *)
(* WaylandOutput, for any number of clients, configurations, modes and     *)
(* values: that the properties are those asked for, when one configuration *)
(* is filled and applied at a time (IsAsAsked is false otherwise), and     *)
(* that the clients know the output, when the current mode is not added    *)
(* again without its flag (IsKnown is false otherwise).                    *)
(***************************************************************************)
EXTENDS FrameCallbacks, WaylandOutput, FunctionTheorems, FiniteSetTheorems,
        SequenceTheorems, TLAPS

Entry == [views : SUBSET Views, has_entered : BOOLEAN]

Sorted(q) == \A i, j \in DOMAIN q : i < j => q[i] < q[j]
Before(p, q) == \A i \in DOMAIN p, j \in DOMAIN q : p[i] < q[j]
UpTo(q, n) == \A i \in DOMAIN q : q[i] <= n

\* What is sent comes before what is to be sent, and that before what is not
\* yet committed.  A frame marks all callbacks there are and a commit adds new
\* ones behind them, so the marked ones come first.
InOrder(s) ==
  /\ Sorted(done[s]) /\ Sorted(IdsOf(frameCallbacks[s]))
  /\ Sorted(pendingFrameCallbacks[s])
  /\ Before(done[s], IdsOf(frameCallbacks[s]))
  /\ Before(done[s], pendingFrameCallbacks[s])
  /\ Before(IdsOf(frameCallbacks[s]), pendingFrameCallbacks[s])
  /\ UpTo(done[s], frames) /\ UpTo(IdsOf(frameCallbacks[s]), frames)
  /\ UpTo(pendingFrameCallbacks[s], frames)

MarkedFirst(s) ==
  \A i, j \in DOMAIN frameCallbacks[s] :
    i < j /\ frameCallbacks[s][j].canSend => frameCallbacks[s][i].canSend

CallbacksInv == \A s \in Surfaces : InOrder(s) /\ MarkedFirst(s)

\* What is shown where: the surface's list, the output's entry, and what the
\* client was told.
ListsAgree ==
  \A s \in Surfaces : /\ ToSet(views[s]) = {v \in Views : viewSurface[v] = s}
                      /\ IsInjective(views[s])

EntriesAgree ==
  \A o \in Outputs, s \in Surfaces :
    surfaceViews[o][s].views = {v \in Views : viewSurface[v] = s /\ viewOutput[v] = o}

Believed ==
  \A o \in Outputs, s \in Surfaces : o \in entered[s] <=> surfaceViews[o][s].has_entered

\* An entry is entered only while it has views.  A client that binds every
\* output at once has bound them before it has a surface.
ShownInv ==
  /\ ListsAgree /\ EntriesAgree
  /\ \A o \in Outputs, s \in Surfaces :
       surfaceViews[o][s].has_entered => surfaceViews[o][s].views # {}
  /\ BindsFirst => Believed /\ (alive # {} => bound = Outputs)

Inv == TypeOK /\ CallbacksInv /\ ShownInv

-----------------------------------------------------------------------------
(* The entries of a sequence at some positions *)

\* f enumerates S in increasing order.
Enumerates(f, S, q) ==
  /\ f \in [1..Cardinality(S) -> S]
  /\ \A k \in 1..Cardinality(S) : Entries(q, S)[k] = q[f[k]]
  /\ \A k, l \in 1..Cardinality(S) : k < l => f[k] < f[l]
  /\ \A i \in S : \E k \in 1..Cardinality(S) : f[k] = i

LEMMA Enumeration ==
  ASSUME NEW T, NEW q \in Seq(T), NEW S \in SUBSET DOMAIN q
  PROVE  /\ Cardinality(S) \in Nat
         /\ Entries(q, S) \in Seq(T)
         /\ DOMAIN Entries(q, S) = 1..Cardinality(S)
         /\ \E f : Enumerates(f, S, q)
<1> DEFINE below(i) == {j \in S : j <= i}
           rank(i) == Cardinality(below(i))
           m == Cardinality(S)
           f == [k \in 1..m |-> CHOOSE i \in S : rank(i) = k]
           r == [i \in S |-> rank(i)]
<1>1. S \subseteq 1..Len(q) /\ Len(q) \in Nat /\ S \subseteq Int
  OBVIOUS
<1>2. IsFiniteSet(S) /\ m \in Nat
  <2>1. IsFiniteSet(1..Len(q))
    BY <1>1, FS_Interval
  <2> QED  BY <1>1, <2>1, FS_Subset, FS_CardinalityType
<1>3. ASSUME NEW i \in S
      PROVE  rank(i) \in 1..m
  <2>1. below(i) \in SUBSET S /\ i \in below(i)
    BY <1>1
  <2>2. IsFiniteSet(below(i)) /\ rank(i) <= m
    BY <2>1, <1>2, FS_Subset
  <2>3. rank(i) \in Nat /\ rank(i) # 0
    BY <2>1, <2>2, FS_CardinalityType, FS_EmptySet
  <2> HIDE DEF below
  <2> QED  BY <2>2, <2>3, <1>2
<1>4. ASSUME NEW i \in S, NEW j \in S, i < j
      PROVE  rank(i) < rank(j)
  <2>1. below(i) \in SUBSET below(j) /\ j \in below(j) /\ j \notin below(i)
        /\ below(j) \in SUBSET S
    BY <1>1, <1>4
  <2>2. IsFiniteSet(below(j))
    BY <2>1, <1>2, FS_Subset
  <2> HIDE DEF below
  <2>3. rank(i) <= rank(j) /\ rank(i) # rank(j)
    BY <2>1, <2>2, FS_Subset
  <2>4. rank(i) \in 1..m /\ rank(j) \in 1..m
    BY <1>3
  <2> QED  BY <2>3, <2>4, <1>2
<1> HIDE DEF rank, m
<1>5. ASSUME NEW i \in S, NEW j \in S, rank(i) = rank(j)
      PROVE  i = j
  <2>1. i \in Int /\ j \in Int /\ rank(i) \in Int /\ rank(j) \in Int
    BY <1>1, <1>2, <1>3
  <2>2. ~(i < j)
    BY <2>1, <1>4, <1>5
  <2>3. ~(j < i)
    BY <2>1, <1>4, <1>5
  <2> QED  BY <2>1, <2>2, <2>3
<1>6. ASSUME NEW k \in 1..m
      PROVE  \E i \in S : rank(i) = k
  <2>1. r \in [S -> 1..m] /\ \A i, j \in S : r[i] = r[j] => i = j
    BY <1>3, <1>5
  <2>2. r \in Injection(S, 1..m)
    BY <2>1, Fun_IsInj
  <2>3. IsFiniteSet(1..m) /\ Cardinality(1..m) = m
    BY <1>2, FS_Interval
  <2>4. r \in Surjection(S, 1..m)
    BY <2>2, <2>3, FS_Injection DEF m
  <2>5. \E i \in S : r[i] = k
    BY <2>4 DEF Surjection
  <2> QED  BY <2>5
<1>7. \A k \in 1..m : f[k] \in S /\ rank(f[k]) = k
  BY <1>6
<1>8. f \in [1..m -> S]
  BY <1>7
<1>9. Entries(q, S) = [k \in 1..m |-> q[f[k]]]
  BY DEF Entries, m, rank
<1> HIDE DEF f
<1>10. \A k \in 1..m : q[f[k]] \in T
  BY <1>7, <1>1
<1>11. Entries(q, S) \in Seq(T)
  BY <1>2, <1>9, <1>10
<1>12. ASSUME NEW k \in 1..m, NEW l \in 1..m, k < l
       PROVE  f[k] < f[l]
  <2>1. /\ f[k] \in S /\ f[l] \in S /\ rank(f[k]) = k /\ rank(f[l]) = l
        /\ f[k] \in Int /\ f[l] \in Int /\ k \in Int /\ l \in Int
    BY <1>1, <1>2, <1>7
  <2>2. ~(f[l] < f[k])
    BY <2>1, <1>4, <1>12
  <2>3. f[k] # f[l]
    BY <2>1, <1>12
  <2> QED  BY <2>1, <2>2, <2>3
<1>13. ASSUME NEW i \in S
       PROVE  \E k \in 1..m : f[k] = i
  <2>1. rank(i) \in 1..m
    BY <1>3
  <2>2. f[rank(i)] = i
    BY <2>1, <1>5, <1>7
  <2> QED  BY <2>1, <2>2
<1>14. \A k \in 1..m : Entries(q, S)[k] = q[f[k]]
  BY <1>9
<1>15. Enumerates(f, S, q)
  BY <1>8, <1>12, <1>13, <1>14 DEF Enumerates, m
<1> QED  BY <1>2, <1>9, <1>11, <1>15 DEF m

-----------------------------------------------------------------------------
(* Increasing sequences *)

LEMMA Joined ==
  ASSUME NEW T, NEW p \in Seq(T), NEW q \in Seq(T)
  PROVE  /\ p \o q \in Seq(T)
         /\ Len(p \o q) = Len(p) + Len(q)
         /\ \A i \in DOMAIN (p \o q) :
              \/ i \in DOMAIN p /\ (p \o q)[i] = p[i]
              \/ /\ i - Len(p) \in DOMAIN q /\ i > Len(p)
                 /\ (p \o q)[i] = q[i - Len(p)]
<1> DEFINE pq == p \o q
<1>1. /\ p \o q \in Seq(T)
      /\ Len(p \o q) = Len(p) + Len(q)
      /\ \A i \in 1..(Len(p) + Len(q)) :
           (p \o q)[i] = IF i <= Len(p) THEN p[i] ELSE q[i - Len(p)]
  BY ConcatProperties, Zenon
<1>2. /\ pq \in Seq(T) /\ Len(pq) = Len(p) + Len(q)
      /\ \A i \in 1..(Len(p) + Len(q)) :
           pq[i] = IF i <= Len(p) THEN p[i] ELSE q[i - Len(p)]
  BY <1>1, Zenon
<1> HIDE DEF pq
<1>3. /\ DOMAIN p = 1..Len(p) /\ DOMAIN q = 1..Len(q)
      /\ Len(p) \in Nat /\ Len(q) \in Nat
  OBVIOUS
<1>4. DOMAIN pq = 1..(Len(p) + Len(q))
  BY <1>2
<1>5. ASSUME NEW i \in DOMAIN pq
      PROVE  \/ i \in DOMAIN p /\ pq[i] = p[i]
             \/ /\ i - Len(p) \in DOMAIN q /\ i > Len(p)
                /\ pq[i] = q[i - Len(p)]
  <2>1. i \in 1..(Len(p) + Len(q))
    BY <1>4
  <2>2. pq[i] = IF i <= Len(p) THEN p[i] ELSE q[i - Len(p)]
    BY <1>2, <2>1
  <2> HIDE <1>2
  <2>3. CASE i <= Len(p)
    BY <1>3, <2>1, <2>2, <2>3
  <2>4. CASE ~(i <= Len(p))
    <3>1. i - Len(p) \in 1..Len(q) /\ i > Len(p)
      BY <1>3, <2>1, <2>4
    <3> QED  BY <1>3, <3>1, <2>2, <2>4
  <2> QED  BY <2>3, <2>4
<1> USE DEF pq
<1> QED  BY <1>2, <1>5, Zenon

LEMMA Concatenated ==
  ASSUME NEW p \in Seq(Int), NEW q \in Seq(Int)
  PROVE  /\ Sorted(p) /\ Sorted(q) /\ Before(p, q) => Sorted(p \o q)
         /\ \A n : UpTo(p, n) /\ UpTo(q, n) => UpTo(p \o q, n)
         /\ \A r \in Seq(Int) :
              /\ Before(p, r) /\ Before(q, r) => Before(p \o q, r)
              /\ Before(r, p) /\ Before(r, q) => Before(r, p \o q)
<1> DEFINE pq == p \o q
<1>3. /\ pq \in Seq(Int) /\ Len(pq) = Len(p) + Len(q)
      /\ \A i \in DOMAIN pq : \/ i \in DOMAIN p /\ pq[i] = p[i]
                              \/ /\ i - Len(p) \in DOMAIN q /\ i > Len(p)
                                 /\ pq[i] = q[i - Len(p)]
  BY Joined, Zenon
<1> HIDE DEF pq
<1>2. /\ DOMAIN p = 1..Len(p) /\ DOMAIN q = 1..Len(q) /\ DOMAIN pq = 1..Len(pq)
      /\ Len(p) \in Nat /\ Len(q) \in Nat
  BY <1>3
<1>4. ASSUME Sorted(p), Sorted(q), Before(p, q)
      PROVE  Sorted(pq)
  <2>1. ASSUME NEW i \in DOMAIN pq, NEW j \in DOMAIN pq, i < j
        PROVE  pq[i] < pq[j]
    <3>1. CASE i \in DOMAIN p /\ j \in DOMAIN p
      <4>1. pq[i] = p[i] /\ pq[j] = p[j]
        BY <3>1, <1>2, <1>3
      <4> QED  BY <4>1, <3>1, <2>1, <1>4 DEF Sorted
    <3>2. CASE i \in DOMAIN p /\ j > Len(p)
      <4>1. pq[i] = p[i]
        BY <3>2, <1>2, <1>3
      <4>2. j - Len(p) \in DOMAIN q /\ pq[j] = q[j - Len(p)]
        <5>1. j > Len(p)
          BY <3>2
        <5> HIDE <3>2
        <5>2. j \notin DOMAIN p
          BY <5>1, <1>2
        <5> QED  BY <5>2, <1>3
      <4> QED  BY <4>1, <4>2, <3>2, <1>4 DEF Before
    <3>3. CASE i > Len(p) /\ j > Len(p)
      <4>1. /\ i - Len(p) \in DOMAIN q /\ j - Len(p) \in DOMAIN q
            /\ pq[i] = q[i - Len(p)] /\ pq[j] = q[j - Len(p)]
        BY <3>3, <1>2, <1>3
      <4>2. i - Len(p) < j - Len(p)
        BY <2>1, <1>2
      <4> QED  BY <4>1, <4>2, <1>4 DEF Sorted
    <3> QED  BY <2>1, <1>2, <3>1, <3>2, <3>3
  <2> QED  BY <2>1 DEF Sorted
<1>5. \A n : UpTo(p, n) /\ UpTo(q, n) => UpTo(pq, n)
  BY <1>3 DEF UpTo
<1>6. ASSUME NEW r \in Seq(Int)
      PROVE  /\ Before(p, r) /\ Before(q, r) => Before(pq, r)
             /\ Before(r, p) /\ Before(r, q) => Before(r, pq)
  BY <1>3 DEF Before
<1> USE DEF pq
<1> QED  BY <1>4, <1>5, <1>6

LEMMA IdsAreNumbers ==
  ASSUME NEW q \in Seq(Callbacks)
  PROVE  /\ IdsOf(q) \in Seq(1..MaxCallbacks) /\ DOMAIN IdsOf(q) = DOMAIN q
         /\ \A i \in DOMAIN q : IdsOf(q)[i] = q[i].id /\ q[i] \in Callbacks
<1>1. DOMAIN q = 1..Len(q) /\ Len(q) \in Nat /\ \A i \in 1..Len(q) : q[i] \in Callbacks
  OBVIOUS
<1>2. \A i \in 1..Len(q) : q[i].id \in 1..MaxCallbacks
  BY <1>1 DEF Callbacks
<1> QED  BY <1>1, <1>2 DEF IdsOf

LEMMA IdsOfConcatenated ==
  ASSUME NEW p \in Seq(Callbacks), NEW q \in Seq(Callbacks)
  PROVE  IdsOf(p \o q) = IdsOf(p) \o IdsOf(q)
<1> DEFINE pq == p \o q
           a == IdsOf(p)
           b == IdsOf(q)
           c == a \o b
           d == IdsOf(pq)
<1>1. /\ pq \in Seq(Callbacks) /\ Len(pq) = Len(p) + Len(q)
      /\ \A i \in DOMAIN pq : \/ i \in DOMAIN p /\ pq[i] = p[i]
                              \/ /\ i - Len(p) \in DOMAIN q /\ i > Len(p)
                                 /\ pq[i] = q[i - Len(p)]
  BY Joined, Zenon
<1> HIDE DEF pq
<1>2. /\ a \in Seq(1..MaxCallbacks) /\ DOMAIN a = DOMAIN p
      /\ \A i \in DOMAIN p : a[i] = p[i].id
  BY IdsAreNumbers, Zenon
<1>3. /\ b \in Seq(1..MaxCallbacks) /\ DOMAIN b = DOMAIN q
      /\ \A i \in DOMAIN q : b[i] = q[i].id
  BY IdsAreNumbers, Zenon
<1>4. /\ d \in Seq(1..MaxCallbacks) /\ DOMAIN d = DOMAIN pq
      /\ \A i \in DOMAIN pq : d[i] = pq[i].id
  BY <1>1, IdsAreNumbers, Zenon
<1> HIDE DEF a, b, d
<1>5. /\ c \in Seq(1..MaxCallbacks) /\ Len(c) = Len(a) + Len(b)
      /\ \A i \in DOMAIN c : \/ i \in DOMAIN a /\ c[i] = a[i]
                             \/ /\ i - Len(a) \in DOMAIN b /\ i > Len(a)
                                /\ c[i] = b[i - Len(a)]
  BY <1>2, <1>3, Joined, Zenon
<1> HIDE DEF c
<1>6. Len(a) = Len(p) /\ Len(b) = Len(q) /\ Len(d) = Len(pq)
  BY <1>1, <1>2, <1>3, <1>4
<1>7. /\ DOMAIN c = DOMAIN d /\ Len(p) \in Nat /\ Len(q) \in Nat
      /\ DOMAIN d = 1..(Len(p) + Len(q)) /\ DOMAIN p = 1..Len(p)
  BY <1>1, <1>4, <1>5, <1>6
<1>8. ASSUME NEW i \in DOMAIN d
      PROVE  c[i] = d[i]
  <2>1. i \in Nat /\ i \in DOMAIN c /\ i \in DOMAIN pq
    BY <1>7, <1>4
  <2>2. CASE i \in DOMAIN p
    BY <2>1, <2>2, <1>1, <1>2, <1>4, <1>5, <1>6, <1>7
  <2>3. CASE i \notin DOMAIN p
    BY <2>1, <2>3, <1>1, <1>2, <1>3, <1>4, <1>5, <1>6, <1>7
  <2> QED  BY <2>2, <2>3
<1>9. c = d
  <2>1. c \in Seq(1..MaxCallbacks) /\ d \in Seq(1..MaxCallbacks)
    BY <1>4, <1>5
  <2>2. c = [i \in DOMAIN c |-> c[i]] /\ d = [i \in DOMAIN d |-> d[i]]
    BY <2>1
  <2> QED  BY <2>2, <1>7, <1>8
<1> QED  BY <1>9 DEF a, b, c, d, pq

-----------------------------------------------------------------------------
(* The callbacks of a surface stay in order *)

LEMMA Numbers ==
  ASSUME TypeOK, NEW s \in Surfaces
  PROVE  /\ MaxCallbacks \in Nat /\ frames \in 0..MaxCallbacks
         /\ done[s] \in Seq(1..MaxCallbacks)
         /\ pendingFrameCallbacks[s] \in Seq(1..MaxCallbacks)
         /\ frameCallbacks[s] \in Seq(Callbacks)
         /\ IdsOf(frameCallbacks[s]) \in Seq(1..MaxCallbacks)
         /\ Seq(1..MaxCallbacks) \subseteq Seq(Int)
<1>1. MaxCallbacks \in Nat
  BY BoundsAssumption
<1>2. frameCallbacks[s] \in Seq(Callbacks)
  BY DEF TypeOK
<1>3. \A q \in Seq(1..MaxCallbacks) : q \in Seq(Int)
  <2>1. ASSUME NEW q \in Seq(1..MaxCallbacks) PROVE q \in Seq(Int)
    <3>1. \A i \in 1..Len(q) : q[i] \in Int
      BY <1>1
    <3> QED  BY <3>1
  <2> QED  BY <2>1
<1> QED  BY <1>1, <1>2, <1>3, IdsAreNumbers DEF TypeOK

LEMMA Appended ==
  ASSUME NEW p \in Seq(1..MaxCallbacks), NEW n \in 1..MaxCallbacks
  PROVE  /\ Append(p, n) \in Seq(1..MaxCallbacks)
         /\ DOMAIN Append(p, n) = DOMAIN p \cup {Len(p) + 1}
         /\ \A i \in DOMAIN p : i \in Int /\ Append(p, n)[i] = p[i] /\ p[i] \in Int
         /\ Append(p, n)[Len(p) + 1] = n
         /\ \A i \in DOMAIN p : i < Len(p) + 1
<1>1. /\ Len(p) \in Nat /\ DOMAIN p = 1..Len(p)
      /\ \A i \in 1..Len(p) : p[i] \in 1..MaxCallbacks
  BY BoundsAssumption
<1>2. \A i \in DOMAIN p : i \in Int /\ p[i] \in Int /\ i < Len(p) + 1
  BY <1>1
<1>3. /\ Append(p, n) \in Seq(1..MaxCallbacks)
      /\ Len(Append(p, n)) = Len(p) + 1
      /\ \A i \in 1..Len(p) : Append(p, n)[i] = p[i]
      /\ Append(p, n)[Len(p) + 1] = n
  BY AppendProperties
<1>4. DOMAIN Append(p, n) = 1..(Len(p) + 1)
  BY <1>3
<1>5. 1..(Len(p) + 1) = (1..Len(p)) \cup {Len(p) + 1}
  BY <1>1
<1> QED  BY <1>1, <1>2, <1>3, <1>4, <1>5

LEMMA FrameOrder ==
  ASSUME TypeOK, CallbacksInv, NEW s \in Surfaces, Frame(s)
  PROVE  /\ CallbacksInv'
         /\ frames' \in 0..MaxCallbacks
         /\ pendingFrameCallbacks' \in [Surfaces -> Seq(1..MaxCallbacks)]
<1> DEFINE p == pendingFrameCallbacks[s]
           q == Append(p, frames + 1)
<1>1. /\ p \in Seq(1..MaxCallbacks) /\ frames \in Nat /\ frames + 1 \in 1..MaxCallbacks
      /\ q \in Seq(1..MaxCallbacks)
  BY Numbers DEF Frame
<1>2. frames' = frames + 1 /\ done' = done /\ frameCallbacks' = frameCallbacks
      /\ pendingFrameCallbacks' = [pendingFrameCallbacks EXCEPT ![s] = q]
  BY DEF Frame
<1>3. /\ DOMAIN q = DOMAIN p \cup {Len(p) + 1} /\ Len(p) + 1 \in Int
      /\ \A i \in DOMAIN p : i \in Int /\ q[i] = p[i] /\ p[i] \in Int /\ i < Len(p) + 1
      /\ q[Len(p) + 1] = frames + 1
  BY <1>1, Appended
<1> HIDE DEF p, q
<1>4. InOrder(s)
  BY DEF CallbacksInv
<1>5. Sorted(q) /\ UpTo(q, frames + 1)
  <2>1. Sorted(p) /\ UpTo(p, frames)
    BY <1>4 DEF InOrder, p
  <2>2. frames \in Int
    BY <1>1
  <2>3. UpTo(q, frames + 1)
    BY <2>1, <2>2, <1>3 DEF UpTo
  <2> QED  BY <2>1, <2>2, <2>3, <1>3 DEF Sorted, UpTo
<1>6. ASSUME NEW r \in Seq(1..MaxCallbacks), Before(r, p), UpTo(r, frames)
      PROVE  Before(r, q)
  <2>1. \A i \in DOMAIN r : r[i] \in Int
    BY BoundsAssumption
  <2>2. frames \in Int
    BY <1>1
  <2> QED  BY <2>1, <2>2, <1>3, <1>6 DEF Before, UpTo
<1>7. ASSUME NEW r \in Seq(1..MaxCallbacks), UpTo(r, frames)
      PROVE  UpTo(r, frames')
  <2>1. \A i \in DOMAIN r : r[i] \in Int
    BY BoundsAssumption
  <2> QED  BY <2>1, <1>1, <1>2, <1>7 DEF UpTo
<1>8. ASSUME NEW t \in Surfaces
      PROVE  InOrder(t)'
  <2>0. /\ done[t] \in Seq(1..MaxCallbacks) /\ IdsOf(frameCallbacks[t]) \in Seq(1..MaxCallbacks)
        /\ pendingFrameCallbacks[t] \in Seq(1..MaxCallbacks) /\ InOrder(t)
    BY Numbers DEF CallbacksInv
  <2>1. /\ UpTo(done[t], frames') /\ UpTo(IdsOf(frameCallbacks[t]), frames')
        /\ UpTo(pendingFrameCallbacks[t], frames')
    BY <2>0, <1>7 DEF InOrder
  <2>2. CASE t = s
    <3>1. pendingFrameCallbacks'[t] = q
      BY <2>2, <1>2 DEF TypeOK
    <3>2. Before(done[t], q) /\ Before(IdsOf(frameCallbacks[t]), q)
      BY <2>0, <2>2, <1>6 DEF InOrder, p
    <3> QED  BY <3>1, <3>2, <2>0, <2>1, <1>2, <1>5 DEF InOrder
  <2>3. CASE t # s
    <3>1. pendingFrameCallbacks'[t] = pendingFrameCallbacks[t]
      BY <2>3, <1>2 DEF TypeOK
    <3> QED  BY <3>1, <2>0, <2>1, <1>2 DEF InOrder
  <2> QED  BY <2>2, <2>3
<1>9. \A t \in Surfaces : MarkedFirst(t)'
  BY <1>2 DEF CallbacksInv, MarkedFirst
<1> QED  BY <1>1, <1>2, <1>8, <1>9 DEF CallbacksInv, TypeOK

\* The empty sequence is in any order.
LEMMA NothingToSend ==
  /\ Sorted(<<>>)
  /\ \A q, n : Before(<<>>, q) /\ Before(q, <<>>) /\ UpTo(<<>>, n)
  /\ IdsOf(<<>>) = <<>>
  BY DEF Sorted, Before, UpTo, IdsOf

\* Another window's callbacks are not touched.
LEMMA OrderOfOthers ==
  ASSUME CallbacksInv, NEW t \in Surfaces, frames' = frames,
         done'[t] = done[t], frameCallbacks'[t] = frameCallbacks[t],
         pendingFrameCallbacks'[t] = pendingFrameCallbacks[t]
  PROVE  InOrder(t)' /\ MarkedFirst(t)'
<1>1. InOrder(t) /\ MarkedFirst(t)
  BY DEF CallbacksInv
<1> QED  BY <1>1 DEF InOrder, MarkedFirst

\* A commit moves the pending callbacks behind the others.
LEMMA CommitOrder ==
  ASSUME TypeOK, CallbacksInv, NEW s \in Surfaces, frames' = frames, done' = done,
         frameCallbacks' = [frameCallbacks EXCEPT ![s] = Committed(s)],
         pendingFrameCallbacks' = [pendingFrameCallbacks EXCEPT ![s] = <<>>]
  PROVE  CallbacksInv' /\ frameCallbacks' \in [Surfaces -> Seq(Callbacks)]
<1> DEFINE p == pendingFrameCallbacks[s]
           q == [i \in DOMAIN p |-> [id |-> p[i], canSend |-> FALSE]]
           f == frameCallbacks[s]
           g == f \o q
<1>1. p \in Seq(1..MaxCallbacks) /\ f \in Seq(Callbacks) /\ InOrder(s) /\ MarkedFirst(s)
  BY Numbers DEF CallbacksInv
<1>2. q \in Seq(Callbacks) /\ IdsOf(q) = p /\ \A i \in DOMAIN q : ~q[i].canSend
  <2>1. /\ DOMAIN p = 1..Len(p) /\ Len(p) \in Nat
        /\ \A i \in 1..Len(p) : p[i] \in 1..MaxCallbacks
        /\ p = [i \in DOMAIN p |-> p[i]]
    <3> HIDE DEF p
    <3> QED  BY <1>1, BoundsAssumption
  <2> HIDE DEF p
  <2>2. \A i \in 1..Len(p) : [id |-> p[i], canSend |-> FALSE] \in Callbacks
    BY <2>1 DEF Callbacks
  <2>3. q \in Seq(Callbacks)
    BY <2>1, <2>2
  <2>4. IdsOf(q) = [i \in DOMAIN p |-> p[i]]
    BY DEF IdsOf
  <2> QED  BY <2>1, <2>3, <2>4
<1>3. frameCallbacks'[s] = g /\ pendingFrameCallbacks'[s] = <<>>
  BY DEF Committed, TypeOK
<1> HIDE DEF p, q, f
<1>4. /\ g \in Seq(Callbacks) /\ IdsOf(g) = IdsOf(f) \o p
      /\ \A i \in DOMAIN g : \/ i \in DOMAIN f /\ g[i] = f[i]
                             \/ /\ i - Len(f) \in DOMAIN q /\ i > Len(f)
                                /\ g[i] = q[i - Len(f)]
  BY <1>1, <1>2, Joined, IdsOfConcatenated
<1> HIDE DEF g
<1>5. InOrder(s)'
  <2>1. /\ p \in Seq(Int) /\ IdsOf(f) \in Seq(Int) /\ done[s] \in Seq(Int)
    BY Numbers DEF p, f
  <2>2. /\ Sorted(p) /\ Sorted(IdsOf(f)) /\ Before(IdsOf(f), p)
        /\ Before(done[s], IdsOf(f)) /\ Before(done[s], p)
        /\ UpTo(p, frames) /\ UpTo(IdsOf(f), frames) /\ UpTo(done[s], frames)
        /\ Sorted(done[s])
    BY <1>1 DEF InOrder, p, f
  <2>3. /\ Sorted(IdsOf(g)) /\ Before(done[s], IdsOf(g)) /\ UpTo(IdsOf(g), frames)
    BY <1>4, <2>1, <2>2, Concatenated
  <2> QED  BY <1>3, <2>2, <2>3, NothingToSend DEF InOrder
<1>6. MarkedFirst(s)'
  <2>1. ASSUME NEW i \in DOMAIN g, NEW j \in DOMAIN g, i < j, g[j].canSend
        PROVE  g[i].canSend
    <3>1. j \in DOMAIN f /\ g[j] = f[j]
      BY <2>1, <1>2, <1>4
    <3>2. i \in Int /\ DOMAIN f = 1..Len(f) /\ Len(f) \in Nat /\ j \in Int /\ i >= 1
      BY <1>1, <1>4
    <3>3. i \in DOMAIN f
      BY <2>1, <3>1, <3>2
    <3>4. g[i] = f[i]
      BY <3>2, <3>3, <1>4
    <3> QED  BY <1>1, <2>1, <3>1, <3>3, <3>4 DEF MarkedFirst, f
  <2> QED  BY <1>3, <2>1 DEF MarkedFirst
<1>7. ASSUME NEW t \in Surfaces, t # s
      PROVE  InOrder(t)' /\ MarkedFirst(t)'
  BY <1>7, OrderOfOthers DEF TypeOK
<1> QED  BY <1>3, <1>4, <1>5, <1>6, <1>7 DEF CallbacksInv, TypeOK, Committed, g, f, q, p

\* A frame marks all of a surface's callbacks, or none.
LEMMA MarkOrder ==
  ASSUME TypeOK, CallbacksInv, NEW o \in Outputs, FrameStart(o)
  PROVE  CallbacksInv' /\ frameCallbacks' \in [Surfaces -> Seq(Callbacks)]
<1>1. ASSUME NEW s \in Surfaces
      PROVE  /\ Marked(o, s) \in Seq(Callbacks)
             /\ IdsOf(Marked(o, s)) = IdsOf(frameCallbacks[s])
             /\ \A i, j \in DOMAIN Marked(o, s) :
                  i < j /\ Marked(o, s)[j].canSend => Marked(o, s)[i].canSend
  <2> DEFINE f == frameCallbacks[s]
             m == [i \in DOMAIN f |-> [f[i] EXCEPT !.canSend = TRUE]]
  <2>1. f \in Seq(Callbacks) /\ MarkedFirst(s)
    BY Numbers DEF CallbacksInv
  <2>2. CASE Throttles(o, s)
    <3>1. Marked(o, s) = m
      BY <2>2 DEF Marked
    <3>2. DOMAIN f = 1..Len(f) /\ Len(f) \in Nat /\ \A i \in 1..Len(f) : f[i] \in Callbacks
      BY <2>1
    <3> HIDE DEF f
    <3>3. \A i \in 1..Len(f) : /\ [f[i] EXCEPT !.canSend = TRUE] \in Callbacks
                               /\ [f[i] EXCEPT !.canSend = TRUE].id = f[i].id
                               /\ [f[i] EXCEPT !.canSend = TRUE].canSend
      BY <3>2 DEF Callbacks
    <3>4. m \in Seq(Callbacks) /\ \A i \in DOMAIN m : m[i].canSend
      <4>1. DOMAIN m = 1..Len(f)
        BY <3>2
      <4>2. \A i \in 1..Len(f) : m[i] \in Callbacks /\ m[i].canSend
        BY <3>2, <3>3
      <4>3. m = [i \in 1..Len(f) |-> m[i]]
        BY <3>2
      <4> HIDE DEF m
      <4> QED  BY <3>2, <4>1, <4>2, <4>3
    <3>5. IdsOf(m) = IdsOf(f)
      BY <3>2, <3>3 DEF IdsOf
    <3> HIDE DEF m
    <3> QED  BY <3>1, <3>4, <3>5 DEF f
  <2>3. CASE ~Throttles(o, s)
    BY <2>1, <2>3 DEF Marked, MarkedFirst
  <2> QED  BY <2>2, <2>3
<1>2. /\ frameCallbacks' = [s \in Surfaces |-> Marked(o, s)]
      /\ frames' = frames /\ done' = done /\ pendingFrameCallbacks' = pendingFrameCallbacks
  BY DEF FrameStart
<1>3. ASSUME NEW s \in Surfaces
      PROVE  InOrder(s)' /\ MarkedFirst(s)'
  <2>1. /\ IdsOf(frameCallbacks'[s]) = IdsOf(frameCallbacks[s])
        /\ frameCallbacks'[s] = Marked(o, s) /\ InOrder(s)
    BY <1>1, <1>2 DEF CallbacksInv
  <2>2. InOrder(s)'
    BY <2>1, <1>2 DEF InOrder
  <2> QED  BY <2>1, <2>2, <1>1 DEF MarkedFirst
<1> QED  BY <1>1, <1>2, <1>3 DEF CallbacksInv

\* Some callbacks of a surface, in their order.
LEMMA SomeInOrder ==
  ASSUME TypeOK, NEW s \in Surfaces, NEW S \in SUBSET DOMAIN frameCallbacks[s],
         Sorted(IdsOf(frameCallbacks[s]))
  PROVE  LET e == Entries(frameCallbacks[s], S)
             f == frameCallbacks[s] IN
         /\ e \in Seq(Callbacks) /\ Sorted(IdsOf(e))
         /\ \A i \in DOMAIN e : \E k \in S : e[i] = f[k]
         /\ MarkedFirst(s) =>
              \A i, j \in DOMAIN e : i < j /\ e[j].canSend => e[i].canSend
<1> DEFINE f == frameCallbacks[s]
           e == Entries(f, S)
           m == Cardinality(S)
<1>1. f \in Seq(Callbacks)
  BY Numbers
<1>2. /\ m \in Nat /\ e \in Seq(Callbacks) /\ DOMAIN e = 1..m
      /\ \E g : Enumerates(g, S, f)
  BY <1>1, Enumeration
<1>3. PICK g \in [1..m -> S] :
              /\ \A k \in 1..m : e[k] = f[g[k]]
              /\ \A k, l \in 1..m : k < l => g[k] < g[l]
  BY <1>2 DEF Enumerates
<1> HIDE DEF e, m
<1>4. /\ DOMAIN IdsOf(e) = 1..m /\ \A k \in 1..m : IdsOf(e)[k] = e[k].id
  BY <1>2, IdsAreNumbers
<1>5. /\ DOMAIN IdsOf(f) = DOMAIN f /\ \A k \in DOMAIN f : IdsOf(f)[k] = f[k].id
  BY <1>1, IdsAreNumbers
<1>6. S \subseteq DOMAIN f /\ \A k \in 1..m : g[k] \in DOMAIN f
  BY <1>3
<1> HIDE DEF f
<1>7. Sorted(IdsOf(e))
  <2>1. ASSUME NEW i \in 1..m, NEW j \in 1..m, i < j
        PROVE  IdsOf(e)[i] < IdsOf(e)[j]
    <3>1. g[i] < g[j] /\ g[i] \in DOMAIN f /\ g[j] \in DOMAIN f
      BY <2>1, <1>3, <1>6
    <3>2. IdsOf(f)[g[i]] < IdsOf(f)[g[j]]
      BY <3>1, <1>5 DEF Sorted, f
    <3>3. IdsOf(e)[i] = IdsOf(f)[g[i]] /\ IdsOf(e)[j] = IdsOf(f)[g[j]]
      BY <3>1, <1>3, <1>4, <1>5
    <3> QED  BY <3>2, <3>3
  <2> QED  BY <2>1, <1>4 DEF Sorted
<1>8. ASSUME MarkedFirst(s), NEW i \in 1..m, NEW j \in 1..m, i < j, e[j].canSend
      PROVE  e[i].canSend
  BY <1>3, <1>6, <1>8 DEF MarkedFirst, f
<1>9. \A i \in DOMAIN e : \E k \in S : e[i] = f[k]
  BY <1>2, <1>3
<1> QED  BY <1>2, <1>7, <1>8, <1>9 DEF e, f

\* What is sent was marked, and what is marked comes before what is not.
LEMMA SendOrder ==
  ASSUME TypeOK, CallbacksInv, NEW o \in Outputs, SendFrameCallbacks(o)
  PROVE  /\ CallbacksInv'
         /\ frameCallbacks' \in [Surfaces -> Seq(Callbacks)]
         /\ done' \in [Surfaces -> Seq(1..MaxCallbacks)]
<1> DEFINE rest(s) == Entries(frameCallbacks[s], DOMAIN frameCallbacks[s] \ Sent(o, s))
           sent(s) == Entries(frameCallbacks[s], Sent(o, s))
<1>1. /\ frameCallbacks' = [s \in Surfaces |-> rest(s)]
      /\ done' = [s \in Surfaces |-> done[s] \o IdsOf(sent(s))]
      /\ frames' = frames /\ pendingFrameCallbacks' = pendingFrameCallbacks
  BY DEF SendFrameCallbacks
<1> HIDE DEF rest, sent
<1>2. ASSUME NEW s \in Surfaces
      PROVE  /\ rest(s) \in Seq(Callbacks)
             /\ done[s] \o IdsOf(sent(s)) \in Seq(1..MaxCallbacks)
             /\ InOrder(s)' /\ MarkedFirst(s)'
  <2> DEFINE f == frameCallbacks[s]
             r == rest(s)
             e == sent(s)
             p == pendingFrameCallbacks[s]
             d == done[s]
  <2>1. InOrder(s) /\ MarkedFirst(s)
    BY DEF CallbacksInv
  <2>2. /\ Sorted(d) /\ Sorted(IdsOf(f)) /\ Sorted(p)
        /\ Before(d, IdsOf(f)) /\ Before(d, p) /\ Before(IdsOf(f), p)
        /\ UpTo(d, frames) /\ UpTo(IdsOf(f), frames) /\ UpTo(p, frames)
    BY <2>1 DEF InOrder
  <2>3. /\ e \in Seq(Callbacks) /\ Sorted(IdsOf(e))
        /\ \A i \in DOMAIN e : \E k \in Sent(o, s) : e[i] = f[k]
    <3>1. Sent(o, s) \in SUBSET DOMAIN f
      BY DEF Sent
    <3> QED  BY <3>1, <2>2, SomeInOrder DEF sent
  <2>4. /\ r \in Seq(Callbacks) /\ Sorted(IdsOf(r))
        /\ \A i \in DOMAIN r : \E k \in DOMAIN f \ Sent(o, s) : r[i] = f[k]
        /\ \A i, j \in DOMAIN r : i < j /\ r[j].canSend => r[i].canSend
    BY <2>1, <2>2, SomeInOrder DEF rest
  <2>5. f \in Seq(Callbacks) /\ d \in Seq(1..MaxCallbacks) /\ p \in Seq(1..MaxCallbacks)
    BY Numbers
  <2>6. /\ DOMAIN IdsOf(f) = DOMAIN f /\ \A k \in DOMAIN f : IdsOf(f)[k] = f[k].id
        /\ DOMAIN f \subseteq Int
    BY <2>5, IdsAreNumbers
  <2>7. /\ DOMAIN IdsOf(e) = DOMAIN e /\ \A k \in DOMAIN e : IdsOf(e)[k] = e[k].id
        /\ IdsOf(e) \in Seq(1..MaxCallbacks)
    BY <2>3, IdsAreNumbers
  <2>8. /\ DOMAIN IdsOf(r) = DOMAIN r /\ \A k \in DOMAIN r : IdsOf(r)[k] = r[k].id
        /\ IdsOf(r) \in Seq(1..MaxCallbacks)
    BY <2>4, IdsAreNumbers
  <2> HIDE DEF f, r, e, p, d
  <2>9. \A k \in Sent(o, s) : k \in DOMAIN f
    BY DEF Sent, f
  <2>10. /\ Before(d, IdsOf(e)) /\ Before(IdsOf(e), p) /\ UpTo(IdsOf(e), frames)
    <3>1. \A i \in DOMAIN e : \E k \in DOMAIN IdsOf(f) : IdsOf(e)[i] = IdsOf(f)[k]
      BY <2>3, <2>6, <2>7, <2>9
    <3> QED  BY <2>2, <2>7, <3>1 DEF Before, UpTo
  <2>11. /\ Before(d, IdsOf(r)) /\ Before(IdsOf(r), p) /\ UpTo(IdsOf(r), frames)
    <3>1. \A i \in DOMAIN r : \E k \in DOMAIN IdsOf(f) : IdsOf(r)[i] = IdsOf(f)[k]
      BY <2>4, <2>6, <2>8
    <3> QED  BY <2>2, <2>8, <3>1 DEF Before, UpTo
  <2>12. Before(IdsOf(e), IdsOf(r))
    <3>1. ASSUME NEW i \in DOMAIN e, NEW j \in DOMAIN r
          PROVE  e[i].id < r[j].id
      <4>1. PICK k \in Sent(o, s) : e[i] = f[k]
        BY <2>3
      <4>2. PICK l \in DOMAIN f \ Sent(o, s) : r[j] = f[l]
        BY <2>4
      <4>3. k \in DOMAIN f /\ f[k].canSend /\ ~f[l].canSend
        BY <4>2 DEF Sent, f
      <4>4. k \in Int /\ l \in Int /\ k # l
        BY <4>3, <2>6
      <4>5. ~(l < k)
        BY <4>2, <4>3, <2>1 DEF MarkedFirst, f
      <4>6. k < l
        BY <4>4, <4>5
      <4>7. IdsOf(f)[k] < IdsOf(f)[l]
        BY <4>2, <4>3, <4>6, <2>2, <2>6 DEF Sorted
      <4> QED  BY <4>1, <4>2, <4>3, <4>7, <2>6
    <3> QED  BY <3>1, <2>7, <2>8 DEF Before
  <2>13. /\ d \in Seq(Int) /\ IdsOf(e) \in Seq(Int) /\ IdsOf(r) \in Seq(Int)
         /\ p \in Seq(Int)
    BY <2>5, <2>7, <2>8, Numbers
  <2>14. d \o IdsOf(e) \in Seq(1..MaxCallbacks)
    BY <2>5, <2>7, ConcatProperties
  <2>15. /\ Sorted(d \o IdsOf(e)) /\ UpTo(d \o IdsOf(e), frames)
         /\ Before(d \o IdsOf(e), IdsOf(r)) /\ Before(d \o IdsOf(e), p)
    BY <2>2, <2>3, <2>10, <2>11, <2>12, <2>13, Concatenated
  <2>16. /\ frameCallbacks'[s] = r /\ done'[s] = d \o IdsOf(e)
         /\ pendingFrameCallbacks'[s] = p /\ frames' = frames
    BY <1>1 DEF r, e, d, p
  <2>17. InOrder(s)'
    BY <2>2, <2>4, <2>11, <2>15, <2>16 DEF InOrder
  <2>18. MarkedFirst(s)'
    BY <2>4, <2>16 DEF MarkedFirst
  <2> QED  BY <2>4, <2>14, <2>17, <2>18 DEF r, e, d
<1> QED  BY <1>1, <1>2 DEF CallbacksInv

-----------------------------------------------------------------------------
(* What outputs show *)

\* An entry that was entered has views.
Sound(e) == e \in Entry /\ (e.has_entered => e.views # {})

Types(sv) == sv \in [Outputs -> [Surfaces -> Entry]]
Sounds(sv) == Types(sv) /\ \A o \in Outputs, s \in Surfaces : Sound(sv[o][s])

LEMMA NoEntryIsSound == Sound(NoEntry)
  BY DEF Sound, NoEntry, Entry

LEMMA EntryLosesViews ==
  ASSUME NEW e, Sound(e), NEW vs
  PROVE  LET w == EntryWithout(e, vs) IN
         /\ Sound(w) /\ w.views = e.views \ vs
         /\ w.has_entered => e.has_entered
<1> DEFINE w == EntryWithout(e, vs)
<1>1. CASE e.views # {} /\ e.views \subseteq vs
  BY <1>1, NoEntryIsSound DEF EntryWithout, NoEntry
<1>2. CASE ~(e.views # {} /\ e.views \subseteq vs)
  <2>1. w = [e EXCEPT !.views = @ \ vs]
    BY <1>2 DEF EntryWithout
  <2>2. /\ w \in Entry /\ w.views = e.views \ vs /\ w.has_entered = e.has_entered
    BY <2>1 DEF Sound, Entry
  <2>3. e.views # {} => w.views # {}
    BY <1>2, <2>2
  <2> HIDE DEF w
  <2> QED  BY <2>2, <2>3 DEF Sound, w
<1> QED  BY <1>1, <1>2

\* The output o with another entry for s.
Put(sv, o, s, e) == [sv EXCEPT ![o] = [sv[o] EXCEPT ![s] = e]]

LEMMA Replaced ==
  ASSUME NEW sv, Sounds(sv), NEW o \in Outputs, NEW s \in Surfaces,
         NEW e, Sound(e)
  PROVE  /\ Sounds(Put(sv, o, s, e))
         /\ \A p \in Outputs, t \in Surfaces :
              Put(sv, o, s, e)[p][t] = IF p = o /\ t = s THEN e ELSE sv[p][t]
<1> DEFINE w == Put(sv, o, s, e)
<1>1. ASSUME NEW p \in Outputs, NEW t \in Surfaces
      PROVE  w[p][t] = IF p = o /\ t = s THEN e ELSE sv[p][t]
  BY DEF Sounds, Types, Put
<1>2. ASSUME NEW p \in Outputs, NEW t \in Surfaces
      PROVE  Sound(w[p][t])
  BY <1>1 DEF Sounds
<1>3. ASSUME NEW p \in Outputs
      PROVE  w[p] \in [Surfaces -> Entry]
  <2>1. w[p] = IF p = o THEN [sv[o] EXCEPT ![s] = e] ELSE sv[p]
    BY DEF Sounds, Types, Put
  <2>2. e \in Entry /\ sv[o] \in [Surfaces -> Entry] /\ sv[p] \in [Surfaces -> Entry]
    BY DEF Sound, Sounds, Types
  <2> QED  BY <2>1, <2>2
<1>4. Types(w)
  BY <1>3 DEF Sounds, Types, Put
<1> QED  BY <1>1, <1>2, <1>4 DEF Sounds

LEMMA AddedView ==
  ASSUME NEW sv, Sounds(sv), NEW o \in Outputs \cup {None}, NEW v \in Views,
         NEW s \in Surfaces \cup {None}
  PROVE  LET w == AddView(sv, o, v, s) IN
         /\ Sounds(w)
         /\ \A p \in Outputs, t \in Surfaces :
              /\ w[p][t].views = IF p = o /\ t = s THEN sv[p][t].views \cup {v}
                                 ELSE sv[p][t].views
              /\ w[p][t].has_entered => sv[p][t].has_entered
<1> DEFINE w == AddView(sv, o, v, s)
<1>1. CASE None \in {o, s}
  BY <1>1, NoneAssumption DEF AddView
<1>2. CASE None \notin {o, s}
  <2> DEFINE entry == [sv[o][s] EXCEPT !.views = @ \cup {v}]
  <2>1. o \in Outputs /\ s \in Surfaces
    BY <1>2
  <2>2. w = Put(sv, o, s, entry)
    BY <1>2 DEF AddView, Put
  <2>3. Sound(sv[o][s])
    BY <2>1 DEF Sounds
  <2>4. /\ entry \in Entry /\ entry.views = sv[o][s].views \cup {v}
        /\ entry.has_entered = sv[o][s].has_entered
    BY <2>3 DEF Sound, Entry
  <2> HIDE DEF entry, w
  <2>5. Sound(entry)
    BY <2>4 DEF Sound
  <2>6. /\ Sounds(w)
        /\ \A p \in Outputs, t \in Surfaces :
             w[p][t] = IF p = o /\ t = s THEN entry ELSE sv[p][t]
    BY <2>1, <2>2, <2>5, Replaced
  <2> QED  BY <2>4, <2>6 DEF w
<1> QED  BY <1>1, <1>2

LEMMA RemovedView ==
  ASSUME NEW sv, Sounds(sv), NEW o \in Outputs \cup {None}, NEW v \in Views,
         NEW s \in Surfaces \cup {None}
  PROVE  LET w == RemoveView(sv, o, v, s) IN
         /\ Sounds(w)
         /\ \A p \in Outputs, t \in Surfaces :
              /\ w[p][t].views = IF p = o /\ t = s THEN sv[p][t].views \ {v}
                                 ELSE sv[p][t].views
              /\ w[p][t].has_entered => sv[p][t].has_entered
<1> DEFINE w == RemoveView(sv, o, v, s)
<1>1. CASE None \in {o, s}
  BY <1>1, NoneAssumption DEF RemoveView
<1>2. CASE None \notin {o, s}
  <2> DEFINE entry == EntryWithout(sv[o][s], {v})
  <2>1. o \in Outputs /\ s \in Surfaces
    BY <1>2
  <2>2. w = Put(sv, o, s, entry)
    BY <1>2 DEF RemoveView, Put
  <2>3. /\ Sound(entry) /\ entry.views = sv[o][s].views \ {v}
        /\ entry.has_entered => sv[o][s].has_entered
    BY <2>1, EntryLosesViews DEF Sounds
  <2> HIDE DEF entry, w
  <2>4. /\ Sounds(w)
        /\ \A p \in Outputs, t \in Surfaces :
             w[p][t] = IF p = o /\ t = s THEN entry ELSE sv[p][t]
    BY <2>1, <2>2, <2>3, Replaced
  <2> QED  BY <2>3, <2>4 DEF w
<1> QED  BY <1>1, <1>2

LEMMA ShowAgrees ==
  ASSUME NEW v \in Views, NEW s \in Surfaces \cup {None},
         NEW out \in Outputs \cup {None},
         viewSurface \in [Views -> Surfaces \cup {None}],
         viewOutput \in [Views -> Outputs \cup {None}],
         Sounds(surfaceViews), EntriesAgree, Show(v, s, out)
  PROVE  /\ Sounds(surfaceViews') /\ EntriesAgree'
         /\ \A p \in Outputs, t \in Surfaces :
              surfaceViews'[p][t].has_entered => surfaceViews[p][t].has_entered
<1> DEFINE old  == viewOutput[v]
           cur  == viewSurface[v]
           one  == RemoveView(surfaceViews, old, v, cur)
           two  == AddView(one, old, v, s)
           sv   == IF s = cur THEN surfaceViews ELSE two
           four == RemoveView(sv, old, v, s)
           five == AddView(four, out, v, s)
<1>0. old \in Outputs \cup {None} /\ cur \in Surfaces \cup {None}
  OBVIOUS
<1>1. /\ viewSurface' = [viewSurface EXCEPT ![v] = s]
      /\ viewOutput' = [viewOutput EXCEPT ![v] = out]
      /\ surfaceViews' = IF out = old THEN sv ELSE five
  BY DEF Show
<1> HIDE DEF old, cur
<1>2. /\ Sounds(one)
      /\ \A p \in Outputs, t \in Surfaces :
           /\ one[p][t].views = IF p = old /\ t = cur THEN surfaceViews[p][t].views \ {v}
                                ELSE surfaceViews[p][t].views
           /\ one[p][t].has_entered => surfaceViews[p][t].has_entered
  BY <1>0, RemovedView
<1> HIDE DEF one
<1>3. /\ Sounds(two)
      /\ \A p \in Outputs, t \in Surfaces :
           /\ two[p][t].views = IF p = old /\ t = s THEN one[p][t].views \cup {v}
                                ELSE one[p][t].views
           /\ two[p][t].has_entered => one[p][t].has_entered
  BY <1>0, <1>2, AddedView
<1> HIDE DEF two
<1>4. /\ Sounds(sv)
      /\ \A p \in Outputs, t \in Surfaces :
           /\ sv[p][t].views = {w \in Views : viewSurface'[w] = t /\ viewOutput[w] = p}
           /\ sv[p][t].has_entered => surfaceViews[p][t].has_entered
  <2>1. CASE s = cur
    <3>1. viewSurface' = viewSurface
      BY <1>1, <2>1 DEF cur
    <3> QED  BY <2>1, <3>1 DEF EntriesAgree
  <2>2. CASE s # cur
    <3>1. ASSUME NEW p \in Outputs, NEW t \in Surfaces
          PROVE  two[p][t].views = {w \in Views : viewSurface'[w] = t /\ viewOutput[w] = p}
      <4>1. surfaceViews[p][t].views = {w \in Views : viewSurface[w] = t /\ viewOutput[w] = p}
        BY DEF EntriesAgree
      <4>2. two[p][t].views =
              IF p = old /\ t = s THEN surfaceViews[p][t].views \cup {v}
              ELSE IF p = old /\ t = cur THEN surfaceViews[p][t].views \ {v}
              ELSE surfaceViews[p][t].views
        <5>1. one[p][t].views = IF p = old /\ t = cur THEN surfaceViews[p][t].views \ {v}
                                ELSE surfaceViews[p][t].views
          BY <1>2
        <5>2. two[p][t].views = IF p = old /\ t = s THEN one[p][t].views \cup {v}
                                ELSE one[p][t].views
          BY <1>3
        <5> QED  BY <5>1, <5>2, <2>2
      <4> QED  BY <1>1, <2>2, <4>1, <4>2 DEF old, cur
    <3>2. \A p \in Outputs, t \in Surfaces :
            two[p][t].has_entered => surfaceViews[p][t].has_entered
      BY <1>2, <1>3
    <3> QED  BY <2>2, <3>1, <3>2, <1>3
  <2> QED  BY <2>1, <2>2
<1> HIDE DEF sv
<1>5. /\ Sounds(four)
      /\ \A p \in Outputs, t \in Surfaces :
           /\ four[p][t].views = IF p = old /\ t = s THEN sv[p][t].views \ {v}
                                 ELSE sv[p][t].views
           /\ four[p][t].has_entered => sv[p][t].has_entered
  BY <1>0, <1>4, RemovedView
<1> HIDE DEF four
<1>6. /\ Sounds(five)
      /\ \A p \in Outputs, t \in Surfaces :
           /\ five[p][t].views = IF p = out /\ t = s THEN four[p][t].views \cup {v}
                                 ELSE four[p][t].views
           /\ five[p][t].has_entered => four[p][t].has_entered
  BY <1>5, AddedView
<1> HIDE DEF five
<1>7. CASE out = old
  <2>1. surfaceViews' = sv /\ viewOutput' = viewOutput
    BY <1>1, <1>7 DEF old
  <2> QED  BY <2>1, <1>4 DEF EntriesAgree
<1>8. CASE out # old
  <2>1. ASSUME NEW p \in Outputs, NEW t \in Surfaces
        PROVE  five[p][t].views = {w \in Views : viewSurface'[w] = t /\ viewOutput'[w] = p}
    <3>1. sv[p][t].views = {w \in Views : viewSurface'[w] = t /\ viewOutput[w] = p}
      BY <1>4
    <3>2. five[p][t].views =
            IF p = out /\ t = s THEN sv[p][t].views \cup {v}
            ELSE IF p = old /\ t = s THEN sv[p][t].views \ {v}
            ELSE sv[p][t].views
      <4>1. four[p][t].views = IF p = old /\ t = s THEN sv[p][t].views \ {v}
                               ELSE sv[p][t].views
        BY <1>5
      <4>2. five[p][t].views = IF p = out /\ t = s THEN four[p][t].views \cup {v}
                               ELSE four[p][t].views
        BY <1>6
      <4> QED  BY <4>1, <4>2, <1>8
    <3> QED  BY <1>1, <1>8, <3>1, <3>2 DEF old
  <2>2. surfaceViews' = five
    BY <1>1, <1>8
  <2>3. \A p \in Outputs, t \in Surfaces :
          five[p][t].has_entered => surfaceViews[p][t].has_entered
    BY <1>4, <1>5, <1>6
  <2> QED  BY <2>1, <2>2, <2>3, <1>6 DEF EntriesAgree
<1> QED  BY <1>7, <1>8

LEMMA BeliefFollows ==
  ASSUME entered \in [Surfaces -> SUBSET Outputs], Sounds(surfaceViews),
         entered' = StillEntered(surfaceViews'), Sounds(surfaceViews'),
         \A o \in Outputs, s \in Surfaces :
           surfaceViews'[o][s].has_entered => surfaceViews[o][s].has_entered
  PROVE  entered' \in [Surfaces -> SUBSET Outputs] /\ (Believed => Believed')
<1>1. \A s \in Surfaces : entered'[s] = entered[s] \ {o \in Outputs :
         surfaceViews[o][s].has_entered /\ ~surfaceViews'[o][s].has_entered}
  BY DEF StillEntered
<1>2. entered' \in [Surfaces -> SUBSET Outputs]
  BY DEF StillEntered
<1>3. ASSUME Believed, NEW o \in Outputs, NEW s \in Surfaces
      PROVE  o \in entered'[s] <=> surfaceViews'[o][s].has_entered
  <2>1. o \in entered[s] <=> surfaceViews[o][s].has_entered
    BY <1>3 DEF Believed
  <2> QED  BY <1>1, <2>1
<1> QED  BY <1>2, <1>3 DEF Believed

-----------------------------------------------------------------------------
(* The list of views of a surface *)

LEMMA ViewRemoved ==
  ASSUME NEW q \in Seq(Views), IsInjective(q), NEW v
  PROVE  LET w == Entries(q, {i \in DOMAIN q : q[i] # v}) IN
         w \in Seq(Views) /\ ToSet(w) = ToSet(q) \ {v} /\ IsInjective(w)
<1> DEFINE S == {i \in DOMAIN q : q[i] # v}
           w == Entries(q, S)
           m == Cardinality(S)
<1>1. S \in SUBSET DOMAIN q
  OBVIOUS
<1>2. m \in Nat /\ w \in Seq(Views) /\ DOMAIN w = 1..m /\ \E f : Enumerates(f, S, q)
  BY <1>1, Enumeration
<1>3. PICK f \in [1..m -> S] :
              /\ \A k \in 1..m : w[k] = q[f[k]]
              /\ \A k, l \in 1..m : k < l => f[k] < f[l]
              /\ \A i \in S : \E k \in 1..m : f[k] = i
  BY <1>2 DEF Enumerates
<1> HIDE DEF w, m
<1>4. ToSet(w) = ToSet(q) \ {v}
  <2>1. ASSUME NEW k \in 1..m
        PROVE  w[k] \in ToSet(q) \ {v}
    <3>1. f[k] \in DOMAIN q /\ q[f[k]] # v
      BY <1>3
    <3> QED
      BY <3>1, <1>3 DEF ToSet
  <2>2. ASSUME NEW i \in DOMAIN q, q[i] # v
        PROVE  \E k \in 1..m : w[k] = q[i]
    <3>1. i \in S
      BY <2>2
    <3> QED
      BY <3>1, <1>3
  <2>3. ToSet(w) = {w[k] : k \in 1..m} /\ ToSet(q) = {q[i] : i \in DOMAIN q}
    BY <1>2 DEF ToSet
  <2> HIDE DEF S
  <2>4. ToSet(w) \subseteq ToSet(q) \ {v}
    BY <2>1, <2>3
  <2>5. ASSUME NEW x \in ToSet(q) \ {v}
        PROVE  x \in ToSet(w)
    <3>1. PICK i \in DOMAIN q : x = q[i]
      BY <2>3
    <3>2. \E k \in 1..m : w[k] = x
      BY <3>1, <2>2
    <3> QED
      BY <3>2, <2>3
  <2> QED
    BY <2>4, <2>5
<1>5. ASSUME NEW k \in 1..m, NEW l \in 1..m, w[k] = w[l]
      PROVE  k = l
  <2>1. f[k] \in DOMAIN q /\ f[l] \in DOMAIN q /\ q[f[k]] = q[f[l]]
    BY <1>3, <1>5
  <2>2. f[k] = f[l] /\ f[k] \in Int
    BY <2>1 DEF IsInjective
  <2>3. ~(k < l) /\ ~(l < k)
    BY <2>2, <1>3
  <2> QED  BY <1>2, <2>3
<1>6. IsInjective(w)
  BY <1>2, <1>5 DEF IsInjective
<1> QED  BY <1>2, <1>4, <1>6 DEF w

LEMMA ViewAppended ==
  ASSUME NEW q \in Seq(Views), IsInjective(q), NEW v \in Views, v \notin ToSet(q)
  PROVE  LET w == Append(q, v) IN
         w \in Seq(Views) /\ ToSet(w) = ToSet(q) \cup {v} /\ IsInjective(w)
<1> DEFINE w == Append(q, v)
<1>1. /\ w \in Seq(Views) /\ DOMAIN w = DOMAIN q \cup {Len(q) + 1}
      /\ \A i \in DOMAIN q : w[i] = q[i]
      /\ w[Len(q) + 1] = v
  OBVIOUS
<1> HIDE DEF w
<1>2. \A i \in DOMAIN q : q[i] # v
  BY DEF ToSet
<1>3. ToSet(w) = ToSet(q) \cup {v}
  BY <1>1 DEF ToSet
<1>4. IsInjective(w)
  BY <1>1, <1>2 DEF IsInjective
<1> QED  BY <1>1, <1>3, <1>4 DEF w

LEMMA ViewPrepended ==
  ASSUME NEW q \in Seq(Views), IsInjective(q), NEW v \in Views, v \notin ToSet(q)
  PROVE  LET w == <<v>> \o q IN
         w \in Seq(Views) /\ ToSet(w) = ToSet(q) \cup {v} /\ IsInjective(w)
<1> DEFINE h == <<v>>
           w == h \o q
<1>0. /\ h \in Seq(Views) /\ Len(h) = 1 /\ DOMAIN h = {1} /\ h[1] = v
  OBVIOUS
<1> HIDE DEF h
<1>1. /\ w \in Seq(Views) /\ Len(w) = Len(h) + Len(q)
      /\ \A i \in 1..(Len(h) + Len(q)) :
           w[i] = IF i <= Len(h) THEN h[i] ELSE q[i - Len(h)]
  <2>1. h \in Seq(Views)
    BY <1>0
  <2> QED  BY <2>1, ConcatProperties
<1> HIDE DEF w
<1>2. Len(q) \in Nat /\ DOMAIN q = 1..Len(q) /\ DOMAIN w = 1..(1 + Len(q))
  BY <1>0, <1>1
<1>3. w[1] = v /\ \A i \in DOMAIN q : w[i + 1] = q[i]
  BY <1>0, <1>1, <1>2
<1>4. \A k \in DOMAIN w : k = 1 \/ (k - 1 \in DOMAIN q /\ w[k] = q[k - 1])
  BY <1>0, <1>1, <1>2
<1>5. \A i \in DOMAIN q : q[i] # v /\ i + 1 \in DOMAIN w
  BY <1>2 DEF ToSet
<1>6. ToSet(w) = ToSet(q) \cup {v}
  <2>1. 1 \in DOMAIN w
    BY <1>2
  <2> QED  BY <2>1, <1>3, <1>4, <1>5 DEF ToSet
<1>7. IsInjective(w)
  <2>1. ASSUME NEW k \in DOMAIN w, NEW l \in DOMAIN w, w[k] = w[l]
        PROVE  k = l
    <3>1. k \in Int /\ l \in Int
      BY <1>2
    <3>2. k # 1 /\ l # 1 => k - 1 = l - 1
      BY <2>1, <1>4 DEF IsInjective
    <3>3. k = 1 <=> l = 1
      BY <2>1, <1>3, <1>4, <1>5
    <3> QED  BY <3>1, <3>2, <3>3
  <2> QED  BY <2>1 DEF IsInjective
<1> QED  BY <1>1, <1>6, <1>7 DEF w, h

-----------------------------------------------------------------------------
(* Every step keeps the invariant *)

ViewTypes ==
  /\ viewSurface \in [Views -> alive \cup {None}]
  /\ viewOutput \in [Views -> Outputs \cup {None}]
  /\ surfaceViews \in [Outputs -> [Surfaces -> Entry]]
  /\ entered \in [Surfaces -> SUBSET Outputs]

\* What ShownInv says apart from the surfaces' lists of views.
EntriesInv ==
  /\ ViewTypes /\ EntriesAgree
  /\ \A o \in Outputs, s \in Surfaces :
       surfaceViews[o][s].has_entered => surfaceViews[o][s].views # {}
  /\ BindsFirst => Believed

LEMMA EntriesInvSounds ==
  /\ EntriesInv => Sounds(surfaceViews)
  /\ EntriesInv' => Sounds(surfaceViews)'
<1>1. ASSUME NEW sv \in [Outputs -> [Surfaces -> Entry]],
             \A o \in Outputs, s \in Surfaces : sv[o][s].has_entered => sv[o][s].views # {}
      PROVE  Sounds(sv)
  BY <1>1 DEF Sounds, Types, Sound
<1> QED  BY <1>1 DEF EntriesInv, ViewTypes, Sounds, Types, Sound

LEMMA SoundsEntriesInv ==
  ASSUME EntriesInv, viewSurface' \in [Views -> alive' \cup {None}],
         viewOutput' \in [Views -> Outputs \cup {None}], EntriesAgree',
         Sounds(surfaceViews'), entered' = StillEntered(surfaceViews'),
         \A o \in Outputs, s \in Surfaces :
           surfaceViews'[o][s].has_entered => surfaceViews[o][s].has_entered
  PROVE  EntriesInv'
<1>1. entered' \in [Surfaces -> SUBSET Outputs] /\ (Believed => Believed')
  BY BeliefFollows, EntriesInvSounds DEF EntriesInv, ViewTypes
<1>2. surfaceViews' \in [Outputs -> [Surfaces -> Entry]]
  BY DEF Sounds, Types
<1>3. \A o \in Outputs, s \in Surfaces :
        surfaceViews'[o][s].has_entered => surfaceViews'[o][s].views # {}
  BY DEF Sounds, Sound
<1> QED  BY <1>1, <1>2, <1>3 DEF EntriesInv, ViewTypes

LEMMA ShowEntries ==
  ASSUME EntriesInv, alive \subseteq Surfaces, alive' = alive,
         NEW v \in Views, NEW s \in alive \cup {None},
         NEW out \in Outputs \cup {None}, Show(v, s, out)
  PROVE  EntriesInv'
<1>1. /\ Sounds(surfaceViews) /\ viewSurface \in [Views -> Surfaces \cup {None}]
      /\ viewOutput \in [Views -> Outputs \cup {None}] /\ EntriesAgree
  BY EntriesInvSounds DEF EntriesInv, ViewTypes
<1>2. s \in Surfaces \cup {None}
  OBVIOUS
<1>3. /\ Sounds(surfaceViews') /\ EntriesAgree'
      /\ \A p \in Outputs, t \in Surfaces :
           surfaceViews'[p][t].has_entered => surfaceViews[p][t].has_entered
  BY <1>1, <1>2, ShowAgrees
<1>4. /\ viewSurface' = [viewSurface EXCEPT ![v] = s]
      /\ viewOutput' = [viewOutput EXCEPT ![v] = out]
      /\ entered' = StillEntered(surfaceViews')
  BY DEF Show
<1>5. /\ viewSurface' \in [Views -> alive' \cup {None}]
      /\ viewOutput' \in [Views -> Outputs \cup {None}]
  BY <1>4 DEF EntriesInv, ViewTypes
<1> QED  BY <1>3, <1>4, <1>5, SoundsEntriesInv

\* A view is in the list of the surface it shows, wherever it is put there.
LEMMA ListsMove ==
  ASSUME ListsAgree, views \in [Surfaces -> Seq(Views)],
         viewSurface \in [Views -> Surfaces \cup {None}],
         NEW v \in Views, NEW s \in Surfaces \cup {None},
         viewSurface' = [viewSurface EXCEPT ![v] = s],
         \/ s = None /\ views' = ViewsWithout(v)
         \/ s # None /\ views' = [ViewsWithout(v) EXCEPT ![s] = Append(@, v)]
         \/ s # None /\ views' = [ViewsWithout(v) EXCEPT ![s] = <<v>> \o @]
  PROVE  ListsAgree' /\ views' \in [Surfaces -> Seq(Views)]
<1> DEFINE w(t) == ViewsWithout(v)[t]
<1>1. ASSUME NEW t \in Surfaces
      PROVE  w(t) \in Seq(Views) /\ ToSet(w(t)) = ToSet(views[t]) \ {v} /\ IsInjective(w(t))
  <2>1. views[t] \in Seq(Views) /\ IsInjective(views[t])
    BY DEF ListsAgree
  <2> QED  BY <2>1, ViewRemoved DEF ViewsWithout
<1>2. DOMAIN ViewsWithout(v) = Surfaces
  BY DEF ViewsWithout
<1>3. ASSUME NEW t \in Surfaces
      PROVE  /\ views'[t] \in Seq(Views) /\ IsInjective(views'[t])
             /\ ToSet(views'[t]) = IF t = s THEN ToSet(views[t]) \cup {v}
                                   ELSE ToSet(views[t]) \ {v}
  <2> DEFINE q == w(t)
  <2>1. q \in Seq(Views) /\ ToSet(q) = ToSet(views[t]) \ {v} /\ IsInjective(q)
    BY <1>1
  <2>2. views'[t] = q \/ (t = s /\ views'[t] \in {Append(q, v), <<v>> \o q})
    BY <1>2
  <2>3. t # s => views'[t] = q
    BY <1>2
  <2>4. t = s => views'[t] \in {Append(q, v), <<v>> \o q}
    BY <1>2, NoneAssumption
  <2> HIDE DEF q
  <2>5. CASE t # s
    BY <2>1, <2>3, <2>5
  <2>6. CASE t = s
    <3>1. v \notin ToSet(q)
      BY <2>1
    <3> DEFINE e1 == Append(q, v)
               e2 == <<v>> \o q
    <3>2. e1 \in Seq(Views) /\ ToSet(e1) = ToSet(q) \cup {v} /\ IsInjective(e1)
      BY <2>1, <3>1, ViewAppended, Zenon
    <3>3. e2 \in Seq(Views) /\ ToSet(e2) = ToSet(q) \cup {v} /\ IsInjective(e2)
      BY <2>1, <3>1, ViewPrepended, Zenon
    <3>4. views'[t] \in {e1, e2}
      BY <2>4, <2>6
    <3>5. ToSet(q) \cup {v} = ToSet(views[t]) \cup {v}
      BY <2>1
    <3> HIDE DEF e1, e2
    <3> QED  BY <2>6, <3>2, <3>3, <3>4, <3>5
  <2> QED  BY <2>5, <2>6
<1>4. ASSUME NEW t \in Surfaces
      PROVE  ToSet(views'[t]) = {u \in Views : viewSurface'[u] = t}
  <2>1. ToSet(views[t]) = {u \in Views : viewSurface[u] = t}
    BY DEF ListsAgree
  <2>2. ToSet(views'[t]) = IF t = s THEN ToSet(views[t]) \cup {v} ELSE ToSet(views[t]) \ {v}
    BY <1>3
  <2>3. \A u \in Views : viewSurface'[u] = IF u = v THEN s ELSE viewSurface[u]
    OBVIOUS
  <2> QED  BY <2>1, <2>2, <2>3
<1>5. views' \in [Surfaces -> Seq(Views)]
  <2>1. DOMAIN views' = Surfaces /\ views' = [t \in DOMAIN views' |-> views'[t]]
    <3>1. CASE views' = ViewsWithout(v)
      BY <3>1 DEF ViewsWithout
    <3>2. CASE views' = [ViewsWithout(v) EXCEPT ![s] = Append(@, v)]
      BY <1>2, <3>2
    <3>3. CASE views' = [ViewsWithout(v) EXCEPT ![s] = <<v>> \o @]
      BY <1>2, <3>3
    <3> QED  BY <3>1, <3>2, <3>3
  <2>2. \A t \in Surfaces : views'[t] \in Seq(Views)
    BY <1>3
  <2> QED  BY <2>1, <2>2
<1> QED  BY <1>3, <1>4, <1>5 DEF ListsAgree

\* The invariant in the parts that a step touches.
ListsInv == ListsAgree /\ views \in [Surfaces -> Seq(Views)]

OtherTypes ==
  /\ alive \subseteq Surfaces /\ mapped \subseteq alive
  /\ window \in [Views -> Outputs \cup {None}]
  /\ bound \in SUBSET Outputs /\ scheduled \in SUBSET Outputs
  /\ queued \in [Outputs -> 0..MaxQueued]

CallbackTypes ==
  /\ frames \in 0..MaxCallbacks
  /\ {pendingFrameCallbacks, done} \subseteq [Surfaces -> Seq(1..MaxCallbacks)]
  /\ frameCallbacks \in [Surfaces -> Seq(Callbacks)]

BoundFirst == BindsFirst => (alive # {} => bound = Outputs)

LEMMA Parts ==
  /\ Inv <=> /\ ListsInv /\ EntriesInv /\ OtherTypes /\ CallbackTypes
             /\ CallbacksInv /\ BoundFirst
  /\ Inv' <=> /\ ListsInv' /\ EntriesInv' /\ OtherTypes' /\ CallbackTypes'
              /\ CallbacksInv' /\ BoundFirst'
  BY DEF Inv, ListsInv, EntriesInv, OtherTypes, CallbackTypes, BoundFirst,
         TypeOK, ShownInv, ViewTypes, Entry

\* Callbacks that are not touched.
LEMMA CallbacksStay ==
  ASSUME CallbackTypes, CallbacksInv, UNCHANGED callbackVars
  PROVE  CallbackTypes' /\ CallbacksInv'
  BY DEF CallbackTypes, CallbacksInv, callbackVars, InOrder, MarkedFirst

LEMMA EntriesStay ==
  ASSUME EntriesInv, alive \subseteq alive',
         UNCHANGED <<viewSurface, viewOutput, surfaceViews, entered>>
  PROVE  EntriesInv'
<1>1. ViewTypes'
  BY DEF ViewTypes, EntriesInv
<1> QED  BY <1>1 DEF EntriesInv, EntriesAgree, Believed

LEMMA ListsStay ==
  ASSUME ListsInv, UNCHANGED <<views, viewSurface>>
  PROVE  ListsInv'
  BY DEF ListsInv, ListsAgree

LEMMA SceneKeepsInv ==
  ASSUME Inv, SceneNext
  PROVE  Inv'
<1>1. /\ ListsInv /\ EntriesInv /\ OtherTypes /\ CallbackTypes /\ CallbacksInv
      /\ BoundFirst
  BY Parts
<1>2. /\ alive \subseteq Surfaces /\ views \in [Surfaces -> Seq(Views)] /\ ListsAgree
      /\ viewSurface \in [Views -> Surfaces \cup {None}]
      /\ viewSurface \in [Views -> alive \cup {None}]
      /\ viewOutput \in [Views -> Outputs \cup {None}]
      /\ window \in [Views -> Outputs \cup {None}]
  BY <1>1 DEF OtherTypes, ListsInv, EntriesInv, ViewTypes
<1>3. ASSUME NEW v \in Views, NEW s \in Surfaces \cup {None}, SetSurface(v, s)
      PROVE  Inv'
  <2>1. /\ s \in alive \cup {None} /\ Show(v, s, OutputWith(v, s))
        /\ views' = (IF s = None THEN ViewsWithout(v)
                     ELSE [ViewsWithout(v) EXCEPT ![s] = Append(@, v)])
        /\ scheduled' = scheduled \cup ({window[v]} \ {None})
        /\ UNCHANGED <<alive, mapped, window, bound, callbackVars, queued>>
    BY <1>3 DEF SetSurface
  <2>2. OutputWith(v, s) \in Outputs \cup {None}
    BY <1>2 DEF OutputWith
  <2>3. EntriesInv'
    BY <1>1, <1>2, <2>1, <2>2, ShowEntries
  <2>4. viewSurface' = [viewSurface EXCEPT ![v] = s]
    BY <2>1 DEF Show
  <2>5. ListsInv'
    BY <1>2, <2>1, <2>4, ListsMove DEF ListsInv
  <2>6. OtherTypes' /\ BoundFirst'
    BY <1>1, <2>1 DEF OtherTypes, BoundFirst
  <2> QED  BY <1>1, <2>1, <2>3, <2>5, <2>6, CallbacksStay, Parts
<1>4. ASSUME NEW v \in Views, NEW o \in Outputs \cup {None}, SetWindow(v, o)
      PROVE  Inv'
  <2>1. /\ window' = [window EXCEPT ![v] = o]
        /\ scheduled' = scheduled \cup ({o} \ {None})
        /\ UNCHANGED <<alive, mapped, views, bound, callbackVars, queued>>
    BY <1>4 DEF SetWindow, surfaceVars
  <2>2. OtherTypes' /\ BoundFirst'
    BY <1>1, <2>1 DEF OtherTypes, BoundFirst
  <2>3. EntriesInv' /\ ListsInv'
    <3>1. CASE UNCHANGED <<viewSurface, viewOutput, surfaceViews, entered>>
      BY <3>1, <1>1, <2>1, EntriesStay, ListsStay
    <3>2. CASE None \notin {o, viewSurface[v]} /\ Show(v, viewSurface[v], o)
      <4>1. viewSurface[v] \in alive \cup {None}
        BY <1>2
      <4>2. EntriesInv'
        BY <1>1, <1>2, <2>1, <3>2, <4>1, ShowEntries
      <4>3. viewSurface' = viewSurface
        BY <3>2, <1>2 DEF Show
      <4> QED  BY <4>2, <4>3, <2>1, <1>1, ListsStay
    <3> QED  BY <1>4, <3>1, <3>2 DEF SetWindow
  <2> QED  BY <1>1, <2>1, <2>2, <2>3, CallbacksStay, Parts
<1>5. ASSUME NEW s \in Surfaces, NEW v \in Views, SetThrottlingView(s, v)
      PROVE  Inv'
  <2>1. /\ s \in alive /\ views' = [ViewsWithout(v) EXCEPT ![s] = <<v>> \o @]
        /\ UNCHANGED <<alive, mapped, window, bound, callbackVars, scheduled, queued>>
    BY <1>5 DEF SetThrottlingView
  <2>2. OtherTypes' /\ BoundFirst'
    BY <1>1, <2>1 DEF OtherTypes, BoundFirst
  <2>3. EntriesInv' /\ viewSurface' = [viewSurface EXCEPT ![v] = s]
    <3>1. CASE /\ viewSurface[v] = s
               /\ UNCHANGED <<viewSurface, viewOutput, surfaceViews, entered>>
      BY <3>1, <1>1, <1>2, <2>1, EntriesStay
    <3>2. CASE Show(v, s, OutputWith(v, s))
      <4>1. OutputWith(v, s) \in Outputs \cup {None}
        BY <1>2 DEF OutputWith
      <4>2. EntriesInv'
        BY <1>1, <1>2, <2>1, <3>2, <4>1, ShowEntries
      <4> QED  BY <4>2, <3>2 DEF Show
    <3> QED  BY <1>5, <3>1, <3>2 DEF SetThrottlingView
  <2>4. s # None
    BY NoneAssumption
  <2>5. ListsInv'
    BY <1>2, <2>1, <2>3, <2>4, ListsMove DEF ListsInv
  <2> QED  BY <1>1, <2>1, <2>2, <2>3, <2>5, CallbacksStay, Parts
<1>6. ASSUME NEW v \in Views, DestroyView(v)
      PROVE  Inv'
  <2>1. /\ surfaceViews' = RemoveView(surfaceViews, viewOutput[v], v, viewSurface[v])
        /\ entered' = StillEntered(surfaceViews')
        /\ views' = ViewsWithout(v)
        /\ viewSurface' = [viewSurface EXCEPT ![v] = None]
        /\ viewOutput' = [viewOutput EXCEPT ![v] = None]
        /\ window' = [window EXCEPT ![v] = None]
        /\ UNCHANGED <<alive, mapped, bound, callbackVars, scheduled, queued>>
    BY <1>6 DEF DestroyView
  <2>2. OtherTypes' /\ BoundFirst'
    BY <1>1, <2>1 DEF OtherTypes, BoundFirst
  <2>3. ListsInv'
    BY <1>2, <2>1, ListsMove DEF ListsInv
  <2>4. /\ Sounds(surfaceViews')
        /\ \A p \in Outputs, t \in Surfaces :
             /\ surfaceViews'[p][t].views =
                  IF p = viewOutput[v] /\ t = viewSurface[v]
                  THEN surfaceViews[p][t].views \ {v} ELSE surfaceViews[p][t].views
             /\ surfaceViews'[p][t].has_entered => surfaceViews[p][t].has_entered
    <3>1. /\ viewOutput[v] \in Outputs \cup {None}
          /\ viewSurface[v] \in Surfaces \cup {None} /\ Sounds(surfaceViews)
      BY <1>1, <1>2, EntriesInvSounds
    <3> DEFINE o == viewOutput[v]
               s == viewSurface[v]
               sv == RemoveView(surfaceViews, o, v, s)
    <3> HIDE DEF o, s
    <3>2. o \in Outputs \cup {None} /\ s \in Surfaces \cup {None}
      BY <3>1 DEF o, s
    <3>3. /\ Sounds(sv)
          /\ \A p \in Outputs, t \in Surfaces :
               /\ sv[p][t].views = IF p = o /\ t = s THEN surfaceViews[p][t].views \ {v}
                                   ELSE surfaceViews[p][t].views
               /\ sv[p][t].has_entered => surfaceViews[p][t].has_entered
      BY <3>1, <3>2, RemovedView
    <3>4. surfaceViews' = sv
      BY <2>1 DEF o, s
    <3> HIDE DEF sv
    <3> QED  BY <3>3, <3>4 DEF o, s
  <2>5. EntriesAgree'
    <3>1. ASSUME NEW p \in Outputs, NEW t \in Surfaces
          PROVE  surfaceViews'[p][t].views =
                   {w \in Views : viewSurface'[w] = t /\ viewOutput'[w] = p}
      <4>1. surfaceViews[p][t].views =
              {w \in Views : viewSurface[w] = t /\ viewOutput[w] = p}
        BY <1>1 DEF EntriesInv, EntriesAgree
      <4>2. \A w \in Views : /\ viewSurface'[w] = IF w = v THEN None ELSE viewSurface[w]
                             /\ viewOutput'[w] = IF w = v THEN None ELSE viewOutput[w]
        BY <1>2, <2>1
      <4>3. t # None /\ p # None
        BY NoneAssumption
      <4>4. surfaceViews'[p][t].views = surfaceViews[p][t].views \ {v}
        <5>1. surfaceViews'[p][t].views =
                IF p = viewOutput[v] /\ t = viewSurface[v]
                THEN surfaceViews[p][t].views \ {v} ELSE surfaceViews[p][t].views
          BY <2>4
        <5> QED  BY <4>1, <5>1
      <4> QED  BY <4>1, <4>2, <4>3, <4>4
    <3> QED  BY <3>1 DEF EntriesAgree
  <2>6. /\ viewSurface' \in [Views -> alive' \cup {None}]
        /\ viewOutput' \in [Views -> Outputs \cup {None}]
    BY <1>2, <2>1
  <2>7. EntriesInv'
    BY <1>1, <2>1, <2>4, <2>5, <2>6, SoundsEntriesInv
  <2> QED  BY <1>1, <2>1, <2>2, <2>3, <2>7, CallbacksStay, Parts
<1> QED  BY <1>3, <1>4, <1>5, <1>6 DEF SceneNext

\* A surface that goes leaves every output; all of its views are in its list.
LEMMA DestroyEntries ==
  ASSUME EntriesInv, ListsInv, alive \subseteq Surfaces,
         NEW s \in Surfaces, DestroySurface(s)
  PROVE  EntriesInv'
<1> DEFINE gone(o) == {v \in ToSet(views[s]) : viewOutput[v] = o}
           entry(o) == EntryWithout(surfaceViews[o][s], gone(o))
<1>1. /\ alive' = alive \ {s} /\ viewOutput' = viewOutput
      /\ viewSurface' = [v \in Views |-> IF viewSurface[v] = s THEN None ELSE viewSurface[v]]
      /\ surfaceViews' = [o \in Outputs |-> [surfaceViews[o] EXCEPT ![s] = entry(o)]]
      /\ entered' = StillEntered(surfaceViews')
  BY DEF DestroySurface
<1>2. Sounds(surfaceViews) /\ EntriesAgree /\ ViewTypes
  BY EntriesInvSounds DEF EntriesInv
<1>3. ASSUME NEW o \in Outputs
      PROVE  /\ Sound(entry(o)) /\ entry(o).views = {}
             /\ entry(o).has_entered => surfaceViews[o][s].has_entered
  <2>1. ToSet(views[s]) = {v \in Views : viewSurface[v] = s}
    BY DEF ListsInv, ListsAgree
  <2>2. gone(o) = surfaceViews[o][s].views
    BY <2>1, <1>2 DEF EntriesAgree
  <2>3. Sound(surfaceViews[o][s])
    BY <1>2 DEF Sounds
  <2> HIDE DEF gone
  <2> QED  BY <2>2, <2>3, EntryLosesViews
<1> HIDE DEF entry
<1>4. ASSUME NEW o \in Outputs, NEW t \in Surfaces
      PROVE  /\ Sound(surfaceViews'[o][t])
             /\ surfaceViews'[o][t].views = IF t = s THEN {} ELSE surfaceViews[o][t].views
             /\ surfaceViews'[o][t].has_entered => surfaceViews[o][t].has_entered
  <2>1. surfaceViews'[o][t] = IF t = s THEN entry(o) ELSE surfaceViews[o][t]
    BY <1>1, <1>2 DEF ViewTypes
  <2> QED  BY <2>1, <1>2, <1>3 DEF Sounds
<1>5. Sounds(surfaceViews')
  <2>1. \A o \in Outputs : surfaceViews'[o] \in [Surfaces -> Entry]
    <3>1. ASSUME NEW o \in Outputs PROVE surfaceViews'[o] \in [Surfaces -> Entry]
      <4>1. surfaceViews'[o] = [surfaceViews[o] EXCEPT ![s] = entry(o)]
        BY <1>1
      <4>2. surfaceViews[o] \in [Surfaces -> Entry] /\ entry(o) \in Entry
        BY <1>2, <1>3 DEF ViewTypes, Sound
      <4> QED  BY <4>1, <4>2
    <3> QED  BY <3>1
  <2>2. DOMAIN surfaceViews' = Outputs /\ surfaceViews' = [o \in DOMAIN surfaceViews' |-> surfaceViews'[o]]
    BY <1>1
  <2>3. surfaceViews' \in [Outputs -> [Surfaces -> Entry]]
    BY <2>1, <2>2
  <2> QED  BY <2>3, <1>4 DEF Sounds, Types
<1>6. EntriesAgree'
  <2>1. ASSUME NEW o \in Outputs, NEW t \in Surfaces
        PROVE  surfaceViews'[o][t].views =
                 {w \in Views : viewSurface'[w] = t /\ viewOutput'[w] = o}
    <3>1. surfaceViews[o][t].views = {w \in Views : viewSurface[w] = t /\ viewOutput[w] = o}
      BY <1>2 DEF EntriesAgree
    <3>2. \A w \in Views : viewSurface'[w] = IF viewSurface[w] = s THEN None ELSE viewSurface[w]
      BY <1>1
    <3>3. t # None
      BY NoneAssumption
    <3>4. surfaceViews'[o][t].views = IF t = s THEN {} ELSE surfaceViews[o][t].views
      BY <1>4
    <3> QED  BY <1>1, <3>1, <3>2, <3>3, <3>4
  <2> QED  BY <2>1 DEF EntriesAgree
<1>7. /\ viewSurface' \in [Views -> alive' \cup {None}]
      /\ viewOutput' \in [Views -> Outputs \cup {None}]
  BY <1>1, <1>2 DEF ViewTypes
<1> QED  BY <1>1, <1>4, <1>5, <1>6, <1>7, SoundsEntriesInv

LEMMA DestroyLists ==
  ASSUME ListsInv, NEW s \in Surfaces, viewSurface \in [Views -> Surfaces \cup {None}],
         viewSurface' = [v \in Views |-> IF viewSurface[v] = s THEN None ELSE viewSurface[v]],
         views' = [views EXCEPT ![s] = <<>>]
  PROVE  ListsInv'
<1>1. ASSUME NEW t \in Surfaces
      PROVE  /\ ToSet(views'[t]) = {v \in Views : viewSurface'[v] = t}
             /\ IsInjective(views'[t])
  <2>1. ToSet(views[t]) = {v \in Views : viewSurface[v] = t} /\ IsInjective(views[t])
    BY DEF ListsInv, ListsAgree
  <2>2. t # None
    BY NoneAssumption
  <2>3. CASE t = s
    <3>1. views'[t] = <<>>
      BY <2>3 DEF ListsInv
    <3>2. ToSet(<<>>) = {} /\ IsInjective(<<>>)
      BY DEF ToSet, IsInjective
    <3> QED  BY <3>1, <3>2, <2>2, <2>3
  <2>4. CASE t # s
    <3>1. views'[t] = views[t]
      BY <2>4 DEF ListsInv
    <3> QED  BY <3>1, <2>1, <2>2, <2>4
  <2> QED  BY <2>3, <2>4
<1>2. views' \in [Surfaces -> Seq(Views)]
  BY DEF ListsInv
<1> QED  BY <1>1, <1>2 DEF ListsInv, ListsAgree

LEMMA ClientKeepsInv ==
  ASSUME Inv, ClientNext
  PROVE  Inv'
<1>1. /\ ListsInv /\ EntriesInv /\ OtherTypes /\ CallbackTypes /\ CallbacksInv
      /\ BoundFirst /\ TypeOK
  BY Parts DEF Inv
<1>2. alive \subseteq Surfaces /\ viewSurface \in [Views -> Surfaces \cup {None}]
      /\ frames \in 0..MaxCallbacks
  BY <1>1 DEF TypeOK
<1>3. ASSUME NEW s \in Surfaces, CreateSurface(s)
      PROVE  Inv'
  <2>1. /\ BindsFirst => bound = Outputs
        /\ alive' = alive \cup {s} /\ done' = [done EXCEPT ![s] = <<>>]
        /\ UNCHANGED <<mapped, views, viewVars, surfaceViews, bound, entered,
                       pendingFrameCallbacks, frameCallbacks, frames, scheduled, queued>>
    BY <1>3 DEF CreateSurface
  <2>2. OtherTypes' /\ BoundFirst'
    BY <1>1, <2>1 DEF OtherTypes, BoundFirst, viewVars
  <2>3. EntriesInv' /\ ListsInv'
    BY <1>1, <2>1, EntriesStay, ListsStay DEF viewVars
  <2>4. done' \in [Surfaces -> Seq(1..MaxCallbacks)]
    BY <1>1, <2>1 DEF CallbackTypes
  <2>5. CallbackTypes'
    BY <1>1, <2>1, <2>4 DEF CallbackTypes
  <2>6. CallbacksInv'
    <3>1. ASSUME NEW t \in Surfaces
          PROVE  InOrder(t)' /\ MarkedFirst(t)'
      <4>1. InOrder(t) /\ MarkedFirst(t)
        BY <1>1 DEF CallbacksInv
      <4>2. done'[t] = IF t = s THEN <<>> ELSE done[t]
        BY <1>1, <2>1 DEF TypeOK
      <4>3. MarkedFirst(t)'
        BY <2>1, <4>1 DEF MarkedFirst
      <4>4. CASE t = s
        BY <2>1, <4>1, <4>2, <4>3, <4>4, NothingToSend DEF InOrder
      <4>5. CASE t # s
        BY <2>1, <4>1, <4>2, <4>3, <4>5 DEF InOrder
      <4> QED  BY <4>4, <4>5
    <3> QED  BY <3>1 DEF CallbacksInv
  <2> QED  BY <2>2, <2>3, <2>5, <2>6, Parts
<1>4. ASSUME NEW s \in Surfaces, DestroySurface(s)
      PROVE  Inv'
  <2>1. /\ alive' = alive \ {s} /\ mapped' = mapped \ {s}
        /\ views' = [views EXCEPT ![s] = <<>>]
        /\ viewSurface' = [v \in Views |-> IF viewSurface[v] = s THEN None ELSE viewSurface[v]]
        /\ pendingFrameCallbacks' = [pendingFrameCallbacks EXCEPT ![s] = <<>>]
        /\ frameCallbacks' = [frameCallbacks EXCEPT ![s] = <<>>]
        /\ UNCHANGED <<viewOutput, window, bound, frames, done, scheduled, queued>>
    BY <1>4 DEF DestroySurface
  <2>2. OtherTypes' /\ BoundFirst'
    BY <1>1, <2>1 DEF OtherTypes, BoundFirst
  <2>3. EntriesInv' /\ ListsInv'
    BY <1>1, <1>2, <1>4, <2>1, DestroyEntries, DestroyLists
  <2>4. CallbackTypes'
    <3>1. /\ pendingFrameCallbacks' \in [Surfaces -> Seq(1..MaxCallbacks)]
          /\ frameCallbacks' \in [Surfaces -> Seq(Callbacks)]
      BY <1>1, <2>1 DEF CallbackTypes
    <3> QED  BY <3>1, <1>1, <2>1 DEF CallbackTypes
  <2>5. CallbacksInv'
    <3>1. ASSUME NEW t \in Surfaces
          PROVE  InOrder(t)' /\ MarkedFirst(t)'
      <4>1. InOrder(t) /\ MarkedFirst(t)
        BY <1>1 DEF CallbacksInv
      <4>2. CASE t = s
        <5>1. /\ pendingFrameCallbacks'[t] = <<>> /\ frameCallbacks'[t] = <<>>
              /\ done' = done /\ frames' = frames
          BY <1>1, <2>1, <4>2 DEF TypeOK
        <5>2. InOrder(t)'
          BY <5>1, <4>1, NothingToSend DEF InOrder
        <5> QED  BY <5>1, <5>2 DEF MarkedFirst
      <4>3. CASE t # s
        <5>1. /\ pendingFrameCallbacks'[t] = pendingFrameCallbacks[t]
              /\ frameCallbacks'[t] = frameCallbacks[t]
          BY <1>1, <2>1, <4>3 DEF TypeOK
        <5> QED  BY <5>1, <1>1, <2>1, OrderOfOthers
      <4> QED  BY <4>2, <4>3
    <3> QED  BY <3>1 DEF CallbacksInv
  <2> QED  BY <2>2, <2>3, <2>4, <2>5, Parts
<1>5. ASSUME NEW s \in Surfaces, Frame(s)
      PROVE  Inv'
  <2>1. UNCHANGED <<surfaceVars, viewVars, surfaceViews, bound, entered,
                    frameCallbacks, done, scheduled, queued>>
    BY <1>5 DEF Frame
  <2>2. OtherTypes' /\ BoundFirst' /\ EntriesInv' /\ ListsInv'
    BY <1>1, <2>1, EntriesStay, ListsStay
       DEF OtherTypes, BoundFirst, surfaceVars, viewVars
  <2>3. CallbackTypes' /\ CallbacksInv'
    BY <1>1, <1>5, <2>1, FrameOrder DEF CallbackTypes
  <2> QED  BY <2>2, <2>3, Parts
<1>6. ASSUME NEW s \in Surfaces, NEW content \in BOOLEAN, Commit(s, content)
      PROVE  Inv'
  <2>1. /\ s \in alive
        /\ mapped' = (IF content THEN mapped \cup {s} ELSE mapped \ {s})
        /\ scheduled' = scheduled \cup ({window[v] : v \in ToSet(views[s])} \ {None})
        /\ frameCallbacks' = [frameCallbacks EXCEPT ![s] = Committed(s)]
        /\ pendingFrameCallbacks' = [pendingFrameCallbacks EXCEPT ![s] = <<>>]
        /\ UNCHANGED <<alive, views, viewVars, surfaceViews, bound, entered, frames,
                       done, queued>>
    BY <1>6 DEF Commit
  <2>2. EntriesInv' /\ ListsInv'
    BY <1>1, <2>1, EntriesStay, ListsStay DEF viewVars
  <2>3. OtherTypes' /\ BoundFirst'
    <3>1. {window[v] : v \in ToSet(views[s])} \ {None} \subseteq Outputs
      <4>1. ToSet(views[s]) \subseteq Views
        BY <1>1 DEF ListsInv, ListsAgree
      <4> QED  BY <4>1, <1>1 DEF OtherTypes
    <3> QED  BY <3>1, <1>1, <2>1 DEF OtherTypes, BoundFirst, viewVars
  <2>4. CallbacksInv' /\ frameCallbacks' \in [Surfaces -> Seq(Callbacks)]
    BY <1>1, <2>1, CommitOrder
  <2>5. pendingFrameCallbacks' \in [Surfaces -> Seq(1..MaxCallbacks)]
    BY <1>1, <2>1 DEF CallbackTypes
  <2>6. CallbackTypes'
    BY <1>1, <2>1, <2>4, <2>5 DEF CallbackTypes
  <2> QED  BY <2>2, <2>3, <2>4, <2>6, Parts
<1>7. ASSUME NEW o \in Outputs, BindOutput(o)
      PROVE  Inv'
  <2>1. /\ bound' = bound \cup {o}
        /\ UNCHANGED <<surfaceVars, viewVars, surfaceViews, entered, callbackVars,
                       scheduled, queued>>
    BY <1>7 DEF BindOutput
  <2>2. OtherTypes' /\ BoundFirst' /\ EntriesInv' /\ ListsInv'
    BY <1>1, <2>1, EntriesStay, ListsStay
       DEF OtherTypes, BoundFirst, surfaceVars, viewVars
  <2> QED  BY <1>1, <2>1, <2>2, CallbacksStay, Parts
<1> QED  BY <1>3, <1>4, <1>5, <1>6, <1>7 DEF ClientNext, Inv

\* Sending callbacks enters the surfaces that are shown and mapped.
LEMMA SendEntries ==
  ASSUME EntriesInv, BoundFirst, mapped \subseteq alive, alive \subseteq Surfaces,
         NEW o \in Outputs, SendFrameCallbacks(o)
  PROVE  EntriesInv'
<1> DEFINE shown == ShownMapped(o)
           entry(s) == IF s \in shown THEN [surfaceViews[o][s] EXCEPT !.has_entered = TRUE]
                       ELSE surfaceViews[o][s]
<1>1. /\ surfaceViews' = [surfaceViews EXCEPT ![o] = [s \in Surfaces |-> entry(s)]]
      /\ entered' = [s \in Surfaces |->
           entered[s] \cup (IF /\ s \in shown /\ o \in bound
                               /\ ~surfaceViews[o][s].has_entered THEN {o} ELSE {})]
      /\ UNCHANGED <<alive, viewSurface, viewOutput, bound>>
  BY DEF SendFrameCallbacks, surfaceVars, viewVars
<1>2. /\ ViewTypes /\ EntriesAgree /\ (BindsFirst => Believed)
      /\ \A p \in Outputs, s \in Surfaces :
           surfaceViews[p][s].has_entered => surfaceViews[p][s].views # {}
  BY DEF EntriesInv
<1>3. ASSUME NEW s \in Surfaces
      PROVE  /\ entry(s) \in Entry /\ entry(s).views = surfaceViews[o][s].views
             /\ entry(s).has_entered <=> s \in shown \/ surfaceViews[o][s].has_entered
  <2>1. surfaceViews[o][s] \in Entry
    BY <1>2 DEF ViewTypes
  <2> HIDE DEF shown
  <2> QED  BY <2>1 DEF Entry
<1>4. \A s \in shown : s \in mapped /\ surfaceViews[o][s].views # {}
  BY DEF ShownMapped
<1> HIDE DEF entry, shown
<1>5. ASSUME NEW p \in Outputs, NEW s \in Surfaces
      PROVE  surfaceViews'[p][s] = IF p = o THEN entry(s) ELSE surfaceViews[p][s]
  BY <1>1, <1>2 DEF ViewTypes
<1>6. surfaceViews' \in [Outputs -> [Surfaces -> Entry]]
  <2>1. [s \in Surfaces |-> entry(s)] \in [Surfaces -> Entry]
    BY <1>3
  <2> QED  BY <1>1, <1>2, <2>1 DEF ViewTypes
<1>7. entered' \in [Surfaces -> SUBSET Outputs]
  <2>1. \A s \in Surfaces : entered'[s] \subseteq entered[s] \cup {o}
    BY <1>1
  <2>2. \A s \in Surfaces : entered[s] \subseteq Outputs
    BY <1>2 DEF ViewTypes
  <2> QED  BY <1>1, <2>1, <2>2
<1>8. EntriesAgree'
  <2>1. ASSUME NEW p \in Outputs, NEW s \in Surfaces
        PROVE  surfaceViews'[p][s].views = surfaceViews[p][s].views
    BY <1>3, <1>5
  <2> QED  BY <2>1, <1>1, <1>2 DEF EntriesAgree
<1>9. ASSUME NEW p \in Outputs, NEW s \in Surfaces, surfaceViews'[p][s].has_entered
      PROVE  surfaceViews'[p][s].views # {}
  <2>1. CASE p = o
    BY <2>1, <1>2, <1>3, <1>4, <1>5, <1>9
  <2>2. CASE p # o
    BY <2>2, <1>2, <1>5, <1>9
  <2> QED  BY <2>1, <2>2
<1>10. ASSUME BindsFirst
       PROVE  Believed'
  <2>1. ASSUME NEW p \in Outputs, NEW s \in Surfaces
        PROVE  p \in entered'[s] <=> surfaceViews'[p][s].has_entered
    <3>1. p \in entered[s] <=> surfaceViews[p][s].has_entered
      BY <1>2, <1>10 DEF Believed
    <3>2. s \in shown => o \in bound
      BY <1>4, <1>10 DEF BoundFirst
    <3>3. entered'[s] = entered[s] \cup (IF /\ s \in shown /\ o \in bound
                               /\ ~surfaceViews[o][s].has_entered THEN {o} ELSE {})
      BY <1>1
    <3>4. CASE p = o
      BY <3>1, <3>2, <3>3, <3>4, <1>3, <1>5
    <3>5. CASE p # o
      BY <3>1, <3>3, <3>5, <1>5
    <3> QED  BY <3>4, <3>5
  <2> QED  BY <2>1 DEF Believed
<1>11. ViewTypes'
  BY <1>1, <1>2, <1>6, <1>7 DEF ViewTypes
<1> QED  BY <1>8, <1>9, <1>10, <1>11 DEF EntriesInv

LEMMA FramesKeepInv ==
  ASSUME Inv, FrameNext
  PROVE  Inv'
<1>1. /\ ListsInv /\ EntriesInv /\ OtherTypes /\ CallbackTypes /\ CallbacksInv
      /\ BoundFirst /\ TypeOK
  BY Parts DEF Inv
<1>2. MaxQueued \in Nat
  BY BoundsAssumption
<1>3. ASSUME NEW o \in Outputs, FrameStart(o)
      PROVE  Inv'
  <2>1. /\ queued[o] < MaxQueued
        /\ scheduled' = scheduled \ {o}
        /\ queued' = IF o \in Automatic THEN [queued EXCEPT ![o] = @ + 1] ELSE queued
        /\ UNCHANGED <<surfaceVars, viewVars, surfaceViews, bound, entered,
                       pendingFrameCallbacks, frames, done>>
    BY <1>3 DEF FrameStart
  <2>2. queued' \in [Outputs -> 0..MaxQueued]
    <3>1. queued[o] + 1 \in 0..MaxQueued
      BY <1>1, <1>2, <2>1 DEF OtherTypes
    <3> QED  BY <3>1, <1>1, <2>1 DEF OtherTypes
  <2>3. OtherTypes' /\ BoundFirst' /\ EntriesInv' /\ ListsInv'
    BY <1>1, <2>1, <2>2, EntriesStay, ListsStay
       DEF OtherTypes, BoundFirst, surfaceVars, viewVars
  <2>4. CallbackTypes' /\ CallbacksInv'
    BY <1>1, <1>3, <2>1, MarkOrder DEF CallbackTypes
  <2> QED  BY <2>3, <2>4, Parts
<1>4. ASSUME NEW o \in Outputs, SendFrameCallbacks(o)
      PROVE  Inv'
  <2>1. /\ \/ queued[o] > 0 /\ queued' = [queued EXCEPT ![o] = @ - 1]
           \/ queued' = queued
        /\ UNCHANGED <<surfaceVars, viewVars, bound, pendingFrameCallbacks, frames, scheduled>>
    BY <1>4 DEF SendFrameCallbacks
  <2>2. queued' \in [Outputs -> 0..MaxQueued]
    <3>1. queued[o] > 0 => queued[o] - 1 \in 0..MaxQueued
      BY <1>1, <1>2 DEF OtherTypes
    <3> QED  BY <3>1, <1>1, <2>1 DEF OtherTypes
  <2>3. OtherTypes' /\ BoundFirst' /\ ListsInv'
    BY <1>1, <2>1, <2>2, ListsStay DEF OtherTypes, BoundFirst, surfaceVars, viewVars
  <2>4. EntriesInv'
    BY <1>1, <1>4, SendEntries DEF OtherTypes
  <2>5. CallbackTypes' /\ CallbacksInv'
    BY <1>1, <1>4, <2>1, SendOrder DEF CallbackTypes
  <2> QED  BY <2>3, <2>4, <2>5, Parts
<1> QED  BY <1>3, <1>4 DEF FrameNext

LEMMA InvInit == Init => Inv
<1> SUFFICES ASSUME Init PROVE Inv
  OBVIOUS
<1>1. MaxCallbacks \in Nat /\ MaxQueued \in Nat
  BY BoundsAssumption
<1>2. \A s \in Surfaces : /\ views[s] = <<>> /\ done[s] = <<>>
                          /\ frameCallbacks[s] = <<>> /\ pendingFrameCallbacks[s] = <<>>
                          /\ entered[s] = {}
  BY DEF Init
<1>3. \A s \in Surfaces : InOrder(s) /\ MarkedFirst(s)
  BY <1>2, NothingToSend DEF InOrder, MarkedFirst
<1>4. ToSet(<<>>) = {} /\ IsInjective(<<>>)
  BY DEF ToSet, IsInjective
<1>5. \A v \in Views : viewSurface[v] = None
  BY DEF Init
<1>6. ListsInv
  <2>1. views \in [Surfaces -> Seq(Views)]
    BY DEF Init
  <2> QED  BY <1>2, <1>4, <1>5, <2>1, NoneAssumption DEF ListsInv, ListsAgree
<1>7. \A o \in Outputs, s \in Surfaces :
        /\ surfaceViews[o][s].views = {} /\ ~surfaceViews[o][s].has_entered
  BY DEF Init, NoEntry
<1>8. ViewTypes
  BY DEF Init, ViewTypes, NoEntry, Entry
<1>9. EntriesInv
  BY <1>2, <1>5, <1>7, <1>8, NoneAssumption DEF EntriesInv, EntriesAgree, Believed
<1>10. OtherTypes /\ BoundFirst
  BY <1>1 DEF Init, OtherTypes, BoundFirst
<1>11. CallbackTypes
  BY <1>1 DEF Init, CallbackTypes
<1> QED  BY <1>3, <1>6, <1>9, <1>10, <1>11, Parts DEF CallbacksInv

LEMMA Invariance == Spec => []Inv
<1>1. Inv /\ UNCHANGED vars => Inv'
  <2> SUFFICES ASSUME Inv, UNCHANGED vars PROVE Inv'
    OBVIOUS
  <2>1. /\ ListsInv /\ EntriesInv /\ OtherTypes /\ CallbackTypes /\ CallbacksInv
        /\ BoundFirst
    BY Parts
  <2>2. OtherTypes' /\ BoundFirst' /\ EntriesInv' /\ ListsInv'
    BY <2>1, EntriesStay, ListsStay DEF OtherTypes, BoundFirst, surfaceVars, viewVars, vars
  <2>3. CallbackTypes' /\ CallbacksInv'
    BY <2>1, CallbacksStay DEF vars
  <2> QED  BY <2>2, <2>3, Parts
<1>2. Inv /\ [Next]_vars => Inv'
  BY <1>1, SceneKeepsInv, ClientKeepsInv, FramesKeepInv DEF Next
<1> QED  BY <1>2, InvInit, PTL DEF Spec

\* Every variable of FrameCallbacks keeps its type.
THEOREM TypeCorrect == Spec => []TypeOK
<1>1. Inv => TypeOK
  BY DEF Inv
<1> QED  BY <1>1, Invariance, PTL

\* However views, outputs and surfaces come and go between the halves of a
\* frame, the callbacks of a surface are sent in the order of the requests.
THEOREM CallbacksAreInOrder == Spec => []PostedInOrder
<1>1. Inv => PostedInOrder
  <2> SUFFICES ASSUME Inv PROVE PostedInOrder
    OBVIOUS
  <2>1. ASSUME NEW s \in alive
        PROVE  Sorted(done[s] \o IdsOf(frameCallbacks[s]) \o pendingFrameCallbacks[s])
               /\ done[s] \o IdsOf(frameCallbacks[s]) \o pendingFrameCallbacks[s] \in Seq(Int)
    <3> DEFINE d == done[s]
               f == IdsOf(frameCallbacks[s])
               p == pendingFrameCallbacks[s]
    <3>1. s \in Surfaces /\ TypeOK
      BY DEF Inv, TypeOK
    <3>2. d \in Seq(Int) /\ f \in Seq(Int) /\ p \in Seq(Int)
      BY <3>1, Numbers
    <3>3. InOrder(s)
      BY <3>1 DEF Inv, CallbacksInv
    <3>4. /\ Sorted(d) /\ Sorted(f) /\ Sorted(p) /\ Before(d, f) /\ Before(d, p) /\ Before(f, p)
      BY <3>3 DEF InOrder
    <3> HIDE DEF d, f, p
    <3>5. d \o f \in Seq(Int) /\ Sorted(d \o f) /\ Before(d \o f, p)
      BY <3>2, <3>4, Concatenated, ConcatProperties
    <3>6. (d \o f) \o p \in Seq(Int) /\ Sorted((d \o f) \o p)
      BY <3>2, <3>4, <3>5, Concatenated, ConcatProperties
    <3> QED  BY <3>6 DEF d, f, p
  <2>2. ASSUME NEW q \in Seq(Int), Sorted(q), NEW i \in DOMAIN q, NEW j \in 1..(i - 1)
        PROVE  q[j] < q[i]
    <3>1. DOMAIN q = 1..Len(q) /\ Len(q) \in Nat
      OBVIOUS
    <3>2. j \in DOMAIN q /\ j < i
      BY <3>1
    <3> QED  BY <3>2, <2>2 DEF Sorted
  <2> QED  BY <2>1, <2>2 DEF PostedInOrder
<1> QED  BY <1>1, Invariance, PTL

\* The three lists of who shows what agree after every move; and a client that
\* binds every output at once believes its surfaces to be where they are shown.
THEOREM ViewsAlwaysAgree == Spec => []ViewsAgree
<1>1. Inv => ViewsAgree
  BY DEF Inv, ShownInv, ListsAgree, EntriesAgree, ViewsAgree
<1> QED  BY <1>1, Invariance, PTL

\* For such a client, all of it holds at every moment.
THEOREM FramesAlwaysFollowMoves ==
  ASSUME BindsFirst
  PROVE  Spec => []FramesFollowMoves
<1>1. Inv => EnteredWhereShown
  BY DEF Inv, ShownInv, Believed, EnteredWhereShown
<1>2. PostedInOrder /\ ViewsAgree /\ EnteredWhereShown => FramesFollowMoves
  BY DEF FramesFollowMoves, ShownAlike
<1> QED  BY <1>1, <1>2, Invariance, CallbacksAreInOrder, ViewsAlwaysAgree, PTL
-----------------------------------------------------------------------------
(* WaylandOutput: properties as they are asked for *)


\* What the configuration k asks for, on top of the properties as they are.
AskedOver(k) ==
  [p \in Properties |-> IF p \in DOMAIN asked[k] THEN asked[k][p] ELSE properties[p]]

\* A change set is what was asked for and the properties of now, because
\* nobody applies anything between its first request and its end.
ChangesetOf(k) ==
  /\ DOMAIN asked[k] \subseteq Properties
  /\ \A p \in DOMAIN asked[k] : asked[k][p] \in Values
  /\ DOMAIN asked[k] = {} => changes[k] = NoChangeset
  /\ DOMAIN asked[k] # {} => changes[k] = AskedOver(k)

OutputInv ==
  /\ properties \in [Properties -> Values]
  /\ IsAsAsked
  /\ asked \in [Configurations -> UNION {[d -> Values] : d \in SUBSET Properties}]
  /\ DOMAIN changes = Configurations
  /\ \A k \in Configurations : ChangesetOf(k)
  /\ \A k, l \in Configurations : DOMAIN asked[k] # {} /\ DOMAIN asked[l] # {} => k = l

-----------------------------------------------------------------------------
\* A screen that takes over a change set has all of its properties in the end,
\* which are those that were asked for, and the others as they were.
LEMMA TakenOver ==
  ASSUME NEW k \in Configurations, OutputInv, ApplyChangeset(k)
  PROVE  properties' = AskedOver(k)
<1>1. {Order[j] : j \in 1..3} = Properties
  <2>1. Order[1] = "transform" /\ Order[2] = "position" /\ Order[3] = "scale"
    BY DEF Order
  <2>2. 1..3 = {1, 2, 3}
    OBVIOUS
  <2> QED
    BY <2>1, <2>2 DEF Properties
<1>2. properties' = [p \in Properties |-> PendingChanges(k)[p]]
  BY <1>1 DEF ApplyChangeset
<1>3. CASE DOMAIN asked[k] = {}
  <2>1. PendingChanges(k) = properties
    BY <1>3 DEF OutputInv, ChangesetOf, PendingChanges
  <2> QED
    BY <1>2, <1>3, <2>1 DEF AskedOver
<1>4. CASE DOMAIN asked[k] # {}
  <2>1. changes[k] = AskedOver(k)
    BY <1>4 DEF OutputInv, ChangesetOf
  <2>2. AskedOver(k) # NoChangeset
    BY DEF AskedOver, NoChangeset, Properties
  <2>3. PendingChanges(k) = AskedOver(k)
    BY <2>1, <2>2 DEF PendingChanges
  <2> QED
    BY <1>2, <2>3 DEF AskedOver
<1> QED
  BY <1>3, <1>4

\* The first properties are nobody's request.
LEMMA OutputInvInit == OutputInit => OutputInv
<1> SUFFICES ASSUME OutputInit PROVE OutputInv
  OBVIOUS
<1>1. \A k \in Configurations : asked[k] = <<>> /\ changes[k] = NoChangeset
  BY DEF OutputInit
<1>2. DOMAIN <<>> = {} /\ <<>> \in [{} -> Values]
  OBVIOUS
<1>3. asked \in [Configurations -> UNION {[d -> Values] : d \in SUBSET Properties}]
  BY <1>2 DEF OutputInit
<1>4. \A k \in Configurations : ChangesetOf(k)
  BY <1>1, <1>2 DEF ChangesetOf
<1> QED
  BY <1>1, <1>2, <1>3, <1>4 DEF OutputInit, OutputInv, IsAsAsked

\* A request adds what it asks for to the change set, and nothing else.
LEMMA RequestKeepsInv ==
  ASSUME Alone, Changing \subseteq Properties, OutputInv,
         NEW k \in Configurations, NEW p \in Changing, NEW v \in Values, Request(k, p, v)
  PROVE  OutputInv'
<1> DEFINE now == With(asked[k], p, v)
<1>1. /\ DOMAIN now = {p} \cup DOMAIN asked[k]
      /\ now[p] = v
      /\ \A q \in DOMAIN asked[k] : q # p => now[q] = asked[k][q]
  BY DEF With
<1>2. /\ asked' = [asked EXCEPT ![k] = now]
      /\ changes' = [changes EXCEPT ![k] = With(PendingChanges(k), p, v)]
      /\ UNCHANGED <<properties, wanted>>
      /\ \A l \in Configurations \ {k} : DOMAIN asked[l] = {}
  BY DEF Request
<1>3. PendingChanges(k) = AskedOver(k)
  <2>1. CASE DOMAIN asked[k] = {}
    BY <2>1 DEF OutputInv, ChangesetOf, PendingChanges, AskedOver
  <2>2. CASE DOMAIN asked[k] # {}
    <3>1. AskedOver(k) # NoChangeset
      BY DEF AskedOver, NoChangeset, Properties
    <3> QED
      BY <2>2, <3>1 DEF OutputInv, ChangesetOf, PendingChanges
  <2> QED
    BY <2>1, <2>2
<1>4. With(PendingChanges(k), p, v)
        = [q \in Properties |-> IF q \in DOMAIN now THEN now[q] ELSE properties[q]]
  BY <1>1, <1>3 DEF With, AskedOver
<1>5. asked'[k] = now /\ \A l \in Configurations \ {k} : asked'[l] = asked[l]
  BY <1>2 DEF OutputInv
<1>6. changes'[k] = AskedOver(k)' /\ \A l \in Configurations \ {k} : changes'[l] = changes[l]
  BY <1>2, <1>4, <1>5 DEF OutputInv, AskedOver
<1>7. now \in UNION {[d -> Values] : d \in SUBSET Properties}
  <2>1. DOMAIN now \subseteq Properties /\ \A q \in DOMAIN now : now[q] \in Values
    BY <1>1 DEF OutputInv, ChangesetOf
  <2>2. now = [q \in DOMAIN now |-> now[q]]
    BY DEF With
  <2> QED
    BY <2>1, <2>2
<1>8. ChangesetOf(k)'
  <2>1. DOMAIN now \subseteq Properties /\ \A q \in DOMAIN now : now[q] \in Values
    BY <1>1 DEF OutputInv, ChangesetOf
  <2> QED
    BY <1>1, <1>5, <1>6, <2>1 DEF ChangesetOf
<1>9. \A l \in Configurations \ {k} : ChangesetOf(l)'
  BY <1>2, <1>5, <1>6 DEF OutputInv, ChangesetOf
<1>10. asked' \in [Configurations -> UNION {[d -> Values] : d \in SUBSET Properties}]
  BY <1>2, <1>7 DEF OutputInv
<1> QED
  BY <1>2, <1>5, <1>8, <1>9, <1>10 DEF OutputInv, IsAsAsked

\* Applying a configuration gives the properties what was asked for, and takes
\* nothing else along.
LEMMA ApplyKeepsInv ==
  ASSUME OutputInv, NEW k \in Configurations, Apply(k)
  PROVE  OutputInv'
<1>1. properties' = AskedOver(k)
  BY TakenOver DEF Apply
<1>2. properties' \in [Properties -> Values]
  BY <1>1 DEF AskedOver, OutputInv, ChangesetOf
<1>3. wanted' = properties'
  BY <1>1 DEF Apply, Over, AskedOver, OutputInv, IsAsAsked
<1>4. /\ asked'[k] = <<>> /\ changes'[k] = NoChangeset
      /\ \A l \in Configurations \ {k} : asked'[l] = asked[l] /\ changes'[l] = changes[l]
  BY DEF Apply, OutputInv
<1>5. DOMAIN <<>> = {} /\ <<>> \in [{} -> Values]
  OBVIOUS
<1>6. ChangesetOf(k)'
  BY <1>4, <1>5 DEF ChangesetOf
<1>7. ASSUME NEW l \in Configurations \ {k} PROVE ChangesetOf(l)'
  <2>1. CASE DOMAIN asked[l] = {}
    BY <1>4, <2>1 DEF OutputInv, ChangesetOf
  <2>2. CASE DOMAIN asked[l] # {}
    \* Then k asks for nothing, and the properties stay.
    <3>1. DOMAIN asked[k] = {}
      BY <2>2 DEF OutputInv
    <3>2. properties' = properties
      BY <1>1, <3>1 DEF AskedOver, OutputInv
    <3> QED
      BY <1>4, <3>2 DEF OutputInv, ChangesetOf, AskedOver
  <2> QED
    BY <2>1, <2>2
<1>8. asked' \in [Configurations -> UNION {[d -> Values] : d \in SUBSET Properties}]
  BY <1>5 DEF Apply, OutputInv
<1>9. DOMAIN changes' = Configurations
  BY DEF Apply, OutputInv
<1> QED
  BY <1>2, <1>3, <1>4, <1>5, <1>6, <1>7, <1>8, <1>9 DEF OutputInv, IsAsAsked

LEMMA InvStep ==
  ASSUME Alone, Changing \subseteq Properties, OutputInv, [OutputNext]_outputVars
  PROVE  OutputInv'
<1>1. CASE UNCHANGED <<properties, configVars>>
  BY <1>1 DEF configVars, OutputInv, IsAsAsked, ChangesetOf, AskedOver
<1>2. ASSUME NEW k \in Configurations, Apply(k) PROVE OutputInv'
  BY <1>2, ApplyKeepsInv
<1>3. ASSUME NEW k \in Configurations, NEW p \in Changing, NEW v \in Values, Request(k, p, v)
      PROVE  OutputInv'
  BY <1>3, RequestKeepsInv
<1>4. ASSUME NEW m \in Modes, ResizeWindow(m) \/ \E flags \in SUBSET Flags : AddMode(m, flags)
      PROVE  OutputInv'
  <2>1. CASE ResizeWindow(m)
    <3>1. UNCHANGED <<properties, configVars>>
      BY <2>1 DEF ResizeWindow
    <3> QED
      BY <1>1, <3>1
  <2>2. ASSUME NEW flags \in SUBSET Flags, AddMode(m, flags) PROVE OutputInv'
    <3>1. UNCHANGED <<properties, configVars>>
      BY <2>2 DEF AddMode
    <3> QED
      BY <1>1, <3>1
  <2> QED
    BY <1>4, <2>1, <2>2
<1>5. ASSUME NEW i \in DOMAIN modes, SetCurrentMode(i) PROVE OutputInv'
  BY <1>1, <1>5 DEF SetCurrentMode
<1>6. ASSUME NEW c \in Clients, Bind(c) \/ Hear(c) PROVE OutputInv'
  BY <1>1, <1>6 DEF Bind, Hear
<1>7. CASE UNCHANGED outputVars
  BY <1>1, <1>7 DEF outputVars
<1> QED
  BY <1>2, <1>3, <1>4, <1>5, <1>6, <1>7 DEF OutputNext

\* Configurations that are applied one at a time change what they were asked
\* to change and leave the rest as others had asked for it, however many there
\* are: no change set of an earlier time is ever applied.
THEOREM AskedForArrives ==
  ASSUME Alone
  PROVE  OutputSpec => []IsAsAsked
<1>1. Changing \subseteq Properties
  BY OutputAssumption DEF Properties
<1>2. OutputInit => OutputInv
  BY OutputInvInit
<1>3. OutputInv /\ [OutputNext]_outputVars => OutputInv'
  BY <1>1, InvStep
<1>4. OutputInv => IsAsAsked
  BY DEF OutputInv
<1> QED
  BY <1>2, <1>3, <1>4, PTL DEF OutputSpec

-----------------------------------------------------------------------------
(* What clients know *)

PropertyEvents ==
  [type : {"properties"}, of : UNION {[d -> Values] : d \in SUBSET Properties}]
ModeRecords == [size : Modes, flags : SUBSET Flags]
ModeEvents  == [type : {"mode"}, mode : ModeRecords]
Events      == PropertyEvents \cup ModeEvents \cup {Done}

\* Events that say that p is v, and events that say otherwise.
Telling(p, v)   == {e \in PropertyEvents : p \in DOMAIN e.of /\ e.of[p] = v}
Denying(p, v)   == {e \in PropertyEvents : p \in DOMAIN e.of /\ e.of[p] # v}
TellingMode(m)  == {e \in ModeEvents : e.mode = m}
DenyingMode(m)  == {e \in ModeEvents : e.mode.size = m.size /\ e.mode # m}

Reaches(q, good) == \E j \in DOMAIN q : q[j] \in good

\* After each of the bad events there is still a good one to come.
Corrected(q, bad, good) ==
  \A j \in DOMAIN q : q[j] \in bad => \E l \in DOMAIN q : j < l /\ q[l] \in good

KnowsMode(ms, m) ==
  (\E i \in DOMAIN ms : ms[i] = m) /\ \A i \in DOMAIN ms : ms[i].size = m.size => ms[i] = m

OutputTypes ==
  /\ properties \in [Properties -> Values]
  /\ sizeFollowsWindow \in BOOLEAN
  /\ modes \in Seq(ModeRecords)
  /\ currentMode \in 0..Len(modes) /\ preferredMode \in 0..Len(modes)
  /\ resources \subseteq Clients
  /\ wire \in [Clients -> Seq(Events)]
  /\ known \in [Clients -> [properties : [Properties -> Values], modes : Seq(ModeRecords)]]
  /\ DOMAIN announced = Clients
  /\ changes \in [Configurations -> [Properties -> Values] \cup {NoChangeset}]

\* A size is that of one mode at most, and the flags are where the numbers say.
ModesState ==
  /\ \A i, j \in DOMAIN modes : modes[i].size = modes[j].size => i = j
  /\ \A i \in DOMAIN modes : "current" \in modes[i].flags <=> i = currentMode
  /\ \A i \in DOMAIN modes : "preferred" \in modes[i].flags => i = preferredMode
  /\ sizeFollowsWindow => Len(modes) = 1 /\ currentMode = 1

\* What a client does not know is on its way, with nothing else after it.
PropertiesTold(c) ==
  \A p \in Properties :
    /\ Corrected(wire[c], Denying(p, properties[p]), Telling(p, properties[p]))
    /\ \/ Reaches(wire[c], Telling(p, properties[p]))
       \/ known[c].properties[p] = properties[p]

ModesTold(c) ==
  \A i \in DOMAIN modes :
    /\ Corrected(wire[c], DenyingMode(modes[i]), TellingMode(modes[i]))
    /\ Reaches(wire[c], TellingMode(modes[i])) \/ KnowsMode(known[c].modes, modes[i])

\* What it hears of properties it will announce.
DoneTold(c) ==
  /\ Corrected(wire[c], PropertyEvents, {Done})
  /\ Reaches(wire[c], {Done}) \/ announced[c] = known[c].properties

\* Modes do not go, so that it knows no others; unless the size follows the window.
SizesOf(ms) == {ms[i].size : i \in DOMAIN ms}
NoOtherModes(c) ==
  ~sizeFollowsWindow =>
    /\ SizesOf(known[c].modes) \subseteq SizesOf(modes)
    /\ \A j \in DOMAIN wire[c] :
         wire[c][j] \in ModeEvents => wire[c][j].mode.size \in SizesOf(modes)

KnowledgeOf(c) ==
  IF c \in resources
  THEN PropertiesTold(c) /\ ModesTold(c) /\ DoneTold(c) /\ NoOtherModes(c)
  ELSE wire[c] = <<>> /\ known[c].modes = <<>>

KnownInv == OutputTypes /\ ModesState /\ \A c \in Clients : KnowledgeOf(c)

-----------------------------------------------------------------------------
(* Sequences of events *)

\* Hearing an event leaves what is to come corrected; one that is bad is
\* followed by one that is good.
LEMMA HeardRest ==
  ASSUME NEW S, NEW q \in Seq(S), q # <<>>, NEW bad, NEW good, Corrected(q, bad, good)
  PROVE  /\ Corrected(Tail(q), bad, good)
         /\ Head(q) \in bad => Reaches(Tail(q), good)
         /\ Reaches(q, good) => Head(q) \in good \/ Reaches(Tail(q), good)
<1>1. /\ Head(q) = q[1] /\ Len(q) \in Nat /\ Len(q) >= 1 /\ DOMAIN q = 1..Len(q)
      /\ Tail(q) \in Seq(S) /\ Len(Tail(q)) = Len(q) - 1 /\ DOMAIN Tail(q) = 1..(Len(q) - 1)
      /\ \A i \in 1..(Len(q) - 1) : Tail(q)[i] = q[i + 1]
  OBVIOUS
<1>2. ASSUME NEW j \in DOMAIN Tail(q), Tail(q)[j] \in bad
      PROVE  \E l \in DOMAIN Tail(q) : j < l /\ Tail(q)[l] \in good
  <2>1. j + 1 \in DOMAIN q /\ q[j + 1] \in bad
    BY <1>1, <1>2
  <2>2. PICK l \in DOMAIN q : j + 1 < l /\ q[l] \in good
    BY <2>1 DEF Corrected
  <2>3. l - 1 \in DOMAIN Tail(q) /\ j < l - 1 /\ Tail(q)[l - 1] = q[l]
    BY <1>1, <2>2
  <2> QED
    BY <2>2, <2>3
<1>3. ASSUME NEW l \in DOMAIN q, 1 < l, q[l] \in good PROVE Reaches(Tail(q), good)
  <2>1. l - 1 \in DOMAIN Tail(q) /\ Tail(q)[l - 1] = q[l]
    BY <1>1, <1>3
  <2> QED
    BY <1>3, <2>1 DEF Reaches
<1>4. Head(q) \in bad => Reaches(Tail(q), good)
  BY <1>1, <1>3 DEF Corrected
<1>5. Reaches(q, good) => Head(q) \in good \/ Reaches(Tail(q), good)
  BY <1>1, <1>3 DEF Reaches
<1> QED
  BY <1>2, <1>4, <1>5 DEF Corrected

\* Of two corrected sequences, the second corrects what the first says, too.
LEMMA SentAfter ==
  ASSUME NEW S, NEW q \in Seq(S), NEW r \in Seq(S), NEW bad, NEW good, Corrected(r, bad, good)
  PROVE  /\ Reaches(r, good) => Corrected(q \o r, bad, good) /\ Reaches(q \o r, good)
         /\ Corrected(q, bad, good) => Corrected(q \o r, bad, good)
         /\ Reaches(q, good) => Reaches(q \o r, good)
<1>1. /\ Len(q) \in Nat /\ DOMAIN q = 1..Len(q) /\ Len(r) \in Nat /\ DOMAIN r = 1..Len(r)
      /\ DOMAIN (q \o r) = 1..(Len(q) + Len(r))
      /\ \A i \in 1..Len(q) : (q \o r)[i] = q[i]
      /\ \A i \in 1..Len(r) : (q \o r)[Len(q) + i] = r[i]
  OBVIOUS
<1>2. ASSUME NEW j \in DOMAIN r, r[j] \in bad
      PROVE  \E l \in DOMAIN (q \o r) : Len(q) + j < l /\ (q \o r)[l] \in good
  <2>1. PICK l \in DOMAIN r : j < l /\ r[l] \in good
    BY <1>2 DEF Corrected
  <2>2. Len(q) + l \in DOMAIN (q \o r) /\ Len(q) + j < Len(q) + l
    BY <1>1, <2>1
  <2> QED
    BY <1>1, <2>1, <2>2
<1>3. \A j \in DOMAIN (q \o r) : j \in DOMAIN q \/ \E i \in DOMAIN r : j = Len(q) + i
  <2> TAKE j \in DOMAIN (q \o r)
  <2>1. CASE j <= Len(q)
    BY <1>1, <2>1
  <2>2. CASE j > Len(q)
    <3>1. j - Len(q) \in DOMAIN r /\ j = Len(q) + (j - Len(q))
      BY <1>1, <2>2
    <3> QED
      BY <3>1
  <2> QED
    BY <1>1, <2>1, <2>2
<1>4. ASSUME Reaches(r, good) PROVE Corrected(q \o r, bad, good) /\ Reaches(q \o r, good)
  <2>1. PICK n \in DOMAIN r : r[n] \in good
    BY <1>4 DEF Reaches
  <2>2. Len(q) + n \in DOMAIN (q \o r) /\ (q \o r)[Len(q) + n] \in good
    BY <1>1, <2>1
  <2>3. \A j \in DOMAIN q : j < Len(q) + n
    BY <1>1, <2>1
  <2>4. ASSUME NEW j \in DOMAIN (q \o r), (q \o r)[j] \in bad
        PROVE  \E l \in DOMAIN (q \o r) : j < l /\ (q \o r)[l] \in good
    <3>1. CASE j \in DOMAIN q
      BY <2>2, <2>3, <3>1
    <3>2. ASSUME NEW i \in DOMAIN r, j = Len(q) + i
          PROVE  \E l \in DOMAIN (q \o r) : j < l /\ (q \o r)[l] \in good
      <4>1. r[i] \in bad
        BY <1>1, <2>4, <3>2
      <4> QED
        BY <1>2, <3>2, <4>1
    <3> QED
      BY <1>3, <3>1, <3>2
  <2> QED
    BY <2>2, <2>4 DEF Corrected, Reaches
<1>5. ASSUME Corrected(q, bad, good) PROVE Corrected(q \o r, bad, good)
  <2>1. ASSUME NEW j \in DOMAIN (q \o r), (q \o r)[j] \in bad
        PROVE  \E l \in DOMAIN (q \o r) : j < l /\ (q \o r)[l] \in good
    <3>1. CASE j \in DOMAIN q
      <4>1. q[j] \in bad
        BY <1>1, <2>1, <3>1
      <4>2. PICK l \in DOMAIN q : j < l /\ q[l] \in good
        BY <1>5, <3>1, <4>1 DEF Corrected
      <4>3. l \in DOMAIN (q \o r) /\ (q \o r)[l] = q[l]
        BY <1>1
      <4> QED
        BY <4>2, <4>3
    <3>2. ASSUME NEW i \in DOMAIN r, j = Len(q) + i
          PROVE  \E l \in DOMAIN (q \o r) : j < l /\ (q \o r)[l] \in good
      <4>1. r[i] \in bad
        BY <1>1, <2>1, <3>2
      <4> QED
        BY <1>2, <3>2, <4>1
    <3> QED
      BY <1>3, <3>1, <3>2
  <2> QED
    BY <2>1 DEF Corrected
<1>6. ASSUME Reaches(q, good) PROVE Reaches(q \o r, good)
  <2>1. PICK l \in DOMAIN q : q[l] \in good
    BY <1>6 DEF Reaches
  <2>2. l \in DOMAIN (q \o r) /\ (q \o r)[l] = q[l]
    BY <1>1
  <2> QED
    BY <2>1, <2>2 DEF Reaches
<1> QED
  BY <1>4, <1>5, <1>6

\* All the modes, each once, tell of each of them.
LEMMA ModesInfoTells ==
  ASSUME NEW ms \in Seq(ModeRecords),
         \A i, j \in DOMAIN ms : ms[i].size = ms[j].size => i = j
  PROVE  /\ ModesInfo(ms) \in Seq(ModeEvents) /\ ModesInfo(ms) \in Seq(Events)
         /\ \A j \in DOMAIN ModesInfo(ms) : ModesInfo(ms)[j].mode.size \in SizesOf(ms)
         /\ \A i \in DOMAIN ms :
              /\ Corrected(ModesInfo(ms), DenyingMode(ms[i]), TellingMode(ms[i]))
              /\ Reaches(ModesInfo(ms), TellingMode(ms[i]))
<1> DEFINE r == ModesInfo(ms)
<1>1. /\ DOMAIN r = DOMAIN ms
      /\ \A i \in DOMAIN ms : r[i] = [type |-> "mode", mode |-> ms[i]]
  BY DEF ModesInfo
<1>2. \A i \in DOMAIN ms : ms[i] \in ModeRecords
  OBVIOUS
<1>3. \A i \in DOMAIN ms : r[i] \in ModeEvents /\ r[i].mode = ms[i]
  BY <1>1, <1>2 DEF ModeEvents
<1>4. DOMAIN r = 1..Len(ms) /\ Len(ms) \in Nat
  BY <1>1
<1>5. r = [i \in 1..Len(ms) |-> r[i]]
  BY <1>4 DEF ModesInfo
<1>6. r \in Seq(ModeEvents)
  <2> HIDE DEF r
  <2> QED
    BY <1>1, <1>3, <1>4, <1>5
<1>7. r \in Seq(Events)
  <2> HIDE DEF r
  <2>1. \A i \in 1..Len(ms) : r[i] \in Events
    BY <1>1, <1>3, <1>4 DEF Events
  <2> QED
    BY <1>4, <1>5, <2>1
<1>8. ASSUME NEW i \in DOMAIN ms
      PROVE  /\ Corrected(r, DenyingMode(ms[i]), TellingMode(ms[i]))
             /\ Reaches(r, TellingMode(ms[i]))
  <2> HIDE DEF r
  <2>1. \A j \in DOMAIN r : r[j] \notin DenyingMode(ms[i])
    BY <1>1, <1>3, <1>8 DEF DenyingMode
  <2>2. r[i] \in TellingMode(ms[i])
    BY <1>3, <1>8 DEF TellingMode
  <2> QED
    BY <1>1, <1>8, <2>1, <2>2 DEF Corrected, Reaches
<1>9. \A j \in DOMAIN r : r[j].mode.size \in SizesOf(ms)
  <2> HIDE DEF r
  <2> QED
    BY <1>1, <1>3 DEF SizesOf
<1> QED
  BY <1>6, <1>7, <1>8, <1>9

-----------------------------------------------------------------------------
(* What a client hears *)

\* The mode of an event takes the place of the one of its size.
LEMMA HeardMode ==
  ASSUME NEW ms \in Seq(ModeRecords), NEW n \in ModeRecords
  PROVE  /\ WithMode(ms, n) \in Seq(ModeRecords)
         /\ SizesOf(WithMode(ms, n)) \subseteq SizesOf(ms) \cup {n.size}
         /\ KnowsMode(WithMode(ms, n), n)
         /\ \A m \in ModeRecords :
              KnowsMode(ms, m) /\ n.size # m.size => KnowsMode(WithMode(ms, n), m)
<1> DEFINE new == WithMode(ms, n)
<1>1. Len(ms) \in Nat /\ DOMAIN ms = 1..Len(ms) /\ \A i \in DOMAIN ms : ms[i] \in ModeRecords
  OBVIOUS
<1>2. CASE \E i \in DOMAIN ms : ms[i].size = n.size
  <2>1. new = [i \in DOMAIN ms |-> IF ms[i].size = n.size THEN n ELSE ms[i]]
    BY <1>2 DEF WithMode
  <2>2. \A i \in DOMAIN ms : new[i] \in ModeRecords
    BY <1>1, <2>1
  <2>3. new \in Seq(ModeRecords) /\ DOMAIN new = DOMAIN ms
    BY <1>1, <2>1, <2>2
  <2>4. \A i \in DOMAIN ms : new[i] = IF ms[i].size = n.size THEN n ELSE ms[i]
    BY <2>1
  <2>5. KnowsMode(new, n)
    <3> HIDE DEF new
    <3> QED
      BY <1>2, <2>3, <2>4 DEF KnowsMode
  <2>6. SizesOf(new) \subseteq SizesOf(ms) \cup {n.size}
    <3> HIDE DEF new
    <3> QED
      BY <2>3, <2>4 DEF SizesOf
  <2>7. ASSUME NEW m \in ModeRecords, KnowsMode(ms, m), n.size # m.size
        PROVE  KnowsMode(new, m)
    <3> HIDE DEF new
    <3> QED
      BY <2>3, <2>4, <2>7 DEF KnowsMode
  <2> QED
    BY <2>3, <2>5, <2>6, <2>7
<1>3. CASE ~\E i \in DOMAIN ms : ms[i].size = n.size
  <2>1. new = Append(ms, n)
    BY <1>3 DEF WithMode
  <2>2. /\ new \in Seq(ModeRecords) /\ DOMAIN new = 1..(Len(ms) + 1)
        /\ new[Len(ms) + 1] = n /\ \A i \in DOMAIN ms : new[i] = ms[i]
    BY <1>1, <2>1
  <2>3. DOMAIN new = DOMAIN ms \cup {Len(ms) + 1}
    BY <1>1, <2>2
  <2>4. KnowsMode(new, n)
    <3> HIDE DEF new
    <3> QED
      BY <1>3, <2>2, <2>3 DEF KnowsMode
  <2>5. SizesOf(new) \subseteq SizesOf(ms) \cup {n.size}
    <3> HIDE DEF new
    <3> QED
      BY <2>2, <2>3 DEF SizesOf
  <2>6. ASSUME NEW m \in ModeRecords, KnowsMode(ms, m), n.size # m.size
        PROVE  KnowsMode(new, m)
    <3> HIDE DEF new
    <3> QED
      BY <2>2, <2>3, <2>6 DEF KnowsMode
  <2> QED
    BY <2>2, <2>4, <2>5, <2>6
<1> QED
  BY <1>2, <1>3

\* Whoever hears an event of one kind knows of the other kinds what it knew.
LEMMA HearKeepsKnown ==
  ASSUME KnownInv, NEW c \in Clients, Hear(c)
  PROVE  KnownInv'
<1> DEFINE q == wire[c]
           e == Head(wire[c])
<1>1. /\ q \in Seq(Events) /\ q # <<>> /\ e \in Events /\ Tail(q) \in Seq(Events)
      /\ wire' = [wire EXCEPT ![c] = Tail(q)] /\ wire'[c] = Tail(q)
      /\ \A j \in DOMAIN Tail(q) : Tail(q)[j] = q[j + 1] /\ j + 1 \in DOMAIN q
  BY DEF KnownInv, OutputTypes, Hear
<1>2. UNCHANGED <<properties, sizeFollowsWindow, modes, currentMode, preferredMode, resources, changes>>
  BY DEF Hear, modeVars, configVars
<1>3. c \in resources
  BY <1>1 DEF KnownInv, KnowledgeOf
<1>4. PropertiesTold(c) /\ ModesTold(c) /\ DoneTold(c) /\ NoOtherModes(c)
  BY <1>3 DEF KnownInv, KnowledgeOf
<1>5. /\ e.type = "properties" => e \in PropertyEvents /\ e \notin ModeEvents /\ e # Done
      /\ e.type = "mode" => e \in ModeEvents /\ e \notin PropertyEvents /\ e # Done
      /\ e.type = "done" => e = Done /\ e \notin PropertyEvents /\ e \notin ModeEvents
  BY <1>1 DEF Events, PropertyEvents, ModeEvents, Done
<1>6. /\ known[c].properties \in [Properties -> Values]
      /\ known[c].modes \in Seq(ModeRecords)
      /\ known[c] = [properties |-> known[c].properties, modes |-> known[c].modes]
  BY DEF KnownInv, OutputTypes
<1>7. \A i \in DOMAIN modes : modes[i] \in ModeRecords
  BY DEF KnownInv, OutputTypes
<1>8. \A p \in Properties : LET good == Telling(p, properties[p])
                                bad == Denying(p, properties[p]) IN
        /\ Corrected(Tail(q), bad, good)
        /\ e \in bad => Reaches(Tail(q), good)
        /\ Reaches(q, good) => e \in good \/ Reaches(Tail(q), good)
  BY <1>1, <1>4, HeardRest DEF PropertiesTold
<1>9. \A i \in DOMAIN modes : LET good == TellingMode(modes[i])
                                 bad == DenyingMode(modes[i]) IN
        /\ Corrected(Tail(q), bad, good)
        /\ e \in bad => Reaches(Tail(q), good)
        /\ Reaches(q, good) => e \in good \/ Reaches(Tail(q), good)
  BY <1>1, <1>4, HeardRest DEF ModesTold
<1>10. /\ Corrected(Tail(q), PropertyEvents, {Done})
       /\ e \in PropertyEvents => Reaches(Tail(q), {Done})
       /\ Reaches(q, {Done}) => e = Done \/ Reaches(Tail(q), {Done})
  BY <1>1, <1>4, HeardRest DEF DoneTold
<1>11. \A j \in DOMAIN Tail(q) : ~sizeFollowsWindow /\ Tail(q)[j] \in ModeEvents =>
         Tail(q)[j].mode.size \in SizesOf(modes)
  BY <1>1, <1>4 DEF NoOtherModes
<1>12. CASE e.type = "properties"
  <2>1. /\ known' = [known EXCEPT ![c].properties = Over(e.of, @)]
        /\ announced' = announced
    BY <1>12 DEF Hear
  <2>2. DOMAIN e.of \subseteq Properties /\ \A p \in DOMAIN e.of : e.of[p] \in Values
    BY <1>5, <1>12 DEF PropertyEvents
  <2>3. /\ known'[c] = [properties |-> Over(e.of, known[c].properties), modes |-> known[c].modes]
        /\ \A d \in Clients \ {c} : known'[d] = known[d]
        /\ known' = [known EXCEPT ![c] = known'[c]]
    BY <1>6, <2>1 DEF KnownInv, OutputTypes
  <2>4. /\ Over(e.of, known[c].properties) \in [Properties -> Values]
        /\ \A p \in Properties : Over(e.of, known[c].properties)[p]
             = IF p \in DOMAIN e.of THEN e.of[p] ELSE known[c].properties[p]
    BY <1>6, <2>2 DEF Over
  <2>5. PropertiesTold(c)'
    <3> SUFFICES ASSUME NEW p \in Properties, ~Reaches(Tail(q), Telling(p, properties[p]))
                 PROVE  known'[c].properties[p] = properties[p]
      BY <1>1, <1>2, <1>8 DEF PropertiesTold
    <3>1. CASE p \in DOMAIN e.of
      <4>1. e \notin Denying(p, properties[p])
        BY <1>8
      <4>2. e.of[p] = properties[p]
        BY <1>5, <1>12, <3>1, <4>1 DEF Denying
      <4> QED
        BY <2>3, <2>4, <3>1, <4>2
    <3>2. CASE p \notin DOMAIN e.of
      <4>1. e \notin Telling(p, properties[p])
        BY <3>2 DEF Telling
      <4> QED
        BY <1>4, <1>8, <2>3, <2>4, <3>2, <4>1 DEF PropertiesTold
    <3> QED
      BY <3>1, <3>2
  <2>6. ModesTold(c)'
    <3>1. \A i \in DOMAIN modes : e \notin TellingMode(modes[i])
      BY <1>5, <1>12 DEF TellingMode
    <3>2. known'[c].modes = known[c].modes
      BY <2>3
    <3> QED
      BY <1>1, <1>2, <1>4, <1>9, <3>1, <3>2 DEF ModesTold
  <2>7. DoneTold(c)'
    BY <1>1, <1>5, <1>10, <1>12 DEF DoneTold
  <2>8. NoOtherModes(c)'
    <3>1. known'[c].modes = known[c].modes
      BY <2>3
    <3> QED
      BY <1>1, <1>2, <1>4, <1>11, <3>1 DEF NoOtherModes
  <2>9. ASSUME NEW d \in Clients \ {c} PROVE KnowledgeOf(d)'
    <3>1. UNCHANGED <<wire[d], known[d], announced[d]>>
      BY <1>1, <2>1, <2>3 DEF KnownInv, OutputTypes
    <3> QED
      BY <1>2, <3>1 DEF KnownInv, KnowledgeOf, PropertiesTold, ModesTold, DoneTold, NoOtherModes
  <2>10. OutputTypes'
    BY <1>1, <1>2, <1>6, <2>1, <2>3, <2>4 DEF KnownInv, OutputTypes
  <2>11. KnowledgeOf(c)'
    BY <1>2, <1>3, <2>5, <2>6, <2>7, <2>8 DEF KnowledgeOf
  <2> QED
    BY <1>2, <2>9, <2>10, <2>11 DEF KnownInv, ModesState
<1>13. CASE e.type = "mode"
  <2>1. /\ known' = [known EXCEPT ![c].modes = WithMode(@, e.mode)]
        /\ announced' = announced
    BY <1>13 DEF Hear
  <2>2. e.mode \in ModeRecords
    BY <1>5, <1>13 DEF ModeEvents
  <2>3. /\ known'[c] = [properties |-> known[c].properties, modes |-> WithMode(known[c].modes, e.mode)]
        /\ \A d \in Clients \ {c} : known'[d] = known[d]
        /\ known' = [known EXCEPT ![c] = known'[c]]
    BY <1>6, <2>1 DEF KnownInv, OutputTypes
  <2>4. /\ WithMode(known[c].modes, e.mode) \in Seq(ModeRecords)
        /\ SizesOf(WithMode(known[c].modes, e.mode)) \subseteq SizesOf(known[c].modes) \cup {e.mode.size}
        /\ KnowsMode(WithMode(known[c].modes, e.mode), e.mode)
        /\ \A m \in ModeRecords :
             KnowsMode(known[c].modes, m) /\ e.mode.size # m.size
               => KnowsMode(WithMode(known[c].modes, e.mode), m)
    BY <1>6, <2>2, HeardMode
  <2>5. PropertiesTold(c)'
    <3>1. \A p \in Properties : e \notin Telling(p, properties[p])
      BY <1>5, <1>13 DEF Telling
    <3>2. known'[c].properties = known[c].properties
      BY <2>3
    <3> QED
      BY <1>1, <1>2, <1>4, <1>8, <3>1, <3>2 DEF PropertiesTold
  <2>6. ModesTold(c)'
    <3> SUFFICES ASSUME NEW i \in DOMAIN modes, ~Reaches(Tail(q), TellingMode(modes[i]))
                 PROVE  KnowsMode(known'[c].modes, modes[i])
      BY <1>1, <1>2, <1>9 DEF ModesTold
    <3>1. CASE e.mode = modes[i]
      BY <2>3, <2>4, <3>1
    <3>2. CASE e.mode # modes[i]
      <4>1. e \notin TellingMode(modes[i]) /\ e \notin DenyingMode(modes[i])
        BY <1>9, <3>2 DEF TellingMode
      <4>2. e.mode.size # modes[i].size
        BY <1>5, <1>13, <3>2, <4>1 DEF DenyingMode
      <4>3. KnowsMode(known[c].modes, modes[i])
        BY <1>4, <1>9, <4>1 DEF ModesTold
      <4> QED
        BY <1>7, <2>3, <2>4, <4>2, <4>3
    <3> QED
      BY <3>1, <3>2
  <2>7. DoneTold(c)'
    BY <1>1, <1>4, <1>5, <1>10, <1>13, <2>1, <2>3 DEF DoneTold
  <2>8. NoOtherModes(c)'
    <3>1. 1 \in DOMAIN q /\ e = q[1]
      BY <1>1
    <3>2. ~sizeFollowsWindow => e.mode.size \in SizesOf(modes)
      BY <1>4, <1>5, <1>13, <3>1 DEF NoOtherModes
    <3>3. ~sizeFollowsWindow => SizesOf(known'[c].modes) \subseteq SizesOf(modes)
      BY <1>4, <2>3, <2>4, <3>2 DEF NoOtherModes
    <3> QED
      BY <1>1, <1>2, <1>11, <3>3 DEF NoOtherModes
  <2>9. ASSUME NEW d \in Clients \ {c} PROVE KnowledgeOf(d)'
    <3>1. UNCHANGED <<wire[d], known[d], announced[d]>>
      BY <1>1, <2>1, <2>3 DEF KnownInv, OutputTypes
    <3> QED
      BY <1>2, <3>1 DEF KnownInv, KnowledgeOf, PropertiesTold, ModesTold, DoneTold, NoOtherModes
  <2>10. OutputTypes'
    BY <1>1, <1>2, <1>6, <2>1, <2>3, <2>4 DEF KnownInv, OutputTypes
  <2>11. KnowledgeOf(c)'
    BY <1>2, <1>3, <2>5, <2>6, <2>7, <2>8 DEF KnowledgeOf
  <2> QED
    BY <1>2, <2>9, <2>10, <2>11 DEF KnownInv, ModesState
<1>14. CASE e.type = "done"
  <2>1. /\ announced' = [announced EXCEPT ![c] = known[c].properties]
        /\ known' = known
    BY <1>14 DEF Hear
  <2>2. announced'[c] = known[c].properties /\ DOMAIN announced' = Clients
    BY <2>1 DEF KnownInv, OutputTypes
  <2>3. PropertiesTold(c)'
    <3>1. \A p \in Properties : e \notin Telling(p, properties[p])
      BY <1>5, <1>14 DEF Telling
    <3> QED
      BY <1>1, <1>2, <1>4, <1>8, <2>1, <3>1 DEF PropertiesTold
  <2>4. ModesTold(c)'
    <3>1. \A i \in DOMAIN modes : e \notin TellingMode(modes[i])
      BY <1>5, <1>14 DEF TellingMode
    <3> QED
      BY <1>1, <1>2, <1>4, <1>9, <2>1, <3>1 DEF ModesTold
  <2>5. DoneTold(c)'
    BY <1>1, <1>10, <2>1, <2>2 DEF DoneTold
  <2>6. NoOtherModes(c)'
    BY <1>1, <1>2, <1>4, <1>11, <2>1 DEF NoOtherModes
  <2>7. ASSUME NEW d \in Clients \ {c} PROVE KnowledgeOf(d)'
    <3>1. UNCHANGED <<wire[d], known[d], announced[d]>>
      BY <1>1, <2>1 DEF KnownInv, OutputTypes
    <3> QED
      BY <1>2, <3>1 DEF KnownInv, KnowledgeOf, PropertiesTold, ModesTold, DoneTold, NoOtherModes
  <2>8. OutputTypes'
    BY <1>1, <1>2, <2>1, <2>2 DEF KnownInv, OutputTypes
  <2>9. KnowledgeOf(c)'
    BY <1>2, <1>3, <2>3, <2>4, <2>5, <2>6 DEF KnowledgeOf
  <2> QED
    BY <1>2, <2>7, <2>8, <2>9 DEF KnownInv, ModesState
<1> QED
  BY <1>12, <1>13, <1>14 DEF Hear

-----------------------------------------------------------------------------
(* What the output sends *)

\* Client by client, an operation that changes nothing they have heard only
\* has to show what comes after the events under way.
LEMMA SendKeepsKnown ==
  ASSUME KnownInv, NEW events \in Seq(Events), Send(events),
         OutputTypes' /\ ModesState', UNCHANGED <<sizeFollowsWindow, resources, known, announced>>,
         \A p \in Properties :
           /\ Corrected(events, Denying(p, properties'[p]), Telling(p, properties'[p]))
           /\ properties'[p] = properties[p] \/ Reaches(events, Telling(p, properties'[p])),
         \A i \in DOMAIN modes' :
           /\ Corrected(events, DenyingMode(modes'[i]), TellingMode(modes'[i]))
           /\ \/ i \in DOMAIN modes /\ modes'[i] = modes[i]
              \/ Reaches(events, TellingMode(modes'[i])),
         Corrected(events, PropertyEvents, {Done}),
         ~sizeFollowsWindow => SizesOf(modes) \subseteq SizesOf(modes'),
         \A j \in DOMAIN events :
           events[j] \in ModeEvents => events[j].mode.size \in SizesOf(modes')
  PROVE  KnownInv'
<1>1. ASSUME NEW c \in Clients, c \in resources PROVE KnowledgeOf(c)'
  <2> DEFINE q == wire[c]
  <2>1. q \in Seq(Events) /\ wire'[c] = q \o events
    BY <1>1 DEF KnownInv, OutputTypes, Send
  <2>2. PropertiesTold(c) /\ ModesTold(c) /\ DoneTold(c) /\ NoOtherModes(c)
    BY <1>1 DEF KnownInv, KnowledgeOf
  <2>3. PropertiesTold(c)'
    <3> SUFFICES ASSUME NEW p \in Properties
                 PROVE  /\ Corrected(q \o events, Denying(p, properties'[p]), Telling(p, properties'[p]))
                        /\ \/ Reaches(q \o events, Telling(p, properties'[p]))
                           \/ known[c].properties[p] = properties'[p]
      BY <2>1 DEF PropertiesTold
    <3>1. LET good == Telling(p, properties'[p])
              bad  == Denying(p, properties'[p]) IN
          /\ Reaches(events, good) => Corrected(q \o events, bad, good) /\ Reaches(q \o events, good)
          /\ Corrected(q, bad, good) => Corrected(q \o events, bad, good)
          /\ Reaches(q, good) => Reaches(q \o events, good)
      BY <2>1, SentAfter
    <3>2. CASE Reaches(events, Telling(p, properties'[p]))
      BY <3>1, <3>2
    <3>3. CASE properties'[p] = properties[p]
      BY <2>2, <3>1, <3>3 DEF PropertiesTold
    <3> QED
      BY <3>2, <3>3
  <2>4. ModesTold(c)'
    <3> SUFFICES ASSUME NEW i \in DOMAIN modes'
                 PROVE  /\ Corrected(q \o events, DenyingMode(modes'[i]), TellingMode(modes'[i]))
                        /\ \/ Reaches(q \o events, TellingMode(modes'[i]))
                           \/ KnowsMode(known[c].modes, modes'[i])
      BY <2>1 DEF ModesTold
    <3>1. LET good == TellingMode(modes'[i])
              bad  == DenyingMode(modes'[i]) IN
          /\ Reaches(events, good) => Corrected(q \o events, bad, good) /\ Reaches(q \o events, good)
          /\ Corrected(q, bad, good) => Corrected(q \o events, bad, good)
          /\ Reaches(q, good) => Reaches(q \o events, good)
      BY <2>1, SentAfter
    <3>2. CASE Reaches(events, TellingMode(modes'[i]))
      BY <3>1, <3>2
    <3>3. CASE i \in DOMAIN modes /\ modes'[i] = modes[i]
      BY <2>2, <3>1, <3>3 DEF ModesTold
    <3> QED
      BY <3>2, <3>3
  <2>5. DoneTold(c)'
    <3>1. /\ Corrected(q, PropertyEvents, {Done}) => Corrected(q \o events, PropertyEvents, {Done})
          /\ Reaches(q, {Done}) => Reaches(q \o events, {Done})
      BY <2>1, SentAfter
    <3> QED
      BY <2>1, <2>2, <3>1 DEF DoneTold
  <2>6. NoOtherModes(c)'
    <3> SUFFICES ASSUME ~sizeFollowsWindow
                 PROVE  /\ SizesOf(known[c].modes) \subseteq SizesOf(modes')
                        /\ \A j \in DOMAIN (q \o events) :
                             (q \o events)[j] \in ModeEvents
                               => (q \o events)[j].mode.size \in SizesOf(modes')
      BY <2>1 DEF NoOtherModes
    <3>1. /\ SizesOf(known[c].modes) \subseteq SizesOf(modes')
          /\ \A j \in DOMAIN q : q[j] \in ModeEvents => q[j].mode.size \in SizesOf(modes')
      BY <2>2 DEF NoOtherModes
    <3>2. /\ Len(q) \in Nat /\ Len(events) \in Nat
          /\ DOMAIN q = 1..Len(q) /\ DOMAIN events = 1..Len(events)
          /\ DOMAIN (q \o events) = 1..(Len(q) + Len(events))
          /\ \A j \in DOMAIN (q \o events) :
               (q \o events)[j] = IF j <= Len(q) THEN q[j] ELSE events[j - Len(q)]
      BY <2>1
    <3>3. ASSUME NEW j \in DOMAIN (q \o events), (q \o events)[j] \in ModeEvents
          PROVE  (q \o events)[j].mode.size \in SizesOf(modes')
      <4>1. CASE j <= Len(q)
        <5>1. j \in DOMAIN q /\ (q \o events)[j] = q[j]
          BY <3>2, <4>1
        <5> QED
          BY <3>1, <3>3, <5>1
      <4>2. CASE ~(j <= Len(q))
        <5>1. j - Len(q) \in DOMAIN events /\ (q \o events)[j] = events[j - Len(q)]
          BY <3>2, <4>2
        <5> QED
          BY <3>3, <5>1
      <4> QED
        BY <4>1, <4>2
    <3> QED
      BY <3>1, <3>3
  <2> QED
    BY <1>1, <2>3, <2>4, <2>5, <2>6 DEF KnowledgeOf
<1>2. ASSUME NEW c \in Clients, c \notin resources PROVE KnowledgeOf(c)'
  BY <1>2 DEF KnownInv, KnowledgeOf, Send
<1> QED
  BY <1>1, <1>2 DEF KnownInv

\* Whatever is done to the modes, they are all sent.
LEMMA ModesKeepKnown ==
  ASSUME KnownInv, Send(ModesInfo(modes')), OutputTypes' /\ ModesState',
         UNCHANGED <<properties, sizeFollowsWindow, resources, known, announced>>,
         ~sizeFollowsWindow => SizesOf(modes) \subseteq SizesOf(modes')
  PROVE  KnownInv'
<1> DEFINE events == ModesInfo(modes')
<1>1. /\ events \in Seq(ModeEvents) /\ events \in Seq(Events)
      /\ \A j \in DOMAIN events : events[j].mode.size \in SizesOf(modes')
      /\ \A i \in DOMAIN modes' :
           /\ Corrected(events, DenyingMode(modes'[i]), TellingMode(modes'[i]))
           /\ Reaches(events, TellingMode(modes'[i]))
  BY ModesInfoTells DEF OutputTypes, ModesState
<1> HIDE DEF events
<1>2. \A j \in DOMAIN events : events[j] \in ModeEvents /\ events[j] \notin PropertyEvents
  <2>1. \A j \in DOMAIN events : events[j] \in ModeEvents
    BY <1>1
  <2> QED
    BY <2>1 DEF ModeEvents, PropertyEvents
<1>3. \A p \in Properties :
        Corrected(events, Denying(p, properties'[p]), Telling(p, properties'[p]))
  BY <1>2 DEF Corrected, Denying
<1>4. Corrected(events, PropertyEvents, {Done})
  BY <1>2 DEF Corrected
<1>5. Send(events)
  BY DEF events
<1> QED
  BY <1>1, <1>3, <1>4, <1>5, SendKeepsKnown

\* Taking a flag away takes nothing else.
LEMMA UnflaggedModes ==
  ASSUME NEW ms \in Seq(ModeRecords), NEW i \in 0..Len(ms), NEW flag
  PROVE  /\ Unflagged(ms, i, flag) \in Seq(ModeRecords)
         /\ Len(Unflagged(ms, i, flag)) = Len(ms)
         /\ DOMAIN Unflagged(ms, i, flag) = DOMAIN ms
         /\ \A j \in DOMAIN ms :
              /\ Unflagged(ms, i, flag)[j].size = ms[j].size
              /\ j # i => Unflagged(ms, i, flag)[j].flags = ms[j].flags
              /\ j = i => Unflagged(ms, i, flag)[j].flags = ms[j].flags \ {flag}
<1>1. DOMAIN ms = 1..Len(ms) /\ Len(ms) \in Nat /\ \A j \in DOMAIN ms : ms[j] \in ModeRecords
  OBVIOUS
<1>2. CASE i = 0
  BY <1>1, <1>2 DEF Unflagged
<1>3. CASE i # 0
  <2> DEFINE new == Unflagged(ms, i, flag)
  <2>1. new = [ms EXCEPT ![i] = [ms[i] EXCEPT !.flags = @ \ {flag}]]
    BY <1>3 DEF Unflagged
  <2>2. i \in DOMAIN ms
    BY <1>1, <1>3
  <2>3. /\ [ms[i] EXCEPT !.flags = @ \ {flag}] \in ModeRecords
        /\ [ms[i] EXCEPT !.flags = @ \ {flag}].size = ms[i].size
        /\ [ms[i] EXCEPT !.flags = @ \ {flag}].flags = ms[i].flags \ {flag}
    BY <1>1, <2>2 DEF ModeRecords
  <2> QED
    BY <1>1, <2>1, <2>2, <2>3
<1> QED
  BY <1>2, <1>3

\* A mode that becomes the current one takes the flag from the one that was.
LEMMA SetCurrentModeKeepsKnown ==
  ASSUME KnownInv, NEW i \in DOMAIN modes, SetCurrentMode(i)
  PROVE  KnownInv'
<1> DEFINE old == Unflagged(modes, currentMode, "current")
<1>1. /\ modes' = [old EXCEPT ![i].flags = @ \cup {"current"}]
      /\ Send(ModesInfo(modes'))
      /\ currentMode' = i /\ ~sizeFollowsWindow
      /\ UNCHANGED <<properties, sizeFollowsWindow, preferredMode, resources, known, announced, changes>>
  BY DEF SetCurrentMode, clientVars, configVars
<1>2. /\ old \in Seq(ModeRecords) /\ Len(old) = Len(modes) /\ DOMAIN old = DOMAIN modes
      /\ \A j \in DOMAIN modes :
           /\ old[j].size = modes[j].size
           /\ j # currentMode => old[j].flags = modes[j].flags
           /\ j = currentMode => old[j].flags = modes[j].flags \ {"current"}
  BY UnflaggedModes DEF KnownInv, OutputTypes
<1> HIDE DEF old
<1>3. /\ old[i] \in ModeRecords
      /\ modes' = [old EXCEPT ![i] = [size |-> old[i].size, flags |-> old[i].flags \cup {"current"}]]
  <2>1. old[i] \in ModeRecords
    BY <1>2
  <2>2. modes' = [old EXCEPT ![i] = [old[i] EXCEPT !.flags = @ \cup {"current"}]]
    BY <1>1
  <2>3. [old[i] EXCEPT !.flags = @ \cup {"current"}]
          = [size |-> old[i].size, flags |-> old[i].flags \cup {"current"}]
    BY <2>1 DEF ModeRecords
  <2> QED
    BY <2>1, <2>2, <2>3
<1>4. /\ modes' \in Seq(ModeRecords) /\ Len(modes') = Len(modes) /\ DOMAIN modes' = DOMAIN modes
      /\ modes'[i] = [size |-> old[i].size, flags |-> old[i].flags \cup {"current"}]
      /\ \A j \in DOMAIN modes : j # i => modes'[j] = old[j]
  BY <1>2, <1>3 DEF ModeRecords, Flags
<1>5. \A j \in DOMAIN modes : modes'[j].size = modes[j].size
  BY <1>2, <1>4
<1>6. ModesState'
  <2>1. \A j \in DOMAIN modes : "current" \in modes'[j].flags <=> j = i
    BY <1>2, <1>4 DEF KnownInv, ModesState
  <2>2. \A j \in DOMAIN modes : "preferred" \in modes'[j].flags => "preferred" \in modes[j].flags
    BY <1>2, <1>4
  <2> QED
    BY <1>1, <1>4, <1>5, <2>1, <2>2 DEF KnownInv, ModesState
<1>7. wire' \in [Clients -> Seq(Events)]
  <2>1. ModesInfo(modes') \in Seq(Events)
    BY <1>4, <1>6, ModesInfoTells DEF ModesState
  <2> QED
    BY <1>1, <2>1 DEF Send, KnownInv, OutputTypes
<1>8. OutputTypes'
  <2>1. i \in 0..Len(modes)
    BY DEF KnownInv, OutputTypes
  <2> QED
    BY <1>1, <1>4, <1>7, <2>1 DEF KnownInv, OutputTypes
<1>9. SizesOf(modes) \subseteq SizesOf(modes')
  BY <1>4, <1>5 DEF SizesOf
<1> QED
  BY <1>1, <1>6, <1>8, <1>9, ModesKeepKnown

\* The only mode of an output that is as large as its window changes with it.
LEMMA ResizeWindowKeepsKnown ==
  ASSUME KnownInv, NEW m \in Modes, ResizeWindow(m)
  PROVE  KnownInv'
<1>1. /\ modes' = [modes EXCEPT ![currentMode].size = m]
      /\ Send(ModesInfo(modes'))
      /\ sizeFollowsWindow
      /\ UNCHANGED <<properties, sizeFollowsWindow, currentMode, preferredMode, resources, known,
                     announced, changes>>
  BY DEF ResizeWindow, clientVars, configVars
<1>2. /\ Len(modes) = 1 /\ currentMode = 1 /\ modes \in Seq(ModeRecords) /\ DOMAIN modes = {1}
      /\ modes[1] \in ModeRecords
  BY <1>1 DEF KnownInv, ModesState, OutputTypes
<1>3. /\ modes' = [modes EXCEPT ![1] = [size |-> m, flags |-> modes[1].flags]]
      /\ [size |-> m, flags |-> modes[1].flags] \in ModeRecords
  <2>1. modes' = [modes EXCEPT ![1] = [modes[1] EXCEPT !.size = m]]
    BY <1>1, <1>2
  <2>2. [modes[1] EXCEPT !.size = m] = [size |-> m, flags |-> modes[1].flags]
    BY <1>2 DEF ModeRecords
  <2>3. [size |-> m, flags |-> modes[1].flags] \in ModeRecords
    BY <1>2 DEF ModeRecords
  <2> QED
    BY <2>1, <2>2, <2>3
<1>4. /\ modes' \in Seq(ModeRecords) /\ Len(modes') = 1 /\ DOMAIN modes' = {1}
      /\ modes'[1] = [size |-> m, flags |-> modes[1].flags]
  <2>1. modes' \in Seq(ModeRecords) /\ Len(modes') = Len(modes)
    <3> DEFINE record == [size |-> m, flags |-> modes[1].flags]
    <3>1. record \in ModeRecords /\ modes' = [modes EXCEPT ![1] = record]
      BY <1>3
    <3> HIDE DEF record
    <3> QED
      BY <1>2, <3>1
  <2>2. DOMAIN modes' = DOMAIN modes /\ modes'[1] = [size |-> m, flags |-> modes[1].flags]
    BY <1>2, <1>3
  <2> QED
    BY <1>2, <2>1, <2>2
<1>5. ModesState'
  BY <1>1, <1>2, <1>4 DEF KnownInv, ModesState
<1>6. wire' \in [Clients -> Seq(Events)]
  <2>1. ModesInfo(modes') \in Seq(Events)
    BY <1>4, <1>5, ModesInfoTells DEF ModesState
  <2> QED
    BY <1>1, <2>1 DEF Send, KnownInv, OutputTypes
<1>7. OutputTypes'
  BY <1>1, <1>2, <1>4, <1>6 DEF KnownInv, OutputTypes
<1> QED
  BY <1>1, <1>5, <1>7, ModesKeepKnown

\* A mode that is added takes the place of the one of its size, and its flags
\* from those that have them.
LEMMA AddModeKeepsKnown ==
  ASSUME Careful, KnownInv, NEW m \in Modes, NEW flags \in SUBSET Flags, AddMode(m, flags)
  PROVE  KnownInv'
<1> DEFINE one   == IF "current" \in flags THEN Unflagged(modes, currentMode, "current")
                    ELSE modes
           two   == IF "preferred" \in flags THEN Unflagged(one, preferredMode, "preferred")
                    ELSE one
           there == {i \in DOMAIN two : two[i].size = m}
           at    == IF there = {} THEN Len(two) + 1 ELSE CHOOSE i \in there : TRUE
           new   == [i \in 1..Len(two) \cup {at} |->
                       IF i = at THEN [size |-> m, flags |-> flags] ELSE two[i]]
           same  == at \in DOMAIN two /\ two[at].flags = flags
<1>1. /\ modes' = new
      /\ currentMode' = IF "current" \notin flags THEN currentMode ELSE IF same THEN 0 ELSE at
      /\ preferredMode' = IF "preferred" \notin flags THEN preferredMode ELSE IF same THEN 0 ELSE at
      /\ IF same THEN UNCHANGED wire ELSE Send(ModesInfo(new))
  BY DEF AddMode
<1>2. /\ ~sizeFollowsWindow
      /\ UNCHANGED <<properties, sizeFollowsWindow, resources, known, announced, changes>>
      /\ "current" \notin flags => \A i \in DOMAIN modes : i = currentMode => modes[i].size # m
  BY DEF AddMode, clientVars, configVars
<1>3. /\ modes \in Seq(ModeRecords) /\ Len(modes) \in Nat /\ DOMAIN modes = 1..Len(modes)
      /\ currentMode \in 0..Len(modes) /\ preferredMode \in 0..Len(modes)
      /\ ModesState
  BY DEF KnownInv, OutputTypes
<1>4. /\ one \in Seq(ModeRecords) /\ Len(one) = Len(modes) /\ DOMAIN one = DOMAIN modes
      /\ \A j \in DOMAIN modes :
           /\ one[j].size = modes[j].size
           /\ "current" \in one[j].flags <=> "current" \notin flags /\ j = currentMode
           /\ "preferred" \in one[j].flags => j = preferredMode
           /\ "current" \notin flags => one[j] = modes[j]
  <2>1. CASE "current" \in flags
    <3>1. one = Unflagged(modes, currentMode, "current")
      BY <2>1
    <3>2. /\ one \in Seq(ModeRecords) /\ Len(one) = Len(modes) /\ DOMAIN one = DOMAIN modes
          /\ \A j \in DOMAIN modes :
               /\ one[j].size = modes[j].size
               /\ j # currentMode => one[j].flags = modes[j].flags
               /\ j = currentMode => one[j].flags = modes[j].flags \ {"current"}
      BY <1>3, <3>1, UnflaggedModes
    <3> HIDE DEF one
    <3> QED
      BY <1>3, <2>1, <3>2 DEF ModesState
  <2>2. CASE "current" \notin flags
    BY <1>3, <2>2 DEF ModesState
  <2> QED
    BY <2>1, <2>2
<1> HIDE DEF one
<1>5. /\ two \in Seq(ModeRecords) /\ Len(two) = Len(modes) /\ DOMAIN two = DOMAIN modes
      /\ \A j \in DOMAIN modes :
           /\ two[j].size = modes[j].size
           /\ "current" \in two[j].flags <=> "current" \notin flags /\ j = currentMode
           /\ "preferred" \in two[j].flags => "preferred" \notin flags /\ j = preferredMode
           /\ flags \cap {"current", "preferred"} = {} => two[j] = modes[j]
  <2>1. CASE "preferred" \in flags
    <3>1. two = Unflagged(one, preferredMode, "preferred")
      BY <2>1
    <3>2. /\ two \in Seq(ModeRecords) /\ Len(two) = Len(one) /\ DOMAIN two = DOMAIN one
          /\ \A j \in DOMAIN one :
               /\ two[j].size = one[j].size
               /\ j # preferredMode => two[j].flags = one[j].flags
               /\ j = preferredMode => two[j].flags = one[j].flags \ {"preferred"}
      BY <1>3, <1>4, <3>1, UnflaggedModes
    <3> HIDE DEF two
    <3> QED
      BY <1>4, <2>1, <3>2
  <2>2. CASE "preferred" \notin flags
    BY <1>4, <2>2
  <2> QED
    BY <2>1, <2>2
<1> HIDE DEF two
<1>6. /\ at \in 1..(Len(modes) + 1)
      /\ at \in DOMAIN modes => modes[at].size = m
      /\ \A j \in DOMAIN modes : j # at => modes[j].size # m
  <2>1. CASE there = {}
    BY <1>3, <1>5, <2>1
  <2>2. CASE there # {}
    <3>1. at \in there
      BY <2>2
    <3> QED
      BY <1>3, <1>5, <3>1 DEF ModesState
  <2> QED
    BY <2>1, <2>2
<1> HIDE DEF at
<1>7. CASE same
  <2>1. flags \cap {"current", "preferred"} = {}
    BY <1>5, <1>7
  <2>2. two[at] = modes[at] /\ at \in DOMAIN modes
    BY <1>5, <1>7, <2>1
  <2>3. modes[at] = [size |-> m, flags |-> flags]
    <3>1. modes[at] \in ModeRecords /\ modes[at].flags = flags
      BY <1>3, <1>7, <2>2
    <3> QED
      BY <1>6, <2>2, <3>1 DEF ModeRecords
  <2>4. new = [i \in DOMAIN modes |-> modes[i]]
    BY <1>3, <1>5, <2>1, <2>2, <2>3
  <2>5. UNCHANGED <<modes, currentMode, preferredMode, wire>>
    BY <1>1, <1>3, <1>7, <2>1, <2>4
  <2> QED
    BY <1>2, <2>5 DEF KnownInv, OutputTypes, ModesState, KnowledgeOf, PropertiesTold, ModesTold,
                      DoneTold, NoOtherModes
<1>8. CASE ~same
  <2> DEFINE size == IF at = Len(modes) + 1 THEN at ELSE Len(modes)
  <2>1. 1..Len(two) \cup {at} = 1..size /\ size \in Nat
    BY <1>3, <1>5, <1>6
  <2>2. [size |-> m, flags |-> flags] \in ModeRecords
    BY DEF ModeRecords
  <2>3. \A i \in 1..size : i # at => i \in DOMAIN modes /\ two[i] \in ModeRecords
    BY <1>3, <1>5, <1>6
  <2>4. /\ modes' \in Seq(ModeRecords) /\ Len(modes') = size /\ DOMAIN modes' = 1..size
        /\ modes'[at] = [size |-> m, flags |-> flags]
        /\ \A i \in 1..size : i # at => modes'[i] = two[i]
    <3>1. modes' = [i \in 1..size |-> IF i = at THEN [size |-> m, flags |-> flags] ELSE two[i]]
      BY <1>1, <2>1
    <3> HIDE DEF size
    <3> QED
      BY <1>6, <2>1, <2>2, <2>3, <3>1
  <2>5. at \in 1..size /\ DOMAIN modes \subseteq 1..size
    BY <1>3, <1>6
  <2>6. /\ currentMode' = IF "current" \in flags THEN at ELSE currentMode
        /\ preferredMode' = IF "preferred" \in flags THEN at ELSE preferredMode
        /\ Send(ModesInfo(modes'))
    BY <1>1, <1>8
  <2>7. currentMode' \in 0..size /\ preferredMode' \in 0..size
    BY <1>3, <2>5, <2>6
  <2> HIDE DEF size
  <2>8. ModesState'
    <3>1. \A i, j \in 1..size : modes'[i].size = modes'[j].size => i = j
      <4> TAKE i, j \in 1..size
      <4>1. \A k \in 1..size : k # at => modes'[k].size = modes[k].size /\ modes[k].size # m
        BY <1>5, <1>6, <2>3, <2>4
      <4>2. modes'[at].size = m
        BY <2>4
      <4> QED
        BY <1>3, <2>3, <4>1, <4>2 DEF ModesState
    <3>2. \A i \in 1..size : "current" \in modes'[i].flags <=> i = currentMode'
      <4> TAKE i \in 1..size
      <4>1. CASE i = at
        <5>1. modes'[i].flags = flags
          BY <2>4, <4>1
        <5>2. "current" \notin flags => at # currentMode
          BY <1>2, <1>3, <1>6
        <5> QED
          BY <2>6, <4>1, <5>1, <5>2
      <4>2. CASE i # at
        BY <1>5, <2>3, <2>4, <2>6, <4>2
      <4> QED
        BY <4>1, <4>2
    <3>3. \A i \in 1..size : "preferred" \in modes'[i].flags => i = preferredMode'
      <4> TAKE i \in 1..size
      <4>1. CASE i = at
        <5>1. modes'[i].flags = flags
          BY <2>4, <4>1
        <5> QED
          BY <2>6, <4>1, <5>1
      <4>2. CASE i # at
        BY <1>5, <2>3, <2>4, <2>6, <4>2
      <4> QED
        BY <4>1, <4>2
    <3> QED
      BY <1>2, <2>4, <3>1, <3>2, <3>3 DEF ModesState
  <2>9. wire' \in [Clients -> Seq(Events)]
    <3>1. ModesInfo(modes') \in Seq(Events)
      BY <2>4, <2>8, ModesInfoTells DEF ModesState
    <3> QED
      BY <2>6, <3>1 DEF Send, KnownInv, OutputTypes
  <2>10. OutputTypes'
    BY <1>2, <2>4, <2>7, <2>9 DEF KnownInv, OutputTypes
  <2>11. SizesOf(modes) \subseteq SizesOf(modes')
    <3>1. \A j \in DOMAIN modes : modes'[j].size = modes[j].size
      BY <1>5, <1>6, <2>4, <2>5
    <3> QED
      BY <2>4, <2>5, <3>1 DEF SizesOf
  <2> QED
    BY <1>2, <2>6, <2>8, <2>10, <2>11, ModesKeepKnown
<1> QED
  BY <1>7, <1>8

\* An event with wl_output.done says what it says, and nothing else.
LEMMA TellsThis ==
  ASSUME NEW e \in PropertyEvents
  PROVE  /\ <<e, Done>> \in Seq(PropertyEvents \cup {Done})
         /\ Corrected(<<e, Done>>, PropertyEvents, {Done}) /\ Reaches(<<e, Done>>, {Done})
         /\ \A p, v : e \notin Denying(p, v) =>
              Corrected(<<e, Done>>, Denying(p, v), Telling(p, v))
         /\ \A p, v : e \in Telling(p, v) => Reaches(<<e, Done>>, Telling(p, v))
<1> DEFINE r == <<e, Done>>
<1>1. r \in Seq(PropertyEvents \cup {Done}) /\ DOMAIN r = 1..2 /\ r[1] = e /\ r[2] = Done
  OBVIOUS
<1>2. Done \notin PropertyEvents
  BY DEF Done, PropertyEvents
<1> HIDE DEF r
<1>3. DOMAIN r = {1, 2}
  BY <1>1
<1>4. Corrected(r, PropertyEvents, {Done}) /\ Reaches(r, {Done})
  BY <1>1, <1>2, <1>3 DEF Corrected, Reaches
<1>5. ASSUME NEW p, NEW v, e \notin Denying(p, v) PROVE Corrected(r, Denying(p, v), Telling(p, v))
  BY <1>1, <1>2, <1>3, <1>5 DEF Corrected, Denying
<1>6. ASSUME NEW p, NEW v, e \in Telling(p, v) PROVE Reaches(r, Telling(p, v))
  BY <1>1, <1>3, <1>6 DEF Reaches
<1> QED
  BY <1>1, <1>4, <1>5, <1>6 DEF r

\* What is sent when the properties change from f to g.
Tell(f, g, e) == IF f = g THEN <<>> ELSE <<e, Done>>

\* Properties say nothing of modes.
LEMMA SaysNothingOfModes ==
  ASSUME NEW q \in Seq(PropertyEvents \cup {Done})
  PROVE  /\ q \in Seq(Events)
         /\ \A j \in DOMAIN q : q[j] \notin ModeEvents
         /\ \A m : Corrected(q, DenyingMode(m), TellingMode(m))
<1>1. q \in Seq(Events)
  BY DEF Events
<1>2. \A j \in DOMAIN q : q[j] \in PropertyEvents \cup {Done}
  OBVIOUS
<1>3. \A j \in DOMAIN q : q[j] \notin ModeEvents
  BY <1>2 DEF ModeEvents, PropertyEvents, Done
<1> QED
  BY <1>1, <1>3 DEF Corrected, DenyingMode

LEMMA GeometryTells ==
  ASSUME NEW f \in [Properties -> Values]
  PROVE  /\ Geometry(f) \in PropertyEvents
         /\ \A v : Geometry(f) \notin Denying("scale", v)
         /\ \A p \in {"transform", "position"} : \A v :
              /\ v = f[p] => Geometry(f) \in Telling(p, v) /\ Geometry(f) \notin Denying(p, v)
<1> DEFINE of == [p \in {"position", "transform"} |-> f[p]]
<1>1. Geometry(f) = [type |-> "properties", of |-> of]
  BY DEF Geometry
<1>2. of \in [{"position", "transform"} -> Values] /\ {"position", "transform"} \in SUBSET Properties
  BY DEF Properties
<1>3. of \in UNION {[d -> Values] : d \in SUBSET Properties}
  BY <1>2
<1>4. DOMAIN of = {"position", "transform"} /\ \A p \in {"transform", "position"} : of[p] = f[p]
  OBVIOUS
<1> HIDE DEF of
<1>5. Geometry(f) \in PropertyEvents
  BY <1>1, <1>3 DEF PropertyEvents
<1>6. Geometry(f).of = of
  BY <1>1
<1> QED
  BY <1>4, <1>5, <1>6 DEF Telling, Denying

LEMMA ScaleTells ==
  ASSUME NEW f \in [Properties -> Values]
  PROVE  /\ Scale(f) \in PropertyEvents
         /\ \A p \in {"transform", "position"} : \A v : Scale(f) \notin Denying(p, v)
         /\ \A v : v = f["scale"] =>
              Scale(f) \in Telling("scale", v) /\ Scale(f) \notin Denying("scale", v)
<1> DEFINE of == [p \in {"scale"} |-> f[p]]
<1>1. Scale(f) = [type |-> "properties", of |-> of]
  BY DEF Scale
<1>2. of \in [{"scale"} -> Values] /\ {"scale"} \in SUBSET Properties
  BY DEF Properties
<1>3. of \in UNION {[d -> Values] : d \in SUBSET Properties}
  BY <1>2
<1>4. DOMAIN of = {"scale"} /\ of["scale"] = f["scale"]
  OBVIOUS
<1> HIDE DEF of
<1>5. Scale(f) \in PropertyEvents
  BY <1>1, <1>3 DEF PropertyEvents
<1>6. Scale(f).of = of
  BY <1>1
<1> QED
  BY <1>4, <1>5, <1>6 DEF Telling, Denying

\* A client that binds the output is told all of it.
LEMMA BindKeepsKnown ==
  ASSUME KnownInv, NEW c \in Clients, Bind(c)
  PROVE  KnownInv'
<1> DEFINE g  == <<Geometry(properties)>>
           mi == ModesInfo(modes)
           sd == <<Scale(properties), Done>>
<1>1. /\ c \notin resources /\ resources' = resources \cup {c}
      /\ wire' = [wire EXCEPT ![c] = g \o mi \o sd]
      /\ UNCHANGED <<properties, sizeFollowsWindow, modes, currentMode, preferredMode, known,
                     announced, changes>>
  BY DEF Bind, modeVars, configVars
<1>2. properties \in [Properties -> Values] /\ modes \in Seq(ModeRecords)
  BY DEF KnownInv, OutputTypes
<1>3. Geometry(properties) \in PropertyEvents /\ Scale(properties) \in PropertyEvents
  BY <1>2, GeometryTells, ScaleTells
<1>4. /\ g \in Seq(Events) /\ DOMAIN g = {1} /\ g[1] = Geometry(properties)
  BY <1>3 DEF Events
<1>5. /\ mi \in Seq(Events) /\ mi \in Seq(ModeEvents)
      /\ \A j \in DOMAIN mi : mi[j].mode.size \in SizesOf(modes)
      /\ \A i \in DOMAIN modes :
           /\ Corrected(mi, DenyingMode(modes[i]), TellingMode(modes[i]))
           /\ Reaches(mi, TellingMode(modes[i]))
  BY <1>2, ModesInfoTells DEF KnownInv, ModesState
<1>6. /\ sd \in Seq(PropertyEvents \cup {Done}) /\ sd \in Seq(Events)
      /\ \A j \in DOMAIN sd : sd[j] \notin ModeEvents
      /\ \A m : Corrected(sd, DenyingMode(m), TellingMode(m))
      /\ Corrected(sd, PropertyEvents, {Done}) /\ Reaches(sd, {Done})
      /\ \A p, v : Scale(properties) \notin Denying(p, v) => Corrected(sd, Denying(p, v), Telling(p, v))
      /\ \A p, v : Scale(properties) \in Telling(p, v) => Reaches(sd, Telling(p, v))
  BY <1>3, TellsThis, SaysNothingOfModes
<1> HIDE DEF g, mi, sd
<1>7. g \o mi \in Seq(Events) /\ g \o mi \o sd \in Seq(Events)
  BY <1>4, <1>5, <1>6
<1>8. wire'[c] = g \o mi \o sd /\ \A d \in Clients \ {c} : wire'[d] = wire[d]
  BY <1>1 DEF KnownInv, OutputTypes
<1>9. PropertiesTold(c)'
  <2>1. ASSUME NEW p \in {"transform", "position"}
        PROVE  /\ Corrected(g \o mi \o sd, Denying(p, properties[p]), Telling(p, properties[p]))
               /\ Reaches(g \o mi \o sd, Telling(p, properties[p]))
    <3> DEFINE bad  == Denying(p, properties[p])
               good == Telling(p, properties[p])
    <3>1. Geometry(properties) \in good /\ Geometry(properties) \notin bad /\ Scale(properties) \notin bad
      BY <1>2, GeometryTells, ScaleTells
    <3>2. Corrected(g, bad, good) /\ Reaches(g, good)
      BY <1>4, <3>1 DEF Corrected, Reaches
    <3>3. Corrected(mi, bad, good)
      <4>1. \A j \in DOMAIN mi : mi[j] \in ModeEvents
        BY <1>5
      <4>2. \A j \in DOMAIN mi : mi[j] \notin PropertyEvents
        BY <4>1 DEF ModeEvents, PropertyEvents
      <4> QED
        BY <4>2 DEF Corrected, Denying
    <3>4. Corrected(sd, bad, good)
      BY <1>6, <3>1
    <3> HIDE DEF bad, good
    <3>5. Corrected(g \o mi, bad, good) /\ Reaches(g \o mi, good)
      BY <1>4, <1>5, <3>2, <3>3, SentAfter
    <3>6. Corrected(g \o mi \o sd, bad, good) /\ Reaches(g \o mi \o sd, good)
      BY <1>6, <1>7, <3>4, <3>5, SentAfter
    <3> QED
      BY <3>6 DEF bad, good
  <2>2. /\ Corrected(g \o mi \o sd, Denying("scale", properties["scale"]), Telling("scale", properties["scale"]))
        /\ Reaches(g \o mi \o sd, Telling("scale", properties["scale"]))
    <3> DEFINE bad  == Denying("scale", properties["scale"])
               good == Telling("scale", properties["scale"])
    <3>1. Scale(properties) \in good /\ Scale(properties) \notin bad
      BY <1>2, ScaleTells
    <3>2. Corrected(sd, bad, good) /\ Reaches(sd, good)
      BY <1>6, <3>1
    <3> HIDE DEF bad, good
    <3>3. Corrected(g \o mi \o sd, bad, good) /\ Reaches(g \o mi \o sd, good)
      BY <1>6, <1>7, <3>2, SentAfter
    <3> QED
      BY <3>3 DEF bad, good
  <2> QED
    BY <1>1, <1>8, <2>1, <2>2 DEF PropertiesTold, Properties
<1>10. ModesTold(c)'
  <2>1. ASSUME NEW i \in DOMAIN modes
        PROVE  /\ Corrected(g \o mi \o sd, DenyingMode(modes[i]), TellingMode(modes[i]))
               /\ Reaches(g \o mi \o sd, TellingMode(modes[i]))
    <3>1. Corrected(g \o mi, DenyingMode(modes[i]), TellingMode(modes[i])) /\ Reaches(g \o mi, TellingMode(modes[i]))
      BY <1>4, <1>5, SentAfter
    <3> QED
      BY <1>6, <1>7, <3>1, SentAfter
  <2> QED
    BY <1>1, <1>8, <2>1 DEF ModesTold
<1>11. DoneTold(c)'
  <2>1. Corrected(g \o mi \o sd, PropertyEvents, {Done}) /\ Reaches(g \o mi \o sd, {Done})
    BY <1>6, <1>7, SentAfter
  <2> QED
    BY <1>8, <2>1 DEF DoneTold
<1>12. NoOtherModes(c)'
  <2> DEFINE Plain == {e \in Events : e \in ModeEvents => e.mode.size \in SizesOf(modes)}
  <2>1. g \in Seq(Plain)
    <3>1. Geometry(properties) \in Plain
      BY <1>3 DEF Events, PropertyEvents, ModeEvents
    <3> QED
      BY <1>4, <3>1 DEF g
  <2>2. mi \in Seq(Plain)
    <3>1. \A j \in DOMAIN mi : mi[j] \in Plain
      BY <1>5
    <3> HIDE DEF Plain
    <3> QED
      BY <1>5, <3>1
  <2>3. sd \in Seq(Plain)
    <3>1. \A j \in DOMAIN sd : sd[j] \in Plain
      BY <1>6
    <3> HIDE DEF Plain
    <3> QED
      BY <1>6, <3>1
  <2>4. g \o mi \o sd \in Seq(Plain)
    <3> HIDE DEF Plain
    <3>1. g \o mi \in Seq(Plain)
      BY <2>1, <2>2
    <3> QED
      BY <2>3, <3>1
  <2>5. \A j \in DOMAIN (g \o mi \o sd) : (g \o mi \o sd)[j] \in Plain
    <3> HIDE DEF Plain
    <3> QED
      BY <2>4
  <2>6. known[c].modes = <<>>
    BY <1>1 DEF KnownInv, KnowledgeOf
  <2>7. SizesOf(<<>>) = {}
    BY DEF SizesOf
  <2> QED
    BY <1>1, <1>8, <2>5, <2>6, <2>7 DEF NoOtherModes
<1>13. KnowledgeOf(c)'
  BY <1>1, <1>9, <1>10, <1>11, <1>12 DEF KnowledgeOf
<1>14. ASSUME NEW d \in Clients \ {c} PROVE KnowledgeOf(d)'
  BY <1>1, <1>8 DEF KnownInv, KnowledgeOf, PropertiesTold, ModesTold, DoneTold, NoOtherModes
<1>15. OutputTypes'
  BY <1>1, <1>7 DEF KnownInv, OutputTypes
<1> QED
  BY <1>1, <1>13, <1>14, <1>15 DEF KnownInv, ModesState

\* What is told of a property that changes comes last; of one that does not,
\* nothing else is told.
LEMMA TellFacts ==
  ASSUME NEW f, NEW g, NEW e \in PropertyEvents
  PROVE  /\ Tell(f, g, e) \in Seq(PropertyEvents \cup {Done})
         /\ Corrected(Tell(f, g, e), PropertyEvents, {Done})
         /\ \A p, v : e \notin Denying(p, v) => Corrected(Tell(f, g, e), Denying(p, v), Telling(p, v))
         /\ \A p, v : f # g /\ e \in Telling(p, v) => Reaches(Tell(f, g, e), Telling(p, v))
<1>1. CASE f = g
  <2>1. Tell(f, g, e) = <<>>
    BY <1>1 DEF Tell
  <2>2. <<>> \in Seq(PropertyEvents \cup {Done}) /\ \A bad, good : Corrected(<<>>, bad, good)
    BY DEF Corrected
  <2> QED
    BY <1>1, <2>1, <2>2
<1>2. CASE f # g
  <2>1. Tell(f, g, e) = <<e, Done>>
    BY <1>2 DEF Tell
  <2> QED
    BY <2>1, TellsThis
<1> QED
  BY <1>1, <1>2

\* A change set that is applied is told in three steps.
LEMMA AppliedInSteps ==
  ASSUME KnownInv, NEW k \in Configurations, ApplyChangeset(k)
  PROVE  \E one, two \in [Properties -> Values] :
           /\ properties' \in [Properties -> Values]
           /\ one["transform"] = properties'["transform"]
           /\ one["position"] = properties["position"]
           /\ two["transform"] = properties'["transform"]
           /\ two["position"] = properties'["position"]
           /\ two["scale"] = properties["scale"]
           /\ Send(Tell(one, properties, Geometry(one))
                     \o Tell(two, one, Geometry(two))
                     \o Tell(properties', two, Scale(properties')))
<1> DEFINE upTo(i) == [p \in Properties |->
                         IF p \in {Order[j] : j \in 1..i} THEN PendingChanges(k)[p]
                         ELSE properties[p]]
           sent(i) == IF upTo(i) = upTo(i - 1) THEN <<>>
                      ELSE <<IF Order[i] = "scale" THEN Scale(upTo(i)) ELSE Geometry(upTo(i)), Done>>
<1>1. properties' = upTo(3) /\ Send(sent(1) \o sent(2) \o sent(3))
  BY DEF ApplyChangeset
<1>2. properties \in [Properties -> Values] /\ PendingChanges(k) \in [Properties -> Values]
  BY DEF KnownInv, OutputTypes, PendingChanges
<1>3. Order[1] = "transform" /\ Order[2] = "position" /\ Order[3] = "scale"
  BY DEF Order
<1>4. /\ {Order[j] : j \in 1..0} = {}
      /\ {Order[j] : j \in 1..1} = {"transform"}
      /\ {Order[j] : j \in 1..2} = {"transform", "position"}
      /\ {Order[j] : j \in 1..3} = {"transform", "position", "scale"}
  <2>1. 1..0 = {} /\ 1..1 = {1} /\ 1..2 = {1, 2} /\ 1..3 = {1, 2, 3}
    OBVIOUS
  <2> QED
    BY <1>3, <2>1
<1>5. \A p \in Properties :
        /\ upTo(0)[p] = properties[p]
        /\ upTo(1)[p] = IF p = "transform" THEN PendingChanges(k)[p] ELSE properties[p]
        /\ upTo(2)[p] = IF p \in {"transform", "position"} THEN PendingChanges(k)[p] ELSE properties[p]
        /\ upTo(3)[p] = IF p \in {"transform", "position", "scale"} THEN PendingChanges(k)[p]
                        ELSE properties[p]
  BY <1>4
<1>6. /\ upTo(0) = properties
      /\ upTo(1) \in [Properties -> Values] /\ upTo(2) \in [Properties -> Values]
      /\ upTo(3) \in [Properties -> Values]
  <2>1. \A p \in Properties : /\ upTo(1)[p] \in Values /\ upTo(2)[p] \in Values
                               /\ upTo(3)[p] \in Values
    <3> HIDE DEF upTo
    <3> QED
      BY <1>2, <1>5
  <2>2. upTo(0) = [p \in Properties |-> properties[p]]
    BY <1>4
  <2> QED
    BY <1>2, <2>1, <2>2
<1>7. /\ sent(1) = Tell(upTo(1), upTo(0), Geometry(upTo(1)))
      /\ sent(2) = Tell(upTo(2), upTo(1), Geometry(upTo(2)))
      /\ sent(3) = Tell(upTo(3), upTo(2), Scale(upTo(3)))
  <2>1. 1 - 1 = 0 /\ 2 - 1 = 1 /\ 3 - 1 = 2
    OBVIOUS
  <2> HIDE DEF upTo
  <2>2. "position" # "scale" /\ "transform" # "scale"
    OBVIOUS
  <2> QED
    BY <1>3, <2>1, <2>2 DEF Tell
<1> HIDE DEF sent, upTo
<1>8. Send(Tell(upTo(1), properties, Geometry(upTo(1)))
             \o Tell(upTo(2), upTo(1), Geometry(upTo(2)))
             \o Tell(properties', upTo(2), Scale(properties')))
  BY <1>1, <1>6, <1>7
<1>9. /\ upTo(1)["transform"] = properties'["transform"]
      /\ upTo(1)["position"] = properties["position"]
      /\ upTo(2)["transform"] = properties'["transform"]
      /\ upTo(2)["position"] = properties'["position"]
      /\ upTo(2)["scale"] = properties["scale"]
  BY <1>1, <1>5 DEF Properties
<1> QED
  BY <1>1, <1>6, <1>8, <1>9

\* What is told in between is corrected.
LEMMA ApplyKeepsKnown ==
  ASSUME KnownInv, NEW k \in Configurations, Apply(k)
  PROVE  KnownInv'
<1>1. PICK one, two \in [Properties -> Values] :
        /\ properties' \in [Properties -> Values]
        /\ one["transform"] = properties'["transform"]
        /\ one["position"] = properties["position"]
        /\ two["transform"] = properties'["transform"]
        /\ two["position"] = properties'["position"]
        /\ two["scale"] = properties["scale"]
        /\ Send(Tell(one, properties, Geometry(one))
                  \o Tell(two, one, Geometry(two))
                  \o Tell(properties', two, Scale(properties')))
  BY AppliedInSteps DEF Apply
<1> DEFINE a == Tell(one, properties, Geometry(one))
           b == Tell(two, one, Geometry(two))
           d == Tell(properties', two, Scale(properties'))
<1>2. Geometry(one) \in PropertyEvents /\ Geometry(two) \in PropertyEvents /\ Scale(properties') \in PropertyEvents
  BY <1>1, GeometryTells, ScaleTells
<1>3. /\ a \in Seq(PropertyEvents \cup {Done}) /\ b \in Seq(PropertyEvents \cup {Done})
      /\ d \in Seq(PropertyEvents \cup {Done})
      /\ Corrected(a, PropertyEvents, {Done}) /\ Corrected(b, PropertyEvents, {Done})
      /\ Corrected(d, PropertyEvents, {Done})
  BY <1>2, TellFacts
<1>4. ASSUME NEW p, NEW v
      PROVE  /\ Geometry(one) \notin Denying(p, v) => Corrected(a, Denying(p, v), Telling(p, v))
             /\ Geometry(two) \notin Denying(p, v) => Corrected(b, Denying(p, v), Telling(p, v))
             /\ Scale(properties') \notin Denying(p, v) => Corrected(d, Denying(p, v), Telling(p, v))
             /\ one # properties /\ Geometry(one) \in Telling(p, v) => Reaches(a, Telling(p, v))
             /\ two # one /\ Geometry(two) \in Telling(p, v) => Reaches(b, Telling(p, v))
             /\ properties' # two /\ Scale(properties') \in Telling(p, v) => Reaches(d, Telling(p, v))
  BY <1>2, TellFacts
<1> HIDE DEF a, b, d
<1>5. /\ a \o b \in Seq(PropertyEvents \cup {Done})
      /\ a \o b \o d \in Seq(PropertyEvents \cup {Done})
  BY <1>3
<1>6. /\ a \o b \o d \in Seq(Events)
      /\ \A j \in DOMAIN (a \o b \o d) : (a \o b \o d)[j] \notin ModeEvents
      /\ \A m : Corrected(a \o b \o d, DenyingMode(m), TellingMode(m))
  BY <1>5, SaysNothingOfModes
<1>7. ASSUME NEW p \in Properties
      PROVE  LET good == Telling(p, properties'[p])
                 bad  == Denying(p, properties'[p]) IN
             /\ Corrected(a \o b \o d, bad, good)
             /\ properties'[p] = properties[p] \/ Reaches(a \o b \o d, good)
  <2> DEFINE good == Telling(p, properties'[p])
             bad  == Denying(p, properties'[p])
  <2>1. CASE p = "transform"
    <3>1. /\ Geometry(one) \in good /\ Geometry(one) \notin bad
          /\ Geometry(two) \notin bad /\ Scale(properties') \notin bad
      BY <1>1, <2>1, GeometryTells, ScaleTells
    <3>2. /\ Corrected(a, bad, good) /\ Corrected(b, bad, good) /\ Corrected(d, bad, good)
          /\ one # properties => Reaches(a, good)
      BY <1>4, <3>1
    <3>3. properties'[p] # properties[p] => one # properties
      BY <1>1, <2>1
    <3> HIDE DEF bad, good
    <3>4. Corrected(a \o b, bad, good) /\ (one # properties => Reaches(a \o b, good))
      BY <1>3, <3>2, SentAfter
    <3>5. Corrected(a \o b \o d, bad, good) /\ (one # properties => Reaches(a \o b \o d, good))
      BY <1>3, <1>5, <3>2, <3>4, SentAfter
    <3> QED
      BY <3>3, <3>5 DEF bad, good
  <2>2. CASE p = "position"
    <3>1. /\ Geometry(two) \in good /\ Geometry(two) \notin bad /\ Scale(properties') \notin bad
          /\ properties'[p] = properties[p] => Geometry(one) \notin bad
      BY <1>1, <2>2, GeometryTells, ScaleTells
    <3>2. /\ Corrected(b, bad, good) /\ Corrected(d, bad, good)
          /\ two # one => Reaches(b, good)
          /\ properties'[p] = properties[p] => Corrected(a, bad, good)
      BY <1>4, <3>1
    <3>3. properties'[p] # properties[p] => two # one
      BY <1>1, <2>2
    <3> HIDE DEF bad, good
    <3>4. /\ Corrected(a \o b, bad, good)
          /\ properties'[p] # properties[p] => Reaches(a \o b, good)
      BY <1>3, <3>2, <3>3, SentAfter
    <3>5. /\ Corrected(a \o b \o d, bad, good)
          /\ properties'[p] # properties[p] => Reaches(a \o b \o d, good)
      BY <1>3, <1>5, <3>2, <3>4, SentAfter
    <3> QED
      BY <3>5 DEF bad, good
  <2>3. CASE p = "scale"
    <3>1. /\ Scale(properties') \in good /\ Scale(properties') \notin bad
          /\ Geometry(one) \notin bad /\ Geometry(two) \notin bad
      BY <1>1, <2>3, GeometryTells, ScaleTells
    <3>2. /\ Corrected(a, bad, good) /\ Corrected(b, bad, good) /\ Corrected(d, bad, good)
          /\ properties' # two => Reaches(d, good)
      BY <1>4, <3>1
    <3>3. properties'[p] # properties[p] => properties' # two
      BY <1>1, <2>3
    <3> HIDE DEF bad, good
    <3>4. Corrected(a \o b, bad, good)
      BY <1>3, <3>2, SentAfter
    <3>5. /\ Corrected(a \o b \o d, bad, good)
          /\ properties'[p] # properties[p] => Reaches(a \o b \o d, good)
      BY <1>3, <1>5, <3>2, <3>3, <3>4, SentAfter
    <3> QED
      BY <3>5 DEF bad, good
  <2> QED
    BY <2>1, <2>2, <2>3 DEF Properties
<1>8. Corrected(a \o b \o d, PropertyEvents, {Done})
  <2>1. Corrected(a \o b, PropertyEvents, {Done})
    BY <1>3, SentAfter
  <2> QED
    BY <1>3, <1>5, <2>1, SentAfter
<1>9. /\ changes' = [changes EXCEPT ![k] = NoChangeset]
      /\ UNCHANGED <<sizeFollowsWindow, modes, currentMode, preferredMode, resources, known, announced>>
      /\ Send(a \o b \o d)
  BY <1>1 DEF Apply, modeVars, clientVars, a, b, d
<1>10. wire' \in [Clients -> Seq(Events)]
  BY <1>6, <1>9 DEF Send, KnownInv, OutputTypes
<1>11. OutputTypes' /\ ModesState'
  BY <1>1, <1>9, <1>10 DEF KnownInv, OutputTypes, ModesState
<1> HIDE DEF KnownInv
<1> QED
  BY <1>6, <1>7, <1>8, <1>9, <1>11, SendKeepsKnown

LEMMA RequestKeepsKnown ==
  ASSUME Changing \subseteq Properties, KnownInv,
         NEW k \in Configurations, NEW p \in Changing, NEW v \in Values, Request(k, p, v)
  PROVE  KnownInv'
<1>1. PendingChanges(k) \in [Properties -> Values]
  BY DEF KnownInv, OutputTypes, PendingChanges
<1>2. With(PendingChanges(k), p, v) \in [Properties -> Values]
  BY <1>1 DEF With
<1>3. changes' \in [Configurations -> [Properties -> Values] \cup {NoChangeset}]
  BY <1>2 DEF Request, KnownInv, OutputTypes
<1>4. UNCHANGED <<properties, sizeFollowsWindow, modes, currentMode, preferredMode, resources, known,
                  announced, wire>>
  BY DEF Request, modeVars, clientVars
<1> QED
  BY <1>3, <1>4 DEF KnownInv, OutputTypes, ModesState, KnowledgeOf, PropertiesTold, ModesTold,
                    DoneTold, NoOtherModes

\* Before anybody has bound the output, nobody knows it.
LEMMA KnownInit == OutputInit => KnownInv
<1> SUFFICES ASSUME OutputInit PROVE KnownInv
  OBVIOUS
<1> DEFINE default == [p \in Properties |-> CHOOSE v \in Values : TRUE]
<1>1. default \in [Properties -> Values]
  BY OutputAssumption
<1> HIDE DEF default
<1>2. /\ known = [c \in Clients |-> [properties |-> default, modes |-> <<>>]]
      /\ announced = [c \in Clients |-> default] /\ wire = [c \in Clients |-> <<>>]
      /\ resources = {} /\ changes = [k \in Configurations |-> NoChangeset]
      /\ properties \in [Properties -> Values] /\ sizeFollowsWindow \in BOOLEAN
  BY DEF OutputInit, default
<1>3. CASE sizeFollowsWindow
  <2>1. PICK m \in Modes : modes = <<[size |-> m, flags |-> Flags]>>
    BY <1>3 DEF OutputInit
  <2>2. currentMode = 1 /\ preferredMode = 1
    BY <1>3 DEF OutputInit
  <2>3. [size |-> m, flags |-> Flags] \in ModeRecords
    BY DEF ModeRecords
  <2>4. modes \in Seq(ModeRecords) /\ Len(modes) = 1 /\ DOMAIN modes = {1} /\ modes[1].flags = Flags
    BY <2>1, <2>3
  <2>5. ModesState
    BY <2>2, <2>4 DEF ModesState, Flags
  <2>6. currentMode \in 0..Len(modes) /\ preferredMode \in 0..Len(modes)
    BY <2>2, <2>4
  <2> QED
    BY <1>1, <1>2, <2>4, <2>5, <2>6 DEF KnownInv, OutputTypes, KnowledgeOf
<1>4. CASE ~sizeFollowsWindow
  <2>1. modes = <<>> /\ currentMode = 0 /\ preferredMode = 0
    BY <1>4 DEF OutputInit
  <2>2. modes \in Seq(ModeRecords) /\ Len(modes) = 0 /\ DOMAIN modes = {}
    BY <2>1
  <2>3. ModesState
    BY <1>4, <2>2 DEF ModesState
  <2>4. currentMode \in 0..Len(modes) /\ preferredMode \in 0..Len(modes)
    BY <2>1, <2>2
  <2> QED
    BY <1>1, <1>2, <2>2, <2>3, <2>4 DEF KnownInv, OutputTypes, KnowledgeOf
<1> QED
  BY <1>3, <1>4

LEMMA KnownStep ==
  ASSUME Careful, Changing \subseteq Properties, KnownInv, [OutputNext]_outputVars
  PROVE  KnownInv'
<1>1. ASSUME NEW k \in Configurations, Apply(k) PROVE KnownInv'
  BY <1>1, ApplyKeepsKnown
<1>2. ASSUME NEW k \in Configurations, NEW p \in Changing, NEW v \in Values, Request(k, p, v)
      PROVE  KnownInv'
  BY <1>2, RequestKeepsKnown
<1>3. ASSUME NEW m \in Modes, ResizeWindow(m) PROVE KnownInv'
  BY <1>3, ResizeWindowKeepsKnown
<1>4. ASSUME NEW m \in Modes, NEW flags \in SUBSET Flags, AddMode(m, flags) PROVE KnownInv'
  BY <1>4, AddModeKeepsKnown
<1>5. ASSUME NEW i \in DOMAIN modes, SetCurrentMode(i) PROVE KnownInv'
  BY <1>5, SetCurrentModeKeepsKnown
<1>6. ASSUME NEW c \in Clients, Bind(c) PROVE KnownInv'
  BY <1>6, BindKeepsKnown
<1>7. ASSUME NEW c \in Clients, Hear(c) PROVE KnownInv'
  BY <1>7, HearKeepsKnown
<1>8. CASE UNCHANGED outputVars
  BY <1>8 DEF outputVars, modeVars, clientVars, configVars, KnownInv, OutputTypes, ModesState,
              KnowledgeOf, PropertiesTold, ModesTold, DoneTold, NoOtherModes
<1> QED
  BY <1>1, <1>2, <1>3, <1>4, <1>5, <1>6, <1>7, <1>8 DEF OutputNext

\* All modes that are told are current ones.
Flagged(q) == \A j \in DOMAIN q : q[j] \in ModeEvents => "current" \in q[j].mode.flags

\* A client of an output whose size follows the window has its iterator at the
\* last mode of its list.
AtLast(c) ==
  sizeFollowsWindow =>
    /\ Flagged(wire[c])
    /\ known[c].modes # <<>> => clientMode[c] = {Last(known[c].modes).size}

SizeInv == DOMAIN clientMode = Clients /\ \A c \in Clients : AtLast(c)

\* A mode that takes the place of one of its size leaves the last size; one
\* that is appended is the last.
LEMMA LastOfModes ==
  ASSUME NEW ms \in Seq(ModeRecords), NEW m \in ModeRecords
  PROVE  /\ WithMode(ms, m) # <<>>
         /\ (\E i \in DOMAIN ms : ms[i].size = m.size) =>
              ms # <<>> /\ Last(WithMode(ms, m)).size = Last(ms).size
         /\ ~(\E i \in DOMAIN ms : ms[i].size = m.size) =>
              Last(WithMode(ms, m)).size = m.size
<1> DEFINE there == \E i \in DOMAIN ms : ms[i].size = m.size
           new   == [i \in DOMAIN ms |-> IF ms[i].size = m.size THEN m ELSE ms[i]]
<1>1. DOMAIN ms = 1..Len(ms) /\ Len(ms) \in Nat
  OBVIOUS
<1>2. CASE there
  <2>1. WithMode(ms, m) = new
    BY <1>2 DEF WithMode
  <2>2. Len(ms) # 0 /\ Len(ms) \in DOMAIN ms /\ ms # <<>>
    BY <1>1, <1>2
  <2>3. \A i \in 1..Len(ms) : new[i] \in ModeRecords
    BY <1>1
  <2>4. new \in Seq(ModeRecords) /\ Len(new) = Len(ms)
    BY <1>1, <2>3
  <2>5. new[Len(ms)].size = ms[Len(ms)].size
    BY <2>2
  <2>6. new # <<>>
    BY <2>2, <2>4
  <2> HIDE DEF new
  <2> QED
    BY <1>2, <2>1, <2>2, <2>4, <2>5, <2>6 DEF Last
<1>3. CASE ~there
  <2>1. WithMode(ms, m) = Append(ms, m)
    BY <1>3 DEF WithMode
  <2>2. /\ Append(ms, m) # <<>> /\ Len(Append(ms, m)) = Len(ms) + 1
        /\ Append(ms, m)[Len(ms) + 1] = m
    BY <1>1
  <2> QED
    BY <1>3, <2>1, <2>2 DEF Last
<1> QED
  BY <1>2, <1>3

\* Sending modes that are current, or none, changes nothing of it.
LEMMA SendKeepsSize ==
  ASSUME KnownInv, SizeInv, NEW r \in Seq(Events),
         sizeFollowsWindow => Flagged(r), Send(r),
         UNCHANGED <<sizeFollowsWindow, known, clientMode>>
  PROVE  SizeInv'
<1> SUFFICES ASSUME NEW c \in Clients, sizeFollowsWindow
             PROVE  Flagged(wire'[c])
  BY DEF SizeInv, AtLast, Flagged
<1>1. wire[c] \in Seq(Events) /\ Flagged(wire[c])
  BY DEF KnownInv, OutputTypes, SizeInv, AtLast
<1>2. wire'[c] \in {wire[c], wire[c] \o r}
  BY DEF Send
<1>3. Flagged(wire[c] \o r)
  <2> DEFINE q == wire[c]
  <2> HIDE DEF q
  <2>1. q \in Seq(Events) /\ Flagged(q)
    BY <1>1 DEF q
  <2>2. \A j \in DOMAIN (q \o r) :
          \/ j \in DOMAIN q /\ (q \o r)[j] = q[j]
          \/ j - Len(q) \in DOMAIN r /\ (q \o r)[j] = r[j - Len(q)]
    BY <2>1
  <2>3. Flagged(q \o r)
    BY <2>1, <2>2 DEF Flagged
  <2> QED
    BY <2>3 DEF q
<1> QED
  BY <1>1, <1>2, <1>3

\* So does hearing of one.
LEMMA HearKeepsSize ==
  ASSUME KnownInv, SizeInv, NEW c \in Clients, Hear(c)
  PROVE  SizeInv'
<1> DEFINE e == Head(wire[c])
<1>1. /\ wire[c] \in Seq(Events) /\ wire[c] # <<>> /\ e \in Events
      /\ wire' = [wire EXCEPT ![c] = Tail(wire[c])]
      /\ \A j \in DOMAIN Tail(wire[c]) : Tail(wire[c])[j] = wire[c][j + 1]
                                       /\ j + 1 \in DOMAIN wire[c]
      /\ 1 \in DOMAIN wire[c] /\ e = wire[c][1]
  BY DEF KnownInv, OutputTypes, Hear
<1>2. sizeFollowsWindow' = sizeFollowsWindow
  BY DEF Hear
<1>3. /\ DOMAIN wire = Clients /\ DOMAIN known = Clients /\ DOMAIN clientMode = Clients
      /\ known[c].modes \in Seq(ModeRecords)
      /\ known[c] = [properties |-> known[c].properties, modes |-> known[c].modes]
  BY DEF KnownInv, OutputTypes, SizeInv
<1>4. e.type = "mode" => e \in ModeEvents /\ e.mode \in ModeRecords
  BY <1>1 DEF Events, PropertyEvents, ModeEvents, Done
<1>5. /\ \A d \in Clients \ {c} : /\ wire'[d] = wire[d] /\ known'[d] = known[d]
                                   /\ clientMode'[d] = clientMode[d]
      /\ DOMAIN clientMode' = Clients
      /\ wire'[c] = Tail(wire[c])
  BY <1>1, <1>3 DEF Hear, TakeMode
<1>6. ASSUME NEW d \in Clients, d # c PROVE AtLast(d)'
  BY <1>2, <1>5, <1>6 DEF SizeInv, AtLast
<1>7. ASSUME sizeFollowsWindow PROVE AtLast(c)'
  <2>1. Flagged(wire[c]) /\ (known[c].modes # <<>> => clientMode[c] = {Last(known[c].modes).size})
    BY <1>7 DEF SizeInv, AtLast
  <2>2. Flagged(wire'[c])
    BY <1>1, <1>5, <2>1 DEF Flagged
  <2>3. CASE known'[c].modes = known[c].modes /\ clientMode' = clientMode
    BY <2>1, <2>2, <2>3 DEF AtLast
  <2>4. CASE e.type = "mode"
    <3> DEFINE there == \E i \in DOMAIN known[c].modes : known[c].modes[i].size = e.mode.size
    <3>1. known' = [known EXCEPT ![c].modes = WithMode(@, e.mode)] /\ TakeMode(c, e.mode)
      BY <2>4 DEF Hear
    <3>2. known'[c].modes = WithMode(known[c].modes, e.mode)
      BY <1>3, <3>1
    <3>3. "current" \in e.mode.flags
      BY <1>1, <1>4, <2>1, <2>4 DEF Flagged
    <3>4. CASE there
      <4>1. clientMode' = clientMode
        BY <3>1, <3>3, <3>4 DEF TakeMode
      <4>2. known[c].modes # <<>>
              /\ Last(WithMode(known[c].modes, e.mode)).size = Last(known[c].modes).size
        BY <1>3, <1>4, <2>4, <3>4, LastOfModes
      <4> QED
        BY <2>1, <2>2, <3>2, <4>1, <4>2 DEF AtLast
    <3>5. CASE ~there
      <4>1. clientMode'[c] = {e.mode.size}
        BY <1>3, <3>1, <3>3, <3>5 DEF TakeMode
      <4>2. Last(WithMode(known[c].modes, e.mode)).size = e.mode.size
        BY <1>3, <1>4, <2>4, <3>5, LastOfModes
      <4> QED
        BY <2>2, <3>2, <4>1, <4>2 DEF AtLast
    <3> QED
      BY <3>4, <3>5
  <2>5. CASE e.type = "properties"
    <3>1. known' = [known EXCEPT ![c].properties = Over(e.of, @)] /\ clientMode' = clientMode
      BY <2>5 DEF Hear
    <3>2. known'[c].modes = known[c].modes
      BY <1>3, <3>1
    <3> QED
      BY <2>3, <3>1, <3>2
  <2>6. CASE e.type = "done"
    <3>1. known' = known /\ clientMode' = clientMode
      BY <2>6 DEF Hear
    <3> QED
      BY <2>3, <3>1
  <2> QED
    BY <2>4, <2>5, <2>6 DEF Hear
<1>8. AtLast(c)'
  BY <1>2, <1>7 DEF AtLast
<1> QED
  BY <1>5, <1>6, <1>8 DEF SizeInv

\* And whatever else happens.
LEMMA SizeStep ==
  ASSUME Changing \subseteq Properties, KnownInv, SizeInv, [OutputNext]_outputVars
  PROVE  SizeInv'
<1>1. ASSUME UNCHANGED <<sizeFollowsWindow, wire, known, clientMode>> PROVE SizeInv'
  BY <1>1 DEF SizeInv, AtLast
<1>2. ASSUME ~sizeFollowsWindow, UNCHANGED <<sizeFollowsWindow, known, clientMode>>
      PROVE  SizeInv'
  BY <1>2 DEF SizeInv, AtLast
<1>3. ASSUME NEW k \in Configurations, Apply(k) PROVE SizeInv'
  <2>1. PICK one, two \in [Properties -> Values] :
          /\ properties' \in [Properties -> Values]
          /\ one["transform"] = properties'["transform"]
          /\ one["position"] = properties["position"]
          /\ two["transform"] = properties'["transform"]
          /\ two["position"] = properties'["position"]
          /\ two["scale"] = properties["scale"]
          /\ Send(Tell(one, properties, Geometry(one))
                    \o Tell(two, one, Geometry(two))
                    \o Tell(properties', two, Scale(properties')))
    BY <1>3, AppliedInSteps DEF Apply
  <2> DEFINE r == Tell(one, properties, Geometry(one)) \o Tell(two, one, Geometry(two))
                    \o Tell(properties', two, Scale(properties'))
  <2>2. /\ Geometry(one) \in PropertyEvents /\ Geometry(two) \in PropertyEvents
        /\ Scale(properties') \in PropertyEvents
    BY <2>1, GeometryTells, ScaleTells
  <2>3. /\ Tell(one, properties, Geometry(one)) \in Seq(PropertyEvents \cup {Done})
        /\ Tell(two, one, Geometry(two)) \in Seq(PropertyEvents \cup {Done})
        /\ Tell(properties', two, Scale(properties')) \in Seq(PropertyEvents \cup {Done})
    BY <2>2, TellFacts
  <2>4. r \in Seq(PropertyEvents \cup {Done})
    BY <2>3
  <2>5. Send(r)
    BY <2>1
  <2> HIDE DEF r
  <2>6. r \in Seq(Events) /\ Flagged(r)
    BY <2>4, SaysNothingOfModes DEF Flagged
  <2>7. UNCHANGED <<sizeFollowsWindow, known, clientMode>>
    BY <1>3 DEF Apply, clientVars
  <2> QED
    BY <2>5, <2>6, <2>7, SendKeepsSize
<1>4. ASSUME NEW k \in Configurations, NEW p \in Changing, NEW v \in Values, Request(k, p, v)
      PROVE  SizeInv'
  BY <1>1, <1>4 DEF Request, clientVars
<1>5. ASSUME NEW m \in Modes, ResizeWindow(m) PROVE SizeInv'
  <2>1. /\ modes' = [modes EXCEPT ![currentMode].size = m] /\ Send(ModesInfo(modes'))
        /\ sizeFollowsWindow /\ UNCHANGED <<sizeFollowsWindow, known, clientMode>>
    BY <1>5 DEF ResizeWindow, clientVars
  <2>2. KnownInv'
    BY <1>5, ResizeWindowKeepsKnown
  <2>3. modes' \in Seq(ModeRecords) /\ ModesState' /\ currentMode' = 1 /\ Len(modes') = 1
    BY <2>1, <2>2 DEF KnownInv, OutputTypes, ModesState
  <2>4. ModesInfo(modes') \in Seq(Events)
    BY <2>3, ModesInfoTells DEF ModesState
  <2>5. Flagged(ModesInfo(modes'))
    BY <2>3 DEF Flagged, ModesInfo, ModesState
  <2> QED
    BY <2>1, <2>4, <2>5, SendKeepsSize
<1>6. ASSUME NEW m \in Modes, NEW flags \in SUBSET Flags, AddMode(m, flags) PROVE SizeInv'
  BY <1>2, <1>6 DEF AddMode, clientVars
<1>7. ASSUME NEW i \in DOMAIN modes, SetCurrentMode(i) PROVE SizeInv'
  BY <1>2, <1>7 DEF SetCurrentMode, clientVars
<1>8. ASSUME NEW c \in Clients, Bind(c) PROVE SizeInv'
  <2> DEFINE q == <<Geometry(properties)>> \o ModesInfo(modes)
                    \o <<Scale(properties), Done>>
  <2>1. /\ wire' = [wire EXCEPT ![c] = q]
        /\ UNCHANGED <<sizeFollowsWindow, known, clientMode>>
    BY <1>8 DEF Bind
  <2>2. wire'[c] = q /\ \A d \in Clients \ {c} : wire'[d] = wire[d]
    BY <2>1 DEF KnownInv, OutputTypes
  <2>3. sizeFollowsWindow => Flagged(q)
    <3>1. /\ Geometry(properties) \notin ModeEvents /\ Scale(properties) \notin ModeEvents
          /\ Done \notin ModeEvents
      BY DEF Geometry, Scale, Done, ModeEvents
    <3>2. sizeFollowsWindow => Flagged(ModesInfo(modes))
      BY DEF KnownInv, OutputTypes, ModesState, ModesInfo, Flagged
    <3>3. ModesInfo(modes) \in Seq(Events)
      BY ModesInfoTells DEF KnownInv, OutputTypes, ModesState
    <3> DEFINE mi == ModesInfo(modes)
               g  == Geometry(properties)
               s  == Scale(properties)
    <3> HIDE DEF mi, g, s
    <3>4. \A j \in DOMAIN (<<g>> \o mi \o <<s, Done>>) :
            \/ (<<g>> \o mi \o <<s, Done>>)[j] \in {g, s, Done}
            \/ j - 1 \in DOMAIN mi /\ (<<g>> \o mi \o <<s, Done>>)[j] = mi[j - 1]
      BY <3>3 DEF mi
    <3>5. sizeFollowsWindow => Flagged(<<g>> \o mi \o <<s, Done>>)
      BY <3>1, <3>2, <3>4 DEF Flagged, mi, g, s
    <3> QED
      BY <3>5 DEF mi, g, s
  <2> HIDE DEF q
  <2> QED
    BY <2>1, <2>2, <2>3 DEF SizeInv, AtLast
<1>9. ASSUME NEW c \in Clients, Hear(c) PROVE SizeInv'
  BY <1>9, HearKeepsSize
<1>10. CASE UNCHANGED outputVars
  BY <1>1, <1>10 DEF outputVars, clientVars
<1> QED
  BY <1>3, <1>4, <1>5, <1>6, <1>7, <1>8, <1>9, <1>10 DEF OutputNext

\* A client that has heard everything knows what is so.
LEMMA KnownInvMeansKnown == KnownInv /\ SizeInv => IsKnown
<1> SUFFICES ASSUME KnownInv, SizeInv, NEW c \in resources, wire[c] = <<>>
             PROVE  /\ known[c].properties = properties /\ announced[c] = properties
                    /\ \A i \in DOMAIN modes : modes[i] \in Range(known[c].modes)
                    /\ ~sizeFollowsWindow =>
                         {m.size : m \in {n \in Range(known[c].modes) : "current" \in n.flags}}
                           = IF currentMode = 0 THEN {} ELSE {modes[currentMode].size}
                    /\ sizeFollowsWindow
                       /\ modes[currentMode].size = Last(known[c].modes).size =>
                         clientMode[c] = {modes[currentMode].size}
  BY DEF IsKnown
<1> DEFINE ms == known[c].modes
<1>1. c \in Clients /\ PropertiesTold(c) /\ ModesTold(c) /\ DoneTold(c) /\ NoOtherModes(c)
  BY DEF KnownInv, OutputTypes, KnowledgeOf
<1>2. \A good : ~Reaches(wire[c], good)
  BY DEF Reaches
<1>3. known[c].properties = properties
  <2>1. known[c].properties \in [Properties -> Values] /\ properties \in [Properties -> Values]
    BY <1>1 DEF KnownInv, OutputTypes
  <2>2. \A p \in Properties : known[c].properties[p] = properties[p]
    BY <1>1, <1>2 DEF PropertiesTold
  <2> QED
    BY <2>1, <2>2
<1>4. announced[c] = properties
  BY <1>1, <1>2, <1>3 DEF DoneTold
<1>5. \A i \in DOMAIN modes : KnowsMode(ms, modes[i])
  BY <1>1, <1>2 DEF ModesTold
<1>6. Range(ms) = {ms[j] : j \in DOMAIN ms}
  BY DEF Range
<1> HIDE DEF ms
<1>7. \A i \in DOMAIN modes : modes[i] \in Range(ms)
  BY <1>5, <1>6 DEF KnowsMode
<1>8. ASSUME ~sizeFollowsWindow
      PROVE  {m.size : m \in {n \in Range(ms) : "current" \in n.flags}}
               = IF currentMode = 0 THEN {} ELSE {modes[currentMode].size}
  <2>1. /\ DOMAIN modes = 1..Len(modes) /\ Len(modes) \in Nat /\ currentMode \in 0..Len(modes)
        /\ \A i \in DOMAIN modes : "current" \in modes[i].flags <=> i = currentMode
    BY DEF KnownInv, OutputTypes, ModesState
  <2>2. \A j \in DOMAIN ms : \E i \in DOMAIN modes : ms[j] = modes[i]
    <3> TAKE j \in DOMAIN ms
    <3>1. ms[j].size \in SizesOf(modes)
      BY <1>1, <1>8 DEF NoOtherModes, SizesOf, ms
    <3>2. PICK i \in DOMAIN modes : modes[i].size = ms[j].size
      BY <3>1 DEF SizesOf
    <3> QED
      BY <1>5, <3>2 DEF KnowsMode
  <2>3. ASSUME NEW n \in Range(ms), "current" \in n.flags
        PROVE  currentMode # 0 /\ n = modes[currentMode]
    <3>1. PICK i \in DOMAIN modes : n = modes[i]
      BY <1>6, <2>2
    <3> QED
      BY <2>1, <2>3, <3>1
  <2>4. currentMode # 0 => modes[currentMode] \in Range(ms) /\ "current" \in modes[currentMode].flags
    BY <1>7, <2>1
  <2> QED
    BY <2>3, <2>4
<1>9. ASSUME sizeFollowsWindow, modes[currentMode].size = Last(ms).size
      PROVE  clientMode[c] = {modes[currentMode].size}
  <2>1. 1 \in DOMAIN modes
    BY <1>9 DEF KnownInv, OutputTypes, ModesState
  <2>2. ms # <<>>
    BY <1>5, <2>1 DEF KnowsMode
  <2> QED
    BY <1>1, <1>9, <2>2 DEF SizeInv, AtLast, ms
<1> QED
  BY <1>3, <1>4, <1>7, <1>8, <1>9 DEF ms

\* However many clients bind the output, when and in what order modes and
\* properties change: whoever has heard everything lists the output as it is,
\* if the current mode is not added again without its flag, and has the size of
\* one that follows its window until that returns to an earlier size.
THEOREM ClientsKnowTheOutput ==
  ASSUME Careful
  PROVE  OutputSpec => []IsKnown
<1>1. Changing \subseteq Properties
  BY OutputAssumption DEF Properties
<1>2. OutputInit => KnownInv
  BY KnownInit
<1>3. KnownInv /\ [OutputNext]_outputVars => KnownInv'
  BY <1>1, KnownStep
<1>4. OutputInit => SizeInv
  BY DEF OutputInit, SizeInv, AtLast, Flagged
<1>5. KnownInv /\ SizeInv /\ [OutputNext]_outputVars => SizeInv'
  BY <1>1, SizeStep
<1>6. KnownInv /\ SizeInv => IsKnown
  BY KnownInvMeansKnown
<1> QED
  BY <1>2, <1>3, <1>4, <1>5, <1>6, PTL DEF OutputSpec

=============================================================================
