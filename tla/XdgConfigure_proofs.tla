------------------------- MODULE XdgConfigure_proofs -------------------------
(***************************************************************************)
(* Proofs about XdgConfigure for any number of windows and events.  The    *)
(* invariant says of each window which events its client can still apply   *)
(* and acknowledge: the ones on the way to it are pending ones, younger    *)
(* than what it applied, and the acknowledgements on the way back name     *)
(* pending ones too.                                                       *)
(***************************************************************************)
EXTENDS XdgConfigure, SequenceTheorems, TLAPS

\* The events of a queue are in the order of their serials.
InOrder(q) == \A i, j \in DOMAIN q : i < j => q[i].serial < q[j].serial

\* The pending events of x are in order, and younger than the acknowledged one.
PendingState(x) ==
  /\ InOrder(pendingConfigures[x])
  /\ lastAcked[x].serial <= serial
  /\ \A c \in ToSet(pendingConfigures[x]) :
       lastAcked[x].serial < c.serial /\ c.serial <= serial

\* What the client of x applied, is about to get and has acknowledged.
ClientState(x) ==
  /\ InOrder(toClient[x])
  /\ ToSet(toClient[x]) \subseteq ToSet(pendingConfigures[x])
  /\ \A c \in ToSet(toClient[x]) : applied[x].serial < c.serial
  /\ \A i, j \in DOMAIN toServer[x] : i < j => toServer[x][i] < toServer[x][j]
  /\ \A i \in DOMAIN toServer[x] :
       \E c \in ToSet(pendingConfigures[x]) : c.serial = toServer[x][i]
  /\ IF toServer[x] = <<>> THEN applied[x] = lastAcked[x]
     ELSE /\ applied[x] \in ToSet(pendingConfigures[x])
          /\ applied[x].serial = toServer[x][Len(toServer[x])]

\* The configure event sent last, the initial states if there was none.
Sent(x) == IF pendingConfigures[x] = <<>> THEN lastAcked[x]
           ELSE Last(pendingConfigures[x])

\* The states that the window should have.
Wants(x) == ({wanted[x]} \ {None}) \cup (IF focus = x THEN {"Activated"} ELSE {})

\* The client of x was told all that is wanted of it.
WantsSent(x) == ToSet(Sent(x).states) = Wants(x)

Inv == /\ TypeOK
       /\ \A x \in live : PendingState(x)
       /\ \A x \in live \ WrongAcks : ClientState(x)
       /\ \A x \in live \cap (Prompt \ WrongAcks) : WantsSent(x)
       /\ NoChangeMissed

-----------------------------------------------------------------------------
(* Lists of states *)

\* removeOne() takes a state away and keeps the others.
LEMMA WithoutState ==
  ASSUME NEW s \in Seq(States), Distinct(s), NEW y
  PROVE  /\ Without(s, y) \in Seq(States)
         /\ Distinct(Without(s, y))
         /\ ToSet(Without(s, y)) = ToSet(s) \ {y}
<1>1. CASE ~Contains(s, y)
  <2>1. Without(s, y) = s
    BY <1>1 DEF Without
  <2>2. y \notin ToSet(s)
    BY <1>1 DEF Contains, ToSet
  <2> QED  BY <2>1, <2>2
<1>2. CASE Contains(s, y)
  <2> DEFINE n == CHOOSE i \in DOMAIN s : s[i] = y
             t == [i \in 1..(Len(s) - 1) |-> IF i < n THEN s[i] ELSE s[i + 1]]
  <2>1. n \in DOMAIN s /\ s[n] = y
    BY <1>2 DEF Contains
  <2>2. Without(s, y) = t
    BY <1>2 DEF Without
  <2> HIDE DEF n
  <2>3. Len(s) \in Nat /\ DOMAIN s = 1..Len(s) /\ n \in 1..Len(s)
    BY <2>1
  <2>4. /\ t \in Seq(States) /\ DOMAIN t = 1..(Len(s) - 1)
        /\ \A i \in DOMAIN t : t[i] = IF i < n THEN s[i] ELSE s[i + 1]
    <3>1. \A i \in 1..(Len(s) - 1) : t[i] \in States
      BY <2>3
    <3>2. t \in [1..(Len(s) - 1) -> States] /\ Len(s) - 1 \in Nat
      BY <3>1, <2>3
    <3>3. t \in Seq(States)
      BY <3>2, <2>3
    <3> QED  BY <3>3, <2>3
  <2> HIDE DEF t
  <2>5. Distinct(t)
    <3> SUFFICES ASSUME NEW i \in DOMAIN t, NEW j \in DOMAIN t, t[i] = t[j]
                 PROVE  i = j
      BY DEF Distinct
    <3> DEFINE a == IF i < n THEN i ELSE i + 1
               b == IF j < n THEN j ELSE j + 1
    <3>1. a \in DOMAIN s /\ b \in DOMAIN s
      BY <2>3, <2>4
    <3>2. s[a] = s[b]
      BY <2>4
    <3>3. a = b
      BY <3>1, <3>2 DEF Distinct
    <3> QED  BY <3>3, <2>3, <2>4
  <2>6. ToSet(t) = ToSet(s) \ {y}
    <3>1. ASSUME NEW z \in ToSet(t) PROVE z \in ToSet(s) \ {y}
      <4>1. PICK i \in DOMAIN t : t[i] = z
        BY DEF ToSet
      <4> DEFINE a == IF i < n THEN i ELSE i + 1
      <4>2. a \in DOMAIN s /\ a # n /\ s[a] = z
        BY <4>1, <2>3, <2>4
      <4> HIDE DEF a
      <4>3. z # y
        BY <4>2, <2>1 DEF Distinct
      <4> QED  BY <4>2, <4>3 DEF ToSet
    <3>2. ASSUME NEW z \in ToSet(s) \ {y} PROVE z \in ToSet(t)
      <4>1. PICK a \in DOMAIN s : s[a] = z
        BY DEF ToSet
      <4>2. a # n
        BY <4>1, <2>1
      <4> DEFINE i == IF a < n THEN a ELSE a - 1
      <4>3. i \in DOMAIN t /\ t[i] = z
        BY <4>1, <4>2, <2>3, <2>4
      <4> QED  BY <4>3 DEF ToSet
    <3> QED  BY <3>1, <3>2
  <2> QED  BY <2>2, <2>4, <2>5, <2>6
<1> QED  BY <1>1, <1>2

\* append() after contains() adds a state once.
LEMMA WithState ==
  ASSUME NEW s \in Seq(States), Distinct(s), NEW y \in States
  PROVE  /\ With(s, y) \in Seq(States)
         /\ Distinct(With(s, y))
         /\ ToSet(With(s, y)) = ToSet(s) \cup {y}
<1>1. CASE Contains(s, y)
  <2>1. With(s, y) = s
    BY <1>1 DEF With
  <2>2. y \in ToSet(s)
    BY <1>1 DEF Contains, ToSet
  <2> QED  BY <2>1, <2>2
<1>2. CASE ~Contains(s, y)
  <2> DEFINE t == Append(s, y)
  <2>1. With(s, y) = t
    BY <1>2 DEF With
  <2>2. \A i \in DOMAIN s : s[i] # y
    BY <1>2 DEF Contains
  <2>3. /\ t \in Seq(States) /\ Len(s) \in Nat /\ DOMAIN s = 1..Len(s)
        /\ DOMAIN t = 1..(Len(s) + 1)
        /\ t[Len(s) + 1] = y
        /\ \A i \in DOMAIN s : t[i] = s[i]
    OBVIOUS
  <2> HIDE DEF t
  <2>4. Distinct(t)
    BY <2>2, <2>3 DEF Distinct
  <2>5. \A i \in DOMAIN t : i \in DOMAIN s \/ i = Len(s) + 1
    BY <2>3
  <2>6. ToSet(t) \subseteq ToSet(s) \cup {y}
    BY <2>3, <2>5 DEF ToSet
  <2>7. ToSet(s) \cup {y} \subseteq ToSet(t)
    BY <2>3 DEF ToSet
  <2> QED  BY <2>1, <2>3, <2>4, <2>6, <2>7
<1> QED  BY <1>1, <1>2

\* After a request for a mode it is the only one listed, and what else was
\* listed still is.
LEMMA InModeStates ==
  ASSUME NEW s \in Seq(States), Distinct(s), NEW m \in Modes \cup {None}
  PROVE  /\ InMode(s, m) \in Seq(States)
         /\ Distinct(InMode(s, m))
         /\ ToSet(InMode(s, m)) = (ToSet(s) \ Modes) \cup ({m} \ {None})
         /\ Exclusive(InMode(s, m))
<1> DEFINE Good(t, S) == t \in Seq(States) /\ Distinct(t) /\ ToSet(t) = S
<1>1. Good(s, ToSet(s))
  OBVIOUS
<1>4. None \notin Modes
  BY NoneAssumption
<1>5. Good(InMode(s, m), (ToSet(s) \ Modes) \cup ({m} \ {None}))
  <2>1. CASE m = None
    <3> DEFINE a == Without(s, "Maximized")
               b == Without(a, "Fullscreen")
               c == Without(b, "Resizing")
    <3>1. InMode(s, m) = c
      BY <2>1, <1>4 DEF InMode, Modes
    <3>2. Good(c, ((ToSet(s) \ {"Maximized"}) \ {"Fullscreen"}) \ {"Resizing"})
      <4>1. Good(a, ToSet(s) \ {"Maximized"})
        BY <1>1, WithoutState
      <4> HIDE DEF a
      <4>2. Good(b, (ToSet(s) \ {"Maximized"}) \ {"Fullscreen"})
        BY <4>1, WithoutState
      <4> HIDE DEF b
      <4> QED  BY <4>2, WithoutState
    <3> HIDE DEF a, b, c
    <3>3. ((ToSet(s) \ {"Maximized"}) \ {"Fullscreen"}) \ {"Resizing"}
            = (ToSet(s) \ Modes) \cup ({m} \ {None})
      BY <2>1 DEF Modes
    <3> QED  BY <3>1, <3>2, <3>3
  <2>2. ASSUME NEW k \in Modes, NEW l \in Modes, m \in Modes,
               Modes = {k, l, m}, k # m, l # m,
               InMode(s, m) = Without(Without(With(s, m), k), l)
        PROVE  Good(InMode(s, m), (ToSet(s) \ Modes) \cup ({m} \ {None}))
    <3>1. m \in States
      BY <2>2 DEF States
    <3> DEFINE a == With(s, m)
               b == Without(a, k)
               c == Without(b, l)
    <3>2. Good(c, ((ToSet(s) \cup {m}) \ {k}) \ {l})
      <4>1. Good(a, ToSet(s) \cup {m})
        BY <3>1, <1>1, WithState
      <4> HIDE DEF a
      <4>2. Good(b, (ToSet(s) \cup {m}) \ {k})
        BY <4>1, WithoutState
      <4> HIDE DEF b
      <4> QED  BY <4>2, WithoutState
    <3>4. InMode(s, m) = c
      BY <2>2
    <3> HIDE DEF a, b, c
    <3>3. ((ToSet(s) \cup {m}) \ {k}) \ {l}
            = (ToSet(s) \ Modes) \cup ({m} \ {None})
      BY <2>2, <1>4
    <3> QED  BY <3>2, <3>3, <3>4
  <2>3. CASE m = "Maximized"
    <3>1. m # None
      BY <2>3, <1>4 DEF Modes
    <3> QED  BY <2>2, <2>3, <3>1 DEF InMode, Modes
  <2>4. CASE m = "Fullscreen"
    <3>1. m # None
      BY <2>4, <1>4 DEF Modes
    <3> QED  BY <2>2, <2>4, <3>1 DEF InMode, Modes
  <2>5. CASE m = "Resizing"
    <3>1. m # None
      BY <2>5, <1>4 DEF Modes
    <3> QED  BY <2>2, <2>5, <3>1 DEF InMode, Modes
  <2> QED  BY <2>1, <2>3, <2>4, <2>5 DEF Modes
<1>6. Exclusive(InMode(s, m))
  BY <1>5, <1>4 DEF Exclusive
<1> QED  BY <1>5, <1>6

-----------------------------------------------------------------------------
(* std::set_symmetric_difference *)

\* How many entries of the two lists are left.
Left(a, b, i, j) == (Len(a) + 1 - i) + (Len(b) + 1 - j)

\* One unfolding of the recursion.
Unfolded(a, b, f) == [p \in Positions(a, b) |-> Merge(a, b, p[1], p[2], f)]

\* f and g give the same where at most k entries are left.
Agree(a, b, f, g, k) ==
  \A i \in 1..(Len(a) + 1), j \in 1..(Len(b) + 1) :
    Left(a, b, i, j) <= k => f[<<i, j>>] = g[<<i, j>>]

\* Where at most k entries are left f has all that are in one list only.
Covers(a, b, f, k) ==
  \A i \in 1..(Len(a) + 1), j \in 1..(Len(b) + 1) :
    Left(a, b, i, j) <= k =>
      /\ f[<<i, j>>] \in Seq(States)
      /\ \A u \in i..Len(a) : a[u] \in ToSet(b) \cup ToSet(f[<<i, j>>])
      /\ \A u \in j..Len(b) : b[u] \in ToSet(a) \cup ToSet(f[<<i, j>>])

\* An unfolding at a position.
LEMMA UnfoldedAt ==
  ASSUME NEW a, NEW b, NEW f,
         NEW i \in 1..(Len(a) + 1), NEW j \in 1..(Len(b) + 1)
  PROVE  Unfolded(a, b, f)[<<i, j>>] = Merge(a, b, i, j, f)
<1> DEFINE p == <<i, j>>
<1>1. p \in Positions(a, b)
  BY DEF Positions
<1>2. p[1] = i /\ p[2] = j
  OBVIOUS
<1>3. Unfolded(a, b, f)[p] = Merge(a, b, p[1], p[2], f)
  <2> HIDE DEF p
  <2> QED  BY <1>1 DEF Unfolded
<1> QED  BY <1>2, <1>3

\* A result depends on those for fewer entries only.
LEMMA UnfoldedAgree ==
  ASSUME NEW a \in Seq(States), NEW b \in Seq(States), NEW f, NEW g,
         NEW k \in Int, Agree(a, b, f, g, k)
  PROVE  Agree(a, b, Unfolded(a, b, f), Unfolded(a, b, g), k + 1)
<1> SUFFICES ASSUME NEW i \in 1..(Len(a) + 1), NEW j \in 1..(Len(b) + 1),
                    Left(a, b, i, j) <= k + 1
             PROVE  Merge(a, b, i, j, f) = Merge(a, b, i, j, g)
  BY UnfoldedAt DEF Agree
<1>1. Len(a) \in Nat /\ Len(b) \in Nat
  OBVIOUS
<1>2. CASE i > Len(a) \/ j > Len(b)
  BY <1>2 DEF Merge
<1>3. CASE ~(i > Len(a) \/ j > Len(b))
  <2>1. ASSUME NEW c \in 1..(Len(a) + 1), NEW d \in 1..(Len(b) + 1),
               c + d > i + j
        PROVE  f[<<c, d>>] = g[<<c, d>>]
    <3>1. Left(a, b, c, d) <= k
      BY <2>1, <1>1 DEF Left
    <3> QED  BY <3>1 DEF Agree
  <2>2. i + 1 \in 1..(Len(a) + 1) /\ j + 1 \in 1..(Len(b) + 1)
    BY <1>1, <1>3
  <2>6. i + 1 + (j + 1) > i + j /\ i + 1 + j > i + j /\ i + (j + 1) > i + j
    OBVIOUS
  <2>3. f[<<i + 1, j + 1>>] = g[<<i + 1, j + 1>>]
    BY <2>1, <2>2, <2>6
  <2>4. f[<<i + 1, j>>] = g[<<i + 1, j>>]
    BY <2>1, <2>2, <2>6
  <2>5. f[<<i, j + 1>>] = g[<<i, j + 1>>]
    BY <2>1, <2>2, <2>6
  <2> QED  BY <2>3, <2>4, <2>5 DEF Merge
<1> QED  BY <1>2, <1>3

\* A state in front of a list is one more.
LEMMA Prepended ==
  ASSUME NEW y \in States, NEW t \in Seq(States)
  PROVE  /\ <<y>> \o t \in Seq(States)
         /\ y \in ToSet(<<y>> \o t)
         /\ ToSet(t) \subseteq ToSet(<<y>> \o t)
<1> DEFINE e == <<y>>
           w == e \o t
<1>1. e \in Seq(States) /\ Len(e) = 1 /\ e[1] = y
  OBVIOUS
<1> HIDE DEF e
<1>2. Len(t) \in Nat /\ DOMAIN t = 1..Len(t)
  OBVIOUS
<1>9. /\ w \in Seq(States)
      /\ Len(w) = Len(e) + Len(t)
      /\ \A i \in 1..(Len(e) + Len(t)) :
           w[i] = IF i <= Len(e) THEN e[i] ELSE t[i - Len(e)]
  BY <1>1, ConcatProperties, Zenon
<1>3. w \in Seq(States) /\ DOMAIN w = 1..(Len(t) + 1)
  BY <1>1, <1>2, <1>9
<1> HIDE DEF w
<1>4. w[1] = y
  BY <1>1, <1>2, <1>9
<1>5. \A v \in DOMAIN t : w[v + 1] = t[v]
  BY <1>1, <1>2, <1>9
<1>6. \A v \in DOMAIN t : v + 1 \in DOMAIN w
  BY <1>2, <1>3
<1>7. 1 \in DOMAIN w
  BY <1>2, <1>3
<1>8. y \in ToSet(w) /\ ToSet(t) \subseteq ToSet(w)
  BY <1>4, <1>5, <1>6, <1>7 DEF ToSet
<1> QED  BY <1>3, <1>8 DEF w, e

\* Nothing of one list only is lost in a step of the merge.
LEMMA UnfoldedCovers ==
  ASSUME NEW a \in Seq(States), NEW b \in Seq(States), NEW f,
         f = Unfolded(a, b, f), NEW k \in Int, Covers(a, b, f, k)
  PROVE  Covers(a, b, f, k + 1)
<1> SUFFICES ASSUME NEW i \in 1..(Len(a) + 1), NEW j \in 1..(Len(b) + 1),
                    Left(a, b, i, j) <= k + 1
             PROVE  /\ f[<<i, j>>] \in Seq(States)
                    /\ \A u \in i..Len(a) :
                         a[u] \in ToSet(b) \cup ToSet(f[<<i, j>>])
                    /\ \A u \in j..Len(b) :
                         b[u] \in ToSet(a) \cup ToSet(f[<<i, j>>])
  BY DEF Covers
<1> DEFINE r == Merge(a, b, i, j, f)
<1>1. f[<<i, j>>] = r
  BY UnfoldedAt
<1>2. Len(a) \in Nat /\ Len(b) \in Nat
  OBVIOUS
<1>3. CASE i > Len(a)
  <2>1. r = SubSeq(b, j, Len(b))
    BY <1>3 DEF Merge
  <2>2. r \in Seq(States) /\ \A u \in j..Len(b) : u - j + 1 \in DOMAIN r
                                                  /\ r[u - j + 1] = b[u]
    BY <2>1, <1>2
  <2> HIDE DEF r
  <2>3. \A u \in j..Len(b) : b[u] \in ToSet(r)
    BY <2>2 DEF ToSet
  <2> QED  BY <2>2, <2>3, <1>1, <1>2, <1>3
<1>4. CASE ~(i > Len(a)) /\ j > Len(b)
  <2>1. r = SubSeq(a, i, Len(a))
    BY <1>4 DEF Merge
  <2>2. r \in Seq(States) /\ \A u \in i..Len(a) : u - i + 1 \in DOMAIN r
                                                  /\ r[u - i + 1] = a[u]
    BY <2>1, <1>2
  <2> HIDE DEF r
  <2>3. \A u \in i..Len(a) : a[u] \in ToSet(r)
    BY <2>2 DEF ToSet
  <2> QED  BY <2>2, <2>3, <1>1, <1>2, <1>4
<1>5. CASE ~(i > Len(a)) /\ ~(j > Len(b))
  <2> DEFINE Good(t, c, d) ==
        /\ t \in Seq(States)
        /\ \A u \in c..Len(a) : a[u] \in ToSet(b) \cup ToSet(t)
        /\ \A u \in d..Len(b) : b[u] \in ToSet(a) \cup ToSet(t)
  <2>7. ASSUME NEW c \in 1..(Len(a) + 1), NEW d \in 1..(Len(b) + 1),
               c + d > i + j
        PROVE  Good(f[<<c, d>>], c, d)
    <3>1. Left(a, b, c, d) <= k
      BY <2>7, <1>2 DEF Left
    <3> QED  BY <3>1 DEF Covers
  <2>8. i + 1 \in 1..(Len(a) + 1) /\ j + 1 \in 1..(Len(b) + 1)
    BY <1>2, <1>5
  <2>9. i + 1 + (j + 1) > i + j /\ i + 1 + j > i + j /\ i + (j + 1) > i + j
    OBVIOUS
  <2>1. /\ Good(f[<<i + 1, j + 1>>], i + 1, j + 1)
        /\ Good(f[<<i + 1, j>>], i + 1, j)
        /\ Good(f[<<i, j + 1>>], i, j + 1)
    <3> HIDE DEF Good
    <3>1. Good(f[<<i + 1, j + 1>>], i + 1, j + 1)
      BY <2>7, <2>8, <2>9
    <3>2. Good(f[<<i + 1, j>>], i + 1, j)
      BY <2>7, <2>8, <2>9
    <3>3. Good(f[<<i, j + 1>>], i, j + 1)
      BY <2>7, <2>8, <2>9
    <3> QED  BY <3>1, <3>2, <3>3
  <2>2. i \in DOMAIN a /\ j \in DOMAIN b /\ a[i] \in States /\ b[j] \in States
    BY <1>2, <1>5
  <2>4. CASE a[i] = b[j]
    <3>1. r = f[<<i + 1, j + 1>>]
      BY <2>4, <1>5 DEF Merge
    <3>2. \A u \in i..Len(a) : u = i \/ u \in (i + 1)..Len(a)
      BY <1>2
    <3>3. \A u \in j..Len(b) : u = j \/ u \in (j + 1)..Len(b)
      BY <1>2
    <3>4. a[i] \in ToSet(b) /\ b[j] \in ToSet(a)
      BY <2>2, <2>4 DEF ToSet
    <3> QED  BY <3>1, <3>2, <3>3, <3>4, <2>1, <1>1
  <2>5. CASE a[i] # b[j] /\ Number(a[i]) < Number(b[j])
    <3>1. r = <<a[i]>> \o f[<<i + 1, j>>]
      BY <2>5, <1>5 DEF Merge
    <3>2. \A u \in i..Len(a) : u = i \/ u \in (i + 1)..Len(a)
      BY <1>2
    <3>3. /\ r \in Seq(States) /\ a[i] \in ToSet(r)
          /\ ToSet(f[<<i + 1, j>>]) \subseteq ToSet(r)
      BY <3>1, <2>1, <2>2, Prepended
    <3> HIDE DEF r
    <3> QED  BY <3>2, <3>3, <2>1, <1>1
  <2>6. CASE a[i] # b[j] /\ ~(Number(a[i]) < Number(b[j]))
    <3>1. r = <<b[j]>> \o f[<<i, j + 1>>]
      BY <2>6, <1>5 DEF Merge
    <3>2. \A u \in j..Len(b) : u = j \/ u \in (j + 1)..Len(b)
      BY <1>2
    <3>3. /\ r \in Seq(States) /\ b[j] \in ToSet(r)
          /\ ToSet(f[<<i, j + 1>>]) \subseteq ToSet(r)
      BY <3>1, <2>1, <2>2, Prepended
    <3> HIDE DEF r
    <3> QED  BY <3>2, <3>3, <2>1, <1>1
  <2> QED  BY <2>4, <2>5, <2>6
<1> QED  BY <1>3, <1>4, <1>5

\* A window has at most two states.
LEMMA AtMostTwo ==
  ASSUME NEW s \in Seq(States), Distinct(s), Exclusive(s)
  PROVE  Len(s) <= 2
<1> SUFFICES ASSUME Len(s) > 2 PROVE FALSE
  OBVIOUS
<1>1. {1, 2, 3} \subseteq DOMAIN s
  OBVIOUS
<1>2. /\ s[1] \in States /\ s[2] \in States /\ s[3] \in States
      /\ s[1] # s[2] /\ s[1] # s[3] /\ s[2] # s[3]
  BY <1>1 DEF Distinct
<1>3. \A y, z \in {s[1], s[2], s[3]} \cap Modes : y = z
  BY <1>1 DEF Exclusive, ToSet
<1> QED  BY <1>2, <1>3 DEF States

\* The recursion has a solution for the lists of two windows: five unfoldings
\* of anything are one.
LEMMA DifferenceExists ==
  ASSUME NEW a \in Seq(States), NEW b \in Seq(States),
         Len(a) <= 2, Len(b) <= 2
  PROVE  \E f : f = Unfolded(a, b, f)
<1> DEFINE d0 == <<>>
           d1 == Unfolded(a, b, d0)
           d2 == Unfolded(a, b, d1)
           d3 == Unfolded(a, b, d2)
           d4 == Unfolded(a, b, d3)
           d5 == Unfolded(a, b, d4)
           d6 == Unfolded(a, b, d5)
<1>1. \A i \in 1..(Len(a) + 1), j \in 1..(Len(b) + 1) : Left(a, b, i, j) \in 0..4
  BY DEF Left
<1>2. Agree(a, b, d0, d1, -1)
  BY <1>1 DEF Agree
<1>3. Agree(a, b, d1, d2, 0)
  <2> HIDE DEF d0
  <2> QED  BY <1>2, UnfoldedAgree
<1>4. Agree(a, b, d2, d3, 1)
  <2> HIDE DEF d1
  <2> QED  BY <1>3, UnfoldedAgree
<1>5. Agree(a, b, d3, d4, 2)
  <2> HIDE DEF d2
  <2> QED  BY <1>4, UnfoldedAgree
<1>6. Agree(a, b, d4, d5, 3)
  <2> HIDE DEF d3
  <2> QED  BY <1>5, UnfoldedAgree
<1>7. Agree(a, b, d5, d6, 4)
  <2> HIDE DEF d4
  <2> QED  BY <1>6, UnfoldedAgree
<1>8. d5 = d6
  <2>1. /\ d5 = [p \in Positions(a, b) |-> Merge(a, b, p[1], p[2], d4)]
        /\ d6 = [p \in Positions(a, b) |-> Merge(a, b, p[1], p[2], d5)]
    BY DEF Unfolded
  <2> HIDE DEF d5, d6
  <2>2. ASSUME NEW p \in Positions(a, b) PROVE d5[p] = d6[p]
    <3>1. p = <<p[1], p[2]>> /\ p[1] \in 1..(Len(a) + 1)
          /\ p[2] \in 1..(Len(b) + 1)
      BY DEF Positions
    <3>2. ASSUME NEW i \in 1..(Len(a) + 1), NEW j \in 1..(Len(b) + 1)
          PROVE  d5[<<i, j>>] = d6[<<i, j>>]
      <4>1. Left(a, b, i, j) <= 4
        BY <1>1
      <4> QED  BY <4>1, <1>7 DEF Agree
    <3>3. d5[<<p[1], p[2]>>] = d6[<<p[1], p[2]>>]
      BY <3>1, <3>2
    <3> QED  BY <3>1, <3>3
  <2> QED  BY <2>1, <2>2
<1> HIDE DEF d5
<1> QED  BY <1>8

\* Although it is fed lists that are not sorted, the merge reports every state
\* that is in one of them only.
LEMMA DifferenceCovers ==
  ASSUME NEW a \in Seq(States), NEW b \in Seq(States),
         Len(a) <= 2, Len(b) <= 2
  PROVE  (ToSet(a) \ ToSet(b)) \cup (ToSet(b) \ ToSet(a))
           \subseteq ToSet(SymmetricDifference(a, b))
<1> DEFINE f == CHOOSE g : g = Unfolded(a, b, g)
<1>1. SymmetricDifference(a, b) = f[<<1, 1>>]
  BY DEF SymmetricDifference, Unfolded
<1>2. f = Unfolded(a, b, f)
  BY DifferenceExists
<1> HIDE DEF f
<1>3. \A i \in 1..(Len(a) + 1), j \in 1..(Len(b) + 1) : Left(a, b, i, j) \in 0..4
  BY DEF Left
<1>4. Covers(a, b, f, -1)
  <2>1. ASSUME NEW i \in 1..(Len(a) + 1), NEW j \in 1..(Len(b) + 1),
               Left(a, b, i, j) <= -1
        PROVE  FALSE
    <3>1. Left(a, b, i, j) \in 0..4
      BY <1>3
    <3> QED  BY <2>1, <3>1
  <2> QED  BY <2>1 DEF Covers
<1>5. Covers(a, b, f, 0)
  BY <1>2, <1>4, UnfoldedCovers
<1>6. Covers(a, b, f, 1)
  BY <1>2, <1>5, UnfoldedCovers
<1>7. Covers(a, b, f, 2)
  BY <1>2, <1>6, UnfoldedCovers
<1>8. Covers(a, b, f, 3)
  BY <1>2, <1>7, UnfoldedCovers
<1>9. Covers(a, b, f, 4)
  BY <1>2, <1>8, UnfoldedCovers
<1>10. Len(a) \in Nat /\ Len(b) \in Nat /\ DOMAIN a = 1..Len(a)
       /\ DOMAIN b = 1..Len(b)
  OBVIOUS
<1>11. /\ \A u \in DOMAIN a : a[u] \in ToSet(b) \cup ToSet(f[<<1, 1>>])
       /\ \A u \in DOMAIN b : b[u] \in ToSet(a) \cup ToSet(f[<<1, 1>>])
  <2>1. Left(a, b, 1, 1) <= 4 /\ 1 \in 1..(Len(a) + 1) /\ 1 \in 1..(Len(b) + 1)
    BY <1>3, <1>10
  <2> QED  BY <2>1, <1>9, <1>10 DEF Covers
<1>12. ASSUME NEW y \in ToSet(a) \ ToSet(b) PROVE y \in ToSet(f[<<1, 1>>])
  <2>1. PICK u \in DOMAIN a : a[u] = y
    BY DEF ToSet
  <2> QED  BY <2>1, <1>11
<1>13. ASSUME NEW y \in ToSet(b) \ ToSet(a) PROVE y \in ToSet(f[<<1, 1>>])
  <2>1. PICK u \in DOMAIN b : b[u] = y
    BY DEF ToSet
  <2> QED  BY <2>1, <1>11
<1> QED  BY <1>1, <1>12, <1>13

-----------------------------------------------------------------------------
(* Queues of events *)

\* The events behind the i-th are the younger ones, in their order.
LEMMA SuffixIsYounger ==
  ASSUME NEW p \in Seq(Events), InOrder(p), NEW i \in DOMAIN p
  PROVE  LET r == SubSeq(p, i + 1, Len(p)) IN
         /\ r \in Seq(Events)
         /\ InOrder(r)
         /\ ToSet(r) = {d \in ToSet(p) : d.serial > p[i].serial}
         /\ r # <<>> => Last(r) = Last(p)
         /\ r = <<>> => p[i] = Last(p)
<1> DEFINE r == SubSeq(p, i + 1, Len(p))
<1>1. Len(p) \in Nat /\ DOMAIN p = 1..Len(p) /\ i \in 1..Len(p)
  OBVIOUS
<1>2. \A j \in DOMAIN p : p[j] \in Events /\ p[j].serial \in Nat
  <2>1. \A d \in Events : d.serial \in Nat
    BY SerialAssumption DEF Events
  <2>2. \A j \in DOMAIN p : p[j] \in Events
    OBVIOUS
  <2> QED  BY <2>1, <2>2
<1>3. /\ r \in Seq(Events) /\ Len(r) = Len(p) - i
      /\ DOMAIN r = 1..(Len(p) - i)
      /\ \A j \in 1..(Len(p) - i) : r[j] = p[i + j]
  <2>1. \A j \in (i + 1)..Len(p) : p[j] \in Events
    BY <1>1, <1>2
  <2>2. r \in Seq(Events)
    BY <2>1, <1>1
  <2>3. Len(r) = Len(p) - i /\ DOMAIN r = 1..(Len(p) - i)
    BY <2>1, <1>1
  <2>4. \A j \in 1..(Len(p) - i) : r[j] = p[i + j]
    BY <2>1, <1>1
  <2> QED  BY <2>2, <2>3, <2>4
<1> HIDE DEF r
<1>4. InOrder(r)
  <2> SUFFICES ASSUME NEW j \in DOMAIN r, NEW l \in DOMAIN r, j < l
               PROVE  r[j].serial < r[l].serial
    BY DEF InOrder
  <2>1. i + j \in DOMAIN p /\ i + l \in DOMAIN p /\ i + j < i + l
    BY <1>1, <1>3
  <2> QED  BY <2>1, <1>3 DEF InOrder
<1>5. ASSUME NEW d \in ToSet(r) PROVE d \in ToSet(p) /\ d.serial > p[i].serial
  <2>1. PICK j \in DOMAIN r : r[j] = d
    BY DEF ToSet
  <2>2. i + j \in DOMAIN p /\ i < i + j /\ d = p[i + j]
    BY <2>1, <1>1, <1>3
  <2>3. p[i].serial < p[i + j].serial
    BY <2>2 DEF InOrder
  <2>4. d \in ToSet(p)
    BY <2>2 DEF ToSet
  <2> QED  BY <2>2, <2>3, <2>4, <1>2
<1>6. ASSUME NEW d \in ToSet(p), d.serial > p[i].serial PROVE d \in ToSet(r)
  <2>1. PICK j \in DOMAIN p : p[j] = d
    BY DEF ToSet
  <2>2. j > i
    <3> SUFFICES ASSUME ~(j > i) PROVE FALSE
      OBVIOUS
    <3>1. j = i \/ j < i
      BY <1>1
    <3> QED  BY <3>1, <2>1, <1>2, <1>6 DEF InOrder
  <2>3. j - i \in DOMAIN r /\ r[j - i] = d
    BY <2>1, <2>2, <1>1, <1>3
  <2> QED  BY <2>3 DEF ToSet
<1>7. r # <<>> => Last(r) = Last(p)
  <2> SUFFICES ASSUME r # <<>> PROVE r[Len(r)] = p[Len(p)]
    BY DEF Last
  <2>1. Len(p) - i \in 1..(Len(p) - i)
    BY <1>1, <1>3
  <2>2. i + (Len(p) - i) = Len(p)
    BY <1>1
  <2> QED  BY <2>1, <2>2, <1>3
<1>8. r = <<>> => p[i] = Last(p)
  <2> SUFFICES ASSUME r = <<>> PROVE p[i] = p[Len(p)]
    BY DEF Last
  <2>1. Len(p) = i
    BY <1>1, <1>3
  <2> QED  BY <2>1
<1> QED  BY <1>3, <1>4, <1>5, <1>6, <1>7, <1>8 DEF r

\* Two events of a queue with the same serial are one.
LEMMA SerialsAreUnique ==
  ASSUME NEW p \in Seq(Events), InOrder(p),
         NEW i \in DOMAIN p, NEW j \in DOMAIN p, p[i].serial = p[j].serial
  PROVE  i = j
<1> SUFFICES ASSUME i # j PROVE FALSE
  OBVIOUS
<1>1. p[i].serial \in Nat
  <2>1. \A d \in Events : d.serial \in Nat
    BY SerialAssumption DEF Events
  <2>2. p[i] \in Events
    OBVIOUS
  <2> QED  BY <2>1, <2>2
<1>2. i < j \/ j < i
  <2>1. DOMAIN p = 1..Len(p) /\ Len(p) \in Nat
    OBVIOUS
  <2> QED  BY <2>1
<1> QED  BY <1>1, <1>2 DEF InOrder

\* An acknowledgement leaves exactly the younger events, in their order.
LEMMA RestIsYounger ==
  ASSUME NEW p \in Seq(Events), InOrder(p), NEW n \in Nat,
         NEW c \in ToSet(p), c.serial = n
  PROVE  /\ RestAfter(p, n) \in Seq(Events)
         /\ InOrder(RestAfter(p, n))
         /\ ToSet(RestAfter(p, n)) = {d \in ToSet(p) : d.serial > n}
         /\ RestAfter(p, n) # <<>> => Last(RestAfter(p, n)) = Last(p)
         /\ RestAfter(p, n) = <<>> => c = Last(p)
<1> DEFINE found == {i \in DOMAIN p : p[i].serial = n}
           k == CHOOSE i \in found : \A j \in found : i <= j
<1>1. PICK i \in DOMAIN p : p[i] = c
  BY DEF ToSet
<1>2. \A j \in found : j = i
  BY <1>1, SerialsAreUnique
<1>3. i \in found
  BY <1>1
<1>4. k = i
  <2>1. \A j \in found : i <= j
    BY <1>2
  <2>2. k \in found
    BY <2>1, <1>3
  <2> QED  BY <2>2, <1>2
<1>5. RestAfter(p, n) = SubSeq(p, k + 1, Len(p))
  BY <1>3 DEF RestAfter
<1> HIDE DEF k, found
<1> QED  BY <1>1, <1>4, <1>5, SuffixIsYounger

\* An unknown serial takes all events away.
LEMMA RestIsEmpty ==
  ASSUME NEW p \in Seq(Events), NEW n, \A c \in ToSet(p) : c.serial # n
  PROVE  RestAfter(p, n) = <<>>
<1>1. {i \in DOMAIN p : p[i].serial = n} = {}
  BY DEF ToSet
<1> QED  BY <1>1 DEF RestAfter

\* An event with a new serial goes to the end.
LEMMA Appended ==
  ASSUME NEW q \in Seq(Events), InOrder(q), NEW e \in Events,
         \A c \in ToSet(q) : c.serial < e.serial
  PROVE  /\ Append(q, e) \in Seq(Events)
         /\ Append(q, e) # <<>>
         /\ InOrder(Append(q, e))
         /\ ToSet(Append(q, e)) = ToSet(q) \cup {e}
         /\ Last(Append(q, e)) = e
<1> DEFINE t == Append(q, e)
<1>1. /\ t \in Seq(Events) /\ Len(q) \in Nat /\ DOMAIN q = 1..Len(q)
      /\ Len(t) = Len(q) + 1 /\ DOMAIN t = 1..(Len(q) + 1)
      /\ t[Len(q) + 1] = e
      /\ \A i \in DOMAIN q : t[i] = q[i]
  OBVIOUS
<1> HIDE DEF t
<1>2. t # <<>> /\ Last(t) = e
  BY <1>1 DEF Last
<1>3. \A i \in DOMAIN t : i \in DOMAIN q \/ i = Len(q) + 1
  BY <1>1
<1>4. InOrder(t)
  <2> SUFFICES ASSUME NEW i \in DOMAIN t, NEW j \in DOMAIN t, i < j
               PROVE  t[i].serial < t[j].serial
    BY DEF InOrder
  <2>1. i \in DOMAIN q
    BY <1>1
  <2>2. CASE j \in DOMAIN q
    BY <2>1, <2>2, <1>1 DEF InOrder
  <2>3. CASE j = Len(q) + 1
    BY <2>1, <2>3, <1>1 DEF ToSet
  <2> QED  BY <2>2, <2>3, <1>3
<1>5. ToSet(t) \subseteq ToSet(q) \cup {e}
  BY <1>1, <1>3 DEF ToSet
<1>6. ToSet(q) \cup {e} \subseteq ToSet(t)
  BY <1>1 DEF ToSet
<1> QED  BY <1>1, <1>2, <1>4, <1>5, <1>6 DEF t

-----------------------------------------------------------------------------
(* What a step does to one window *)

\* Serials are numbers.
LEMMA Serials ==
  /\ \A c \in Events : c.serial \in 1..MaxSerial /\ c.serial \in Nat
                      /\ c.states \in Seq(States) /\ c \in Configures
  /\ \A c \in Configures : c.serial \in Nat /\ c.states \in Seq(States)
BY SerialAssumption DEF Events, Configures

\* TypeOK, for one window.
LEMMA WindowTypes ==
  ASSUME Inv, NEW x \in XdgSurfaces
  PROVE  /\ serial \in Nat
         /\ pendingConfigures[x] \in Seq(Events)
         /\ toClient[x] \in Seq(Events)
         /\ toServer[x] \in Seq(1..MaxSerial)
         /\ lastAcked[x] \in Configures /\ applied[x] \in Configures
         /\ ToSet(pendingConfigures[x]) \subseteq Events
         /\ ToSet(toClient[x]) \subseteq Events
<1>1. /\ serial \in Nat
      /\ pendingConfigures[x] \in Seq(Events)
      /\ toClient[x] \in Seq(Events)
      /\ toServer[x] \in Seq(1..MaxSerial)
      /\ lastAcked[x] \in Configures /\ applied[x] \in Configures
  BY SerialAssumption DEF Inv, TypeOK
<1>2. \A q \in Seq(Events) : ToSet(q) \subseteq Events
  BY DEF ToSet
<1> QED  BY <1>1, <1>2

\* The states a new event is built from are typed.
LEMMA LastSentStates ==
  ASSUME Inv, NEW x \in XdgSurfaces
  PROVE  /\ LastSentConfigure(x).states \in Seq(States)
         /\ Distinct(LastSentConfigure(x).states)
         /\ Exclusive(LastSentConfigure(x).states)
<1>1. /\ pendingConfigures[x] \in Seq(Events) /\ lastAcked[x] \in Configures
      /\ \A c \in {lastAcked[x]} \cup ToSet(pendingConfigures[x]) :
           Distinct(c.states) /\ Exclusive(c.states)
  BY DEF Inv, TypeOK
<1>2. CASE pendingConfigures[x] = <<>>
  BY <1>1, <1>2 DEF LastSentConfigure, Configures
<1>3. CASE pendingConfigures[x] # <<>>
  <2>1. 1 \in DOMAIN pendingConfigures[x]
    BY <1>1, <1>3
  <2>2. LastSentConfigure(x) = pendingConfigures[x][1]
    BY <1>1, <1>3 DEF LastSentConfigure
  <2>3. /\ LastSentConfigure(x) \in Events
        /\ LastSentConfigure(x) \in ToSet(pendingConfigures[x])
    BY <2>1, <2>2, <1>1 DEF ToSet
  <2> QED  BY <2>3, <1>1 DEF Events
<1> QED  BY <1>2, <1>3

\* With at most one event pending it is the one sent last.
LEMMA LastSentIsSent ==
  ASSUME Inv, NEW x \in Prompt, MaySend(x)
  PROVE  LastSentConfigure(x) = Sent(x)
<1>1. x \in XdgSurfaces
  BY BehaviourAssumption
<1>2. pendingConfigures[x] \in Seq(Events) /\ Len(pendingConfigures[x]) <= 1
  BY <1>1 DEF Inv, TypeOK, MaySend
<1>3. CASE pendingConfigures[x] = <<>>
  BY <1>3 DEF LastSentConfigure, Sent
<1>4. CASE pendingConfigures[x] # <<>>
  <2> DEFINE p == pendingConfigures[x]
  <2>1. Len(p) = 1
    <3> HIDE DEF p
    <3>1. p \in Seq(Events) /\ Len(p) <= 1 /\ p # <<>>
      BY <1>2, <1>4 DEF p
    <3>2. Len(p) \in Nat \ {0}
      BY <3>1, EmptySeq
    <3> QED  BY <3>1, <3>2
  <2> QED  BY <2>1, <1>2, <1>4 DEF LastSentConfigure, Sent, Last
<1> QED  BY <1>3, <1>4

\* A window that is sent an event.
LEMMA WindowIsSent ==
  ASSUME Inv, NEW x \in live, NEW e \in Events,
         serial < e.serial, serial' \in Nat, e.serial <= serial',
         pendingConfigures'[x] = Append(pendingConfigures[x], e),
         toClient'[x] = Append(toClient[x], e),
         UNCHANGED <<lastAcked, toServer, applied>>
  PROVE  /\ PendingState(x)'
         /\ x \notin WrongAcks => ClientState(x)'
         /\ Sent(x)' = e
<1> DEFINE p == pendingConfigures[x]
           q == toClient[x]
<1>1. /\ x \in XdgSurfaces /\ p \in Seq(Events) /\ q \in Seq(Events)
      /\ serial \in Nat /\ e.serial \in Nat /\ lastAcked[x].serial \in Nat
  <2>1. x \in XdgSurfaces
    BY DEF Inv, TypeOK
  <2> QED  BY <2>1, WindowTypes, Serials
<1>2. \A c \in Events : c.serial \in Nat
  BY Serials
<1>3. /\ InOrder(p) /\ lastAcked[x].serial <= serial
      /\ \A c \in ToSet(p) : /\ c \in Events
                             /\ lastAcked[x].serial < c.serial
                             /\ c.serial <= serial
  <2>1. ToSet(p) \subseteq Events
    BY <1>1, WindowTypes
  <2> QED  BY <2>1 DEF Inv, PendingState
<1>4. \A c \in ToSet(p) : c.serial < e.serial
  BY <1>1, <1>2, <1>3
<1> HIDE DEF p, q
<1>5. /\ pendingConfigures'[x] # <<>> /\ InOrder(pendingConfigures'[x])
      /\ ToSet(pendingConfigures'[x]) = ToSet(p) \cup {e}
      /\ Last(pendingConfigures'[x]) = e
  BY <1>1, <1>3, <1>4, Appended DEF p
<1>6. PendingState(x)'
  <2>1. ASSUME NEW c \in ToSet(p) \cup {e}
        PROVE  lastAcked[x].serial < c.serial /\ c.serial <= serial'
    <3>1. CASE c \in ToSet(p)
      BY <3>1, <1>1, <1>2, <1>3
    <3>2. CASE c = e
      BY <3>2, <1>1, <1>3
    <3> QED  BY <3>1, <3>2
  <2> QED  BY <2>1, <1>1, <1>3, <1>5 DEF PendingState
<1>7. Sent(x)' = e
  BY <1>5 DEF Sent
<1>8. ASSUME x \notin WrongAcks PROVE ClientState(x)'
  <2>1. ClientState(x)
    BY <1>8 DEF Inv
  <2>2. /\ InOrder(q) /\ ToSet(q) \subseteq ToSet(p)
        /\ \A c \in ToSet(q) : applied[x].serial < c.serial
    BY <2>1 DEF ClientState, p, q
  <2>3. InOrder(toClient'[x]) /\ ToSet(toClient'[x]) = ToSet(q) \cup {e}
    BY <2>2, <1>1, <1>4, Appended DEF q
  <2>4. applied[x].serial < e.serial
    <3>1. applied[x] = lastAcked[x] \/ applied[x] \in ToSet(p)
      BY <2>1 DEF ClientState, p
    <3> QED  BY <3>1, <1>1, <1>3, <1>4
  <2>5. \A c \in ToSet(toClient'[x]) : applied[x].serial < c.serial
    BY <2>2, <2>3, <2>4
  <2>6. /\ \A k, j \in DOMAIN toServer[x] : k < j => toServer[x][k] < toServer[x][j]
        /\ \A k \in DOMAIN toServer[x] :
             \E c \in ToSet(p) : c.serial = toServer[x][k]
        /\ IF toServer[x] = <<>> THEN applied[x] = lastAcked[x]
           ELSE /\ applied[x] \in ToSet(p)
                /\ applied[x].serial = toServer[x][Len(toServer[x])]
    BY <2>1 DEF ClientState, p
  <2> QED  BY <2>2, <2>3, <2>5, <2>6, <1>5 DEF ClientState
<1> QED  BY <1>6, <1>7, <1>8

\* A window the step has nothing to do with.
LEMMA WindowRests ==
  ASSUME Inv, NEW x \in live, serial <= serial', serial' \in Nat,
         pendingConfigures'[x] = pendingConfigures[x],
         toClient'[x] = toClient[x], lastAcked'[x] = lastAcked[x],
         toServer'[x] = toServer[x], applied'[x] = applied[x]
  PROVE  /\ PendingState(x)'
         /\ x \notin WrongAcks => ClientState(x)'
         /\ Sent(x)' = Sent(x)
<1>1. /\ x \in XdgSurfaces /\ serial \in Nat /\ lastAcked[x].serial \in Nat
      /\ \A c \in ToSet(pendingConfigures[x]) : c.serial \in Nat
  <2>1. x \in XdgSurfaces
    BY DEF Inv, TypeOK
  <2> QED  BY <2>1, WindowTypes, Serials
<1>2. PendingState(x)'
  <2>1. PendingState(x)
    BY DEF Inv
  <2> QED  BY <2>1, <1>1 DEF PendingState
<1>3. x \notin WrongAcks => ClientState(x)'
  <2>1. x \notin WrongAcks => ClientState(x)
    BY DEF Inv
  <2> QED  BY <2>1 DEF ClientState
<1>4. Sent(x)' = Sent(x)
  BY DEF Sent
<1> QED  BY <1>2, <1>3, <1>4

-----------------------------------------------------------------------------
(* The steps *)

\* The lists of all events of x are lists of states.
ListsOK(x) ==
  \A c \in {lastAcked[x]} \cup ToSet(pendingConfigures[x]) :
    Distinct(c.states) /\ Exclusive(c.states)

\* The initial state satisfies the invariant.
LEMMA InitInv == Init => Inv
<1> SUFFICES ASSUME Init PROVE Inv
  OBVIOUS
<1>1. /\ <<>> \in Seq(Events) /\ <<>> \in Seq(States)
      /\ <<>> \in Seq(1..MaxSerial) /\ 0 \in 0..MaxSerial
  BY SerialAssumption
<1>2. NoConfigure \in Configures /\ NoConfigure.states = <<>>
  BY <1>1 DEF NoConfigure, Configure, Configures
<1>3. Distinct(<<>>) /\ Exclusive(<<>>) /\ ToSet(<<>>) = {}
  BY DEF Distinct, Exclusive, ToSet
<1>4. TypeOK
  BY <1>1, <1>2, <1>3 DEF Init, TypeOK
<1>5. NoChangeMissed
  BY DEF Init, NoChangeMissed, Silent
<1> QED  BY <1>4, <1>5 DEF Init, Inv

\* A step without an acknowledgement announces nothing.
LEMMA SilentMissesNothing ==
  ASSUME signals' = Silent
  PROVE  NoChangeMissed'
BY DEF NoChangeMissed, Silent

\* A request for a mode: the event is made from the one sent last if the
\* window keeps up, and says what is wanted.
LEMMA SetModeInv ==
  ASSUME Inv, NEW x \in XdgSurfaces, NEW m \in Modes \cup {None},
         SetMode(x, m), serial' <= MaxSerial,
         UNCHANGED <<live, lastAcked, focus, toServer, applied>>,
         grabber' \in [XdgSurfaces -> {"Default", "Move", "Resize"}]
  PROVE  Inv'
<1> DEFINE l == LastSentConfigure(x).states
           e == Configure(serial + 1, InMode(l, m))
<1>1. /\ x \in live /\ MaySend(x) /\ serial' = serial + 1
      /\ pendingConfigures' =
           [pendingConfigures EXCEPT ![x] = Append(pendingConfigures[x], e)]
      /\ toClient' = [toClient EXCEPT ![x] = Append(toClient[x], e)]
      /\ wanted' = [wanted EXCEPT ![x] = m]
      /\ signals' = Silent
  BY DEF SetMode, SendConfigure
<1>2. l \in Seq(States) /\ Distinct(l) /\ Exclusive(l)
  BY LastSentStates
<1> HIDE DEF l
<1>3. /\ InMode(l, m) \in Seq(States) /\ Distinct(InMode(l, m))
      /\ Exclusive(InMode(l, m))
      /\ ToSet(InMode(l, m)) = (ToSet(l) \ Modes) \cup ({m} \ {None})
  BY <1>2, InModeStates
<1>4. serial \in Nat /\ serial + 1 \in 1..MaxSerial /\ serial < serial + 1
  BY <1>1, WindowTypes, SerialAssumption
<1>5. /\ e \in Events /\ e.serial = serial + 1 /\ e.states = InMode(l, m)
  BY <1>3, <1>4 DEF Configure, Events
<1> HIDE DEF e
<1>6. /\ pendingConfigures \in [XdgSurfaces -> Seq(Events)]
      /\ toClient \in [XdgSurfaces -> Seq(Events)]
      /\ wanted \in [XdgSurfaces -> Modes \cup {None}]
      /\ live \subseteq XdgSurfaces
  BY DEF Inv, TypeOK
<1>7. /\ pendingConfigures'[x] = Append(pendingConfigures[x], e)
      /\ toClient'[x] = Append(toClient[x], e)
      /\ wanted'[x] = m
      /\ \A y \in XdgSurfaces \ {x} :
           /\ pendingConfigures'[y] = pendingConfigures[y]
           /\ toClient'[y] = toClient[y]
           /\ wanted'[y] = wanted[y]
  BY <1>1, <1>6
<1>8. /\ PendingState(x)' /\ (x \notin WrongAcks => ClientState(x)')
      /\ Sent(x)' = e
  BY <1>1, <1>4, <1>5, <1>7, WindowIsSent
<1>9. ASSUME NEW y \in live \ {x}
      PROVE  /\ PendingState(y)' /\ (y \notin WrongAcks => ClientState(y)')
             /\ Sent(y)' = Sent(y)
  BY <1>1, <1>4, <1>6, <1>7, WindowRests
<1>10. ToSet(pendingConfigures'[x]) \subseteq ToSet(pendingConfigures[x]) \cup {e}
  <2> DEFINE q == pendingConfigures[x]
  <2>1. q \in Seq(Events)
    BY <1>6
  <2> HIDE DEF q
  <2>2. ToSet(Append(q, e)) \subseteq ToSet(q) \cup {e}
    BY <2>1, <1>5 DEF ToSet
  <2> QED  BY <2>2, <1>7 DEF q
<1>11. TypeOK'
  <2>1. \A y \in XdgSurfaces : ListsOK(y)'
    <3>1. \A y \in XdgSurfaces : ListsOK(y)
      BY DEF Inv, TypeOK, ListsOK
    <3>2. ListsOK(x)'
      BY <3>1, <1>3, <1>5, <1>10 DEF ListsOK
    <3>3. \A y \in XdgSurfaces \ {x} : ListsOK(y)'
      BY <3>1, <1>7 DEF ListsOK
    <3> QED  BY <3>2, <3>3
  <2>2. /\ pendingConfigures' \in [XdgSurfaces -> Seq(Events)]
        /\ toClient' \in [XdgSurfaces -> Seq(Events)]
    BY <1>1, <1>5, <1>6
  <2>3. wanted' \in [XdgSurfaces -> Modes \cup {None}]
    BY <1>1, <1>6
  <2>4. serial' \in 0..MaxSerial
    BY <1>1, <1>4
  <2> QED  BY <2>1, <2>2, <2>3, <2>4 DEF Inv, TypeOK, ListsOK
<1>12. ASSUME NEW y \in live \cap (Prompt \ WrongAcks) PROVE WantsSent(y)'
  <2>1. WantsSent(y)
    BY DEF Inv
  <2>2. CASE y # x
    BY <2>1, <2>2, <1>6, <1>7, <1>9 DEF WantsSent, Wants
  <2>3. CASE y = x
    <3>1. ToSet(l) = Wants(x)
      BY <2>1, <2>3, <1>1, LastSentIsSent DEF WantsSent, l
    <3>2. Wants(x)' = ({m} \ {None})
                      \cup (IF focus = x THEN {"Activated"} ELSE {})
      BY <1>7 DEF Wants
    <3>3. ToSet(l) \ Modes = IF focus = x THEN {"Activated"} ELSE {}
      <4>1. wanted[x] \in Modes \cup {None}
        BY <1>6
      <4> QED  BY <4>1, <3>1 DEF Wants, Modes
    <3>4. ToSet(Sent(x)'.states) = Wants(x)'
      BY <3>2, <3>3, <1>3, <1>5, <1>8
    <3> QED  BY <3>4, <2>3 DEF WantsSent
  <2> QED  BY <2>2, <2>3
<1> QED  BY <1>1, <1>8, <1>9, <1>11, <1>12, SilentMissesNothing DEF Inv

\* Two lists of one entry make one of two.
LEMMA TwoInOne ==
  ASSUME NEW a, NEW z
  PROVE  <<a>> \o <<z>> = <<a, z>>
<1> DEFINE s == <<a>> \o <<z>>
<1>1. /\ <<a>> \in Seq({a, z}) /\ <<z>> \in Seq({a, z})
      /\ Len(<<a>>) = 1 /\ Len(<<z>>) = 1
  OBVIOUS
<1>2. /\ s \in Seq({a, z})
      /\ Len(s) = Len(<<a>>) + Len(<<z>>)
      /\ \A i \in 1..(Len(<<a>>) + Len(<<z>>)) :
           s[i] = IF i <= Len(<<a>>) THEN <<a>>[i] ELSE <<z>>[i - Len(<<a>>)]
  BY <1>1, ConcatProperties, Zenon
<1> HIDE DEF s
<1>3. s \in Seq({a, z}) /\ Len(s) = 2 /\ s[1] = a /\ s[2] = z
  BY <1>2
<1>4. s = <<a, z>>
  BY <1>3
<1> QED  BY <1>4 DEF s

\* handleFocusChanged(), spelled out: the new window gets the next serial and
\* the old one the serial after that.
LEMMA FocusSends ==
  ASSUME Inv, NEW new, SetFocus(new)
  PROVE  LET n == IF new = None THEN 0 ELSE 1
             o == IF focus = None THEN 0 ELSE 1
             e == Configure(serial + 1,
                            With(LastSentConfigure(new).states, "Activated"))
             f == Configure(serial + n + 1,
                            Without(LastSentConfigure(focus).states, "Activated"))
             added(q) == [x \in XdgSurfaces |->
                            IF x \notin {new, focus} THEN q[x]
                            ELSE IF x = new THEN Append(q[x], e)
                            ELSE Append(q[x], f)] IN
         /\ serial' = serial + n + o
         /\ pendingConfigures' = added(pendingConfigures)
         /\ toClient' = added(toClient)
<1> DEFINE sends == FocusConfigures(new, focus)
           sentTo(x) == {i \in DOMAIN sends : sends[i].window = x}
           event(i) == Configure(serial + i, sends[i].states)
           given(q) == [x \in XdgSurfaces |->
                          IF sentTo(x) = {} THEN q[x]
                          ELSE Append(q[x], event(CHOOSE i \in sentTo(x) : TRUE))]
           a == [window |-> new,
                 states |-> With(LastSentConfigure(new).states, "Activated")]
           z == [window |-> focus,
                 states |-> Without(LastSentConfigure(focus).states, "Activated")]
<1>1. /\ new # focus /\ None \notin XdgSurfaces /\ serial \in Nat
      /\ serial' = serial + Len(sends)
      /\ pendingConfigures' = given(pendingConfigures)
      /\ toClient' = given(toClient)
  BY NoneAssumption, SerialAssumption DEF SetFocus, Inv, TypeOK
<1>2. CASE new # None /\ focus # None
  <2>1. sends = <<a, z>>
    <3>1. sends = <<a>> \o <<z>>
      BY <1>2 DEF FocusConfigures
    <3> HIDE DEF a, z, sends
    <3>2. <<a>> \o <<z>> = <<a, z>>
      BY TwoInOne
    <3> QED  BY <3>1, <3>2
  <2> HIDE DEF a, z, sends
  <2>2. /\ Len(sends) = 2 /\ DOMAIN sends = {1, 2}
        /\ sends[1] = a /\ sends[2] = z
    BY <2>1
  <2>3. a.window = new /\ z.window = focus
    BY DEF a, z
  <2>4. /\ sentTo(new) = {1} /\ sentTo(focus) = {2}
        /\ \A x \in XdgSurfaces : x \notin {new, focus} => sentTo(x) = {}
    BY <2>2, <2>3, <1>1
  <2> HIDE DEF sentTo
  <2>5. /\ (CHOOSE i \in sentTo(new) : TRUE) = 1
        /\ (CHOOSE i \in sentTo(focus) : TRUE) = 2
    BY <2>4
  <2>6. /\ event(1) = Configure(serial + 1,
                        With(LastSentConfigure(new).states, "Activated"))
        /\ event(2) = Configure(serial + 1 + 1,
                        Without(LastSentConfigure(focus).states, "Activated"))
    BY <2>2, <1>1 DEF a, z
  <2> HIDE DEF event
  <2>7. ASSUME NEW q
        PROVE  given(q) = [x \in XdgSurfaces |->
                             IF x \notin {new, focus} THEN q[x]
                             ELSE IF x = new THEN Append(q[x], event(1))
                             ELSE Append(q[x], event(2))]
    BY <2>4, <2>5, <1>1
  <2>8. /\ pendingConfigures' = given(pendingConfigures)
        /\ toClient' = given(toClient)
    BY <1>1
  <2> HIDE DEF given
  <2> QED  BY <2>2, <2>6, <2>7, <2>8, <1>1, <1>2
<1>3. CASE new # None /\ focus = None
  <2>1. sends = <<a>>
    BY <1>3 DEF FocusConfigures
  <2> HIDE DEF a, sends
  <2>2. Len(sends) = 1 /\ DOMAIN sends = {1} /\ sends[1] = a
    BY <2>1
  <2>3. a.window = new
    BY DEF a
  <2>4. /\ sentTo(new) = {1}
        /\ \A x \in XdgSurfaces : x # new => sentTo(x) = {}
    BY <2>2, <2>3, <1>1
  <2> HIDE DEF sentTo
  <2>5. (CHOOSE i \in sentTo(new) : TRUE) = 1
    BY <2>4
  <2>6. event(1) = Configure(serial + 1,
                     With(LastSentConfigure(new).states, "Activated"))
    BY <2>2 DEF a
  <2> HIDE DEF event
  <2> QED  BY <2>2, <2>4, <2>5, <2>6, <1>1, <1>3
<1>4. CASE new = None /\ focus # None
  <2>1. sends = <<z>>
    BY <1>4 DEF FocusConfigures
  <2> HIDE DEF z, sends
  <2>2. Len(sends) = 1 /\ DOMAIN sends = {1} /\ sends[1] = z
    BY <2>1
  <2>3. z.window = focus
    BY DEF z
  <2>4. /\ sentTo(focus) = {1}
        /\ \A x \in XdgSurfaces : x # focus => sentTo(x) = {}
    BY <2>2, <2>3, <1>1
  <2> HIDE DEF sentTo
  <2>5. (CHOOSE i \in sentTo(focus) : TRUE) = 1
    BY <2>4
  <2>6. event(1) = Configure(serial + 0 + 1,
                     Without(LastSentConfigure(focus).states, "Activated"))
    BY <2>2, <1>1 DEF z
  <2> HIDE DEF event
  <2> QED  BY <2>2, <2>4, <2>5, <2>6, <1>1, <1>4
<1> QED  BY <1>1, <1>2, <1>3, <1>4

\* A change of the keyboard focus.
LEMMA SetFocusInv ==
  ASSUME Inv, NEW new \in XdgSurfaces \cup {None}, SetFocus(new),
         serial' <= MaxSerial
  PROVE  Inv'
<1> DEFINE n == IF new = None THEN 0 ELSE 1
           o == IF focus = None THEN 0 ELSE 1
           ls == With(LastSentConfigure(new).states, "Activated")
           lt == Without(LastSentConfigure(focus).states, "Activated")
           e == Configure(serial + 1, ls)
           f == Configure(serial + n + 1, lt)
           added(q) == [x \in XdgSurfaces |->
                          IF x \notin {new, focus} THEN q[x]
                          ELSE IF x = new THEN Append(q[x], e)
                          ELSE Append(q[x], f)]
<1>1. /\ serial' = serial + n + o
      /\ pendingConfigures' = added(pendingConfigures)
      /\ toClient' = added(toClient)
  BY FocusSends
<1>2. /\ new \in live \cup {None} /\ new # focus /\ focus' = new
      /\ \A x \in {new, focus} \ {None} : MaySend(x)
      /\ signals' = Silent
      /\ UNCHANGED <<live, lastAcked, grabber, toServer, applied, wanted>>
  BY DEF SetFocus
<1>3. /\ live \subseteq XdgSurfaces /\ None \notin XdgSurfaces
      /\ focus \in live \cup {None}
      /\ serial \in Nat /\ n \in 0..1 /\ o \in 0..1
      /\ pendingConfigures \in [XdgSurfaces -> Seq(Events)]
      /\ toClient \in [XdgSurfaces -> Seq(Events)]
      /\ wanted \in [XdgSurfaces -> Modes \cup {None}]
  BY NoneAssumption, SerialAssumption DEF Inv, TypeOK
<1>4. ASSUME new # None
      PROVE  /\ ls \in Seq(States) /\ Distinct(ls) /\ Exclusive(ls)
             /\ ToSet(ls) = ToSet(LastSentConfigure(new).states) \cup {"Activated"}
             /\ e \in Events /\ e.serial = serial + 1 /\ e.states = ls
  <2> DEFINE l == LastSentConfigure(new).states
  <2>1. l \in Seq(States) /\ Distinct(l) /\ Exclusive(l)
    BY <1>2, <1>3, <1>4, LastSentStates
  <2> HIDE DEF l
  <2>2. /\ ls \in Seq(States) /\ Distinct(ls)
        /\ ToSet(ls) = ToSet(l) \cup {"Activated"}
    BY <2>1, WithState DEF States, l
  <2> HIDE DEF ls
  <2>3. Exclusive(ls)
    BY <2>1, <2>2 DEF Exclusive, Modes
  <2>4. serial + 1 \in 1..MaxSerial
    BY <1>1, <1>3, <1>4, SerialAssumption
  <2>5. e \in Events /\ e.serial = serial + 1 /\ e.states = ls
    BY <2>2, <2>4 DEF Configure, Events
  <2> QED  BY <2>2, <2>3, <2>5 DEF l
<1>5. ASSUME focus # None
      PROVE  /\ lt \in Seq(States) /\ Distinct(lt) /\ Exclusive(lt)
             /\ ToSet(lt) = ToSet(LastSentConfigure(focus).states)
                            \ {"Activated"}
             /\ f \in Events /\ f.serial = serial + n + 1 /\ f.states = lt
  <2> DEFINE l == LastSentConfigure(focus).states
  <2>1. l \in Seq(States) /\ Distinct(l) /\ Exclusive(l)
    BY <1>3, <1>5, LastSentStates
  <2> HIDE DEF l
  <2>2. /\ lt \in Seq(States) /\ Distinct(lt)
        /\ ToSet(lt) = ToSet(l) \ {"Activated"}
    BY <2>1, WithoutState DEF l
  <2> HIDE DEF lt
  <2>3. Exclusive(lt)
    BY <2>1, <2>2 DEF Exclusive
  <2>4. serial + n + 1 \in 1..MaxSerial
    BY <1>1, <1>3, <1>5, SerialAssumption
  <2>5. f \in Events /\ f.serial = serial + n + 1 /\ f.states = lt
    BY <2>2, <2>4 DEF Configure, Events
  <2> QED  BY <2>2, <2>3, <2>5 DEF l
<1> HIDE DEF e, f, ls, lt
<1>6. /\ serial' \in Nat /\ serial <= serial'
      /\ new # None => serial + 1 <= serial'
      /\ focus # None => serial + n + 1 <= serial'
      /\ serial < serial + 1 /\ serial < serial + n + 1
  BY <1>1, <1>3
<1> HIDE DEF n, o
<1>7. \A x \in XdgSurfaces :
        /\ x \notin {new, focus} =>
             /\ pendingConfigures'[x] = pendingConfigures[x]
             /\ toClient'[x] = toClient[x]
        /\ x = new => /\ pendingConfigures'[x] = Append(pendingConfigures[x], e)
                      /\ toClient'[x] = Append(toClient[x], e)
        /\ x = focus => /\ pendingConfigures'[x] = Append(pendingConfigures[x], f)
                        /\ toClient'[x] = Append(toClient[x], f)
  BY <1>1, <1>2
<1>8. ASSUME NEW x \in live, x = new
      PROVE  /\ PendingState(x)' /\ (x \notin WrongAcks => ClientState(x)')
             /\ Sent(x)' = e
  <2>1. new # None /\ x \in XdgSurfaces
    BY <1>3, <1>8
  <2> QED  BY <2>1, <1>2, <1>4, <1>6, <1>7, <1>8, WindowIsSent
<1>9. ASSUME NEW x \in live, x = focus
      PROVE  /\ PendingState(x)' /\ (x \notin WrongAcks => ClientState(x)')
             /\ Sent(x)' = f
  <2>1. focus # None /\ x \in XdgSurfaces
    BY <1>3, <1>9
  <2> QED  BY <2>1, <1>2, <1>5, <1>6, <1>7, <1>9, WindowIsSent
<1>10. ASSUME NEW x \in live, x \notin {new, focus}
       PROVE  /\ PendingState(x)' /\ (x \notin WrongAcks => ClientState(x)')
              /\ Sent(x)' = Sent(x)
  BY <1>2, <1>3, <1>6, <1>7, <1>10, WindowRests
<1>11. ASSUME NEW q \in Seq(Events), NEW c \in Events
       PROVE  /\ Append(q, c) \in Seq(Events)
              /\ ToSet(Append(q, c)) \subseteq ToSet(q) \cup {c}
  BY DEF ToSet
<1>12. TypeOK'
  <2>1. \A y \in XdgSurfaces : ListsOK(y)
    BY DEF Inv, TypeOK, ListsOK
  <2>2. ASSUME NEW x \in XdgSurfaces
        PROVE  /\ pendingConfigures'[x] \in Seq(Events)
               /\ toClient'[x] \in Seq(Events)
               /\ ListsOK(x)'
    <3>1. /\ pendingConfigures[x] \in Seq(Events) /\ toClient[x] \in Seq(Events)
          /\ x # None
      BY <1>3
    <3>2. CASE x = new
      <4>1. /\ e \in Events
            /\ Distinct(e.states) /\ Exclusive(e.states)
        BY <1>4, <3>1, <3>2
      <4>2. ToSet(pendingConfigures'[x]) \subseteq ToSet(pendingConfigures[x]) \cup {e}
        BY <4>1, <3>1, <3>2, <1>7, <1>11
      <4>3. ListsOK(x)'
        BY <4>1, <4>2, <2>1, <1>2 DEF ListsOK
      <4> QED  BY <4>1, <4>3, <3>1, <3>2, <1>7, <1>11
    <3>3. CASE x = focus
      <4>1. /\ f \in Events
            /\ Distinct(f.states) /\ Exclusive(f.states)
        BY <1>5, <3>1, <3>3
      <4>2. ToSet(pendingConfigures'[x]) \subseteq ToSet(pendingConfigures[x]) \cup {f}
        BY <4>1, <3>1, <3>3, <1>7, <1>11
      <4>3. ListsOK(x)'
        BY <4>1, <4>2, <2>1, <1>2 DEF ListsOK
      <4> QED  BY <4>1, <4>3, <3>1, <3>3, <1>7, <1>11
    <3>4. CASE x \notin {new, focus}
      BY <3>1, <3>4, <2>1, <1>2, <1>7 DEF ListsOK
    <3> QED  BY <3>2, <3>3, <3>4
  <2>3. /\ pendingConfigures' \in [XdgSurfaces -> Seq(Events)]
        /\ toClient' \in [XdgSurfaces -> Seq(Events)]
    BY <2>2, <1>1
  <2>4. serial' \in 0..MaxSerial
    BY <1>6, SerialAssumption
  <2> QED  BY <2>2, <2>3, <2>4, <1>2 DEF Inv, TypeOK, ListsOK
<1>13. ASSUME NEW x \in live \cap (Prompt \ WrongAcks) PROVE WantsSent(x)'
  <2>1. WantsSent(x)
    BY DEF Inv
  <2>2. wanted[x] \in Modes \cup {None} /\ x # None
    BY <1>3
  <2>3. "Activated" \notin Modes
    BY DEF Modes
  <2>4. Wants(x)' = ({wanted[x]} \ {None})
                    \cup (IF new = x THEN {"Activated"} ELSE {})
    BY <1>2 DEF Wants
  <2>5. CASE x = new
    <3>1. ToSet(LastSentConfigure(x).states) = Wants(x)
      BY <2>1, <2>2, <2>5, <1>2, LastSentIsSent DEF WantsSent
    <3>2. ToSet(Sent(x)'.states) = Wants(x) \cup {"Activated"}
      BY <3>1, <2>2, <2>5, <1>4, <1>8
    <3> QED  BY <3>2, <2>4, <2>5 DEF WantsSent, Wants
  <2>6. CASE x = focus
    <3>1. ToSet(LastSentConfigure(x).states) = Wants(x)
      BY <2>1, <2>2, <2>6, <1>2, LastSentIsSent DEF WantsSent
    <3>2. ToSet(Sent(x)'.states) = Wants(x) \ {"Activated"}
      BY <3>1, <2>2, <2>6, <1>5, <1>9
    <3>3. Wants(x) \ {"Activated"} = {wanted[x]} \ {None}
      <4>1. wanted[x] # None => wanted[x] # "Activated"
        BY <2>2, <2>3
      <4> QED  BY <4>1, <2>6 DEF Wants
    <3>4. new # x
      BY <2>6, <1>2
    <3> QED  BY <3>2, <3>3, <3>4, <2>4 DEF WantsSent
  <2>7. CASE x \notin {new, focus}
    BY <2>1, <2>4, <2>7, <1>10 DEF WantsSent, Wants
  <2> QED  BY <2>5, <2>6, <2>7
<1>14. \A x \in live : /\ PendingState(x)'
                       /\ x \notin WrongAcks => ClientState(x)'
  BY <1>8, <1>9, <1>10
<1> QED  BY <1>2, <1>12, <1>13, <1>14, SilentMissesNothing DEF Inv

\* What xdg_surface_ack_configure() does to the pending events, whatever the
\* serial: an event that is pending becomes the acknowledged one.
LEMMA AckKeepsOrder ==
  ASSUME Inv, NEW x \in live, NEW n \in Nat, AckConfigure(x, n),
         UNCHANGED serial
  PROVE  /\ pendingConfigures' \in [XdgSurfaces -> Seq(Events)]
         /\ lastAcked' \in [XdgSurfaces -> Configures]
         /\ \A y \in XdgSurfaces \ {x} :
              pendingConfigures'[y] = pendingConfigures[y]
              /\ lastAcked'[y] = lastAcked[y]
         /\ ListsOK(x)'
         /\ PendingState(x)'
         /\ NoChangeMissed'
         /\ \A c \in ToSet(pendingConfigures[x]) : c.serial = n =>
              /\ lastAcked'[x] = c
              /\ ToSet(pendingConfigures'[x])
                   = {d \in ToSet(pendingConfigures[x]) : d.serial > n}
              /\ Sent(x)' = Sent(x)
<1> DEFINE p == pendingConfigures[x]
           r == RestAfter(p, n)
<1>1. /\ x \in XdgSurfaces /\ serial \in Nat
      /\ p \in Seq(Events) /\ ToSet(p) \subseteq Events
      /\ lastAcked \in [XdgSurfaces -> Configures]
      /\ pendingConfigures \in [XdgSurfaces -> Seq(Events)]
      /\ \A c \in Configures : c.serial \in Nat
  <2>1. x \in XdgSurfaces
    BY DEF Inv, TypeOK
  <2> QED  BY <2>1, WindowTypes, Serials DEF Inv, TypeOK
<1>2. /\ InOrder(p) /\ lastAcked[x].serial <= serial
      /\ \A c \in ToSet(p) : lastAcked[x].serial < c.serial /\ c.serial <= serial
  BY DEF Inv, PendingState
<1>3. ListsOK(x)
  BY <1>1 DEF Inv, TypeOK, ListsOK
<1>4. pendingConfigures' = [pendingConfigures EXCEPT ![x] = r]
  BY DEF AckConfigure
<1>5. CASE \A c \in ToSet(p) : c.serial # n
  <2>1. r = <<>>
    BY <1>1, <1>5, RestIsEmpty
  <2>2. lastAcked' = lastAcked /\ signals' = Silent
    BY <1>5 DEF AckConfigure, Acknowledged
  <2>3. pendingConfigures'[x] = <<>> /\ ToSet(<<>>) = {} /\ InOrder(<<>>)
        /\ <<>> \in Seq(Events)
    BY <2>1, <1>1, <1>4 DEF ToSet, InOrder
  <2>4. /\ pendingConfigures' \in [XdgSurfaces -> Seq(Events)]
        /\ \A y \in XdgSurfaces \ {x} : pendingConfigures'[y] = pendingConfigures[y]
    BY <2>1, <2>3, <1>1, <1>4
  <2>5. ListsOK(x)'
    BY <2>2, <2>3, <1>3 DEF ListsOK
  <2>6. PendingState(x)'
    BY <2>2, <2>3, <1>2 DEF PendingState
  <2> QED
    BY <2>2, <2>4, <2>5, <2>6, <1>1, <1>5, SilentMissesNothing
<1>6. ASSUME NEW c \in ToSet(p), c.serial = n
      PROVE  /\ pendingConfigures' \in [XdgSurfaces -> Seq(Events)]
             /\ lastAcked' \in [XdgSurfaces -> Configures]
             /\ \A y \in XdgSurfaces \ {x} :
                  pendingConfigures'[y] = pendingConfigures[y]
                  /\ lastAcked'[y] = lastAcked[y]
             /\ ListsOK(x)' /\ PendingState(x)' /\ NoChangeMissed'
             /\ lastAcked'[x] = c
             /\ ToSet(pendingConfigures'[x]) = {d \in ToSet(p) : d.serial > n}
             /\ Sent(x)' = Sent(x)
  <2> HIDE DEF p
  <2>1. /\ r \in Seq(Events) /\ InOrder(r)
        /\ ToSet(r) = {d \in ToSet(p) : d.serial > n}
        /\ r # <<>> => Last(r) = Last(p)
        /\ r = <<>> => c = Last(p)
    BY <1>1, <1>2, <1>6, RestIsYounger
  <2> HIDE DEF r
  <2>2. \A d \in ToSet(p) : d.serial = n => d = c
    <3> SUFFICES ASSUME NEW d \in ToSet(p), d.serial = n PROVE d = c
      OBVIOUS
    <3>1. PICK i \in DOMAIN p : p[i] = d
      BY DEF ToSet
    <3>2. PICK j \in DOMAIN p : p[j] = c
      BY DEF ToSet
    <3> QED  BY <3>1, <3>2, <1>1, <1>2, <1>6, SerialsAreUnique
  <2>3. PICK e \in ToSet(p) :
          /\ e.serial = n
          /\ lastAcked' = [lastAcked EXCEPT ![x] = e]
          /\ signals' = [before |-> ToSet(lastAcked[x].states),
                         after |-> ToSet(e.states),
                         changed |-> SymmetricDifference(lastAcked[x].states,
                                                         e.states)]
    BY <1>6 DEF AckConfigure, Acknowledged, p
  <2>4. e = c
    BY <2>2, <2>3
  <2>5. lastAcked' = [lastAcked EXCEPT ![x] = c] /\ c \in Configures
    BY <2>3, <2>4, <1>1, Serials
  <2>6. /\ lastAcked' \in [XdgSurfaces -> Configures] /\ lastAcked'[x] = c
        /\ \A y \in XdgSurfaces \ {x} : lastAcked'[y] = lastAcked[y]
    BY <2>5, <1>1
  <2>7. /\ pendingConfigures' \in [XdgSurfaces -> Seq(Events)]
        /\ pendingConfigures'[x] = r
        /\ \A y \in XdgSurfaces \ {x} : pendingConfigures'[y] = pendingConfigures[y]
    BY <2>1, <1>1, <1>4
  <2>8. ListsOK(x)'
    BY <2>1, <2>6, <2>7, <1>3 DEF ListsOK, p
  <2>9. PendingState(x)'
    <3>1. c.serial <= serial /\ \A d \in ToSet(r) : c.serial < d.serial
                                                  /\ d.serial <= serial
      BY <2>1, <1>2, <1>6
    <3> QED  BY <3>1, <2>1, <2>6, <2>7 DEF PendingState
  <2>10. Sent(x)' = Sent(x)
    <3>1. Sent(x) = Last(p)
      <4>1. p # <<>>
        BY <1>6 DEF ToSet
      <4> QED  BY <4>1 DEF Sent, p
    <3>2. Sent(x)' = IF r = <<>> THEN c ELSE Last(r)
      BY <2>6, <2>7 DEF Sent
    <3> QED  BY <3>1, <3>2, <2>1
  <2>11. NoChangeMissed'
    <3> DEFINE a == lastAcked[x].states
               b == c.states
    <3>1. /\ a \in Seq(States) /\ Distinct(a) /\ Exclusive(a)
          /\ b \in Seq(States) /\ Distinct(b) /\ Exclusive(b)
      <4>1. lastAcked[x] \in Configures
        BY <1>1
      <4> QED  BY <4>1, <2>5, <1>3, <1>6, Serials DEF ListsOK, p
    <3> HIDE DEF a, b
    <3>2. Len(a) <= 2 /\ Len(b) <= 2
      BY <3>1, AtMostTwo
    <3>3. (ToSet(a) \ ToSet(b)) \cup (ToSet(b) \ ToSet(a))
            \subseteq ToSet(SymmetricDifference(a, b))
      BY <3>1, <3>2, DifferenceCovers
    <3>4. /\ signals'.before = ToSet(a) /\ signals'.after = ToSet(b)
          /\ signals'.changed = SymmetricDifference(a, b)
      BY <2>3, <2>4 DEF a, b
    <3> QED  BY <3>3, <3>4 DEF NoChangeMissed
  <2> QED  BY <2>1, <2>6, <2>7, <2>8, <2>9, <2>10, <2>11
<1> QED  BY <1>5, <1>6

\* A new window has sent and acknowledged nothing.
LEMMA CreateSurfaceInv ==
  ASSUME Inv, NEW x \in XdgSurfaces, CreateSurface(x)
  PROVE  Inv'
<1>1. /\ x \notin live /\ live' = live \cup {x}
      /\ pendingConfigures' = [pendingConfigures EXCEPT ![x] = <<>>]
      /\ lastAcked' = [lastAcked EXCEPT ![x] = NoConfigure]
      /\ grabber' = [grabber EXCEPT ![x] = "Default"]
      /\ toClient' = [toClient EXCEPT ![x] = <<>>]
      /\ toServer' = [toServer EXCEPT ![x] = <<>>]
      /\ applied' = [applied EXCEPT ![x] = NoConfigure]
      /\ wanted' = [wanted EXCEPT ![x] = None]
      /\ signals' = Silent
      /\ UNCHANGED <<serial, focus>>
  BY DEF CreateSurface
<1>2. /\ <<>> \in Seq(Events) /\ <<>> \in Seq(1..MaxSerial)
      /\ NoConfigure \in Configures /\ NoConfigure.states = <<>>
      /\ NoConfigure.serial = 0
  BY SerialAssumption DEF NoConfigure, Configure, Configures
<1>3. Distinct(<<>>) /\ Exclusive(<<>>) /\ ToSet(<<>>) = {} /\ InOrder(<<>>)
  BY DEF Distinct, Exclusive, ToSet, InOrder
<1>4. TypeOK
  BY DEF Inv
<1>5. /\ pendingConfigures'[x] = <<>> /\ lastAcked'[x] = NoConfigure
      /\ toClient'[x] = <<>> /\ toServer'[x] = <<>> /\ applied'[x] = NoConfigure
      /\ wanted'[x] = None
      /\ \A y \in XdgSurfaces \ {x} :
           /\ pendingConfigures'[y] = pendingConfigures[y]
           /\ lastAcked'[y] = lastAcked[y] /\ toClient'[y] = toClient[y]
           /\ toServer'[y] = toServer[y] /\ applied'[y] = applied[y]
           /\ wanted'[y] = wanted[y]
  BY <1>1, <1>4 DEF TypeOK
<1>6. TypeOK'
  <2>1. \A y \in XdgSurfaces : ListsOK(y)
    BY <1>4 DEF TypeOK, ListsOK
  <2>2. ListsOK(x)'
    BY <1>2, <1>3, <1>5 DEF ListsOK
  <2>3. \A y \in XdgSurfaces \ {x} : ListsOK(y)'
    BY <2>1, <1>5 DEF ListsOK
  <2> QED  BY <2>2, <2>3, <1>1, <1>2, <1>4 DEF TypeOK, ListsOK
<1>7. serial \in Nat /\ live \subseteq XdgSurfaces /\ focus # x
  BY <1>1, <1>4, SerialAssumption, NoneAssumption DEF TypeOK
<1>8. PendingState(x)' /\ ClientState(x)'
  BY <1>1, <1>2, <1>3, <1>5, <1>7 DEF PendingState, ClientState
<1>9. WantsSent(x)'
  BY <1>1, <1>2, <1>3, <1>5, <1>7 DEF WantsSent, Wants, Sent
<1>10. ASSUME NEW y \in live
       PROVE  /\ PendingState(y)' /\ (y \notin WrongAcks => ClientState(y)')
              /\ Sent(y)' = Sent(y) /\ Wants(y)' = Wants(y)
  <2>1. y \in XdgSurfaces \ {x}
    BY <1>1, <1>7
  <2>2. Wants(y)' = Wants(y)
    BY <2>1, <1>1, <1>5 DEF Wants
  <2> QED  BY <2>1, <2>2, <1>1, <1>5, <1>7, WindowRests
<1>11. \A y \in live \cap (Prompt \ WrongAcks) : WantsSent(y)'
  BY <1>10 DEF Inv, WantsSent
<1> QED
  BY <1>1, <1>6, <1>8, <1>9, <1>10, <1>11, SilentMissesNothing DEF Inv

\* A step that leaves the events, what they stand for and the windows that
\* stay alone.
LEMMA OtherStepInv ==
  ASSUME Inv, live' \subseteq live,
         focus' \in live' \cup {None},
         \A x \in live' : focus' = x <=> focus = x,
         UNCHANGED <<serial, serverVars, clientVars, wanted>>,
         grabber' \in [XdgSurfaces -> {"Default", "Move", "Resize"}],
         signals' = Silent \/ signals' = signals
  PROVE  Inv'
<1>1. TypeOK' /\ serial \in Nat
  BY SerialAssumption DEF Inv, TypeOK, serverVars, clientVars
<1>2. ASSUME NEW x \in live'
      PROVE  /\ PendingState(x)' /\ (x \notin WrongAcks => ClientState(x)')
             /\ Sent(x)' = Sent(x) /\ Wants(x)' = Wants(x)
  <2>1. Wants(x)' = Wants(x)
    BY DEF Wants
  <2> QED  BY <2>1, <1>1, WindowRests DEF serverVars, clientVars
<1>3. \A x \in live' \cap (Prompt \ WrongAcks) : WantsSent(x)'
  BY <1>2 DEF Inv, WantsSent
<1>4. NoChangeMissed'
  <2>1. CASE signals' = signals
    BY <2>1 DEF Inv, NoChangeMissed
  <2> QED  BY <2>1, SilentMissesNothing
<1> QED  BY <1>1, <1>2, <1>3, <1>4 DEF Inv

\* The client applies an event and acknowledges it.
LEMMA ApplyInv ==
  ASSUME Inv, NEW x \in XdgSurfaces, NEW n \in 1..Len(toClient[x]), Apply(x, n)
  PROVE  Inv'
<1> DEFINE q == toClient[x]
           t == toServer[x]
           c == q[n]
           r == SubSeq(q, n + 1, Len(q))
<1>1. /\ x \in live
      /\ applied' = [applied EXCEPT ![x] = c]
      /\ toServer' = [toServer EXCEPT ![x] = Append(t, c.serial)]
      /\ toClient' = [toClient EXCEPT ![x] = r]
      /\ signals' = Silent
      /\ UNCHANGED <<live, serial, pendingConfigures, lastAcked, focus, grabber,
                     wanted>>
  BY DEF Apply, serverVars
<1>2. /\ q \in Seq(Events) /\ t \in Seq(1..MaxSerial)
      /\ ToSet(q) \subseteq Events /\ serial \in Nat
      /\ ToSet(pendingConfigures[x]) \subseteq Events
      /\ applied[x] \in Configures
      /\ \A d \in Configures : d.serial \in Nat
  BY WindowTypes, Serials
<1>3. TypeOK
  BY DEF Inv
<1> HIDE DEF q, t
<1>4. n \in DOMAIN q /\ c \in Events /\ c \in Configures
      /\ c.serial \in 1..MaxSerial /\ c \in ToSet(q)
  <2>1. n \in 1..Len(q)
    BY DEF q
  <2>2. n \in DOMAIN q /\ c \in Events
    BY <2>1, <1>2
  <2> QED  BY <2>2, Serials DEF ToSet
<1>5. r \in Seq(Events) /\ Append(t, c.serial) \in Seq(1..MaxSerial)
  <2>1. r \in Seq(Events)
    BY <1>2, <1>4
  <2> QED  BY <2>1, <1>2, <1>4
<1>6. /\ toClient'[x] = r /\ toServer'[x] = Append(t, c.serial)
      /\ applied'[x] = c
      /\ \A y \in XdgSurfaces \ {x} :
           toClient'[y] = toClient[y] /\ toServer'[y] = toServer[y]
           /\ applied'[y] = applied[y]
  BY <1>1, <1>3 DEF TypeOK
<1>7. TypeOK'
  BY <1>1, <1>3, <1>4, <1>5 DEF TypeOK
<1>8. ASSUME NEW y \in live
      PROVE  PendingState(y)' /\ Sent(y)' = Sent(y) /\ Wants(y)' = Wants(y)
  BY <1>1 DEF Inv, PendingState, Sent, Wants
<1>9. ASSUME NEW y \in live \ WrongAcks, y # x PROVE ClientState(y)'
  <2>1. ClientState(y)
    BY <1>9 DEF Inv
  <2>2. y \in XdgSurfaces
    BY <1>3 DEF TypeOK
  <2> QED  BY <2>1, <2>2, <1>1, <1>6, <1>9 DEF ClientState
<1>10. ASSUME x \notin WrongAcks PROVE ClientState(x)'
  <2> DEFINE u == Append(t, c.serial)
  <2>1. /\ InOrder(q) /\ ToSet(q) \subseteq ToSet(pendingConfigures[x])
        /\ \A d \in ToSet(q) : applied[x].serial < d.serial
        /\ \A i, j \in DOMAIN t : i < j => t[i] < t[j]
        /\ \A i \in DOMAIN t :
             \E d \in ToSet(pendingConfigures[x]) : d.serial = t[i]
        /\ t # <<>> => applied[x].serial = t[Len(t)]
    <3>1. ClientState(x)
      BY <1>1, <1>10 DEF Inv
    <3> QED  BY <3>1 DEF ClientState, q, t
  <2>2. /\ InOrder(r)
        /\ ToSet(r) = {d \in ToSet(q) : d.serial > c.serial}
    BY <2>1, <1>2, <1>4, SuffixIsYounger
  <2> HIDE DEF r
  <2>3. c.serial \in Nat /\ applied[x].serial \in Nat
        /\ applied[x].serial < c.serial
    BY <2>1, <1>2, <1>4
  <2>4. /\ Len(t) \in Nat /\ DOMAIN t = 1..Len(t)
        /\ \A i \in DOMAIN t : t[i] \in Nat
        /\ Len(u) = Len(t) + 1 /\ DOMAIN u = 1..(Len(t) + 1)
        /\ u[Len(t) + 1] = c.serial
        /\ \A i \in DOMAIN t : u[i] = t[i]
    BY <1>2, <1>4, SerialAssumption
  <2> HIDE DEF u
  <2>5. \A i \in DOMAIN u : i \in DOMAIN t \/ i = Len(t) + 1
    BY <2>4
  <2>6. \A i \in DOMAIN t : t[i] < c.serial
    <3> SUFFICES ASSUME NEW i \in DOMAIN t PROVE t[i] < c.serial
      OBVIOUS
    <3>1. t # <<>> /\ Len(t) \in DOMAIN t
      BY <2>4
    <3>2. i = Len(t) \/ t[i] < t[Len(t)]
      BY <3>1, <2>1, <2>4
    <3> QED  BY <3>1, <3>2, <2>1, <2>3, <2>4
  <2>7. \A i, j \in DOMAIN u : i < j => u[i] < u[j]
    <3> SUFFICES ASSUME NEW i \in DOMAIN u, NEW j \in DOMAIN u, i < j
                 PROVE  u[i] < u[j]
      OBVIOUS
    <3>1. i \in DOMAIN t
      BY <2>4
    <3>2. CASE j \in DOMAIN t
      BY <3>1, <3>2, <2>1, <2>4
    <3>3. CASE j = Len(t) + 1
      BY <3>1, <3>3, <2>4, <2>6
    <3> QED  BY <3>2, <3>3, <2>5
  <2>8. \A i \in DOMAIN u : \E d \in ToSet(pendingConfigures[x]) : d.serial = u[i]
    BY <2>1, <2>4, <2>5, <1>4
  <2>9. u # <<>> /\ u[Len(u)] = c.serial
    BY <2>4
  <2>10. \A d \in ToSet(r) : c.serial < d.serial
    BY <2>1, <2>2, <2>3, <1>2
  <2>11. c \in ToSet(pendingConfigures[x]) /\ ToSet(r) \subseteq ToSet(pendingConfigures[x])
    BY <2>1, <2>2, <1>4
  <2>12. toServer'[x] = u
    BY <1>6 DEF u
  <2> QED
    BY <2>2, <2>7, <2>8, <2>9, <2>10, <2>11, <2>12, <1>1, <1>6 DEF ClientState
<1>11. \A y \in live \cap (Prompt \ WrongAcks) : WantsSent(y)'
  BY <1>8 DEF Inv, WantsSent
<1> QED
  BY <1>1, <1>7, <1>8, <1>9, <1>10, <1>11, SilentMissesNothing DEF Inv

\* The acknowledgement of a client that tells what it applied.
LEMMA HandleAckInv ==
  ASSUME Inv, NEW x \in XdgSurfaces, HandleAck(x)
  PROVE  Inv'
<1> DEFINE t == toServer[x]
           p == pendingConfigures[x]
<1>1. /\ x \in live /\ t # <<>>
      /\ toServer' = [toServer EXCEPT ![x] = Tail(t)]
      /\ AckConfigure(x, Head(t))
      /\ UNCHANGED <<live, serial, focus, grabber, toClient, applied, wanted>>
  BY DEF HandleAck
<1>2. /\ t \in Seq(1..MaxSerial) /\ serial \in Nat
      /\ ToSet(p) \subseteq Events /\ applied[x] \in Configures
      /\ \A d \in Configures : d.serial \in Nat
      /\ \A d \in Events : d.serial \in Nat
      /\ ToSet(toClient[x]) \subseteq Events
  BY WindowTypes, Serials
<1> HIDE DEF t, p
<1>3. /\ Len(t) \in Nat \ {0} /\ DOMAIN t = 1..Len(t) /\ 1 \in DOMAIN t
      /\ Head(t) = t[1] /\ Tail(t) \in Seq(1..MaxSerial)
      /\ Len(Tail(t)) = Len(t) - 1 /\ DOMAIN Tail(t) = 1..(Len(t) - 1)
      /\ \A i \in 1..(Len(t) - 1) : Tail(t)[i] = t[i + 1]
  <2>1. Len(t) \in Nat \ {0}
    BY <1>1, <1>2, EmptySeq
  <2>2. DOMAIN t = 1..Len(t) /\ 1 \in DOMAIN t /\ Head(t) = t[1]
    BY <1>2, <2>1
  <2>3. Tail(t) \in Seq(1..MaxSerial) /\ Len(Tail(t)) = Len(t) - 1
    BY <1>2, <2>1
  <2>4. DOMAIN Tail(t) = 1..(Len(t) - 1)
    BY <2>1, <2>3
  <2>5. \A i \in 1..(Len(t) - 1) : Tail(t)[i] = t[i + 1]
    BY <1>2, <2>1
  <2> QED  BY <2>1, <2>2, <2>3, <2>4, <2>5
<1> DEFINE n == Head(t)
           u == Tail(t)
<1>4. n \in Nat /\ n \in 1..MaxSerial /\ \A i \in DOMAIN t : t[i] \in Nat
  BY <1>2, <1>3, SerialAssumption
<1> HIDE DEF n, u
<1>5. AckConfigure(x, n)
  BY <1>1 DEF n
<1>6. /\ pendingConfigures' \in [XdgSurfaces -> Seq(Events)]
      /\ lastAcked' \in [XdgSurfaces -> Configures]
      /\ \A y \in XdgSurfaces \ {x} :
           pendingConfigures'[y] = pendingConfigures[y]
           /\ lastAcked'[y] = lastAcked[y]
      /\ ListsOK(x)' /\ PendingState(x)' /\ NoChangeMissed'
      /\ \A c \in ToSet(p) : c.serial = n =>
           /\ lastAcked'[x] = c
           /\ ToSet(pendingConfigures'[x]) = {d \in ToSet(p) : d.serial > n}
           /\ Sent(x)' = Sent(x)
  BY <1>1, <1>4, <1>5, AckKeepsOrder DEF p
<1>7. TypeOK
  BY DEF Inv
<1>8. /\ toServer'[x] = u
      /\ \A y \in XdgSurfaces \ {x} : toServer'[y] = toServer[y]
      /\ toServer' \in [XdgSurfaces -> Seq(1..MaxSerial)]
  BY <1>1, <1>3, <1>7 DEF TypeOK, u
<1>9. TypeOK'
  <2>1. \A y \in XdgSurfaces \ {x} : ListsOK(y)'
    BY <1>6, <1>7 DEF TypeOK, ListsOK
  <2> QED  BY <2>1, <1>1, <1>6, <1>7, <1>8 DEF TypeOK, ListsOK
<1>10. ASSUME NEW y \in live, y # x
       PROVE  /\ PendingState(y)' /\ (y \notin WrongAcks => ClientState(y)')
              /\ Sent(y)' = Sent(y) /\ Wants(y)' = Wants(y)
  <2>1. y \in XdgSurfaces \ {x}
    BY <1>7, <1>10 DEF TypeOK
  <2>2. Wants(y)' = Wants(y)
    BY <1>1 DEF Wants
  <2>3. /\ pendingConfigures'[y] = pendingConfigures[y]
        /\ lastAcked'[y] = lastAcked[y] /\ toServer'[y] = toServer[y]
        /\ toClient'[y] = toClient[y] /\ applied'[y] = applied[y]
        /\ serial <= serial' /\ serial' \in Nat
    BY <2>1, <1>1, <1>2, <1>6, <1>8
  <2> QED  BY <2>2, <2>3, WindowRests
<1>11. ASSUME x \notin WrongAcks
       PROVE  ClientState(x)' /\ Sent(x)' = Sent(x) /\ Wants(x)' = Wants(x)
  <2>1. /\ InOrder(toClient[x]) /\ ToSet(toClient[x]) \subseteq ToSet(p)
        /\ \A d \in ToSet(toClient[x]) : applied[x].serial < d.serial
        /\ \A i, j \in DOMAIN t : i < j => t[i] < t[j]
        /\ \A i \in DOMAIN t : \E d \in ToSet(p) : d.serial = t[i]
        /\ applied[x] \in ToSet(p) /\ applied[x].serial = t[Len(t)]
    <3>1. ClientState(x)
      BY <1>1, <1>11 DEF Inv
    <3>2. toServer[x] # <<>>
      BY <1>1 DEF t
    <3> QED  BY <3>1, <3>2 DEF ClientState, t, p
  <2>2. PICK c \in ToSet(p) : c.serial = n
    BY <2>1, <1>3 DEF n
  <2>3. /\ lastAcked'[x] = c
        /\ ToSet(pendingConfigures'[x]) = {d \in ToSet(p) : d.serial > n}
        /\ Sent(x)' = Sent(x)
    BY <2>2, <1>6
  <2>4. \A i \in DOMAIN u : i + 1 \in DOMAIN t /\ u[i] = t[i + 1] /\ u[i] > n
    <3> SUFFICES ASSUME NEW i \in DOMAIN u
                 PROVE  i + 1 \in DOMAIN t /\ u[i] = t[i + 1] /\ u[i] > n
      OBVIOUS
    <3>1. i + 1 \in DOMAIN t /\ 1 < i + 1 /\ u[i] = t[i + 1]
      BY <1>3 DEF u
    <3>2. t[1] < t[i + 1]
      BY <3>1, <2>1, <1>3
    <3> QED  BY <3>1, <3>2, <1>3, <1>4 DEF n
  <2>5. \A i, j \in DOMAIN u : i < j => u[i] < u[j]
    <3> SUFFICES ASSUME NEW i \in DOMAIN u, NEW j \in DOMAIN u, i < j
                 PROVE  u[i] < u[j]
      OBVIOUS
    <3>1. i + 1 < j + 1
      BY <1>3 DEF u
    <3> QED  BY <3>1, <2>1, <2>4
  <2>6. \A i \in DOMAIN u :
          \E d \in ToSet(pendingConfigures'[x]) : d.serial = u[i]
    BY <2>1, <2>3, <2>4
  <2>7. applied[x].serial >= n
    <3>1. Len(t) \in DOMAIN t /\ (Len(t) = 1 \/ t[1] < t[Len(t)])
      BY <2>1, <1>3
    <3> QED  BY <3>1, <2>1, <1>3, <1>4 DEF n
  <2>8. ToSet(toClient[x]) \subseteq ToSet(pendingConfigures'[x])
    BY <2>1, <2>3, <2>7, <1>2, <1>4
  <2>9. IF u = <<>> THEN applied[x] = c
        ELSE /\ applied[x] \in ToSet(pendingConfigures'[x])
             /\ applied[x].serial = u[Len(u)]
    <3>1. CASE u = <<>>
      <4>1. Len(t) = 1
        BY <3>1, <1>3 DEF u
      <4>2. applied[x].serial = c.serial
        BY <4>1, <2>1, <2>2, <1>3 DEF n
      <4>3. PendingState(x) /\ p \in Seq(Events)
        BY <1>1, WindowTypes DEF Inv, p
      <4>4. PICK i \in DOMAIN p : p[i] = applied[x]
        BY <2>1 DEF ToSet
      <4>5. PICK j \in DOMAIN p : p[j] = c
        BY DEF ToSet
      <4>6. i = j
        BY <4>2, <4>3, <4>4, <4>5, SerialsAreUnique DEF PendingState, p
      <4> QED  BY <4>4, <4>5, <4>6, <3>1
    <3>2. CASE u # <<>>
      <4>1. Len(u) \in Nat \ {0}
        BY <3>2, <1>3, EmptySeq DEF u
      <4>2. Len(u) \in DOMAIN u /\ Len(u) + 1 = Len(t)
        BY <4>1, <1>3 DEF u
      <4>3. u[Len(u)] = t[Len(t)] /\ u[Len(u)] > n
        BY <4>2, <2>4
      <4> QED  BY <4>3, <3>2, <2>1, <2>3
    <3> QED  BY <3>1, <3>2
  <2>10. ClientState(x)'
    <3>1. toClient' = toClient /\ applied' = applied
      BY <1>1
    <3>2. /\ InOrder(toClient'[x])
          /\ ToSet(toClient'[x]) \subseteq ToSet(pendingConfigures'[x])
          /\ \A d \in ToSet(toClient'[x]) : applied'[x].serial < d.serial
      BY <3>1, <2>1, <2>8
    <3>3. IF toServer'[x] = <<>> THEN applied'[x] = lastAcked'[x]
          ELSE /\ applied'[x] \in ToSet(pendingConfigures'[x])
               /\ applied'[x].serial = toServer'[x][Len(toServer'[x])]
      BY <3>1, <2>3, <2>9, <1>8
    <3> QED  BY <3>2, <3>3, <2>5, <2>6, <1>8 DEF ClientState
  <2>11. Wants(x)' = Wants(x)
    BY <1>1 DEF Wants
  <2> QED  BY <2>3, <2>10, <2>11
<1>12. \A y \in live \cap (Prompt \ WrongAcks) : WantsSent(y)'
  BY <1>10, <1>11 DEF Inv, WantsSent
<1> QED  BY <1>1, <1>6, <1>9, <1>10, <1>11, <1>12 DEF Inv

\* Any acknowledgement of a client that need not tell the truth.
LEMMA HandleWrongAckInv ==
  ASSUME Inv, NEW x \in XdgSurfaces, NEW n \in 0..MaxSerial, HandleWrongAck(x, n)
  PROVE  Inv'
<1>1. /\ x \in WrongAcks /\ x \in live /\ AckConfigure(x, n)
      /\ UNCHANGED <<live, serial, focus, grabber, clientVars, wanted>>
  BY DEF HandleWrongAck
<1>2. n \in Nat /\ serial \in Nat /\ TypeOK
  BY SerialAssumption, WindowTypes DEF Inv
<1>3. /\ pendingConfigures' \in [XdgSurfaces -> Seq(Events)]
      /\ lastAcked' \in [XdgSurfaces -> Configures]
      /\ \A y \in XdgSurfaces \ {x} :
           pendingConfigures'[y] = pendingConfigures[y]
           /\ lastAcked'[y] = lastAcked[y]
      /\ ListsOK(x)' /\ PendingState(x)' /\ NoChangeMissed'
  BY <1>1, <1>2, AckKeepsOrder
<1>4. TypeOK'
  <2>1. \A y \in XdgSurfaces \ {x} : ListsOK(y)'
    BY <1>2, <1>3 DEF TypeOK, ListsOK
  <2> QED  BY <2>1, <1>1, <1>2, <1>3 DEF TypeOK, ListsOK, clientVars
<1>5. ASSUME NEW y \in live, y # x
      PROVE  /\ PendingState(y)' /\ (y \notin WrongAcks => ClientState(y)')
             /\ Sent(y)' = Sent(y) /\ Wants(y)' = Wants(y)
  <2>1. y \in XdgSurfaces \ {x}
    BY <1>2, <1>5 DEF TypeOK
  <2>2. Wants(y)' = Wants(y)
    BY <1>1 DEF Wants
  <2> QED  BY <2>1, <2>2, <1>1, <1>2, <1>3, WindowRests DEF clientVars
<1>6. \A y \in live \cap (Prompt \ WrongAcks) : WantsSent(y)'
  BY <1>1, <1>5 DEF Inv, WantsSent
<1> QED  BY <1>1, <1>3, <1>4, <1>5, <1>6 DEF Inv

\* Every step keeps the invariant.
LEMMA NextInv ==
  ASSUME Inv, [Next]_vars
  PROVE  Inv'
<1>1. live \subseteq XdgSurfaces /\ focus \in live \cup {None}
      /\ grabber \in [XdgSurfaces -> {"Default", "Move", "Resize"}]
  BY DEF Inv, TypeOK
<1>2. ASSUME NEW x \in XdgSurfaces, CreateSurface(x) PROVE Inv'
  BY <1>2, CreateSurfaceInv
<1>3. ASSUME NEW x \in XdgSurfaces, DestroySurface(x) PROVE Inv'
  <2>1. /\ live' \subseteq live /\ focus' \in live' \cup {None}
        /\ \A y \in live' : focus' = y <=> focus = y
    BY <1>1, <1>3, NoneAssumption DEF DestroySurface
  <2> QED  BY <2>1, <1>1, <1>3, OtherStepInv DEF DestroySurface
<1>4. ASSUME NEW x \in XdgSurfaces, NEW n \in 1..Len(toClient[x]), Apply(x, n)
      PROVE  Inv'
  BY <1>4, ApplyInv
<1>5. ASSUME NEW x \in XdgSurfaces, HandleAck(x) PROVE Inv'
  BY <1>5, HandleAckInv
<1>6. ASSUME NEW x \in XdgSurfaces, NEW n \in 0..MaxSerial, HandleWrongAck(x, n)
      PROVE  Inv'
  BY <1>6, HandleWrongAckInv
<1>7. ASSUME NEW x \in XdgSurfaces, NEW g \in {"Move", "Resize"}, StartGrab(x, g)
      PROVE  Inv'
  <2>1. /\ live' = live /\ focus' = focus
        /\ grabber' \in [XdgSurfaces -> {"Default", "Move", "Resize"}]
    BY <1>1, <1>7 DEF StartGrab
  <2> QED  BY <2>1, <1>1, <1>7, OtherStepInv DEF StartGrab
<1>8. ASSUME NEW x \in XdgSurfaces, NEW m \in {None, "Maximized", "Fullscreen"},
             Request(x, m), serial' <= MaxSerial
      PROVE  Inv'
  <2>1. m \in Modes \cup {None}
    BY DEF Modes
  <2> QED  BY <2>1, <1>1, <1>8, SetModeInv DEF Request
<1>9. ASSUME NEW x \in XdgSurfaces, Drag(x), serial' <= MaxSerial PROVE Inv'
  <2>1. "Resizing" \in Modes \cup {None}
    BY DEF Modes
  <2> QED  BY <2>1, <1>1, <1>9, SetModeInv DEF Drag
<1>10. ASSUME NEW x \in XdgSurfaces, Release(x), serial' <= MaxSerial PROVE Inv'
  <2>1. grabber' \in [XdgSurfaces -> {"Default", "Move", "Resize"}]
    BY <1>1, <1>10 DEF Release
  <2>2. CASE grabber[x] = "Resize"
    <3>1. SetMode(x, None) /\ None \in Modes \cup {None}
          /\ UNCHANGED <<live, lastAcked, focus, toServer, applied>>
      BY <2>2, <1>10 DEF Release
    <3> QED  BY <3>1, <2>1, <1>10, SetModeInv
  <2>3. CASE grabber[x] # "Resize"
    <3>1. /\ signals' = Silent
          /\ UNCHANGED <<serial, pendingConfigures, toClient, wanted, live,
                         lastAcked, focus, toServer, applied>>
      BY <2>3, <1>10 DEF Release
    <3> QED  BY <3>1, <2>1, <1>1, OtherStepInv DEF serverVars, clientVars
  <2> QED  BY <2>2, <2>3
<1>11. ASSUME NEW new \in XdgSurfaces \cup {None}, SetFocus(new),
              serial' <= MaxSerial
       PROVE  Inv'
  BY <1>11, SetFocusInv
<1>12. CASE UNCHANGED vars
  BY <1>12, <1>1, OtherStepInv DEF vars
<1>13. CASE ClientNext
  BY <1>13, <1>2, <1>3, <1>4, <1>5, <1>6, <1>7 DEF ClientNext
<1>14. CASE SendNext /\ serial' <= MaxSerial
  BY <1>14, <1>8, <1>9, <1>10, <1>11 DEF SendNext
<1> QED  BY <1>12, <1>13, <1>14 DEF Next

-----------------------------------------------------------------------------

\* The invariant holds in every reachable state.
THEOREM Invariance == Spec => []Inv
<1>1. Inv /\ [Next]_vars => Inv'
  BY NextInv
<1> QED  BY <1>1, InitInv, PTL DEF Spec

\* Every variable keeps its type, and no configure event lists a state twice
\* or two of maximized, fullscreen and resizing.
THEOREM TypeCorrect == Spec => []TypeOK
<1>1. Inv => TypeOK
  BY DEF Inv
<1> QED  BY <1>1, Invariance, PTL

\* An interactive resize that was told to the client is told to be over, if no
\* other grab starts during one.
LEMMA ResizeEndsStep ==
  ASSUME OneGrab, TypeOK, ResizeEnds, [Next]_vars
  PROVE  ResizeEnds'
<1>1. /\ live \subseteq XdgSurfaces /\ None \notin Modes
      /\ grabber \in [XdgSurfaces -> {"Default", "Move", "Resize"}]
      /\ wanted \in [XdgSurfaces -> Modes \cup {None}]
  BY NoneAssumption DEF TypeOK
<1>2. "Resizing" \in Modes
  BY DEF Modes
<1>3. ASSUME NEW x \in XdgSurfaces, CreateSurface(x) PROVE ResizeEnds'
  BY <1>1, <1>2, <1>3 DEF CreateSurface, ResizeEnds
<1>4. ASSUME NEW x \in XdgSurfaces, NEW m,
             SetMode(x, m), UNCHANGED live,
             \A y \in XdgSurfaces \ {x} : grabber'[y] = grabber[y],
             m = "Resizing" => grabber'[x] = "Resize"
      PROVE  ResizeEnds'
  <2>1. /\ wanted'[x] = m
        /\ \A y \in XdgSurfaces \ {x} : wanted'[y] = wanted[y]
    BY <1>1, <1>4 DEF SetMode
  <2> QED  BY <2>1, <1>1, <1>4 DEF ResizeEnds
<1>5. ASSUME NEW x \in XdgSurfaces, NEW m \in {None, "Maximized", "Fullscreen"},
             Request(x, m)
      PROVE  ResizeEnds'
  <2>1. m # "Resizing"
    BY <1>1, <1>2
  <2>2. SetMode(x, m) /\ UNCHANGED live /\ grabber' = grabber
    BY <1>5 DEF Request
  <2> QED  BY <2>1, <2>2, <1>4
<1>6. ASSUME NEW x \in XdgSurfaces, Drag(x) PROVE ResizeEnds'
  BY <1>4, <1>6 DEF Drag
<1>7. ASSUME NEW x \in XdgSurfaces, Release(x) PROVE ResizeEnds'
  <2>1. /\ live' = live /\ grabber[x] # "Default"
        /\ \A y \in XdgSurfaces \ {x} : grabber'[y] = grabber[y]
    BY <1>1, <1>7 DEF Release
  <2>2. CASE grabber[x] = "Resize"
    <3>1. SetMode(x, None)
      BY <2>2, <1>7 DEF Release
    <3>2. None # "Resizing"
      BY <1>1, <1>2
    <3> QED  BY <3>1, <3>2, <2>1, <1>4
  <2>3. CASE grabber[x] # "Resize"
    <3>1. wanted' = wanted
      BY <2>3, <1>7 DEF Release
    <3> QED  BY <3>1, <2>1, <2>3, <1>1 DEF ResizeEnds
  <2> QED  BY <2>2, <2>3
<1>8. ASSUME NEW x \in XdgSurfaces, NEW g \in {"Move", "Resize"}, StartGrab(x, g)
      PROVE  ResizeEnds'
  <2>1. /\ live' = live /\ wanted' = wanted /\ grabber[x] = "Default"
        /\ \A y \in XdgSurfaces \ {x} : grabber'[y] = grabber[y]
    BY <1>1, <1>8 DEF StartGrab
  <2> QED  BY <2>1, <1>1 DEF ResizeEnds
<1>9. ASSUME live' \subseteq live, UNCHANGED <<wanted, grabber>>
      PROVE  ResizeEnds'
  BY <1>9 DEF ResizeEnds
<1>10. ASSUME NEW x \in XdgSurfaces, DestroySurface(x) PROVE ResizeEnds'
  BY <1>9, <1>10 DEF DestroySurface
<1>11. ASSUME NEW x \in XdgSurfaces, NEW n, Apply(x, n) PROVE ResizeEnds'
  BY <1>9, <1>11 DEF Apply
<1>12. ASSUME NEW x \in XdgSurfaces, HandleAck(x) PROVE ResizeEnds'
  BY <1>9, <1>12 DEF HandleAck
<1>13. ASSUME NEW x \in XdgSurfaces, NEW n, HandleWrongAck(x, n)
       PROVE  ResizeEnds'
  BY <1>9, <1>13 DEF HandleWrongAck
<1>14. ASSUME NEW new, SetFocus(new) PROVE ResizeEnds'
  BY <1>9, <1>14 DEF SetFocus
<1>15. CASE UNCHANGED vars
  BY <1>9, <1>15 DEF vars
<1>16. CASE ClientNext
  BY <1>16, <1>3, <1>8, <1>10, <1>11, <1>12, <1>13 DEF ClientNext
<1>17. CASE SendNext
  BY <1>17, <1>5, <1>6, <1>7, <1>14 DEF SendNext
<1> QED  BY <1>15, <1>16, <1>17 DEF Next

\* If a client keeps up, the configure event sent to it last carries the state
\* last asked for and Activated exactly while its window has the focus,
\* whatever the clients do that do not keep up or acknowledge what they like;
\* and with one grab at a time an interactive resize is told to be over.
THEOREM WantedIsAlwaysSent ==
  ASSUME OneGrab
  PROVE  Spec => []WantedIsSent
<1>1. Init => ResizeEnds
  BY DEF Init, ResizeEnds
<1>2. TypeOK /\ ResizeEnds /\ [Next]_vars => ResizeEnds'
  BY ResizeEndsStep
<1>3. Spec => []ResizeEnds
  BY <1>1, <1>2, TypeCorrect, PTL DEF Spec
<1>4. Inv => PromptSentIsWanted
  <2>1. \A x \in live \cap (Prompt \ WrongAcks) : WantsSent(x) => SentIsWanted(x)
    BY DEF WantsSent, SentIsWanted, Sent, Wants
  <2> QED  BY <2>1 DEF Inv, PromptSentIsWanted
<1>5. Inv /\ ResizeEnds => WantedIsSent
  BY <1>4 DEF WantedIsSent
<1> QED  BY <1>3, <1>5, Invariance, PTL

\* However late clients acknowledge, and whatever some of them make up: an
\* acknowledgement never takes the state of a window back, the compositor ends
\* up with the state its client applied, and every state that changed is
\* announced although the lists that are compared are not sorted.
THEOREM AcksAreUnderstood == Spec => []AcksUnderstood
<1>1. Inv => PendingOrdered
  <2> SUFFICES ASSUME Inv, NEW x \in live,
                      NEW i \in DOMAIN pendingConfigures[x]
               PROVE  LET p == pendingConfigures[x] IN
                      /\ lastAcked[x].serial < p[i].serial
                      /\ p[i].serial <= serial
                      /\ \A j \in 1..(i - 1) : p[j].serial < p[i].serial
    BY DEF PendingOrdered
  <2> DEFINE p == pendingConfigures[x]
  <2>1. PendingState(x)
    BY DEF Inv
  <2>2. p \in Seq(Events)
    BY WindowTypes DEF Inv, TypeOK
  <2>3. p[i] \in ToSet(p)
    BY DEF ToSet
  <2>4. \A j \in 1..(i - 1) : j \in DOMAIN p /\ j < i
    <3> HIDE DEF p
    <3>1. i \in 1..Len(p) /\ Len(p) \in Nat /\ DOMAIN p = 1..Len(p)
      BY <2>2 DEF p
    <3> QED  BY <3>1
  <2> QED  BY <2>1, <2>3, <2>4 DEF PendingState, InOrder
<1>2. Inv => AgreesWithClient
  BY DEF Inv, ClientState, AgreesWithClient
<1>3. Inv => AcksUnderstood
  BY <1>1, <1>2 DEF Inv, AcksUnderstood
<1> QED  BY <1>3, Invariance, PTL

=============================================================================
