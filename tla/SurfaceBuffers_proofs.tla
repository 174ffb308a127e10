------------------------ MODULE SurfaceBuffers_proofs ------------------------
(***************************************************************************)
(* Proofs about SurfaceBuffers for any number of surfaces, views and       *)
(* buffers.  Inv is the inductive invariant: the accounting of the         *)
(* SurfaceBuffers does not depend on the client, the ownership of the      *)
(* wl_buffers holds for a client that waits for the release of a buffer    *)
(* before it commits it again.                                             *)
(***************************************************************************)
EXTENDS SurfaceBuffers, TLAPS

\* What the requests maintain about pending.buffer and the surface's buffer.
SurfaceState ==
  /\ \A s \in Surfaces : pending[s] # None =>
       s \in live /\ Of(pending[s]) = s
  /\ \A s \in Surfaces : bufferRef[s] # None => s \in live

\* Only registered SurfaceBuffers have content, a wl_buffer that exists.
ContentState ==
  \A x \in Slots : content[x] # None =>
    x \in registered /\ content[x] \in resources

\* At most one committed SurfaceBuffer per wl_buffer, none for an owned one,
\* and one for every wl_buffer the client does not own.
Ownership ==
  /\ \A x \in committed : content[x] \notin owned
  /\ \A x, y \in committed :
       content[x] = content[y] /\ content[x] # None => x = y
  /\ \A b \in resources \ owned : \E x \in committed : content[x] = b

Inv == /\ TypeOK
       /\ SurfaceState
       /\ ContentState
       /\ SlotsAccounted
       /\ OrphansAreShown
       /\ NextIsSurfaceBuffer
       /\ ~ClientReuses => Ownership

-----------------------------------------------------------------------------

\* The part of Inv about slots and ownership survives DisownUnused when the
\* step only drops references, except to the SurfaceBuffer it hands over.
LEMMA DisownKeepsSlots ==
  ASSUME Inv, NEW handed,
         DisownUnused(handed),
         resources' = resources,
         live' \subseteq live,
         handed \subseteq Pending,
         handed \subseteq Held',
         \A x, y \in handed : x = y,
         Held' \subseteq Held \cup handed,
         Pending' = {x \in Pending : x \notin handed /\ Of(x) \in live'},
         ~ClientReuses => \A x \in handed : content[x] \in owned \cup {None}
  PROVE  /\ pool' \subseteq Slots
         /\ registered' \subseteq pool'
         /\ committed' \subseteq registered'
         /\ content' \in [Slots -> Buffers \cup {None}]
         /\ owned' \subseteq resources'
         /\ ContentState'
         /\ SlotsAccounted'
         /\ OrphansAreShown'
         /\ ~ClientReuses => Ownership'
<1> DEFINE U == Unused
<1>1. /\ registered = Held \cup Pending
      /\ Held \cap Pending = {}
      /\ committed = Held
  BY DEF Inv, SlotsAccounted
<1>2. /\ registered \subseteq pool /\ pool \subseteq Slots
      /\ content \in [Slots -> Buffers \cup {None}]
      /\ resources \subseteq Buffers /\ owned \subseteq resources
      /\ None \notin Buffers
  BY NoneAssumption DEF Inv, TypeOK
<1>3. U = {x \in pool : x \notin Held' /\ (x \in Held \/ Of(x) \notin live')}
  BY DEF Unused, DestroyIfUnused, Of
<1>4. /\ registered' = registered \ U
      /\ content' = [x \in Slots |-> IF x \in U THEN None ELSE content[x]]
      /\ committed' = (committed \ U) \cup handed
      /\ pool' = pool \ {x \in U : Of(x) \notin live'}
      /\ owned' = (owned \ {content[x] : x \in handed}) \cup ReleasedBy(U)
  BY DEF DisownUnused, DestroyIfUnused, Of
<1> HIDE DEF U
<1>5. committed' = Held'
  BY <1>1, <1>2, <1>3, <1>4
<1>6. registered' = Held' \cup Pending' /\ Held' \cap Pending' = {}
  BY <1>1, <1>2, <1>3, <1>4
<1>7. SlotsAccounted'
  BY <1>5, <1>6 DEF SlotsAccounted
<1>8. pool' \subseteq Slots /\ registered' \subseteq pool'
  BY <1>2, <1>4
<1>9. committed' \subseteq registered'
  BY <1>5, <1>6
<1>10. content' \in [Slots -> Buffers \cup {None}]
  BY <1>2, <1>4
<1>11. owned' \subseteq resources'
  <2>1. ReleasedBy(U) \subseteq resources
    BY <1>1, <1>2 DEF Inv, ContentState, ReleasedBy
  <2> QED  BY <2>1, <1>2, <1>4
<1>12. ContentState'
  BY <1>2, <1>4 DEF Inv, ContentState
<1>13. OrphansAreShown'
  BY <1>3, <1>4 DEF OrphansAreShown
<1>14. ASSUME ~ClientReuses PROVE Ownership'
  <2>1. /\ \A x \in committed : content[x] \notin owned
        /\ \A x, y \in committed :
             content[x] = content[y] /\ content[x] # None => x = y
        /\ \A b \in resources \ owned : \E x \in committed : content[x] = b
    BY <1>14 DEF Inv, Ownership
  <2>2. \A x \in Held' : x \in Slots /\ x \notin U /\ content'[x] = content[x]
    BY <1>1, <1>2, <1>3, <1>4
  <2>3. \A x \in handed : content[x] \in owned \cup {None}
    BY <1>14
  <2>4. \A x \in Held' : x \in committed \/ x \in handed
    BY <1>4, <1>5
  <2>5. ASSUME NEW x \in committed' PROVE content'[x] \notin owned'
    <3>1. content'[x] = content[x] /\ x \notin U
      BY <2>2, <1>5
    <3>2. content[x] \notin ReleasedBy(U)
      <4>1. SUFFICES ASSUME NEW y \in U \cap committed,
                            content[y] = content[x], content[x] # None
                     PROVE  FALSE
        BY DEF ReleasedBy
      <4>2. CASE x \in committed  BY <4>1, <4>2, <3>1, <2>1
      <4>3. CASE x \in handed     BY <4>1, <4>3, <2>1, <2>3
      <4> QED  BY <4>2, <4>3, <2>4, <1>5
    <3>3. content[x] \notin owned \ {content[y] : y \in handed}
      BY <2>1, <2>4, <1>5
    <3> QED  BY <3>1, <3>2, <3>3, <1>4
  <2>6. ASSUME NEW x \in committed', NEW y \in committed',
               content'[x] = content'[y], content'[x] # None
        PROVE  x = y
    <3>1. content[x] = content[y] /\ content[x] # None
      BY <2>6, <2>2, <1>5
    <3>2. CASE x \in committed /\ y \in committed  BY <3>1, <3>2, <2>1
    <3>3. CASE x \in handed /\ y \in handed        BY <3>3
    <3>4. CASE x \in committed /\ y \in handed     BY <3>1, <3>4, <2>1, <2>3
    <3>5. CASE x \in handed /\ y \in committed     BY <3>1, <3>5, <2>1, <2>3
    <3> QED  BY <3>2, <3>3, <3>4, <3>5, <2>4, <1>5
  <2>7. ASSUME NEW b \in resources' \ owned'
        PROVE  \E x \in committed' : content'[x] = b
    <3>1. CASE \E x \in handed : content[x] = b
      BY <3>1, <2>2, <1>5
    <3>2. CASE ~ \E x \in handed : content[x] = b
      <4>1. b \in resources \ owned
        BY <3>2, <2>7, <1>4
      <4>2. PICK x \in committed : content[x] = b
        BY <4>1, <2>1
      <4>3. x \in Held'
        <5>1. SUFFICES ASSUME x \notin Held' PROVE FALSE
          OBVIOUS
        <5>2. x \in U \cap committed
          BY <5>1, <4>2, <1>1, <1>2, <1>3
        <5>3. b # None
          BY <2>7, <1>2
        <5>4. b \in ReleasedBy(U)
          BY <5>2, <5>3, <4>2 DEF ReleasedBy
        <5> QED  BY <5>4, <2>7, <1>4
      <4> QED  BY <4>2, <4>3, <2>2, <1>5
    <3> QED  BY <3>1, <3>2
  <2> QED  BY <2>5, <2>6, <2>7 DEF Ownership
<1> QED  BY <1>7, <1>8, <1>9, <1>10, <1>11, <1>12, <1>13, <1>14

-----------------------------------------------------------------------------

\* Every state the program starts in satisfies the invariant.
LEMMA InitInv == Init => Inv
<1> SUFFICES ASSUME Init PROVE Inv
  OBVIOUS
<1>1. Held = {} /\ Pending = {}
  BY DEF Init, Held, Pending
<1> QED
  BY <1>1, NoneAssumption
  DEF Init, Inv, TypeOK, SurfaceState, ContentState, SlotsAccounted,
      OrphansAreShown, NextIsSurfaceBuffer, Ownership

\* The references a SurfaceBuffer has, spelled out.
LEMMA HeldBy ==
  ASSUME NEW x
  PROVE  x \in Held <=>
           /\ x # None
           /\ \/ \E s \in Surfaces : bufferRef[s] = x
              \/ \E v \in Views : x \in {next[v], current[v], provider[v]}
BY DEF Held

LEMMA HeldByNext ==
  ASSUME NEW x
  PROVE  x \in Held' <=>
           /\ x # None
           /\ \/ \E s \in Surfaces : bufferRef'[s] = x
              \/ \E v \in Views : x \in {next'[v], current'[v], provider'[v]}
BY DEF Held

LEMMA CreateSurfaceInv ==
  ASSUME Inv, NEW s \in Surfaces, CreateSurface(s)
  PROVE  Inv'
<1>1. Held' = Held /\ Pending' = Pending
  BY DEF CreateSurface, viewVars, Held, Pending
<1> QED
  BY <1>1
  DEF Inv, CreateSurface, viewVars, slotVars, clientVars, TypeOK, SurfaceState,
      ContentState, SlotsAccounted, OrphansAreShown, NextIsSurfaceBuffer,
      Ownership

LEMMA CreateBufferInv ==
  ASSUME Inv, NEW b \in Buffers, CreateBuffer(b)
  PROVE  Inv'
<1>1. Held' = Held /\ Pending' = Pending
  BY DEF CreateBuffer, surfaceVars, viewVars, Held, Pending
<1>2. \A x \in committed : content[x] # b
  <2>1. \A x \in committed : x \in Slots
    BY DEF Inv, TypeOK
  <2> QED
    BY <2>1, NoneAssumption DEF Inv, ContentState, CreateBuffer
<1>3. TypeOK' /\ SurfaceState' /\ ContentState' /\ SlotsAccounted'
      /\ OrphansAreShown' /\ NextIsSurfaceBuffer'
  BY <1>1
  DEF Inv, CreateBuffer, viewVars, slotVars, surfaceVars, TypeOK, SurfaceState,
      ContentState, SlotsAccounted, OrphansAreShown, NextIsSurfaceBuffer
<1>4. (~ClientReuses => Ownership)'
  BY <1>2 DEF Inv, CreateBuffer, slotVars, Ownership
<1> QED  BY <1>3, <1>4 DEF Inv

LEMMA DestroyBufferInv ==
  ASSUME Inv, NEW b \in Buffers, DestroyBuffer(b)
  PROVE  Inv'
<1>1. Held' = Held /\ Pending' = Pending
  BY DEF DestroyBuffer, surfaceVars, viewVars, Held, Pending
<1>2. b # None
  BY NoneAssumption
<1>3. TypeOK' /\ SurfaceState' /\ ContentState' /\ SlotsAccounted'
      /\ OrphansAreShown' /\ NextIsSurfaceBuffer'
  BY <1>1, <1>2
  DEF Inv, DestroyBuffer, viewVars, surfaceVars, TypeOK, SurfaceState,
      ContentState, SlotsAccounted, OrphansAreShown, NextIsSurfaceBuffer
<1>4. ASSUME ~ClientReuses PROVE Ownership'
  <2>1. \A x \in committed : x \in Slots
    BY DEF Inv, TypeOK
  <2>2. \A x \in committed :
          content'[x] = IF content[x] = b THEN None ELSE content[x]
    BY <2>1 DEF DestroyBuffer
  <2>3. None \notin owned
    BY NoneAssumption DEF Inv, TypeOK
  <2>4. Ownership
    BY <1>4 DEF Inv
  <2>5. committed' = committed /\ owned' = owned \ {b}
        /\ resources' = resources \ {b}
    BY DEF DestroyBuffer
  <2>6. \A x \in committed' : content'[x] \notin owned'
    BY <2>2, <2>3, <2>4, <2>5 DEF Ownership
  <2>7. \A x, y \in committed' :
          content'[x] = content'[y] /\ content'[x] # None => x = y
    BY <2>2, <2>4, <2>5 DEF Ownership
  <2>8. \A c \in resources' \ owned' : \E x \in committed' : content'[x] = c
    BY <2>2, <2>4, <2>5 DEF Ownership
  <2> QED  BY <2>6, <2>7, <2>8 DEF Ownership
<1> QED  BY <1>3, <1>4 DEF Inv

LEMMA AttachBufferInv ==
  ASSUME Inv, NEW s \in Surfaces, NEW b \in resources \cup {None},
         AttachBuffer(s, b)
  PROVE  Inv'
<1>1. PICK x \in FreeSlots(s) :
        /\ pool' = pool \cup {x}
        /\ registered' = (registered \ {pending[s]}) \cup {x}
        /\ content' = [y \in Slots |-> IF y = x THEN b
                                       ELSE IF y = pending[s] THEN None
                                       ELSE content[y]]
        /\ pending' = [pending EXCEPT ![s] = x]
  BY DEF AttachBuffer
<1>2. /\ s \in live /\ live' = live /\ bufferRef' = bufferRef
      /\ mapped' = mapped /\ resources' = resources
      /\ UNCHANGED viewVars
      /\ committed' = committed \ {pending[s]}
      /\ owned' = owned \cup ReleasedBy({pending[s]})
  BY DEF AttachBuffer
<1>3. x \in Slots /\ x # None /\ Of(x) = s
      /\ (x \notin registered \/ x = pending[s])
  BY <1>1, NoneAssumption DEF FreeSlots
<1>4. Held' = Held
  BY <1>2 DEF Held, viewVars
<1>5. /\ registered = Held \cup Pending /\ committed = Held
      /\ Held \cap Pending = {}
  BY DEF Inv, SlotsAccounted
<1>6. \A r \in Surfaces \ {s} : pending[r] # None => pending[r] # pending[s]
                                                     /\ pending[r] # x
  BY <1>3 DEF Inv, SurfaceState
<1>7. Pending' = (Pending \ {pending[s]}) \cup {x}
  BY <1>1, <1>3, <1>6 DEF Pending, Inv, TypeOK
<1>8. pending[s] \notin committed /\ x \notin committed
  <2>1. pending[s] \notin Held
    BY <1>5 DEF Pending, Held
  <2> QED  BY <2>1, <1>3, <1>5
<1>9. committed' = committed /\ owned' = owned
  BY <1>2, <1>8 DEF ReleasedBy
<1>10. TypeOK'
  BY <1>1, <1>2, <1>3, <1>8, <1>9 DEF Inv, TypeOK, viewVars
<1>11. SurfaceState'
  BY <1>1, <1>2, <1>3 DEF Inv, SurfaceState, TypeOK
<1>12. ContentState'
  BY <1>1, <1>2 DEF Inv, ContentState
<1>13. SlotsAccounted'
  BY <1>1, <1>3, <1>4, <1>5, <1>7, <1>8, <1>9 DEF SlotsAccounted
<1>14. OrphansAreShown'
  BY <1>1, <1>2, <1>3, <1>4 DEF Inv, OrphansAreShown
<1>15. NextIsSurfaceBuffer'
  BY <1>2 DEF Inv, NextIsSurfaceBuffer, viewVars
<1>16. (~ClientReuses => Ownership)'
  <2>1. \A y \in committed : content'[y] = content[y]
    BY <1>1, <1>8 DEF Inv, TypeOK
  <2> QED  BY <2>1, <1>2, <1>9 DEF Inv, Ownership
<1> QED
  BY <1>10, <1>11, <1>12, <1>13, <1>14, <1>15, <1>16 DEF Inv

LEMMA CommitBufferInv ==
  ASSUME Inv, NEW s \in Surfaces, CommitBuffer(s)
  PROVE  Inv'
<1> DEFINE x == pending[s]
<1>1. /\ s \in live /\ x # None
      /\ ClientReuses \/ content[x] \in owned \cup {None}
      /\ pending' = [pending EXCEPT ![s] = None]
      /\ bufferRef' = [bufferRef EXCEPT ![s] = x]
      /\ next' = [v \in Views |-> IF v \in ViewsOf(s) THEN x ELSE next[v]]
      /\ mapped' = IF content[x] # None THEN mapped \cup {s} ELSE mapped \ {s}
      /\ UNCHANGED <<live, viewSurface, ahead, current, provider, locked,
                     discard, hidden, force, stale, resources>>
      /\ DisownUnused({x})
  BY DEF CommitBuffer
<1>2. x \in Pending /\ x \in Slots /\ Of(x) = s
  BY <1>1 DEF Pending, Inv, TypeOK, SurfaceState
<1>3. Held' \subseteq Held \cup {x}
  BY <1>1, HeldBy, HeldByNext DEF Inv, TypeOK
<1>4. x \in Held'
  BY <1>1, HeldByNext DEF Inv, TypeOK
<1>5. \A r \in Surfaces \ {s} : pending[r] # None => pending[r] # x
  BY <1>2 DEF Inv, SurfaceState
<1>6. Pending' = {y \in Pending : y \notin {x} /\ Of(y) \in live'}
  BY <1>1, <1>2, <1>5 DEF Pending, Inv, TypeOK, SurfaceState
<1>7. /\ pool' \subseteq Slots /\ registered' \subseteq pool'
      /\ committed' \subseteq registered'
      /\ content' \in [Slots -> Buffers \cup {None}]
      /\ owned' \subseteq resources'
      /\ ContentState' /\ SlotsAccounted' /\ OrphansAreShown'
      /\ ~ClientReuses => Ownership'
  <2> HIDE DEF x
  <2> QED  BY <1>1, <1>2, <1>3, <1>4, <1>6, DisownKeepsSlots
<1>8. TypeOK'
  BY <1>1, <1>2, <1>7 DEF Inv, TypeOK
<1>9. SurfaceState'
  BY <1>1, <1>2 DEF Inv, SurfaceState, TypeOK
<1>10. NextIsSurfaceBuffer'
  BY <1>1, NoneAssumption DEF Inv, NextIsSurfaceBuffer, TypeOK, ViewsOf
<1> QED  BY <1>7, <1>8, <1>9, <1>10 DEF Inv

LEMMA DestroySurfaceInv ==
  ASSUME Inv, NEW s \in Surfaces, DestroySurface(s)
  PROVE  Inv'
<1>1. /\ s \in live /\ live' = live \ {s}
      /\ pending' = [pending EXCEPT ![s] = None]
      /\ bufferRef' = [bufferRef EXCEPT ![s] = None]
      /\ mapped' = mapped \ {s}
      /\ viewSurface' = [v \in Views |-> IF v \in ViewsOf(s) THEN None
                                         ELSE viewSurface[v]]
      /\ ahead' = {p \in ahead : p[1] \notin ViewsOf(s)}
      /\ next' = [v \in Views |-> IF v \in ViewsOf(s) THEN None ELSE next[v]]
      /\ current' = [v \in Views |-> IF v \in ViewsOf(s) \ locked THEN None
                                     ELSE current[v]]
      /\ UNCHANGED <<provider, locked, discard, hidden, force, stale, resources>>
      /\ DisownUnused({})
  BY DEF DestroySurface
<1>2. Held' \subseteq Held
  BY <1>1, HeldBy, HeldByNext DEF Inv, TypeOK
<1>3. Pending' = {y \in Pending : y \notin {} /\ Of(y) \in live'}
  BY <1>1 DEF Pending, Inv, TypeOK, SurfaceState
<1>4. /\ pool' \subseteq Slots /\ registered' \subseteq pool'
      /\ committed' \subseteq registered'
      /\ content' \in [Slots -> Buffers \cup {None}]
      /\ owned' \subseteq resources'
      /\ ContentState' /\ SlotsAccounted' /\ OrphansAreShown'
      /\ ~ClientReuses => Ownership'
  BY <1>1, <1>2, <1>3, DisownKeepsSlots
<1>5. TypeOK'
  BY <1>1, <1>4 DEF Inv, TypeOK, ViewsOf
<1>6. SurfaceState'
  BY <1>1 DEF Inv, SurfaceState, TypeOK
<1>7. NextIsSurfaceBuffer'
  BY <1>1, NoneAssumption DEF Inv, NextIsSurfaceBuffer, TypeOK, ViewsOf
<1> QED  BY <1>4, <1>5, <1>6, <1>7 DEF Inv

-----------------------------------------------------------------------------

\* Steps of the compositor that only move the references of views.
LEMMA ViewStepInv ==
  ASSUME Inv,
         UNCHANGED surfaceVars, resources' = resources,
         DisownUnused({}),
         Held' \subseteq Held,
         viewSurface' \in [Views -> live \cup {None}],
         ahead' \subseteq Views \X Views,
         next' \in [Views -> Slots \cup {None}],
         current' \in [Views -> Slots \cup {None}],
         provider' \in [Views -> Slots \cup {None}],
         locked' \subseteq Views, discard' \subseteq Views, hidden' \subseteq Views,
         force' \subseteq Views, stale' \subseteq Views,
         NextIsSurfaceBuffer'
  PROVE  Inv'
<1>1. live' = live /\ pending' = pending /\ bufferRef' = bufferRef
      /\ mapped' = mapped
  BY DEF surfaceVars
<1>2. Pending' = {y \in Pending : y \notin {} /\ Of(y) \in live'}
  BY <1>1 DEF Pending, Inv, SurfaceState
<1>3. /\ pool' \subseteq Slots /\ registered' \subseteq pool'
      /\ committed' \subseteq registered'
      /\ content' \in [Slots -> Buffers \cup {None}]
      /\ owned' \subseteq resources'
      /\ ContentState' /\ SlotsAccounted' /\ OrphansAreShown'
      /\ ~ClientReuses => Ownership'
  BY <1>1, <1>2, DisownKeepsSlots
<1>4. TypeOK'
  BY <1>1, <1>3 DEF Inv, TypeOK
<1>5. SurfaceState'
  BY <1>1 DEF Inv, SurfaceState
<1> QED  BY <1>3, <1>4, <1>5 DEF Inv

LEMMA ShowInv ==
  ASSUME Inv, NEW v \in Views, NEW s \in live \cup {None},
         viewSurface[v] # s, Show(v, s), ahead' \subseteq Views \X Views
  PROVE  Inv'
<1>1. /\ viewSurface' = [viewSurface EXCEPT ![v] = s]
      /\ current' = [current EXCEPT ![v] = IF v \in locked THEN @ ELSE None]
      /\ next' = [next EXCEPT ![v] = IF s = None THEN None ELSE bufferRef[s]]
      /\ UNCHANGED <<live, pending, bufferRef, mapped, provider, locked,
                     discard, hidden, force, stale, resources>>
      /\ DisownUnused({})
  BY DEF Show
<1>2. s \in Surfaces \cup {None}
  BY DEF Inv, TypeOK
<1>3. Held' \subseteq Held
  <2>1. ASSUME NEW x \in Held' PROVE x \in Held
    <3>1. x # None
      BY HeldByNext
    <3>2. CASE \E r \in Surfaces : bufferRef'[r] = x
      BY <3>1, <3>2, <1>1, HeldBy
    <3>3. CASE \E w \in Views : x \in {next'[w], current'[w], provider'[w]}
      BY <3>1, <3>3, <1>1, <1>2, HeldBy DEF Inv, TypeOK
    <3> QED  BY <3>2, <3>3, HeldByNext
  <2> QED  BY <2>1
<1>4. NextIsSurfaceBuffer'
  BY <1>1, <1>2, NoneAssumption DEF Inv, TypeOK, NextIsSurfaceBuffer
<1> QED
  BY <1>1, <1>2, <1>3, <1>4, ViewStepInv DEF Inv, TypeOK, surfaceVars

LEMMA SetSurfaceInv ==
  ASSUME Inv, NEW v \in Views, NEW s \in live \cup {None}, SetSurface(v, s)
  PROVE  Inv'
<1>1. ahead' \subseteq Views \X Views
  BY DEF SetSurface, Without, ViewsOf, Inv, TypeOK
<1> QED  BY <1>1, ShowInv DEF SetSurface

LEMMA SetThrottlingViewInv ==
  ASSUME Inv, NEW v \in Views, NEW s \in live, SetThrottlingView(s, v)
  PROVE  Inv'
<1>1. ahead' \subseteq Views \X Views
  BY DEF SetThrottlingView, Without, ViewsOf, Inv, TypeOK
<1>2. CASE viewSurface[v] # s /\ Show(v, s)
  BY <1>1, <1>2, ShowInv
<1>3. CASE UNCHANGED <<surfaceVars, slotVars, viewSurface, next, current,
                       provider, locked, discard, hidden, force, stale, clientVars>>
  <2>1. Held' = Held /\ Pending' = Pending
    BY <1>3 DEF surfaceVars, Held, Pending
  <2> QED
    BY <1>1, <1>3, <2>1
    DEF Inv, slotVars, surfaceVars, clientVars, TypeOK, SurfaceState,
        ContentState, SlotsAccounted, OrphansAreShown, NextIsSurfaceBuffer,
        Ownership
<1> QED  BY <1>2, <1>3 DEF SetThrottlingView

LEMMA DestroyViewInv ==
  ASSUME Inv, NEW v \in Views, DestroyView(v)
  PROVE  Inv'
<1>1. /\ viewSurface' = [viewSurface EXCEPT ![v] = None]
      /\ ahead' = Without(v)
      /\ next' = [next EXCEPT ![v] = None]
      /\ current' = [current EXCEPT ![v] = None]
      /\ provider' = [provider EXCEPT ![v] = None]
      /\ locked' = locked \ {v} /\ discard' = discard \ {v}
      /\ hidden' = hidden \ {v}
      /\ force' = force \ {v} /\ stale' = stale \cup {v}
      /\ UNCHANGED <<surfaceVars, resources>>
      /\ DisownUnused({})
  BY DEF DestroyView
<1>2. Held' \subseteq Held
  BY <1>1, HeldBy, HeldByNext DEF Inv, TypeOK, surfaceVars
<1>3. NextIsSurfaceBuffer'
  BY <1>1 DEF Inv, TypeOK, NextIsSurfaceBuffer, surfaceVars
<1>4. ahead' \subseteq Views \X Views
  BY <1>1 DEF Without, Inv, TypeOK
<1> QED
  BY <1>1, <1>2, <1>3, <1>4, ViewStepInv DEF Inv, TypeOK, surfaceVars

LEMMA AdvanceInv ==
  ASSUME Inv, NEW v \in Views, Advance(v)
  PROVE  Inv'
<1>1. /\ current' = [w \in Views |-> IF w = v THEN next[v]
                                     ELSE IF w \in Discarded(v) THEN None
                                     ELSE current[w]]
      /\ force' = (force \cup Discarded(v)) \ {v}
      /\ stale' = stale \cup {v}
      /\ UNCHANGED <<surfaceVars, viewSurface, ahead, next, provider, locked,
                     discard, hidden, resources>>
      /\ DisownUnused({})
  BY DEF Advance
<1>2. Discarded(v) \subseteq Views
  BY DEF Discarded, ViewsOf
<1>3. Held' \subseteq Held
  BY <1>1, HeldBy, HeldByNext DEF surfaceVars
<1>4. NextIsSurfaceBuffer'
  BY <1>1 DEF Inv, NextIsSurfaceBuffer, surfaceVars
<1> QED
  BY <1>1, <1>2, <1>3, <1>4, ViewStepInv DEF Inv, TypeOK, surfaceVars

LEMMA PaintTextureInv ==
  ASSUME Inv, NEW v \in Views, PaintTexture(v)
  PROVE  Inv'
<1>1. /\ stale' = stale \ {v}
      /\ provider' = [provider EXCEPT ![v] = current[v]]
      /\ UNCHANGED <<surfaceVars, viewSurface, ahead, next, current, locked,
                     discard, hidden, force, resources>>
      /\ DisownUnused({})
  BY DEF PaintTexture
<1>2. Held' \subseteq Held
  BY <1>1, HeldBy, HeldByNext DEF surfaceVars, Inv, TypeOK
<1>3. NextIsSurfaceBuffer'
  BY <1>1 DEF Inv, NextIsSurfaceBuffer, surfaceVars
<1> QED
  BY <1>1, <1>2, <1>3, ViewStepInv DEF Inv, TypeOK, surfaceVars

\* Steps that move no reference at all.
LEMMA FlagStepInv ==
  ASSUME Inv,
         UNCHANGED <<surfaceVars, slotVars, viewSurface, ahead, next, current,
                     provider, force, clientVars>>,
         locked' \subseteq Views, discard' \subseteq Views, hidden' \subseteq Views,
         stale' \subseteq Views
  PROVE  Inv'
<1>1. Held' = Held /\ Pending' = Pending
  BY DEF surfaceVars, Held, Pending
<1> QED
  BY <1>1
  DEF Inv, slotVars, surfaceVars, clientVars, TypeOK, SurfaceState,
      ContentState, SlotsAccounted, OrphansAreShown, NextIsSurfaceBuffer,
      Ownership

LEMMA NextInv ==
  ASSUME Inv, [Next]_vars
  PROVE  Inv'
<1>1. CASE Request
  <2>1. ASSUME NEW b \in Buffers, CreateBuffer(b) PROVE Inv'
    BY <2>1, CreateBufferInv
  <2>2. ASSUME NEW b \in Buffers, DestroyBuffer(b) PROVE Inv'
    BY <2>2, DestroyBufferInv
  <2>3. ASSUME NEW s \in Surfaces, CreateSurface(s) PROVE Inv'
    BY <2>3, CreateSurfaceInv
  <2>4. ASSUME NEW s \in Surfaces, CommitBuffer(s) PROVE Inv'
    BY <2>4, CommitBufferInv
  <2>5. ASSUME NEW s \in Surfaces, DestroySurface(s) PROVE Inv'
    BY <2>5, DestroySurfaceInv
  <2>6. ASSUME NEW s \in Surfaces, NEW b \in resources \cup {None},
               AttachBuffer(s, b)
        PROVE  Inv'
    BY <2>6, AttachBufferInv
  <2> QED  BY <1>1, <2>1, <2>2, <2>3, <2>4, <2>5, <2>6 DEF Request
<1>2. ASSUME NEW v \in Views, Operate(v) PROVE Inv'
  <2>1. ASSUME NEW s \in live \cup {None}, SetSurface(v, s) PROVE Inv'
    BY <2>1, SetSurfaceInv
  <2>2. ASSUME NEW s \in live, SetThrottlingView(s, v) PROVE Inv'
    BY <2>2, SetThrottlingViewInv
  <2>3. CASE DestroyView(v)
    BY <2>3, DestroyViewInv
  <2>4. CASE SetBufferLocked(v)
    BY <2>4, FlagStepInv DEF SetBufferLocked, Inv, TypeOK
  <2>5. CASE SetDiscardFrontBuffers(v)
    BY <2>5, FlagStepInv DEF SetDiscardFrontBuffers, Inv, TypeOK
  <2>6. CASE SetPaintEnabled(v)
    BY <2>6, FlagStepInv, ViewAssumption DEF SetPaintEnabled, Inv, TypeOK
  <2> QED  BY <1>2, <2>1, <2>2, <2>3, <2>4, <2>5, <2>6 DEF Operate
<1>3. ASSUME NEW v \in Views, Render(v) PROVE Inv'
  <2>1. CASE Advance(v)
    BY <2>1, AdvanceInv
  <2>2. CASE PaintNothing(v)
    BY <2>2, FlagStepInv DEF PaintNothing, Inv, TypeOK
  <2>3. CASE PaintTexture(v)
    BY <2>3, PaintTextureInv
  <2>4. CASE PaintGeometry(v)
    BY <2>4, FlagStepInv DEF PaintGeometry, Inv, TypeOK
  <2> QED  BY <1>3, <2>1, <2>2, <2>3, <2>4 DEF Render
<1>4. CASE UNCHANGED vars
  BY <1>4, FlagStepInv DEF vars, viewVars, Inv, TypeOK
<1> QED  BY <1>1, <1>2, <1>3, <1>4 DEF Next

-----------------------------------------------------------------------------

\* The invariant holds in every reachable state.
THEOREM Invariance == Spec => []Inv
<1>1. Init => Inv
  BY InitInv
<1>2. Inv /\ [Next]_vars => Inv'
  BY NextInv
<1> QED  BY <1>1, <1>2, PTL DEF Spec

\* Every variable keeps its type.
THEOREM TypeCorrect == Spec => []TypeOK
<1>1. Inv => TypeOK
  BY DEF Inv
<1> QED  BY <1>1, Invariance, PTL

\* Whatever the client does, a SurfaceBuffer is registered exactly while it is
\* pending or referenced and committed exactly while it is referenced:
\* createSurfaceBuffer() never reuses an entry of the pool that is shown.
THEOREM SlotsAreAccounted == Spec => []SlotsAccounted
<1>1. Inv => SlotsAccounted
  BY DEF Inv
<1> QED  BY <1>1, Invariance, PTL

\* A client that commits a wl_buffer only after its release never owns one
\* that a QWaylandBufferRef still refers to (the promise of that class).
THEOREM ReferencedBuffersAreNotOwned ==
  ASSUME ~ClientReuses
  PROVE  Spec => []ReferencedNotOwned
<1>1. Inv => ReferencedNotOwned
  BY DEF Inv, SlotsAccounted, Ownership, ReferencedNotOwned
<1> QED  BY <1>1, Invariance, PTL

\* For such a client no release is ever lost: a wl_buffer it does not own is
\* referenced by somebody who will give it back.
THEOREM ReleasesAreNotLost ==
  ASSUME ~ClientReuses
  PROVE  Spec => []NoReleaseLost
<1>1. Inv => NoReleaseLost
  BY DEF Inv, SlotsAccounted, Ownership, NoReleaseLost
<1> QED  BY <1>1, Invariance, PTL

-----------------------------------------------------------------------------

\* What a step may do to the content of a SurfaceBuffer that stays referenced.
Kept == \A x \in Held : x \in Held' =>
          content'[x] = content[x] \/ content[x] \notin resources'

LEMMA HeldAreSlots ==
  ASSUME Inv
  PROVE  Held \subseteq Slots
BY DEF Inv, TypeOK, SlotsAccounted

\* DisownUnused() clears SurfaceBuffers without references only.
LEMMA DisownKeeps ==
  ASSUME Inv, NEW handed, DisownUnused(handed)
  PROVE  Kept
<1>1. ASSUME NEW x \in Held, x \in Held' PROVE content'[x] = content[x]
  <2>1. x \notin Unused
    BY <1>1 DEF Unused
  <2>2. x \in Slots
    BY HeldAreSlots
  <2> QED  BY <2>1, <2>2 DEF DisownUnused
<1> QED  BY <1>1 DEF Kept

\* The pending SurfaceBuffer and the one createSurfaceBuffer() finds are not
\* referenced, so attach leaves the content of the referenced ones alone.
LEMMA AttachKeeps ==
  ASSUME Inv, NEW s \in Surfaces, NEW b \in resources \cup {None},
         AttachBuffer(s, b)
  PROVE  Kept
<1>1. PICK x \in FreeSlots(s) :
        content' = [y \in Slots |-> IF y = x THEN b
                                    ELSE IF y = pending[s] THEN None
                                    ELSE content[y]]
  BY DEF AttachBuffer
<1>2. pending[s] \notin Held
  BY DEF Inv, SlotsAccounted, Pending, Held
<1>3. x \notin Held
  BY <1>2 DEF FreeSlots, Inv, SlotsAccounted
<1> QED  BY <1>1, <1>2, <1>3, HeldAreSlots DEF Kept

\* Every step keeps the content of the SurfaceBuffers that stay referenced,
\* but for the wl_buffer a client destroys.
LEMMA NextKeeps ==
  ASSUME Inv, [Next]_vars
  PROVE  Kept
<1>1. CASE UNCHANGED slotVars
  BY <1>1 DEF slotVars, Kept
<1>2. CASE Request
  <2>1. ASSUME NEW b \in Buffers, CreateBuffer(b) PROVE Kept
    BY <2>1, <1>1 DEF CreateBuffer
  <2>2. ASSUME NEW b \in Buffers, DestroyBuffer(b) PROVE Kept
    BY <2>2, HeldAreSlots DEF DestroyBuffer, Kept
  <2>3. ASSUME NEW s \in Surfaces, CreateSurface(s) PROVE Kept
    BY <2>3, <1>1 DEF CreateSurface
  <2>4. ASSUME NEW s \in Surfaces, CommitBuffer(s) PROVE Kept
    BY <2>4, DisownKeeps DEF CommitBuffer
  <2>5. ASSUME NEW s \in Surfaces, DestroySurface(s) PROVE Kept
    BY <2>5, DisownKeeps DEF DestroySurface
  <2>6. ASSUME NEW s \in Surfaces, NEW b \in resources \cup {None},
               AttachBuffer(s, b)
        PROVE  Kept
    BY <2>6, AttachKeeps
  <2> QED  BY <1>2, <2>1, <2>2, <2>3, <2>4, <2>5, <2>6 DEF Request
<1>3. ASSUME NEW v \in Views, Operate(v) PROVE Kept
  <2>1. ASSUME NEW s \in live \cup {None}, SetSurface(v, s) PROVE Kept
    BY <2>1, DisownKeeps DEF SetSurface, Show
  <2>2. ASSUME NEW s \in live, SetThrottlingView(s, v) PROVE Kept
    BY <2>2, <1>1, DisownKeeps DEF SetThrottlingView, Show
  <2>3. CASE DestroyView(v)
    BY <2>3, DisownKeeps DEF DestroyView
  <2>4. CASE SetBufferLocked(v) \/ SetDiscardFrontBuffers(v) \/ SetPaintEnabled(v)
    BY <2>4, <1>1 DEF SetBufferLocked, SetDiscardFrontBuffers, SetPaintEnabled
  <2> QED  BY <1>3, <2>1, <2>2, <2>3, <2>4 DEF Operate
<1>4. ASSUME NEW v \in Views, Render(v) PROVE Kept
  <2>1. CASE Advance(v)
    BY <2>1, DisownKeeps DEF Advance
  <2>2. CASE PaintTexture(v)
    BY <2>2, DisownKeeps DEF PaintTexture
  <2>3. CASE PaintNothing(v) \/ PaintGeometry(v)
    BY <2>3, <1>1 DEF PaintNothing, PaintGeometry
  <2> QED  BY <1>4, <2>1, <2>2, <2>3 DEF Render
<1>5. CASE UNCHANGED vars
  BY <1>5, <1>1 DEF vars
<1> QED  BY <1>2, <1>3, <1>4, <1>5 DEF Next

\* Whatever surfaces, views and clients do, a SurfaceBuffer that is referenced
\* before and after a step has the same wl_buffer, unless the client destroyed
\* it: nothing is drawn from a SurfaceBuffer another commit has taken over.
THEOREM ContentIsStable == Spec => ContentStable
<1>1. Inv /\ [Next]_vars => [Kept]_vars
  BY NextKeeps
<1>2. [][Kept]_vars => ContentStable
  BY PTL DEF ContentStable, Kept
<1> QED  BY <1>1, <1>2, Invariance, PTL DEF Spec

=============================================================================
