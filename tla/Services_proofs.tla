-------------------------- MODULE Services_proofs --------------------------
(***************************************************************************)
(* Proofs about what is restarted.  XWaylandSetup: for any number of       *)
(* compositors and displays, whatever files are found, whether compositors *)
(* crash and however many search at a time.  LogindSession: however often  *)
(* the service goes away and comes back, the user switches the virtual     *)
(* terminal, and the application calls.  CompositorProcess: for any number *)
(* of retries, however its two processes end.                              *)
(***************************************************************************)
EXTENDS XWaylandSetup, LogindSession, CompositorProcess, TLAPS

\* Where a compositor is when it has got by the abstract socket.
Past == {"Unix", "Listening", "Failed", "Gone"}

\* Who has bound the abstract socket keeps it until it ends, which is what
\* makes it safe to remove whatever is in the place of the other socket: only
\* one without an abstract socket comes to the same display, and stays there.
SocketsHeld ==
  /\ \A p \in Compositors \ bare :
       pc[p] \in {"Unix", "Listening"} => abstract[display[p]] = p
  /\ \A p \in Compositors \ bare :
       pc[p] = "Listening" =>
         unix[display[p]] = p \/ \E q \in bare : display[q] = display[p]
  /\ \A q \in bare : pc[q] \in Past

Inv == TypeOK /\ SocketsHeld

\* What the constants are: a compositor is neither nobody nor an X server.
Parameters ==
  /\ MaxDisplay \in Nat
  /\ Compositors \cap (Others \cup {None, Empty}) = {}

-----------------------------------------------------------------------------

LEMMA InitInv ==
  ASSUME Parameters, Init
  PROVE  Inv
<1>1. TypeOK
  BY DEF Parameters, Init, TypeOK, Displays, Others, Working
<1>2. SocketsHeld
  BY DEF Init, SocketsHeld
<1> QED  BY <1>1, <1>2 DEF Inv

\* Every step of setup() but the two that bind leaves the sockets alone, and
\* who takes it is not one that holds them.
LEMMA FileStepInv ==
  ASSUME Parameters, Inv, NEW p \in Compositors,
         pc[p] \notin Past,
         NEW step \in (Working \ {"Unix"}) \cup {"Failed"},
         pc' = [pc EXCEPT ![p] = step],
         display' = [display EXCEPT ![p] = display'[p]],
         display'[p] \in Displays,
         holds' \in [Compositors -> BOOLEAN],
         writable' \in [Displays -> BOOLEAN],
         lockFile' \in [Displays -> Compositors \cup Others \cup {None, Empty}],
         UNCHANGED <<abstract, unix, bare>>
  PROVE  Inv'
<1>1. TypeOK'
  BY DEF Inv, TypeOK, Working
<1>2. \A q \in Compositors :
        /\ q # p => display'[q] = display[q] /\ pc'[q] = pc[q]
        /\ q \in bare => q # p
  BY DEF Inv, TypeOK, SocketsHeld
<1>3. pc'[p] \notin {"Unix", "Listening"}
  BY DEF Inv, TypeOK, Working
<1>4. bare \subseteq Compositors
  BY DEF Inv, TypeOK
<1>5. SocketsHeld'
  BY <1>2, <1>3, <1>4 DEF Inv, SocketsHeld
<1> QED  BY <1>1, <1>5 DEF Inv

\* bindToAbstractSocket() succeeds only for a socket that nobody has.
LEMMA BindToAbstractSocketInv ==
  ASSUME Parameters, Inv, NEW p \in Compositors, BindToAbstractSocket(p)
  PROVE  Inv'
<1> DEFINE d == display[p]
<1>0. d \in Displays /\ pc[p] = "Abstract" /\ p \notin bare /\ bare \subseteq Compositors
  BY DEF Inv, TypeOK, SocketsHeld, Past, BindToAbstractSocket
<1>1. ASSUME pc' = [pc EXCEPT ![p] = "Unix"], UNCHANGED <<display, unix>>,
             bare \subseteq bare', \A q \in bare' : q \in bare \/ q = p
      PROVE  /\ \A q \in Compositors \ bare' :
                  pc'[q] = "Listening" => unix'[display'[q]] = q
                                          \/ \E o \in bare' : display'[o] = display'[q]
             /\ \A q \in bare' : pc'[q] \in Past
  BY <1>0, <1>1 DEF Inv, TypeOK, SocketsHeld, Past
<1>2. CASE /\ abstract[d] = None
           /\ abstract' = [abstract EXCEPT ![d] = p]
           /\ Goto(p, "Unix")
           /\ UNCHANGED <<display, lockFile, holds, bare>>
  <2>1. /\ pc' = [pc EXCEPT ![p] = "Unix"]
        /\ UNCHANGED <<writable, unix>>
    BY <1>2 DEF BindToAbstractSocket, Goto
  <2>2. TypeOK'
    BY <1>0, <1>2, <2>1 DEF Inv, TypeOK, Working
  <2>3. ASSUME NEW q \in Compositors \ bare', pc'[q] \in {"Unix", "Listening"}
        PROVE  abstract'[display'[q]] = q
    <3>1. CASE q = p
      BY <1>0, <1>2, <2>1, <3>1 DEF Inv, TypeOK
    <3>2. CASE q # p
      <4>1. abstract[display[q]] = q
        BY <1>2, <2>1, <2>3, <3>2 DEF Inv, TypeOK, SocketsHeld
      <4>2. display[q] # d
        BY <1>2, <4>1 DEF Parameters
      <4> QED  BY <1>0, <1>2, <4>1, <4>2 DEF Inv, TypeOK
    <3> QED  BY <3>1, <3>2
  <2> QED  BY <1>1, <1>2, <2>1, <2>2, <2>3 DEF Inv, SocketsHeld
<1>3. CASE /\ abstract[d] # None
           /\ TryNext(p) /\ Unlink(d)
           /\ UNCHANGED <<abstract, bare>>
  <2>1. /\ pc' = [pc EXCEPT ![p] = "Open"]
        /\ UNCHANGED <<writable, unix>>
    BY <1>3 DEF BindToAbstractSocket, TryNext, Goto
  <2>2. /\ display' = [display EXCEPT ![p] = display'[p]]
        /\ display'[p] \in Displays
    BY <1>0, <1>3 DEF TryNext, Inv, TypeOK, Displays, Parameters
  <2>3. /\ holds' \in [Compositors -> BOOLEAN]
        /\ writable' \in [Displays -> BOOLEAN]
        /\ lockFile' \in [Displays -> Compositors \cup Others \cup {None, Empty}]
    BY <1>3, <2>1 DEF Unlink, Inv, TypeOK
  <2> QED  BY <1>0, <1>3, <2>1, <2>2, <2>3, FileStepInv DEF Working, Past
<1>4. CASE /\ bare' = bare \cup {p}
           /\ Goto(p, "Unix")
           /\ UNCHANGED <<display, lockFile, holds, abstract>>
  <2>1. /\ pc' = [pc EXCEPT ![p] = "Unix"]
        /\ UNCHANGED <<writable, unix>>
    BY <1>4 DEF BindToAbstractSocket, Goto
  <2>2. TypeOK'
    BY <1>4, <2>1 DEF Inv, TypeOK, Working
  <2>3. ASSUME NEW q \in Compositors \ bare', pc'[q] \in {"Unix", "Listening"}
        PROVE  abstract'[display'[q]] = q
    BY <1>4, <2>1, <2>3 DEF Inv, TypeOK, SocketsHeld
  <2>4. bare \subseteq bare' /\ \A q \in bare' : q \in bare \/ q = p
    BY <1>4
  <2> QED  BY <1>1, <1>4, <2>1, <2>2, <2>3, <2>4 DEF Inv, SocketsHeld
<1> QED  BY <1>2, <1>3, <1>4 DEF BindToAbstractSocket

\* A compositor that ends or fails gives up its own abstract socket and nobody
\* else's.  One that fails may have removed the other socket of its display.
LEMMA ReleaseInv ==
  ASSUME Parameters, Inv, NEW p \in Compositors, NEW step \in {"Gone", "Failed"},
         pc' = [pc EXCEPT ![p] = step], Release(p),
         holds' \in [Compositors -> BOOLEAN],
         lockFile' \in [Displays -> Compositors \cup Others \cup {None, Empty}],
         \/ unix' = unix
         \/ pc[p] = "Unix" /\ unix' = [unix EXCEPT ![display[p]] = None],
         UNCHANGED <<display, writable, bare>>
  PROVE  Inv'
<1>1. abstract' = [d \in Displays |-> IF abstract[d] = p THEN None ELSE abstract[d]]
  BY DEF Release
<1>2. TypeOK'
  <2>1. unix' \in [Displays -> Compositors \cup Others \cup {None}]
    BY DEF Inv, TypeOK
  <2>2. pc' \in [Compositors -> Working \cup {"Off", "Listening", "Failed", "Gone"}]
    BY DEF Inv, TypeOK
  <2>3. abstract' \in [Displays -> Compositors \cup Others \cup {None}]
    BY <1>1 DEF Inv, TypeOK
  <2> QED  BY <2>1, <2>2, <2>3 DEF Inv, TypeOK
<1>3. \A q \in Compositors \ bare :
        pc'[q] \in {"Unix", "Listening"} => q # p /\ abstract'[display[q]] = q
  BY <1>1 DEF Inv, TypeOK, SocketsHeld
<1>4. ASSUME NEW q \in Compositors \ bare, pc'[q] = "Listening"
      PROVE  unix'[display[q]] = q \/ \E o \in bare : display[o] = display[q]
  <2>1. /\ q # p /\ pc[q] = "Listening"
        /\ unix[display[q]] = q \/ \E o \in bare : display[o] = display[q]
    BY <1>3, <1>4 DEF Inv, TypeOK, SocketsHeld
  <2>2. CASE unix' = unix
    BY <2>1, <2>2
  <2>3. CASE pc[p] = "Unix" /\ unix' = [unix EXCEPT ![display[p]] = None]
    <3>1. CASE display[p] = display[q]
      <4>1. abstract[display[q]] = q /\ (p \notin bare => abstract[display[p]] = p)
        BY <2>1, <2>3 DEF Inv, SocketsHeld
      <4>2. p \in bare
        BY <2>1, <3>1, <4>1
      <4> QED  BY <3>1, <4>2
    <3>2. CASE display[p] # display[q]
      BY <2>1, <2>3, <3>2 DEF Inv, TypeOK
    <3> QED  BY <3>1, <3>2
  <2> QED  BY <2>2, <2>3
<1>5. \A q \in bare : pc'[q] \in Past
  BY DEF Inv, TypeOK, SocketsHeld, Past
<1> QED  BY <1>2, <1>3, <1>4, <1>5 DEF Inv, SocketsHeld

\* bindToUnixSocket() takes the place of another's socket only on a display
\* whose abstract socket is ours: nobody else listens there.
LEMMA BindToUnixSocketInv ==
  ASSUME Parameters, Inv, NEW p \in Compositors, BindToUnixSocket(p)
  PROVE  Inv'
<1>0. pc[p] = "Unix" /\ UNCHANGED <<display, writable, bare>> /\ display[p] \in Displays
  BY DEF BindToUnixSocket, Inv, TypeOK
<1>1. CASE /\ unix' = [unix EXCEPT ![display[p]] = p]
           /\ Goto(p, "Listening")
           /\ UNCHANGED <<holds, lockFile, abstract>>
  <2>1. pc' = [pc EXCEPT ![p] = "Listening"]
    BY <1>1 DEF Goto
  <2>2. TypeOK'
    BY <1>0, <1>1, <2>1 DEF Inv, TypeOK
  <2>3. \A q \in Compositors \ bare :
          pc'[q] \in {"Unix", "Listening"} => abstract'[display'[q]] = q
    BY <1>0, <1>1, <2>1 DEF Inv, TypeOK, SocketsHeld
  <2>4. ASSUME NEW q \in Compositors \ bare, pc'[q] = "Listening"
        PROVE  unix'[display'[q]] = q \/ \E o \in bare : display[o] = display[q]
    <3>1. CASE q = p
      BY <1>0, <1>1, <3>1 DEF Inv, TypeOK
    <3>2. CASE q # p /\ display[q] = display[p]
      <4>1. abstract[display[q]] = q /\ (p \notin bare => abstract[display[p]] = p)
        BY <1>0, <2>1, <2>4, <3>2 DEF Inv, TypeOK, SocketsHeld
      <4>2. p \in bare
        BY <3>2, <4>1
      <4> QED  BY <3>2, <4>2
    <3>3. CASE q # p /\ display[q] # display[p]
      BY <1>0, <1>1, <2>1, <2>4, <3>3 DEF Inv, TypeOK, SocketsHeld
    <3> QED  BY <3>1, <3>2, <3>3
  <2>5. \A q \in bare : pc'[q] \in Past
    BY <2>1 DEF Inv, TypeOK, SocketsHeld, Past
  <2> QED  BY <1>0, <2>2, <2>3, <2>4, <2>5 DEF Inv, SocketsHeld
<1>2. CASE /\ unix' \in {unix, [unix EXCEPT ![display[p]] = None]}
           /\ Goto(p, "Failed")
           /\ Unlink(display[p]) /\ Release(p)
  <2>1. /\ pc' = [pc EXCEPT ![p] = "Failed"]
        /\ holds' \in [Compositors -> BOOLEAN]
        /\ lockFile' \in [Displays -> Compositors \cup Others \cup {None, Empty}]
    BY <1>2 DEF Goto, Unlink, Inv, TypeOK
  <2> QED  BY <1>0, <1>2, <2>1, ReleaseInv
<1> QED  BY <1>1, <1>2 DEF BindToUnixSocket

\* A search goes on with a display that exists.
LEMMA DisplayTried ==
  ASSUME Parameters, Inv, NEW p \in Compositors, TryNext(p) \/ UNCHANGED display
  PROVE  display' = [display EXCEPT ![p] = display'[p]] /\ display'[p] \in Displays
<1>1. display \in [Compositors -> Displays]
  BY DEF Inv, TypeOK
<1>2. CASE display' = display
  BY <1>1, <1>2
<1>3. CASE TryNext(p)
  <2>1. display[p] < MaxDisplay /\ display' = [display EXCEPT ![p] = display[p] + 1]
    BY <1>3 DEF TryNext
  <2>2. display[p] + 1 \in Displays
    BY <1>1, <2>1 DEF Displays, Parameters
  <2> QED  BY <1>1, <2>1, <2>2
<1> QED  BY <1>2, <1>3

\* A lock file that is removed is nobody's, and no process holds it open.
LEMMA Unlinked ==
  ASSUME Inv, NEW d \in Displays, Unlink(d)
  PROVE  /\ holds' \in [Compositors -> BOOLEAN]
         /\ lockFile' \in [Displays -> Compositors \cup Others \cup {None, Empty}]
<1>1. \A q \in Compositors : holds[q] \in BOOLEAN
  BY DEF Inv, TypeOK
<1>2. holds' \in [Compositors -> BOOLEAN]
  BY <1>1 DEF Unlink
<1>3. lockFile' \in [Displays -> Compositors \cup Others \cup {None, Empty}]
  BY DEF Unlink, Inv, TypeOK
<1> QED  BY <1>2, <1>3

LEMMA NextInv ==
  ASSUME Parameters, Inv, [Next]_vars
  PROVE  Inv'
<1>1. ASSUME NEW p \in Compositors, Start(p) PROVE Inv'
  BY <1>1, FileStepInv DEF Start, Goto, Inv, TypeOK, Working, Past
<1>2. ASSUME NEW p \in Compositors, Open(p) PROVE Inv'
  <2>1. PICK step \in {"Permit", "Exists"} : pc' = [pc EXCEPT ![p] = step]
    BY <1>2 DEF Open, Goto
  <2>2. /\ pc[p] = "Open"
        /\ holds' \in [Compositors -> BOOLEAN]
        /\ writable' \in [Displays -> BOOLEAN]
        /\ lockFile' \in [Displays -> Compositors \cup Others \cup {None, Empty}]
        /\ UNCHANGED <<display, abstract, unix, bare>>
    BY <1>2 DEF Open, Inv, TypeOK
  <2> QED  BY <2>1, <2>2, FileStepInv DEF Inv, TypeOK, Working, Past
<1>3. ASSUME NEW p \in Compositors, Exists(p) PROVE Inv'
  <2>1. PICK step \in {"Failed", "Read"} : pc' = [pc EXCEPT ![p] = step]
    BY <1>3 DEF Exists, Goto
  <2> QED  BY <1>3, <2>1, FileStepInv DEF Exists, Inv, TypeOK, Working, Past
<1>4. ASSUME NEW p \in Compositors, Read(p) PROVE Inv'
  <2>1. PICK step \in {"Open", "Remove"} : pc' = [pc EXCEPT ![p] = step]
    BY <1>4 DEF Read, TryNext, Goto
  <2>2. /\ display' = [display EXCEPT ![p] = display'[p]]
        /\ display'[p] \in Displays
    BY <1>4, DisplayTried DEF Read
  <2> QED  BY <1>4, <2>1, <2>2, FileStepInv DEF Read, Inv, TypeOK, Working, Past
<1>5. ASSUME NEW p \in Compositors, RemoveFile(p) PROVE Inv'
  <2>1. pc[p] = "Remove" /\ pc' = [pc EXCEPT ![p] = "Open"]
    BY <1>5 DEF RemoveFile, TryNext, Goto
  <2>2. /\ display' = [display EXCEPT ![p] = display'[p]]
        /\ display'[p] \in Displays
    BY <1>5, DisplayTried DEF RemoveFile
  <2>3. /\ holds' \in [Compositors -> BOOLEAN]
        /\ lockFile' \in [Displays -> Compositors \cup Others \cup {None, Empty}]
    <3>1. display[p] \in Displays
      BY DEF Inv, TypeOK
    <3>2. UNCHANGED <<lockFile, holds>> \/ Unlink(display[p])
      BY <1>5 DEF RemoveFile
    <3> QED  BY <3>1, <3>2, Unlinked DEF Inv, TypeOK
  <2> QED  BY <1>5, <2>1, <2>2, <2>3, FileStepInv DEF RemoveFile, Inv, TypeOK, Working, Past
<1>6. ASSUME NEW p \in Compositors, Permit(p) PROVE Inv'
  BY <1>6, FileStepInv DEF Permit, Goto, Inv, TypeOK, Working, Past
<1>7. ASSUME NEW p \in Compositors, Write(p) PROVE Inv'
  <2>1. /\ holds' \in [Compositors -> BOOLEAN]
        /\ lockFile' \in [Displays -> Compositors \cup Others \cup {None, Empty}]
    BY <1>7 DEF Write, Inv, TypeOK
  <2> QED  BY <1>7, <2>1, FileStepInv DEF Write, Goto, Inv, TypeOK, Working, Past
<1>8. ASSUME NEW p \in Compositors, Crash(p) PROVE Inv'
  <2>1. /\ pc' = [pc EXCEPT ![p] = "Gone"] /\ Release(p)
        /\ holds' \in [Compositors -> BOOLEAN]
        /\ lockFile' \in [Displays -> Compositors \cup Others \cup {None, Empty}]
        /\ UNCHANGED <<display, writable, unix, bare>>
    BY <1>8 DEF Crash, Gone, Goto, Inv, TypeOK
  <2> QED  BY <2>1, ReleaseInv
<1>9. ASSUME NEW p \in Compositors, Shutdown(p) PROVE Inv'
  <2>1. /\ pc' = [pc EXCEPT ![p] = "Gone"] /\ Release(p)
        /\ holds' \in [Compositors -> BOOLEAN]
        /\ lockFile' \in [Displays -> Compositors \cup Others \cup {None, Empty}]
        /\ UNCHANGED <<display, writable, unix, bare>>
    BY <1>9 DEF Shutdown, Gone, Goto, Unlink, Inv, TypeOK
  <2> QED  BY <2>1, ReleaseInv
<1>10. CASE UNCHANGED vars
  BY <1>10 DEF vars, Inv, TypeOK, SocketsHeld
<1> QED
  BY <1>1, <1>2, <1>3, <1>4, <1>5, <1>6, <1>7, <1>8, <1>9, <1>10,
     BindToAbstractSocketInv, BindToUnixSocketInv DEF Next, Setup

-----------------------------------------------------------------------------

\* However many compositors of a user look for a display at the same time,
\* crash, fail and leave their files behind: who listens on a display and could
\* have its abstract socket has that one and the one in the file system, unless
\* one that could not is behind the latter.
THEOREM ListenersAreAlone ==
  ASSUME Parameters
  PROVE  Spec => []ListensAlone
<1>1. Init => Inv
  BY InitInv
<1>2. Inv /\ [Next]_vars => Inv'
  BY NextInv
<1>3. Inv => ListensAlone
  BY DEF Inv, SocketsHeld, ListensAlone
<1> QED  BY <1>1, <1>2, <1>3, PTL DEF Spec

\* Every variable of XWaylandSetup keeps its type, in whatever order the
\* compositors search, crash and start again.
THEOREM TypeCorrect ==
  ASSUME Parameters
  PROVE  Spec => []TypeOK
<1>1. Init => Inv
  BY InitInv
<1>2. Inv /\ [Next]_vars => Inv'
  BY NextInv
<1>3. Inv => TypeOK
  BY DEF Inv
<1> QED  BY <1>1, <1>2, <1>3, PTL DEF Spec

-----------------------------------------------------------------------------
(* LogindSession: what is under way.  Messages are told apart by their      *)
(* place in the queues of calls and of replies and signals.                 *)

Calling(call) == \E i \in DOMAIN requests : requests[i] = call
Waits(t) == \E i \in DOMAIN inbox : inbox[i].type = t

\* From the message at i on, the service is heard to go away.
EndFrom(i) == \E j \in DOMAIN inbox : i <= j /\ inbox[j].type = "Unregistered"

\* While there is no service, this is known or its end is on the way, and only
\* failures are behind it.
DownKnown ==
  ~up => /\ \A i \in DOMAIN inbox : inbox[i].type = "Failed" \/ EndFrom(i)
         /\ Waits("Unregistered") \/ ~(isConnected \/ sessionActive \/ vtKnown)

\* While there is one we are connected, or on the way there.
Connecting ==
  up => \/ \E i \in DOMAIN inbox :
             inbox[i].type \in {"Registered", "Session"} /\ ~EndFrom(i)
        \/ Calling("GetSession")
        \/ isConnected /\ ~Waits("Unregistered")

\* The state of the session is known, or what will make it so is on the way:
\* the last reply under way is right, or there will be one more.
ActiveComes ==
  \/ Calling("GetActive") \/ Waits("PropertiesChanged")
  \/ \E i \in DOMAIN inbox :
       /\ inbox[i] = Msg("Active", active)
       /\ \A j \in DOMAIN inbox : i < j => inbox[j].type # "Active"
  \/ ~Waits("Active") /\ sessionActive = active

VtComes == Calling("GetVt") \/ Waits("Vt") \/ vtKnown

KnownSoon == up /\ isConnected /\ ~Waits("Unregistered") => ActiveComes /\ VtComes

\* Until the service goes away for the first time, nothing is under way while
\* there is none, and no control is taken before the connection.
FirstService ==
  stops = 0 =>
    /\ ~Waits("Unregistered") /\ ~Waits("Failed")
    /\ ~up => requests = <<>> /\ inbox = <<>> /\ ~vtOpen
    /\ ~isConnected =>
         /\ ~Calling("TakeControl") /\ ~Calling("ReleaseControl")
         /\ ~Waits("Control") /\ ~hasSessionControl /\ ~controller

\* Who takes control gives up what it had before: of the calls and replies
\* under way the last decides, and the one TakeControl is the last.
ControlComes ==
  stops = 0 /\ OneTake =>
    /\ hasSessionControl \/ Waits("Control") =>
         ~Calling("TakeControl") /\ ~Calling("ReleaseControl") /\ controller
    /\ hasSessionControl => ~Waits("Control")
    /\ \A i, j \in DOMAIN inbox :
         inbox[i].type = "Control" /\ inbox[j].type = "Control" => i = j
    /\ \A i, j \in DOMAIN requests :
         requests[i] = "TakeControl" /\ requests[j] \in {"TakeControl", "ReleaseControl"}
           => j <= i
    /\ controller => hasSessionControl \/ Waits("Control") \/ Calling("ReleaseControl")

\* The vt is opened after the session was found active, and follows it.
VtFollows ==
  OpensActive /\ stops = 0 /\ calls = 0 =>
    /\ ~Calling("SwitchTo")
    /\ vtOpen => vtActive = sessionActive
    /\ ~vtOpen =>
         active /\ \A i \in DOMAIN inbox : inbox[i].type = "Active" => inbox[i].value
    /\ ~vtOpen /\ ~sessionActive =>
         /\ ~vtKnown
         /\ \A i \in DOMAIN inbox : inbox[i].type = "Vt" =>
              \E j \in DOMAIN inbox : j < i /\ inbox[j].type = "Active"
         /\ \A i \in DOMAIN requests : requests[i] = "GetVt" =>
              \/ Waits("Active")
              \/ \E j \in DOMAIN requests : j < i /\ requests[j] = "GetActive"

SessionInv ==
  /\ SessionTypeOK /\ DownKnown /\ Connecting /\ KnownSoon
  /\ FirstService /\ ControlComes /\ VtFollows

-----------------------------------------------------------------------------
(* Queues *)

IsAppended(new, old, m) ==
  /\ Len(old) \in Nat /\ Len(new) = Len(old) + 1
  /\ DOMAIN old = 1..Len(old) /\ DOMAIN new = 1..Len(new)
  /\ new[Len(old) + 1] = m
  /\ \A i \in DOMAIN old : new[i] = old[i]

IsTail(new, old) ==
  /\ Len(old) \in Nat /\ Len(old) > 0 /\ Len(new) = Len(old) - 1
  /\ DOMAIN old = 1..Len(old) /\ DOMAIN new = 1..Len(new)
  /\ \A i \in DOMAIN new : i + 1 \in DOMAIN old /\ new[i] = old[i + 1]
  /\ \A i \in DOMAIN old : i # 1 => i - 1 \in DOMAIN new /\ new[i - 1] = old[i]

LEMMA Appended ==
  ASSUME NEW S, NEW old \in Seq(S), NEW m \in S
  PROVE  Append(old, m) \in Seq(S) /\ IsAppended(Append(old, m), old, m)
BY DEF IsAppended

LEMMA TailTaken ==
  ASSUME NEW S, NEW old \in Seq(S), old # <<>>
  PROVE  /\ Tail(old) \in Seq(S) /\ IsTail(Tail(old), old)
         /\ Head(old) = old[1] /\ 1 \in DOMAIN old
BY DEF IsTail

\* What an action that receives a message of type t leaves.
LEMMA Received ==
  ASSUME SessionTypeOK, NEW t, Receive(t)
  PROVE  /\ inbox' \in Seq(Messages) /\ IsTail(inbox', inbox)
         /\ inbox # <<>> /\ Head(inbox) = inbox[1] /\ 1 \in DOMAIN inbox
         /\ inbox[1].type = t
BY TailTaken DEF SessionTypeOK, Receive

LEMMA AfterTail ==
  ASSUME IsTail(inbox', inbox)
  PROVE  /\ \A t : Waits(t) <=> (inbox[1].type = t \/ Waits(t)')
         /\ \A i \in DOMAIN inbox' : EndFrom(i)' <=> EndFrom(i + 1)
<1>1. ASSUME NEW t PROVE Waits(t) <=> (inbox[1].type = t \/ Waits(t)')
  <2>1. ASSUME Waits(t) PROVE inbox[1].type = t \/ Waits(t)'
    BY <2>1 DEF IsTail, Waits
  <2>2. ASSUME Waits(t)' PROVE Waits(t)
    BY <2>2 DEF IsTail, Waits
  <2>3. inbox[1].type = t => Waits(t)
    BY DEF IsTail, Waits
  <2> QED  BY <2>1, <2>2, <2>3
<1>2. ASSUME NEW i \in DOMAIN inbox' PROVE EndFrom(i)' <=> EndFrom(i + 1)
  <2>1. ASSUME EndFrom(i)' PROVE EndFrom(i + 1)
    BY <1>2, <2>1 DEF IsTail, EndFrom
  <2>2. ASSUME EndFrom(i + 1) PROVE EndFrom(i)'
    BY <1>2, <2>2 DEF IsTail, EndFrom
  <2> QED  BY <2>1, <2>2
<1> QED  BY <1>1, <1>2

LEMMA AfterAppend ==
  ASSUME NEW m, IsAppended(inbox', inbox, m)
  PROVE  /\ \A t : Waits(t)' <=> (m.type = t \/ Waits(t))
         /\ \A i \in DOMAIN inbox : EndFrom(i)' <=> (EndFrom(i) \/ m.type = "Unregistered")
<1>1. ASSUME NEW t PROVE Waits(t)' <=> (m.type = t \/ Waits(t))
  BY DEF IsAppended, Waits
<1>2. ASSUME NEW i \in DOMAIN inbox PROVE EndFrom(i)' <=> (EndFrom(i) \/ m.type = "Unregistered")
  BY <1>2 DEF IsAppended, EndFrom
<1> QED  BY <1>1, <1>2

LEMMA AfterServed ==
  ASSUME IsTail(requests', requests)
  PROVE  \A call : Calling(call) <=> (requests[1] = call \/ Calling(call)')
<1> SUFFICES ASSUME NEW call
             PROVE  Calling(call) <=> (requests[1] = call \/ Calling(call)')
  OBVIOUS
<1>1. ASSUME Calling(call) PROVE requests[1] = call \/ Calling(call)'
  BY <1>1 DEF IsTail, Calling
<1>2. ASSUME Calling(call)' PROVE Calling(call)
  BY <1>2 DEF IsTail, Calling
<1>3. requests[1] = call => Calling(call)
  BY DEF IsTail, Calling
<1> QED  BY <1>1, <1>2, <1>3

LEMMA AfterCall ==
  ASSUME NEW m, IsAppended(requests', requests, m)
  PROVE  \A call : Calling(call)' <=> (m = call \/ Calling(call))
BY DEF IsAppended, Calling

\* What is heard but one message leaves us connecting.
LEMMA ConnectingKept ==
  ASSUME IsTail(inbox', inbox), Connecting, up,
         Calling("GetSession") => Calling("GetSession")'
  PROVE  \/ \E i \in DOMAIN inbox' :
              inbox'[i].type \in {"Registered", "Session"} /\ ~EndFrom(i)'
         \/ inbox[1].type \in {"Registered", "Session"} /\ ~Waits("Unregistered")'
         \/ Calling("GetSession")'
         \/ isConnected /\ ~Waits("Unregistered")
<1>1. ASSUME NEW i \in DOMAIN inbox, inbox[i].type \in {"Registered", "Session"},
             ~EndFrom(i), i # 1
      PROVE  \E k \in DOMAIN inbox' :
               inbox'[k].type \in {"Registered", "Session"} /\ ~EndFrom(k)'
  <2>1. i - 1 \in DOMAIN inbox' /\ inbox'[i - 1] = inbox[i] /\ (i - 1) + 1 = i
    BY <1>1 DEF IsTail
  <2>2. EndFrom(i - 1)' <=> EndFrom((i - 1) + 1)
    BY <2>1, AfterTail
  <2> QED  BY <1>1, <2>1, <2>2
<1>2. ASSUME ~EndFrom(1) PROVE ~Waits("Unregistered")'
  <2>1. ~Waits("Unregistered")
    BY <1>2 DEF EndFrom, Waits, IsTail
  <2> QED  BY <2>1, AfterTail
<1> QED  BY <1>1, <1>2 DEF Connecting

\* A message that is no change of the session's leaves its state on the way.
LEMMA ActiveKept ==
  ASSUME IsTail(inbox', inbox), ActiveComes, UNCHANGED active,
         inbox[1].type # "PropertiesChanged",
         Calling("GetActive") => Calling("GetActive")',
         sessionActive' = IF inbox[1].type = "Active" THEN inbox[1].value
                          ELSE sessionActive
  PROVE  ActiveComes'
<1>1. CASE Calling("GetActive")
  BY <1>1 DEF ActiveComes
<1>2. CASE Waits("PropertiesChanged")
  BY <1>2, AfterTail DEF ActiveComes
<1>3. CASE \E i \in DOMAIN inbox :
             /\ inbox[i] = Msg("Active", active)
             /\ \A j \in DOMAIN inbox : i < j => inbox[j].type # "Active"
  <2>1. PICK i \in DOMAIN inbox :
          /\ inbox[i] = Msg("Active", active)
          /\ \A j \in DOMAIN inbox : i < j => inbox[j].type # "Active"
    BY <1>3
  <2>2. CASE i = 1
    <3>1. inbox[1].type = "Active" /\ inbox[1].value = active
      BY <2>1, <2>2 DEF Msg
    <3>2. ~Waits("Active")'
      BY <2>1, <2>2 DEF Waits, IsTail
    <3> QED  BY <3>1, <3>2 DEF ActiveComes
  <2>3. CASE i # 1
    <3>1. i - 1 \in DOMAIN inbox' /\ inbox'[i - 1] = Msg("Active", active')
      BY <2>1, <2>3 DEF IsTail
    <3>2. \A j \in DOMAIN inbox' : i - 1 < j => inbox'[j].type # "Active"
      BY <2>1, <2>3 DEF IsTail
    <3> QED  BY <3>1, <3>2 DEF ActiveComes
  <2> QED  BY <2>2, <2>3
<1>4. CASE ~Waits("Active") /\ sessionActive = active
  BY <1>4, AfterTail DEF ActiveComes
<1> QED  BY <1>1, <1>2, <1>3, <1>4 DEF ActiveComes

\* The replies that were asked for together keep their order.
LEMMA VtOrderKept ==
  ASSUME SessionTypeOK, IsTail(inbox', inbox), inbox[1].type # "Active",
         \A i \in DOMAIN inbox : inbox[i].type = "Vt" =>
           \E j \in DOMAIN inbox : j < i /\ inbox[j].type = "Active"
  PROVE  /\ inbox[1].type # "Vt"
         /\ \A i \in DOMAIN inbox' : inbox'[i].type = "Vt" =>
              \E j \in DOMAIN inbox' : j < i /\ inbox'[j].type = "Active"
<1>1. inbox[1].type # "Vt"
  BY DEF IsTail
<1>2. ASSUME NEW i \in DOMAIN inbox', inbox'[i].type = "Vt"
      PROVE  \E j \in DOMAIN inbox' : j < i /\ inbox'[j].type = "Active"
  <2>1. i + 1 \in DOMAIN inbox /\ inbox[i + 1].type = "Vt"
    BY <1>2 DEF IsTail
  <2>2. PICK j \in DOMAIN inbox : j < i + 1 /\ inbox[j].type = "Active"
    BY <2>1
  <2>3. j # 1
    BY <2>2
  <2>4. j - 1 \in DOMAIN inbox' /\ inbox'[j - 1].type = "Active" /\ j - 1 < i
    BY <1>2, <2>2, <2>3 DEF IsTail
  <2> QED  BY <2>4
<1> QED  BY <1>1, <1>2

LEMMA DownKept ==
  ASSUME IsTail(inbox', inbox), DownKnown, ~up
  PROVE  /\ \A i \in DOMAIN inbox' : inbox'[i].type = "Failed" \/ EndFrom(i)'
         /\ inbox[1].type = "Failed" \/ Waits("Unregistered")
<1>1. ASSUME NEW i \in DOMAIN inbox' PROVE inbox'[i].type = "Failed" \/ EndFrom(i)'
  <2>1. i + 1 \in DOMAIN inbox /\ inbox'[i] = inbox[i + 1]
    BY <1>1 DEF IsTail
  <2>2. inbox[i + 1].type = "Failed" \/ EndFrom(i + 1)
    BY <2>1 DEF DownKnown
  <2>3. EndFrom(i)' <=> EndFrom(i + 1)
    BY <1>1, AfterTail
  <2> QED  BY <2>1, <2>2, <2>3
<1>2. inbox[1].type = "Failed" \/ EndFrom(1)
  BY DEF DownKnown, IsTail
<1>3. EndFrom(1) => Waits("Unregistered")
  BY DEF EndFrom, Waits
<1> QED  BY <1>1, <1>2, <1>3

LEMMA StartServiceInv ==
  ASSUME SessionInv, StartService
  PROVE  SessionInv'
<1>i. inbox' \in Seq(Messages) /\ IsAppended(inbox', inbox, Registered)
  <2>1. Registered \in Messages
    BY DEF SessionInv, SessionTypeOK, Messages, Methods, Registered, PropertiesChanged, Msg, Failed
  <2> QED  BY <2>1, Appended DEF StartService, SessionInv, SessionTypeOK
<1>w. /\ \A t : Waits(t)' <=> (Registered.type = t \/ Waits(t))
      /\ \A i \in DOMAIN inbox : EndFrom(i)' <=> (EndFrom(i) \/ Registered.type = "Unregistered")
  BY <1>i, AfterAppend
<1>r. UNCHANGED requests
  BY DEF StartService
<1>c. \A call : Calling(call)' <=> Calling(call)
  BY <1>r DEF Calling
<1>1. SessionTypeOK'
  BY <1>i, <1>w, <1>r, <1>c, CountsAssumption DEF StartService, serviceVars, logindVars, handlerVars, boundVars, SessionInv, SessionTypeOK
<1>2. DownKnown'
  BY <1>i, <1>w, <1>r, <1>c DEF StartService, serviceVars, logindVars, handlerVars, boundVars, SessionInv, SessionTypeOK, DownKnown, IsAppended, IsTail, Registered, PropertiesChanged, Msg, Failed
<1>3. Connecting'
  <2>1. PICK n \in DOMAIN inbox' : inbox'[n] = Registered /\ n = Len(inbox')
    BY <1>i DEF IsAppended
  <2>2. ~EndFrom(n)'
    BY <1>i, <2>1 DEF IsAppended, EndFrom, Registered, Msg
  <2> QED  BY <2>1, <2>2 DEF Connecting, Registered, Msg
<1>4. KnownSoon'
  BY <1>w DEF StartService, logindVars, SessionInv, DownKnown, KnownSoon
<1>5. FirstService'
  BY <1>i, <1>w, <1>r, <1>c DEF StartService, serviceVars, logindVars, handlerVars, boundVars, SessionInv, SessionTypeOK, FirstService, IsAppended, IsTail, Registered, PropertiesChanged, Msg, Failed
<1>6. ControlComes'
  BY <1>i, <1>w, <1>r, <1>c DEF StartService, serviceVars, logindVars, handlerVars, boundVars, SessionInv, SessionTypeOK, ControlComes, FirstService, IsAppended, IsTail, Registered, PropertiesChanged, Msg, Failed
<1>7. VtFollows'
  BY <1>i, <1>w, <1>r, <1>c DEF StartService, serviceVars, logindVars, handlerVars, boundVars, SessionInv, SessionTypeOK, VtFollows, FirstService, DownKnown, IsAppended, IsTail, Registered, PropertiesChanged, Msg, Failed
<1> QED  BY <1>1, <1>2, <1>3, <1>4, <1>5, <1>6, <1>7 DEF SessionInv

LEMMA UserSwitchesInv ==
  ASSUME SessionInv, UserSwitches
  PROVE  SessionInv'
<1>i. IF up THEN inbox' \in Seq(Messages) /\ IsAppended(inbox', inbox, PropertiesChanged)
      ELSE UNCHANGED inbox
  <2>1. PropertiesChanged \in Messages
    BY DEF Messages, PropertiesChanged, Msg
  <2> QED  BY <2>1, Appended DEF UserSwitches, SessionInv, SessionTypeOK
<1>w. /\ \A t : Waits(t)' <=> ((up /\ PropertiesChanged.type = t) \/ Waits(t))
      /\ \A i \in DOMAIN inbox : EndFrom(i)' <=> EndFrom(i)
  <2>1. CASE up
    BY <1>i, <2>1, AfterAppend DEF PropertiesChanged, Msg
  <2>2. CASE ~up
    BY <1>i, <2>2 DEF Waits, EndFrom
  <2> QED  BY <2>1, <2>2
<1>r. UNCHANGED requests
  BY DEF UserSwitches
<1>c. \A call : Calling(call)' <=> Calling(call)
  BY <1>r DEF Calling
<1>1. SessionTypeOK'
  BY <1>i, <1>w, <1>r, <1>c, CountsAssumption DEF UserSwitches, serviceVars, logindVars, handlerVars, boundVars, SessionInv, SessionTypeOK
<1>2. DownKnown'
  BY <1>i, <1>w, <1>r, <1>c DEF UserSwitches, serviceVars, logindVars, handlerVars, boundVars, SessionInv, SessionTypeOK, DownKnown, IsAppended, IsTail, Registered, PropertiesChanged, Msg, Failed
<1>3. Connecting'
  BY <1>i, <1>w, <1>r, <1>c DEF UserSwitches, serviceVars, logindVars, handlerVars, boundVars, SessionInv, SessionTypeOK, Connecting, IsAppended, IsTail, Registered, PropertiesChanged, Msg, Failed
<1>4. KnownSoon'
  BY <1>i, <1>w, <1>r, <1>c DEF UserSwitches, serviceVars, logindVars, handlerVars, boundVars, SessionInv, SessionTypeOK, KnownSoon, ActiveComes, VtComes, IsAppended, IsTail, Registered, PropertiesChanged, Msg, Failed
<1>5. FirstService'
  BY <1>i, <1>w, <1>r, <1>c DEF UserSwitches, serviceVars, logindVars, handlerVars, boundVars, SessionInv, SessionTypeOK, FirstService, IsAppended, IsTail, Registered, PropertiesChanged, Msg, Failed
<1>6. ControlComes'
  BY <1>i, <1>w, <1>r, <1>c DEF UserSwitches, serviceVars, logindVars, handlerVars, boundVars, SessionInv, SessionTypeOK, ControlComes, FirstService, IsAppended, IsTail, Registered, PropertiesChanged, Msg, Failed
<1>7. VtFollows'
  BY <1>i, <1>w, <1>r, <1>c DEF UserSwitches, serviceVars, logindVars, handlerVars, boundVars, SessionInv, SessionTypeOK, VtFollows, FirstService, DownKnown, IsAppended, IsTail, Registered, PropertiesChanged, Msg, Failed
<1> QED  BY <1>1, <1>2, <1>3, <1>4, <1>5, <1>6, <1>7 DEF SessionInv

LEMMA RefuseInv ==
  ASSUME SessionInv, Refuse
  PROVE  SessionInv'
<1>r. /\ requests' \in Seq(Methods) /\ IsTail(requests', requests)
      /\ Head(requests) = requests[1] /\ 1 \in DOMAIN requests
  BY TailTaken DEF Refuse, SessionInv, SessionTypeOK
<1>c. \A call : Calling(call) <=> (requests[1] = call \/ Calling(call)')
  BY <1>r, AfterServed
<1>i. /\ inbox' \in Seq(Messages) /\ IsAppended(inbox', inbox, Failed(requests[1]))
      /\ requests[1] \in Methods
  <2>1. requests[1] \in Methods
    BY <1>r DEF SessionInv, SessionTypeOK
  <2>2. Failed(requests[1]) \in Messages
    BY <2>1 DEF Messages, Failed
  <2> QED  BY <1>r, <2>1, <2>2, Appended DEF Refuse, SessionInv, SessionTypeOK
<1>w. /\ \A t : Waits(t)' <=> ("Failed" = t \/ Waits(t))
      /\ \A i \in DOMAIN inbox : EndFrom(i)' <=> EndFrom(i)
  BY <1>i, AfterAppend DEF Failed
<1>1. SessionTypeOK'
  BY <1>i, <1>w, <1>r, <1>c, CountsAssumption DEF Refuse, serviceVars, logindVars, handlerVars, boundVars, SessionInv, SessionTypeOK
<1>2. DownKnown'
  BY <1>i, <1>w, <1>r, <1>c DEF Refuse, serviceVars, logindVars, handlerVars, boundVars, SessionInv, SessionTypeOK, DownKnown, IsAppended, IsTail, Registered, PropertiesChanged, Msg, Failed
<1>3. Connecting'
  BY <1>i, <1>w, <1>r, <1>c DEF Refuse, serviceVars, logindVars, handlerVars, boundVars, SessionInv, SessionTypeOK, Connecting, IsAppended, IsTail, Registered, PropertiesChanged, Msg, Failed
<1>4. KnownSoon'
  BY <1>i, <1>w, <1>r, <1>c DEF Refuse, serviceVars, logindVars, handlerVars, boundVars, SessionInv, SessionTypeOK, KnownSoon, ActiveComes, VtComes, IsAppended, IsTail, Registered, PropertiesChanged, Msg, Failed
<1>5. FirstService'
  BY <1>i, <1>w, <1>r, <1>c DEF Refuse, serviceVars, logindVars, handlerVars, boundVars, SessionInv, SessionTypeOK, FirstService, IsAppended, IsTail, Registered, PropertiesChanged, Msg, Failed
<1>6. ControlComes'
  BY <1>i, <1>w, <1>r, <1>c DEF Refuse, serviceVars, logindVars, handlerVars, boundVars, SessionInv, SessionTypeOK, ControlComes, FirstService, IsAppended, IsTail, Registered, PropertiesChanged, Msg, Failed
<1>7. VtFollows'
  BY <1>i, <1>w, <1>r, <1>c DEF Refuse, serviceVars, logindVars, handlerVars, boundVars, SessionInv, SessionTypeOK, VtFollows, FirstService, DownKnown, IsAppended, IsTail, Registered, PropertiesChanged, Msg, Failed
<1> QED  BY <1>1, <1>2, <1>3, <1>4, <1>5, <1>6, <1>7 DEF SessionInv

LEMMA ServiceRegisteredInv ==
  ASSUME SessionInv, ServiceRegistered
  PROVE  SessionInv'
<1>i. /\ inbox' \in Seq(Messages) /\ IsTail(inbox', inbox)
      /\ inbox # <<>> /\ Head(inbox) = inbox[1] /\ 1 \in DOMAIN inbox
      /\ inbox[1].type = "Registered"
  BY Received DEF ServiceRegistered, SessionInv
<1>w. /\ \A t : Waits(t) <=> (inbox[1].type = t \/ Waits(t)')
      /\ \A i \in DOMAIN inbox' : EndFrom(i)' <=> EndFrom(i + 1)
  BY <1>i, AfterTail
<1>r. requests' \in Seq(Methods) /\ IsAppended(requests', requests, "GetSession")
  BY Appended DEF ServiceRegistered, SessionInv, SessionTypeOK, Methods
<1>c. \A call : Calling(call)' <=> ("GetSession" = call \/ Calling(call))
  BY <1>r, AfterCall
<1>1. SessionTypeOK'
  BY <1>i, <1>w, <1>r, <1>c, CountsAssumption DEF ServiceRegistered, serviceVars, logindVars, handlerVars, boundVars, SessionInv, SessionTypeOK
<1>2. DownKnown'
  BY <1>i, <1>w, DownKept DEF ServiceRegistered, serviceVars, logindVars, handlerVars, boundVars, SessionInv, DownKnown
<1>3. Connecting'
  BY <1>i, <1>w, <1>c, ConnectingKept DEF ServiceRegistered, serviceVars, logindVars, handlerVars, boundVars, SessionInv, Connecting
<1>4. KnownSoon'
  <2> SUFFICES ASSUME up, isConnected, ~Waits("Unregistered")
               PROVE  ActiveComes' /\ VtComes'
    BY <1>w, <1>i DEF ServiceRegistered, serviceVars, logindVars, handlerVars, boundVars, KnownSoon
  <2>1. ActiveComes /\ VtComes
    BY DEF SessionInv, KnownSoon
  <2>2. ActiveComes'
    BY <1>i, <1>c, <2>1, ActiveKept DEF ServiceRegistered, serviceVars, logindVars, handlerVars, boundVars, SessionInv, SessionTypeOK
  <2>3. VtComes'
    BY <1>i, <1>w, <1>c, <2>1 DEF ServiceRegistered, serviceVars, logindVars, handlerVars, boundVars, VtComes
  <2> QED  BY <2>2, <2>3
<1>5. FirstService'
  BY <1>i, <1>w, <1>c DEF ServiceRegistered, serviceVars, logindVars, handlerVars, boundVars, SessionInv, FirstService
<1>6. ControlComes'
  BY <1>i, <1>w, <1>r, <1>c DEF ServiceRegistered, serviceVars, logindVars, handlerVars, boundVars, SessionInv, SessionTypeOK, ControlComes, FirstService, IsAppended, IsTail, Registered, PropertiesChanged, Msg, Failed
<1>7. VtFollows'
  <2> SUFFICES ASSUME OpensActive, stops = 0, calls = 0
               PROVE  VtFollows'
    BY DEF ServiceRegistered, serviceVars, logindVars, handlerVars, boundVars, VtFollows
  <2>1. inbox[1].type \notin {"Unregistered", "Failed"}
    BY <1>i, <1>w DEF SessionInv, FirstService
  <2>2. ~Calling("SwitchTo")'
    BY <1>c DEF SessionInv, VtFollows
  <2>3. vtOpen' => vtActive' = sessionActive'
    BY <1>i, <2>1, VtOrderKept DEF ServiceRegistered, serviceVars, logindVars, handlerVars, boundVars, SessionInv, VtFollows, SessionTypeOK
  <2>4. ~vtOpen' => /\ active'
                    /\ \A i \in DOMAIN inbox' : inbox'[i].type = "Active" => inbox'[i].value
    BY <1>i, <2>1 DEF ServiceRegistered, serviceVars, logindVars, handlerVars, boundVars, SessionInv, VtFollows, IsTail
  <2>5. ASSUME ~vtOpen', ~sessionActive'
        PROVE  /\ ~vtKnown'
               /\ \A i \in DOMAIN inbox' : inbox'[i].type = "Vt" =>
                    \E j \in DOMAIN inbox' : j < i /\ inbox'[j].type = "Active"
               /\ \A i \in DOMAIN requests' : requests'[i] = "GetVt" =>
                    \/ Waits("Active")'
                    \/ \E j \in DOMAIN requests' : j < i /\ requests'[j] = "GetActive"
    <3>1. ~vtOpen /\ ~sessionActive /\ inbox[1].type # "Active"
      BY <1>i, <2>5 DEF ServiceRegistered, serviceVars, logindVars, handlerVars, boundVars, SessionInv, VtFollows, SessionTypeOK
    <3>2. /\ inbox[1].type # "Vt"
          /\ \A i \in DOMAIN inbox' : inbox'[i].type = "Vt" =>
               \E j \in DOMAIN inbox' : j < i /\ inbox'[j].type = "Active"
      BY <1>i, <3>1, VtOrderKept DEF SessionInv, VtFollows
    <3>3. Waits("Active") => Waits("Active")'
      BY <1>w, <3>1
    <3> QED  BY <1>i, <1>r, <3>1, <3>2, <3>3 DEF ServiceRegistered, serviceVars, logindVars, handlerVars, boundVars, SessionInv, VtFollows, IsAppended
  <2> QED  BY <2>2, <2>3, <2>4, <2>5 DEF VtFollows
<1> QED  BY <1>1, <1>2, <1>3, <1>4, <1>5, <1>6, <1>7 DEF SessionInv

LEMMA ServiceUnregisteredInv ==
  ASSUME SessionInv, ServiceUnregistered
  PROVE  SessionInv'
<1>i. /\ inbox' \in Seq(Messages) /\ IsTail(inbox', inbox)
      /\ inbox # <<>> /\ Head(inbox) = inbox[1] /\ 1 \in DOMAIN inbox
      /\ inbox[1].type = "Unregistered"
  BY Received DEF ServiceUnregistered, SessionInv
<1>w. /\ \A t : Waits(t) <=> (inbox[1].type = t \/ Waits(t)')
      /\ \A i \in DOMAIN inbox' : EndFrom(i)' <=> EndFrom(i + 1)
  BY <1>i, AfterTail
<1>r. UNCHANGED requests
  BY DEF ServiceUnregistered
<1>c. \A call : Calling(call)' <=> Calling(call)
  BY <1>r DEF Calling
<1>1. SessionTypeOK'
  BY <1>i, <1>w, <1>r, <1>c, CountsAssumption DEF ServiceUnregistered, SetActive, serviceVars, logindVars, handlerVars, boundVars, SessionInv, SessionTypeOK
<1>2. DownKnown'
  BY <1>i, <1>w, DownKept DEF ServiceUnregistered, SetActive, serviceVars, logindVars, handlerVars, boundVars, SessionInv, DownKnown
<1>3. Connecting'
  BY <1>i, <1>w, <1>c, ConnectingKept DEF ServiceUnregistered, SetActive, serviceVars, logindVars, handlerVars, boundVars, SessionInv, Connecting
<1>4. KnownSoon'
  BY DEF ServiceUnregistered, KnownSoon
<1>5. FirstService'
  BY <1>i, <1>w, <1>c DEF ServiceUnregistered, SetActive, serviceVars, logindVars, handlerVars, boundVars, SessionInv, FirstService
<1>6. ControlComes'
  BY <1>i, <1>w, <1>r, <1>c DEF ServiceUnregistered, SetActive, serviceVars, logindVars, handlerVars, boundVars, SessionInv, SessionTypeOK, ControlComes, FirstService, IsAppended, IsTail, Registered, PropertiesChanged, Msg, Failed
<1>7. VtFollows'
  BY <1>i, <1>w DEF ServiceUnregistered, SessionInv, FirstService, VtFollows, boundVars
<1> QED  BY <1>1, <1>2, <1>3, <1>4, <1>5, <1>6, <1>7 DEF SessionInv

LEMMA ActiveReplyInv ==
  ASSUME SessionInv, ActiveReply
  PROVE  SessionInv'
<1>i. /\ inbox' \in Seq(Messages) /\ IsTail(inbox', inbox)
      /\ inbox # <<>> /\ Head(inbox) = inbox[1] /\ 1 \in DOMAIN inbox
      /\ inbox[1].type = "Active"
  BY Received DEF ActiveReply, SessionInv
<1>w. /\ \A t : Waits(t) <=> (inbox[1].type = t \/ Waits(t)')
      /\ \A i \in DOMAIN inbox' : EndFrom(i)' <=> EndFrom(i + 1)
  BY <1>i, AfterTail
<1>r. UNCHANGED requests
  BY DEF ActiveReply
<1>c. \A call : Calling(call)' <=> Calling(call)
  BY <1>r DEF Calling
<1>1. SessionTypeOK'
  <2>1. inbox[1].value \in BOOLEAN
    BY <1>i DEF SessionInv, SessionTypeOK, Messages
  <2> QED  BY <1>i, <1>r, <2>1 DEF ActiveReply, SetActive, serviceVars, boundVars, SessionInv, SessionTypeOK
<1>2. DownKnown'
  BY <1>i, <1>w, DownKept DEF ActiveReply, SetActive, serviceVars, logindVars, handlerVars, boundVars, SessionInv, DownKnown
<1>3. Connecting'
  BY <1>i, <1>w, <1>c, ConnectingKept DEF ActiveReply, SetActive, serviceVars, logindVars, handlerVars, boundVars, SessionInv, Connecting
<1>4. KnownSoon'
  <2> SUFFICES ASSUME up, isConnected, ~Waits("Unregistered")
               PROVE  ActiveComes' /\ VtComes'
    BY <1>w, <1>i DEF ActiveReply, SetActive, serviceVars, logindVars, handlerVars, boundVars, KnownSoon
  <2>1. ActiveComes /\ VtComes
    BY DEF SessionInv, KnownSoon
  <2>2. ActiveComes'
    BY <1>i, <1>c, <2>1, ActiveKept DEF ActiveReply, SetActive, serviceVars, logindVars, handlerVars, boundVars, SessionInv, SessionTypeOK
  <2>3. VtComes'
    BY <1>i, <1>w, <1>c, <2>1 DEF ActiveReply, SetActive, serviceVars, logindVars, handlerVars, boundVars, VtComes
  <2> QED  BY <2>2, <2>3
<1>5. FirstService'
  BY <1>i, <1>w, <1>c DEF ActiveReply, SetActive, serviceVars, logindVars, handlerVars, boundVars, SessionInv, FirstService
<1>6. ControlComes'
  BY <1>i, <1>w, <1>r, <1>c DEF ActiveReply, SetActive, serviceVars, logindVars, handlerVars, boundVars, SessionInv, SessionTypeOK, ControlComes, FirstService, IsAppended, IsTail, Registered, PropertiesChanged, Msg, Failed
<1>7. VtFollows'
  <2> SUFFICES ASSUME OpensActive, stops = 0, calls = 0
               PROVE  VtFollows'
    BY DEF ActiveReply, SetActive, serviceVars, logindVars, handlerVars, boundVars, VtFollows
  <2>1. inbox[1].type \notin {"Unregistered", "Failed"}
    BY <1>i, <1>w DEF SessionInv, FirstService
  <2>2. ~Calling("SwitchTo")'
    BY <1>c DEF SessionInv, VtFollows
  <2>3. vtOpen' => vtActive' = sessionActive'
    BY <1>i, <2>1, VtOrderKept DEF ActiveReply, SetActive, serviceVars, logindVars, handlerVars, boundVars, SessionInv, VtFollows, SessionTypeOK
  <2>4. ~vtOpen' => /\ active'
                    /\ \A i \in DOMAIN inbox' : inbox'[i].type = "Active" => inbox'[i].value
    BY <1>i, <2>1 DEF ActiveReply, SetActive, serviceVars, logindVars, handlerVars, boundVars, SessionInv, VtFollows, IsTail
  <2>5. ASSUME ~vtOpen', ~sessionActive'
        PROVE  /\ ~vtKnown'
               /\ \A i \in DOMAIN inbox' : inbox'[i].type = "Vt" =>
                    \E j \in DOMAIN inbox' : j < i /\ inbox'[j].type = "Active"
               /\ \A i \in DOMAIN requests' : requests'[i] = "GetVt" =>
                    \/ Waits("Active")'
                    \/ \E j \in DOMAIN requests' : j < i /\ requests'[j] = "GetActive"
    <3>1. ~vtOpen /\ ~sessionActive /\ inbox[1].type # "Active"
      BY <1>i, <2>5 DEF ActiveReply, SetActive, serviceVars, logindVars, handlerVars, boundVars, SessionInv, VtFollows, SessionTypeOK
    <3>2. /\ inbox[1].type # "Vt"
          /\ \A i \in DOMAIN inbox' : inbox'[i].type = "Vt" =>
               \E j \in DOMAIN inbox' : j < i /\ inbox'[j].type = "Active"
      BY <1>i, <3>1, VtOrderKept DEF SessionInv, VtFollows
    <3>3. Waits("Active") => Waits("Active")'
      BY <1>w, <3>1
    <3> QED  BY <1>i, <1>r, <3>1, <3>2, <3>3 DEF ActiveReply, SetActive, serviceVars, logindVars, handlerVars, boundVars, SessionInv, VtFollows
  <2> QED  BY <2>2, <2>3, <2>4, <2>5 DEF VtFollows
<1> QED  BY <1>1, <1>2, <1>3, <1>4, <1>5, <1>6, <1>7 DEF SessionInv

LEMMA VtReplyInv ==
  ASSUME SessionInv, VtReply
  PROVE  SessionInv'
<1>i. /\ inbox' \in Seq(Messages) /\ IsTail(inbox', inbox)
      /\ inbox # <<>> /\ Head(inbox) = inbox[1] /\ 1 \in DOMAIN inbox
      /\ inbox[1].type = "Vt"
  BY Received DEF VtReply, SessionInv
<1>w. /\ \A t : Waits(t) <=> (inbox[1].type = t \/ Waits(t)')
      /\ \A i \in DOMAIN inbox' : EndFrom(i)' <=> EndFrom(i + 1)
  BY <1>i, AfterTail
<1>r. UNCHANGED requests
  BY DEF VtReply
<1>c. \A call : Calling(call)' <=> Calling(call)
  BY <1>r DEF Calling
<1>1. SessionTypeOK'
  <2>1. \/ handler # "none" /\ ~vtOpen /\ vtOpen' = TRUE /\ vtActive' = TRUE
        \/ vtOpen' = vtOpen /\ vtActive' = vtActive
    BY DEF VtReply, SetupVt
  <2>2. vtOpen' \in BOOLEAN /\ vtActive' \in BOOLEAN
    BY <2>1 DEF SessionInv, SessionTypeOK
  <2>3. handler = "none" => ~vtOpen' /\ ~vtActive'
    BY <2>1 DEF SessionInv, SessionTypeOK
  <2>4. handler' = handler /\ vtKnown' = TRUE
    BY DEF VtReply
  <2> QED  BY <1>i, <1>r, <2>2, <2>3, <2>4 DEF VtReply, serviceVars, boundVars, SessionInv, SessionTypeOK
<1>2. DownKnown'
  BY <1>i, <1>w, DownKept DEF VtReply, SetupVt, serviceVars, logindVars, handlerVars, boundVars, SessionInv, DownKnown
<1>3. Connecting'
  BY <1>i, <1>w, <1>c, ConnectingKept DEF VtReply, SetupVt, serviceVars, logindVars, handlerVars, boundVars, SessionInv, Connecting
<1>4. KnownSoon'
  <2> SUFFICES ASSUME up, isConnected, ~Waits("Unregistered")
               PROVE  ActiveComes' /\ VtComes'
    BY <1>w, <1>i DEF VtReply, SetupVt, serviceVars, logindVars, handlerVars, boundVars, KnownSoon
  <2>1. ActiveComes /\ VtComes
    BY DEF SessionInv, KnownSoon
  <2>2. ActiveComes'
    BY <1>i, <1>c, <2>1, ActiveKept DEF VtReply, SetupVt, serviceVars, logindVars, handlerVars, boundVars, SessionInv, SessionTypeOK
  <2>3. VtComes'
    BY <1>i, <1>w, <1>c, <2>1 DEF VtReply, SetupVt, serviceVars, logindVars, handlerVars, boundVars, VtComes
  <2> QED  BY <2>2, <2>3
<1>5. FirstService'
  BY <1>i, <1>w, <1>c DEF VtReply, SetupVt, serviceVars, logindVars, handlerVars, boundVars, SessionInv, FirstService
<1>6. ControlComes'
  BY <1>i, <1>w, <1>r, <1>c DEF VtReply, SetupVt, serviceVars, logindVars, handlerVars, boundVars, SessionInv, SessionTypeOK, ControlComes, FirstService, IsAppended, IsTail, Registered, PropertiesChanged, Msg, Failed
<1>7. VtFollows'
  <2> SUFFICES ASSUME OpensActive, stops = 0, calls = 0
               PROVE  VtFollows'
    BY DEF VtReply, SetupVt, serviceVars, logindVars, handlerVars, boundVars, VtFollows
  <2>1. inbox[1].type \notin {"Unregistered", "Failed"}
    BY <1>i, <1>w DEF SessionInv, FirstService
  <2>2. ~Calling("SwitchTo")'
    BY <1>c DEF SessionInv, VtFollows
  <2>3. vtOpen' => vtActive' = sessionActive'
    <3>1. \/ ~vtOpen /\ vtOpen' = TRUE /\ vtActive' = TRUE
          \/ vtOpen' = vtOpen /\ vtActive' = vtActive
      BY DEF VtReply, SetupVt
    <3>2. sessionActive' = sessionActive /\ sessionActive \in BOOLEAN /\ vtOpen \in BOOLEAN
      BY DEF VtReply, SessionInv, SessionTypeOK
    <3>3. vtOpen => vtActive = sessionActive
      BY DEF SessionInv, VtFollows
    <3>4. ~vtOpen => sessionActive = TRUE
      <4> SUFFICES ASSUME ~vtOpen, ~sessionActive PROVE FALSE
        BY <3>2
      <4>1. \A i \in DOMAIN inbox : inbox[i].type = "Vt" =>
              \E j \in DOMAIN inbox : j < i /\ inbox[j].type = "Active"
        BY DEF SessionInv, VtFollows
      <4>2. inbox[1].type # "Active"
        BY <1>i
      <4>3. inbox[1].type # "Vt"
        BY <1>i, <4>1, <4>2, VtOrderKept DEF SessionInv
      <4> QED  BY <1>i, <4>3
    <3>5. CASE ~vtOpen /\ vtOpen' = TRUE /\ vtActive' = TRUE
      BY <3>2, <3>4, <3>5
    <3>6. CASE vtOpen' = vtOpen /\ vtActive' = vtActive
      BY <3>2, <3>3, <3>6
    <3> QED  BY <3>1, <3>5, <3>6
  <2>4. ~vtOpen' => /\ active'
                    /\ \A i \in DOMAIN inbox' : inbox'[i].type = "Active" => inbox'[i].value
    BY <1>i, <2>1 DEF VtReply, SetupVt, serviceVars, logindVars, handlerVars, boundVars, SessionInv, VtFollows, IsTail
  <2>5. ASSUME ~vtOpen', ~sessionActive'
        PROVE  /\ ~vtKnown'
               /\ \A i \in DOMAIN inbox' : inbox'[i].type = "Vt" =>
                    \E j \in DOMAIN inbox' : j < i /\ inbox'[j].type = "Active"
               /\ \A i \in DOMAIN requests' : requests'[i] = "GetVt" =>
                    \/ Waits("Active")'
                    \/ \E j \in DOMAIN requests' : j < i /\ requests'[j] = "GetActive"
    <3>1. ~vtOpen /\ ~sessionActive /\ inbox[1].type # "Active"
      BY <1>i, <2>5 DEF VtReply, SetupVt, serviceVars, logindVars, handlerVars, boundVars, SessionInv, VtFollows, SessionTypeOK
    <3>2. /\ inbox[1].type # "Vt"
          /\ \A i \in DOMAIN inbox' : inbox'[i].type = "Vt" =>
               \E j \in DOMAIN inbox' : j < i /\ inbox'[j].type = "Active"
      BY <1>i, <3>1, VtOrderKept DEF SessionInv, VtFollows
    <3>3. Waits("Active") => Waits("Active")'
      BY <1>w, <3>1
    <3> QED  BY <1>i, <1>r, <3>1, <3>2, <3>3 DEF VtReply, SetupVt, serviceVars, logindVars, handlerVars, boundVars, SessionInv, VtFollows
  <2> QED  BY <2>2, <2>3, <2>4, <2>5 DEF VtFollows
<1> QED  BY <1>1, <1>2, <1>3, <1>4, <1>5, <1>6, <1>7 DEF SessionInv

LEMMA ControlReplyInv ==
  ASSUME SessionInv, ControlReply
  PROVE  SessionInv'
<1>i. /\ inbox' \in Seq(Messages) /\ IsTail(inbox', inbox)
      /\ inbox # <<>> /\ Head(inbox) = inbox[1] /\ 1 \in DOMAIN inbox
      /\ inbox[1].type = "Control"
  BY Received DEF ControlReply, SessionInv
<1>w. /\ \A t : Waits(t) <=> (inbox[1].type = t \/ Waits(t)')
      /\ \A i \in DOMAIN inbox' : EndFrom(i)' <=> EndFrom(i + 1)
  BY <1>i, AfterTail
<1>r. UNCHANGED requests
  BY DEF ControlReply
<1>c. \A call : Calling(call)' <=> Calling(call)
  BY <1>r DEF Calling
<1>1. SessionTypeOK'
  BY <1>i, <1>w, <1>r, <1>c, CountsAssumption DEF ControlReply, serviceVars, logindVars, handlerVars, boundVars, SessionInv, SessionTypeOK
<1>2. DownKnown'
  BY <1>i, <1>w, DownKept DEF ControlReply, serviceVars, logindVars, handlerVars, boundVars, SessionInv, DownKnown
<1>3. Connecting'
  BY <1>i, <1>w, <1>c, ConnectingKept DEF ControlReply, serviceVars, logindVars, handlerVars, boundVars, SessionInv, Connecting
<1>4. KnownSoon'
  <2> SUFFICES ASSUME up, isConnected, ~Waits("Unregistered")
               PROVE  ActiveComes' /\ VtComes'
    BY <1>w, <1>i DEF ControlReply, serviceVars, logindVars, handlerVars, boundVars, KnownSoon
  <2>1. ActiveComes /\ VtComes
    BY DEF SessionInv, KnownSoon
  <2>2. ActiveComes'
    BY <1>i, <1>c, <2>1, ActiveKept DEF ControlReply, serviceVars, logindVars, handlerVars, boundVars, SessionInv, SessionTypeOK
  <2>3. VtComes'
    BY <1>i, <1>w, <1>c, <2>1 DEF ControlReply, serviceVars, logindVars, handlerVars, boundVars, VtComes
  <2> QED  BY <2>2, <2>3
<1>5. FirstService'
  BY <1>i, <1>w, <1>c DEF ControlReply, serviceVars, logindVars, handlerVars, boundVars, SessionInv, FirstService
<1>6. ControlComes'
  <2> SUFFICES ASSUME stops = 0, OneTake
               PROVE  ControlComes'
    BY DEF ControlReply, boundVars, ControlComes
  <2>1. Waits("Control")
    BY <1>w, <1>i
  <2>2. ~Waits("Control")'
    BY <1>i DEF SessionInv, ControlComes, Waits, IsTail
  <2>3. ~Calling("TakeControl")' /\ ~Calling("ReleaseControl")' /\ controller'
    BY <1>c, <2>1 DEF ControlReply, serviceVars, SessionInv, ControlComes
  <2> QED  BY <1>i, <1>r, <2>2, <2>3 DEF ControlReply, SessionInv, ControlComes, Waits, Calling
<1>7. VtFollows'
  <2> SUFFICES ASSUME OpensActive, stops = 0, calls = 0
               PROVE  VtFollows'
    BY DEF ControlReply, serviceVars, logindVars, handlerVars, boundVars, VtFollows
  <2>1. inbox[1].type \notin {"Unregistered", "Failed"}
    BY <1>i, <1>w DEF SessionInv, FirstService
  <2>2. ~Calling("SwitchTo")'
    BY <1>c DEF SessionInv, VtFollows
  <2>3. vtOpen' => vtActive' = sessionActive'
    BY <1>i, <2>1, VtOrderKept DEF ControlReply, serviceVars, logindVars, handlerVars, boundVars, SessionInv, VtFollows, SessionTypeOK
  <2>4. ~vtOpen' => /\ active'
                    /\ \A i \in DOMAIN inbox' : inbox'[i].type = "Active" => inbox'[i].value
    BY <1>i, <2>1 DEF ControlReply, serviceVars, logindVars, handlerVars, boundVars, SessionInv, VtFollows, IsTail
  <2>5. ASSUME ~vtOpen', ~sessionActive'
        PROVE  /\ ~vtKnown'
               /\ \A i \in DOMAIN inbox' : inbox'[i].type = "Vt" =>
                    \E j \in DOMAIN inbox' : j < i /\ inbox'[j].type = "Active"
               /\ \A i \in DOMAIN requests' : requests'[i] = "GetVt" =>
                    \/ Waits("Active")'
                    \/ \E j \in DOMAIN requests' : j < i /\ requests'[j] = "GetActive"
    <3>1. ~vtOpen /\ ~sessionActive /\ inbox[1].type # "Active"
      BY <1>i, <2>5 DEF ControlReply, serviceVars, logindVars, handlerVars, boundVars, SessionInv, VtFollows, SessionTypeOK
    <3>2. /\ inbox[1].type # "Vt"
          /\ \A i \in DOMAIN inbox' : inbox'[i].type = "Vt" =>
               \E j \in DOMAIN inbox' : j < i /\ inbox'[j].type = "Active"
      BY <1>i, <3>1, VtOrderKept DEF SessionInv, VtFollows
    <3>3. Waits("Active") => Waits("Active")'
      BY <1>w, <3>1
    <3> QED  BY <1>i, <1>r, <3>1, <3>2, <3>3 DEF ControlReply, serviceVars, logindVars, handlerVars, boundVars, SessionInv, VtFollows
  <2> QED  BY <2>2, <2>3, <2>4, <2>5 DEF VtFollows
<1> QED  BY <1>1, <1>2, <1>3, <1>4, <1>5, <1>6, <1>7 DEF SessionInv

LEMMA FailedReplyInv ==
  ASSUME SessionInv, FailedReply
  PROVE  SessionInv'
<1>i. /\ inbox' \in Seq(Messages) /\ IsTail(inbox', inbox)
      /\ inbox # <<>> /\ Head(inbox) = inbox[1] /\ 1 \in DOMAIN inbox
      /\ inbox[1].type = "Failed"
  BY Received DEF FailedReply, SessionInv
<1>w. /\ \A t : Waits(t) <=> (inbox[1].type = t \/ Waits(t)')
      /\ \A i \in DOMAIN inbox' : EndFrom(i)' <=> EndFrom(i + 1)
  BY <1>i, AfterTail
<1>r. UNCHANGED requests
  BY DEF FailedReply
<1>c. \A call : Calling(call)' <=> Calling(call)
  BY <1>r DEF Calling
<1>1. SessionTypeOK'
  BY <1>i, <1>w, <1>r, <1>c, CountsAssumption DEF FailedReply, serviceVars, logindVars, handlerVars, boundVars, SessionInv, SessionTypeOK
<1>2. DownKnown'
  BY <1>i, <1>w, DownKept DEF FailedReply, serviceVars, logindVars, handlerVars, boundVars, SessionInv, DownKnown
<1>3. Connecting'
  BY <1>i, <1>w, <1>c, ConnectingKept DEF FailedReply, serviceVars, logindVars, handlerVars, boundVars, SessionInv, Connecting
<1>4. KnownSoon'
  <2> SUFFICES ASSUME up, isConnected, ~Waits("Unregistered")
               PROVE  ActiveComes' /\ VtComes'
    BY <1>w, <1>i DEF FailedReply, serviceVars, logindVars, handlerVars, boundVars, KnownSoon
  <2>1. ActiveComes /\ VtComes
    BY DEF SessionInv, KnownSoon
  <2>2. ActiveComes'
    BY <1>i, <1>c, <2>1, ActiveKept DEF FailedReply, serviceVars, logindVars, handlerVars, boundVars, SessionInv, SessionTypeOK
  <2>3. VtComes'
    BY <1>i, <1>w, <1>c, <2>1 DEF FailedReply, serviceVars, logindVars, handlerVars, boundVars, VtComes
  <2> QED  BY <2>2, <2>3
<1>5. FirstService'
  BY <1>i, <1>w, <1>c DEF FailedReply, serviceVars, logindVars, handlerVars, boundVars, SessionInv, FirstService
<1>6. ControlComes'
  BY <1>i, <1>w, <1>r, <1>c DEF FailedReply, serviceVars, logindVars, handlerVars, boundVars, SessionInv, SessionTypeOK, ControlComes, FirstService, IsAppended, IsTail, Registered, PropertiesChanged, Msg, Failed
<1>7. VtFollows'
  <2> SUFFICES ASSUME OpensActive, stops = 0, calls = 0
               PROVE  VtFollows'
    BY DEF FailedReply, serviceVars, logindVars, handlerVars, boundVars, VtFollows
  <2>1. inbox[1].type \notin {"Unregistered", "Failed"}
    BY <1>i, <1>w DEF SessionInv, FirstService
  <2>2. ~Calling("SwitchTo")'
    BY <1>c DEF SessionInv, VtFollows
  <2>3. vtOpen' => vtActive' = sessionActive'
    BY <1>i, <2>1, VtOrderKept DEF FailedReply, serviceVars, logindVars, handlerVars, boundVars, SessionInv, VtFollows, SessionTypeOK
  <2>4. ~vtOpen' => /\ active'
                    /\ \A i \in DOMAIN inbox' : inbox'[i].type = "Active" => inbox'[i].value
    BY <1>i, <2>1 DEF FailedReply, serviceVars, logindVars, handlerVars, boundVars, SessionInv, VtFollows, IsTail
  <2>5. ASSUME ~vtOpen', ~sessionActive'
        PROVE  /\ ~vtKnown'
               /\ \A i \in DOMAIN inbox' : inbox'[i].type = "Vt" =>
                    \E j \in DOMAIN inbox' : j < i /\ inbox'[j].type = "Active"
               /\ \A i \in DOMAIN requests' : requests'[i] = "GetVt" =>
                    \/ Waits("Active")'
                    \/ \E j \in DOMAIN requests' : j < i /\ requests'[j] = "GetActive"
    <3>1. ~vtOpen /\ ~sessionActive /\ inbox[1].type # "Active"
      BY <1>i, <2>5 DEF FailedReply, serviceVars, logindVars, handlerVars, boundVars, SessionInv, VtFollows, SessionTypeOK
    <3>2. /\ inbox[1].type # "Vt"
          /\ \A i \in DOMAIN inbox' : inbox'[i].type = "Vt" =>
               \E j \in DOMAIN inbox' : j < i /\ inbox'[j].type = "Active"
      BY <1>i, <3>1, VtOrderKept DEF SessionInv, VtFollows
    <3>3. Waits("Active") => Waits("Active")'
      BY <1>w, <3>1
    <3> QED  BY <1>i, <1>r, <3>1, <3>2, <3>3 DEF FailedReply, serviceVars, logindVars, handlerVars, boundVars, SessionInv, VtFollows
  <2> QED  BY <2>2, <2>3, <2>4, <2>5 DEF VtFollows
<1> QED  BY <1>1, <1>2, <1>3, <1>4, <1>5, <1>6, <1>7 DEF SessionInv

LEMMA CallReleaseControlInv ==
  ASSUME SessionInv, CallReleaseControl
  PROVE  SessionInv'
<1>i. UNCHANGED inbox
  BY DEF CallReleaseControl
<1>w. \A t : (Waits(t)' <=> Waits(t)) /\ (EndFrom(t)' <=> EndFrom(t))
  BY <1>i DEF Waits, EndFrom
<1>r. requests' \in Seq(Methods) /\ IsAppended(requests', requests, "ReleaseControl")
  BY Appended DEF CallReleaseControl, SessionInv, SessionTypeOK, Methods
<1>c. \A call : Calling(call)' <=> ("ReleaseControl" = call \/ Calling(call))
  BY <1>r, AfterCall
<1>1. SessionTypeOK'
  <2>1. calls' \in 0..MaxCalls
    BY CountsAssumption DEF CallReleaseControl, SessionInv, SessionTypeOK
  <2> QED  BY <1>i, <1>r, <2>1 DEF CallReleaseControl, serviceVars, logindVars, handlerVars, SessionInv, SessionTypeOK
<1>2. DownKnown'
  BY <1>i, <1>w, <1>r, <1>c DEF CallReleaseControl, serviceVars, logindVars, handlerVars, boundVars, SessionInv, SessionTypeOK, DownKnown, IsAppended, IsTail, Registered, PropertiesChanged, Msg, Failed
<1>3. Connecting'
  BY <1>i, <1>w, <1>r, <1>c DEF CallReleaseControl, serviceVars, logindVars, handlerVars, boundVars, SessionInv, SessionTypeOK, Connecting, IsAppended, IsTail, Registered, PropertiesChanged, Msg, Failed
<1>4. KnownSoon'
  BY <1>i, <1>w, <1>r, <1>c DEF CallReleaseControl, serviceVars, logindVars, handlerVars, boundVars, SessionInv, SessionTypeOK, KnownSoon, ActiveComes, VtComes, IsAppended, IsTail, Registered, PropertiesChanged, Msg, Failed
<1>5. FirstService'
  BY <1>i, <1>w, <1>c DEF CallReleaseControl, SessionInv, DownKnown, FirstService, serviceVars, handlerVars
<1>6. ControlComes'
  <2> SUFFICES ASSUME stops = 0, OneTake
               PROVE  ControlComes'
    BY DEF CallReleaseControl, ControlComes
  <2>1. /\ ~Waits("Control")' /\ ~hasSessionControl'
        /\ ~Calling("TakeControl")' /\ Calling("ReleaseControl")'
    BY <1>w, <1>c DEF CallReleaseControl, SessionInv, ControlComes
  <2>2. \A i \in DOMAIN requests' : requests'[i] # "TakeControl"
    BY <2>1 DEF Calling
  <2> QED  BY <1>i, <2>1, <2>2 DEF ControlComes, Waits
<1>7. VtFollows'
  BY DEF CallReleaseControl, SessionInv, SessionTypeOK, VtFollows
<1> QED  BY <1>1, <1>2, <1>3, <1>4, <1>5, <1>6, <1>7 DEF SessionInv

LEMMA CallActivateInv ==
  ASSUME SessionInv, CallActivate
  PROVE  SessionInv'
<1>i. UNCHANGED inbox
  BY DEF CallActivate
<1>w. \A t : (Waits(t)' <=> Waits(t)) /\ (EndFrom(t)' <=> EndFrom(t))
  BY <1>i DEF Waits, EndFrom
<1>r. requests' \in Seq(Methods) /\ IsAppended(requests', requests, "SwitchTo")
  BY Appended DEF CallActivate, SessionInv, SessionTypeOK, Methods
<1>c. \A call : Calling(call)' <=> ("SwitchTo" = call \/ Calling(call))
  BY <1>r, AfterCall
<1>1. SessionTypeOK'
  <2>1. calls' \in 0..MaxCalls
    BY CountsAssumption DEF CallActivate, SessionInv, SessionTypeOK
  <2> QED  BY <1>i, <1>r, <2>1 DEF CallActivate, serviceVars, logindVars, handlerVars, SessionInv, SessionTypeOK
<1>2. DownKnown'
  BY <1>i, <1>w, <1>r, <1>c DEF CallActivate, serviceVars, logindVars, handlerVars, boundVars, SessionInv, SessionTypeOK, DownKnown, IsAppended, IsTail, Registered, PropertiesChanged, Msg, Failed
<1>3. Connecting'
  BY <1>i, <1>w, <1>r, <1>c DEF CallActivate, serviceVars, logindVars, handlerVars, boundVars, SessionInv, SessionTypeOK, Connecting, IsAppended, IsTail, Registered, PropertiesChanged, Msg, Failed
<1>4. KnownSoon'
  BY <1>i, <1>w, <1>r, <1>c DEF CallActivate, serviceVars, logindVars, handlerVars, boundVars, SessionInv, SessionTypeOK, KnownSoon, ActiveComes, VtComes, IsAppended, IsTail, Registered, PropertiesChanged, Msg, Failed
<1>5. FirstService'
  BY <1>i, <1>w, <1>c DEF CallActivate, SessionInv, FirstService, serviceVars, logindVars
<1>6. ControlComes'
  BY <1>i, <1>w, <1>r, <1>c DEF CallActivate, serviceVars, logindVars, handlerVars, boundVars, SessionInv, SessionTypeOK, ControlComes, FirstService, IsAppended, IsTail, Registered, PropertiesChanged, Msg, Failed
<1>7. VtFollows'
  BY DEF CallActivate, SessionInv, SessionTypeOK, VtFollows
<1> QED  BY <1>1, <1>2, <1>3, <1>4, <1>5, <1>6, <1>7 DEF SessionInv

-----------------------------------------------------------------------------
(* Several calls at once, and the service's answers                         *)

IsJoined(new, old, t) ==
  /\ Len(old) \in Nat /\ Len(t) \in Nat /\ Len(new) = Len(old) + Len(t)
  /\ DOMAIN old = 1..Len(old) /\ DOMAIN new = 1..Len(new) /\ DOMAIN t = 1..Len(t)
  /\ \A i \in DOMAIN old : new[i] = old[i]
  /\ \A i \in DOMAIN t : new[Len(old) + i] = t[i]

LEMMA Joined ==
  ASSUME NEW S, NEW old \in Seq(S), NEW t \in Seq(S)
  PROVE  old \o t \in Seq(S) /\ IsJoined(old \o t, old, t)
BY DEF IsJoined

LEMMA AfterCalls ==
  ASSUME NEW t, IsJoined(requests', requests, t)
  PROVE  \A call : Calling(call)' <=> (Calling(call) \/ \E i \in DOMAIN t : t[i] = call)
<1> SUFFICES ASSUME NEW call
             PROVE  Calling(call)' <=> (Calling(call) \/ \E i \in DOMAIN t : t[i] = call)
  OBVIOUS
<1>1. ASSUME NEW i \in DOMAIN requests', requests'[i] = call, i \notin DOMAIN requests
      PROVE  \E k \in DOMAIN t : t[k] = call
  <2>1. i - Len(requests) \in DOMAIN t /\ Len(requests) + (i - Len(requests)) = i
    BY <1>1 DEF IsJoined
  <2>2. t[i - Len(requests)] = requests'[Len(requests) + (i - Len(requests))]
    BY <2>1 DEF IsJoined
  <2> QED  BY <1>1, <2>1, <2>2
<1>2. ASSUME Calling(call)' PROVE Calling(call) \/ \E i \in DOMAIN t : t[i] = call
  BY <1>1, <1>2 DEF Calling, IsJoined
<1>3. ASSUME Calling(call) PROVE Calling(call)'
  BY <1>3 DEF Calling, IsJoined
<1>4. ASSUME NEW i \in DOMAIN t, t[i] = call PROVE Calling(call)'
  <2>1. Len(requests) + i \in DOMAIN requests' /\ requests'[Len(requests) + i] = call
    BY <1>4 DEF IsJoined
  <2> QED  BY <2>1 DEF Calling
<1> QED  BY <1>2, <1>3, <1>4

\* takeControl() calls at most once.
LEMMA ControlTaken ==
  ASSUME SessionTypeOK, NEW connected \in BOOLEAN, NEW control \in BOOLEAN,
         requests' = requests \o TakeControl(connected, control)
  PROVE  /\ requests' \in Seq(Methods)
         /\ \/ connected /\ ~control /\ IsAppended(requests', requests, "TakeControl")
            \/ requests' = requests
<1>1. CASE connected /\ ~control
  <2>1. requests' = Append(requests, "TakeControl")
    BY <1>1 DEF TakeControl, SessionTypeOK
  <2>2. "TakeControl" \in Methods
    BY DEF Methods
  <2> QED  BY <1>1, <2>1, <2>2, Appended DEF SessionTypeOK
<1>2. CASE ~(connected /\ ~control)
  BY <1>2 DEF TakeControl, SessionTypeOK
<1> QED  BY <1>1, <1>2

\* The last TakeControl decides.
LEMMA LastTakeControl ==
  ASSUME IsAppended(requests', requests, "TakeControl"), ~Calling("TakeControl")
  PROVE  \A i, j \in DOMAIN requests' :
           requests'[i] = "TakeControl" /\ requests'[j] \in {"TakeControl", "ReleaseControl"}
             => j <= i
<1>1. ASSUME NEW i \in DOMAIN requests', requests'[i] = "TakeControl"
      PROVE  i = Len(requests) + 1
  BY <1>1 DEF IsAppended, Calling
<1> QED  BY <1>1 DEF IsAppended

LEMMA NotTaking ==
  ASSUME SessionTypeOK, ~Taking
  PROVE  ~Calling("TakeControl") /\ ~Waits("Control")
BY DEF Taking, Calling, Waits, Contains, SessionTypeOK

LEMMA CallTakeControlInv ==
  ASSUME SessionInv, CallTakeControl
  PROVE  SessionInv'
<1>i. UNCHANGED inbox
  BY DEF CallTakeControl
<1>w. \A t : (Waits(t)' <=> Waits(t)) /\ (EndFrom(t)' <=> EndFrom(t))
  BY <1>i DEF Waits, EndFrom
<1>r. /\ requests' \in Seq(Methods)
      /\ \/ /\ isConnected /\ ~hasSessionControl
            /\ IsAppended(requests', requests, "TakeControl")
         \/ requests' = requests
  BY ControlTaken DEF CallTakeControl, SessionInv, SessionTypeOK
<1>c. \A call : \/ Calling(call)' <=> Calling(call)
                \/ call = "TakeControl" /\ isConnected /\ ~hasSessionControl /\ Calling(call)'
  BY <1>r, AfterCall DEF Calling
<1>1. SessionTypeOK'
  <2>1. calls' \in 0..MaxCalls
    BY CountsAssumption DEF CallTakeControl, SessionInv, SessionTypeOK
  <2> QED  BY <1>i, <1>r, <2>1 DEF CallTakeControl, serviceVars, logindVars, handlerVars, SessionInv, SessionTypeOK
<1>2. DownKnown'
  BY <1>i, <1>w DEF CallTakeControl, serviceVars, logindVars, SessionInv, DownKnown
<1>3. Connecting'
  BY <1>i, <1>w, <1>c DEF CallTakeControl, serviceVars, logindVars, SessionInv, Connecting
<1>4. KnownSoon'
  BY <1>i, <1>w, <1>c DEF CallTakeControl, serviceVars, logindVars, SessionInv, KnownSoon, ActiveComes, VtComes
<1>5. FirstService'
  BY <1>i, <1>r, <1>w, <1>c DEF CallTakeControl, serviceVars, logindVars, handlerVars, SessionInv, FirstService, DownKnown
<1>6. ControlComes'
  <2> SUFFICES ASSUME stops = 0, OneTake
               PROVE  ControlComes'
    BY DEF CallTakeControl, ControlComes
  <2>1. ~Calling("TakeControl") /\ ~Waits("Control")
    BY NotTaking DEF CallTakeControl, SessionInv
  <2>2. CASE requests' = requests
    BY <1>i, <1>w, <1>c, <2>2 DEF CallTakeControl, serviceVars, logindVars, SessionInv, ControlComes, Calling
  <2>3. CASE ~hasSessionControl /\ IsAppended(requests', requests, "TakeControl")
    BY <1>i, <1>w, <1>c, <2>1, <2>3, LastTakeControl
    DEF CallTakeControl, serviceVars, logindVars, SessionInv, ControlComes, Waits
  <2> QED  BY <1>r, <2>2, <2>3
<1>7. VtFollows'
  BY DEF CallTakeControl, SessionInv, SessionTypeOK, VtFollows
<1> QED  BY <1>1, <1>2, <1>3, <1>4, <1>5, <1>6, <1>7 DEF SessionInv

LEMMA CreateVtHandlerInv ==
  ASSUME SessionInv, CreateVtHandler
  PROVE  SessionInv'
<1>i. UNCHANGED inbox
  BY DEF CreateVtHandler
<1>w. \A t : (Waits(t)' <=> Waits(t)) /\ (EndFrom(t)' <=> EndFrom(t))
  BY <1>i DEF Waits, EndFrom
<1>r. /\ requests' \in Seq(Methods)
      /\ \/ /\ isConnected /\ ~hasSessionControl
            /\ IsAppended(requests', requests, "TakeControl")
         \/ requests' = requests
  BY ControlTaken DEF CreateVtHandler, SessionInv, SessionTypeOK
<1>c. \A call : \/ Calling(call)' <=> Calling(call)
                \/ call = "TakeControl" /\ isConnected /\ ~hasSessionControl /\ Calling(call)'
  BY <1>r, AfterCall DEF Calling
<1>v. /\ ~vtOpen /\ ~vtActive
      /\ \/ vtKnown /\ vtOpen' = TRUE /\ vtActive' = TRUE
         \/ vtOpen' = vtOpen /\ vtActive' = vtActive
  BY DEF CreateVtHandler, SetupVt, SessionInv, SessionTypeOK
<1>1. SessionTypeOK'
  <2>1. vtOpen' \in BOOLEAN /\ vtActive' \in BOOLEAN
    BY <1>v DEF SessionInv, SessionTypeOK
  <2>2. handler' \in {"once", "always"}
    BY DEF CreateVtHandler
  <2> QED  BY <1>i, <1>r, <2>1, <2>2 DEF CreateVtHandler, serviceVars, logindVars, boundVars, SessionInv, SessionTypeOK
<1>2. DownKnown'
  BY <1>i, <1>w DEF CreateVtHandler, serviceVars, logindVars, SessionInv, DownKnown
<1>3. Connecting'
  BY <1>i, <1>w, <1>c DEF CreateVtHandler, serviceVars, logindVars, SessionInv, Connecting
<1>4. KnownSoon'
  BY <1>i, <1>w, <1>c DEF CreateVtHandler, serviceVars, logindVars, SessionInv, KnownSoon, ActiveComes, VtComes
<1>5. FirstService'
  <2> SUFFICES ASSUME stops = 0
               PROVE  FirstService'
    BY DEF CreateVtHandler, boundVars, FirstService
  <2>1. ~up => ~isConnected /\ ~vtKnown
    BY DEF SessionInv, FirstService, DownKnown
  <2>2. ~up => ~vtOpen'
    BY <1>v, <2>1 DEF SessionInv, FirstService
  <2> QED  BY <1>i, <1>r, <1>w, <1>c, <2>1, <2>2 DEF CreateVtHandler, serviceVars, logindVars, SessionInv, FirstService
<1>6. ControlComes'
  <2> SUFFICES ASSUME stops = 0, OneTake
               PROVE  ControlComes'
    BY DEF CreateVtHandler, boundVars, ControlComes
  <2>1. ~Calling("TakeControl") /\ ~Waits("Control")
    BY NotTaking DEF CreateVtHandler, SessionInv
  <2>2. CASE requests' = requests
    BY <1>i, <1>w, <1>c, <2>2 DEF CreateVtHandler, serviceVars, logindVars, SessionInv, ControlComes, Calling
  <2>3. CASE ~hasSessionControl /\ IsAppended(requests', requests, "TakeControl")
    BY <1>i, <1>w, <1>c, <2>1, <2>3, LastTakeControl
    DEF CreateVtHandler, serviceVars, logindVars, SessionInv, ControlComes, Waits
  <2> QED  BY <1>r, <2>2, <2>3
<1>7. VtFollows'
  <2> SUFFICES ASSUME OpensActive, stops = 0, calls = 0
               PROVE  VtFollows'
    BY DEF CreateVtHandler, boundVars, VtFollows
  <2>1. vtKnown => sessionActive = TRUE
    BY <1>v DEF SessionInv, SessionTypeOK, VtFollows
  <2>2. vtOpen' => vtActive' = sessionActive'
    BY <1>v, <2>1 DEF CreateVtHandler, logindVars
  <2>3. \A i \in DOMAIN requests' : requests'[i] = "GetVt" =>
          i \in DOMAIN requests /\ requests[i] = "GetVt"
    BY <1>r DEF IsAppended
  <2>4. \A i \in DOMAIN requests : i \in DOMAIN requests' /\ requests'[i] = requests[i]
    BY <1>r DEF IsAppended
  <2> QED  BY <1>i, <1>w, <1>c, <1>v, <2>2, <2>3, <2>4
           DEF CreateVtHandler, serviceVars, logindVars, SessionInv, VtFollows
<1> QED  BY <1>1, <1>2, <1>3, <1>4, <1>5, <1>6, <1>7 DEF SessionInv

\* The service's end: its last answers are behind the news of it.
LEMMA StopServiceInv ==
  ASSUME SessionInv, StopService
  PROVE  SessionInv'
<1> DEFINE heard == Append(inbox, Unregistered)
           failed == [i \in DOMAIN requests |-> Failed(requests[i])]
<1>1. heard \in Seq(Messages) /\ IsAppended(heard, inbox, Unregistered)
  <2>1. Unregistered \in Messages
    BY DEF Messages, Unregistered, Msg
  <2> QED  BY <2>1, Appended DEF SessionInv, SessionTypeOK
<1>2. failed \in Seq(Messages)
  <2>1. \A i \in DOMAIN requests : Failed(requests[i]) \in Messages
    BY DEF SessionInv, SessionTypeOK, Messages, Failed
  <2>2. DOMAIN requests = 1..Len(requests) /\ Len(requests) \in Nat
    BY DEF SessionInv, SessionTypeOK
  <2> QED  BY <2>1, <2>2
<1>3. inbox' = heard \o failed
  BY <1>2 DEF StopService, SessionInv, SessionTypeOK
<1> HIDE DEF heard
<1>4. inbox' \in Seq(Messages) /\ IsJoined(inbox', heard, failed)
  <2> HIDE DEF failed
  <2> QED  BY <1>1, <1>2, <1>3, Joined
<1>5. SessionTypeOK'
  <2>1. stops' \in 0..MaxStops
    BY CountsAssumption DEF StopService, SessionInv, SessionTypeOK
  <2>2. requests' \in Seq(Methods) /\ up' = FALSE /\ controller' = FALSE
    BY DEF StopService
  <2>3. inbox' \in Seq(Messages)
    BY <1>4
  <2> HIDE DEF failed
  <2> QED  BY <2>1, <2>2, <2>3 DEF StopService, logindVars, handlerVars, SessionInv, SessionTypeOK
<1>6. DownKnown'
  <2>1. PICK e \in DOMAIN heard : e = Len(heard) /\ heard[e].type = "Unregistered"
    BY <1>1 DEF IsAppended, Unregistered, Msg
  <2>2. e \in DOMAIN inbox' /\ inbox'[e].type = "Unregistered"
    BY <1>4, <2>1 DEF IsJoined
  <2>3. ASSUME NEW i \in DOMAIN inbox', ~(i <= e)
        PROVE  inbox'[i].type = "Failed"
    <3>1. i - Len(heard) \in DOMAIN failed /\ Len(heard) + (i - Len(heard)) = i
      BY <1>4, <2>1, <2>3 DEF IsJoined
    <3>2. inbox'[i] = failed[i - Len(heard)]
      <4> HIDE DEF failed
      <4> QED  BY <1>4, <3>1 DEF IsJoined
    <3> QED  BY <3>1, <3>2 DEF Failed
  <2> QED  BY <2>2, <2>3 DEF DownKnown, EndFrom, Waits
<1>7. Connecting' /\ KnownSoon'
  BY DEF StopService, Connecting, KnownSoon
<1>8. FirstService' /\ ControlComes' /\ VtFollows'
  BY DEF StopService, SessionInv, SessionTypeOK, FirstService, ControlComes, VtFollows
<1> QED  BY <1>5, <1>6, <1>7, <1>8 DEF SessionInv

\* What appending a message other than a reply to GetActive leaves on the way.
LEMMA ActiveKeptBehind ==
  ASSUME NEW m, IsAppended(inbox', inbox, m), m.type # "Active", ActiveComes,
         UNCHANGED <<active, sessionActive>>,
         Calling("GetActive") => Calling("GetActive")'
  PROVE  ActiveComes'
<1>1. CASE Calling("GetActive") \/ Waits("PropertiesChanged")
  BY <1>1, AfterAppend DEF ActiveComes
<1>2. CASE \E i \in DOMAIN inbox :
             /\ inbox[i] = Msg("Active", active)
             /\ \A j \in DOMAIN inbox : i < j => inbox[j].type # "Active"
  BY <1>2 DEF ActiveComes, IsAppended
<1>3. CASE ~Waits("Active") /\ sessionActive = active
  BY <1>3, AfterAppend DEF ActiveComes
<1> QED  BY <1>1, <1>2, <1>3 DEF ActiveComes

\* The replies keep the order of the calls, also when the first is answered
\* with m.
LEMMA VtOrderServed ==
  ASSUME IsTail(requests', requests),
         \/ UNCHANGED inbox /\ requests[1] \notin {"GetActive", "GetVt"}
         \/ \E m : /\ IsAppended(inbox', inbox, m)
                   /\ requests[1] = "GetActive" <=> m.type = "Active"
                   /\ requests[1] = "GetVt" <=> m.type = "Vt",
         \A i \in DOMAIN inbox : inbox[i].type = "Vt" =>
           \E j \in DOMAIN inbox : j < i /\ inbox[j].type = "Active",
         \A i \in DOMAIN requests : requests[i] = "GetVt" =>
           \/ Waits("Active")
           \/ \E j \in DOMAIN requests : j < i /\ requests[j] = "GetActive"
  PROVE  /\ \A i \in DOMAIN inbox' : inbox'[i].type = "Vt" =>
              \E j \in DOMAIN inbox' : j < i /\ inbox'[j].type = "Active"
         /\ \A i \in DOMAIN requests' : requests'[i] = "GetVt" =>
              \/ Waits("Active")'
              \/ \E j \in DOMAIN requests' : j < i /\ requests'[j] = "GetActive"
<1>1. Waits("Active") \/ requests[1] = "GetActive" => Waits("Active")'
  BY AfterAppend DEF Waits
<1>2. ASSUME NEW i \in DOMAIN inbox', inbox'[i].type = "Vt"
      PROVE  \E j \in DOMAIN inbox' : j < i /\ inbox'[j].type = "Active"
  <2>1. CASE i \in DOMAIN inbox
    BY <1>2, <2>1 DEF IsAppended
  <2>2. CASE i \notin DOMAIN inbox
    <3>1. requests[1] = "GetVt" /\ 1 \in DOMAIN requests
      BY <1>2, <2>2 DEF IsAppended, IsTail
    <3>2. Waits("Active")
      BY <3>1 DEF IsTail
    <3>3. PICK j \in DOMAIN inbox : inbox[j].type = "Active"
      BY <3>2 DEF Waits
    <3> QED  BY <1>2, <2>2, <3>3 DEF IsAppended
  <2> QED  BY <2>1, <2>2
<1>3. ASSUME NEW i \in DOMAIN requests', requests'[i] = "GetVt", ~Waits("Active")'
      PROVE  \E j \in DOMAIN requests' : j < i /\ requests'[j] = "GetActive"
  <2>1. i + 1 \in DOMAIN requests /\ requests[i + 1] = "GetVt"
    BY <1>3 DEF IsTail
  <2>2. PICK j \in DOMAIN requests : j < i + 1 /\ requests[j] = "GetActive"
    BY <1>1, <1>3, <2>1
  <2>3. j # 1
    BY <1>1, <1>3, <2>2
  <2> QED  BY <1>3, <2>2, <2>3 DEF IsTail
<1> QED  BY <1>2, <1>3

\* The first call is answered.
Answered(call) ==
  /\ up /\ requests # <<>> /\ Head(requests) = call /\ requests' = Tail(requests)
  /\ UNCHANGED <<up, logindVars, handlerVars, boundVars>>

\* GetSession, GetActive and GetVt change nothing of the service.
LEMMA QueryInv ==
  ASSUME SessionInv, NEW call \in {"GetSession", "GetActive", "GetVt"}, Answered(call),
         NEW m, UNCHANGED <<active, controller>>, inbox' = Append(inbox, m),
         \/ call = "GetSession" /\ m = Msg("Session", TRUE)
         \/ call = "GetActive" /\ m = Msg("Active", active)
         \/ call = "GetVt" /\ m = Msg("Vt", TRUE)
  PROVE  SessionInv'
<1>r. /\ requests' \in Seq(Methods) /\ IsTail(requests', requests)
      /\ requests[1] = call /\ 1 \in DOMAIN requests
  BY TailTaken DEF Answered, SessionInv, SessionTypeOK
<1>c. \A any : Calling(any) <=> (call = any \/ Calling(any)')
  BY <1>r, AfterServed
<1>m. /\ m \in Messages /\ m.type \in {"Session", "Active", "Vt"}
      /\ m.type = "Session" <=> call = "GetSession"
      /\ m.type = "Active" <=> call = "GetActive"
      /\ m.type = "Vt" <=> call = "GetVt"
      /\ m.type = "Active" => m = Msg("Active", active) /\ m.value = active
  <2>1. active \in BOOLEAN
    BY DEF SessionInv, SessionTypeOK
  <2>2. CASE call = "GetSession" /\ m = Msg("Session", TRUE)
    BY <2>2 DEF Msg, Messages
  <2>3. CASE call = "GetActive" /\ m = Msg("Active", active)
    BY <2>1, <2>3 DEF Msg, Messages
  <2>4. CASE call = "GetVt" /\ m = Msg("Vt", TRUE)
    BY <2>4 DEF Msg, Messages
  <2> QED  BY <2>2, <2>3, <2>4
<1>i. inbox' \in Seq(Messages) /\ IsAppended(inbox', inbox, m)
  BY <1>m, Appended DEF SessionInv, SessionTypeOK
<1>w. /\ \A t : Waits(t)' <=> (m.type = t \/ Waits(t))
      /\ \A i \in DOMAIN inbox : EndFrom(i)' <=> EndFrom(i)
  BY <1>i, <1>m, AfterAppend
<1>1. SessionTypeOK'
  BY <1>i, <1>r DEF Answered, logindVars, handlerVars, boundVars, SessionInv, SessionTypeOK
<1>2. DownKnown'
  BY DEF Answered, DownKnown
<1>3. Connecting'
  <2>1. CASE call = "GetSession"
    <3>1. PICK n \in DOMAIN inbox' : n = Len(inbox') /\ inbox'[n] = m
      BY <1>i DEF IsAppended
    <3>2. ~EndFrom(n)'
      BY <1>i, <1>m, <3>1 DEF IsAppended, EndFrom
    <3> QED  BY <1>m, <2>1, <3>1, <3>2 DEF Connecting
  <2>2. CASE call # "GetSession"
    <3>1. \A i \in DOMAIN inbox : i \in DOMAIN inbox' /\ inbox'[i] = inbox[i]
      BY <1>i DEF IsAppended
    <3> QED  BY <1>c, <1>w, <1>m, <2>2, <3>1 DEF Answered, logindVars, SessionInv, Connecting
  <2> QED  BY <2>1, <2>2
<1>4. KnownSoon'
  <2> SUFFICES ASSUME isConnected, ~Waits("Unregistered")
               PROVE  ActiveComes' /\ VtComes'
    BY <1>w DEF Answered, logindVars, KnownSoon
  <2>1. ActiveComes /\ VtComes
    BY DEF Answered, SessionInv, KnownSoon
  <2>2. VtComes'
    BY <1>m, <1>w, <1>c, <2>1 DEF Answered, logindVars, VtComes
  <2>3. CASE call = "GetActive"
    <3>1. PICK n \in DOMAIN inbox' : n = Len(inbox') /\ inbox'[n] = m
      BY <1>i DEF IsAppended
    <3>2. inbox'[n] = Msg("Active", active')
      BY <1>m, <2>3, <3>1
    <3>3. \A j \in DOMAIN inbox' : n < j => inbox'[j].type # "Active"
      BY <1>i, <3>1 DEF IsAppended
    <3> QED  BY <2>2, <3>2, <3>3 DEF ActiveComes
  <2>4. CASE call # "GetActive"
    <3>1. Calling("GetActive") => Calling("GetActive")'
      BY <1>c, <2>4
    <3>2. ActiveComes'
      BY <1>i, <1>m, <2>1, <2>4, <3>1, ActiveKeptBehind DEF Answered, logindVars
    <3> QED  BY <2>2, <3>2
  <2> QED  BY <2>3, <2>4
<1>5. FirstService'
  BY <1>m, <1>w, <1>c DEF Answered, logindVars, handlerVars, boundVars, SessionInv, FirstService
<1>6. ControlComes'
  <2> SUFFICES ASSUME stops = 0, OneTake
               PROVE  ControlComes'
    BY DEF Answered, boundVars, ControlComes
  <2>1. \A i \in DOMAIN inbox' : inbox'[i].type = "Control" =>
          i \in DOMAIN inbox /\ inbox[i].type = "Control"
    BY <1>i, <1>m DEF IsAppended
  <2>2. \A i \in DOMAIN requests' :
          i \in Int /\ i + 1 \in DOMAIN requests /\ requests'[i] = requests[i + 1]
    BY <1>r DEF IsTail
  <2>3. \A i, j \in DOMAIN requests' :
          requests'[i] = "TakeControl" /\ requests'[j] \in {"TakeControl", "ReleaseControl"}
            => j <= i
    <3> TAKE i, j \in DOMAIN requests'
    <3> HAVE requests'[i] = "TakeControl" /\ requests'[j] \in {"TakeControl", "ReleaseControl"}
    <3>1. j + 1 <= i + 1
      BY <2>2 DEF SessionInv, ControlComes
    <3> QED  BY <2>2, <3>1
  <2> QED  BY <1>m, <1>w, <1>c, <2>1, <2>3 DEF Answered, logindVars, SessionInv, ControlComes
<1>7. VtFollows'
  <2> SUFFICES ASSUME OpensActive, stops = 0, calls = 0
               PROVE  VtFollows'
    BY DEF Answered, boundVars, VtFollows
  <2>1. ~vtOpen => \A i \in DOMAIN inbox' : inbox'[i].type = "Active" => inbox'[i].value
    <3> SUFFICES ASSUME ~vtOpen, NEW i \in DOMAIN inbox', inbox'[i].type = "Active"
                 PROVE  inbox'[i].value
      OBVIOUS
    <3>1. active /\ \A k \in DOMAIN inbox : inbox[k].type = "Active" => inbox[k].value
      BY DEF SessionInv, VtFollows
    <3>2. CASE i \in DOMAIN inbox
      BY <1>i, <3>1, <3>2 DEF IsAppended
    <3>3. CASE inbox'[i] = m
      BY <1>m, <3>1, <3>3
    <3> QED  BY <1>i, <3>2, <3>3 DEF IsAppended
  <2>2. ~vtOpen /\ ~sessionActive =>
          /\ \A i \in DOMAIN inbox' : inbox'[i].type = "Vt" =>
               \E j \in DOMAIN inbox' : j < i /\ inbox'[j].type = "Active"
          /\ \A i \in DOMAIN requests' : requests'[i] = "GetVt" =>
               \/ Waits("Active")'
               \/ \E j \in DOMAIN requests' : j < i /\ requests'[j] = "GetActive"
    BY <1>i, <1>m, <1>r, VtOrderServed DEF SessionInv, VtFollows
  <2> QED  BY <1>c, <2>1, <2>2 DEF Answered, logindVars, handlerVars, SessionInv, VtFollows
<1> QED  BY <1>1, <1>2, <1>3, <1>4, <1>5, <1>6, <1>7 DEF SessionInv

\* What the answers to the other calls have in common.
LEMMA OrderServed ==
  ASSUME SessionInv, NEW call \in {"TakeControl", "ReleaseControl", "SwitchTo"},
         Answered(call), inbox' \in Seq(Messages),
         \/ UNCHANGED inbox
         \/ \E m : IsAppended(inbox', inbox, m) /\ m.type \in {"Control", "PropertiesChanged"},
         active' \in BOOLEAN, controller' \in BOOLEAN,
         \/ active' = active
         \/ call = "SwitchTo" /\ Waits("PropertiesChanged")'
  PROVE  SessionTypeOK' /\ DownKnown' /\ Connecting' /\ KnownSoon' /\ VtFollows'
<1>r. /\ requests' \in Seq(Methods) /\ IsTail(requests', requests)
      /\ requests[1] = call /\ 1 \in DOMAIN requests
  BY TailTaken DEF Answered, SessionInv, SessionTypeOK
<1>c. \A any : Calling(any) <=> (call = any \/ Calling(any)')
  BY <1>r, AfterServed
<1>w. /\ \A t : t \notin {"Control", "PropertiesChanged"} => (Waits(t)' <=> Waits(t))
      /\ \A i \in DOMAIN inbox : EndFrom(i)' <=> EndFrom(i)
  <2>1. CASE UNCHANGED inbox
    BY <2>1 DEF Waits, EndFrom
  <2>2. ASSUME NEW m, IsAppended(inbox', inbox, m), m.type \in {"Control", "PropertiesChanged"}
        PROVE  /\ \A t : t \notin {"Control", "PropertiesChanged"} => (Waits(t)' <=> Waits(t))
               /\ \A i \in DOMAIN inbox : EndFrom(i)' <=> EndFrom(i)
    BY <2>2, AfterAppend
  <2> QED  BY <2>1, <2>2
<1>1. SessionTypeOK'
  BY <1>r DEF Answered, logindVars, handlerVars, boundVars, SessionInv, SessionTypeOK
<1>2. DownKnown'
  BY DEF Answered, DownKnown
<1>3. Connecting'
  <2>1. \A i \in DOMAIN inbox : i \in DOMAIN inbox' /\ inbox'[i] = inbox[i]
    BY DEF IsAppended
  <2> QED  BY <1>c, <1>w, <2>1 DEF Answered, logindVars, SessionInv, Connecting
<1>4. KnownSoon'
  <2> SUFFICES ASSUME isConnected, ~Waits("Unregistered")
               PROVE  ActiveComes' /\ VtComes'
    BY <1>w DEF Answered, logindVars, KnownSoon
  <2>1. ActiveComes /\ VtComes
    BY DEF Answered, SessionInv, KnownSoon
  <2>2. VtComes'
    BY <1>w, <1>c, <2>1 DEF Answered, logindVars, VtComes
  <2>3. Calling("GetActive") => Calling("GetActive")'
    BY <1>c
  <2>4. UNCHANGED sessionActive
    BY DEF Answered, logindVars
  <2>5. CASE active' = active /\ UNCHANGED inbox
    <3>1. ActiveComes'
      BY <2>1, <2>3, <2>4, <2>5 DEF ActiveComes, Waits
    <3> QED  BY <2>2, <3>1
  <2>6. ASSUME active' = active, NEW m, IsAppended(inbox', inbox, m), m.type # "Active"
        PROVE  ActiveComes'
    BY <2>1, <2>3, <2>4, <2>6, ActiveKeptBehind
  <2>7. CASE Waits("PropertiesChanged")'
    BY <2>2, <2>7 DEF ActiveComes
  <2> QED  BY <2>2, <2>5, <2>6, <2>7
<1>5. VtFollows'
  <2> SUFFICES ASSUME OpensActive, stops = 0, calls = 0
               PROVE  VtFollows'
    BY DEF Answered, boundVars, VtFollows
  <2>1. active' = active
    BY <1>c DEF SessionInv, VtFollows
  <2>2. ~vtOpen => \A i \in DOMAIN inbox' : inbox'[i].type = "Active" => inbox'[i].value
    BY DEF SessionInv, VtFollows, IsAppended
  <2>3. ~vtOpen /\ ~sessionActive =>
          /\ \A i \in DOMAIN inbox' : inbox'[i].type = "Vt" =>
               \E j \in DOMAIN inbox' : j < i /\ inbox'[j].type = "Active"
          /\ \A i \in DOMAIN requests' : requests'[i] = "GetVt" =>
               \/ Waits("Active")'
               \/ \E j \in DOMAIN requests' : j < i /\ requests'[j] = "GetActive"
    BY <1>r, VtOrderServed DEF SessionInv, VtFollows
  <2> QED  BY <1>c, <2>1, <2>2, <2>3 DEF Answered, logindVars, handlerVars, SessionInv, VtFollows
<1> QED  BY <1>1, <1>2, <1>3, <1>4, <1>5

LEMMA ControlGivenInv ==
  ASSUME SessionInv, Answered("TakeControl"), controller' = TRUE, UNCHANGED active,
         inbox' = Append(inbox, Msg("Control", TRUE))
  PROVE  SessionInv'
<1>r. /\ IsTail(requests', requests)
      /\ requests[1] = "TakeControl" /\ 1 \in DOMAIN requests
  BY TailTaken DEF Answered, SessionInv, SessionTypeOK
<1>c. \A any : Calling(any) <=> ("TakeControl" = any \/ Calling(any)')
  BY <1>r, AfterServed
<1>i. inbox' \in Seq(Messages) /\ IsAppended(inbox', inbox, Msg("Control", TRUE))
  <2>1. Msg("Control", TRUE) \in Messages
    BY DEF Messages, Msg
  <2> QED  BY <2>1, Appended DEF SessionInv, SessionTypeOK
<1>w. \A t : Waits(t)' <=> (t = "Control" \/ Waits(t))
  BY <1>i, AfterAppend DEF Msg
<1>1. SessionTypeOK' /\ DownKnown' /\ Connecting' /\ KnownSoon' /\ VtFollows'
  <2>1. active' \in BOOLEAN /\ controller' \in BOOLEAN /\ active' = active
    BY DEF SessionInv, SessionTypeOK
  <2>2. Msg("Control", TRUE).type = "Control"
    BY DEF Msg
  <2> QED  BY <1>i, <2>1, <2>2, OrderServed
<1>2. FirstService'
  BY <1>w, <1>c DEF Answered, logindVars, handlerVars, boundVars, SessionInv, FirstService
<1>3. ControlComes'
  <2> SUFFICES ASSUME stops = 0, OneTake
               PROVE  ControlComes'
    BY DEF Answered, boundVars, ControlComes
  <2>1. ~hasSessionControl /\ ~Waits("Control")
    BY <1>c DEF SessionInv, ControlComes
  <2>2. \A i \in DOMAIN requests' : requests'[i] \notin {"TakeControl", "ReleaseControl"}
    <3> SUFFICES ASSUME NEW i \in DOMAIN requests',
                        requests'[i] \in {"TakeControl", "ReleaseControl"}
                 PROVE  FALSE
      OBVIOUS
    <3>1. i \in Int /\ 1 <= i /\ i + 1 \in DOMAIN requests /\ requests[i + 1] = requests'[i]
      BY <1>r DEF IsTail
    <3>2. i + 1 <= 1
      BY <1>r, <3>1 DEF SessionInv, ControlComes
    <3> QED  BY <3>1, <3>2
  <2>3. \A i \in DOMAIN inbox' : inbox'[i].type = "Control" => i = Len(inbox) + 1
    <3>1. \A i \in DOMAIN inbox : inbox[i].type # "Control"
      BY <2>1 DEF Waits
    <3>2. \A i \in DOMAIN inbox : inbox'[i] = inbox[i]
      BY <1>i DEF IsAppended
    <3>3. \A i \in DOMAIN inbox' : i \in DOMAIN inbox \/ i = Len(inbox) + 1
      BY <1>i DEF IsAppended
    <3> QED  BY <3>1, <3>2, <3>3
  <2>4. Waits("Control")'
    BY <1>w
  <2>5. ~Calling("TakeControl")' /\ ~Calling("ReleaseControl")'
    BY <2>2 DEF Calling
  <2>6. ~hasSessionControl'
    BY <2>1 DEF Answered, logindVars
  <2> QED  BY <2>2, <2>3, <2>4, <2>5, <2>6 DEF ControlComes
<1> QED  BY <1>1, <1>2, <1>3 DEF SessionInv

LEMMA ControlReleasedInv ==
  ASSUME SessionInv, Answered("ReleaseControl"), controller' = FALSE,
         UNCHANGED <<active, inbox>>
  PROVE  SessionInv'
<1>r. /\ IsTail(requests', requests)
      /\ requests[1] = "ReleaseControl" /\ 1 \in DOMAIN requests
  BY TailTaken DEF Answered, SessionInv, SessionTypeOK
<1>c. \A any : Calling(any) <=> ("ReleaseControl" = any \/ Calling(any)')
  BY <1>r, AfterServed
<1>w. \A t : Waits(t)' <=> Waits(t)
  BY DEF Waits
<1>1. SessionTypeOK' /\ DownKnown' /\ Connecting' /\ KnownSoon' /\ VtFollows'
  <2>1. /\ active' \in BOOLEAN /\ controller' \in BOOLEAN /\ active' = active
        /\ inbox' \in Seq(Messages) /\ UNCHANGED inbox
    BY DEF SessionInv, SessionTypeOK
  <2> QED  BY <2>1, OrderServed
<1>2. FirstService'
  BY <1>w, <1>c DEF Answered, logindVars, handlerVars, boundVars, SessionInv, FirstService
<1>3. ControlComes'
  <2> SUFFICES ASSUME stops = 0, OneTake
               PROVE  ControlComes'
    BY DEF Answered, boundVars, ControlComes
  <2>1. ~hasSessionControl' /\ ~Waits("Control")'
    BY <1>c, <1>w DEF Answered, logindVars, SessionInv, ControlComes
  <2>2. \A i, j \in DOMAIN requests' :
          requests'[i] = "TakeControl" /\ requests'[j] \in {"TakeControl", "ReleaseControl"}
            => j <= i
    <3> TAKE i, j \in DOMAIN requests'
    <3> HAVE requests'[i] = "TakeControl" /\ requests'[j] \in {"TakeControl", "ReleaseControl"}
    <3>1. /\ i \in Int /\ i + 1 \in DOMAIN requests /\ requests'[i] = requests[i + 1]
          /\ j \in Int /\ j + 1 \in DOMAIN requests /\ requests'[j] = requests[j + 1]
      BY <1>r DEF IsTail
    <3>2. j + 1 <= i + 1
      BY <3>1 DEF SessionInv, ControlComes
    <3> QED  BY <3>1, <3>2
  <2> QED  BY <2>1, <2>2 DEF ControlComes, Waits
<1> QED  BY <1>1, <1>2, <1>3 DEF SessionInv

LEMMA SwitchedInv ==
  ASSUME SessionInv, Answered("SwitchTo"), UNCHANGED controller,
         \/ active' = FALSE /\ inbox' = Append(inbox, PropertiesChanged)
         \/ UNCHANGED <<active, inbox>>
  PROVE  SessionInv'
<1>r. /\ IsTail(requests', requests)
      /\ requests[1] = "SwitchTo" /\ 1 \in DOMAIN requests
  BY TailTaken DEF Answered, SessionInv, SessionTypeOK
<1>c. \A any : Calling(any) <=> ("SwitchTo" = any \/ Calling(any)')
  BY <1>r, AfterServed
<1>i. /\ inbox' \in Seq(Messages)
      /\ \/ active' = active /\ UNCHANGED inbox
         \/ IsAppended(inbox', inbox, PropertiesChanged)
  <2>1. PropertiesChanged \in Messages
    BY DEF Messages, PropertiesChanged, Msg
  <2> QED  BY <2>1, Appended DEF SessionInv, SessionTypeOK
<1>w. /\ \A t : t # "PropertiesChanged" => (Waits(t)' <=> Waits(t))
      /\ \/ active' = active /\ UNCHANGED inbox
         \/ Waits("PropertiesChanged")'
  <2>1. PropertiesChanged.type = "PropertiesChanged"
    BY DEF PropertiesChanged, Msg
  <2>2. CASE UNCHANGED inbox /\ active' = active
    BY <2>2 DEF Waits
  <2>3. CASE IsAppended(inbox', inbox, PropertiesChanged)
    BY <2>1, <2>3, AfterAppend
  <2> QED  BY <1>i, <2>2, <2>3
<1>1. SessionTypeOK' /\ DownKnown' /\ Connecting' /\ KnownSoon' /\ VtFollows'
  <2>1. active' \in BOOLEAN /\ controller' \in BOOLEAN
    BY DEF SessionInv, SessionTypeOK
  <2>2. PropertiesChanged.type = "PropertiesChanged"
    BY DEF PropertiesChanged, Msg
  <2> QED  BY <1>i, <1>w, <2>1, <2>2, OrderServed
<1>2. FirstService'
  BY <1>w, <1>c DEF Answered, logindVars, handlerVars, boundVars, SessionInv, FirstService
<1>3. ControlComes'
  <2> SUFFICES ASSUME stops = 0, OneTake
               PROVE  ControlComes'
    BY DEF Answered, boundVars, ControlComes
  <2>1. \A i \in DOMAIN inbox' : inbox'[i].type = "Control" =>
          i \in DOMAIN inbox /\ inbox[i].type = "Control"
    BY <1>i DEF IsAppended, PropertiesChanged, Msg
  <2>2. \A i, j \in DOMAIN requests' :
          requests'[i] = "TakeControl" /\ requests'[j] \in {"TakeControl", "ReleaseControl"}
            => j <= i
    <3> TAKE i, j \in DOMAIN requests'
    <3> HAVE requests'[i] = "TakeControl" /\ requests'[j] \in {"TakeControl", "ReleaseControl"}
    <3>1. /\ i \in Int /\ i + 1 \in DOMAIN requests /\ requests'[i] = requests[i + 1]
          /\ j \in Int /\ j + 1 \in DOMAIN requests /\ requests'[j] = requests[j + 1]
      BY <1>r DEF IsTail
    <3>2. j + 1 <= i + 1
      BY <3>1 DEF SessionInv, ControlComes
    <3> QED  BY <3>1, <3>2
  <2> QED  BY <1>w, <1>c, <2>1, <2>2 DEF Answered, logindVars, SessionInv, ControlComes
<1> QED  BY <1>1, <1>2, <1>3 DEF SessionInv

LEMMA ServeInv ==
  ASSUME SessionInv, Serve
  PROVE  SessionInv'
<1>1. Answered(Head(requests))
  BY DEF Serve, Answered
<1>2. CASE Head(requests) = "GetSession"
  BY <1>1, <1>2, QueryInv DEF Serve
<1>3. CASE Head(requests) = "GetActive"
  BY <1>1, <1>3, QueryInv DEF Serve
<1>4. CASE Head(requests) = "GetVt"
  BY <1>1, <1>4, QueryInv DEF Serve
<1>5. CASE Head(requests) = "TakeControl"
  BY <1>1, <1>5, ControlGivenInv DEF Serve
<1>6. CASE Head(requests) = "ReleaseControl"
  BY <1>1, <1>6, ControlReleasedInv DEF Serve
<1>7. CASE Head(requests) = "SwitchTo"
  BY <1>1, <1>7, SwitchedInv DEF Serve
<1> QED  BY <1>2, <1>3, <1>4, <1>5, <1>6, <1>7 DEF Serve

\* Asking for the session's state: for the vt behind the activity.
LEMMA AfterGetProperties ==
  ASSUME SessionTypeOK, NEW more \in Seq(Methods),
         more = <<>> \/ more = <<"TakeControl">>,
         requests' = requests \o GetProperties \o more
  PROVE  /\ requests' \in Seq(Methods)
         /\ \A call : Calling(call)' <=> \/ Calling(call)
                                         \/ call \in {"GetActive", "GetVt"}
                                         \/ call = "TakeControl" /\ more # <<>>
         /\ \A i \in DOMAIN requests : i \in DOMAIN requests' /\ requests'[i] = requests[i]
         /\ \A i \in DOMAIN requests' : requests'[i] = "GetVt" =>
              \/ i \in DOMAIN requests
              \/ \E j \in DOMAIN requests' : j < i /\ requests'[j] = "GetActive"
         /\ \A i \in DOMAIN requests' : requests'[i] \in {"TakeControl", "ReleaseControl"} =>
              \/ i \in DOMAIN requests
              \/ requests'[i] = "TakeControl" /\ i = Len(requests) + 3 /\ more # <<>>
<1> DEFINE asked == Append(Append(requests, "GetActive"), "GetVt")
<1>1. /\ {"GetActive", "GetVt", "TakeControl"} \subseteq Methods
      /\ requests \in Seq(Methods)
  BY DEF Methods, SessionTypeOK
<1>2. /\ asked \in Seq(Methods) /\ Len(asked) = Len(requests) + 2
      /\ DOMAIN asked = 1..Len(requests) + 2 /\ Len(requests) \in Nat
      /\ DOMAIN requests = 1..Len(requests)
      /\ \A i \in DOMAIN requests : asked[i] = requests[i]
      /\ asked[Len(requests) + 1] = "GetActive" /\ asked[Len(requests) + 2] = "GetVt"
  BY <1>1
<1>3. requests' = asked \o more
  <2>1. requests \o GetProperties = asked
    BY <1>1 DEF GetProperties
  <2> QED  BY <2>1
<1>4. CASE more = <<>>
  <2>1. requests' = asked
    BY <1>2, <1>3, <1>4
  <2> QED
    <3> HIDE DEF asked
    <3>1. more = <<>> /\ Len(requests) + 1 \in DOMAIN asked /\ Len(requests) + 2 \in DOMAIN asked
      BY <1>2, <1>4
    <3>2. \A i \in DOMAIN asked : i \in DOMAIN requests \/ i \in {Len(requests) + 1, Len(requests) + 2}
      BY <1>2
    <3>3. requests' \in Seq(Methods)
      BY <1>2, <2>1
    <3>4. \A i \in DOMAIN requests : i \in DOMAIN asked
      BY <1>2
    <3>5. \A call : Calling(call)' <=> \/ Calling(call)
                                     \/ call \in {"GetActive", "GetVt"}
      BY <1>2, <2>1, <3>1, <3>2, <3>4 DEF Calling
    <3> QED  BY <1>2, <2>1, <3>1, <3>2, <3>3, <3>4, <3>5
<1>5. CASE more = <<"TakeControl">>
  <2>1. requests' = Append(asked, "TakeControl")
    BY <1>2, <1>3, <1>5
  <2>2. more # <<>>
    BY <1>5
  <2>3. /\ requests' \in Seq(Methods) /\ DOMAIN requests' = 1..Len(requests) + 3
        /\ \A i \in DOMAIN asked : requests'[i] = asked[i]
        /\ requests'[Len(requests) + 3] = "TakeControl"
    <3> HIDE DEF asked
    <3> QED  BY <1>1, <1>2, <2>1
  <2> QED
    <3> HIDE DEF asked
    <3> HIDE DEF asked
    <3>4. /\ Len(requests) \in Nat /\ DOMAIN requests' = 1..Len(requests) + 3
          /\ DOMAIN requests = 1..Len(requests) /\ DOMAIN asked = 1..Len(requests) + 2
      BY <1>2, <2>3
    <3>5. \A i \in DOMAIN requests' :
            \/ i \in DOMAIN requests
            \/ i \in {Len(requests) + 1, Len(requests) + 2, Len(requests) + 3}
      BY <3>4
    <3>6. \A i \in DOMAIN requests :
            i \in DOMAIN asked /\ i \in DOMAIN requests' /\ requests'[i] = requests[i]
      BY <1>2, <2>3, <3>4
    <3>7. /\ Len(requests) + 1 \in DOMAIN requests' /\ Len(requests) + 2 \in DOMAIN requests'
          /\ Len(requests) + 1 \in DOMAIN asked /\ Len(requests) + 2 \in DOMAIN asked
          /\ Len(requests) + 3 \in DOMAIN requests'
      BY <3>4
    <3>8. /\ requests'[Len(requests) + 1] = "GetActive"
          /\ requests'[Len(requests) + 2] = "GetVt"
          /\ requests'[Len(requests) + 3] = "TakeControl"
      BY <1>2, <2>3, <3>7
    <3>2. \A call : Calling(call)' <=> \/ Calling(call)
                                     \/ call \in {"GetActive", "GetVt", "TakeControl"}
      BY <3>5, <3>6, <3>7, <3>8 DEF Calling
    <3>3. \A i \in DOMAIN requests' : requests'[i] = "GetVt" =>
            \/ i \in DOMAIN requests
            \/ \E j \in DOMAIN requests' : j < i /\ requests'[j] = "GetActive"
      <4>1. Len(requests) + 1 < Len(requests) + 2
        BY <1>2
      <4> QED  BY <3>5, <3>7, <3>8, <4>1
    <3>9. \A i \in DOMAIN requests' : requests'[i] \in {"TakeControl", "ReleaseControl"} =>
            \/ i \in DOMAIN requests
            \/ requests'[i] = "TakeControl" /\ i = Len(requests) + 3
      BY <3>5, <3>8
    <3> QED  BY <2>2, <2>3, <3>2, <3>3, <3>6, <3>9
<1> QED  BY <1>4, <1>5

LEMMA SessionPropertiesChangedInv ==
  ASSUME SessionInv, SessionPropertiesChanged
  PROVE  SessionInv'
<1>i. /\ inbox' \in Seq(Messages) /\ IsTail(inbox', inbox)
      /\ inbox # <<>> /\ Head(inbox) = inbox[1] /\ 1 \in DOMAIN inbox
      /\ inbox[1].type = "PropertiesChanged"
  BY Received DEF SessionPropertiesChanged, SessionInv
<1>w. /\ \A t : Waits(t) <=> (inbox[1].type = t \/ Waits(t)')
      /\ \A i \in DOMAIN inbox' : EndFrom(i)' <=> EndFrom(i + 1)
  BY <1>i, AfterTail
<1>r. /\ requests' \in Seq(Methods)
      /\ \A call : Calling(call)' <=> \/ Calling(call)
                                      \/ isConnected /\ call \in {"GetActive", "GetVt"}
      /\ \A i \in DOMAIN requests : i \in DOMAIN requests' /\ requests'[i] = requests[i]
      /\ \A i \in DOMAIN requests' : requests'[i] = "GetVt" =>
           \/ i \in DOMAIN requests
           \/ \E j \in DOMAIN requests' : j < i /\ requests'[j] = "GetActive"
      /\ \A i \in DOMAIN requests' : requests'[i] \in {"TakeControl", "ReleaseControl"} =>
           i \in DOMAIN requests
  <2>1. CASE isConnected
    <3>1. requests' = requests \o GetProperties \o <<>>
      BY <2>1 DEF SessionPropertiesChanged, SessionInv, SessionTypeOK, GetProperties
    <3>2. <<>> \in Seq(Methods)
      OBVIOUS
    <3> QED  BY <2>1, <3>1, <3>2, AfterGetProperties DEF SessionInv
  <2>2. CASE ~isConnected
    BY <2>2 DEF SessionPropertiesChanged, SessionInv, SessionTypeOK, Calling
  <2> QED  BY <2>1, <2>2
<1>1. SessionTypeOK'
  BY <1>i, <1>r DEF SessionPropertiesChanged, serviceVars, logindVars, handlerVars, boundVars, SessionInv, SessionTypeOK
<1>2. DownKnown'
  BY <1>i, <1>w, DownKept DEF SessionPropertiesChanged, serviceVars, logindVars, SessionInv, DownKnown
<1>3. Connecting'
  BY <1>i, <1>w, <1>r, ConnectingKept DEF SessionPropertiesChanged, serviceVars, logindVars, SessionInv, Connecting
<1>4. KnownSoon'
  BY <1>r DEF SessionPropertiesChanged, serviceVars, logindVars, KnownSoon, ActiveComes, VtComes
<1>5. FirstService'
  BY <1>i, <1>w, <1>r DEF SessionPropertiesChanged, serviceVars, logindVars, handlerVars, boundVars, SessionInv, FirstService
<1>6. ControlComes'
  <2> SUFFICES ASSUME stops = 0, OneTake
               PROVE  ControlComes'
    BY DEF SessionPropertiesChanged, boundVars, ControlComes
  <2>1. \A i, j \in DOMAIN requests' :
          requests'[i] = "TakeControl" /\ requests'[j] \in {"TakeControl", "ReleaseControl"}
            => j <= i
    BY <1>r DEF SessionInv, ControlComes
  <2>2. \A i, j \in DOMAIN inbox' :
          inbox'[i].type = "Control" /\ inbox'[j].type = "Control" => i = j
    <3> TAKE i, j \in DOMAIN inbox'
    <3> HAVE inbox'[i].type = "Control" /\ inbox'[j].type = "Control"
    <3>1. /\ i \in Int /\ i + 1 \in DOMAIN inbox /\ inbox'[i] = inbox[i + 1]
          /\ j \in Int /\ j + 1 \in DOMAIN inbox /\ inbox'[j] = inbox[j + 1]
      BY <1>i DEF IsTail
    <3>2. i + 1 = j + 1
      BY <3>1 DEF SessionInv, ControlComes
    <3> QED  BY <3>1, <3>2
  <2>3. /\ Waits("Control")' <=> Waits("Control")
        /\ \A call \in {"TakeControl", "ReleaseControl"} : Calling(call)' <=> Calling(call)
    BY <1>i, <1>w, <1>r
  <2>4. hasSessionControl' = hasSessionControl /\ controller' = controller
    BY DEF SessionPropertiesChanged, serviceVars, logindVars
  <2>5. /\ hasSessionControl \/ Waits("Control") =>
             ~Calling("TakeControl") /\ ~Calling("ReleaseControl") /\ controller
        /\ hasSessionControl => ~Waits("Control")
        /\ controller => hasSessionControl \/ Waits("Control") \/ Calling("ReleaseControl")
    BY DEF SessionInv, ControlComes
  <2> QED  BY <2>1, <2>2, <2>3, <2>4, <2>5 DEF ControlComes
<1>7. VtFollows'
  <2> SUFFICES ASSUME OpensActive, stops = 0, calls = 0
               PROVE  VtFollows'
    BY DEF SessionPropertiesChanged, boundVars, VtFollows
  <2>1. \A i \in DOMAIN inbox' : i + 1 \in DOMAIN inbox /\ inbox'[i] = inbox[i + 1]
    BY <1>i DEF IsTail
  <2>2. ASSUME ~vtOpen, ~sessionActive
        PROVE  /\ ~vtKnown
               /\ \A i \in DOMAIN inbox' : inbox'[i].type = "Vt" =>
                    \E j \in DOMAIN inbox' : j < i /\ inbox'[j].type = "Active"
               /\ \A i \in DOMAIN requests' : requests'[i] = "GetVt" =>
                    \/ Waits("Active")'
                    \/ \E j \in DOMAIN requests' : j < i /\ requests'[j] = "GetActive"
    <3>1. ~vtKnown
      BY <2>2 DEF SessionInv, VtFollows
    <3>2. \A i \in DOMAIN inbox' : inbox'[i].type = "Vt" =>
            \E j \in DOMAIN inbox' : j < i /\ inbox'[j].type = "Active"
      BY <1>i, <2>2, VtOrderKept DEF SessionInv, VtFollows
    <3>3. Waits("Active") => Waits("Active")'
      BY <1>i, <1>w
    <3> QED  BY <1>r, <2>2, <3>1, <3>2, <3>3 DEF SessionInv, VtFollows
  <2> QED  BY <1>r, <2>1, <2>2
           DEF SessionPropertiesChanged, serviceVars, logindVars, handlerVars, SessionInv, VtFollows
<1> QED  BY <1>1, <1>2, <1>3, <1>4, <1>5, <1>6, <1>7 DEF SessionInv

LEMMA SessionReplyInv ==
  ASSUME SessionInv, SessionReply
  PROVE  SessionInv'
<1>i. /\ inbox' \in Seq(Messages) /\ IsTail(inbox', inbox)
      /\ inbox # <<>> /\ Head(inbox) = inbox[1] /\ 1 \in DOMAIN inbox
      /\ inbox[1].type = "Session"
  BY Received DEF SessionReply, SessionInv
<1>w. /\ \A t : Waits(t) <=> (inbox[1].type = t \/ Waits(t)')
      /\ \A i \in DOMAIN inbox' : EndFrom(i)' <=> EndFrom(i + 1)
  BY <1>i, AfterTail
<1>r. /\ requests' \in Seq(Methods)
      /\ \A call : Calling(call)' <=>
           \/ Calling(call)
           \/ ~isConnected /\ call \in {"GetActive", "GetVt"}
           \/ ~isConnected /\ call = "TakeControl" /\ Calling(call)'
      /\ \A i \in DOMAIN requests : i \in DOMAIN requests' /\ requests'[i] = requests[i]
      /\ \A i \in DOMAIN requests' : requests'[i] = "GetVt" =>
           \/ i \in DOMAIN requests
           \/ \E j \in DOMAIN requests' : j < i /\ requests'[j] = "GetActive"
      /\ \A i \in DOMAIN requests' : requests'[i] \in {"TakeControl", "ReleaseControl"} =>
           \/ i \in DOMAIN requests
           \/ ~isConnected /\ requests'[i] = "TakeControl" /\ i = Len(requests) + 3
  <2>1. CASE ~isConnected
    <3>1. PICK more \in {<<>>, <<"TakeControl">>} : requests' = requests \o GetProperties \o more
      BY <2>1 DEF SessionReply, SessionInv, SessionTypeOK, TakeControl, GetProperties
    <3>2. more \in Seq(Methods)
      <4>1. "TakeControl" \in Methods
        BY DEF Methods
      <4>2. <<>> \in Seq(Methods) /\ <<"TakeControl">> \in Seq(Methods)
        BY <4>1
      <4> QED  BY <3>1, <4>2
    <3> QED  BY <2>1, <3>1, <3>2, AfterGetProperties DEF SessionInv
  <2>2. CASE isConnected
    BY <2>2 DEF SessionReply, SessionInv, SessionTypeOK, Calling
  <2> QED  BY <2>1, <2>2
<1>k. isConnected' = TRUE /\ (isConnected => UNCHANGED requests)
  BY DEF SessionReply, SessionInv, SessionTypeOK
<1>1. SessionTypeOK'
  BY <1>i, <1>r, <1>k DEF SessionReply, serviceVars, handlerVars, boundVars, SessionInv, SessionTypeOK
<1>2. DownKnown'
  BY <1>i, <1>w, DownKept DEF SessionReply, serviceVars, SessionInv, DownKnown
<1>3. Connecting'
  BY <1>i, <1>w, <1>r, <1>k, ConnectingKept DEF SessionReply, serviceVars, SessionInv, Connecting
<1>4. KnownSoon'
  <2> SUFFICES ASSUME up, ~Waits("Unregistered")
               PROVE  ActiveComes' /\ VtComes'
    BY <1>w, <1>i DEF SessionReply, serviceVars, KnownSoon
  <2>1. CASE isConnected
    <3>1. ActiveComes /\ VtComes
      BY <2>1 DEF SessionInv, KnownSoon
    <3>2. ActiveComes'
      BY <1>i, <1>r, <3>1, ActiveKept DEF SessionReply, serviceVars
    <3>3. VtComes'
      BY <1>i, <1>w, <1>r, <3>1 DEF SessionReply, VtComes
    <3> QED  BY <3>2, <3>3
  <2>2. CASE ~isConnected
    BY <1>r, <2>2 DEF ActiveComes, VtComes
  <2> QED  BY <2>1, <2>2
<1>5. FirstService'
  BY <1>i, <1>w, <1>r, <1>k DEF SessionReply, serviceVars, handlerVars, boundVars, SessionInv, FirstService
<1>6. ControlComes'
  <2> SUFFICES ASSUME stops = 0, OneTake
               PROVE  ControlComes'
    BY DEF SessionReply, boundVars, ControlComes
  <2>1. \A i, j \in DOMAIN inbox' :
          inbox'[i].type = "Control" /\ inbox'[j].type = "Control" => i = j
    <3> TAKE i, j \in DOMAIN inbox'
    <3> HAVE inbox'[i].type = "Control" /\ inbox'[j].type = "Control"
    <3>1. /\ i \in Int /\ i + 1 \in DOMAIN inbox /\ inbox'[i] = inbox[i + 1]
          /\ j \in Int /\ j + 1 \in DOMAIN inbox /\ inbox'[j] = inbox[j + 1]
      BY <1>i DEF IsTail
    <3>2. i + 1 = j + 1
      BY <3>1 DEF SessionInv, ControlComes
    <3> QED  BY <3>1, <3>2
  <2>2. CASE isConnected
    <3>1. UNCHANGED requests
      BY <1>k, <2>2
    <3>2. \A call : Calling(call)' <=> Calling(call)
      BY <3>1 DEF Calling
    <3> QED  BY <1>i, <1>w, <2>1, <3>1, <3>2
             DEF SessionReply, serviceVars, SessionInv, ControlComes
  <2>3. CASE ~isConnected
    <3>1. /\ ~Calling("TakeControl") /\ ~Calling("ReleaseControl")
          /\ ~Waits("Control")' /\ ~hasSessionControl' /\ ~controller'
      BY <1>w, <2>3 DEF SessionReply, serviceVars, SessionInv, FirstService
    <3>2. \A i \in DOMAIN requests' : requests'[i] \in {"TakeControl", "ReleaseControl"} =>
            i = Len(requests) + 3
      BY <1>r, <3>1 DEF Calling
    <3>3. Len(requests) + 3 \in Int
      BY DEF SessionInv, SessionTypeOK
    <3> QED  BY <2>1, <3>1, <3>2, <3>3 DEF ControlComes
  <2> QED  BY <2>2, <2>3
<1>7. VtFollows'
  <2> SUFFICES ASSUME OpensActive, stops = 0, calls = 0
               PROVE  VtFollows'
    BY DEF SessionReply, boundVars, VtFollows
  <2>1. \A i \in DOMAIN inbox' : i + 1 \in DOMAIN inbox /\ inbox'[i] = inbox[i + 1]
    BY <1>i DEF IsTail
  <2>2. ASSUME ~vtOpen, ~sessionActive
        PROVE  /\ ~vtKnown
               /\ \A i \in DOMAIN inbox' : inbox'[i].type = "Vt" =>
                    \E j \in DOMAIN inbox' : j < i /\ inbox'[j].type = "Active"
               /\ \A i \in DOMAIN requests' : requests'[i] = "GetVt" =>
                    \/ Waits("Active")'
                    \/ \E j \in DOMAIN requests' : j < i /\ requests'[j] = "GetActive"
    <3>1. ~vtKnown
      BY <2>2 DEF SessionInv, VtFollows
    <3>2. \A i \in DOMAIN inbox' : inbox'[i].type = "Vt" =>
            \E j \in DOMAIN inbox' : j < i /\ inbox'[j].type = "Active"
      BY <1>i, <2>2, VtOrderKept DEF SessionInv, VtFollows
    <3>3. Waits("Active") => Waits("Active")'
      BY <1>i, <1>w
    <3> QED  BY <1>r, <2>2, <3>1, <3>2, <3>3 DEF SessionInv, VtFollows
  <2> QED  BY <1>r, <2>1, <2>2 DEF SessionReply, serviceVars, handlerVars, SessionInv, VtFollows
<1> QED  BY <1>1, <1>2, <1>3, <1>4, <1>5, <1>6, <1>7 DEF SessionInv

-----------------------------------------------------------------------------
(* The session's theorems                                                   *)

LEMMA SessionInitially ==
  ASSUME SessionInit
  PROVE  SessionInv
<1>1. /\ inbox \in Seq(Messages)
      /\ \A i \in DOMAIN inbox : inbox[i] = Registered
      /\ ~up => inbox = <<>>
      /\ up => 1 \in DOMAIN inbox
  <2>1. Registered \in Messages
    BY DEF Registered, Msg, Messages
  <2>2. \/ ~up /\ inbox = <<>>
        \/ up /\ inbox = <<Registered>>
        \/ up /\ inbox = <<Registered, Registered>>
    BY DEF SessionInit
  <2>3. CASE ~up /\ inbox = <<>>
    BY <2>3
  <2>4. CASE up /\ inbox = <<Registered>>
    BY <2>1, <2>4
  <2>5. CASE up /\ inbox = <<Registered, Registered>>
    BY <2>1, <2>5
  <2> QED  BY <2>2, <2>3, <2>4, <2>5
<1>2. requests = <<>> /\ \A call : ~Calling(call)
  BY DEF SessionInit, Calling
<1>3. \A t : Waits(t) => t = "Registered"
  BY <1>1 DEF Waits, Registered, Msg
<1>4. SessionTypeOK
  <2>3. requests \in Seq(Methods)
    BY <1>2
  <2>4. stops \in 0..MaxStops /\ switches \in 0..MaxSwitches /\ calls \in 0..MaxCalls
    BY CountsAssumption DEF SessionInit
  <2>5. active \in BOOLEAN
    BY FlagsAssumption DEF SessionInit
  <2> QED  BY <1>1, <2>3, <2>4, <2>5 DEF SessionInit, SessionTypeOK
<1>5. DownKnown
  BY <1>1 DEF SessionInit, DownKnown
<1>6. Connecting
  <2>1. \A i \in DOMAIN inbox : ~EndFrom(i)
    BY <1>1 DEF EndFrom, Registered, Msg
  <2> QED  BY <1>1, <2>1 DEF Connecting, Registered, Msg
<1>7. KnownSoon /\ FirstService /\ ControlComes /\ VtFollows
  <2>1. \A i \in DOMAIN inbox : inbox[i].type = "Registered"
    BY <1>1 DEF Registered, Msg
  <2>2. KnownSoon
    BY DEF SessionInit, KnownSoon
  <2>3. FirstService
    BY <1>1, <1>2, <1>3 DEF SessionInit, FirstService
  <2>4. ControlComes
    BY <1>2, <1>3, <2>1 DEF SessionInit, ControlComes
  <2>5. VtFollows
    <3>1. OpensActive => active
      BY FlagsAssumption DEF SessionInit
    <3>2. ~vtOpen /\ ~vtActive /\ ~sessionActive /\ ~vtKnown
      BY DEF SessionInit
    <3>3. \A i \in DOMAIN requests : requests[i] # "GetVt"
      BY <1>2 DEF Calling
    <3> QED  BY <1>2, <2>1, <3>1, <3>2, <3>3 DEF VtFollows
  <2> QED  BY <2>2, <2>3, <2>4, <2>5
<1> QED  BY <1>4, <1>5, <1>6, <1>7 DEF SessionInv

LEMMA SessionStuttering ==
  ASSUME SessionInv, UNCHANGED sessionVars
  PROVE  SessionInv'
BY DEF SessionInv, sessionVars, serviceVars, logindVars, handlerVars, boundVars,
       SessionTypeOK, DownKnown, Connecting, KnownSoon, ActiveComes, VtComes,
       FirstService, ControlComes, VtFollows, Calling, Waits, EndFrom

LEMMA SessionInductive == SessionSpec => []SessionInv
<1>1. ASSUME SessionInv, [SessionNext]_sessionVars
      PROVE  SessionInv'
  <2>1. CASE ServiceNext
    BY <1>1, <2>1, StartServiceInv, StopServiceInv, RefuseInv, ServeInv, UserSwitchesInv
    DEF ServiceNext
  <2>2. CASE LogindNext
    BY <1>1, <2>2, ServiceRegisteredInv, SessionReplyInv, ServiceUnregisteredInv,
       SessionPropertiesChangedInv, ActiveReplyInv, VtReplyInv, ControlReplyInv, FailedReplyInv
    DEF LogindNext
  <2>3. CASE AppNext
    BY <1>1, <2>3, CallTakeControlInv, CallReleaseControlInv, CallActivateInv, CreateVtHandlerInv
    DEF AppNext
  <2>4. CASE UNCHANGED sessionVars
    BY <1>1, <2>4, SessionStuttering
  <2> QED  BY <1>1, <2>1, <2>2, <2>3, <2>4 DEF SessionNext
<1> QED  BY <1>1, SessionInitially, PTL DEF SessionSpec

\* Every variable of the session has its type, and the bounds hold.
THEOREM SessionTypeCorrect == SessionSpec => []SessionTypeOK
<1>1. SessionInv => SessionTypeOK
  BY DEF SessionInv
<1> QED  BY <1>1, SessionInductive, PTL

\* When every call and signal is dealt with, Logind is connected exactly if
\* there is a service and knows its session, and VtHandler follows the session
\* (until the service goes away for the first time): also if TakeControl is
\* called while another is under way.
THEOREM SessionCatchesUp == SessionSpec => [](CatchesUp /\ VtFollowsUser)
<1>1. SessionInv => CatchesUp
  <2> SUFFICES ASSUME SessionInv, Quiet
               PROVE  isConnected = up /\ sessionActive = (up /\ active) /\ vtKnown = up
    BY DEF CatchesUp
  <2>1. (\A call : ~Calling(call)) /\ (\A t : ~Waits(t)) /\ (\A i \in DOMAIN inbox : FALSE)
    BY DEF Quiet, Calling, Waits
  <2>2. /\ isConnected \in BOOLEAN /\ up \in BOOLEAN /\ sessionActive \in BOOLEAN
        /\ vtKnown \in BOOLEAN /\ active \in BOOLEAN
    BY DEF SessionInv, SessionTypeOK
  <2>3. CASE ~up
    BY <2>1, <2>2, <2>3 DEF SessionInv, DownKnown
  <2>4. CASE up
    <3>1. isConnected
      BY <2>1, <2>4 DEF SessionInv, Connecting
    <3>2. ActiveComes /\ VtComes
      BY <2>1, <2>4, <3>1 DEF SessionInv, KnownSoon
    <3> QED  BY <2>1, <2>2, <2>4, <3>1, <3>2 DEF ActiveComes, VtComes
  <2> QED  BY <2>3, <2>4
<1>2. SessionInv => VtFollowsUser
  BY DEF SessionInv, VtFollows, VtFollowsUser, VtFollowsSession
<1> QED  BY <1>1, <1>2, SessionInductive, PTL

\* With one TakeControl at a time, we moreover believe to control the session
\* exactly if the service says so, until it goes away for the first time.
THEOREM SessionFollowsService ==
  ASSUME OneTake
  PROVE  SessionSpec => []FollowsService
<1>1. SessionInv => ControlOfFirstService
  <2> SUFFICES ASSUME SessionInv, stops = 0, Quiet, up
               PROVE  hasSessionControl = controller
    BY DEF ControlOfFirstService, ControlAgrees
  <2>1. ~Waits("Control") /\ ~Calling("ReleaseControl")
    BY DEF Quiet, Waits, Calling
  <2>2. hasSessionControl \in BOOLEAN /\ controller \in BOOLEAN
    BY DEF SessionInv, SessionTypeOK
  <2> QED  BY <2>1, <2>2 DEF SessionInv, ControlComes
<1>2. CatchesUp /\ VtFollowsUser /\ ControlOfFirstService => FollowsService
  BY DEF FollowsService
<1> QED  BY <1>1, <1>2, SessionInductive, SessionCatchesUp, PTL
-----------------------------------------------------------------------------
(* CompositorProcess *)

\* Every crash but the last was answered with a retry; one that the launcher has
\* not heard of will be, if there is one left.
RetriesCounted ==
  \A p \in Processes :
    \/ crashes[p] + retries[p] = Retries + (IF process[p] = "Crashed" THEN 1 ELSE 0)
    \/ quit /\ retries[p] = 0 /\ crashes[p] = Retries + 1

\* Who makes the launcher quit has used up its retries.
QuitsWithoutRetries == quit => \E p \in Processes : crashes[p] = Retries + 1

LauncherInv == LauncherTypeOK /\ RetriesCounted /\ QuitsWithoutRetries

\* Nothing happens to retries and crashes, or to who has crashed.
LEMMA CountsStay ==
  ASSUME RetriesCounted, QuitsWithoutRetries, UNCHANGED <<retries, crashes, quit>>,
         \A p \in Processes : process[p] = "Crashed" <=> process'[p] = "Crashed"
  PROVE  RetriesCounted' /\ QuitsWithoutRetries'
BY DEF RetriesCounted, QuitsWithoutRetries

LEMMA StartInv ==
  ASSUME LauncherInv, NEW ps \in SUBSET Processes, NEW found \in SUBSET Processes,
         StartProcess(ps, found), socket' = socket, timer' \subseteq Processes,
         \A p \in found : watcher[p] # "None",
         broken' \in BOOLEAN,
         UNCHANGED <<retries, ends, crashes, stopped, quit>>
  PROVE  LauncherInv'
<1>1. /\ process \in [Processes -> {"None"} \cup Alive \cup Ended]
      /\ watcher \in [Processes -> {"None", "Watching", "Found"}]
      /\ \A p \in Processes : process[p] # "None" => watcher[p] # "None"
  BY DEF LauncherInv, LauncherTypeOK
<1>2. \A p \in Processes :
        /\ \/ process'[p] = process[p]
           \/ process[p] = "None" /\ process'[p] = "Starting" /\ watcher'[p] = "Watching"
        /\ watcher'[p] \in {watcher[p], "Watching", "Found"}
  BY DEF StartProcess
<1>3. /\ process' \in [Processes -> {"None"} \cup Alive \cup Ended]
      /\ watcher' \in [Processes -> {"None", "Watching", "Found"}]
  BY <1>1 DEF StartProcess, Alive
<1>4. \A p \in Processes : process'[p] # "None" => watcher'[p] # "None"
  BY <1>1, <1>2
<1>5. leftover' \subseteq Processes
  BY DEF StartProcess, LauncherInv, LauncherTypeOK
<1>6. LauncherTypeOK'
  BY <1>3, <1>4, <1>5 DEF LauncherInv, LauncherTypeOK
<1> QED
  BY <1>2, <1>6, CountsStay DEF LauncherInv

LEMMA ProcessErrorInv ==
  ASSUME LauncherInv, NEW p \in Processes, ~quit, ProcessError(p)
  PROVE  LauncherInv'
<1> USE BoundsAssumption
<1>1. /\ process[p] = "Crashed" /\ process' = [process EXCEPT ![p] = "None"]
      /\ UNCHANGED <<socket, ends, crashes, stopped, leftover, broken>>
  BY DEF ProcessError
<1>2. /\ LauncherTypeOK /\ retries[p] \in 0..Retries /\ crashes[p] \in Nat
      /\ crashes[p] + retries[p] = Retries + 1
      /\ \A q \in Processes : q # p => crashes[q] + retries[q] =
           Retries + (IF process[q] = "Crashed" THEN 1 ELSE 0)
  BY <1>1 DEF LauncherInv, LauncherTypeOK, RetriesCounted
<1>3. CASE retries[p] >= 1
  <2>1. Respawn(p) /\ quit' = quit
    BY <1>3 DEF ProcessError
  <2>2. LauncherTypeOK'
    BY <1>1, <1>2, <1>3, <2>1 DEF LauncherTypeOK, Respawn
  <2>3. /\ retries \in [Processes -> 0..Retries]
        /\ process \in [Processes -> {"None"} \cup Alive \cup Ended]
        /\ retries' = [retries EXCEPT ![p] = @ - 1]
    BY <1>2, <2>1 DEF Respawn, LauncherTypeOK
  <2>4. ASSUME NEW q \in Processes
        PROVE  crashes'[q] + retries'[q] =
                 Retries + (IF process'[q] = "Crashed" THEN 1 ELSE 0)
    <3>1. CASE q = p
      <4>1. retries'[q] = retries[p] - 1 /\ process'[q] = "None" /\ crashes'[q] = crashes[p]
        BY <1>1, <2>3, <3>1
      <4> QED
        BY <1>2, <4>1
    <3>2. CASE q # p
      BY <1>1, <1>2, <2>3, <3>2
    <3> QED
      BY <3>1, <3>2
  <2>5. RetriesCounted' /\ QuitsWithoutRetries'
    BY <1>1, <2>1, <2>4 DEF RetriesCounted, QuitsWithoutRetries, LauncherInv
  <2> QED
    BY <2>2, <2>5 DEF LauncherInv
<1>4. CASE retries[p] = 0
  <2>1. quit' = TRUE /\ UNCHANGED <<watcher, retries, timer>>
    BY <1>4 DEF ProcessError
  <2>2. LauncherTypeOK'
    BY <1>1, <1>2, <2>1 DEF LauncherTypeOK
  <2>3. RetriesCounted' /\ QuitsWithoutRetries'
    BY <1>1, <1>2, <1>4, <2>1 DEF RetriesCounted, QuitsWithoutRetries, LauncherTypeOK
  <2> QED
    BY <2>2, <2>3 DEF LauncherInv
<1> QED
  BY <1>2, <1>3, <1>4

LEMMA StopInv ==
  ASSUME LauncherInv, ~quit, Stop
  PROVE  LauncherInv'
<1> USE BoundsAssumption
<1> DEFINE again == {p \in Crashing : retries[p] >= 1}
<1>1. /\ LauncherTypeOK /\ Crashing \subseteq Processes
      /\ retries \in [Processes -> 0..Retries] /\ crashes \in [Processes -> Nat]
      /\ \A p \in Processes : crashes[p] + retries[p] =
           Retries + (IF process[p] = "Crashed" THEN 1 ELSE 0)
  BY DEF LauncherInv, LauncherTypeOK, RetriesCounted, Crashing
<1>2. /\ stopped' = TRUE /\ process' = [p \in Processes |-> "None"]
      /\ watcher' = [p \in Processes |-> IF process[p] = "None" THEN watcher[p] ELSE "None"]
      /\ crashes' = [p \in Processes |-> IF p \in Crashing /\ process[p] # "Crashed"
                                         THEN crashes[p] + 1 ELSE crashes[p]]
      /\ retries' = [p \in Processes |-> IF p \in again THEN retries[p] - 1
                                         ELSE retries[p]]
      /\ timer' = timer \cup again /\ quit' = (Crashing # again)
      /\ socket' \subseteq socket /\ UNCHANGED <<ends, leftover, broken>>
  BY DEF Stop
<1>3. \A p \in Processes : process[p] = "Crashed" => p \in Crashing
  BY DEF Crashing
<1>4. ASSUME NEW p \in Processes
      PROVE  /\ retries'[p] \in 0..Retries /\ crashes'[p] \in Nat
             /\ p \in Crashing /\ p \notin again =>
                  retries'[p] = 0 /\ crashes'[p] = Retries + 1
             /\ p \in again \/ p \notin Crashing => crashes'[p] + retries'[p] = Retries
  <2>1. /\ retries[p] \in 0..Retries /\ crashes[p] \in Nat
        /\ crashes[p] + retries[p] = Retries + (IF process[p] = "Crashed" THEN 1 ELSE 0)
        /\ process[p] = "Crashed" => p \in Crashing
    BY <1>1, <1>3
  <2>2. /\ crashes'[p] = IF p \in Crashing /\ process[p] # "Crashed"
                         THEN crashes[p] + 1 ELSE crashes[p]
        /\ retries'[p] = IF p \in again THEN retries[p] - 1 ELSE retries[p]
    BY <1>2
  <2>3. p \in again <=> p \in Crashing /\ retries[p] >= 1
    OBVIOUS
  <2> HIDE DEF again
  <2> QED
    BY <2>1, <2>2, <2>3
<1>5. LauncherTypeOK'
  <2>1. /\ watcher' \in [Processes -> {"None", "Watching", "Found"}]
        /\ process' \in [Processes -> {"None"} \cup Alive \cup Ended]
    BY <1>1, <1>2 DEF LauncherTypeOK
  <2>2. retries' \in [Processes -> 0..Retries] /\ crashes' \in [Processes -> Nat]
    BY <1>2, <1>4
  <2>3. socket' \subseteq Processes /\ timer' \subseteq Processes /\ ends' \in 0..MaxEnds
    BY <1>1, <1>2 DEF LauncherTypeOK
  <2>4. {stopped, quit, broken}' \subseteq BOOLEAN /\ leftover' \subseteq Processes
    BY <1>1, <1>2 DEF LauncherTypeOK
  <2> QED
    BY <2>1, <2>2, <2>3, <2>4, <1>2 DEF LauncherTypeOK
<1>6. RetriesCounted'
  <2>1. ASSUME NEW p \in Processes
        PROVE  \/ crashes'[p] + retries'[p] = Retries
               \/ quit' /\ retries'[p] = 0 /\ crashes'[p] = Retries + 1
    BY <1>2, <1>4
  <2>2. \A p \in Processes : process'[p] # "Crashed"
    BY <1>2
  <2> QED
    BY <2>1, <2>2 DEF RetriesCounted
<1>7. QuitsWithoutRetries'
  <2>1. quit' => \E p \in Processes : p \in Crashing /\ p \notin again
    BY <1>1, <1>2
  <2> QED
    BY <2>1, <1>4 DEF QuitsWithoutRetries
<1> QED
  BY <1>5, <1>6, <1>7 DEF LauncherInv

LEMMA ChildInv ==
  ASSUME LauncherInv, NEW p \in Processes, ~quit,
         ComeUp(p) \/ LoseWeston \/ \E how \in EndsOf[p] : End(p, how)
  PROVE  LauncherInv'
<1> USE BoundsAssumption
<1>1. /\ LauncherTypeOK /\ crashes \in [Processes -> Nat]
      /\ process \in [Processes -> {"None"} \cup Alive \cup Ended]
      /\ \A q \in Processes : crashes[q] + retries[q] =
           Retries + (IF process[q] = "Crashed" THEN 1 ELSE 0)
      /\ retries \in [Processes -> 0..Retries] /\ "Compositor" \in Processes
  BY DEF LauncherInv, LauncherTypeOK, RetriesCounted, Processes
<1>2. CASE Listen(p)
  <2>1. LauncherTypeOK'
    BY <1>1, <1>2 DEF Listen, LauncherTypeOK, Alive
  <2> QED
    BY <2>1, <1>1, <1>2, CountsStay DEF Listen, LauncherInv
<1>3. CASE LoseWeston
  <2>1. LauncherTypeOK'
    BY <1>1, <1>3 DEF LoseWeston, LauncherTypeOK, Ended
  <2> QED
    BY <2>1, <1>1, <1>3, CountsStay DEF LoseWeston, LauncherInv
<1>4. CASE CannotConnect
  <2>1. LauncherTypeOK'
    BY <1>1, <1>4 DEF CannotConnect, LauncherTypeOK, Ended
  <2>2. RetriesCounted' /\ QuitsWithoutRetries'
    BY <1>1, <1>4 DEF CannotConnect, RetriesCounted, QuitsWithoutRetries
  <2> QED
    BY <2>1, <2>2 DEF LauncherInv
<1>5. ASSUME NEW how \in EndsOf[p], End(p, how)
      PROVE  LauncherInv'
  <2>1. how \in Ended
    BY EndsAssumption
  <2>2. /\ process[p] \in Alive /\ ends < MaxEnds /\ ends' = ends + 1
        /\ crashes' = [crashes EXCEPT ![p] = IF how = "Crashed" THEN @ + 1 ELSE @]
        /\ UNCHANGED <<watcher, retries, timer, stopped, quit, leftover, broken>>
        /\ socket' \subseteq socket
    BY <1>5 DEF End
  <2>3. /\ process' \in [Processes -> {"None"} \cup Alive \cup Ended]
        /\ process'[p] = how
        /\ \A q \in Processes :
             /\ process'[q] = "None" <=> process[q] = "None"
             /\ q # p => (process'[q] = "Crashed" <=> process[q] = "Crashed")
    BY <1>1, <1>5, <2>1, <2>2 DEF End, Alive, Ended
  <2>4. LauncherTypeOK'
    <3>1. ends' \in 0..MaxEnds /\ socket' \subseteq Processes
      BY <1>1, <2>2 DEF LauncherTypeOK
    <3>2. crashes' \in [Processes -> Nat]
      BY <1>1, <2>2
    <3>3. \A q \in Processes : process'[q] # "None" => watcher'[q] # "None"
      BY <1>1, <2>2, <2>3 DEF LauncherTypeOK
    <3> QED
      BY <1>1, <2>2, <2>3, <3>1, <3>2, <3>3 DEF LauncherTypeOK
  <2>5. process[p] # "Crashed"
    BY <2>2 DEF Alive
  <2>6. RetriesCounted' /\ QuitsWithoutRetries'
    BY <1>1, <2>2, <2>3, <2>5 DEF RetriesCounted, QuitsWithoutRetries
  <2> QED
    BY <2>4, <2>6 DEF LauncherInv
<1> QED
  BY <1>2, <1>3, <1>4, <1>5 DEF ComeUp

LEMMA HandleInv ==
  ASSUME LauncherInv, NEW p \in Processes, Handle(p)
  PROVE  LauncherInv'
<1>1. ~quit
  BY DEF Handle, Runs
<1>2. CASE ProcessError(p)
  BY <1>1, <1>2, ProcessErrorInv
<1>3. CASE ProcessFinished(p)
  <2>1. LauncherTypeOK'
    BY <1>3 DEF ProcessFinished, LauncherInv, LauncherTypeOK
  <2> QED
    BY <2>1, <1>3, CountsStay DEF ProcessFinished, LauncherInv, LauncherTypeOK
<1>4. CASE SocketAvailable(p)
  <2>1. /\ watcher[p] # "None" /\ timer' \subseteq Processes
        /\ StartProcess(IF p = "Weston" THEN {"Compositor"} ELSE {}, {p})
        /\ UNCHANGED <<socket, retries, ends, crashes, stopped, quit>>
        /\ broken' \in BOOLEAN
    BY <1>4 DEF SocketAvailable, LauncherInv, LauncherTypeOK
  <2>2. (IF p = "Weston" THEN {"Compositor"} ELSE {}) \in SUBSET Processes
    BY DEF Processes
  <2> QED
    BY <2>1, <2>2, StartInv
<1>5. CASE RespawnTimeout(p)
  <2>1. /\ timer' \subseteq Processes /\ StartProcess({p}, {})
        /\ UNCHANGED <<socket, retries, ends, crashes, stopped, quit>>
        /\ broken' \in BOOLEAN
    BY <1>5 DEF RespawnTimeout, LauncherInv, LauncherTypeOK
  <2> QED
    BY <2>1, StartInv
<1>6. CASE LeftoverSocketAvailable(p)
  <2>1. UNCHANGED <<socket, retries, timer, ends, crashes, stopped, quit>>
    BY <1>6 DEF LeftoverSocketAvailable
  <2>2. CASE broken' = TRUE /\ UNCHANGED <<process, watcher, leftover>>
    <3>1. LauncherTypeOK'
      BY <2>1, <2>2 DEF LauncherInv, LauncherTypeOK
    <3> QED
      BY <2>1, <2>2, <3>1, CountsStay DEF LauncherInv
  <2>3. CASE /\ watcher[p] # "None" /\ broken' = broken
             /\ StartProcess(IF p = "Weston" THEN {"Compositor"} ELSE {}, {p})
    <3>1. (IF p = "Weston" THEN {"Compositor"} ELSE {}) \in SUBSET Processes
      BY DEF Processes
    <3>2. timer' \subseteq Processes /\ broken' \in BOOLEAN
      BY <2>1, <2>3 DEF LauncherInv, LauncherTypeOK
    <3> QED
      BY <2>1, <2>3, <3>1, <3>2, StartInv
  <2> QED
    BY <1>6, <2>2, <2>3 DEF LeftoverSocketAvailable
<1> QED
  BY <1>2, <1>3, <1>4, <1>5, <1>6 DEF Handle

LEMMA LauncherNextInv ==
  ASSUME LauncherInv, [LauncherNext]_launcherVars
  PROVE  LauncherInv'
<1>1. ASSUME NEW p \in Processes, Handle(p)
      PROVE  LauncherInv'
  BY <1>1, HandleInv
<1>2. ASSUME NEW p \in Processes, ComeUp(p)
      PROVE  LauncherInv'
  BY <1>2, ChildInv DEF ComeUp, Runs
<1>3. ASSUME NEW p \in Processes, ~quit, NEW how \in EndsOf[p], End(p, how)
      PROVE  LauncherInv'
  BY <1>3, ChildInv
<1>4. CASE Runs /\ LoseWeston
  <2>1. "Weston" \in Processes
    BY DEF Processes
  <2> QED
    BY <2>1, <1>4, ChildInv DEF Runs
<1>5. CASE Runs /\ Stop
  BY <1>5, StopInv DEF Runs
<1>6. CASE UNCHANGED launcherVars
  BY <1>6 DEF launcherVars, LauncherInv, LauncherTypeOK, RetriesCounted,
     QuitsWithoutRetries
<1> QED
  BY <1>1, <1>2, <1>3, <1>4, <1>5, <1>6 DEF LauncherNext, Runs

LEMMA LauncherInitInv == LauncherInit => LauncherInv
<1> SUFFICES ASSUME LauncherInit PROVE LauncherInv
  OBVIOUS
<1>1. LauncherTypeOK
  <2>1. /\ process \in [Processes -> {"None"} \cup Alive \cup Ended]
        /\ watcher \in [Processes -> {"None", "Watching", "Found"}]
    BY DEF LauncherInit, Alive
  <2>2. socket \subseteq Processes
    BY DEF LauncherInit, Processes
  <2>3. retries \in [Processes -> 0..Retries] /\ crashes \in [Processes -> Nat]
    BY BoundsAssumption DEF LauncherInit
  <2>4. \A p \in Processes : process[p] # "None" => watcher[p] # "None"
    BY DEF LauncherInit
  <2>5. timer \subseteq Processes /\ ends \in 0..MaxEnds
    BY BoundsAssumption DEF LauncherInit
  <2>6. {stopped, quit, broken} \subseteq BOOLEAN /\ leftover \subseteq Processes
    BY DEF LauncherInit
  <2> QED
    BY <2>1, <2>2, <2>3, <2>4, <2>5, <2>6 DEF LauncherTypeOK
<1> QED
  BY <1>1, BoundsAssumption
     DEF LauncherInit, LauncherInv, RetriesCounted, QuitsWithoutRetries

\* A child that runs goes on, ends, or loses its weston.
LEMMA NeverStartedOver ==
  ASSUME LauncherTypeOK, [LauncherNext]_launcherVars, NEW p \in Processes,
         process[p] \in Alive, process'[p] = "Starting"
  PROVE  process[p] = "Starting"
<1>1. process \in [Processes -> {"None"} \cup Alive \cup Ended]
  BY DEF LauncherTypeOK
<1>2. ASSUME NEW q \in Processes, Handle(q)
      PROVE  process[p] = "Starting"
  <2>1. CASE ProcessError(q) \/ ProcessFinished(q)
    BY <2>1, <1>1 DEF ProcessError, ProcessFinished
  <2>2. CASE SocketAvailable(q) \/ LeftoverSocketAvailable(q) \/ RespawnTimeout(q)
    BY <2>2 DEF SocketAvailable, LeftoverSocketAvailable, RespawnTimeout, StartProcess, Alive
  <2> QED
    BY <1>2, <2>1, <2>2 DEF Handle
<1>3. ASSUME NEW q \in Processes, ComeUp(q)
      PROVE  process[p] = "Starting"
  BY <1>1, <1>3 DEF ComeUp, Listen, CannotConnect
<1>4. ASSUME NEW q \in Processes, NEW how \in EndsOf[q], End(q, how)
      PROVE  process[p] = "Starting"
  <2>1. how # "Starting"
    BY EndsAssumption DEF Ended
  <2> QED
    BY <1>4, <2>1 DEF End
<1>5. CASE LoseWeston
  BY <1>1, <1>5 DEF LoseWeston
<1>6. CASE Stop
  BY <1>6 DEF Stop
<1>7. CASE UNCHANGED launcherVars
  BY <1>7 DEF launcherVars
<1> QED
  BY <1>2, <1>3, <1>4, <1>5, <1>6, <1>7 DEF LauncherNext

\* The variables of the launcher have their types, and a child that runs or has
\* ended has a watcher.
THEOREM LauncherTypeCorrect == LauncherSpec => []LauncherTypeOK
<1>1. LauncherInv => LauncherTypeOK
  BY DEF LauncherInv
<1> QED
  BY <1>1, LauncherInitInv, LauncherNextInv, PTL DEF LauncherSpec

\* Whatever ends, whenever the launcher hears of it, and whether it is stopped in
\* between: crashes use up the retries and nothing else does, the launcher quits
\* when there is none left and never else, and no timer or start of weston
\* starts a running child over.
THEOREM AlwaysSupervised == LauncherSpec => Supervised
<1>1. LauncherInv => GivesUpAfterRetries
  <2> SUFFICES ASSUME LauncherInv PROVE GivesUpAfterRetries
    OBVIOUS
  <2>1. ASSUME NEW p \in Processes
        PROVE  crashes[p] <= Retries + 1
    <3>1. crashes[p] \in Nat /\ retries[p] \in 0..Retries
      BY DEF LauncherInv, LauncherTypeOK
    <3> QED
      BY <3>1, BoundsAssumption DEF LauncherInv, RetriesCounted
  <2> QED
    BY <2>1 DEF LauncherInv, QuitsWithoutRetries, GivesUpAfterRetries
<1>2. LauncherInv /\ [LauncherNext]_launcherVars =>
        [\A p \in Processes :
           process[p] \in Alive /\ process'[p] = "Starting" =>
             process[p] = "Starting"]_launcherVars
  BY NeverStartedOver DEF LauncherInv
<1> QED
  BY <1>1, <1>2, LauncherInitInv, LauncherNextInv, PTL
     DEF LauncherSpec, Supervised, OneChildEach

=============================================================================
