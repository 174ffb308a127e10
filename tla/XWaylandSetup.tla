--------------------------- MODULE XWaylandSetup ---------------------------
(***************************************************************************)
(* How a compositor finds a display for its X server: a lock file in /tmp  *)
(* that names who has the display, an abstract socket and a socket in the  *)
(* file system.  Other compositors of the user do the same at the same     *)
(* time, crash and leave their files behind.                               *)
(***************************************************************************)
EXTENDS Naturals

CONSTANTS Compositors, MaxDisplay,
          Crashes,  \* do compositors crash?
          Foreign,  \* may another user have left a lock file?
          Alone,    \* is one compositor at a time in setup()?
          Errors,   \* compositors for which socket(), bind() or listen() may fail
          None

Displays == 0..MaxDisplay

\* Another X server that runs, and one that is gone.
Others == {"Xorg", "gone"}

VARIABLES
  pc,        \* where each compositor is in setup()
  display,   \* the display it tries
  holds,     \* is the file it has open still that of the display?
  lockFile,  \* of each display: who wrote it ...
  writable,  \* ... and can it be written, because it is not read-only yet?
  abstract,  \* who is bound to the abstract socket
  unix,      \* who is bound to the socket in the file system
  bare       \* who has gone on without the abstract socket: m_abstractFd is -1

vars == <<pc, display, holds, lockFile, writable, abstract, unix, bare>>

\* A lock file that nobody has written yet.
Empty == "empty"

Working == {"Open", "Exists", "Read", "Remove", "Permit", "Write", "Abstract", "Unix"}

\* kill(pid, 0)
Running(pid) == IF pid \in Compositors THEN pc[pid] \in Working \cup {"Listening", "Failed"}
                ELSE pid = "Xorg"

-----------------------------------------------------------------------------

Goto(p, step) == pc' = [pc EXCEPT ![p] = step]

\* The next display.  (The code knows no last one.)
TryNext(p) ==
  /\ display[p] < MaxDisplay
  /\ Goto(p, "Open")
  /\ display' = [display EXCEPT ![p] = @ + 1]

\* Whatever file is there: those who have it open write to no file any more.
Unlink(d) ==
  /\ lockFile' = [lockFile EXCEPT ![d] = None]
  /\ holds' = [q \in Compositors |-> holds[q] /\ display[q] # d]

Start(p) ==
  /\ pc[p] = "Off"
  /\ Alone => \A q \in Compositors : pc[q] \notin Working
  /\ Goto(p, "Open")
  /\ UNCHANGED <<display, holds, lockFile, writable, abstract, unix, bare>>

\* createLockFile(): open(WriteOnly) makes the file, or empties one that can
\* be written.
Open(p) ==
  LET d == display[p] IN
  /\ pc[p] = "Open"
  /\ IF lockFile[d] = None \/ writable[d]
     THEN /\ lockFile' = [lockFile EXCEPT ![d] = Empty]
          /\ writable' = [writable EXCEPT ![d] = TRUE]
          /\ holds' = [holds EXCEPT ![p] = TRUE]
          /\ Goto(p, "Permit")
     ELSE Goto(p, "Exists") /\ UNCHANGED <<lockFile, writable, holds>>
  /\ UNCHANGED <<display, abstract, unix, bare>>

\* exists(), or the file is gone in between.
Exists(p) ==
  /\ pc[p] = "Exists"
  /\ Goto(p, IF lockFile[display[p]] = None THEN "Failed" ELSE "Read")
  /\ UNCHANGED <<display, holds, lockFile, writable, abstract, unix, bare>>

\* The display is another's, unless its owner is gone.
Read(p) ==
  LET owner == lockFile[display[p]] IN
  /\ pc[p] = "Read"
  /\ IF owner \in {None, Empty} \/ Running(owner) THEN TryNext(p)
     ELSE Goto(p, "Remove") /\ UNCHANGED display
  /\ UNCHANGED <<holds, lockFile, writable, abstract, unix, bare>>

\* (Mutant) The display is tried again, with the file still there.
RemoveNothing(p) ==
  /\ pc[p] = "Remove"
  /\ Goto(p, "Open")
  /\ UNCHANGED <<display, holds, lockFile, writable, abstract, unix, bare>>

\* A stale file that can be removed is, and the next display is tried.  One
\* that cannot, as it is another user's or gone meanwhile, is tried again.
RemoveFile(p) ==
  LET d == display[p] IN
  /\ pc[p] = "Remove"
  /\ IF lockFile[d] \in Others \cup {None}
     THEN Goto(p, "Open") /\ UNCHANGED <<display, lockFile, holds>>
     ELSE TryNext(p) /\ Unlink(d)
  /\ UNCHANGED <<writable, abstract, unix, bare>>

\* setPermissions() of whatever file is there.
Permit(p) ==
  /\ pc[p] = "Permit"
  /\ writable' = [writable EXCEPT ![display[p]] = FALSE]
  /\ Goto(p, "Write")
  /\ UNCHANGED <<display, holds, lockFile, abstract, unix, bare>>

Write(p) ==
  /\ pc[p] = "Write"
  /\ lockFile' = IF holds[p] THEN [lockFile EXCEPT ![display[p]] = p] ELSE lockFile
  /\ holds' = [holds EXCEPT ![p] = FALSE]
  /\ Goto(p, "Abstract")
  /\ UNCHANGED <<display, writable, abstract, unix, bare>>

\* (Mutant) That the address is in use is not noticed.
BindAnyway(p) ==
  /\ pc[p] = "Abstract"
  /\ abstract' = [abstract EXCEPT ![display[p]] = p]
  /\ Goto(p, "Unix")
  /\ UNCHANGED <<display, holds, lockFile, writable, unix, bare>>

\* bindToAbstractSocket(); a display that is in use is given up with its file.
\* Of any other error the code takes no notice.
BindToAbstractSocket(p) ==
  LET d == display[p] IN
  /\ pc[p] = "Abstract"
  /\ \/ /\ abstract[d] = None
        /\ abstract' = [abstract EXCEPT ![d] = p]
        /\ Goto(p, "Unix")
        /\ UNCHANGED <<display, lockFile, holds, bare>>
     \/ /\ abstract[d] # None
        /\ TryNext(p) /\ Unlink(d)
        /\ UNCHANGED <<abstract, bare>>
     \/ /\ p \in Errors
        /\ bare' = bare \cup {p}
        /\ Goto(p, "Unix")
        /\ UNCHANGED <<display, lockFile, holds, abstract>>
  /\ UNCHANGED <<writable, unix>>

\* p closes its abstract socket, or ends and the kernel does.
Release(p) ==
  abstract' = [d \in Displays |-> IF abstract[d] = p THEN None ELSE abstract[d]]

\* bindToUnixSocket() removes what is there first, unless it has no socket to
\* bind.  If it fails the lock file and the abstract socket are given up.
BindToUnixSocket(p) ==
  LET d == display[p] IN
  /\ pc[p] = "Unix"
  /\ \/ /\ unix' = [unix EXCEPT ![d] = p]
        /\ Goto(p, "Listening")
        /\ UNCHANGED <<holds, lockFile, abstract>>
     \/ /\ p \in Errors
        /\ unix' \in {unix, [unix EXCEPT ![d] = None]}
        /\ Goto(p, "Failed")
        /\ Unlink(d) /\ Release(p)
  /\ UNCHANGED <<display, writable, bare>>

\* The process ends.
Gone(p) ==
  /\ Goto(p, "Gone")
  /\ Release(p)

Crash(p) ==
  /\ Crashes
  /\ pc[p] \in Working \cup {"Listening"}
  /\ Gone(p)
  /\ holds' = [holds EXCEPT ![p] = FALSE]
  /\ UNCHANGED <<display, lockFile, writable, unix, bare>>

\* shutdown()
Shutdown(p) ==
  /\ pc[p] = "Listening"
  /\ Gone(p)
  /\ Unlink(display[p])
  /\ UNCHANGED <<display, writable, unix, bare>>

Setup(p) ==
  \/ Open(p) \/ Exists(p) \/ Read(p) \/ RemoveFile(p) \/ Permit(p) \/ Write(p)
  \/ BindToAbstractSocket(p) \/ BindToUnixSocket(p)

-----------------------------------------------------------------------------

\* Somebody else may have the first display, or have left its file there.
Init ==
  /\ pc = [p \in Compositors |-> "Off"]
  /\ display = [p \in Compositors |-> 0]
  /\ holds = [p \in Compositors |-> FALSE]
  /\ \E owner \in {None, "Xorg"} \cup (IF Foreign THEN {"gone"} ELSE {}) :
       /\ lockFile = [d \in Displays |-> IF d = 0 THEN owner ELSE None]
       /\ abstract = [d \in Displays |-> IF d = 0 /\ owner = "Xorg" THEN owner ELSE None]
       /\ unix = lockFile
  /\ writable = [d \in Displays |-> FALSE]
  /\ bare = {}

Next == \E p \in Compositors : Start(p) \/ Setup(p) \/ Crash(p) \/ Shutdown(p)

Fairness == \A p \in Compositors : WF_vars(Setup(p))

Spec == Init /\ [][Next]_vars
FairSpec == Spec /\ Fairness

-----------------------------------------------------------------------------

TypeOK ==
  /\ pc \in [Compositors -> Working \cup {"Off", "Listening", "Failed", "Gone"}]
  /\ display \in [Compositors -> Displays]
  /\ holds \in [Compositors -> BOOLEAN] /\ writable \in [Displays -> BOOLEAN]
  /\ lockFile \in [Displays -> Compositors \cup Others \cup {None, Empty}]
  /\ {abstract, unix} \subseteq [Displays -> Compositors \cup Others \cup {None}]
  /\ bare \subseteq Compositors

\* However compositors race for displays, crash, fail and leave files behind:
\* who listens on a display has both of its sockets and has them alone, unless
\* one that could not have an abstract socket is behind it.  Who has none
\* himself has nothing that keeps others away.
ListensAlone ==
  \A p \in Compositors \ bare :
    pc[p] = "Listening" =>
      /\ abstract[display[p]] = p
      /\ unix[display[p]] = p \/ \E q \in bare : display[q] = display[p]

\* setup() comes to an end.
SetupEnds ==
  \A p \in Compositors : pc[p] = "Open" ~> pc[p] \in {"Listening", "Failed", "Gone"}

\* (Violated without Alone) The lock file of who listens is there, and its.
LockNamesOwner ==
  \A p \in Compositors : pc[p] = "Listening" => lockFile[display[p]] = p

\* (Violated with Errors) Who listens has both sockets, as Xwayland is told to
\* listen on both.
HasBothSockets ==
  \A p \in Compositors :
    pc[p] = "Listening" => abstract[display[p]] = p /\ unix[display[p]] = p

\* (Violated) A display is found.
NeverFails == \A p \in Compositors : pc[p] # "Failed"
=============================================================================
