-------------------------- MODULE CompositorProcess --------------------------
(***************************************************************************)
(* The launcher in nested mode: it runs weston and, as soon as weston's    *)
(* socket appears, the compositor inside it.  Each of the two is kept by a *)
(* CompositorProcess, which restarts it three seconds after a crash, a     *)
(* limited number of times.                                                *)
(*                                                                         *)
(* How a child ends and when the launcher hears of it are two steps, so    *)
(* that timers, the directory watcher and stop() can come between them.    *)
(***************************************************************************)
EXTENDS Naturals

CONSTANTS Retries,     \* the initial m_retries
          MaxEnds,     \* bound on the ends of children for their own reasons
          EndsOf,      \* how each process may end for its own reasons
          Stops,       \* may the launcher be stopped?
          DiesOfStop,  \* processes that SIGTERM kills instead of ending them
          Prompt       \* has the compositor ended, and the launcher heard of
                       \* it, when a timer of three seconds fires?

Processes == {"Weston", "Compositor"}

\* An orphaned compositor has lost its weston and has not ended yet.
Alive == {"Starting", "Up", "Orphaned"}
Ended == {"Exited", "Failed", "Crashed"}

ASSUME BoundsAssumption == Retries \in Nat /\ MaxEnds \in Nat
ASSUME EndsAssumption ==
  EndsOf \in [Processes -> SUBSET Ended] /\ DiesOfStop \subseteq Processes

VARIABLES
  process,   \* m_process: "None", or the state of the child
  watcher,   \* m_watcher: "None", "Watching" its directory, or "Found" the socket
  socket,    \* processes with a socket in the directory, maybe a stale one
  retries,   \* m_retries
  timer,     \* processes with a respawn timer running
  ends,      \* ends so far that nobody asked for
  crashes,   \* crashes so far of each process
  stopped,   \* has stop() been called?
  quit,      \* has QCoreApplication::quit()?
  leftover,  \* processes with an earlier watcher that is still connected
  broken     \* has the launcher used the m_watcher that there is not?

launcherVars ==
  <<process, watcher, socket, retries, timer, ends, crashes, stopped, quit,
    leftover, broken>>

-----------------------------------------------------------------------------
(* The handlers of one process *)

\* (Mutant) start() does not ask whether the process runs.
StartAnyway(ps, found) ==
  /\ process' = [p \in Processes |-> IF p \in ps THEN "Starting" ELSE process[p]]
  /\ watcher' = [p \in Processes |-> IF p \in ps THEN "Watching"
                                     ELSE IF p \in found THEN "Found"
                                     ELSE watcher[p]]
  /\ UNCHANGED leftover

\* start() of the processes ps, which does nothing to those there are, while
\* the watchers of found have found their socket.  A watcher that
\* processFinished() has left is replaced, and remains connected.
StartProcess(ps, found) ==
  LET new == {p \in ps : process[p] = "None"} IN
  /\ process' = [p \in Processes |-> IF p \in new THEN "Starting" ELSE process[p]]
  /\ watcher' = [p \in Processes |-> IF p \in new THEN "Watching"
                                     ELSE IF p \in found THEN "Found"
                                     ELSE watcher[p]]
  /\ leftover' = leftover \cup {p \in new : watcher[p] = "Watching"}

\* (Mutant) A respawn does not count.
RespawnUncounted(p) ==
  /\ timer' = timer \cup {p}
  /\ watcher' = [watcher EXCEPT ![p] = "None"]
  /\ UNCHANGED retries

\* (Mutant) A respawn does not start its timer.
RespawnWithoutTimer(p) ==
  /\ retries' = [retries EXCEPT ![p] = @ - 1]
  /\ watcher' = [watcher EXCEPT ![p] = "None"]
  /\ UNCHANGED timer

\* respawn(), when there are retries left.
Respawn(p) ==
  /\ retries' = [retries EXCEPT ![p] = @ - 1]
  /\ timer' = timer \cup {p}
  /\ watcher' = [watcher EXCEPT ![p] = "None"]

-----------------------------------------------------------------------------
(* The children *)

Listen(p) ==
  /\ process[p] = "Starting"
  /\ p = "Compositor" => process["Weston"] = "Up"
  /\ process' = [process EXCEPT ![p] = "Up"]
  /\ socket' = socket \cup {p}
  /\ UNCHANGED <<watcher, retries, timer, ends, crashes, stopped, quit, leftover, broken>>

\* A compositor that cannot connect to weston aborts.
CannotConnect ==
  /\ process["Compositor"] = "Starting"
  /\ process["Weston"] # "Up"
  /\ process' = [process EXCEPT !["Compositor"] = "Crashed"]
  /\ crashes' = [crashes EXCEPT !["Compositor"] = @ + 1]
  /\ UNCHANGED <<watcher, socket, retries, timer, ends, stopped, quit, leftover, broken>>

\* A child ends for its own reasons.  A crash leaves the socket behind; the
\* end of weston orphans a compositor.
End(p, how) ==
  /\ process[p] \in Alive
  /\ ends < MaxEnds
  /\ ends' = ends + 1
  /\ crashes' = [crashes EXCEPT ![p] = IF how = "Crashed" THEN @ + 1 ELSE @]
  /\ process' = [q \in Processes |-> CASE q = p -> how
                                       [] q # p /\ q = "Compositor" /\ process[q] = "Up" -> "Orphaned"
                                       [] OTHER -> process[q]]
  /\ socket' = IF how = "Crashed" THEN socket ELSE socket \ {p}
  /\ UNCHANGED <<watcher, retries, timer, stopped, quit, leftover, broken>>

\* An orphan notices that its connection is broken and exits with an error.
LoseWeston ==
  /\ process["Compositor"] = "Orphaned"
  /\ process' = [process EXCEPT !["Compositor"] = "Failed"]
  /\ socket' = socket \ {"Compositor"}
  /\ UNCHANGED <<watcher, retries, timer, ends, crashes, stopped, quit, leftover, broken>>

-----------------------------------------------------------------------------
(* The launcher's event loop *)

\* (Mutant) A crash is one more retry than there are.
ProcessErrorOnceMore(p) ==
  /\ process[p] = "Crashed"
  /\ process' = [process EXCEPT ![p] = "None"]
  /\ Respawn(p)
  /\ UNCHANGED <<socket, ends, crashes, stopped, quit, leftover, broken>>

\* processError(), for a crash.  When there are no retries left the launcher
\* quits; finished() follows, as a crash has the exit code 0.
ProcessError(p) ==
  /\ process[p] = "Crashed"
  /\ process' = [process EXCEPT ![p] = "None"]
  /\ IF retries[p] >= 1
     THEN Respawn(p) /\ UNCHANGED quit
     ELSE quit' = TRUE /\ UNCHANGED <<watcher, retries, timer>>
  /\ UNCHANGED <<socket, ends, crashes, stopped, leftover, broken>>

\* processFinished(), for any other end.
ProcessFinished(p) ==
  /\ process[p] \in {"Exited", "Failed"}
  /\ process' = [process EXCEPT ![p] = "None"]
  /\ UNCHANGED <<watcher, socket, retries, timer, ends, crashes, stopped, quit>>
  /\ UNCHANGED <<leftover, broken>>

\* socketAvailable(), called by any change of the directory.  started() of
\* weston is connected to start() of the compositor.
SocketAvailable(p) ==
  /\ watcher[p] = "Watching"
  /\ p \in socket
  /\ StartProcess(IF p = "Weston" THEN {"Compositor"} ELSE {}, {p})
  /\ UNCHANGED <<socket, retries, timer, ends, crashes, stopped, quit, broken>>

\* socketAvailable(), called by a change that an earlier watcher tells.  The
\* watcher it removes is the present one, which a crash or stop() takes away.
LeftoverSocketAvailable(p) ==
  /\ p \in leftover
  /\ p \in socket
  /\ IF watcher[p] = "None"
     THEN broken' = TRUE /\ UNCHANGED <<process, watcher, leftover>>
     ELSE /\ StartProcess(IF p = "Weston" THEN {"Compositor"} ELSE {}, {p})
          /\ UNCHANGED broken
  /\ UNCHANGED <<socket, retries, timer, ends, crashes, stopped, quit>>

\* The timer of respawn() fires.
RespawnTimeout(p) ==
  /\ p \in timer
  /\ Prompt => process["Compositor"] \notin {"Orphaned", "Exited", "Failed"}
  /\ timer' = timer \ {p}
  /\ StartProcess({p}, {})
  /\ UNCHANGED <<socket, retries, ends, crashes, stopped, quit, broken>>

\* The processes for which stop() runs processError(): waitForFinished()
\* delivers an end that was not heard of, or the one that SIGTERM causes.
Crashing == {p \in Processes : \/ process[p] = "Crashed"
                               \/ process[p] \in Alive /\ p \in DiesOfStop}

\* CompositorLauncher::stop(), which stops both.
Stop ==
  /\ Stops /\ ~stopped
  /\ stopped' = TRUE
  /\ process' = [p \in Processes |-> "None"]
  /\ watcher' = [p \in Processes |-> IF process[p] = "None" THEN watcher[p] ELSE "None"]
  /\ crashes' = [p \in Processes |-> IF p \in Crashing /\ process[p] # "Crashed"
                                     THEN crashes[p] + 1 ELSE crashes[p]]
  /\ LET again == {p \in Crashing : retries[p] >= 1} IN
     /\ retries' = [p \in Processes |-> IF p \in again THEN retries[p] - 1
                                        ELSE retries[p]]
     /\ timer' = timer \cup again
     /\ quit' = (Crashing # again)
  /\ socket' = socket \ {p \in Processes : process[p] \in Alive /\ p \notin DiesOfStop}
  /\ UNCHANGED <<ends, leftover, broken>>

-----------------------------------------------------------------------------

\* CompositorLauncher::start() in nested mode.  A socket may be left from an
\* earlier session.
LauncherInit ==
  /\ process = [p \in Processes |-> IF p = "Weston" THEN "Starting" ELSE "None"]
  /\ watcher = [p \in Processes |-> IF p = "Weston" THEN "Watching" ELSE "None"]
  /\ socket \in {{}, {"Weston"}}
  /\ retries = [p \in Processes |-> Retries]
  /\ crashes = [p \in Processes |-> 0]
  /\ timer = {} /\ ends = 0 /\ stopped = FALSE /\ quit = FALSE
  /\ leftover = {} /\ broken = FALSE

Runs == ~quit /\ ~broken

Handle(p) ==
  /\ Runs
  /\ \/ ProcessError(p) \/ ProcessFinished(p)
     \/ SocketAvailable(p) \/ LeftoverSocketAvailable(p)
     \/ RespawnTimeout(p)

ComeUp(p) ==
  /\ Runs
  /\ Listen(p) \/ (p = "Compositor" /\ CannotConnect)

LauncherNext ==
  \/ \E p \in Processes : Handle(p) \/ ComeUp(p)
  \/ /\ Runs
     /\ \/ \E p \in Processes : \E how \in EndsOf[p] : End(p, how)
        \/ LoseWeston
        \/ Stop

LauncherSpec == LauncherInit /\ [][LauncherNext]_launcherVars

\* The event loop runs: ends are delivered, timers fire and directories are
\* watched.  Children come up or end, and orphans end.
LauncherFairness ==
  /\ \A p \in Processes : /\ WF_launcherVars(Runs /\ (ProcessError(p) \/ ProcessFinished(p)))
                          /\ WF_launcherVars(Runs /\ SocketAvailable(p))
                          /\ WF_launcherVars(Runs /\ RespawnTimeout(p))
                          /\ WF_launcherVars(ComeUp(p))
  /\ WF_launcherVars(Runs /\ LoseWeston)

LauncherFairSpec == LauncherSpec /\ LauncherFairness

-----------------------------------------------------------------------------

LauncherTypeOK ==
  /\ process \in [Processes -> {"None"} \cup Alive \cup Ended]
  /\ watcher \in [Processes -> {"None", "Watching", "Found"}]
  /\ socket \subseteq Processes /\ timer \subseteq Processes
  /\ retries \in [Processes -> 0..Retries]
  /\ crashes \in [Processes -> Nat] /\ ends \in 0..MaxEnds
  /\ {stopped, quit, broken} \subseteq BOOLEAN /\ leftover \subseteq Processes
  /\ \A p \in Processes : process[p] # "None" => watcher[p] # "None"

\* A process that keeps crashing, for whatever reasons and however it was
\* started in between, comes back Retries times, and then the launcher quits.
GivesUpAfterRetries ==
  /\ \A p \in Processes : crashes[p] <= Retries + 1
  /\ quit => \E p \in Processes : crashes[p] = Retries + 1

\* A running child is never started over: neither by its timer after weston
\* has started it, nor by weston while its own timer runs.
OneChildEach ==
  [][\A p \in Processes :
       process[p] \in Alive /\ process'[p] = "Starting" => process[p] = "Starting"]_launcherVars

\* A process that crashes is restarted Retries times, and one that runs is never
\* started over.
Supervised == []GivesUpAfterRetries /\ OneChildEach

\* "Starts the compositor as soon as Weston is started"
\* (compositorlauncher.cpp:105): whenever weston starts, also after a crash,
\* a compositor runs in it, unless weston ends again or the launcher does.  A
\* compositor that exits before it listens is not started again.
CompositorFollowsWeston ==
  process["Weston"] = "Starting" /\ watcher["Weston"] = "Watching" ~>
    \/ \A p \in Processes : process[p] = "Up"
    \/ process["Weston"] \notin Alive
    \/ process["Compositor"] \in {"Exited", "Failed"}
    \/ stopped \/ ~Runs

-----------------------------------------------------------------------------
(* Promises the code does not keep: the README says what refutes them *)

\* What was stopped is not started again.
StaysStopped == stopped => \A p \in Processes : process[p] = "None"

\* Who watches over the other two does not crash itself.
LauncherLives == ~broken

=============================================================================
