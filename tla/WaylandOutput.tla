--------------------------- MODULE WaylandOutput ---------------------------
(***************************************************************************)
(* The description of an output, what clients know of it through the       *)
(* client library, and the configurations with which they change it.       *)
(*                                                                         *)
(* The output is that of a fake screen: the shell binds its properties to  *)
(* those of the screen, and hands each change set of a configuration that  *)
(* is applied to the screen.  A change set begins as a copy of all the     *)
(* properties, taken with the first request.                               *)
(***************************************************************************)
EXTENDS Naturals, SequencesExt

CONSTANTS Clients, Configurations,
          Changing,    \* properties they change
          Values,      \* of each property
          Modes,       \* a size and a refresh rate
          MaxEvents,   \* under way, when the next are sent
          Alone,       \* one configuration is filled and applied at a time
          Careful      \* the current mode is not added again without its flag

ASSUME OutputAssumption ==
  Changing \subseteq {"position", "transform", "scale"} /\ Modes # {} /\ Values # {} /\ MaxEvents \in Nat

VARIABLES
  properties,
  sizeFollowsWindow,
  modes, currentMode, preferredMode,  \* 0 for -1
  resources,   \* clients that have bound the output
  wire,        \* events to each of them
  known,       \* properties and modes in each client library
  announced,   \* the properties it knew when it announced a change last
  clientMode,  \* the mode that the iterator currentMode of each is at, if any
  changes,     \* the change set of each configuration
  asked,       \* history: what it asks for since it was applied last
  wanted       \* history: the properties, as they were asked for

modeVars   == <<modes, currentMode, preferredMode>>
clientVars == <<resources, known, announced, clientMode>>
configVars == <<changes, asked, wanted>>
outputVars == <<properties, sizeFollowsWindow, modeVars, clientVars, wire, configVars>>

Properties == {"position", "transform", "scale"}

\* The values of f, and those of g where f has none.
Over(f, g) == [p \in DOMAIN g |-> IF p \in DOMAIN f THEN f[p] ELSE g[p]]

With(f, p, v) == [q \in {p} \cup DOMAIN f |-> IF q = p THEN v ELSE f[q]]

-----------------------------------------------------------------------------
(* What is sent *)

Done == [type |-> "done"]
Geometry(props) ==
  [type |-> "properties", of |-> [p \in {"position", "transform"} |-> props[p]]]
Scale(props) == [type |-> "properties", of |-> [p \in {"scale"} |-> props[p]]]
ModesInfo(ms) == [i \in DOMAIN ms |-> [type |-> "mode", mode |-> ms[i]]]

\* To those who have bound the output.
Send(events) ==
  /\ \A c \in resources : Len(wire[c]) <= MaxEvents
  /\ wire' = [c \in Clients |-> IF c \in resources THEN wire[c] \o events ELSE wire[c]]

\* output_bind_resource()
Bind(c) ==
  /\ c \notin resources
  /\ resources' = resources \cup {c}
  /\ wire' = [wire EXCEPT ![c] =
                <<Geometry(properties)>> \o ModesInfo(modes) \o <<Scale(properties), Done>>]
  /\ UNCHANGED <<properties, sizeFollowsWindow, modeVars, known, announced,
                 clientMode, configVars>>

-----------------------------------------------------------------------------
(* Modes *)

\* Takes a flag from the mode that has it.
Unflagged(ms, i, flag) == IF i = 0 THEN ms ELSE [ms EXCEPT ![i].flags = @ \ {flag}]

\* A mode whose size and rate are there already gets the new flags.
AddMode(m, flags) ==
  /\ ~sizeFollowsWindow
  /\ Careful /\ "current" \notin flags =>
       \A i \in DOMAIN modes : i = currentMode => modes[i].size # m
  /\ LET one   == IF "current" \in flags THEN Unflagged(modes, currentMode, "current")
                  ELSE modes
         two   == IF "preferred" \in flags THEN Unflagged(one, preferredMode, "preferred")
                  ELSE one
         there == {i \in DOMAIN two : two[i].size = m}
         at    == IF there = {} THEN Len(two) + 1 ELSE CHOOSE i \in there : TRUE
         new   == [i \in 1..Len(two) \cup {at} |->
                     IF i = at THEN [size |-> m, flags |-> flags] ELSE two[i]]
         same  == at \in DOMAIN two /\ two[at].flags = flags
     IN  /\ modes' = new
         /\ currentMode' = IF "current" \notin flags THEN currentMode
                           ELSE IF same THEN 0 ELSE at
         /\ preferredMode' = IF "preferred" \notin flags THEN preferredMode
                             ELSE IF same THEN 0 ELSE at
         /\ IF same THEN UNCHANGED wire ELSE Send(ModesInfo(new))
  /\ UNCHANGED <<properties, sizeFollowsWindow, clientVars, configVars>>

\* (Mutant) Clients hear only of the mode that is current now.
SetCurrentModeAlone(i) ==
  /\ ~sizeFollowsWindow
  /\ i \in DOMAIN modes /\ i # currentMode
  /\ LET new == [Unflagged(modes, currentMode, "current")
                   EXCEPT ![i].flags = @ \cup {"current"}]
     IN  modes' = new /\ Send(<<ModesInfo(new)[i]>>)
  /\ currentMode' = i
  /\ UNCHANGED <<properties, sizeFollowsWindow, preferredMode, clientVars, configVars>>

\* setCurrentMode(), of a mode that "must have been previously added", and
\* setCurrentModeId().  A window that is resized with it leads nowhere, as
\* the size of the output does not follow it.
SetCurrentMode(i) ==
  /\ ~sizeFollowsWindow
  /\ i \in DOMAIN modes /\ i # currentMode
  /\ LET new == [Unflagged(modes, currentMode, "current")
                   EXCEPT ![i].flags = @ \cup {"current"}]
     IN  modes' = new /\ Send(ModesInfo(new))
  /\ currentMode' = i
  /\ UNCHANGED <<properties, sizeFollowsWindow, preferredMode, clientVars, configVars>>

\* handleSetWidth() or handleSetHeight()
ResizeWindow(m) ==
  /\ sizeFollowsWindow /\ currentMode # 0
  /\ m # modes[currentMode].size
  /\ LET new == [modes EXCEPT ![currentMode].size = m]
     IN  modes' = new /\ Send(ModesInfo(new))
  /\ UNCHANGED <<properties, sizeFollowsWindow, currentMode, preferredMode,
                 clientVars, configVars>>

-----------------------------------------------------------------------------
(* Configurations *)

NoChangeset == <<>>

\* The change set, which is made when there is none.
PendingChanges(k) == IF changes[k] = NoChangeset THEN properties ELSE changes[k]

\* outputconfiguration_position() and the like
Request(k, p, v) ==
  /\ Alone => \A l \in Configurations \ {k} : DOMAIN asked[l] = {}
  /\ changes' = [changes EXCEPT ![k] = With(PendingChanges(k), p, v)]
  /\ asked' = [asked EXCEPT ![k] = With(@, p, v)]
  /\ UNCHANGED <<properties, sizeFollowsWindow, modeVars, clientVars, wire, wanted>>

\* The order in which a screen takes over a change set.
Order == <<"transform", "position", "scale">>

\* Screen::applyChangeset(): each property of the screen that changes is set
\* in the output, which tells.
ApplyChangeset(k) ==
  LET upTo(i) == [p \in Properties |->
                    IF p \in {Order[j] : j \in 1..i} THEN PendingChanges(k)[p]
                    ELSE properties[p]]
      sent(i) == IF upTo(i) = upTo(i - 1) THEN <<>>
                 ELSE <<IF Order[i] = "scale" THEN Scale(upTo(i)) ELSE Geometry(upTo(i)), Done>>
  IN  properties' = upTo(3) /\ Send(sent(1) \o sent(2) \o sent(3))

\* (Mutant) setApplied() does not clear the changes.
ApplyKeepingChanges(k) ==
  /\ ApplyChangeset(k)
  /\ asked' = [asked EXCEPT ![k] = <<>>]
  /\ wanted' = Over(asked[k], wanted)
  /\ UNCHANGED <<sizeFollowsWindow, modeVars, clientVars, changes>>

\* outputconfiguration_apply(): changeRequested() makes the shell give the
\* change set to the screen and call setApplied().
Apply(k) ==
  /\ ApplyChangeset(k)
  /\ changes' = [changes EXCEPT ![k] = NoChangeset]
  /\ asked' = [asked EXCEPT ![k] = <<>>]
  /\ wanted' = Over(asked[k], wanted)
  /\ UNCHANGED <<sizeFollowsWindow, modeVars, clientVars>>

-----------------------------------------------------------------------------
(* Clients *)

\* output_mode(): a mode that is there gets the flags.
WithMode(ms, m) ==
  IF \E i \in DOMAIN ms : ms[i].size = m.size
  THEN [i \in DOMAIN ms |-> IF ms[i].size = m.size THEN m ELSE ms[i]]
  ELSE Append(ms, m)

\* Only one that is not there becomes the current one.  When another takes its
\* place in the vector, that may move, and the iterator is left behind.
TakeMode(c, m) ==
  LET there == \E i \in DOMAIN known[c].modes : known[c].modes[i].size = m.size IN
  \/ /\ there
     /\ UNCHANGED clientMode
  \/ /\ ~there /\ "current" \in m.flags
     /\ clientMode' = [clientMode EXCEPT ![c] = {m.size}]
  \/ /\ ~there /\ "current" \notin m.flags
     /\ \E at \in {clientMode[c], {}} : clientMode' = [clientMode EXCEPT ![c] = at]

\* output_geometry() and output_scale(), output_mode(), output_done()
Hear(c) ==
  /\ wire[c] # <<>>
  /\ wire' = [wire EXCEPT ![c] = Tail(@)]
  /\ LET event == Head(wire[c]) IN
     \/ /\ event.type = "properties"
        /\ known' = [known EXCEPT ![c].properties = Over(event.of, @)]
        /\ UNCHANGED <<announced, clientMode>>
     \/ /\ event.type = "mode"
        /\ known' = [known EXCEPT ![c].modes = WithMode(@, event.mode)]
        /\ TakeMode(c, event.mode)
        /\ UNCHANGED announced
     \/ /\ event.type = "done"
        /\ announced' = [announced EXCEPT ![c] = known[c].properties]
        /\ UNCHANGED <<known, clientMode>>
  /\ UNCHANGED <<properties, sizeFollowsWindow, modeVars, resources, configVars>>

-----------------------------------------------------------------------------
Flags == {"current", "preferred"}

\* An output as wide and high as its window has one mode for it.
OutputInit ==
  /\ properties \in [Properties -> Values]
  /\ sizeFollowsWindow \in BOOLEAN
  /\ IF sizeFollowsWindow
     THEN /\ \E m \in Modes : modes = <<[size |-> m, flags |-> Flags]>>
          /\ currentMode = 1 /\ preferredMode = 1
     ELSE modes = <<>> /\ currentMode = 0 /\ preferredMode = 0
  /\ resources = {}
  /\ wire = [c \in Clients |-> <<>>]
  /\ LET default == [p \in Properties |-> CHOOSE v \in Values : TRUE]
     IN  /\ known = [c \in Clients |-> [properties |-> default, modes |-> <<>>]]
         /\ announced = [c \in Clients |-> default]
  /\ clientMode = [c \in Clients |-> {}]
  /\ changes = [k \in Configurations |-> NoChangeset]
  /\ asked = [k \in Configurations |-> <<>>]
  /\ wanted = properties

OutputNext ==
  \/ \E m \in Modes : ResizeWindow(m) \/ \E flags \in SUBSET Flags : AddMode(m, flags)
  \/ \E i \in DOMAIN modes : SetCurrentMode(i)
  \/ \E k \in Configurations :
       Apply(k) \/ \E p \in Changing, v \in Values : Request(k, p, v)
  \/ \E c \in Clients : Bind(c) \/ Hear(c)

OutputSpec == OutputInit /\ [][OutputNext]_outputVars

-----------------------------------------------------------------------------
(* Properties *)

\* Each property is as it was asked for last, whoever has applied what else
\* since: a change set takes along the properties that nobody asked to change,
\* as they were when it was made.
IsAsAsked == properties = wanted

\* A client that has heard everything knows the output as it is: it has
\* announced the properties, and lists every mode with its flags, of which only
\* that of the output has the flag of the current one.  If the size follows the
\* window, it also lists modes that are no more, and takes the last in its list
\* for the size, which is right until the window returns to an earlier size.
IsKnown ==
  \A c \in resources :
    wire[c] = <<>> =>
      /\ known[c].properties = properties /\ announced[c] = properties
      /\ \A i \in DOMAIN modes : modes[i] \in Range(known[c].modes)
      /\ ~sizeFollowsWindow =>
           {m.size : m \in {n \in Range(known[c].modes) : "current" \in n.flags}}
             = IF currentMode = 0 THEN {} ELSE {modes[currentMode].size}
      /\ sizeFollowsWindow /\ modes[currentMode].size = Last(known[c].modes).size =>
           clientMode[c] = {modes[currentMode].size}

-----------------------------------------------------------------------------
(* A promise the code does not keep: the README says what refutes it *)

\* "Update flags if the mode is already present", and sizeChanged() (client/
\* output.cpp:169, 189): size(), geometry() and refreshRate() are those of the
\* mode of the output.
SizeIsKnown ==
  \A c \in resources :
    wire[c] = <<>> /\ currentMode # 0 => clientMode[c] = {modes[currentMode].size}
=============================================================================
