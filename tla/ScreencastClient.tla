-------------------------- MODULE ScreencastClient --------------------------
(***************************************************************************)
(* The client library's screencast talking to the compositor's.            *)
(*                                                                         *)
(* Two threads of the client record: the one that dispatches the events of *)
(* the compositor, for each frame, and the one of the handler that passes  *)
(* frames on to the application, when the first had found no free buffer   *)
(* (starving).  Only the first takes the mutex, so their steps interleave: *)
(* to look for a buffer and send the request is one step, to note that it  *)
(* is busy is another.                                                     *)
(***************************************************************************)
EXTENDS Screencast

CONSTANT Sound  \* does the handler's recordFrame() run without interruption?

Threads == {"Dispatch", "Handler"}

VARIABLES
  requested,  \* record requests on their way to the compositor
  received,   \* events on their way to the client
  busy,       \* buffers that are marked busy
  starving,
  threadPc,   \* where each thread is: "Idle", "Record", "Note", "Check", "Pass"
  picked,     \* the buffer that recordFrame() of each thread has found
  frame,      \* the buffer each thread is handling
  frameEvents \* FrameEvents posted to the handler

clientVars == <<requested, received, busy, starving, threadPc, picked, frame, frameEvents>>
allVars == <<castVars, clientVars>>

\* The first free buffer, None if there is none.
Free == CastBuffers \ busy
FirstFree(b) == IF Free = {} THEN b = None ELSE b \in Free /\ \A x \in Free : b <= x

-----------------------------------------------------------------------------
(* The two threads *)

\* recordFrame() up to the request.
LookAndRecord(t) ==
  /\ threadPc[t] = "Record"
  /\ \E b \in Free \cup {None} :
       /\ FirstFree(b)
       /\ picked' = [picked EXCEPT ![t] = b]
       /\ requested' = IF b = None THEN requested ELSE Append(requested, b)
  /\ threadPc' = [threadPc EXCEPT ![t] = "Note"]
  /\ UNCHANGED <<castVars, received, busy, starving, frame, frameEvents>>

\* recordFrame() after the request.  The dispatching thread then posts the
\* frame to the handler, the handler passes it on.
NoteBusy(t) ==
  /\ threadPc[t] = "Note"
  /\ busy' = busy \cup ({picked[t]} \ {None})
  /\ starving' = (picked[t] = None)
  /\ picked' = [picked EXCEPT ![t] = None]
  /\ IF t = "Dispatch"
     THEN /\ threadPc' = [threadPc EXCEPT ![t] = "Idle"]
          /\ frameEvents' = IF frame[t] = None THEN frameEvents
                            ELSE Append(frameEvents, frame[t])
          /\ frame' = [frame EXCEPT ![t] = None]
     ELSE /\ threadPc' = [threadPc EXCEPT ![t] = "Pass"]
          /\ UNCHANGED <<frameEvents, frame>>
  /\ UNCHANGED <<castVars, requested, received>>

\* screencast_frame().
ReceiveFrame ==
  /\ received # <<>> /\ Head(received).type = "frame"
  /\ threadPc["Dispatch"] = "Idle"
  /\ received' = Tail(received)
  /\ frame' = [frame EXCEPT !["Dispatch"] = Head(received).buffer]
  /\ threadPc' = [threadPc EXCEPT !["Dispatch"] = "Record"]
  /\ UNCHANGED <<castVars, requested, busy, starving, picked, frameEvents>>

\* screencast_cancelled() looks for the buffer among those that are null and
\* screencast_failed() does not look for it: it stays busy.
ReceiveOther ==
  /\ received # <<>> /\ Head(received).type # "frame"
  /\ threadPc["Dispatch"] = "Idle"
  /\ received' = Tail(received)
  /\ UNCHANGED <<castVars, requested, busy, starving, threadPc, picked, frame, frameEvents>>

\* The handler takes a FrameEvent: the buffer is free again.
HandleFrame ==
  /\ frameEvents # <<>> /\ threadPc["Handler"] = "Idle"
  /\ frame' = [frame EXCEPT !["Handler"] = Head(frameEvents)]
  /\ frameEvents' = Tail(frameEvents)
  /\ busy' = busy \ {Head(frameEvents)}
  /\ threadPc' = [threadPc EXCEPT !["Handler"] = "Check"]
  /\ UNCHANGED <<castVars, requested, received, starving, picked>>

\* (Mutant) The handler never records.
NeverRecords ==
  /\ threadPc["Handler"] = "Check"
  /\ threadPc' = [threadPc EXCEPT !["Handler"] = "Pass"]
  /\ UNCHANGED <<castVars, requested, received, busy, starving, picked, frame, frameEvents>>

\* (Mutant) The handler records for each frame.
RecordAnyway ==
  /\ threadPc["Handler"] = "Check"
  /\ threadPc' = [threadPc EXCEPT !["Handler"] = "Record"]
  /\ UNCHANGED <<castVars, requested, received, busy, starving, picked, frame, frameEvents>>

\* It records when the other thread could not.
CheckStarving ==
  /\ threadPc["Handler"] = "Check"
  /\ threadPc' = [threadPc EXCEPT !["Handler"] = IF starving THEN "Record" ELSE "Pass"]
  /\ UNCHANGED <<castVars, requested, received, busy, starving, picked, frame, frameEvents>>

\* frameRecorded(): the application is done with the frame.
PassFrame ==
  /\ threadPc["Handler"] = "Pass"
  /\ threadPc' = [threadPc EXCEPT !["Handler"] = "Idle"]
  /\ frame' = [frame EXCEPT !["Handler"] = None]
  /\ UNCHANGED <<castVars, requested, received, busy, starving, picked, frameEvents>>

-----------------------------------------------------------------------------
(* The compositor, with the connection *)

ServerRecord ==
  /\ requested # <<>>
  /\ Record(Head(requested))
  /\ requested' = Tail(requested)
  /\ received' = received \o sent'
  /\ UNCHANGED <<busy, starving, threadPc, picked, frame, frameEvents>>

ServerStep ==
  /\ RecordFrame \/ HandleEvent
  /\ received' = received \o sent'
  /\ UNCHANGED <<requested, busy, starving, threadPc, picked, frame, frameEvents>>

-----------------------------------------------------------------------------

\* screencast_setup() asks for the first frame.
ClientInit ==
  /\ CastInit
  /\ requested = <<>> /\ received = <<>> /\ busy = {} /\ starving = FALSE
  /\ threadPc = [t \in Threads |-> IF t = "Dispatch" THEN "Record" ELSE "Idle"]
  /\ picked = [t \in Threads |-> None] /\ frame = [t \in Threads |-> None]
  /\ frameEvents = <<>>

\* With Sound, nothing happens between the two halves of the handler's
\* recordFrame().
Undisturbed == Sound => threadPc["Handler"] # "Note"

ClientNext ==
  \/ NoteBusy("Handler")
  \/ /\ Undisturbed
     /\ \/ \E t \in Threads : LookAndRecord(t)
        \/ NoteBusy("Dispatch")
        \/ ReceiveFrame \/ ReceiveOther
        \/ HandleFrame \/ CheckStarving \/ PassFrame
        \/ ServerRecord \/ ServerStep

ClientSpec == ClientInit /\ [][ClientNext]_allVars

\* Both threads run, the connection delivers, the compositor renders.
ClientFairness ==
  /\ \A t \in Threads : WF_allVars(LookAndRecord(t)) /\ WF_allVars(NoteBusy(t))
  /\ WF_allVars(ReceiveFrame \/ ReceiveOther)
  /\ WF_allVars(HandleFrame \/ CheckStarving \/ PassFrame)
  /\ WF_allVars(ServerRecord) /\ WF_allVars(RecordFrame /\ ServerStep)
  /\ WF_allVars(HandleEvent /\ ServerStep)

ClientFairSpec == ClientSpec /\ ClientFairness

-----------------------------------------------------------------------------

ClientTypeOK ==
  /\ CastTypeOK
  /\ requested \in Seq(CastBuffers) /\ busy \subseteq CastBuffers /\ starving \in BOOLEAN
  /\ threadPc \in [Threads -> {"Idle", "Record", "Note", "Check", "Pass"}]
  /\ picked \in [Threads -> CastBuffers \cup {None}]
  /\ frame \in [Threads -> CastBuffers \cup {None}]
  /\ frameEvents \in Seq(CastBuffers)

\* CastBuffers the compositor has been asked to record into and has not answered.
Asked == {requested[i] : i \in DOMAIN requested}
         \cup ({bufferResource} \ {None})
         \cup {received[i].buffer : i \in DOMAIN received}

\* The client waits for one buffer at a time: the compositor never cancels
\* and never answers without a buffer.
OneAtATime ==
  /\ Len(requested) + (IF bufferResource # None THEN 1 ELSE 0) + Len(received) <= 1
  /\ \A i \in DOMAIN received : received[i].type = "frame" /\ received[i].buffer # None

\* Frames keep coming, for ever.
KeepsRecording == []<>(received # <<>>)

\* A buffer that the client waits for is not forgotten, and the client library
\* waits for one at a time.
BuffersAccounted == NeverForgotten /\ OneAtATime

-----------------------------------------------------------------------------
(* A promise the code does not keep: the README says what refutes it *)

\* "We are not using this buffer anymore" (client/screencaster.cpp:86): while
\* the application has a frame, nobody records into its buffer.
FramesAreStable == threadPc["Handler"] = "Pass" => frame["Handler"] \notin Asked

=============================================================================
