----------------------------- MODULE Screencast -----------------------------
(***************************************************************************)
(* The screencaster: a client asks for the next frame of an output to be   *)
(* recorded into a buffer of its own.                                      *)
(*                                                                         *)
(* The compositor keeps a request until the window was rendered, fills the *)
(* buffer and posts an event to the screencast object; the client hears of *)
(* the frame when that event is delivered.  Requests of the client come in *)
(* between.  The output calls recordFrame() through a queued connection,   *)
(* so all of this runs on the main thread.                                 *)
(***************************************************************************)
EXTENDS Null, Naturals, Sequences

CONSTANTS CastBuffers, \* the wl_buffers of the client
          Unusable,    \* those that record() refuses
          TooLarge,    \* those that are not as large as the frame
          MaxPosted    \* bound on the events that are posted

VARIABLES
  object,          \* "Valid", "Destroyed" by its client, "Deleted"
  connected,       \* is the client there?
  bufferResource,
  requests,        \* how many times requests holds the screencast
  posted,          \* SuccessEvents and FailedEvents of the object
  filled,          \* was bufferResource filled since it was recorded?
  sent             \* what the last step sent, in order

serverVars == <<object, connected, bufferResource, requests, posted, filled>>
castVars == <<serverVars, sent>>

Event(type, b) == [type |-> type, buffer |-> b]

\* record().  requests is a multimap: it may hold the screencast again.
Record(b) ==
  /\ object = "Valid" /\ connected
  /\ sent' = (IF bufferResource # None
              THEN <<Event("cancelled", bufferResource)>> ELSE <<>>)
             \o (IF b \in Unusable THEN <<Event("failed", b)>> ELSE <<>>)
  /\ bufferResource' = IF b \in Unusable THEN None ELSE b
  /\ requests' = IF b \in Unusable THEN requests ELSE requests + 1
  /\ filled' = FALSE
  /\ UNCHANGED <<object, connected, posted>>

\* The destroy listener of a buffer.
DestroyBuffer(b) ==
  /\ bufferResource = b
  /\ bufferResource' = None
  /\ filled' = FALSE
  /\ sent' = <<>>
  /\ UNCHANGED <<object, connected, requests, posted>>

\* (Mutant) A buffer that is too small gets no answer.
RecordFrameSilently ==
  /\ requests > 0
  /\ requests' = 0
  /\ IF bufferResource \in TooLarge \cup {None} \/ object # "Valid"
     THEN UNCHANGED <<posted, filled>>
     ELSE /\ Len(posted) + requests <= MaxPosted
          /\ filled' = TRUE
          /\ posted' = posted \o [i \in 1..requests |-> "Success"]
  /\ sent' = <<>>
  /\ UNCHANGED <<object, connected, bufferResource>>

\* recordFrame() after the window was rendered: the buffer is filled, and an
\* event posted, for each time that requests holds the screencast; the first
\* removes them all.  Without a buffer the request is dropped.
RecordFrame ==
  /\ requests > 0
  /\ requests' = 0
  /\ IF bufferResource = None \/ object # "Valid"
     THEN UNCHANGED <<posted, filled>>
     ELSE /\ Len(posted) + requests <= MaxPosted
          /\ filled' = (bufferResource \notin TooLarge)
          /\ posted' = posted \o [i \in 1..requests |->
               IF bufferResource \in TooLarge THEN "Failed" ELSE "Success"]
  /\ sent' = <<>>
  /\ UNCHANGED <<object, connected, bufferResource>>

\* event(), also of an object that its client has destroyed.
HandleEvent ==
  /\ object # "Deleted" /\ posted # <<>>
  /\ posted' = Tail(posted)
  /\ sent' = IF object # "Valid" THEN <<>>
               ELSE <<Event(IF Head(posted) = "Success" THEN "frame" ELSE "failed",
                            bufferResource)>>
  /\ bufferResource' = None
  /\ filled' = FALSE
  /\ UNCHANGED <<object, connected, requests>>

\* destroy: the object is deleted by a later event.
Destroy ==
  /\ object = "Valid" /\ connected
  /\ object' = "Destroyed"
  /\ requests' = 0
  /\ sent' = <<>>
  /\ UNCHANGED <<connected, bufferResource, posted, filled>>

\* The deferred deletion takes the posted events with it.
DeleteLater ==
  /\ object = "Destroyed"
  /\ object' = "Deleted"
  /\ requests' = 0 /\ posted' = <<>>
  /\ bufferResource' = None /\ filled' = FALSE
  /\ sent' = <<>>
  /\ UNCHANGED connected

\* The client goes without destroy; its buffers go, the object stays.
Disconnect ==
  /\ connected
  /\ connected' = FALSE
  /\ bufferResource' = None /\ filled' = FALSE
  /\ sent' = <<>>
  /\ UNCHANGED <<object, requests, posted>>

-----------------------------------------------------------------------------

\* capture() has created the object and sent setup.
CastInit ==
  /\ object = "Valid" /\ connected = TRUE
  /\ bufferResource = None /\ filled = FALSE
  /\ requests = 0 /\ posted = <<>> /\ sent = <<>>

CastNext ==
  \/ \E b \in CastBuffers : (requests < MaxPosted /\ Record(b)) \/ DestroyBuffer(b)
  \/ RecordFrame \/ HandleEvent
  \/ Destroy \/ DeleteLater \/ Disconnect

CastSpec == CastInit /\ [][CastNext]_castVars

-----------------------------------------------------------------------------

CastTypeOK ==
  /\ object \in {"Valid", "Destroyed", "Deleted"} /\ connected \in BOOLEAN
  /\ bufferResource \in (CastBuffers \ Unusable) \cup {None}
  /\ requests \in 0..MaxPosted
  /\ posted \in Seq({"Success", "Failed"}) /\ Len(posted) <= MaxPosted
  /\ filled \in BOOLEAN
  /\ sent \in Seq([type : {"frame", "failed", "cancelled"},
                   buffer : CastBuffers \cup {None}])

\* A buffer that the client waits for is not forgotten, however requests,
\* frames and posted events cross: its frame is still to be recorded, or an
\* answer is on its way.
NeverForgotten ==
  object = "Valid" /\ bufferResource # None => requests > 0 \/ posted # <<>>

-----------------------------------------------------------------------------
(* Promises the code does not keep: the README says what refutes them *)

\* "The 'frame' event will be sent after the frame is recorder"
\* (greenisland-screencaster.xml:87), into the buffer that it names.
FramesAreFilled ==
  [][\A i \in DOMAIN sent' :
       sent'[i].type = "frame" => sent'[i].buffer = bufferResource /\ filled]_castVars

\* A frame event names a buffer.
FramesHaveBuffers ==
  \A i \in DOMAIN sent : sent[i].type = "frame" => sent[i].buffer # None

\* "A client disconnected, invalidate all its screencast requests"
\* (screencaster.cpp:118): nothing is sent to it any more.
NothingToTheGone == connected \/ sent = <<>>

=============================================================================
