--------------------------- MODULE CaptureWorker ---------------------------
(***************************************************************************)
(* One VideoCaptureWorker: its thread opens the source, reads frames and   *)
(* publishes them, and opens the source again after a failure, while the   *)
(* event loop calls stop, which waits for the thread for two seconds only  *)
(* (backend/src/opencv_pipeline/ingestion/capture.py).                     *)
(*                                                                         *)
(* Both use _capture without a lock: an action reads or writes it at most  *)
(* once.  A handle of a source that has failed yields no frame any more.   *)
(* The length of the delays between attempts is left out.                  *)
(***************************************************************************)
EXTENDS Naturals, FiniteSets

CONSTANTS
  MaxFailures,  (* Bound of the model: failures of the source.             *)
  MaxHandles,   (* Bound of the model: handles in use or lost.             *)
  NoHandle      (* _capture is None.                                       *)

ASSUME ParametersAssumption ==
  MaxFailures \in Nat /\ MaxHandles \in Nat \ {0} /\ NoHandle \notin 1 .. MaxHandles

VARIABLES
  up,        (* The source delivers.                                       *)
  failures,  (* Its failures so far, up to MaxFailures.                    *)
  running,   (* The _running event.                                        *)
  capture,   (* _capture: a handle, or None.                               *)
  open,      (* Handles that have not been released.                       *)
  broken,    (* Handles whose session ended with a failure of the source.  *)
  tpc,       (* Where the thread is.                                       *)
  spc,       (* Where stop is.                                             *)
  joined,    (* The thread ended during its join.                          *)
  late       (* Frames published since stop returned, up to two.           *)

source == <<up, failures>>
handles == <<capture, open, broken>>
capvars == <<source, running, handles, tpc, spc, joined, late>>

Handles == 1 .. MaxHandles

CaptureInit ==
  /\ up \in BOOLEAN
  /\ failures = 0
  /\ running = TRUE
  /\ capture = NoHandle
  /\ open = {}
  /\ broken = {}
  /\ tpc = "loop"
  /\ spc = "none"
  /\ joined = FALSE
  /\ late = 0

-----------------------------------------------------------------------------
(* The thread.                                                             *)

At(from, to) ==
  /\ tpc = from
  /\ tpc' = to
  /\ UNCHANGED <<source, running, spc, joined>>

\* Fault: the flag is looked at only until the source is open.
LoopTopUnchecked ==
  /\ At("loop", IF running \/ capture # NoHandle THEN "check" ELSE "ended")
  /\ UNCHANGED <<handles, late>>

LoopTop ==
  /\ At("loop", IF running THEN "check" ELSE "ended")
  /\ UNCHANGED <<handles, late>>

\* A handle that is None or released is to be opened.
Check ==
  /\ At("check", IF capture \in open THEN "read" ELSE "opening")
  /\ UNCHANGED <<handles, late>>

\* The new handle is assigned, whatever has become of the worker meanwhile.
Open ==
  /\ up
  /\ At("opening", "read")
  /\ \E h \in Handles \ (open \cup {capture}) :
       capture' = h /\ open' = open \cup {h} /\ broken' = broken \ {h}
  /\ UNCHANGED late

\* Fault: an exception of _open_capture ends the thread.
OpenFailsUncaught ==
  /\ ~up
  /\ At("opening", "ended")
  /\ UNCHANGED <<handles, late>>

OpenFails ==
  /\ ~up
  /\ At("opening", "failed")
  /\ UNCHANGED <<handles, late>>

Read ==
  /\ capture \in open \ broken /\ up
  /\ At("read", "publish")
  /\ UNCHANGED <<handles, late>>

\* No frame, or _capture is None or released by now.
ReadFails ==
  /\ capture \notin open \ broken \/ ~up
  /\ At("read", "failed")
  /\ UNCHANGED <<handles, late>>

Publish ==
  /\ At("publish", "loop")
  /\ late' = IF spc = "returned" /\ late < 2 THEN late + 1 ELSE late
  /\ UNCHANGED handles

\* except: the handle is released, if there is one ...
Failed ==
  /\ At("failed", IF capture # NoHandle THEN "release" ELSE "sleep")
  /\ UNCHANGED <<handles, late>>

\* Fault: the failed session is kept open.
ReleaseKept ==
  /\ At("release", IF capture # NoHandle THEN "forget" ELSE "ended")
  /\ UNCHANGED <<handles, late>>

\* ... and if stop has not set it to None since: that ends the thread.
Release ==
  /\ At("release", IF capture # NoHandle THEN "forget" ELSE "ended")
  /\ open' = open \ {capture}
  /\ UNCHANGED <<capture, broken, late>>

Forget ==
  /\ At("forget", "sleep")
  /\ capture' = NoHandle
  /\ UNCHANGED <<open, broken, late>>

Sleep ==
  /\ At("sleep", "loop")
  /\ UNCHANGED <<handles, late>>

Thread ==
  \/ LoopTop \/ Check \/ Open \/ OpenFails \/ Read \/ ReadFails \/ Publish
  \/ Failed \/ Release \/ Forget \/ Sleep

-----------------------------------------------------------------------------
(* stop.                                                                   *)

StopAt(from, to) ==
  /\ spc = from
  /\ spc' = to
  /\ UNCHANGED <<source, tpc, late>>

Stop ==
  /\ StopAt("none", "joining")
  /\ running' = FALSE
  /\ UNCHANGED <<handles, joined>>

\* The thread may be busy for longer than two seconds; stop does not look.
Join ==
  /\ StopAt("joining", "checking")
  /\ joined' = (tpc = "ended")
  /\ UNCHANGED <<running, handles>>

\* Fault: the handle is left to the thread.
StopCheckNothing ==
  /\ StopAt("checking", "returned")
  /\ UNCHANGED <<running, handles, joined>>

StopCheck ==
  /\ StopAt("checking", IF capture # NoHandle THEN "releasing" ELSE "returned")
  /\ UNCHANGED <<running, handles, joined>>

\* The thread may have set _capture to None: release is called on nothing.
StopRelease ==
  /\ StopAt("releasing", IF capture # NoHandle THEN "forgetting" ELSE "raised")
  /\ open' = open \ {capture}
  /\ UNCHANGED <<running, capture, broken, joined>>

StopForget ==
  /\ StopAt("forgetting", "returned")
  /\ capture' = NoHandle
  /\ UNCHANGED <<running, open, broken, joined>>

Stopping == Join \/ StopCheck \/ StopRelease \/ StopForget

\* Every open session of a source ends with its failure.
SourceFails ==
  /\ up
  /\ failures < MaxFailures
  /\ up' = FALSE
  /\ failures' = failures + 1
  /\ broken' = open
  /\ UNCHANGED <<running, capture, open, tpc, spc, joined, late>>

SourceRecovers ==
  /\ ~up
  /\ up' = TRUE
  /\ UNCHANGED <<failures, running, handles, tpc, spc, joined, late>>

CaptureNext == Thread \/ Stop \/ Stopping \/ SourceFails \/ SourceRecovers

CaptureSpec == CaptureInit /\ [][CaptureNext]_capvars

\* The threads run, and the source recovers.
FairCaptureSpec ==
  /\ CaptureSpec
  /\ WF_capvars(Thread) /\ WF_capvars(Stopping) /\ WF_capvars(SourceRecovers)

-----------------------------------------------------------------------------
(* Properties.                                                             *)

CaptureTypeOK ==
  /\ up \in BOOLEAN /\ running \in BOOLEAN
  /\ failures \in 0 .. MaxFailures
  /\ capture \in Handles \cup {NoHandle}
  /\ open \subseteq Handles /\ broken \subseteq Handles
  /\ tpc \in {"loop", "check", "opening", "read", "publish", "failed", "release", "forget",
              "sleep", "ended"}
  /\ spc \in {"none", "joining", "checking", "releasing", "forgetting", "returned", "raised"}
  /\ joined \in BOOLEAN
  /\ late \in 0 .. 2

\* Until it is stopped the worker never holds two sessions of its source, nor one it
\* has forgotten, however often the source fails and comes back (capture.py 106-168).
OneSession == spc = "none" => open \subseteq {capture}

\* stop releases the capture handle (capture.py:82): it returns, and no handle is
\* open then or later, provided the thread has ended during the join.  Without this
\* premise it does not hold: the thread opens another handle, or sets _capture to
\* None between stop's two looks at it (88-90); but it publishes one more frame at most.
StopTakesEffect ==
  /\ spc \in {"returned", "raised"} /\ joined => spc = "returned" /\ open = {}
  /\ late <= 1

\* While the worker is not stopped its source is read again after every failure; a thread
\* that outlives stop ends by itself.
ThreadFollowsStop ==
  /\ []<>(tpc = "publish") \/ <>(spc # "none")
  /\ spc # "none" ~> tpc = "ended"
=============================================================================
