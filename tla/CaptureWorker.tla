---------------------------- MODULE CaptureWorker ----------------------------
(***************************************************************************)
(* The capture broker of Remote Desktop (remote_desktop_capture.py) and    *)
(* its Mutter worker (remote_desktop_mutter_worker.py).  The broker takes  *)
(* one request at a time and talks with the worker over two pipes, where   *)
(* an answer does not name its request.  A worker that does not answer in  *)
(* time may still answer; it may also die at any moment.                   *)
(***************************************************************************)
EXTENDS Naturals, Sequences

CONSTANTS
  CwMaxRequests, \* bound on requests to the broker
  CwAttempts     \* attempts at a request (2)

ASSUME CwAssumption == CwMaxRequests \in Nat /\ CwAttempts \in Nat \ {0}

VARIABLES
  cwCount,    \* requests so far
  cwRequest,  \* the request that the broker works on
  cwProcess,  \* whether there is a worker for this session's environment
  cwIn,       \* the worker's standard input: requests
  cwOut,      \* the worker's standard output: the requests it answered
  cwCast,     \* the worker's ScreenCast session: "none", "open" or "recording"
  cwPipeline, \* whether its frame pipeline plays
  cwKeyboard, \* whether it has a keyboard session
  cwAnswer    \* the last answer of the broker: to which request, and of which

cwvars == <<cwCount, cwRequest, cwProcess, cwIn, cwOut, cwCast, cwPipeline, cwKeyboard, cwAnswer>>
cwworker == <<cwCast, cwPipeline, cwKeyboard>>

CwActions == {"capture", "text", "stop_capture", "close_worker"}
NoRequest == [n |-> 0, action |-> "none", left |-> 0, sent |-> FALSE]
NoAnswer == [of |-> 0, for |-> 0, ok |-> FALSE]

CwInit ==
  /\ cwCount = 0 /\ cwRequest = NoRequest
  /\ cwProcess = FALSE /\ cwIn = <<>> /\ cwOut = <<>>
  /\ cwCast = "none" /\ cwPipeline = FALSE /\ cwKeyboard = FALSE
  /\ cwAnswer = NoAnswer

-----------------------------------------------------------------------------
(***************************************************************************)
(* The broker.                                                             *)
(***************************************************************************)
CwAccept(action) ==
  /\ cwRequest = NoRequest /\ cwCount < CwMaxRequests
  /\ cwCount' = cwCount + 1
  /\ cwRequest' = [n |-> cwCount', action |-> action, left |-> CwAttempts, sent |-> FALSE]
  /\ UNCHANGED <<cwProcess, cwIn, cwOut, cwworker, cwAnswer>>

CwReply(for, ok) ==
  /\ cwAnswer' = [of |-> cwRequest.n, for |-> for, ok |-> ok]
  /\ cwRequest' = NoRequest

\* _stop_locked: nothing of the process is left, nor of its pipes.
CwKilled ==
  /\ cwProcess' = FALSE /\ cwIn' = <<>> /\ cwOut' = <<>>
  /\ cwCast' = "none" /\ cwPipeline' = FALSE /\ cwKeyboard' = FALSE

\* _ensure_locked: a worker that died, or that was started for another session
\* environment, is replaced.
CwEnsure ==
  /\ cwRequest.action \in {"capture", "text"} /\ ~cwRequest.sent
  /\ ~cwProcess
  /\ cwProcess' = TRUE
  /\ UNCHANGED <<cwCount, cwRequest, cwIn, cwOut, cwworker, cwAnswer>>

\* The request is written; stop_capture writes only to a worker that is there.
CwWrite ==
  /\ cwRequest.action \in {"capture", "text", "stop_capture"} /\ ~cwRequest.sent
  /\ cwProcess
  /\ cwRequest' = [cwRequest EXCEPT !.sent = TRUE]
  /\ cwIn' = Append(cwIn, [n |-> cwRequest.n, action |-> cwRequest.action])
  /\ UNCHANGED <<cwCount, cwProcess, cwOut, cwworker, cwAnswer>>

\* _read_response finds a line.
CwRead ==
  /\ cwRequest.sent /\ cwOut # <<>>
  /\ CwReply(Head(cwOut).n, Head(cwOut).ok)
  /\ cwOut' = Tail(cwOut)
  /\ UNCHANGED <<cwCount, cwProcess, cwIn, cwworker>>

Mut_CwGivesUp ==
  /\ cwRequest.sent
  /\ IF cwRequest.action # "stop_capture" /\ cwRequest.left > 1
       THEN /\ cwRequest' = [cwRequest EXCEPT !.left = @ - 1, !.sent = FALSE]
            /\ UNCHANGED cwAnswer
       ELSE CwReply(cwRequest.n, cwRequest.action = "stop_capture")
  /\ UNCHANGED <<cwCount, cwProcess, cwIn, cwOut, cwworker>>

\* No line within 12 seconds, or a broken pipe: the worker is stopped and the
\* request tried once more, or for stop_capture taken as done.
CwGivesUp ==
  /\ cwRequest.sent
  /\ CwKilled
  /\ IF cwRequest.action # "stop_capture" /\ cwRequest.left > 1
       THEN /\ cwRequest' = [cwRequest EXCEPT !.left = @ - 1, !.sent = FALSE]
            /\ UNCHANGED cwAnswer
       ELSE CwReply(cwRequest.n, cwRequest.action = "stop_capture")
  /\ UNCHANGED cwCount

\* control("stop_capture") without a worker.
CwNothingToStop ==
  /\ cwRequest.action = "stop_capture" /\ ~cwRequest.sent /\ ~cwProcess
  /\ CwReply(cwRequest.n, TRUE)
  /\ UNCHANGED <<cwCount, cwProcess, cwIn, cwOut, cwworker>>

CwCloseWorker ==
  /\ cwRequest.action = "close_worker"
  /\ CwKilled
  /\ CwReply(cwRequest.n, TRUE)
  /\ UNCHANGED cwCount

\* The process dies, or the kiosk's session got another environment.
CwDies ==
  /\ cwProcess
  /\ CwKilled
  /\ UNCHANGED <<cwCount, cwRequest, cwAnswer>>

-----------------------------------------------------------------------------
(***************************************************************************)
(* The worker (Worker.handle).                                             *)
(***************************************************************************)
CwTakes(action, ok) ==
  /\ cwProcess /\ cwIn # <<>> /\ Head(cwIn).action = action
  /\ cwIn' = Tail(cwIn)
  /\ cwOut' = Append(cwOut, [n |-> Head(cwIn).n, ok |-> ok])
  /\ UNCHANGED <<cwCount, cwRequest, cwProcess, cwAnswer>>

\* MutterScreenCast.start: CreateSession, RecordMonitor and Start.
CwCreateSession ==
  /\ cwProcess /\ cwIn # <<>> /\ Head(cwIn).action = "capture"
  /\ cwCast = "none"
  /\ cwCast' = "open" /\ cwPipeline' = FALSE
  /\ UNCHANGED <<cwCount, cwRequest, cwProcess, cwIn, cwOut, cwKeyboard, cwAnswer>>

\* PipeWireStreamAdded arrives within ten seconds.
CwNodeAdded ==
  /\ cwProcess /\ cwIn # <<>> /\ cwCast = "open"
  /\ cwCast' = "recording"
  /\ UNCHANGED <<cwCount, cwRequest, cwProcess, cwIn, cwOut, cwPipeline, cwKeyboard, cwAnswer>>

\* FramePipeline.ensure
CwPlay ==
  /\ cwProcess /\ cwIn # <<>> /\ Head(cwIn).action = "capture"
  /\ cwCast = "recording" /\ ~cwPipeline
  /\ cwPipeline' = TRUE
  /\ UNCHANGED <<cwCount, cwRequest, cwProcess, cwIn, cwOut, cwCast, cwKeyboard, cwAnswer>>

\* FramePipeline.capture finds a frame, at worst the last one.
CwFrame ==
  /\ cwPipeline
  /\ CwTakes("capture", TRUE)
  /\ UNCHANGED cwworker

\* Something of the capture failed twice: Worker.capture closes everything.
CwCaptureFails ==
  /\ CwTakes("capture", FALSE)
  /\ cwCast' = "none" /\ cwPipeline' = FALSE /\ cwKeyboard' = FALSE

\* MutterKeyboard.type_text, which closes its session when it fails twice.
CwText ==
  \E ok \in BOOLEAN :
    /\ CwTakes("text", ok)
    /\ cwKeyboard' = ok
    /\ UNCHANGED <<cwCast, cwPipeline>>

CwStopCapture ==
  /\ CwTakes("stop_capture", TRUE)
  /\ cwCast' = "none" /\ cwPipeline' = FALSE
  /\ UNCHANGED cwKeyboard

-----------------------------------------------------------------------------
CwNext ==
  \/ \E action \in CwActions : CwAccept(action)
  \/ CwEnsure \/ CwWrite \/ CwRead \/ CwGivesUp \/ CwNothingToStop \/ CwCloseWorker \/ CwDies
  \/ CwCreateSession \/ CwNodeAdded \/ CwPlay \/ CwFrame \/ CwCaptureFails \/ CwText \/ CwStopCapture

CwSpec == CwInit /\ [][CwNext]_cwvars

-----------------------------------------------------------------------------
(***************************************************************************)
(* Properties.                                                             *)
(***************************************************************************)

\* The types; a pipeline plays only on a session that records, and nothing of
\* a worker outlives it.
CwTypeOK ==
  /\ cwCount \in 0..CwMaxRequests /\ cwProcess \in BOOLEAN
  /\ cwCast \in {"none", "open", "recording"}
  /\ cwPipeline => cwCast = "recording"
  /\ ~cwProcess => cwIn = <<>> /\ cwOut = <<>> /\ cwCast = "none" /\ ~cwKeyboard
  /\ Len(cwIn) + Len(cwOut) <= 1

\* The broker never hands one caller the frame, or the success, that the
\* worker gave to an earlier request which was given up: a worker that is late
\* is stopped before anything else is written to it.
AnswerIsToTheRequest == cwAnswer.for = cwAnswer.of
=============================================================================
