---------------------------- MODULE AudioRecorder ----------------------------
(***************************************************************************)
(* The phone's microphone (mobile/lib/audio/recorder.dart): AudioRecorder  *)
(* with its chunk stream and the flutter_sound driver beneath, whose start *)
(* and stop wait for the platform and may overlap.                         *)
(*                                                                         *)
(* A chunk stream, and a platform recorder with its input stream, are      *)
(* numbers.                                                                *)
(***************************************************************************)
EXTENDS DartTasks

CONSTANT MaxMicFaults   \* bound: refusals and failures of the platform

ASSUME RecAssumption == MaxMicFaults \in Nat

VARIABLES rec, micFaults

NoStream == 0

RecInit ==
    /\ micFaults = 0
    /\ rec = [recording |-> FALSE,      \* _isRecording
              chunks    |-> NoStream,   \* _chunkController
              made      |-> 0,          \* chunk streams made
              recorder  |-> NoStream,   \* _recorder of the driver
              input     |-> NoStream,   \* _inputController of the driver
              opened    |-> 0,          \* platform recorders made
              sub       |-> NoStream,   \* _inputSubscription: the stream it is of
              listened  |-> {},         \* input streams listened to
              cancelled |-> {},         \* and those no longer listened to
              released  |-> {},         \* platform recorders closed
              unreleased |-> {},        \* and those that would not stop or close
              mic       |-> {}]         \* platform recorders that record

MicFails == micFaults < MaxMicFaults /\ micFaults' = micFaults + 1

----------------------------------------------------------------------------
\* AudioRecorder.start returns its chunk stream; x is that stream.

RecStart(t) ==
    /\ At(t, "recStart", "start")
    /\ IF rec.recording
       THEN /\ IF rec.chunks = NoStream THEN Throw(t, "type") ELSE Return(t, rec.chunks)
            /\ UNCHANGED rec
       ELSE /\ rec' = [rec EXCEPT !.made = @ + 1, !.chunks = rec.made + 1]
            /\ tasks' = Calls(GoesTo(tasks, t, "start", rec.made + 1), t, "drvStart", "started")

RecStarted(t) ==
    /\ At(t, "recStart", "started")
    /\ rec' = [rec EXCEPT !.recording = TRUE, !.sub = Top(t).val,
                          !.listened = @ \cup {Top(t).val}]
    /\ Return(t, Top(t).x)

RecStartFails(t) ==
    \/ /\ Caught(t, "recStart", "started")
       /\ rec' = [rec EXCEPT !.chunks = NoStream]
       /\ Go(t, "failed", 0)
    \/ /\ At(t, "recStart", "failed")
       /\ Throw(t, "recorder") /\ UNCHANGED rec

\* AudioRecorder.stop.
RecStop(t) ==
    /\ At(t, "recStop", "start")
    /\ IF ~rec.recording /\ rec.chunks = NoStream
       THEN Return(t, 0) /\ UNCHANGED rec
       ELSE /\ rec' = [rec EXCEPT !.recording = FALSE,
                                  !.cancelled = @ \cup ({rec.sub} \ {NoStream})]
            /\ Go(t, "cancelled", 0)

RecStopDriver(t) ==
    /\ At(t, "recStop", "cancelled")
    /\ rec' = [rec EXCEPT !.sub = NoStream]
    /\ Enter(t, "drvStop", "stopped")

RecStopped(t) ==
    \/ /\ At(t, "recStop", "stopped")
       /\ rec' = [rec EXCEPT !.chunks = NoStream] /\ Go(t, "end", 0)
    \/ /\ At(t, "recStop", "end")
       /\ Return(t, 0) /\ UNCHANGED rec

----------------------------------------------------------------------------
\* The driver.  start asks for the permission, then opens and starts a
\* platform recorder; x is that recorder.

DrvStart(t) ==
    /\ At(t, "drvStart", "start")
    /\ Go(t, "permission", 0) /\ UNCHANGED rec

DrvOpen(t) ==
    /\ At(t, "drvStart", "granted")
    /\ rec' = [rec EXCEPT !.opened = @ + 1, !.recorder = rec.opened + 1,
                          !.input = rec.opened + 1]
    /\ Go(t, "opening", rec.opened + 1)

DrvStarted(t) ==
    /\ At(t, "drvStart", "recording")
    /\ Return(t, Top(t).x) /\ UNCHANGED rec

DrvStartFails(t) ==
    \/ /\ At(t, "drvStart", "failing")
       /\ Enter(t, "drvStop", "failed") /\ UNCHANGED rec
    \/ /\ At(t, "drvStart", "failed")
       /\ Throw(t, "recorder") /\ UNCHANGED rec

\* stop takes the recorder and the input stream it finds.
DrvStop(t) ==
    /\ At(t, "drvStop", "start")
    /\ rec' = [rec EXCEPT !.recorder = NoStream]
    /\ Go(t, IF rec.recorder = NoStream THEN "released" ELSE "stopping", rec.recorder)

DrvCloseInput(t) ==
    /\ At(t, "drvStop", "released")
    /\ rec' = [rec EXCEPT !.input = NoStream]
    /\ IF rec.input = NoStream THEN Return(t, 0)
       ELSE Go(t, IF rec.input \in rec.cancelled THEN "end" ELSE "inputClose", rec.input)

DrvStopped(t) ==
    /\ At(t, "drvStop", "end")
    /\ Return(t, 0) /\ UNCHANGED rec

RecStep(t) ==
    \/ RecStart(t) \/ RecStarted(t) \/ RecStartFails(t)
    \/ RecStop(t) \/ RecStopDriver(t) \/ RecStopped(t)
    \/ DrvStart(t) \/ DrvOpen(t) \/ DrvStarted(t) \/ DrvStartFails(t)
    \/ DrvStop(t) \/ DrvCloseInput(t) \/ DrvStopped(t)

----------------------------------------------------------------------------
\* What the awaits wait for.

PermissionAnswered(t) ==
    /\ At(t, "drvStart", "permission")
    /\ \/ Go(t, "granted", 0) /\ UNCHANGED micFaults
       \/ Throw(t, "recorder") /\ MicFails
    /\ UNCHANGED rec

\* openRecorder and startRecorder.  A recorder that was closed meanwhile does
\* not start.
RecorderOpened(t) ==
    LET r == Top(t).x IN
    /\ At(t, "drvStart", "opening")
    /\ \/ /\ r \notin rec.released
          /\ rec' = [rec EXCEPT !.mic = @ \cup {r}]
          /\ Go(t, "recording", r) /\ UNCHANGED micFaults
       \/ /\ IF r \in rec.released THEN UNCHANGED micFaults ELSE MicFails
          /\ Go(t, "failing", r) /\ UNCHANGED rec

\* Mutant: the recorder is closed without being stopped.
RecorderReleasedRunning(t) ==
    /\ At(t, "drvStop", "stopping")
    /\ rec' = [rec EXCEPT !.released = @ \cup {Top(t).x}]
    /\ Go(t, "released", 0) /\ UNCHANGED micFaults

\* stopRecorder and closeRecorder.
RecorderReleased(t) ==
    /\ At(t, "drvStop", "stopping")
    /\ rec' = [rec EXCEPT !.mic = @ \ {Top(t).x}, !.released = @ \cup {Top(t).x}]
    /\ Go(t, "released", 0) /\ UNCHANGED micFaults

\* stopRecorder or closeRecorder throws.  The driver's stop and its caller do not
\* catch that; a press and AudioRecorder.start do, and a release or a teardown
\* ends there, with whatever awaits it.
RecorderReleaseFails(t) ==
    /\ At(t, "drvStop", "stopping") /\ MicFails
    /\ \E stopped \in SUBSET {Top(t).x} :
          rec' = [rec EXCEPT !.mic = @ \ stopped, !.unreleased = @ \cup {Top(t).x}]
    /\ tasks' = IF tasks[t][3].fn \in {"press", "recStart"}
                THEN Throws([tasks EXCEPT ![t] = Tail(@)], t, "recorder")
                ELSE [tasks EXCEPT ![t] = <<>>]

InputCloses(t) == At(t, "drvStop", "inputClose") /\ Top(t).x \in rec.listened

\* close() of a single-subscription stream completes once somebody listens: a
\* listener that has not cancelled is told first (_closeFromInput).
InputClosed(t) ==
    /\ InputCloses(t) /\ \A u \in TaskIds : ~Entering(u)
    /\ rec' = IF Top(t).x \in rec.cancelled THEN rec
              ELSE [rec EXCEPT !.recording = FALSE, !.sub = NoStream, !.chunks = NoStream]
    /\ Go(t, "end", 0)

RecEvent ==
    \E t \in TaskIds : PermissionAnswered(t) \/ RecorderOpened(t)
                        \/ RecorderReleased(t) \/ RecorderReleaseFails(t)
=============================================================================
