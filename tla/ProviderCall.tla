---------------------------- MODULE ProviderCall ----------------------------
(***************************************************************************)
(* ProcessProvider: one call of run or probe.  It validates, prepares its   *)
(* temporary files, has the worker captured (module ProcessCapture) and     *)
(* reads the answer; a probe does so twice in a directory of its own.  The  *)
(* HTTP providers take one request and one response instead.                *)
(***************************************************************************)
EXTENDS ProcessCapture

CONSTANT Calls \* the calls examined: [provider : Providers, probe : BOOLEAN]

VARIABLES
  call,    \* the call
  sample,  \* the sample of a probe that is under way
  scratch, \* temporary directories that exist
  root,    \* the directory the worker was started in
  reply,   \* codex's --output-last-message file
  answer   \* what run or probe returns

adapter == <<call, sample, scratch, root, reply, answer>>
vars == <<adapter, capture>>

Providers == {"command", "claude", "codex", "api"}

ASSUME CallAssumption == Calls \subseteq [provider : Providers, probe : BOOLEAN]

Failures == {"unsupported", "temporary_file", "credential", "http", "invalid"}

(* Type invariant: the files, failures and replies of a call. *)
TypeOK ==
  /\ CaptureTypeOK
  /\ call \in Calls
  /\ sample \in 0 .. 2
  /\ scratch \subseteq {"probe", "files"}
  /\ root \in {"none", "project", "probe"}
  /\ reply \in {"none", "valid", "invalid", "huge"}
  /\ answer \in Results \cup Failures

Init ==
  /\ CaptureInit
  /\ call \in Calls
  /\ sample = 0 /\ scratch = {} /\ root = "none" /\ reply = "none"
  /\ answer = "none"

(* Leaving the function drops its TempDirs. *)
Finish(outcome) ==
  /\ answer' = outcome /\ scratch' = {}
  /\ UNCHANGED <<call, sample, root, reply, capture>>

UsesFiles == call.provider # "command"

(* probe_config: arguments it does not know, or a provider that has no probe. *)
Unsupported ==
  /\ sample = 0 /\ call.probe /\ answer = "none" /\ call.provider # "api"
  /\ Finish("unsupported")

NoTemporaryFile ==
  /\ answer = "none" /\ caller = "start" /\ root = "none" /\ UsesFiles
  /\ call.provider # "api" \/ call.probe
  /\ Finish("temporary_file")

(* The temporary files of a run or of one sample, and the command line. *)
Prepare ==
  /\ answer = "none" /\ caller = "start" /\ root = "none"
  /\ call.provider # "api" /\ ~(call.provider = "command" /\ call.probe)
  /\ sample' = sample + 1
  /\ scratch' = (IF UsesFiles THEN {"files"} ELSE {}) \cup
                (IF call.probe THEN {"probe"} ELSE {})
  /\ root' = IF call.probe THEN "probe" ELSE "project"
  /\ reply' = "none"
  /\ UNCHANGED <<call, answer, capture>>

Work == root # "none" /\ answer = "none" /\ CaptureNext /\ UNCHANGED adapter

(* The worker, or a process it left behind, writes its last message. *)
WriteReply ==
  /\ call.provider = "codex" /\ reply = "none" /\ "files" \in scratch
  /\ child = "running" \/ heirs # {}
  /\ reply' \in {"valid", "invalid", "huge"}
  /\ UNCHANGED <<call, sample, scratch, root, answer, capture>>

(* run_process *)
Answered == caller = "returned" /\ result = "ok"

WorkerFails == answer = "none" /\ caller = "returned" /\ ~Answered /\ Finish(result)

(* The file codex wrote or the stdout of the others; "none" cannot be opened. *)
Readings == IF call.provider # "codex" THEN {"valid", "invalid"}
            ELSE IF reply = "none" THEN {"invalid"} ELSE {reply}

LastSample(reading) == reading = "valid" /\ (call.probe => sample = 2)

ReadAnswer ==
  /\ answer = "none" /\ Answered
  /\ \E reading \in Readings :
       \/ reading = "invalid" /\ Finish("invalid")
       \/ reading = "huge" /\ Finish("too_large")
       \/ LastSample(reading) /\ Finish("ok")
       \/ /\ reading = "valid" /\ ~LastSample(reading)
          /\ CaptureRestart
          /\ scratch' = {"probe"} /\ root' = "none" /\ reply' = "none"
          /\ UNCHANGED <<call, sample, answer>>

(* invoke_api, with ureq's own timeout; a probe sends two requests. *)
Request ==
  /\ call.provider = "api" /\ answer = "none"
  /\ \/ \E outcome \in {"credential", "http", "too_large", "invalid"} : Finish(outcome)
     \/ LET last == call.probe => sample = 1 IN
        /\ sample' = sample + 1
        /\ answer' = IF last THEN "ok" ELSE "none"
        /\ scratch' = IF call.probe /\ ~last THEN {"probe"} ELSE {}
        /\ UNCHANGED <<call, root, reply, capture>>

Next ==
  \/ Unsupported \/ NoTemporaryFile \/ Prepare \/ Work \/ WriteReply
  \/ WorkerFails \/ ReadAnswer \/ Request

Runs(A) == root # "none" /\ answer = "none" /\ A /\ UNCHANGED adapter

(* The caller, its threads and its timer run.  The worker and what it left  *)
(* behind owe nothing.                                                      *)
Fairness ==
  /\ WF_vars(Prepare \/ Unsupported \/ NoTemporaryFile)
  /\ WF_vars(WorkerFails \/ ReadAnswer) /\ WF_vars(Request)
  /\ WF_vars(Runs(Spawn)) /\ WF_vars(Runs(Join))
  /\ WF_vars(Runs(WriterStep))
  /\ \A s \in Outputs : WF_vars(Runs(ReaderStep(s)))
  /\ WF_vars(Runs(ChildEnded \/ TimesOut))

Spec == Init /\ [][Next]_vars
FairSpec == Spec /\ Fairness

-----------------------------------------------------------------------------
(* Properties.                                                             *)

(* An answer is taken only from a worker that ended with success and got    *)
(* the whole prompt.  Each of its outputs was collected to the end, which   *)
(* no process of its family can write to any more, unless a read of it      *)
(* failed (read_bounded does not tell); together they keep within the       *)
(* limit.  A probe's answer comes from two such workers, none of which was  *)
(* started in the project (run_process, capture_process, probe).            *)
AnswerIsWhole ==
  answer = "ok" /\ call.provider # "api" =>
    /\ child = "succeeded" /\ sent = PromptLen
    /\ \A s \in Outputs : reader[s] = "failed" \/ (got[s] = wrote[s] /\ ~Held(s))
    /\ got["stdout"] + got["stderr"] <= MaxOutput
    /\ call.probe => sample = 2 /\ root = "probe"

(* A thread the caller joins is on a stream that a process of the worker's  *)
(* family holds open.                                                       *)
HeldUp ==
  /\ caller \in {"join", "killed"}
  /\ \/ writer = "writing" /\ "stdin" \in heirs
     \/ \E s \in Outputs : reader[s] = "reading" /\ s \in heirs

(* Whatever the worker reads and writes and in which order, the call ends,  *)
(* the worker is gone and no temporary file is left, unless a process that  *)
(* the worker left behind never lets go of a pipe (capture_process).        *)
CallReturns ==
  \/ <>[](answer # "none" /\ child # "running" /\ scratch = {})
  \/ <>[](HeldUp /\ child # "running")

(* README.md's claim: the timeout of a call is a hard limit.  When it has   *)
(* expired and the worker was killed, the call ends.                        *)
TimeoutIsHard == caller = "killed" ~> answer # "none"
=============================================================================
