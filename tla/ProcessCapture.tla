--------------------------- MODULE ProcessCapture ---------------------------
(***************************************************************************)
(* One call of capture_process: a child process, a thread that writes the  *)
(* prompt to its stdin, two threads that collect stdout and stderr, and the *)
(* caller, which waits for the child until a timeout and then for the       *)
(* threads.  Pipes are bounded; the child may leave grandchildren behind    *)
(* that inherited its ends of the pipes.  Bytes come in units.              *)
(***************************************************************************)
EXTENDS Naturals

CONSTANTS
  PromptLen, \* units of the prompt
  PipeSize,  \* units a pipe holds
  MaxOutput, \* MAX_PROVIDER_OUTPUT_BYTES
  MaxWrites  \* bound: units written to one stream

ASSUME CaptureAssumption ==
  /\ PromptLen \in Nat /\ PipeSize \in Nat \ {0}
  /\ MaxOutput \in Nat /\ MaxWrites \in Nat

VARIABLES
  caller,  \* the calling thread
  result,  \* what the call returns
  child,   \* the child process
  doing,   \* the pipe operation the child is in
  heirs,   \* the streams that grandchildren hold open
  writer,  \* the thread that writes the prompt
  reader,  \* the threads that collect the outputs
  pipe,    \* units in each pipe
  sent,    \* units of the prompt handed to the pipe
  got,     \* units collected
  lost,    \* read_bounded's overflow
  wrote    \* history: units written to each output

capture == <<caller, result, child, doing, heirs, writer, reader, pipe, sent,
             got, lost, wrote>>

Outputs == {"stdout", "stderr"}
Streams == Outputs \cup {"stdin"}

Results == {"none", "missing", "timeout", "stdin", "too_large", "exit", "ok"}

(* Type invariant: the pipes and the processes. *)
CaptureTypeOK ==
  /\ caller \in {"start", "wait", "join", "killed", "returned"}
  /\ result \in Results
  /\ child \in {"none", "running", "succeeded", "failed"}
  /\ doing \in Streams \cup {"computing"}
  /\ heirs \subseteq Streams
  /\ writer \in {"writing", "done", "broken"}
  /\ reader \in [Outputs -> {"reading", "done", "failed"}]
  /\ pipe \in [Streams -> 0 .. PipeSize]
  /\ sent \in 0 .. PromptLen
  /\ got \in [Outputs -> 0 .. MaxOutput]
  /\ lost \in [Outputs -> BOOLEAN]
  /\ wrote \in [Outputs -> 0 .. MaxWrites]

CaptureInit ==
  /\ caller = "start" /\ result = "none"
  /\ child = "none" /\ doing = "computing" /\ heirs = {}
  /\ writer = "writing" /\ reader = [s \in Outputs |-> "reading"]
  /\ pipe = [s \in Streams |-> 0] /\ sent = 0
  /\ got = [s \in Outputs |-> 0] /\ lost = [s \in Outputs |-> FALSE]
  /\ wrote = [s \in Outputs |-> 0]

(* The next call. *)
CaptureRestart ==
  /\ caller' = "start" /\ result' = "none"
  /\ child' = "none" /\ doing' = "computing" /\ heirs' = {}
  /\ writer' = "writing" /\ reader' = [s \in Outputs |-> "reading"]
  /\ pipe' = [s \in Streams |-> 0] /\ sent' = 0
  /\ got' = [s \in Outputs |-> 0] /\ lost' = [s \in Outputs |-> FALSE]
  /\ wrote' = [s \in Outputs |-> 0]

(* A process of the child's family holds its end of the stream. *)
Held(s) == child = "running" \/ s \in heirs

-----------------------------------------------------------------------------
(* The child.                                                              *)

(* It turns to a pipe: the next read or write may have to wait. *)
TurnTo(s) ==
  /\ child = "running" /\ doing = "computing"
  /\ s \in Outputs => wrote[s] < MaxWrites
  /\ doing' = s
  /\ UNCHANGED <<caller, result, child, heirs, writer, reader, pipe, sent,
                 got, lost, wrote>>

CanRead == pipe["stdin"] > 0 \/ writer # "writing"

ChildReads ==
  /\ child = "running" /\ doing = "stdin" /\ CanRead
  /\ pipe' = [pipe EXCEPT !["stdin"] = IF @ > 0 THEN @ - 1 ELSE 0]
  /\ doing' = "computing"
  /\ UNCHANGED <<caller, result, child, heirs, writer, reader, sent, got,
                 lost, wrote>>

(* A reader that stopped has closed its end: a write fails at once. *)
CanWrite(s) == reader[s] # "reading" \/ pipe[s] < PipeSize

ChildWrites(s) ==
  /\ child = "running" /\ doing = s /\ CanWrite(s)
  /\ IF reader[s] = "reading"
     THEN /\ pipe' = [pipe EXCEPT ![s] = @ + 1]
          /\ wrote' = [wrote EXCEPT ![s] = @ + 1]
     ELSE UNCHANGED <<pipe, wrote>>
  /\ doing' = "computing"
  /\ UNCHANGED <<caller, result, child, heirs, writer, reader, sent, got, lost>>

(* A grandchild inherits some of the streams and may outlive the child. *)
Forks ==
  /\ child = "running" /\ doing = "computing" /\ heirs = {}
  /\ heirs' \in SUBSET Streams \ {{}}
  /\ UNCHANGED <<caller, result, child, doing, writer, reader, pipe, sent,
                 got, lost, wrote>>

HeirWrites(s) ==
  /\ s \in heirs /\ doing # s /\ wrote[s] < MaxWrites
  /\ reader[s] = "reading" /\ pipe[s] < PipeSize
  /\ pipe' = [pipe EXCEPT ![s] = @ + 1]
  /\ wrote' = [wrote EXCEPT ![s] = @ + 1]
  /\ UNCHANGED <<caller, result, child, doing, heirs, writer, reader, sent,
                 got, lost>>

HeirsExit ==
  /\ heirs # {} /\ heirs' = {}
  /\ UNCHANGED <<caller, result, child, doing, writer, reader, pipe, sent,
                 got, lost, wrote>>

ChildExits ==
  /\ child = "running" /\ doing = "computing"
  /\ child' \in {"succeeded", "failed"}
  /\ UNCHANGED <<caller, result, doing, heirs, writer, reader, pipe, sent,
                 got, lost, wrote>>

-----------------------------------------------------------------------------
(* The threads.                                                            *)

WriterMoves == writer = "writing" /\ child # "none" /\
  (~Held("stdin") \/ sent = PromptLen \/ pipe["stdin"] < PipeSize)

(* write_all, a unit at a time; the end of the thread closes stdin. *)
WriterStep ==
  /\ WriterMoves
  /\ IF sent = PromptLen
     THEN writer' = "done" /\ UNCHANGED <<pipe, sent>>
     ELSE IF ~Held("stdin")
     THEN writer' = "broken" /\ UNCHANGED <<pipe, sent>>
     ELSE /\ pipe' = [pipe EXCEPT !["stdin"] = @ + 1]
          /\ sent' = sent + 1
          /\ UNCHANGED writer
  /\ UNCHANGED <<caller, result, child, doing, heirs, reader, got, lost, wrote>>

(* Mutant: the outputs are read when the prompt has been written. *)
ReadsAfterPrompt(s) ==
  reader[s] = "reading" /\ child # "none" /\ writer # "writing" /\
    (pipe[s] > 0 \/ ~Held(s))

ReaderMoves(s) ==
  reader[s] = "reading" /\ child # "none" /\ (pipe[s] > 0 \/ ~Held(s))

(* read_bounded: what goes beyond the limit is read and dropped. *)
ReaderStep(s) ==
  /\ ReaderMoves(s)
  /\ IF pipe[s] = 0
     THEN reader' = [reader EXCEPT ![s] = "done"] /\ UNCHANGED <<pipe, got, lost>>
     ELSE /\ pipe' = [pipe EXCEPT ![s] = @ - 1]
          /\ IF got[s] < MaxOutput
             THEN got' = [got EXCEPT ![s] = @ + 1] /\ UNCHANGED lost
             ELSE lost' = [lost EXCEPT ![s] = TRUE] /\ UNCHANGED got
          /\ UNCHANGED reader
  /\ UNCHANGED <<caller, result, child, doing, heirs, writer, sent, wrote>>

(* A read fails or is interrupted: the collection ends there, unmarked. *)
ReaderFails(s) ==
  /\ reader[s] = "reading" /\ child # "none"
  /\ reader' = [reader EXCEPT ![s] = "failed"]
  /\ pipe' = [pipe EXCEPT ![s] = 0]
  /\ UNCHANGED <<caller, result, child, doing, heirs, writer, sent, got, lost,
                 wrote>>

-----------------------------------------------------------------------------
(* The caller.                                                             *)

ReturnWith(outcome) == caller' = "returned" /\ result' = outcome

Spawn ==
  /\ caller = "start"
  /\ \/ child' = "running" /\ caller' = "wait" /\ UNCHANGED result
     \/ ReturnWith("missing") /\ UNCHANGED child
  /\ UNCHANGED <<doing, heirs, writer, reader, pipe, sent, got, lost, wrote>>

ChildEnded ==
  /\ caller = "wait" /\ child # "running"
  /\ caller' = "join"
  /\ UNCHANGED <<result, child, doing, heirs, writer, reader, pipe, sent,
                 got, lost, wrote>>

(* Mutant: the child is left running. *)
NoKill ==
  /\ caller = "wait" /\ child = "running"
  /\ caller' = "killed"
  /\ UNCHANGED <<result, child, doing, heirs, writer, reader, pipe, sent,
                 got, lost, wrote>>

(* wait_timeout gave up: kill and wait for the child. *)
TimesOut ==
  /\ caller = "wait" /\ child = "running"
  /\ caller' = "killed" /\ child' = "failed" /\ doing' = "computing"
  /\ UNCHANGED <<result, heirs, writer, reader, pipe, sent, got, lost,
                 wrote>>

Collected == \A s \in Outputs : reader[s] # "reading"

(* Mutant: each stream has the whole limit to itself. *)
EachTooLarge == \E s \in Outputs : lost[s]

TooLarge == (\E s \in Outputs : lost[s]) \/ got["stdout"] + got["stderr"] > MaxOutput

Join ==
  /\ \/ caller = "killed" /\ writer # "writing" /\ Collected /\ ReturnWith("timeout")
     \/ caller = "join" /\ writer = "broken" /\ ReturnWith("stdin")
     \/ /\ caller = "join" /\ writer = "done" /\ Collected
        /\ ReturnWith(IF TooLarge THEN "too_large"
                      ELSE IF child = "failed" THEN "exit" ELSE "ok")
  /\ UNCHANGED <<child, doing, heirs, writer, reader, pipe, sent, got, lost, wrote>>

-----------------------------------------------------------------------------

CaptureNext ==
  \/ \E s \in Streams : TurnTo(s)
  \/ \E s \in Outputs : ChildWrites(s) \/ HeirWrites(s) \/ ReaderStep(s)
                         \/ ReaderFails(s)
  \/ ChildReads \/ Forks \/ HeirsExit \/ ChildExits
  \/ WriterStep \/ Spawn \/ ChildEnded \/ TimesOut \/ Join

-----------------------------------------------------------------------------
(* The child never waits for a pipe that nobody serves: whatever order it   *)
(* reads and writes in, some thread of the runtime can move.                *)
NoCircularWait ==
  child = "running" /\ doing # "computing" =>
    \/ IF doing = "stdin" THEN CanRead ELSE CanWrite(doing)
    \/ WriterMoves \/ \E s \in Outputs : ReaderMoves(s)
=============================================================================
