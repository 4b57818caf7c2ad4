------------------------- MODULE ProviderCallProofs -------------------------
(***************************************************************************)
(* A worker is never left waiting for a pipe nobody serves, and an answer   *)
(* is taken only from a worker that ended well and was collected whole, for *)
(* every length of the prompt, size of the pipes and limit of the output.   *)
(***************************************************************************)
EXTENDS ProviderCall, TLAPS

-----------------------------------------------------------------------------
(* The inductive invariant, in parts.                                      *)

(* Where the caller is, the child is too. *)
Phases ==
  /\ caller = "start" => child = "none"
  /\ child = "running" => caller = "wait"
  /\ caller \in {"wait", "join", "killed"} => child # "none"
  /\ caller = "returned" <=> result # "none"

(* A reader ends when nobody can write any more and the pipe is empty; until *)
(* it drops something, what was written is in the pipe or collected.        *)
Streaming ==
  /\ doing \in Outputs => wrote[doing] < MaxWrites
  /\ writer = "done" => sent = PromptLen
  /\ \A s \in Outputs :
       /\ reader[s] = "done" => child # "none" /\ ~Held(s) /\ pipe[s] = 0
       /\ ~lost[s] /\ reader[s] # "failed" => got[s] + pipe[s] = wrote[s]

(* Success is the caller's verdict on a capture that stays as it is. *)
Verdict ==
  result = "ok" => child = "succeeded" /\ writer = "done" /\ Collected /\ ~TooLarge

CaptureInv == CaptureTypeOK /\ Phases /\ Streaming /\ Verdict

(* The call works in the directory it prepared, twice for a probe, and       *)
(* takes the answer of a capture that succeeded.                            *)
Samples ==
  /\ answer = "none" /\ root = "none" => sample <= 1
  /\ caller # "start" => root # "none"
  /\ call.provider = "api" => root = "none"
  /\ root # "none" => (call.probe <=> root = "probe")
  /\ answer = "ok" /\ call.provider # "api" =>
       result = "ok" /\ root # "none" /\ (call.probe => sample = 2)

CallInv == CaptureInv /\ TypeOK /\ Samples

-----------------------------------------------------------------------------
(* capture_process.                                                        *)

LEMMA CaptureStarts == CaptureInit => CaptureInv
<1>1. ASSUME CaptureInit
      PROVE  CaptureInv
  <2>1. CaptureTypeOK
    BY <1>1, CaptureAssumption DEF CaptureInit, CaptureTypeOK, Outputs, Streams, Results
  <2>2. Phases /\ Streaming /\ Verdict
    BY <1>1 DEF CaptureInit, Phases, Streaming, Verdict, Outputs, Streams
  <2>. QED
    BY <2>1, <2>2 DEF CaptureInv
<1>. QED
  BY <1>1

LEMMA CaptureRestarts ==
  ASSUME CaptureRestart
  PROVE  CaptureInv'
<1>1. CaptureTypeOK'
  BY CaptureAssumption DEF CaptureRestart, CaptureTypeOK, Outputs, Streams, Results
<1>2. Phases' /\ Streaming' /\ Verdict'
  BY DEF CaptureRestart, Phases, Streaming, Verdict, Outputs, Streams
<1>. QED
  BY <1>1, <1>2 DEF CaptureInv

(* The child and its heirs. *)
LEMMA ChildKeeps ==
  ASSUME CaptureInv,
         \/ \E s \in Streams : TurnTo(s)
         \/ \E s \in Outputs : ChildWrites(s) \/ HeirWrites(s)
         \/ ChildReads \/ Forks \/ HeirsExit \/ ChildExits
  PROVE  CaptureInv'
<1>0. CaptureTypeOK /\ Phases /\ Streaming /\ Verdict
  BY DEF CaptureInv
<1>1. CASE \E s \in Streams : TurnTo(s)
  <2>1. PICK s \in Streams : TurnTo(s)
    BY <1>1
  <2>2. /\ child = "running" /\ doing' = s
        /\ s \in Outputs => wrote[s] < MaxWrites
        /\ UNCHANGED <<caller, result, child, heirs, writer, reader, pipe, sent,
                       got, lost, wrote>>
    BY <2>1 DEF TurnTo
  <2>3. CaptureTypeOK'
    BY <1>0, <2>2 DEF CaptureTypeOK
  <2>4. Phases' /\ Streaming' /\ Verdict'
    BY <1>0, <2>2 DEF Phases, Streaming, Verdict, Held, Collected, TooLarge
  <2>. QED
    BY <2>3, <2>4 DEF CaptureInv
<1>2. CASE \E s \in Outputs : reader[s] = "reading" /\ (ChildWrites(s) \/ HeirWrites(s))
  <2>1. PICK s \in Outputs : reader[s] = "reading" /\ (ChildWrites(s) \/ HeirWrites(s))
    BY <1>2
  <2>2. /\ reader[s] = "reading" /\ pipe[s] < PipeSize
        /\ wrote[s] < MaxWrites /\ Held(s)
        /\ pipe' = [pipe EXCEPT ![s] = @ + 1]
        /\ wrote' = [wrote EXCEPT ![s] = @ + 1]
        /\ UNCHANGED <<caller, result, child, heirs, writer, reader, sent, got, lost>>
        /\ doing' = "computing" \/ (doing' = doing /\ doing # s)
    <3>1. CASE ChildWrites(s)
      BY <1>0, <2>1, <3>1 DEF ChildWrites, CanWrite, Streaming, Held
    <3>2. CASE HeirWrites(s)
      BY <3>2 DEF HeirWrites, Held
    <3>. QED
      BY <2>1, <3>1, <3>2
  <2>3. pipe \in [Streams -> 0 .. PipeSize] /\ wrote \in [Outputs -> 0 .. MaxWrites]
    BY <1>0 DEF CaptureTypeOK
  <2>4. s \in Streams /\ Outputs \subseteq Streams
    BY DEF Streams
  <2>5. /\ pipe' \in [Streams -> 0 .. PipeSize]
        /\ wrote' \in [Outputs -> 0 .. MaxWrites]
    BY <2>2, <2>3, <2>4, CaptureAssumption
  <2>6. CaptureTypeOK'
    BY <1>0, <2>2, <2>5 DEF CaptureTypeOK
  <2>7. /\ reader[s] = "reading" /\ reader'[s] = "reading"
        /\ pipe'[s] = pipe[s] + 1 /\ wrote'[s] = wrote[s] + 1
        /\ \A t \in Outputs : t # s => pipe'[t] = pipe[t] /\ wrote'[t] = wrote[t]
    BY <1>0, <2>2, <2>3, <2>4 DEF Streaming
  <2>8. result # "ok"
    BY <1>0, <2>7 DEF Verdict, Collected
  <2>9. got[s] \in Nat /\ pipe[s] \in Nat /\ wrote[s] \in Nat
    BY <1>0, <2>4 DEF CaptureTypeOK
  <2>10. Streaming'
    BY <1>0, <2>2, <2>7, <2>9 DEF Streaming, Held, Outputs
  <2>. QED
    BY <1>0, <2>2, <2>6, <2>8, <2>10 DEF CaptureInv, Phases, Verdict
<1>3. CASE ChildReads
  <2>1. /\ doing' = "computing"
        /\ pipe' = [pipe EXCEPT !["stdin"] = IF @ > 0 THEN @ - 1 ELSE 0]
        /\ UNCHANGED <<caller, result, child, heirs, writer, reader, sent, got,
                       lost, wrote>>
    BY <1>3 DEF ChildReads
  <2>2. pipe \in [Streams -> 0 .. PipeSize]
    BY <1>0 DEF CaptureTypeOK
  <2>3. pipe' \in [Streams -> 0 .. PipeSize]
    <3>1. pipe["stdin"] \in 0 .. PipeSize
      BY <2>2 DEF Streams
    <3>2. (IF pipe["stdin"] > 0 THEN pipe["stdin"] - 1 ELSE 0) \in 0 .. PipeSize
      BY <3>1, CaptureAssumption
    <3>. QED
      BY <2>1, <2>2, <3>2
  <2>4. CaptureTypeOK'
    BY <1>0, <2>1, <2>3 DEF CaptureTypeOK
  <2>5. \A s \in Outputs : pipe'[s] = pipe[s]
    BY <2>1, <2>2 DEF Outputs, Streams
  <2>6. Phases' /\ Streaming' /\ Verdict'
    BY <1>0, <2>1, <2>5 DEF Phases, Streaming, Verdict, Held, Collected, TooLarge, Outputs
  <2>. QED
    BY <2>4, <2>6 DEF CaptureInv
<1>4. CASE Forks \/ HeirsExit
  <2>1. /\ child = "running" \/ heirs' = {}
        /\ heirs' \subseteq Streams
        /\ UNCHANGED <<caller, result, child, doing, writer, reader, pipe, sent,
                       got, lost, wrote>>
    BY <1>4 DEF Forks, HeirsExit
  <2>2. CaptureTypeOK'
    BY <1>0, <2>1 DEF CaptureTypeOK
  <2>3. Phases' /\ Streaming' /\ Verdict'
    BY <1>0, <2>1 DEF Phases, Streaming, Verdict, Held, Collected, TooLarge
  <2>. QED
    BY <2>2, <2>3 DEF CaptureInv
<1>5. CASE ChildExits
  <2>1. /\ child = "running" /\ child' \in {"succeeded", "failed"}
        /\ UNCHANGED <<caller, result, doing, heirs, writer, reader, pipe, sent,
                       got, lost, wrote>>
    BY <1>5 DEF ChildExits
  <2>2. CaptureTypeOK'
    BY <1>0, <2>1 DEF CaptureTypeOK
  <2>3. Phases' /\ Streaming' /\ Verdict'
    BY <1>0, <2>1 DEF Phases, Streaming, Verdict, Held
  <2>. QED
    BY <2>2, <2>3 DEF CaptureInv
<1>6. CASE \E s \in Outputs : reader[s] # "reading" /\ ChildWrites(s)
  <2>1. /\ child = "running" /\ doing' = "computing"
        /\ UNCHANGED <<caller, result, child, heirs, writer, reader, pipe, sent,
                       got, lost, wrote>>
    BY <1>6 DEF ChildWrites
  <2>2. CaptureTypeOK'
    BY <1>0, <2>1 DEF CaptureTypeOK
  <2>3. Phases' /\ Streaming' /\ Verdict'
    BY <1>0, <2>1 DEF Phases, Streaming, Verdict, Held, Collected, TooLarge, Outputs
  <2>. QED
    BY <2>2, <2>3 DEF CaptureInv
<1>. QED
  BY <1>1, <1>2, <1>3, <1>4, <1>5, <1>6 DEF HeirWrites

(* The thread that writes the prompt. *)
LEMMA WriterKeeps ==
  ASSUME CaptureInv, WriterStep
  PROVE  CaptureInv'
<1>0. CaptureTypeOK /\ Phases /\ Streaming /\ Verdict
  BY DEF CaptureInv
<1>1. /\ writer = "writing"
      /\ UNCHANGED <<caller, result, child, doing, heirs, reader, got, lost, wrote>>
  BY DEF WriterStep, WriterMoves
<1>2. result # "ok"
  BY <1>0, <1>1 DEF Verdict
<1>3. pipe \in [Streams -> 0 .. PipeSize] /\ sent \in 0 .. PromptLen
  BY <1>0 DEF CaptureTypeOK
<1>4. /\ writer' \in {"writing", "done", "broken"}
      /\ writer' = "done" => sent' = PromptLen
      /\ pipe' \in [Streams -> 0 .. PipeSize] /\ sent' \in 0 .. PromptLen
      /\ \A s \in Outputs : pipe'[s] = pipe[s]
  <2>1. CASE sent = PromptLen \/ ~Held("stdin")
    BY <1>1, <1>3, <2>1 DEF WriterStep
  <2>2. CASE sent # PromptLen /\ Held("stdin")
    <3>1. /\ pipe["stdin"] < PipeSize /\ writer' = writer
          /\ pipe' = [pipe EXCEPT !["stdin"] = @ + 1] /\ sent' = sent + 1
      BY <2>2 DEF WriterStep, WriterMoves
    <3>2. sent' \in 0 .. PromptLen
      BY <1>3, <2>2, <3>1, CaptureAssumption
    <3>3. pipe' \in [Streams -> 0 .. PipeSize]
      BY <1>3, <3>1, CaptureAssumption DEF Streams
    <3>4. \A s \in Outputs : pipe'[s] = pipe[s]
      BY <1>3, <3>1 DEF Outputs, Streams
    <3>. QED
      BY <1>1, <3>1, <3>2, <3>3, <3>4
  <2>. QED
    BY <2>1, <2>2
<1>5. CaptureTypeOK'
  BY <1>0, <1>1, <1>4 DEF CaptureTypeOK
<1>6. Streaming'
  BY <1>0, <1>1, <1>4 DEF Streaming, Held, Outputs
<1>. QED
  BY <1>0, <1>1, <1>2, <1>5, <1>6 DEF CaptureInv, Phases, Verdict

(* The threads that collect the outputs. *)
LEMMA ReaderKeeps ==
  ASSUME CaptureInv, NEW s \in Outputs, ReaderStep(s)
  PROVE  CaptureInv'
<1>0. CaptureTypeOK /\ Phases /\ Streaming /\ Verdict
  BY DEF CaptureInv
<1>1. /\ reader[s] = "reading" /\ child # "none"
      /\ pipe[s] > 0 \/ ~Held(s)
      /\ UNCHANGED <<caller, result, child, doing, heirs, writer, sent, wrote>>
  BY DEF ReaderStep, ReaderMoves
<1>2. result # "ok"
  BY <1>0, <1>1 DEF Verdict, Collected
<1>3. /\ pipe \in [Streams -> 0 .. PipeSize] /\ s \in Streams
      /\ got \in [Outputs -> 0 .. MaxOutput]
      /\ reader \in [Outputs -> {"reading", "done", "failed"}] /\ lost \in [Outputs -> BOOLEAN]
      /\ wrote \in [Outputs -> 0 .. MaxWrites]
  BY <1>0 DEF CaptureTypeOK, Streams
<1>4. CASE pipe[s] = 0
  <2>1. /\ reader' = [reader EXCEPT ![s] = "done"]
        /\ UNCHANGED <<pipe, got, lost>> /\ ~Held(s)
    BY <1>1, <1>4 DEF ReaderStep
  <2>2. CaptureTypeOK'
    BY <1>0, <1>1, <2>1 DEF CaptureTypeOK
  <2>3. \A t \in Outputs : reader'[t] = IF t = s THEN "done" ELSE reader[t]
    BY <1>3, <2>1
  <2>4. Streaming'
    BY <1>0, <1>1, <1>4, <2>1, <2>3 DEF Streaming, Held
  <2>. QED
    BY <1>0, <1>1, <1>2, <2>2, <2>4 DEF CaptureInv, Phases, Verdict
<1>5. CASE pipe[s] # 0
  <2>1. pipe' = [pipe EXCEPT ![s] = @ - 1] /\ reader' = reader
    BY <1>5 DEF ReaderStep
  <2>2. pipe' \in [Streams -> 0 .. PipeSize]
    BY <1>3, <1>5, <2>1, CaptureAssumption
  <2>3. /\ pipe'[s] = pipe[s] - 1
        /\ \A t \in Outputs : t # s => pipe'[t] = pipe[t]
    BY <1>3, <2>1 DEF Streams
  <2>4. \/ /\ got[s] < MaxOutput /\ got' = [got EXCEPT ![s] = @ + 1] /\ lost' = lost
        \/ lost' = [lost EXCEPT ![s] = TRUE] /\ got' = got
    BY <1>5 DEF ReaderStep
  <2>5. /\ got' \in [Outputs -> 0 .. MaxOutput] /\ lost' \in [Outputs -> BOOLEAN]
        /\ \A t \in Outputs : t # s => got'[t] = got[t] /\ (lost'[t] <=> lost[t])
        /\ ~lost'[s] => ~lost[s] /\ got'[s] = got[s] + 1
    <3>1. CASE got[s] < MaxOutput /\ got' = [got EXCEPT ![s] = @ + 1] /\ lost' = lost
      <4>1. got[s] + 1 \in 0 .. MaxOutput
        BY <1>3, <3>1, CaptureAssumption
      <4>. QED
        BY <1>3, <3>1, <4>1
    <3>2. CASE lost' = [lost EXCEPT ![s] = TRUE] /\ got' = got
      BY <1>3, <3>2
    <3>. QED
      BY <2>4, <3>1, <3>2
  <2>6. CaptureTypeOK'
    BY <1>0, <1>1, <2>1, <2>2, <2>5 DEF CaptureTypeOK
  <2>7. got[s] \in Nat /\ pipe[s] \in Nat /\ wrote[s] \in Nat
    BY <1>3
  <2>8. Streaming'
    BY <1>0, <1>1, <1>5, <2>1, <2>3, <2>5, <2>7 DEF Streaming, Held
  <2>. QED
    BY <1>0, <1>1, <1>2, <2>6, <2>8 DEF CaptureInv, Phases, Verdict
<1>. QED
  BY <1>4, <1>5

(* A reader that gives up leaves the pipe to nobody. *)
LEMMA ReaderFailsKeeps ==
  ASSUME CaptureInv, NEW s \in Outputs, ReaderFails(s)
  PROVE  CaptureInv'
<1>0. CaptureTypeOK /\ Phases /\ Streaming /\ Verdict
  BY DEF CaptureInv
<1>1. /\ reader[s] = "reading" /\ child # "none"
      /\ reader' = [reader EXCEPT ![s] = "failed"] /\ pipe' = [pipe EXCEPT ![s] = 0]
      /\ UNCHANGED <<caller, result, child, doing, heirs, writer, sent, got, lost, wrote>>
  BY DEF ReaderFails
<1>2. result # "ok"
  BY <1>0, <1>1 DEF Verdict, Collected
<1>3. /\ pipe \in [Streams -> 0 .. PipeSize] /\ s \in Streams
      /\ reader \in [Outputs -> {"reading", "done", "failed"}]
  BY <1>0 DEF CaptureTypeOK, Streams
<1>4. /\ pipe' \in [Streams -> 0 .. PipeSize]
      /\ reader' \in [Outputs -> {"reading", "done", "failed"}]
  BY <1>1, <1>3, CaptureAssumption
<1>5. CaptureTypeOK'
  BY <1>0, <1>1, <1>4 DEF CaptureTypeOK
<1>6. /\ reader'[s] = "failed"
      /\ \A t \in Outputs : t # s => reader'[t] = reader[t] /\ pipe'[t] = pipe[t]
  BY <1>1, <1>3 DEF Streams
<1>7. Streaming'
  BY <1>0, <1>1, <1>6 DEF Streaming, Held
<1>. QED
  BY <1>0, <1>1, <1>2, <1>5, <1>7 DEF CaptureInv, Phases, Verdict

(* The calling thread. *)
LEMMA CallerKeeps ==
  ASSUME CaptureInv, Spawn \/ ChildEnded \/ TimesOut \/ Join
  PROVE  CaptureInv'
<1>0. CaptureTypeOK /\ Phases /\ Streaming /\ Verdict
  BY DEF CaptureInv
<1>1. UNCHANGED <<heirs, writer, reader, pipe, sent, got, lost, wrote>>
  BY DEF Spawn, ChildEnded, TimesOut, Join
<1>2. CASE Spawn
  <2>1. /\ child = "none" /\ doing' = doing
        /\ \/ child' = "running" /\ caller' = "wait" /\ result' = result
           \/ caller' = "returned" /\ result' = "missing" /\ child' = child
        /\ result = "none"
    BY <1>0, <1>2 DEF Spawn, Phases, ReturnWith
  <2>2. CaptureTypeOK'
    BY <1>0, <1>1, <2>1 DEF CaptureTypeOK, Results
  <2>3. Phases' /\ Streaming' /\ Verdict'
    BY <1>0, <1>1, <2>1 DEF Phases, Streaming, Verdict, Held
  <2>. QED
    BY <2>2, <2>3 DEF CaptureInv
<1>3. CASE ChildEnded
  <2>1. /\ caller = "wait" /\ child # "running" /\ caller' = "join"
        /\ UNCHANGED <<result, child, doing>>
    BY <1>3 DEF ChildEnded
  <2>2. CaptureTypeOK'
    BY <1>0, <1>1, <2>1 DEF CaptureTypeOK
  <2>3. Phases' /\ Streaming' /\ Verdict'
    BY <1>0, <1>1, <2>1 DEF Phases, Streaming, Verdict, Held, Collected, TooLarge
  <2>. QED
    BY <2>2, <2>3 DEF CaptureInv
<1>4. CASE TimesOut
  <2>1. /\ caller = "wait" /\ child = "running" /\ result' = result
        /\ caller' = "killed" /\ child' = "failed" /\ doing' = "computing"
    BY <1>4 DEF TimesOut
  <2>2. result = "none"
    BY <1>0, <2>1 DEF Phases
  <2>3. CaptureTypeOK'
    BY <1>0, <1>1, <2>1 DEF CaptureTypeOK
  <2>4. Phases' /\ Streaming' /\ Verdict'
    BY <1>0, <1>1, <2>1, <2>2 DEF Phases, Streaming, Verdict, Held, Outputs
  <2>. QED
    BY <2>3, <2>4 DEF CaptureInv
<1>5. CASE Join
  <2>1. /\ caller \in {"killed", "join"} /\ caller' = "returned"
        /\ result' \in Results \ {"none"}
        /\ result' = "ok" =>
             caller = "join" /\ writer = "done" /\ Collected /\ ~TooLarge /\ child # "failed"
        /\ UNCHANGED <<child, doing>>
    BY <1>5 DEF Join, ReturnWith, Results
  <2>2. child \in {"succeeded", "failed"}
    BY <1>0, <2>1 DEF Phases, CaptureTypeOK
  <2>3. CaptureTypeOK'
    BY <1>0, <1>1, <2>1 DEF CaptureTypeOK
  <2>4. Phases' /\ Streaming' /\ Verdict'
    BY <1>0, <1>1, <2>1, <2>2 DEF Phases, Streaming, Verdict, Held, Collected, TooLarge
  <2>. QED
    BY <2>3, <2>4 DEF CaptureInv
<1>. QED
  BY <1>2, <1>3, <1>4, <1>5

LEMMA CaptureKeeps ==
  ASSUME CaptureInv, CaptureNext
  PROVE  CaptureInv'
BY ChildKeeps, WriterKeeps, ReaderKeeps, ReaderFailsKeeps, CallerKeeps DEF CaptureNext

-----------------------------------------------------------------------------
(* run and probe.                                                          *)

LEMMA CallStarts == Init => CallInv
<1>1. ASSUME Init
      PROVE  CallInv
  <2>1. CaptureInv
    BY <1>1, CaptureStarts DEF Init
  <2>2. TypeOK
    BY <1>1, <2>1 DEF Init, TypeOK, CaptureInv, Results
  <2>3. Samples
    BY <1>1 DEF Init, Samples, CaptureInit
  <2>. QED
    BY <2>1, <2>2, <2>3 DEF CallInv
<1>. QED
  BY <1>1

LEMMA CaptureUnmoved ==
  ASSUME CaptureInv, UNCHANGED capture
  PROVE  CaptureInv'
<1>1. UNCHANGED <<caller, result, child, doing, heirs, writer, reader, pipe, sent,
                  got, lost, wrote>>
  BY DEF capture
<1>2. CaptureTypeOK'
  BY <1>1 DEF CaptureInv, CaptureTypeOK
<1>3. Phases' /\ Streaming' /\ Verdict'
  BY <1>1 DEF CaptureInv, Phases, Streaming, Verdict, Held, Collected, TooLarge
<1>. QED
  BY <1>2, <1>3 DEF CaptureInv

(* A call that finishes otherwise than well leaves nothing to show. *)
LEMMA FinishKeeps ==
  ASSUME CallInv, NEW outcome \in (Results \cup Failures) \ {"none"}, Finish(outcome),
         outcome = "ok" /\ call.provider # "api" =>
           result = "ok" /\ (call.probe => sample = 2)
  PROVE  CallInv'
<1>0. CaptureInv /\ TypeOK /\ Samples
  BY DEF CallInv
<1>1. /\ answer' = outcome /\ scratch' = {}
      /\ UNCHANGED <<call, sample, root, reply>> /\ UNCHANGED capture
  BY DEF Finish
<1>2. CaptureInv' /\ UNCHANGED <<caller, result>>
  BY <1>0, <1>1, CaptureUnmoved DEF capture
<1>3. TypeOK'
  BY <1>0, <1>1, <1>2 DEF TypeOK, CaptureInv
<1>4. result = "ok" => root # "none"
  BY <1>0 DEF CaptureInv, Phases, Samples
<1>5. Samples'
  BY <1>0, <1>1, <1>2, <1>4 DEF Samples
<1>. QED
  BY <1>2, <1>3, <1>5 DEF CallInv

LEMMA CallNext ==
  ASSUME CallInv, [Next]_vars
  PROVE  CallInv'
<1>0. CaptureInv /\ TypeOK /\ Samples
  BY DEF CallInv
<1>1. CASE Unsupported
  BY <1>1, FinishKeeps DEF Unsupported, Failures, Results
<1>2. CASE NoTemporaryFile
  BY <1>2, FinishKeeps DEF NoTemporaryFile, Failures, Results
<1>3. CASE Prepare
  <2>1. /\ answer = "none" /\ caller = "start" /\ root = "none" /\ sample' = sample + 1
        /\ scratch' \subseteq {"probe", "files"} /\ reply' = "none"
        /\ root' = IF call.probe THEN "probe" ELSE "project"
        /\ UNCHANGED <<call, answer>> /\ UNCHANGED capture
        /\ call.provider # "api"
    BY <1>3 DEF Prepare
  <2>2. CaptureInv' /\ UNCHANGED <<caller, result>>
    BY <1>0, <2>1, CaptureUnmoved DEF capture
  <2>3. sample' \in 0 .. 2
    BY <1>0, <2>1 DEF Samples, TypeOK
  <2>4. TypeOK'
    BY <1>0, <2>1, <2>2, <2>3 DEF TypeOK, CaptureInv
  <2>5. Samples'
    BY <1>0, <2>1, <2>2 DEF Samples
  <2>. QED
    BY <2>2, <2>4, <2>5 DEF CallInv
<1>4. CASE Work
  <2>1. /\ root # "none" /\ answer = "none" /\ CaptureNext
        /\ UNCHANGED <<call, sample, scratch, root, reply, answer>>
    BY <1>4 DEF Work, adapter
  <2>2. CaptureInv'
    BY <1>0, <2>1, CaptureKeeps
  <2>3. TypeOK'
    BY <1>0, <2>1, <2>2 DEF TypeOK, CaptureInv
  <2>4. Samples'
    BY <1>0, <2>1 DEF Samples
  <2>. QED
    BY <2>2, <2>3, <2>4 DEF CallInv
<1>5. CASE WriteReply
  <2>1. /\ reply' \in {"valid", "invalid", "huge"} /\ UNCHANGED capture
        /\ UNCHANGED <<call, sample, scratch, root, answer>>
    BY <1>5 DEF WriteReply
  <2>2. CaptureInv' /\ UNCHANGED <<caller, result>>
    BY <1>0, <2>1, CaptureUnmoved DEF capture
  <2>3. TypeOK' /\ Samples'
    BY <1>0, <2>1, <2>2 DEF TypeOK, CaptureInv, Samples
  <2>. QED
    BY <2>2, <2>3 DEF CallInv
<1>6. CASE WorkerFails
  <2>1. /\ caller = "returned" /\ result # "ok" /\ Finish(result)
    BY <1>6 DEF WorkerFails, Answered
  <2>2. result \in (Results \cup Failures) \ {"none"}
    BY <1>0, <2>1 DEF CaptureInv, CaptureTypeOK, Phases
  <2>. QED
    BY <2>1, <2>2, FinishKeeps
<1>7. CASE ReadAnswer
  <2>1. answer = "none" /\ caller = "returned" /\ result = "ok"
    BY <1>7 DEF ReadAnswer, Answered
  <2>2. PICK reading \in Readings :
          \/ reading = "invalid" /\ Finish("invalid")
          \/ reading = "huge" /\ Finish("too_large")
          \/ LastSample(reading) /\ Finish("ok")
          \/ /\ reading = "valid" /\ ~LastSample(reading)
             /\ CaptureRestart
             /\ scratch' = {"probe"} /\ root' = "none" /\ reply' = "none"
             /\ UNCHANGED <<call, sample, answer>>
    BY <1>7 DEF ReadAnswer
  <2>3. CASE Finish("invalid") \/ Finish("too_large")
    BY <2>3, FinishKeeps DEF Failures, Results
  <2>4. CASE LastSample(reading) /\ Finish("ok")
    BY <2>1, <2>4, FinishKeeps DEF Failures, Results, LastSample
  <2>5. CASE /\ reading = "valid" /\ ~LastSample(reading)
             /\ CaptureRestart
             /\ scratch' = {"probe"} /\ root' = "none" /\ reply' = "none"
             /\ UNCHANGED <<call, sample, answer>>
    <3>1. CaptureInv'
      BY <2>5, CaptureRestarts
    <3>2. TypeOK'
      BY <1>0, <2>5, <3>1 DEF TypeOK, CaptureInv
    <3>3. sample # 2 /\ sample \in 0 .. 2
      BY <1>0, <2>5 DEF LastSample, TypeOK
    <3>4. Samples'
      BY <2>1, <2>5, <3>3 DEF Samples, CaptureRestart
    <3>. QED
      BY <3>1, <3>2, <3>4 DEF CallInv
  <2>. QED
    BY <2>2, <2>3, <2>4, <2>5
<1>8. CASE Request
  <2>1. CASE \E outcome \in {"credential", "http", "too_large", "invalid"} : Finish(outcome)
    BY <2>1, FinishKeeps DEF Failures, Results
  <2>2. CASE ~\E outcome \in {"credential", "http", "too_large", "invalid"} : Finish(outcome)
    <3>1. /\ call.provider = "api" /\ answer = "none" /\ sample' = sample + 1
          /\ answer' = IF call.probe => sample = 1 THEN "ok" ELSE "none"
          /\ scratch' \subseteq {"probe"}
          /\ UNCHANGED <<call, root, reply>> /\ UNCHANGED capture
      BY <1>8, <2>2 DEF Request
    <3>2. CaptureInv' /\ UNCHANGED <<caller, result>>
      BY <1>0, <3>1, CaptureUnmoved DEF capture
    <3>3. sample \in 0 .. 1
      BY <1>0, <3>1 DEF Samples, TypeOK
    <3>4. TypeOK'
      BY <1>0, <3>1, <3>2, <3>3 DEF TypeOK, CaptureInv, Results
    <3>5. Samples'
      BY <1>0, <3>1, <3>2, <3>3 DEF Samples
    <3>. QED
      BY <3>2, <3>4, <3>5 DEF CallInv
  <2>. QED
    BY <2>1, <2>2
<1>9. CASE UNCHANGED vars
  <2>1. UNCHANGED <<call, sample, scratch, root, reply, answer>> /\ UNCHANGED capture
    BY <1>9 DEF vars, adapter
  <2>2. CaptureInv' /\ UNCHANGED <<caller, result>>
    BY <1>0, <2>1, CaptureUnmoved DEF capture
  <2>3. TypeOK' /\ Samples'
    BY <1>0, <2>1, <2>2 DEF TypeOK, CaptureInv, Samples
  <2>. QED
    BY <2>2, <2>3 DEF CallInv
<1>. QED
  BY <1>1, <1>2, <1>3, <1>4, <1>5, <1>6, <1>7, <1>8, <1>9 DEF Next

LEMMA Invariant == Spec => []CallInv
<1>1. CallInv /\ [Next]_vars => CallInv'
  BY CallNext
<1>. QED
  BY <1>1, CallStarts, PTL DEF Spec

-----------------------------------------------------------------------------
(* Whatever a worker waits for on a pipe, some thread of the caller serves  *)
(* it: the three threads and the child never wait for each other in a ring. *)
THEOREM PipesAreServed == Spec => []NoCircularWait
<1>1. CallInv => NoCircularWait
  <2>1. SUFFICES ASSUME CallInv, child = "running", doing # "computing"
                 PROVE  \/ IF doing = "stdin" THEN CanRead ELSE CanWrite(doing)
                        \/ WriterMoves \/ \E s \in Outputs : ReaderMoves(s)
    BY DEF NoCircularWait
  <2>2. CaptureTypeOK /\ Streaming
    BY <2>1 DEF CallInv, CaptureInv
  <2>3. Held("stdin") /\ \A s \in Outputs : Held(s)
    BY <2>1 DEF Held
  <2>4. CASE doing = "stdin"
    <3>1. pipe["stdin"] \in 0 .. PipeSize
      BY <2>2 DEF CaptureTypeOK, Streams
    <3>2. CASE pipe["stdin"] > 0
      BY <2>4, <3>2 DEF CanRead
    <3>3. CASE pipe["stdin"] = 0 /\ writer = "writing"
      BY <2>1, <3>3, CaptureAssumption DEF WriterMoves
    <3>. QED
      BY <2>4, <3>1, <3>2, <3>3, CaptureAssumption DEF CanRead
  <2>5. CASE doing \in Outputs
    <3>1. pipe[doing] \in 0 .. PipeSize
      BY <2>2, <2>5 DEF CaptureTypeOK, Streams
    <3>2. pipe[doing] < PipeSize \/ pipe[doing] > 0
      BY <3>1, CaptureAssumption
    <3>3. reader[doing] = "reading" /\ pipe[doing] > 0 => ReaderMoves(doing)
      BY <2>1 DEF ReaderMoves
    <3>. QED
      BY <2>5, <3>2, <3>3 DEF CanWrite, Outputs
  <2>. QED
    BY <2>1, <2>2, <2>4, <2>5 DEF CaptureTypeOK, Streams
<1>. QED
  BY <1>1, Invariant, PTL

(* An answer is taken from a worker that got the whole prompt and ended     *)
(* with success; but for a read that failed, each output was collected to   *)
(* its end; a probe's answer takes two of them, in a directory of its own.  *)
THEOREM AnswersAreWhole == Spec => []AnswerIsWhole
<1>1. CallInv => AnswerIsWhole
  <2>1. SUFFICES ASSUME CallInv, answer = "ok", call.provider # "api"
                 PROVE  /\ child = "succeeded" /\ sent = PromptLen
                        /\ \A s \in Outputs :
                             reader[s] = "failed" \/ (got[s] = wrote[s] /\ ~Held(s))
                        /\ got["stdout"] + got["stderr"] <= MaxOutput
                        /\ call.probe => sample = 2 /\ root = "probe"
    BY DEF AnswerIsWhole
  <2>2. CaptureTypeOK /\ Streaming /\ Verdict /\ Samples
    BY <2>1 DEF CallInv, CaptureInv
  <2>3. result = "ok" /\ (call.probe => sample = 2 /\ root = "probe")
    BY <2>1, <2>2 DEF Samples
  <2>4. child = "succeeded" /\ writer = "done" /\ Collected /\ ~TooLarge
    BY <2>2, <2>3 DEF Verdict
  <2>5. ASSUME NEW s \in Outputs, reader[s] # "failed"
        PROVE  got[s] = wrote[s] /\ ~Held(s)
    <3>1. reader[s] = "done" /\ ~lost[s] /\ got[s] \in Nat
      BY <2>2, <2>4, <2>5 DEF Collected, TooLarge, CaptureTypeOK
    <3>2. pipe[s] = 0 /\ ~Held(s) /\ got[s] + pipe[s] = wrote[s]
      BY <2>2, <2>5, <3>1 DEF Streaming
    <3>. QED
      BY <3>1, <3>2
  <2>6. got["stdout"] + got["stderr"] <= MaxOutput
    <3>1. ~(got["stdout"] + got["stderr"] > MaxOutput)
      BY <2>4 DEF TooLarge
    <3>2. got["stdout"] \in Nat /\ got["stderr"] \in Nat
      BY <2>2 DEF CaptureTypeOK, Outputs
    <3>. QED
      BY <3>1, <3>2, CaptureAssumption
  <2>. QED
    BY <2>2, <2>3, <2>4, <2>5, <2>6 DEF Streaming
<1>. QED
  BY <1>1, Invariant, PTL

(* The files, failures, pipes and processes of a call keep their types. *)
THEOREM CallTyped == Spec => []TypeOK
<1>1. CallInv => TypeOK
  BY DEF CallInv
<1>. QED
  BY <1>1, Invariant, PTL
=============================================================================
