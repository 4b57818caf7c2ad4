-------------------------- MODULE ProjectBaseline --------------------------
(***************************************************************************)
(* The end of `init`, and `delta`: init counts what the logs hold of the    *)
(* project, source after source, and then writes a baseline with the time   *)
(* at which it is written; delta and report count what was sent since.      *)
(* Other inits run at the same time, and requests are sent all the while.   *)
(* Requests are numbered; their tokens are left out.                        *)
(***************************************************************************)
EXTENDS Naturals, FiniteSets

CONSTANTS
  Freezers, \* processes that run init
  Sent,     \* requests that may be sent
  LastSecond, \* bound: the clock, which is not set back
  MaxFrozen \* bound: inits

ASSUME BaselineAssumption == LastSecond \in Nat

VARIABLES
  second,   \* the clock
  sentAt,   \* of each request: its source, when it was sent, and what the log
            \* shows of that: see Forms
  freezing, \* what each init has counted so far, and since when
  baseline, \* .codeunlimited.baseline.json
  firstAt,  \* history: when the first baseline was written
  frozen

baselineVars == <<second, sentAt, freezing, baseline, firstAt, frozen>>

Sources == {"claude", "codex"}
Seconds == 0 .. LastSecond

(* A record gives the time of its request or leaves it out, is malformed, or *)
(* belongs to a project that the user ignores.                               *)
Forms == {"dated", "undated", "malformed", "ignored"}

SentRequest == [by : Sources, ts : Seconds, form : Forms]
NotSent == [by |-> "nobody", ts |-> 0, form |-> "dated"]

Freezing == [stage : {"none", "codex", "look", "stamp"}, since : Seconds, seen : SUBSET Sent]
NotFreezing == [stage |-> "none", since |-> 0, seen |-> {}]

(* began is for the properties only. *)
Baseline == [some : BOOLEAN, created : Seconds, counted : SUBSET Sent, began : Seconds]
NoBaseline == [some |-> FALSE, created |-> 0, counted |-> {}, began |-> 0]

(* Type invariant: the baseline, and what each init has counted. *)
BaselineTypeOK ==
  /\ second \in Seconds /\ firstAt \in Seconds /\ frozen \in 0 .. MaxFrozen
  /\ sentAt \in [Sent -> SentRequest \cup {NotSent}]
  /\ freezing \in [Freezers -> Freezing]
  /\ baseline \in Baseline

BaselineInit ==
  /\ second = 0 /\ firstAt = 0 /\ frozen = 0
  /\ sentAt = [r \in Sent |-> NotSent]
  /\ freezing = [p \in Freezers |-> NotFreezing]
  /\ baseline = NoBaseline

Of(source) == {r \in Sent : sentAt[r].by = source}

(* What a scan reads and init keeps: malformed records, disclosed when they  *)
(* are few, and those of ignored projects are left out.                      *)
Countable(r) == sentAt[r].form \in {"dated", "undated"}
InitCounts(source) == {r \in Of(source) : Countable(r)}

-----------------------------------------------------------------------------

SecondPasses ==
  /\ second < LastSecond /\ second' = second + 1
  /\ UNCHANGED <<sentAt, freezing, baseline, firstAt, frozen>>

SendRequest(r) ==
  /\ sentAt[r] = NotSent
  /\ \E source \in Sources, form \in Forms :
       sentAt' = [sentAt EXCEPT ![r] = [by |-> source, ts |-> second, form |-> form]]
  /\ UNCHANGED <<second, freezing, baseline, firstAt, frozen>>

(* baseline: the scan of Claude's logs, and then that of Codex's. *)
ScanClaude(p) ==
  /\ freezing[p].stage = "none" /\ frozen < MaxFrozen
  /\ freezing' = [freezing EXCEPT ![p] =
                    [stage |-> "codex", since |-> second, seen |-> InitCounts("claude")]]
  /\ frozen' = frozen + 1
  /\ UNCHANGED <<second, sentAt, baseline, firstAt>>

ScanCodex(p) ==
  /\ freezing[p].stage = "codex"
  /\ freezing' = [freezing EXCEPT ![p].stage = "look", ![p].seen = @ \cup InitCounts("codex")]
  /\ UNCHANGED <<second, sentAt, baseline, firstAt, frozen>>

(* A baseline that is there stays. *)
LookForBaseline(p) ==
  /\ freezing[p].stage = "look"
  /\ freezing' = [freezing EXCEPT ![p] =
                    IF baseline.some THEN NotFreezing ELSE [@ EXCEPT !.stage = "stamp"]]
  /\ UNCHANGED <<second, sentAt, baseline, firstAt, frozen>>

(* Mutant: the time of the baseline is that of the first scan. *)
WhenBegun(p) == freezing[p].since

(* chrono::Utc::now, after the scans. *)
Stamp(p) == second

WriteBaseline(p) ==
  /\ freezing[p].stage = "stamp"
  /\ baseline' = [some |-> TRUE, created |-> Stamp(p), counted |-> freezing[p].seen,
                  began |-> freezing[p].since]
  /\ firstAt' = IF baseline.some THEN firstAt ELSE second
  /\ freezing' = [freezing EXCEPT ![p] = NotFreezing]
  /\ UNCHANGED <<second, sentAt, frozen>>

(* The scan is more incomplete than can be disclosed, its sums overflow, or  *)
(* the process dies.                                                         *)
WithholdBaseline(p) ==
  /\ freezing[p].stage # "none"
  /\ freezing' = [freezing EXCEPT ![p] = NotFreezing]
  /\ UNCHANGED <<second, sentAt, baseline, firstAt, frozen>>

BaselineNext ==
  \/ SecondPasses
  \/ \E r \in Sent : SendRequest(r)
  \/ \E p \in Freezers :
       \/ ScanClaude(p) \/ ScanCodex(p) \/ LookForBaseline(p)
       \/ WriteBaseline(p) \/ WithholdBaseline(p)

BaselineSpec == BaselineInit /\ [][BaselineNext]_baselineVars

-----------------------------------------------------------------------------

(* What delta counts, source by source: it asks for a timestamp, and not     *)
(* whether the project is ignored.                                           *)
SinceBaseline ==
  UNION {{r \in Of(source) : /\ sentAt[r].form \in {"dated", "ignored"}
                             /\ sentAt[r].ts >= baseline.created} : source \in Sources}

(* deltacmd.rs, initcmd.rs ("Capture the baseline once"): no request is on   *)
(* both sides of the baseline but one of the very second in which it was     *)
(* written; of those with a readable record and a timestamp, in projects     *)
(* that are not ignored, none is on neither side but one sent while init     *)
(* was counting, and those without a timestamp are on neither side only if   *)
(* sent after that.  A second init replaces a baseline only if it was at     *)
(* work already when the first one was written.                             *)
BaselineSplits ==
  baseline.some =>
    /\ \A r \in baseline.counted \cap SinceBaseline : sentAt[r].ts = baseline.created
    /\ \A r \in Sent \ (baseline.counted \cup SinceBaseline) :
         sentAt[r] # NotSent =>
           CASE sentAt[r].form = "dated"   -> sentAt[r].ts \in baseline.began .. baseline.created
             [] sentAt[r].form = "undated" -> sentAt[r].ts >= baseline.began
             [] OTHER -> \/ sentAt[r].form = "malformed"
                         \/ sentAt[r].ts < baseline.created
    /\ baseline.began <= firstAt
=============================================================================
