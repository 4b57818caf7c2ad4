---------------------------- MODULE TokenLedger ----------------------------
(***************************************************************************)
(* The arithmetic of the attempt ledger (ledger.rs), of the token cap that  *)
(* rests on it, and of the sums `run status` shows (engine.rs): counters of *)
(* a limited width, some of which a provider leaves out.                    *)
(***************************************************************************)
EXTENDS Integers, Sequences

CONSTANTS
  MaxCount,   \* u64::MAX
  Counts,     \* what a provider may report in a counter
  Limits,     \* manifest.max_total_tokens of the runs; 0 is None
  MaxRecords  \* bound: attempts of a run

ASSUME LedgerAssumption ==
  MaxCount \in Nat /\ Counts \subseteq 0 .. MaxCount /\ Limits \subseteq 0 .. MaxCount

VARIABLES
  limit,     \* the manifest's limit
  counting,  \* what the input counter of the run's provider means
  recorded    \* the usage of each recorded attempt

ledger == <<limit, counting, recorded>>

Unknown == -1
Counter == Counts \cup {Unknown}
Count == 0 .. MaxCount \cup {Unknown}

Semantics == {"total_includes_cache", "uncached_only", "unknown"}

Counters == [semantics : Semantics, input : Count, uncached : Count, read : Count,
          write : Count, output : Count]

(* The default, for an attempt that ended before it reported anything. *)
NoUsage == [semantics |-> "unknown", input |-> Unknown, uncached |-> Unknown,
            read |-> Unknown, write |-> Unknown, output |-> Unknown]

(* Type invariant: the limit and the usage of every attempt. *)
LedgerTypeOK ==
  limit \in Limits /\ counting \in Semantics /\ recorded \in Seq(Counters)

LedgerInit ==
  /\ limit \in Limits
  /\ counting \in Semantics \ {"unknown"}
  /\ recorded = << >>

-----------------------------------------------------------------------------

SaturatingAdd(a, b) ==
  IF a = Unknown \/ b = Unknown THEN Unknown ELSE IF a + b > MaxCount THEN MaxCount ELSE a + b

(* checked_add behind and_then. *)
CheckedAdd(a, b) ==
  IF a = Unknown \/ b = Unknown \/ a + b > MaxCount THEN Unknown ELSE a + b

(* usage_from_value: the uncached part of a total, if it can be told. *)
Uncached(semantics, input, read, write) ==
  CASE semantics = "uncached_only" -> input
    [] semantics = "unknown" -> Unknown
    [] OTHER -> LET cached == read + (IF write = Unknown THEN 0 ELSE write)
                IN  IF input = Unknown \/ read = Unknown \/ cached > input
                    THEN Unknown ELSE input - cached

(* ProviderUsage::transported_input_tokens, and normalized_input but for     *)
(* telling an overflow from a counter that is missing.                      *)
Transported(u) ==
  CASE u.semantics = "total_includes_cache" -> u.input
    [] u.semantics = "unknown" -> Unknown
    [] OTHER -> CheckedAdd(CheckedAdd(IF u.uncached # Unknown THEN u.uncached ELSE u.input,
                                      u.read), u.write)

Unavailable(u) ==
  CASE u.semantics = "total_includes_cache" -> u.input = Unknown
    [] u.semantics = "unknown" -> TRUE
    [] OTHER -> \/ u.uncached = Unknown /\ u.input = Unknown
                \/ u.read = Unknown \/ u.write = Unknown

CompleteRecord(u) == Transported(u) # Unknown /\ u.output # Unknown

(* One after the other, in the arithmetic of the code or in exact numbers.   *)
Plus(arithmetic, a, b) ==
  CASE arithmetic = "checked" -> CheckedAdd(a, b)
    [] arithmetic = "saturating" -> SaturatingAdd(a, b)
    [] arithmetic = "exact" -> a + b

SumOf(arithmetic, amounts) ==
  LET sum[i \in 0 .. Len(amounts)] ==
        IF i = 0 THEN 0 ELSE Plus(arithmetic, sum[i - 1], amounts[i])
  IN  sum[Len(amounts)]

(* build_report: what was counted so far, Unknown after an overflow.  What a  *)
(* record does not tell is left out.                                        *)
ObservedInput ==
  SumOf("checked", [i \in DOMAIN recorded |->
                IF Unavailable(recorded[i]) THEN 0 ELSE Transported(recorded[i])])

ObservedOutput ==
  SumOf("checked", [i \in DOMAIN recorded |->
                IF recorded[i].output = Unknown THEN 0 ELSE recorded[i].output])

ObservedTotal == CheckedAdd(ObservedInput, ObservedOutput)

Overflowed ==
  \/ ObservedTotal = Unknown
  \/ \E i \in DOMAIN recorded :
       /\ CompleteRecord(recorded[i])
       /\ CheckedAdd(Transported(recorded[i]), recorded[i].output) = Unknown

(* LedgerCoverage of a run that is neither busy nor pending. *)
Complete ==
  /\ recorded # << >>
  /\ \A i \in DOMAIN recorded : CompleteRecord(recorded[i])
  /\ ~Overflowed

TotalTokens == IF Complete THEN ObservedTotal ELSE Unknown

(* cap_admission_error. *)
Admits ==
  \/ limit = 0 \/ recorded = << >>
  \/ TotalTokens # Unknown /\ TotalTokens < limit

(* aggregate_usage, field by field; mixed counting makes the sum unknown. *)
Summed(field) == SumOf("saturating", [i \in DOMAIN recorded |-> recorded[i][field]])

Aggregate ==
  [semantics |->
     IF recorded # << >> /\ \A i \in DOMAIN recorded :
                             recorded[i].semantics = recorded[1].semantics
     THEN recorded[1].semantics ELSE "unknown",
   input |-> Summed("input"), uncached |-> Summed("uncached"),
   read |-> Summed("read"), write |-> Summed("write"), output |-> Summed("output")]

-----------------------------------------------------------------------------

(* An attempt the cap admits ends with a record: of what the provider        *)
(* reported, or of nothing.                                                 *)
RecordAttempt ==
  /\ Admits /\ Len(recorded) < MaxRecords
  /\ \/ \E input, read, write, output \in Counter :
          recorded' = Append(recorded,
            [semantics |-> counting, input |-> input,
             uncached |-> Uncached(counting, input, read, write),
             read |-> read, write |-> write, output |-> output])
     \/ recorded' = Append(recorded, NoUsage)
  /\ UNCHANGED <<limit, counting>>

LedgerNext == RecordAttempt
LedgerSpec == LedgerInit /\ [][LedgerNext]_ledger

-----------------------------------------------------------------------------
(* What was really used, in numbers without a width.                       *)

Reported(u) ==
  /\ u.input # Unknown /\ u.output # Unknown
  /\ counting = "uncached_only" => u.read # Unknown /\ u.write # Unknown

TrueInput(u) ==
  IF counting = "total_includes_cache" THEN u.input ELSE u.input + u.read + u.write

AllReported == \A i \in DOMAIN recorded : Reported(recorded[i])

TrueInputs == SumOf("exact", [i \in DOMAIN recorded |-> TrueInput(recorded[i])])
TrueTotal ==
  SumOf("exact", [i \in DOMAIN recorded |-> TrueInput(recorded[i]) + recorded[i].output])

(* The total of the ledger is the true sum or absent, the cap lets a worker  *)
(* start exactly while the true sum is known and below it, and `status`      *)
(* shows the true input or the largest number there is: no counter that is   *)
(* missing counts as zero, and none wraps round (docs/RUNTIME.md, "overflow  *)
(* also invalidates the total").                                            *)
CountsAreTrue ==
  /\ TotalTokens # Unknown => AllReported /\ TotalTokens = TrueTotal
  /\ recorded # << >> /\ AllReported =>
       (TotalTokens = Unknown <=> TrueTotal > MaxCount)
  /\ limit # 0 /\ recorded # << >> =>
       (Admits <=> AllReported /\ TrueTotal < limit)
  /\ Transported(Aggregate) \notin {Unknown, MaxCount} =>
       /\ \A i \in DOMAIN recorded : Transported(recorded[i]) # Unknown
       /\ Transported(Aggregate) = TrueInputs
=============================================================================
