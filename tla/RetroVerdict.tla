---------------------------- MODULE RetroVerdict ----------------------------
(***************************************************************************)
(* verdictcmd.rs: what the sessions of the past would have cost, had every  *)
(* request carried the context of the first ones, and when that may be said *)
(* at all: `verdict` and the line `init` prints share one judgement of a    *)
(* scan that missed something, but not of the same requests: `init` judges  *)
(* before the ignored projects are taken out.                               *)
(***************************************************************************)
EXTENDS Findings

CONSTANTS
  MinTurns,     \* --min-turns: sessions have to be longer
  EarlyTurns,   \* --early-turns
  ShareDivisor, \* one malformed record in so many is disclosed (1,000)
  MaxMalformed, \* bound: malformed records
  MaxIgnored    \* bound: requests of ignored projects

ASSUME VerdictAssumption ==
  /\ EarlyTurns \in Nat \ {0} /\ MinTurns \in Nat /\ ShareDivisor \in Nat
  /\ MaxMalformed \in Nat /\ MaxIgnored \in Nat

VARIABLES
  ignored,   \* requests of projects the user ignores; `requests` has the others
  malformed, \* records the scan could not read
  broken     \* a file or directory it could not read, or a counter too large

waste == <<requests, ignored, malformed, broken>>

(* Type invariant: the requests and the health of the scan. *)
WasteTypeOK ==
  /\ requests \in Seq(Kinds) /\ ignored \in 0 .. MaxIgnored
  /\ malformed \in 0 .. MaxMalformed /\ broken \in BOOLEAN

ScanBegins == WasteInit /\ ignored = 0 /\ malformed = 0 /\ broken = FALSE

(* Records of the logs, as a scan meets them. *)
WasteNext ==
  \/ ReadRequest /\ UNCHANGED <<ignored, malformed, broken>>
  \/ ignored < MaxIgnored /\ ignored' = ignored + 1 /\ UNCHANGED <<requests, malformed, broken>>
  \/ malformed < MaxMalformed /\ malformed' = malformed + 1 /\ UNCHANGED <<requests, ignored, broken>>
  \/ ~broken /\ broken' = TRUE /\ UNCHANGED <<requests, ignored, malformed>>

WasteSpec == ScanBegins /\ [][WasteNext]_waste

-----------------------------------------------------------------------------

CompleteAccounting == malformed = 0 /\ ~broken

(* accounting_gate *)
Gate(retained) ==
  IF CompleteAccounting THEN "complete"
  ELSE IF ~broken /\ malformed * ShareDivisor <= retained + malformed
  THEN "disclosed"
  ELSE "withheld"

(* Mutant: sums saturate, and nobody hears of it. *)
NeverTooLarge(n) == FALSE

(* checked_sum: the sum, saturated, and whether it says so. *)
TooManyTokens(n) == n > MaxTokens

SessionsOf(reqs) == {reqs[i].session : i \in DOMAIN reqs}
Turns(reqs, s) == Cardinality(Within(reqs, s))
Long(reqs) == {s \in SessionsOf(reqs) : Turns(reqs, s) > MinTurns}

(* A sum over the long sessions, each where its first request is. *)
OverLong(reqs, Of(_)) ==
  Total([i \in DOMAIN reqs |->
    IF Rank(reqs, i) = 1 /\ Turns(reqs, reqs[i].session) > MinTurns
    THEN Of(reqs[i].session) ELSE 0])

(* Observed tokens of a session, and what its requests would have carried;   *)
(* both times the sample.                                                   *)
Sample(reqs, s) == Smaller(EarlyTurns, Turns(reqs, s))
Actual(reqs, s) == Capped(SumOver(reqs, s, Turns(reqs, s)))
Modeled(reqs, s) == Capped(SumOver(reqs, s, Sample(reqs, s))) * Turns(reqs, s)

Grows(reqs, s) == Actual(reqs, s) * Sample(reqs, s) > Modeled(reqs, s)
Shrinks(reqs, s) == Actual(reqs, s) * Sample(reqs, s) < Modeled(reqs, s)

(* summarize; of the modeled tokens it is only asked whether there are any.  *)
Summary(reqs) ==
  LET long == Long(reqs)
      sent == TrueSum(reqs, Prompt)
      observed == OverLong(reqs, LAMBDA s : Actual(reqs, s))
  IN  [sessions |-> Cardinality(SessionsOf(reqs)),
       included |-> Cardinality(long),
       all      |-> Capped(sent),
       observed |-> Capped(observed),
       modeled  |-> OverLong(reqs, LAMBDA s : Modeled(reqs, s)),
       positive |-> Cardinality({s \in long : Grows(reqs, s)}),
       negative |-> Cardinality({s \in long : Shrinks(reqs, s)}),
       overflow |-> \/ \E i \in DOMAIN reqs : TooManyTokens(TruePrompt(reqs[i]))
                    \/ TooManyTokens(sent) \/ TooManyTokens(observed)
                    \/ \E s \in long : TooManyTokens(SumOver(reqs, s, Turns(reqs, s)))]

WithoutTime(reqs) == {i \in DOMAIN reqs : reqs[i].ts = NoTime}

(* report_value, with what `verdict` exits with. *)
Reportable(reqs) ==
  WithoutTime(reqs) = {} /\ Gate(Len(reqs)) # "withheld" /\ ~Summary(reqs).overflow

Eligible(reqs) == Reportable(reqs) /\ Long(reqs) # {}

(* parsers.rs, counters_overflow: what it adds includes the answers. *)
CountersOverflow(reqs) == TooManyTokens(TrueSum(reqs, LAMBDA r : TruePrompt(r) + r.out))

(* compute, of whatever scan it is given *)
Computed(reqs) ==
  /\ WithoutTime(reqs) = {}
  /\ LET v == Summary(reqs) IN v.included > 0 /\ ~v.overflow /\ v.modeled > 0

(* The end of `init`: the line is printed behind the gate of the baseline,   *)
(* which counts the requests of the ignored projects, too.                  *)
InitLine(reqs) ==
  /\ Gate(Len(reqs) + ignored) # "withheld" /\ ~CountersOverflow(reqs)
  /\ reqs # << >> /\ Computed(reqs)

-----------------------------------------------------------------------------

(* No request of the session carries more, or less, than the one before. *)
NeverMore(reqs, s) ==
  \A i \in Within(reqs, s) :
    Rank(reqs, i) > 1 => TruePrompt(reqs[i]) <= TruePrompt(Previous(reqs, i))
NeverLess(reqs, s) ==
  \A i \in Within(reqs, s) :
    Rank(reqs, i) > 1 => TruePrompt(reqs[i]) >= TruePrompt(Previous(reqs, i))

(* verdictcmd.rs, initcmd.rs: a verdict, that of the command or the line     *)
(* `init` prints, is given only of sums that are the true ones, of sessions  *)
(* each counted on one side, where one that never grows does not count as    *)
(* growing.  Init prints none that `verdict` would withhold, unless it       *)
(* discloses malformed records while a project is ignored.                  *)
VerdictIsFair ==
  /\ Eligible(requests) \/ InitLine(requests) =>
       LET v == Summary(requests) IN
       /\ v.all = TrueSum(requests, TruePrompt)
       /\ v.observed = TrueSum(requests, LAMBDA r :
                         IF r.session \in Long(requests) THEN TruePrompt(r) ELSE 0)
       /\ v.positive + v.negative <= v.included
       /\ \A s \in Long(requests) :
            /\ NeverMore(requests, s) => ~Grows(requests, s)
            /\ NeverLess(requests, s) => ~Shrinks(requests, s)
  /\ InitLine(requests) /\ (ignored = 0 \/ CompleteAccounting) => Eligible(requests)
=============================================================================
