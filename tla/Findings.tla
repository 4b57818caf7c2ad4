------------------------------ MODULE Findings ------------------------------
(***************************************************************************)
(* detectors.rs: what the reports call wasted.  Five detectors look at the  *)
(* same requests and claim a part of a request each; the headline counts a  *)
(* request once.  Requests arrive in the order in which the logs are read,  *)
(* which is not the order of their times.  Averages are exact fractions,    *)
(* where the code has an f64.                                               *)
(***************************************************************************)
EXTENDS FiniteSets, SeqParts

CONSTANTS
  Sessions,      \* source, project and session of a request
  Kinds,         \* the requests that may be logged
  MaxTokens,     \* u64::MAX
  LongSession,   \* long_session_turns of the configuration
  EarlyN,        \* EARLY_N
  TrivialOutput, \* trivial_output_tokens
  FatStart,      \* fat_start_tokens
  MinRewrite,    \* 2,000 tokens
  MinRetry,      \* 1,000 tokens
  RetryGap,      \* 90 s
  ShortLife,     \* 300 s, of a cache entry
  LongLife,      \* 3,600 s
  MaxRequests    \* bound: requests

NoTime == -1

Request == [session : Sessions, claude : BOOLEAN, heavy : BOOLEAN,
            ts : Nat \cup {NoTime}, unc : 0 .. MaxTokens, cached : 0 .. MaxTokens,
            w5 : 0 .. MaxTokens, w1h : 0 .. MaxTokens, out : 0 .. MaxTokens]

ASSUME FindingsAssumption ==
  /\ Kinds \subseteq Request /\ EarlyN \in Nat \ {0} /\ LongSession \in Nat \ {0, 1}
  /\ {MaxTokens, TrivialOutput, FatStart, MinRewrite, MinRetry, RetryGap} \subseteq Nat

VARIABLE requests  \* in the order in which they were read

WasteInit == requests = << >>

ReadRequest ==
  /\ Len(requests) < MaxRequests
  /\ \E r \in Kinds : requests' = Append(requests, r)

-----------------------------------------------------------------------------

(* What a saturating sum makes of the true one. *)
Capped(n) == IF n > MaxTokens THEN MaxTokens ELSE n

TruePrompt(r) == r.unc + r.cached + r.w5 + r.w1h
Prompt(r) == Capped(TruePrompt(r))
Written(r) == Capped(r.w5 + r.w1h)

(* By time; those without one last; a stable sort. *)
Precedes(reqs, i, j) ==
  LET a == reqs[i].ts
      b == reqs[j].ts
  IN  \/ a # NoTime /\ (b = NoTime \/ a < b)
      \/ a = b /\ i < j

(* The requests of a session, by their positions, and the place of each.     *)
Within(reqs, s) == {i \in DOMAIN reqs : reqs[i].session = s}

Rank(reqs, i) ==
  1 + Cardinality({j \in Within(reqs, reqs[i].session) : Precedes(reqs, j, i)})

Rows(reqs, s) ==
  [k \in 1 .. Cardinality(Within(reqs, s)) |->
     CHOOSE i \in Within(reqs, s) : Rank(reqs, i) = k]

Previous(reqs, i) == reqs[Rows(reqs, reqs[i].session)[Rank(reqs, i) - 1]]

(* What the first n requests of a session sent. *)
SumOver(reqs, s, n) ==
  LET rows == Rows(reqs, s) IN Total([k \in 1 .. n |-> Prompt(reqs[rows[k]])])

Portion(amount, percent) == (amount * percent) \div 100

Claim(amount, mid, lo, hi) ==
  [mid |-> Portion(amount, mid), lo |-> Portion(amount, lo), hi |-> Portion(amount, hi)]

-----------------------------------------------------------------------------
(* The detectors: what each claims, of the requests it claims.             *)

HeavyOnTrivial(reqs) ==
  [i \in {i \in DOMAIN reqs :
            reqs[i].heavy /\ reqs[i].out > 0 /\ reqs[i].out < TrivialOutput} |->
     Claim(Prompt(reqs[i]), 50, 25, 75)]

Smaller(a, b) == IF a < b THEN a ELSE b

(* By how much a request exceeds the average of the session's first ones.    *)
Excess(reqs, i) ==
  LET s == reqs[i].session
      n == Smaller(EarlyN, Smaller(LongSession, Cardinality(Within(reqs, s))))
      over == Prompt(reqs[i]) * n - SumOver(reqs, s, n)
  IN  IF over > 0 THEN over \div n ELSE 0

ContextTax(reqs) ==
  [i \in {i \in DOMAIN reqs : Rank(reqs, i) > LongSession /\ Excess(reqs, i) > 0} |->
     Claim(Excess(reqs, i), 60, 40, 80)]

SoonAfter(r, previous, gap) ==
  r.ts # NoTime /\ previous.ts # NoTime /\ r.ts - previous.ts <= gap

(* The cache was still there; a gap that is too long, or unknown, is no      *)
(* claim.                                                                   *)
Rewrites(reqs, i) ==
  /\ Rank(reqs, i) > 1
  /\ LET r == reqs[i]
         previous == Previous(reqs, i)
     IN  /\ r.claude /\ r.cached = 0 /\ Written(r) >= MinRewrite
         /\ SoonAfter(r, previous,
              IF r.w1h > 0 \/ previous.w1h > 0 THEN LongLife ELSE ShortLife)

CacheRewrites(reqs) ==
  [i \in {i \in DOMAIN reqs : Rewrites(reqs, i)} |-> Claim(Written(reqs[i]), 100, 100, 100)]

FatStarts(reqs) ==
  [i \in {i \in DOMAIN reqs :
            Rank(reqs, i) = 1 /\ reqs[i].claude /\ Written(reqs[i]) > FatStart} |->
     Claim(Written(reqs[i]) - FatStart, 50, 25, 75)]

(* The same size again, soon after. *)
Resent(reqs, i) ==
  /\ Rank(reqs, i) > 1
  /\ Prompt(reqs[i]) = Prompt(Previous(reqs, i)) /\ Prompt(reqs[i]) > MinRetry
  /\ SoonAfter(reqs[i], Previous(reqs, i), RetryGap)

(* Three in a row, of which the first was no repetition. *)
RetryStorms(reqs) ==
  [i \in {i \in DOMAIN reqs :
            /\ Resent(reqs, i)
            /\ \E j \in Within(reqs, reqs[i].session) :
                 /\ Rank(reqs, j) \in {Rank(reqs, i) - 1, Rank(reqs, i) + 1}
                 /\ Resent(reqs, j)} |->
     Claim(Prompt(reqs[i]), 50, 25, 75)]

AllFindings(reqs) ==
  <<HeavyOnTrivial(reqs), ContextTax(reqs), CacheRewrites(reqs), FatStarts(reqs),
    RetryStorms(reqs)>>

Claimed(claims, i, field) == IF i \in DOMAIN claims THEN claims[i][field] ELSE 0

Impact(reqs, claims, field) ==
  Capped(Total([i \in DOMAIN reqs |-> Claimed(claims, i, field)]))

(* Mutant: the claims of all detectors are added. *)
AddsClaims(mids) == Total(mids)

(* What counts of the claims on one request. *)
Headline(mids) ==
  LET all == {mids[f] : f \in DOMAIN mids} IN CHOOSE m \in all : \A n \in all : n <= m

ReclaimTotal(reqs) ==
  LET found == AllFindings(reqs) IN
  Capped(Total([i \in DOMAIN reqs |->
    Headline([f \in DOMAIN found |-> Claimed(found[f], i, "mid")])]))

-----------------------------------------------------------------------------

TrueSum(reqs, Of(_)) == Total([i \in DOMAIN reqs |-> Of(reqs[i])])

(* The last request is also the last in time, and all times are known. *)
InOrder(reqs) ==
  \A i \in DOMAIN reqs :
    reqs[i].ts # NoTime /\ reqs[i].ts <= reqs[Len(reqs)].ts

(* detectors.rs, docs/ACCURACY.md ("It does not add those overlapping claims *)
(* together"): the ranges are ranges, no detector claims more than was sent, *)
(* the headline is at least each finding and at most everything that was     *)
(* sent, in whatever order the logs are read; and requests that come later   *)
(* take nothing back of what was found before.                              *)
ImpactIsBounded ==
  LET found == AllFindings(requests)
      sent == Capped(TrueSum(requests, Prompt))
      total == ReclaimTotal(requests)
  IN  /\ \A f \in DOMAIN found :
           /\ \A i \in DOMAIN found[f] :
                found[f][i].lo <= found[f][i].mid /\ found[f][i].mid <= found[f][i].hi
           /\ Impact(requests, found[f], "hi") <= sent
           /\ Impact(requests, found[f], "mid") <= total
      /\ total <= sent
      /\ requests # << >> /\ InOrder(requests) =>
           LET before == AllFindings(SubSeq(requests, 1, Len(requests) - 1)) IN
           \A f \in DOMAIN found : \A i \in DOMAIN before[f] :
             i \in DOMAIN found[f] /\ found[f][i] = before[f][i]
=============================================================================
