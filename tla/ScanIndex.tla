----------------------------- MODULE ScanIndex -----------------------------
(***************************************************************************)
(* scan_codex with the metadata index: a best-effort file that says of      *)
(* session files which projects and times they hold, so that a scan may     *)
(* skip one without opening it.  Scans run at any time, also two at once,   *)
(* while Codex appends to the session file; nobody locks the index.         *)
(***************************************************************************)
EXTENDS UsageLog

CONSTANTS
  Scanners, \* scanning processes
  MaxScans  \* bound: scans started

VARIABLES
  index,  \* the entry of the session file in codex-index-v1.json
  at,     \* where each scan is
  query,  \* project and cutoff of each scan
  held,   \* the index as each scan has it in memory
  taken,  \* the fingerprint each scan took
  skipped,\* history: the last decision to skip a file hid something
  scans

scanning == <<index, at, query, held, taken, skipped, scans>>
scanVars == <<logs, scanning>>

(* The fingerprint of a file that only grows is its length. *)
Fingerprint == Len(codex)

Entry == [fp : Nat, cwds : SUBSET Projects, last : Timestamps]
NoEntry == [fp |-> 0, cwds |-> {}, last |-> None]

(* Type invariant: the index and the scans. *)
ScanTypeOK ==
  /\ index \in Entry /\ held \in [Scanners -> Entry]
  /\ at \in [Scanners -> {"idle", "look", "parse", "save"}]
  /\ query \in [Scanners -> [want : Wants, since : Cutoffs]]
  /\ taken \in [Scanners -> Nat] /\ skipped \in BOOLEAN /\ scans \in Nat

ScanInit ==
  /\ index = NoEntry /\ held = [p \in Scanners |-> NoEntry]
  /\ at = [p \in Scanners |-> "idle"]
  /\ query = [p \in Scanners |-> [want |-> Anywhere, since |-> None]]
  /\ taken = [p \in Scanners |-> 0] /\ skipped = FALSE /\ scans = 0

(* IndexAccess::load; an index that cannot be used is started anew. *)
Load(p) ==
  /\ at[p] = "idle" /\ scans < MaxScans
  /\ at' = [at EXCEPT ![p] = "look"]
  /\ \E want \in Wants, since \in Cutoffs :
       query' = [query EXCEPT ![p] = [want |-> want, since |-> since]]
  /\ \E entry \in {index, NoEntry} : held' = [held EXCEPT ![p] = entry]
  /\ scans' = scans + 1
  /\ UNCHANGED <<logs, index, taken, skipped>>

Elsewhere(entry, want) == want # Anywhere /\ want \notin entry.cwds

EntirelyOld(entry, cutoff) ==
  cutoff # None /\ entry.last # None /\ entry.last < cutoff

MaySkip(entry, q) == Elsewhere(entry, q.want) \/ EntirelyOld(entry, q.since)

LookUp(p) ==
  /\ at[p] = "look" /\ codex # << >>
  /\ LET skip == held[p].fp = Fingerprint /\ MaySkip(held[p], query[p]) IN
     /\ at' = [at EXCEPT ![p] = IF skip THEN "save" ELSE "parse"]
     /\ skipped' = (skip /\ CodexCounted(codex, query[p].want, query[p].since) # {})
  /\ taken' = [taken EXCEPT ![p] = Fingerprint]
  /\ UNCHANGED <<logs, index, query, held, scans>>

Largest(S) == CHOOSE n \in S : \A m \in S : m <= n

(* FileObservation: every turn and every timestamp of the file, in scope or not. *)
Observed(fp) ==
  [fp |-> fp,
   cwds |-> {codex[i].cwd : i \in {i \in DOMAIN codex : codex[i].kind = "turn"}},
   last |-> Largest({None} \cup
              {codex[i].ts : i \in {i \in DOMAIN codex : codex[i].kind = "usage"}})]

(* The file is read, up to an end it may have moved since the fingerprint. *)
ParseFile(p) ==
  /\ at[p] = "parse"
  /\ at' = [at EXCEPT ![p] = "save"]
  /\ held' = IF Malformed(codex) THEN held
             ELSE [held EXCEPT ![p] = Observed(taken[p])]
  /\ UNCHANGED <<logs, index, query, taken, skipped, scans>>

(* Mutant: the fingerprint is taken when the entry is saved. *)
FingerprintsLate(p) == [held[p] EXCEPT !.fp = Fingerprint]

Remembered(p) == held[p]

(* The last writer wins; a write that fails is a warning. *)
SaveIndex(p) ==
  /\ at[p] = "save"
  /\ index' \in {Remembered(p), index}
  /\ at' = [at EXCEPT ![p] = "idle"]
  /\ UNCHANGED <<logs, query, held, taken, skipped, scans>>

ScanStep(p) == Load(p) \/ LookUp(p) \/ ParseFile(p) \/ SaveIndex(p)

ScanNext ==
  \/ CodexGrows /\ UNCHANGED scanning
  \/ \E p \in Scanners : ScanStep(p)

ScanSpec == LogInit /\ ScanInit /\ [][ScanNext]_scanVars

(* A file that a scan skips on the word of the index holds nothing the scan  *)
(* would have counted (scan_codex_root).                                    *)
IndexHidesNothing == ~skipped
=============================================================================
