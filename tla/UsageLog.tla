------------------------------ MODULE UsageLog ------------------------------
(***************************************************************************)
(* parsers.rs: which records of the providers' logs a scan counts.  A log   *)
(* is the sequence of its lines that matter; what a scan counts is a set of *)
(* positions.  Claude repeats a message while it streams, Codex repeats the *)
(* last usage in later events, and a scan may be restricted to one project  *)
(* and to the time since a cutoff.  Token counts are left out: a record is  *)
(* countable or malformed.                                                  *)
(***************************************************************************)
EXTENDS Naturals, Sequences, FiniteSets

CONSTANTS
  Times,     \* timestamps
  Projects,  \* projects, the cwd of a Codex turn
  Messages,  \* ids of Claude messages
  Totals     \* cumulative counters of a Codex session

ASSUME LogAssumption == Times \subseteq Nat \ {0}

None == 0
Timestamps == Times \cup {None}
Cutoffs == Times \cup {None}

(* since.is_none_or(ts.is_some_and(ts >= cutoff)) *)
Since(ts, cutoff) == cutoff = None \/ (ts # None /\ ts >= cutoff)

-----------------------------------------------------------------------------
(* Claude                                                                  *)

ClaudeLine == [id : Messages \cup {None}, ts : Timestamps, valid : BOOLEAN]

(* parse_claude_file returns these lines: a request, or the bare id of one   *)
(* before the cutoff, which is not examined further.                        *)
Parsed(log, cutoff) ==
  {i \in DOMAIN log : Since(log[i].ts, cutoff) => log[i].valid}

(* The first occurrence of an id counts. *)
FirstSeen(log, parsed, i) ==
  log[i].id = None \/ \A j \in parsed : j < i => log[j].id # log[i].id

ClaudeCounted(log, cutoff) ==
  {i \in Parsed(log, cutoff) :
     Since(log[i].ts, cutoff) /\ FirstSeen(log, Parsed(log, cutoff), i)}

-----------------------------------------------------------------------------
(* Codex                                                                   *)

Turn == [kind : {"turn"}, cwd : Projects]
Usage == [kind : {"usage"}, ts : Timestamps, total : Totals \cup {None}]
Bad == [kind : {"bad"}]
CodexLine == Turn \cup Usage \cup Bad

(* No project asked for, or that of the turn the line belongs to. *)
Anywhere == "anywhere"
NoCwd == "unknown"
Wants == Projects \cup {Anywhere}

(* A project is a path, which is never empty. *)
ASSUME ScopeAssumption == Projects \cap {Anywhere, NoCwd} = {}

InScope(line, cwd, want, cutoff) ==
  Since(line.ts, cutoff) /\ want \in {Anywhere, cwd}

Start == [cwd |-> NoCwd, previous |-> None, counted |-> {}, malformed |-> FALSE]

(* Mutant: only what is in scope is remembered as the previous usage. *)
RemembersScope(a, line, want, cutoff) ==
  IF InScope(line, a.cwd, want, cutoff) THEN line.total ELSE a.previous

(* previous_usage is tracked before project and date filtering. *)
Remembers(a, line, want, cutoff) == line.total

Repeats(a, line) == line.total # None /\ line.total = a.previous

Read(a, line, i, want, cutoff) ==
  CASE line.kind = "turn" -> [a EXCEPT !.cwd = line.cwd]
    [] line.kind = "bad" -> [a EXCEPT !.previous = None, !.malformed = TRUE]
    [] line.kind = "usage" /\ Repeats(a, line) -> a
    [] line.kind = "usage" /\ ~Repeats(a, line) ->
         [a EXCEPT !.previous = Remembers(a, line, want, cutoff),
                   !.counted = IF InScope(line, a.cwd, want, cutoff)
                               THEN @ \cup {i} ELSE @]

(* parse_codex_file_mode after each line. *)
Reading(log, want, cutoff) ==
  LET state[i \in 0 .. Len(log)] ==
        IF i = 0 THEN Start ELSE Read(state[i - 1], log[i], i, want, cutoff)
  IN  state

CodexCounted(log, want, cutoff) ==
  Reading(log, want, cutoff)[Len(log)].counted

Malformed(log) == Reading(log, Anywhere, None)[Len(log)].malformed

-----------------------------------------------------------------------------
(* Logs of every content, and the properties of one scan.                  *)

CONSTANT MaxLines \* bound: lines of a log

VARIABLES claude, codex

logs == <<claude, codex>>

LogInit == claude = << >> /\ codex = << >>

(* The providers append; a log of one of them at a time. *)
ClaudeGrows ==
  /\ Len(claude) < MaxLines /\ codex = << >>
  /\ \E line \in ClaudeLine : claude' = Append(claude, line)
  /\ UNCHANGED codex

CodexGrows ==
  /\ Len(codex) < MaxLines /\ claude = << >>
  /\ \E line \in CodexLine : codex' = Append(codex, line)
  /\ UNCHANGED claude

LogSpec == LogInit /\ [][ClaudeGrows \/ CodexGrows]_logs

(* "Keep the id so global first-seen deduplication stays identical to an    *)
(* unfiltered scan": a scan since a cutoff counts what the full scan counts *)
(* since then.                                                              *)
SinceLikeUnfiltered ==
  \A cutoff \in Cutoffs :
    ClaudeCounted(claude, cutoff) =
      {i \in ClaudeCounted(claude, None) : Since(claude[i].ts, cutoff)}

(* A scan of one project or of recent days counts exactly those requests of *)
(* the full scan that belong there: usage repeated across the border of the *)
(* scope is counted on neither or one side (parse_codex_file_mode), and a    *)
(* message streamed across the cutoff belongs to the side it began on       *)
(* (parse_claude_file), unless one of the lines is damaged.                 *)
ScopedScansAgree ==
  /\ \A want \in Wants, cutoff \in Cutoffs :
       CodexCounted(codex, want, cutoff) =
         {i \in CodexCounted(codex, Anywhere, None) :
            InScope(codex[i], Reading(codex, Anywhere, None)[i].cwd, want, cutoff)}
  /\ (\A i \in DOMAIN claude : claude[i].valid) => SinceLikeUnfiltered
=============================================================================
