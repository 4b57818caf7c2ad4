------------------------------- MODULE Setup -------------------------------
(***************************************************************************)
(* setupcmd.rs: setup puts blocks of its own into the providers' global     *)
(* instruction files and configuration and takes them out again, while the  *)
(* user edits the same files and other setups run.  Nothing is locked: all  *)
(* files are planned first, and each is compared with its plan before it is *)
(* replaced.  A text is a sequence of words, line ends and blocks; a line   *)
(* end that came with a block is told apart for the properties only.        *)
(***************************************************************************)
EXTENDS FiniteSets, SeqParts

CONSTANTS
  Setups,     \* processes that run setup
  FirstTexts, \* what a file may hold before setup is first run
  MaxSetups,  \* bound: commands
  MaxEdits    \* bound: edits by the user

VARIABLES
  text,    \* the text of each file; a missing file is an empty one
  backup,  \* its .codeunlimited.bak
  stage,   \* where each setup is
  planned, \* what each setup read and wants to write
  begun,   \* commands started
  edits,   \* edits made
  overtaken \* history: setups whose file was changed after they compared it

setupVars == <<text, backup, stage, planned, begun, edits, overtaken>>

(* AGENTS.md is treated like CLAUDE.md. *)
Order == <<"CLAUDE.md", "config.toml">>
Targets == {Order[i] : i \in DOMAIN Order}
Modes == {"install", "autopilot", "remove"}

Blocks == {"policy", "autopilot"}
Edited == [policy |-> "edited policy", autopilot |-> "edited autopilot"]
UserTokens == {"words", "newline", "value"}
Tokens == Blocks \cup {Edited[b] : b \in Blocks} \cup UserTokens \cup {"added"}

ASSUME SetupAssumption == FirstTexts \subseteq Seq(UserTokens)

NewLine(t) == t \in {"newline", "added"}

(* Type invariant: the texts, backups and setups. *)
SetupTypeOK ==
  /\ text \in [Targets -> Seq(Tokens)]
  /\ backup \in [Targets -> [some : BOOLEAN, text : Seq(Tokens)]]
  /\ stage \in [Setups -> [pos : 1 .. 3, replacing : BOOLEAN]]
  /\ planned \in [Setups -> [Targets -> [was : Seq(Tokens), next : Seq(Tokens)]]]
  /\ begun \in Nat /\ edits \in Nat
  /\ overtaken \subseteq Setups

-----------------------------------------------------------------------------
(* The next text of a file.                                                *)

Marked(s, b) == {i \in DOMAIN s : s[i] \in {b, Edited[b]}}

WholeLine(s, i) ==
  /\ i > 1 => NewLine(s[i - 1])
  /\ i < Len(s) => NewLine(s[i + 1])

(* owned_range and the comparison with the block as it is installed. *)
Managed(f, s, b) ==
  /\ Cardinality(Marked(s, b)) = 1
  /\ \A i \in Marked(s, b) :
       s[i] = b /\ WholeLine(s, i) /\ i < Len(s) /\ (f = "CLAUDE.md" => i > 1)

(* The user's own value for a key that a block sets: TOML allows one. *)
OwnValue(f, s) == f = "config.toml" /\ \E i \in DOMAIN s : s[i] = "value"

Understood(f, s, b) == Marked(s, b) # {} => Managed(f, s, b) /\ ~OwnValue(f, s)

(* Mutant: no line end before the block. *)
PutClose(f, s, b) ==
  IF f = "CLAUDE.md" THEN s \o <<b, "added">> ELSE <<b, "added">> \o s

Put(f, s, b) ==
  IF f = "CLAUDE.md" THEN s \o <<"added", b, "added">> ELSE <<b, "added">> \o s

Cut(f, s, i) ==
  SubSeq(s, 1, IF f = "CLAUDE.md" THEN i - 2 ELSE i - 1) \o SubSeq(s, i + 2, Len(s))

(* policy_next, autopilot_policy_next and their two fellows for config.toml. *)
NextText(f, s, b, mode) ==
  IF Marked(s, b) # {} /\ mode = "remove"
    THEN Cut(f, s, CHOOSE i \in Marked(s, b) : TRUE)
  ELSE IF Marked(s, b) # {} \/ mode = "remove" \/ OwnValue(f, s)
          \/ (b = "autopilot" /\ mode = "install")
    THEN s
  ELSE Put(f, s, b)

Accepts(f, s, mode) ==
  /\ Understood(f, s, "policy")
  /\ Understood(f, NextText(f, s, "policy", mode), "autopilot")

(* Once the blocks are gone no line end is told apart. *)
Settled(s, mode) ==
  IF mode = "remove"
  THEN [i \in DOMAIN s |-> IF s[i] = "added" THEN "newline" ELSE s[i]] ELSE s

Planned(f, s, mode) ==
  Settled(NextText(f, NextText(f, s, "policy", mode), "autopilot", mode), mode)

-----------------------------------------------------------------------------

(* What is the user's, an edited block too, and how many line ends are.      *)
OwnText(s) == Only(s, Tokens \ (Blocks \cup {"newline", "added"}))
OwnLines(s) == Cardinality({i \in DOMAIN s : s[i] = "newline"})

SameOwn(s, t) == OwnText(s) = OwnText(t) /\ OwnLines(s) = OwnLines(t)

Resting == [pos |-> 3, replacing |-> FALSE]
NoPlan == [f \in Targets |-> [was |-> << >>, next |-> << >>]]

SetupInit ==
  /\ text \in [Targets -> FirstTexts]
  /\ backup = [f \in Targets |-> [some |-> FALSE, text |-> << >>]]
  /\ stage = [p \in Setups |-> Resting] /\ planned = [p \in Setups |-> NoPlan]
  /\ begun = 0 /\ edits = 0 /\ overtaken = {}

(* targets: every file is understood before the first is changed. *)
PlanTargets(p, mode) ==
  /\ stage[p] = Resting /\ begun < MaxSetups
  /\ \A f \in Targets : Accepts(f, text[f], mode)
  /\ planned' = [planned EXCEPT ![p] =
       [f \in Targets |-> [was |-> text[f], next |-> Planned(f, text[f], mode)]]]
  /\ stage' = [stage EXCEPT ![p].pos = 1]
  /\ begun' = begun + 1
  /\ UNCHANGED <<text, backup, edits, overtaken>>

Return(p) ==
  /\ stage' = [stage EXCEPT ![p] = Resting]
  /\ planned' = [planned EXCEPT ![p] = NoPlan]

ToNext(p) ==
  IF stage[p].pos = Len(Order) THEN Return(p)
  ELSE /\ stage' = [stage EXCEPT ![p] = [pos |-> stage[p].pos + 1, replacing |-> FALSE]]
       /\ UNCHANGED planned

(* Mutant: what was planned is written. *)
NeverCompared(p, f) == TRUE

AsPlanned(p, f) == text[f] = planned[p][f].was

(* Setups that have compared the file and not yet replaced it. *)
Busy(f) == {p \in Setups : stage[p].replacing /\ Order[stage[p].pos] = f}

CompareTarget(p) ==
  /\ stage[p] # Resting /\ ~stage[p].replacing
  /\ LET f == Order[stage[p].pos] IN
     \/ planned[p][f].was = planned[p][f].next /\ ToNext(p)
     \/ /\ planned[p][f].was # planned[p][f].next /\ AsPlanned(p, f)
        /\ stage' = [stage EXCEPT ![p].replacing = TRUE]
        /\ UNCHANGED planned
     \/ planned[p][f].was # planned[p][f].next /\ ~AsPlanned(p, f) /\ Return(p)
  /\ UNCHANGED <<text, backup, begun, edits, overtaken>>

(* The first text a setup ever replaces is kept: as it is read once more.    *)
BackUp(p) ==
  /\ stage[p].replacing
  /\ LET f == Order[stage[p].pos] IN
     /\ ~backup[f].some /\ text[f] # << >>
     /\ backup' = [backup EXCEPT ![f] = [some |-> TRUE, text |-> text[f]]]
  /\ UNCHANGED <<text, stage, planned, begun, edits, overtaken>>

(* Nothing is compared again, whatever has become of the file.               *)
Replace(p) ==
  /\ stage[p].replacing
  /\ LET f == Order[stage[p].pos] IN
     /\ backup[f].some \/ planned[p][f].was = << >>
     /\ text' = [text EXCEPT ![f] = planned[p][f].next]
     /\ overtaken' = (IF SameOwn(text[f], text'[f]) THEN overtaken
                      ELSE overtaken \cup Busy(f)) \ {p}
  /\ ToNext(p)
  /\ UNCHANGED <<backup, begun, edits>>

(* A crash or an error: the files after this one keep what they have. *)
BreakOff(p) ==
  /\ stage[p] # Resting /\ Return(p)
  /\ overtaken' = overtaken \ {p}
  /\ UNCHANGED <<text, backup, begun, edits>>

Insert(s, i, t) == SubSeq(s, 1, i) \o <<t>> \o SubSeq(s, i + 1, Len(s))

(* At any time, also between the comparison and the replacement of a setup.  *)
UserEdits(f) ==
  /\ edits < MaxEdits
  /\ \/ \E t \in UserTokens, i \in 0 .. Len(text[f]) :
          text' = [text EXCEPT ![f] = Insert(@, i, t)]
     \/ \E i \in DOMAIN text[f] :
          /\ text[f][i] \in Blocks
          /\ text' = [text EXCEPT ![f][i] = Edited[text[f][i]]]
  /\ edits' = edits + 1
  /\ overtaken' = overtaken \cup Busy(f)
  /\ UNCHANGED <<backup, stage, planned, begun>>

SetupNext ==
  \/ \E p \in Setups :
       \/ \E mode \in Modes : PlanTargets(p, mode)
       \/ CompareTarget(p) \/ BackUp(p) \/ Replace(p) \/ BreakOff(p)
  \/ \E f \in Targets : UserEdits(f)

SetupSpec == SetupInit /\ [][SetupNext]_setupVars

-----------------------------------------------------------------------------

Untouched(s) == \A b \in Blocks : Marked(s, b) = {}

(* Setup never adds to, drops or reorders what the user wrote, in any mix of *)
(* installs, removals, interruptions and edits of the user, but for one      *)
(* case: the file it is replacing was changed after it compared it, and no   *)
(* lock keeps that from happening (apply; "External concurrent edits are     *)
(* checked before each write, but configuration editors do not share a       *)
(* transaction lock").  Only line ends are alike to it: of two around a      *)
(* block it may take the user's.                                             *)
UserTextKept ==
  [][edits' = edits =>
       \A f \in Targets :
         \/ SameOwn(text[f], text'[f])
         \/ \E p \in overtaken : p \in Busy(f) /\ stage'[p] # stage[p]]_setupVars

(* Whatever a file holds by now: if setup takes it at all, it takes its own  *)
(* result again, changes nothing the second time, and removes all it put     *)
(* there, to the letter if it found the file without a block ("rerunning     *)
(* setup after fixing the cause repairs the remaining files").              *)
InstallRoundTrips ==
  \A f \in Targets, mode \in Modes \ {"remove"} :
    Accepts(f, text[f], mode) =>
      LET next == Planned(f, text[f], mode)
          bare == Planned(f, next, "remove")
      IN /\ Accepts(f, next, mode) /\ Planned(f, next, mode) = next
         /\ Accepts(f, next, "remove")
         /\ Untouched(bare) /\ SameOwn(bare, text[f])
         /\ Untouched(text[f]) => bare = text[f]
=============================================================================
