---------------------------- MODULE ProjectInit ----------------------------
(***************************************************************************)
(* initcmd.rs: `init` puts the block of rules into a project's CLAUDE.md    *)
(* and AGENTS.md, brings the block up to date, or upgrades the one of the   *)
(* first version, which had no end marker.  Both files are read and judged  *)
(* before the first is written; other inits run and the user edits at the   *)
(* same time.  A text is a sequence of lines; empty lines are left out.     *)
(***************************************************************************)
EXTENDS FiniteSets, SeqParts

CONSTANTS
  Inits,       \* processes that run init
  FirstLines,  \* what a project's files may hold at first
  MaxInits,    \* bound: commands
  MaxLineEdits \* bound: edits by the user

VARIABLES
  rules,    \* the text of each file; a missing file is an empty one
  turn,     \* where each init is: 0 is not running
  known,    \* what each init read, and the block it renders
  inits, lineEdits

initVars == <<rules, turn, known, inits, lineEdits>>

RuleFiles == <<"CLAUDE.md", "AGENTS.md">>
RuleFile == {RuleFiles[i] : i \in DOMAIN RuleFiles}

(* "chapter" stands for a heading of the second level, "title" for one of    *)
(* another; "old rule" is a line of the first version's block.               *)
UserLines == {"words", "title", "chapter"}
Rendered == {"some rules", "all rules"}
Lines == UserLines \cup Rendered \cup {"v1", "heading", "old rule", "v2", "end"}

ASSUME RulesAssumption == FirstLines \subseteq Seq(Lines)

(* Type invariant: the rule files and what each init knows of them. *)
InitTypeOK ==
  /\ rules \in [RuleFile -> Seq(Lines)]
  /\ turn \in [Inits -> 0 .. Len(RuleFiles)]
  /\ known \in [Inits -> [texts : [RuleFile -> Seq(Lines)], render : Rendered]]
  /\ inits \in Nat /\ lineEdits \in Nat

-----------------------------------------------------------------------------
(* upsert_block.                                                           *)

Lined(s, line) == {i \in DOMAIN s : s[i] = line}
The(S) == CHOOSE i \in S : TRUE

Block(render) == <<"v2", render, "end">>

HasBlock(s) == Lined(s, "v2") \cup Lined(s, "end") # {}
HasLegacy(s) == Lined(s, "v1") # {}

(* One block with its end behind it, or the marker of one old block with its *)
(* heading in the next line.  Anything else is ambiguous.                    *)
Clear(s) ==
  IF HasBlock(s)
  THEN /\ Cardinality(Lined(s, "v2")) = 1 /\ Cardinality(Lined(s, "end")) = 1
       /\ ~HasLegacy(s)
       /\ The(Lined(s, "v2")) < The(Lined(s, "end"))
  ELSE HasLegacy(s) =>
       /\ Cardinality(Lined(s, "v1")) = 1
       /\ The(Lined(s, "v1")) + 1 \in Lined(s, "heading")

(* The old block goes on to the next heading of the second level, or to the  *)
(* end of the file.                                                         *)
LegacyEnd(s) ==
  LET next == {i \in Lined(s, "chapter") \cup Lined(s, "heading") :
                 i > The(Lined(s, "v1")) + 1}
  IN  IF next = {} THEN Len(s)
      ELSE (CHOOSE i \in next : \A j \in next : i <= j) - 1

(* Mutant: an old block stays beside the new one. *)
AppendsOnly(s, render) == s \o Block(render)

Upserted(s, render) ==
  IF HasBlock(s)
  THEN Spliced(s, The(Lined(s, "v2")), The(Lined(s, "end")), Block(render))
  ELSE IF HasLegacy(s)
  THEN Spliced(s, The(Lined(s, "v1")), LegacyEnd(s), Block(render))
  ELSE s \o Block(render)

-----------------------------------------------------------------------------

NothingRead == [texts |-> [f \in RuleFile |-> << >>], render |-> "all rules"]

InitInit ==
  /\ rules \in [RuleFile -> FirstLines]
  /\ turn = [p \in Inits |-> 0] /\ known = [p \in Inits |-> NothingRead]
  /\ inits = 0 /\ lineEdits = 0

(* run: both files are read, the configuration says which rules are on, and  *)
(* an ambiguous file ends the command before anything is written.           *)
BeginInit(p) ==
  /\ turn[p] = 0 /\ inits < MaxInits
  /\ inits' = inits + 1
  /\ \E render \in Rendered :
       known' = [known EXCEPT ![p] = [texts |-> rules, render |-> render]]
  /\ \A f \in RuleFile : Clear(rules[f])
  /\ turn' = [turn EXCEPT ![p] = 1]
  /\ UNCHANGED <<rules, lineEdits>>

(* apply_block: the text is made from what was read at the start.            *)
ApplyBlock(p) ==
  /\ turn[p] # 0
  /\ LET f == RuleFiles[turn[p]] IN
     rules' = [rules EXCEPT ![f] = Upserted(known[p].texts[f], known[p].render)]
  /\ IF turn[p] = Len(RuleFiles)
     THEN turn' = [turn EXCEPT ![p] = 0] /\ known' = [known EXCEPT ![p] = NothingRead]
     ELSE turn' = [turn EXCEPT ![p] = @ + 1] /\ UNCHANGED known
  /\ UNCHANGED <<inits, lineEdits>>

(* A crash, or an error that leaves the second file as it was. *)
InitStops(p) ==
  /\ turn[p] # 0
  /\ turn' = [turn EXCEPT ![p] = 0] /\ known' = [known EXCEPT ![p] = NothingRead]
  /\ UNCHANGED <<rules, inits, lineEdits>>

EditRules(f) ==
  /\ lineEdits < MaxLineEdits
  /\ \/ \E line \in UserLines, i \in 0 .. Len(rules[f]) :
          rules' = [rules EXCEPT ![f] = Spliced(@, i + 1, i, <<line>>)]
     \/ \E i \in DOMAIN rules[f] : rules' = [rules EXCEPT ![f] = Spliced(@, i, i, << >>)]
  /\ lineEdits' = lineEdits + 1
  /\ UNCHANGED <<turn, known, inits>>

InitNext ==
  \/ \E p \in Inits : BeginInit(p) \/ ApplyBlock(p) \/ InitStops(p)
  \/ \E f \in RuleFile : EditRules(f)

InitSpec == InitInit /\ [][InitNext]_initVars

-----------------------------------------------------------------------------

Users(s) == Only(s, UserLines)

(* The user's lines outside of the block between the two markers. *)
Outside(s) ==
  IF ~HasBlock(s) THEN Users(s)
  ELSE Users(Spliced(s, The(Lined(s, "v2")), The(Lined(s, "end")), << >>))

(* Whatever users, crashes and other inits made of a file: if init takes it,  *)
(* it leaves one clear block, takes it again without a change, puts another  *)
(* selection of rules into the same place, and keeps the user's lines around *)
(* the block (for a block without end: those before it).                    *)
InitRoundTrips ==
  \A f \in RuleFile, render \in Rendered :
    Clear(rules[f]) =>
      LET s == rules[f]
          next == Upserted(s, render)
      IN /\ Clear(next) /\ HasBlock(next)
         /\ \A other \in Rendered :
              /\ Upserted(Upserted(next, other), render) = next
              /\ Outside(Upserted(next, other)) = Outside(next)
         /\ ~HasLegacy(s) => Outside(next) = Outside(s)
         /\ HasLegacy(s) =>
              LET before == The(Lined(s, "v1")) - 1
              IN  SubSeq(next, 1, before) = SubSeq(s, 1, before)
=============================================================================
