------------------------------ MODULE SeqParts ------------------------------
(* Texts, logs and amounts are sequences; what several modules take of them. *)
(* Recursive functions, which proofs can unfold.                            *)
EXTENDS Integers, Sequences

(* The tokens of a set, in the order of the text.                            *)
Only(s, S) ==
  LET kept[i \in 0 .. Len(s)] ==
        IF i = 0 THEN << >>
        ELSE IF s[i] \in S THEN Append(kept[i - 1], s[i]) ELSE kept[i - 1]
  IN  kept[Len(s)]

(* What is from one place to another gives way to something else.            *)
Spliced(s, from, to, new) == SubSeq(s, 1, from - 1) \o new \o SubSeq(s, to + 1, Len(s))

(* The sum of some amounts. *)
Total(amounts) ==
  LET sum[i \in 0 .. Len(amounts)] == IF i = 0 THEN 0 ELSE sum[i - 1] + amounts[i]
  IN  sum[Len(amounts)]
=============================================================================
