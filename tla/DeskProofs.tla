----------------------------- MODULE DeskProofs -----------------------------
(***************************************************************************)
(* What setup and init promise of the files the user writes, too, and what  *)
(* the reports may say of the requests; for any number of commands, edits,   *)
(* texts and requests.                                                      *)
(***************************************************************************)
EXTENDS MCDesk, StoreProofs

-----------------------------------------------------------------------------
(* Setup: the user's tokens are kept in their order, and as many line ends.  *)

(* What is kept of the first n tokens. *)
Keeps(g, s, S, n) ==
  g = [i \in 0 .. n |-> IF i = 0 THEN << >>
                        ELSE IF s[i] \in S THEN Append(g[i - 1], s[i]) ELSE g[i - 1]]

LEMMA KeepsExist == ASSUME NEW s, NEW S, NEW n \in Nat PROVE \E g : Keeps(g, s, S, n)
<1>. DEFINE M == {m \in 0 .. n : \E g : Keeps(g, s, S, m)}
<1>1. 0 \in M
  <2>. DEFINE g == [i \in 0 .. 0 |-> << >>]
  <2>1. Keeps(g, s, S, 0)
    BY DEF Keeps
  <2>. QED
    BY <2>1
<1>2. ASSUME NEW i \in 0 .. n, i \in M, i < n
      PROVE  i + 1 \in M
  <2>1. PICK g : Keeps(g, s, S, i)
    BY <1>2
  <2>. DEFINE last == IF s[i + 1] \in S THEN Append(g[i], s[i + 1]) ELSE g[i]
              h == [k \in 0 .. i + 1 |-> IF k <= i THEN g[k] ELSE last]
  <2>2. (\A k \in 0 .. i : h[k] = g[k]) /\ h[i + 1] = last
    OBVIOUS
  <2>3. \A k \in 0 .. i : g[k] = IF k = 0 THEN << >>
                                 ELSE IF s[k] \in S THEN Append(g[k - 1], s[k]) ELSE g[k - 1]
    BY <2>1 DEF Keeps
  <2>4. DOMAIN h = 0 .. i + 1 /\ h = [k \in 0 .. i + 1 |-> h[k]]
    OBVIOUS
  <2>. HIDE DEF h
  <2>5. \A k \in 0 .. i : h[k] = IF k = 0 THEN << >>
                                 ELSE IF s[k] \in S THEN Append(h[k - 1], s[k]) ELSE h[k - 1]
    BY <2>2, <2>3
  <2>6. h[i + 1] = IF s[i + 1] \in S THEN Append(h[i], s[i + 1]) ELSE h[i]
    BY <2>2
  <2>7. \A k \in 0 .. i + 1 :
          h[k] = IF k = 0 THEN << >>
                 ELSE IF s[k] \in S THEN Append(h[k - 1], s[k]) ELSE h[k - 1]
    BY <2>5, <2>6
  <2>8. Keeps(h, s, S, i + 1)
    BY <2>4, <2>7 DEF Keeps
  <2>. QED
    BY <1>2, <2>8
<1>. HIDE DEF M
<1>3. \A i \in 0 .. n : i \in M
  BY <1>1, <1>2, SetInduction
<1>. QED
  BY <1>3 DEF M

(* The recursion behind Only. *)
Kept(s, S) == CHOOSE g : Keeps(g, s, S, Len(s))

LEMMA KeptSteps ==
  ASSUME NEW s, Len(s) \in Nat, NEW S
  PROVE  /\ Only(s, S) = Kept(s, S)[Len(s)] /\ Kept(s, S)[0] = << >>
         /\ \A i \in 1 .. Len(s) :
              Kept(s, S)[i] = IF s[i] \in S THEN Append(Kept(s, S)[i - 1], s[i])
                              ELSE Kept(s, S)[i - 1]
<1>. DEFINE g == Kept(s, S)
<1>1. Only(s, S) = g[Len(s)]
  BY DEF Only, Kept, Keeps
<1>2. Keeps(g, s, S, Len(s))
  BY KeepsExist DEF Kept
<1>. HIDE DEF g
<1>3. \A i \in 0 .. Len(s) : g[i] = IF i = 0 THEN << >>
                                    ELSE IF s[i] \in S THEN Append(g[i - 1], s[i]) ELSE g[i - 1]
  BY <1>2 DEF Keeps
<1>4. g[0] = << >> /\ \A i \in 1 .. Len(s) :
        g[i] = IF s[i] \in S THEN Append(g[i - 1], s[i]) ELSE g[i - 1]
  BY <1>3
<1>. QED
  BY <1>1, <1>4 DEF g

(* Of a text and one more token. *)
LEMMA OnlyAppend ==
  ASSUME NEW X, NEW s \in Seq(X), NEW t \in X, NEW S
  PROVE  Only(Append(s, t), S) = IF t \in S THEN Append(Only(s, S), t) ELSE Only(s, S)
<1>. DEFINE longer == Append(s, t)
            g == Kept(s, S)
            h == Kept(longer, S)
            M == {i \in 0 .. Len(s) : h[i] = g[i]}
<1>1. /\ Len(s) \in Nat /\ Len(longer) = Len(s) + 1
      /\ \A i \in 1 .. Len(s) : longer[i] = s[i]
      /\ longer[Len(s) + 1] = t
  OBVIOUS
<1>. HIDE DEF longer
<1>2. /\ Only(s, S) = g[Len(s)] /\ g[0] = << >>
      /\ \A i \in 1 .. Len(s) : g[i] = IF s[i] \in S THEN Append(g[i - 1], s[i]) ELSE g[i - 1]
  BY <1>1, KeptSteps
<1>3. /\ Only(longer, S) = h[Len(s) + 1] /\ h[0] = << >>
      /\ \A i \in 1 .. Len(s) + 1 :
           h[i] = IF longer[i] \in S THEN Append(h[i - 1], longer[i]) ELSE h[i - 1]
  BY <1>1, KeptSteps
<1>. HIDE DEF g, h
<1>4. 0 \in M
  BY <1>1, <1>2, <1>3
<1>5. ASSUME NEW i \in 0 .. Len(s), i \in M, i < Len(s) PROVE i + 1 \in M
  <2>1. i + 1 \in 1 .. Len(s) /\ i + 1 \in 1 .. Len(s) + 1 /\ (i + 1) - 1 = i
        /\ i + 1 \in 0 .. Len(s)
    BY <1>1, <1>5
  <2>2. h[i + 1] = IF s[i + 1] \in S THEN Append(h[i], s[i + 1]) ELSE h[i]
    BY <1>1, <1>3, <2>1
  <2>3. g[i + 1] = IF s[i + 1] \in S THEN Append(g[i], s[i + 1]) ELSE g[i]
    BY <1>2, <2>1
  <2>. QED
    BY <1>5, <2>1, <2>2, <2>3
<1>. HIDE DEF M
<1>6. \A i \in 0 .. Len(s) : i \in M
  BY <1>1, <1>4, <1>5, SetInduction
<1>7. h[Len(s)] = g[Len(s)]
  BY <1>1, <1>6 DEF M
<1>8. h[Len(s) + 1] = IF t \in S THEN Append(h[Len(s)], t) ELSE h[Len(s)]
  <2>1. Len(s) + 1 \in 1 .. Len(s) + 1 /\ (Len(s) + 1) - 1 = Len(s)
    BY <1>1
  <2>. QED
    BY <1>1, <1>3, <2>1
<1>. QED
  BY <1>2, <1>3, <1>7, <1>8 DEF longer

LEMMA OnlyEmpty == ASSUME NEW S PROVE Only(<< >>, S) = << >>
BY KeptSteps

LEMMA OnlyTyped == ASSUME NEW X, NEW s \in Seq(X), NEW S PROVE Only(s, S) \in Seq(X)
<1>. DEFINE g == Kept(s, S)
            M == {i \in 0 .. Len(s) : g[i] \in Seq(X)}
<1>1. /\ Only(s, S) = g[Len(s)] /\ g[0] = << >> /\ Len(s) \in Nat
      /\ \A i \in 1 .. Len(s) : g[i] = IF s[i] \in S THEN Append(g[i - 1], s[i]) ELSE g[i - 1]
  BY KeptSteps
<1>. HIDE DEF g
<1>2. 0 \in M
  <2>1. g[0] \in Seq(X) /\ 0 \in 0 .. Len(s)
    BY <1>1
  <2>. QED
    BY <2>1
<1>3. ASSUME NEW i \in 0 .. Len(s), i \in M, i < Len(s) PROVE i + 1 \in M
  <2>1. i + 1 \in 1 .. Len(s) /\ (i + 1) - 1 = i /\ s[i + 1] \in X
    BY <1>1, <1>3
  <2>2. g[i + 1] = IF s[i + 1] \in S THEN Append(g[i], s[i + 1]) ELSE g[i]
    BY <1>1, <2>1
  <2>3. g[i] \in Seq(X)
    BY <1>3
  <2>4. g[i + 1] \in Seq(X)
    BY <2>1, <2>2, <2>3
  <2>. QED
    BY <1>1, <2>1, <2>4
<1>. HIDE DEF M
<1>4. \A i \in 0 .. Len(s) : i \in M
  BY <1>1, <1>2, <1>3, SetInduction
<1>. QED
  BY <1>1, <1>4 DEF M

(* Of one text after the other. *)
LEMMA OnlyConcat ==
  ASSUME NEW X, NEW a \in Seq(X), NEW b \in Seq(X), NEW S
  PROVE  Only(a \o b, S) = Only(a, S) \o Only(b, S)
<1>1. \A s \in Seq(X) : Only(s, S) \in Seq(X)
  BY OnlyTyped
<1>. DEFINE n == Len(b)
            M == {i \in 0 .. n : Only(a \o SubSeq(b, 1, i), S)
                                   = Only(a, S) \o Only(SubSeq(b, 1, i), S)}
<1>2. n \in Nat /\ SubSeq(b, 1, n) = b
  BY SubSeqFull
<1>. HIDE DEF n
<1>3. 0 \in M
  <2>1. SubSeq(b, 1, 0) = << >>
    BY <1>2 DEF n
  <2>2. a \o << >> = a /\ Only(a, S) \o << >> = Only(a, S)
    BY <1>1, ConcatEmptySeq
  <2>3. 0 \in 0 .. n
    BY <1>2
  <2>. QED
    BY <2>1, <2>2, <2>3, OnlyEmpty
<1>4. ASSUME NEW i \in 0 .. n, i \in M, i < n PROVE i + 1 \in M
  <2>. DEFINE p == SubSeq(b, 1, i)
              t == b[i + 1]
  <2>1. p \in Seq(X) /\ t \in X /\ SubSeq(b, 1, i + 1) = Append(p, t) /\ i + 1 \in 0 .. n
    BY <1>2, <1>4 DEF n
  <2>2. Only(a \o p, S) = Only(a, S) \o Only(p, S)
    BY <1>4
  <2>. HIDE DEF p, t
  <2>3. a \o Append(p, t) = Append(a \o p, t) /\ a \o p \in Seq(X)
    BY <2>1
  <2>4. Only(a \o Append(p, t), S) = IF t \in S THEN Append(Only(a \o p, S), t)
                                     ELSE Only(a \o p, S)
    BY <2>1, <2>3, OnlyAppend
  <2>5. Only(Append(p, t), S) = IF t \in S THEN Append(Only(p, S), t) ELSE Only(p, S)
    BY <2>1, OnlyAppend
  <2>6. Only(a, S) \in Seq(X) /\ Only(p, S) \in Seq(X)
    BY <1>1, <2>1
  <2>7. \A u, v \in Seq(X) : u \o Append(v, t) = Append(u \o v, t)
    BY <2>1
  <2>8. Only(a \o Append(p, t), S) = Only(a, S) \o Only(Append(p, t), S)
    <3>1. CASE t \in S
      <4>1. Only(a, S) \o Append(Only(p, S), t) = Append(Only(a, S) \o Only(p, S), t)
        BY <2>6, <2>7
      <4>. QED
        BY <3>1, <4>1, <2>2, <2>4, <2>5, Zenon
    <3>2. CASE t \notin S
      BY <3>2, <2>2, <2>4, <2>5, Zenon
    <3>. QED
      BY <3>1, <3>2
  <2>. QED
    BY <2>1, <2>8
<1>. HIDE DEF M
<1>5. \A i \in 0 .. n : i \in M
  BY <1>2, <1>3, <1>4, SetInduction
<1>6. n \in M
  BY <1>2, <1>5
<1>. QED
  BY <1>1, <1>2, <1>6 DEF M

(* Where the tokens of a set are, and how many. *)
Spots(s, S) == {i \in DOMAIN s : s[i] \in S}
Amount(s, S) == Cardinality(Spots(s, S))

LEMMA AmountOnly ==
  ASSUME NEW X, NEW s \in Seq(X), NEW S
  PROVE  IsFiniteSet(Spots(s, S)) /\ Amount(s, S) \in Nat /\ Amount(s, S) = Len(Only(s, S))
<1>. DEFINE g == Kept(s, S)
            P(i) == {k \in 1 .. i : s[k] \in S}
            M == {i \in 0 .. Len(s) : /\ IsFiniteSet(P(i)) /\ g[i] \in Seq(X)
                                      /\ Cardinality(P(i)) = Len(g[i])}
<1>1. /\ Only(s, S) = g[Len(s)] /\ g[0] = << >> /\ Len(s) \in Nat
      /\ \A i \in 1 .. Len(s) : g[i] = IF s[i] \in S THEN Append(g[i - 1], s[i]) ELSE g[i - 1]
  BY KeptSteps
<1>. HIDE DEF g
<1>2. 0 \in M
  <2>1. P(0) = {} /\ 0 \in 0 .. Len(s)
    BY <1>1
  <2>2. IsFiniteSet({}) /\ Cardinality({}) = 0
    BY FS_EmptySet
  <2>3. g[0] \in Seq(X) /\ Len(g[0]) = 0
    BY <1>1
  <2>. HIDE DEF P
  <2>. QED
    BY <2>1, <2>2, <2>3
<1>3. ASSUME NEW i \in 0 .. Len(s), i \in M, i < Len(s) PROVE i + 1 \in M
  <2>1. i + 1 \in 1 .. Len(s) /\ i + 1 \in 0 .. Len(s) /\ (i + 1) - 1 = i /\ s[i + 1] \in X
    BY <1>1, <1>3
  <2>2. g[i + 1] = IF s[i + 1] \in S THEN Append(g[i], s[i + 1]) ELSE g[i]
    BY <1>1, <2>1
  <2>3. IsFiniteSet(P(i)) /\ g[i] \in Seq(X) /\ Cardinality(P(i)) = Len(g[i])
    BY <1>3
  <2>4. i + 1 \notin P(i) /\ P(i + 1) = IF s[i + 1] \in S THEN P(i) \cup {i + 1} ELSE P(i)
    BY <1>1
  <2>. HIDE DEF P
  <2>5. CASE s[i + 1] \in S
    <3>0. P(i + 1) = P(i) \cup {i + 1} /\ i + 1 \notin P(i) /\ IsFiniteSet(P(i))
      BY <2>3, <2>4, <2>5, Zenon
    <3>4. IsFiniteSet(P(i) \cup {i + 1})
          /\ Cardinality(P(i) \cup {i + 1})
               = IF i + 1 \in P(i) THEN Cardinality(P(i)) ELSE Cardinality(P(i)) + 1
      BY <3>0, FS_AddElement, Zenon
    <3>1. IsFiniteSet(P(i + 1)) /\ Cardinality(P(i + 1)) = Cardinality(P(i)) + 1
      BY <3>0, <3>4, Zenon
    <3>2. g[i + 1] \in Seq(X) /\ Len(g[i + 1]) = Len(g[i]) + 1
      BY <2>1, <2>2, <2>3, <2>5
    <3>. QED
      BY <2>1, <2>3, <3>1, <3>2
  <2>6. CASE s[i + 1] \notin S
    BY <2>1, <2>2, <2>3, <2>4, <2>6
  <2>. QED
    BY <2>5, <2>6
<1>. HIDE DEF M
<1>4. \A i \in 0 .. Len(s) : i \in M
  BY <1>1, <1>2, <1>3, SetInduction
<1>5. P(Len(s)) = Spots(s, S)
  BY <1>1 DEF Spots
<1>6. Len(s) \in M
  BY <1>1, <1>4
<1>7. /\ IsFiniteSet(P(Len(s))) /\ g[Len(s)] \in Seq(X)
      /\ Cardinality(P(Len(s))) = Len(g[Len(s)])
  BY <1>6, Zenon DEF M
<1>. HIDE DEF P
<1>8. IsFiniteSet(Spots(s, S)) /\ Amount(s, S) = Len(Only(s, S)) /\ Only(s, S) \in Seq(X)
  BY <1>1, <1>5, <1>7, Zenon DEF Amount
<1>. QED
  BY <1>8

LEMMA AmountConcat ==
  ASSUME NEW X, NEW a \in Seq(X), NEW b \in Seq(X), NEW S
  PROVE  Amount(a \o b, S) = Amount(a, S) + Amount(b, S)
<1>1. a \o b \in Seq(X)
  OBVIOUS
<1>2. Only(a \o b, S) = Only(a, S) \o Only(b, S)
  BY OnlyConcat
<1>0. Only(a, S) \in Seq(X) /\ Only(b, S) \in Seq(X)
  BY OnlyTyped
<1>3. /\ Amount(a, S) = Len(Only(a, S)) /\ Amount(b, S) = Len(Only(b, S))
      /\ Amount(a \o b, S) = Len(Only(a \o b, S))
  BY <1>1, AmountOnly
<1>. HIDE DEF Only
<1>4. Len(Only(a, S) \o Only(b, S)) = Len(Only(a, S)) + Len(Only(b, S))
  BY <1>0
<1>. QED
  BY <1>2, <1>3, <1>4

LEMMA AmountSplit ==
  ASSUME NEW X, NEW s \in Seq(X), NEW S, NEW T, S \cap T = {}
  PROVE  Amount(s, S \cup T) = Amount(s, S) + Amount(s, T)
<1>1. /\ IsFiniteSet(Spots(s, S)) /\ IsFiniteSet(Spots(s, T))
      /\ Amount(s, S) \in Nat /\ Amount(s, T) \in Nat
  BY AmountOnly
<1>2. Spots(s, S) \cap Spots(s, T) = {} /\ Spots(s, S \cup T) = Spots(s, S) \cup Spots(s, T)
  BY DEF Spots
<1>3. Cardinality(Spots(s, S) \cup Spots(s, T))
        = Cardinality(Spots(s, S)) + Cardinality(Spots(s, T))
          - Cardinality(Spots(s, S) \cap Spots(s, T))
  BY <1>1, FS_Union, Zenon
<1>4. Cardinality(Spots(s, S) \cap Spots(s, T)) = 0
  BY <1>2, FS_EmptySet
<1>5. Amount(s, S \cup T) = Amount(s, S) + Amount(s, T) - 0
  BY <1>2, <1>3, <1>4, Zenon DEF Amount
<1>. QED
  BY <1>1, <1>5

LEMMA OneToken ==
  ASSUME NEW X, NEW t \in X, NEW S
  PROVE  /\ Only(<<t>>, S) = IF t \in S THEN <<t>> ELSE << >>
         /\ Amount(<<t>>, S) = IF t \in S THEN 1 ELSE 0
<1>1. << >> \in Seq(X) /\ Append(<< >>, t) = <<t>> /\ <<t>> \in Seq(X)
  OBVIOUS
<1>2. Only(Append(<< >>, t), S) = IF t \in S THEN Append(Only(<< >>, S), t) ELSE Only(<< >>, S)
  BY <1>1, OnlyAppend
<1>3. Only(<<t>>, S) = IF t \in S THEN <<t>> ELSE << >>
  BY <1>1, <1>2, OnlyEmpty
<1>4. Amount(<<t>>, S) = Len(Only(<<t>>, S))
  BY <1>1, AmountOnly
<1>. QED
  BY <1>3, <1>4

(* Two texts that differ only outside of the set. *)
LEMMA OnlyAlike ==
  ASSUME NEW s, NEW t, Len(s) \in Nat, Len(t) = Len(s), NEW S,
         \A i \in 1 .. Len(s) : t[i] = s[i] \/ (t[i] \notin S /\ s[i] \notin S)
  PROVE  Only(t, S) = Only(s, S)
<1>. DEFINE g == Kept(s, S)
            h == Kept(t, S)
            M == {i \in 0 .. Len(s) : h[i] = g[i]}
<1>1. /\ Only(s, S) = g[Len(s)] /\ g[0] = << >>
      /\ \A i \in 1 .. Len(s) : g[i] = IF s[i] \in S THEN Append(g[i - 1], s[i]) ELSE g[i - 1]
  BY KeptSteps
<1>2. /\ Only(t, S) = h[Len(s)] /\ h[0] = << >>
      /\ \A i \in 1 .. Len(s) : h[i] = IF t[i] \in S THEN Append(h[i - 1], t[i]) ELSE h[i - 1]
  BY KeptSteps
<1>. HIDE DEF g, h
<1>3. 0 \in M
  BY <1>1, <1>2
<1>4. ASSUME NEW i \in 0 .. Len(s), i \in M, i < Len(s) PROVE i + 1 \in M
  <2>1. i + 1 \in 1 .. Len(s) /\ (i + 1) - 1 = i /\ i + 1 \in 0 .. Len(s)
    BY <1>4
  <2>2. /\ h[i + 1] = IF t[i + 1] \in S THEN Append(h[i], t[i + 1]) ELSE h[i]
        /\ g[i + 1] = IF s[i + 1] \in S THEN Append(g[i], s[i + 1]) ELSE g[i]
    BY <1>1, <1>2, <2>1
  <2>. QED
    BY <1>4, <2>1, <2>2
<1>. HIDE DEF M
<1>5. \A i \in 0 .. Len(s) : i \in M
  BY <1>3, <1>4, SetInduction
<1>. QED
  BY <1>1, <1>2, <1>5 DEF M

-----------------------------------------------------------------------------
(* The tokens of a text by what they are to setup. *)
Own == Tokens \ (Blocks \cup {"newline", "added"})
Ends == {"newline", "added"}
MarksOf(b) == {b, Edited[b]}
Other(b) == IF b = "policy" THEN "autopilot" ELSE "policy"
EndsOf(f) == IF f = "CLAUDE.md" THEN 2 ELSE 1

LEMMA TokenKinds ==
  /\ Blocks = {"policy", "autopilot"} /\ Targets = {"CLAUDE.md", "config.toml"}
  /\ Ends \subseteq Tokens /\ Ends \cap Own = {} /\ UserTokens \subseteq Tokens
  /\ "added" \notin UserTokens /\ Blocks \cap Own = {} /\ Blocks \cap Ends = {}
  /\ \A b \in Blocks : /\ b \in Tokens /\ Edited[b] \in Tokens /\ Other(b) \in Blocks
                       /\ b \in MarksOf(b) /\ b \notin MarksOf(Other(b))
                       /\ Edited[b] \in Own /\ Edited[b] \in MarksOf(b)
                       /\ Edited[b] \notin MarksOf(Other(b)) /\ Edited[b] \notin Ends
                       /\ MarksOf(b) \cap (Ends \cup UserTokens) = {}
<1>1. Edited["policy"] = "edited policy" /\ Edited["autopilot"] = "edited autopilot"
  BY DEF Edited
<1>2. Targets = {"CLAUDE.md", "config.toml"}
  BY DEF Targets, Order
<1>3. Tokens = {"policy", "autopilot", "edited policy", "edited autopilot", "words", "newline",
                "value", "added"}
  BY <1>1 DEF Tokens, Blocks, UserTokens
<1>4. Own = {"edited policy", "edited autopilot", "words", "value"}
  BY <1>3 DEF Own, Blocks
<1>5. /\ MarksOf("policy") = {"policy", "edited policy"} /\ Other("policy") = "autopilot"
      /\ MarksOf("autopilot") = {"autopilot", "edited autopilot"}
      /\ Other("autopilot") = "policy"
  BY <1>1 DEF MarksOf, Other
<1>6. ASSUME NEW b \in Blocks
      PROVE  /\ b \in Tokens /\ Edited[b] \in Tokens /\ Other(b) \in Blocks
             /\ b \in MarksOf(b) /\ b \notin MarksOf(Other(b))
             /\ Edited[b] \in Own /\ Edited[b] \in MarksOf(b)
             /\ Edited[b] \notin MarksOf(Other(b)) /\ Edited[b] \notin Ends
             /\ MarksOf(b) \cap (Ends \cup UserTokens) = {}
  <2>1. CASE b = "policy"
    BY <1>1, <1>3, <1>4, <1>5, <2>1 DEF Blocks, Ends, UserTokens
  <2>2. CASE b = "autopilot"
    BY <1>1, <1>3, <1>4, <1>5, <2>2 DEF Blocks, Ends, UserTokens
  <2>. QED
    BY <2>1, <2>2 DEF Blocks
<1>7. /\ Ends \subseteq Tokens /\ Ends \cap Own = {} /\ UserTokens \subseteq Tokens
      /\ "added" \notin UserTokens /\ Blocks \cap Own = {} /\ Blocks \cap Ends = {}
  BY <1>3, <1>4 DEF Ends, UserTokens, Blocks
<1>. QED
  BY <1>2, <1>6, <1>7 DEF Blocks

(* A text in two parts, with nothing between them or something. *)
PartedAt(X, s, a, m, b, S) ==
  /\ a \in Seq(X) /\ m \in Seq(X) /\ b \in Seq(X) /\ a \o b \in Seq(X)
  /\ s = (a \o m) \o b
  /\ Amount(s, S) = Amount(a \o b, S) + Amount(m, S)
  /\ Only(m, S) = << >> => Only(s, S) = Only(a \o b, S)

LEMMA Parted ==
  ASSUME NEW X, NEW s \in Seq(X), NEW l \in 0 .. Len(s), NEW h \in l .. Len(s), NEW S
  PROVE  PartedAt(X, s, SubSeq(s, 1, l), SubSeq(s, l + 1, h), SubSeq(s, h + 1, Len(s)), S)
<1>. DEFINE a == SubSeq(s, 1, l)
            m == SubSeq(s, l + 1, h)
            b == SubSeq(s, h + 1, Len(s))
<1>1. l \in Nat /\ h \in Nat /\ Len(s) \in Nat /\ l <= h /\ h <= Len(s)
  OBVIOUS
<1>2. a \in Seq(X) /\ m \in Seq(X) /\ b \in Seq(X)
  <2>1. \A i \in 1 .. Len(s) : s[i] \in X
    OBVIOUS
  <2>2. \A i \in 1 .. l : s[i] \in X
    BY <1>1, <2>1
  <2>3. \A i \in l + 1 .. h : s[i] \in X
    BY <1>1, <2>1
  <2>4. \A i \in h + 1 .. Len(s) : s[i] \in X
    BY <1>1, <2>1
  <2>5. a \in Seq(X)
    BY <1>1, <2>2, SubSeqProperties
  <2>6. m \in Seq(X)
    BY <1>1, <2>3, SubSeqProperties
  <2>7. b \in Seq(X)
    BY <1>1, <2>4, SubSeqProperties
  <2>. QED
    BY <2>5, <2>6, <2>7
<1>3. a \o m = SubSeq(s, 1, h)
  BY <1>1, ConcatAdjacentSubSeq
<1>4. SubSeq(s, 1, h) \o b = SubSeq(s, 1, Len(s))
  <2>1. 1 \in 1 .. Len(s) + 1 /\ h \in 1 - 1 .. Len(s) /\ Len(s) \in h .. Len(s)
    BY <1>1
  <2>. QED
    BY <2>1, ConcatAdjacentSubSeq
<1>5. s = (a \o m) \o b
  BY <1>3, <1>4, SubSeqFull
<1>. HIDE DEF a, m, b
<1>6. a \o b \in Seq(X) /\ a \o m \in Seq(X)
  BY <1>2
<1>7. /\ Amount(a, S) \in Nat /\ Amount(m, S) \in Nat /\ Amount(b, S) \in Nat
  BY <1>2, AmountOnly
<1>8. Amount(s, S) = Amount(a \o b, S) + Amount(m, S)
  <2>1. Amount((a \o m) \o b, S) = Amount(a \o m, S) + Amount(b, S)
    BY <1>2, <1>6, AmountConcat
  <2>2. Amount(a \o m, S) = Amount(a, S) + Amount(m, S)
    BY <1>2, AmountConcat
  <2>3. Amount(a \o b, S) = Amount(a, S) + Amount(b, S)
    BY <1>2, AmountConcat
  <2>. QED
    BY <1>5, <1>7, <2>1, <2>2, <2>3
<1>9. ASSUME Only(m, S) = << >> PROVE Only(s, S) = Only(a \o b, S)
  <2>0. \A u, v \in Seq(X) : Only(u \o v, S) = Only(u, S) \o Only(v, S)
    BY OnlyConcat
  <2>1. Only((a \o m) \o b, S) = Only(a \o m, S) \o Only(b, S)
    BY <1>2, <1>6, <2>0, Zenon
  <2>2. Only(a \o m, S) = Only(a, S) \o Only(m, S)
    BY <1>2, <2>0, Zenon
  <2>3. Only(a \o b, S) = Only(a, S) \o Only(b, S)
    BY <1>2, <2>0, Zenon
  <2>4. Only(a, S) \o << >> = Only(a, S)
    <3>1. Only(a, S) \in Seq(X)
      BY <1>2, OnlyTyped
    <3>. QED
      BY <3>1, ConcatEmptySeq
  <2>. QED
    BY <1>5, <1>9, <2>1, <2>2, <2>3, <2>4, Zenon
<1>. QED
  BY <1>2, <1>5, <1>6, <1>8, <1>9, Zenon DEF a, m, b, PartedAt

(* No token of a set: nothing is kept, and conversely. *)
LEMMA NoneKept ==
  ASSUME NEW X, NEW s \in Seq(X), NEW S
  PROVE  Only(s, S) = << >> <=> Amount(s, S) = 0
<1>1. Only(s, S) \in Seq(X) /\ Amount(s, S) = Len(Only(s, S))
  BY OnlyTyped, AmountOnly
<1>. QED
  BY <1>1

(* A block with its line ends. *)
LEMMA PutAdds ==
  ASSUME NEW f \in Targets, NEW s \in Seq(Tokens), NEW b \in Blocks
  PROVE  /\ Put(f, s, b) \in Seq(Tokens)
         /\ Only(Put(f, s, b), Own) = Only(s, Own)
         /\ Amount(Put(f, s, b), {"newline"}) = Amount(s, {"newline"})
         /\ Amount(Put(f, s, b), {"added"}) = Amount(s, {"added"}) + EndsOf(f)
         /\ Amount(Put(f, s, b), MarksOf(b)) = Amount(s, MarksOf(b)) + 1
         /\ Amount(Put(f, s, b), MarksOf(Other(b))) = Amount(s, MarksOf(Other(b)))
<1>. DEFINE A == <<"added">>
            B == <<b>>
            end == B \o A
            both == A \o end
<1>1. /\ "added" \in Tokens /\ b \in Tokens
      /\ A \in Seq(Tokens) /\ B \in Seq(Tokens) /\ end \in Seq(Tokens) /\ both \in Seq(Tokens)
  BY TokenKinds DEF Ends
<1>2. <<b, "added">> = end /\ <<"added", b, "added">> = both
  OBVIOUS
<1>3. \A S : /\ Only(A, S) = IF "added" \in S THEN A ELSE << >>
             /\ Only(B, S) = IF b \in S THEN B ELSE << >>
             /\ Amount(A, S) = IF "added" \in S THEN 1 ELSE 0
             /\ Amount(B, S) = IF b \in S THEN 1 ELSE 0
  BY <1>1, OneToken
<1>4. Put(f, s, b) = IF f = "CLAUDE.md" THEN s \o both ELSE end \o s
  BY <1>2 DEF Put
<1>. HIDE DEF A, B
<1>5. \A S : /\ Amount(end, S) = Amount(B, S) + Amount(A, S)
             /\ Amount(both, S) = Amount(A, S) + Amount(end, S)
  BY <1>1, AmountConcat
<1>. HIDE DEF end, both
<1>6. \A S : /\ Amount(s \o both, S) = Amount(s, S) + Amount(both, S)
             /\ Amount(end \o s, S) = Amount(end, S) + Amount(s, S)
             /\ Amount(s, S) \in Nat /\ Amount(both, S) \in Nat /\ Amount(end, S) \in Nat
  BY <1>1, AmountConcat, AmountOnly
<1>7. /\ Amount(A, Own) = 0 /\ Amount(B, Own) = 0
      /\ Amount(A, {"newline"}) = 0 /\ Amount(B, {"newline"}) = 0
      /\ Amount(A, {"added"}) = 1 /\ Amount(B, {"added"}) = 0
      /\ Amount(A, MarksOf(b)) = 0 /\ Amount(B, MarksOf(b)) = 1
      /\ Amount(A, MarksOf(Other(b))) = 0 /\ Amount(B, MarksOf(Other(b))) = 0
  <2>1. "added" \notin Own /\ "added" \notin MarksOf(b) /\ "added" \notin MarksOf(Other(b))
    BY TokenKinds DEF Ends
  <2>2. b \notin Own /\ b # "added" /\ b # "newline" /\ b \in MarksOf(b) /\ b \notin MarksOf(Other(b))
    BY TokenKinds DEF Ends
  <2>. QED
    BY <1>3, <2>1, <2>2
<1>8. Only(Put(f, s, b), Own) = Only(s, Own)
  <2>1. Only(both, Own) = << >> /\ Only(end, Own) = << >>
    <3>1. Amount(both, Own) = 0 /\ Amount(end, Own) = 0
      BY <1>5, <1>7
    <3>. QED
      BY <1>1, <3>1, NoneKept, Zenon
  <2>0. \A u, v \in Seq(Tokens) : Only(u \o v, Own) = Only(u, Own) \o Only(v, Own)
    BY OnlyConcat
  <2>2. /\ Only(s \o both, Own) = Only(s, Own) \o Only(both, Own)
        /\ Only(end \o s, Own) = Only(end, Own) \o Only(s, Own)
    BY <1>1, <2>0, Zenon
  <2>3. Only(s, Own) \o << >> = Only(s, Own) /\ << >> \o Only(s, Own) = Only(s, Own)
    <3>1. Only(s, Own) \in Seq(Tokens)
      BY OnlyTyped
    <3>. QED
      BY <3>1, ConcatEmptySeq
  <2>. QED
    BY <1>4, <2>1, <2>2, <2>3, Zenon
<1>9. Put(f, s, b) \in Seq(Tokens)
  BY <1>1, <1>4
<1>10. \A S : Amount(Put(f, s, b), S)
                = Amount(s, S) + (IF f = "CLAUDE.md" THEN Amount(both, S) ELSE Amount(end, S))
  BY <1>4, <1>6
<1>11. \A S : Amount(s, S) \in Nat /\ Amount(end, S) = Amount(B, S) + Amount(A, S)
              /\ Amount(both, S) = Amount(A, S) + (Amount(B, S) + Amount(A, S))
  BY <1>5, <1>6
<1>. HIDE DEF Put, Amount, Only, MarksOf, Own, Other
<1>12. Amount(Put(f, s, b), {"newline"}) = Amount(s, {"newline"})
  BY <1>7, <1>10, <1>11
<1>13. Amount(Put(f, s, b), {"added"}) = Amount(s, {"added"}) + EndsOf(f)
  BY <1>7, <1>10, <1>11 DEF EndsOf
<1>14. Amount(Put(f, s, b), MarksOf(b)) = Amount(s, MarksOf(b)) + 1
  BY <1>7, <1>10, <1>11
<1>15. Amount(Put(f, s, b), MarksOf(Other(b))) = Amount(s, MarksOf(Other(b)))
  BY <1>7, <1>10, <1>11
<1>. QED
  BY <1>8, <1>9, <1>12, <1>13, <1>14, <1>15, Zenon

(* As many line ends as some blocks came with. *)
Due(f, n) == IF f = "CLAUDE.md" THEN n + n ELSE n

(* What taking a block out of a text leaves. *)
CutTo(f, s, b, c) ==
  /\ c \in Seq(Tokens) /\ Only(c, Own) = Only(s, Own)
  /\ Amount(s, Ends) = Amount(c, Ends) + EndsOf(f)
  /\ Amount(s, MarksOf(b)) = 1 /\ Amount(c, MarksOf(b)) = 0
  /\ Amount(c, MarksOf(Other(b))) = Amount(s, MarksOf(Other(b)))

LEMMA OneOf ==
  ASSUME NEW X, NEW s \in Seq(X), NEW i \in 1 .. Len(s)
  PROVE  SubSeq(s, i, i) = <<s[i]>>
<1>. DEFINE a == SubSeq(s, i, i)
            b == <<s[i]>>
<1>1. i \in Int /\ \A k \in i .. i : s[k] \in X
  OBVIOUS
<1>2. a \in Seq(X) /\ Len(a) = 1 /\ a[1] = s[i]
  <2>1. a \in Seq(X) /\ Len(a) = (IF i <= i THEN i - i + 1 ELSE 0)
        /\ \A k \in 1 .. i - i + 1 : a[k] = s[i + k - 1]
    BY <1>1, SubSeqProperties
  <2>. HIDE DEF a
  <2>2. i - i + 1 = 1 /\ i + 1 - 1 = i /\ 1 \in 1 .. i - i + 1 /\ i <= i
    BY <1>1
  <2>. QED
    BY <2>1, <2>2
<1>3. b \in Seq(X) /\ Len(b) = 1 /\ b[1] = s[i]
  BY <1>1
<1>. HIDE DEF a, b
<1>4. \A k \in 1 .. Len(a) : a[k] = b[k]
  BY <1>2, <1>3
<1>5. a = b
  BY <1>2, <1>3, <1>4, SeqEqual
<1>. QED
  BY <1>5 DEF a, b

LEMMA TwoOf ==
  ASSUME NEW X, NEW s \in Seq(X), NEW i \in 1 .. Len(s), i < Len(s)
  PROVE  SubSeq(s, i, i + 1) = <<s[i]>> \o <<s[i + 1]>>
<1>1. i \in 1 .. Len(s) + 1 /\ i \in i - 1 .. Len(s) /\ i + 1 \in i .. Len(s)
      /\ i + 1 \in 1 .. Len(s)
  OBVIOUS
<1>2. SubSeq(s, i, i) \o SubSeq(s, i + 1, i + 1) = SubSeq(s, i, i + 1)
  BY <1>1, ConcatAdjacentSubSeq
<1>3. SubSeq(s, i, i) = <<s[i]>> /\ SubSeq(s, i + 1, i + 1) = <<s[i + 1]>>
  BY <1>1, OneOf
<1>. QED
  BY <1>2, <1>3

LEMMA ThreeOf ==
  ASSUME NEW X, NEW s \in Seq(X), NEW i \in 1 .. Len(s), 1 < i, i < Len(s)
  PROVE  SubSeq(s, i - 1, i + 1) = <<s[i - 1]>> \o (<<s[i]>> \o <<s[i + 1]>>)
<1>. DEFINE j == i - 1
<1>1. j \in 1 .. Len(s) + 1 /\ j \in j - 1 .. Len(s) /\ i + 1 \in j .. Len(s)
      /\ j \in 1 .. Len(s) /\ j + 1 = i
  OBVIOUS
<1>. HIDE DEF j
<1>2. SubSeq(s, j, j) \o SubSeq(s, j + 1, i + 1) = SubSeq(s, j, i + 1)
  BY <1>1, ConcatAdjacentSubSeq
<1>3. SubSeq(s, j, j) = <<s[j]>>
  BY <1>1, OneOf
<1>4. SubSeq(s, i, i + 1) = <<s[i]>> \o <<s[i + 1]>>
  BY TwoOf
<1>5. SubSeq(s, j, i + 1) = <<s[j]>> \o (<<s[i]>> \o <<s[i + 1]>>)
  BY <1>1, <1>2, <1>3, <1>4
<1>. QED
  BY <1>5 DEF j

LEMMA CutDrops ==
  ASSUME NEW f \in Targets, NEW s \in Seq(Tokens), NEW b \in Blocks,
         NEW i \in Marked(s, b), Managed(f, s, b)
  PROVE  CutTo(f, s, b, Cut(f, s, i))
<1>. DEFINE l == IF f = "CLAUDE.md" THEN i - 2 ELSE i - 1
            m == SubSeq(s, l + 1, i + 1)
            c == SubSeq(s, 1, l) \o SubSeq(s, i + 2, Len(s))
            B == <<b>>
            E == <<s[i + 1]>>
            F == <<s[i - 1]>>
<1>1. /\ i \in 1 .. Len(s) /\ s[i] = b /\ i < Len(s) /\ s[i + 1] \in Ends
      /\ (f = "CLAUDE.md" => i > 1 /\ s[i - 1] \in Ends)
  BY DEF Managed, Marked, WholeLine, NewLine, Ends
<1>2. Cut(f, s, i) = c
  BY DEF Cut
<1>3. l \in 0 .. Len(s) /\ i + 1 \in l .. Len(s) /\ (i + 1) + 1 = i + 2
  BY <1>1
<1>4. Amount(s, MarksOf(b)) = 1
  <2>1. Spots(s, MarksOf(b)) = Marked(s, b)
    BY DEF Spots, Marked, MarksOf
  <2>. QED
    BY <2>1 DEF Amount, Managed
<1>5. /\ B \in Seq(Tokens) /\ E \in Seq(Tokens) /\ (f = "CLAUDE.md" => F \in Seq(Tokens))
      /\ B \o E \in Seq(Tokens) /\ (f = "CLAUDE.md" => F \o (B \o E) \in Seq(Tokens))
  BY <1>1, TokenKinds
<1>6. m = IF f = "CLAUDE.md" THEN F \o (B \o E) ELSE B \o E
  <2>1. CASE f = "CLAUDE.md"
    <3>1. l + 1 = i - 1 /\ 1 < i
      BY <1>1, <2>1
    <3>. QED
      BY <1>1, <2>1, <3>1, ThreeOf
  <2>2. CASE f # "CLAUDE.md"
    <3>1. l + 1 = i
      BY <1>1, <2>2
    <3>. QED
      BY <1>1, <2>2, <3>1, TwoOf
  <2>. QED
    BY <2>1, <2>2
<1>7. \A S : /\ Amount(B, S) = IF b \in S THEN 1 ELSE 0
             /\ Amount(E, S) = IF s[i + 1] \in S THEN 1 ELSE 0
             /\ (f = "CLAUDE.md" => Amount(F, S) = IF s[i - 1] \in S THEN 1 ELSE 0)
  BY <1>1, OneToken, TokenKinds
<1>8. \A S : Amount(m, S) = IF f = "CLAUDE.md" THEN Amount(F, S) + (Amount(B, S) + Amount(E, S))
                            ELSE Amount(B, S) + Amount(E, S)
  <2>1. \A S : \A u, v \in Seq(Tokens) : Amount(u \o v, S) = Amount(u, S) + Amount(v, S)
    BY AmountConcat
  <2>. HIDE DEF m, B, E, F
  <2>2. \A S : Amount(B \o E, S) = Amount(B, S) + Amount(E, S)
    BY <1>5, <2>1
  <2>3. ASSUME f = "CLAUDE.md" PROVE \A S : Amount(F \o (B \o E), S) = Amount(F, S) + Amount(B \o E, S)
    BY <1>5, <2>1, <2>3
  <2>. QED
    BY <1>6, <2>2, <2>3
<1>9. \A S : /\ m \in Seq(Tokens) /\ c \in Seq(Tokens)
             /\ Amount(s, S) = Amount(c, S) + Amount(m, S)
             /\ Only(m, S) = << >> => Only(s, S) = Only(c, S)
  <2>. DEFINE h == i + 1
  <2>1. l \in 0 .. Len(s) /\ h \in l .. Len(s) /\ h + 1 = i + 2
    BY <1>3
  <2>2. m = SubSeq(s, l + 1, h) /\ c = SubSeq(s, 1, l) \o SubSeq(s, h + 1, Len(s))
    BY <2>1
  <2>. HIDE DEF l, m, c, h
  <2>3. \A S : PartedAt(Tokens, s, SubSeq(s, 1, l), SubSeq(s, l + 1, h), SubSeq(s, h + 1, Len(s)), S)
    BY <2>1, Parted, Zenon
  <2>. QED
    BY <2>2, <2>3, Zenon DEF PartedAt
<1>. HIDE DEF l, m, c, B, E, F
<1>10. Only(c, Own) = Only(s, Own)
  <2>1. b \notin Own /\ Ends \cap Own = {}
    BY TokenKinds
  <2>2. Amount(m, Own) = 0
    BY <1>1, <1>7, <1>8, <2>1
  <2>3. Only(m, Own) = << >>
    BY <1>9, <2>2, NoneKept
  <2>. QED
    BY <1>9, <2>3, Zenon
<1>11. \A S : Amount(c, S) \in Nat /\ Amount(m, S) \in Nat
  BY <1>9, AmountOnly
<1>12. Amount(s, Ends) = Amount(c, Ends) + EndsOf(f)
  <2>1. b \notin Ends
    BY TokenKinds
  <2>2. Amount(m, Ends) = EndsOf(f)
    BY <1>1, <1>7, <1>8, <2>1 DEF EndsOf
  <2>. QED
    BY <1>9, <2>2, Zenon
<1>13. Amount(c, MarksOf(b)) = 0
  <2>1. b \in MarksOf(b) /\ Ends \cap MarksOf(b) = {}
    BY TokenKinds
  <2>2. Amount(m, MarksOf(b)) = 1
    BY <1>1, <1>7, <1>8, <2>1
  <2>. QED
    BY <1>4, <1>9, <1>11, <2>2
<1>14. Amount(c, MarksOf(Other(b))) = Amount(s, MarksOf(Other(b)))
  <2>1. b \notin MarksOf(Other(b)) /\ Ends \cap MarksOf(Other(b)) = {}
    BY TokenKinds
  <2>2. Amount(m, MarksOf(Other(b))) = 0
    BY <1>1, <1>7, <1>8, <2>1
  <2>. QED
    BY <1>9, <1>11, <2>2
<1>. QED
  BY <1>2, <1>4, <1>9, <1>10, <1>12, <1>13, <1>14, Zenon DEF CutTo

(* What a block is to the next text. *)
NextTo(f, s, b, mode, n) ==
  /\ n \in Seq(Tokens) /\ Only(n, Own) = Only(s, Own)
  /\ Amount(n, MarksOf(Other(b))) = Amount(s, MarksOf(Other(b)))
  /\ mode # "remove" =>
       /\ Amount(n, {"newline"}) = Amount(s, {"newline"})
       /\ \/ /\ Amount(n, {"added"}) = Amount(s, {"added"})
             /\ Amount(n, MarksOf(b)) = Amount(s, MarksOf(b))
          \/ /\ Amount(n, {"added"}) = Amount(s, {"added"}) + EndsOf(f)
             /\ Amount(n, MarksOf(b)) = Amount(s, MarksOf(b)) + 1
  /\ mode = "remove" =>
       /\ Amount(n, MarksOf(b)) = 0
       /\ \/ Amount(s, MarksOf(b)) = 0 /\ Amount(n, Ends) = Amount(s, Ends)
          \/ Amount(s, MarksOf(b)) = 1 /\ Amount(s, Ends) = Amount(n, Ends) + EndsOf(f)

LEMMA NextKeeps ==
  ASSUME NEW f \in Targets, NEW s \in Seq(Tokens), NEW b \in Blocks, NEW mode,
         Understood(f, s, b)
  PROVE  NextTo(f, s, b, mode, NextText(f, s, b, mode))
<1>. DEFINE n == NextText(f, s, b, mode)
<1>1. CASE Marked(s, b) # {} /\ mode = "remove"
  <2>. DEFINE i == CHOOSE j \in Marked(s, b) : TRUE
  <2>1. i \in Marked(s, b) /\ Managed(f, s, b)
    BY <1>1 DEF Understood
  <2>2. n = Cut(f, s, i)
    BY <1>1 DEF NextText
  <2>. HIDE DEF n, i
  <2>3. CutTo(f, s, b, n)
    BY <2>1, <2>2, CutDrops
  <2>4. NextTo(f, s, b, mode, n)
    BY <1>1, <2>3 DEF CutTo, NextTo
  <2>. QED
    BY <2>4 DEF n
<1>2. CASE ~(Marked(s, b) # {} /\ mode = "remove")
           /\ (Marked(s, b) # {} \/ mode = "remove" \/ OwnValue(f, s)
               \/ (b = "autopilot" /\ mode = "install"))
  <2>1. n = s
    BY <1>2 DEF NextText
  <2>2. mode = "remove" => Amount(s, MarksOf(b)) = 0
    <3>1. ASSUME mode = "remove" PROVE Spots(s, MarksOf(b)) = {}
      BY <1>2, <3>1 DEF Spots, MarksOf, Marked
    <3>. QED
      BY <3>1, FS_EmptySet DEF Amount
  <2>. HIDE DEF n
  <2>3. NextTo(f, s, b, mode, n)
    BY <2>1, <2>2, Zenon DEF NextTo
  <2>. QED
    BY <2>3 DEF n
<1>3. CASE ~(Marked(s, b) # {} /\ mode = "remove")
           /\ ~(Marked(s, b) # {} \/ mode = "remove" \/ OwnValue(f, s)
                \/ (b = "autopilot" /\ mode = "install"))
  <2>1. n = Put(f, s, b) /\ mode # "remove"
    BY <1>3 DEF NextText
  <2>. HIDE DEF n
  <2>2. NextTo(f, s, b, mode, n)
    BY <2>1, PutAdds, Zenon DEF NextTo
  <2>. QED
    BY <2>2 DEF n
<1>. QED
  BY <1>1, <1>2, <1>3

(* The line ends that are not told apart. *)
LEMMA SettledKeeps ==
  ASSUME NEW s \in Seq(Tokens)
  PROVE  /\ Settled(s, "remove") \in Seq(Tokens)
         /\ Only(Settled(s, "remove"), Own) = Only(s, Own)
         /\ Amount(Settled(s, "remove"), {"newline"}) = Amount(s, Ends)
         /\ Amount(Settled(s, "remove"), {"added"}) = 0
         /\ \A b \in Blocks : Amount(Settled(s, "remove"), MarksOf(b)) = Amount(s, MarksOf(b))
<1>. DEFINE t == Settled(s, "remove")
<1>1. t = [i \in 1 .. Len(s) |-> IF s[i] = "added" THEN "newline" ELSE s[i]]
      /\ Len(s) \in Nat /\ \A i \in 1 .. Len(s) : s[i] \in Tokens
  BY DEF Settled
<1>2. \A i \in 1 .. Len(s) : (IF s[i] = "added" THEN "newline" ELSE s[i]) \in Tokens
  BY <1>1, TokenKinds DEF Ends
<1>. HIDE DEF t
<1>3. t \in Seq(Tokens) /\ Len(t) = Len(s) /\ DOMAIN t = DOMAIN s /\ DOMAIN s = 1 .. Len(s)
      /\ \A i \in 1 .. Len(s) : t[i] = IF s[i] = "added" THEN "newline" ELSE s[i]
  BY <1>1, <1>2
<1>4. Only(t, Own) = Only(s, Own)
  <2>1. "added" \notin Own /\ "newline" \notin Own
    BY TokenKinds DEF Ends
  <2>2. \A i \in 1 .. Len(s) : t[i] = s[i] \/ (t[i] \notin Own /\ s[i] \notin Own)
    BY <1>3, <2>1
  <2>. QED
    BY <1>1, <1>3, <2>2, OnlyAlike
<1>5. Spots(t, {"newline"}) = Spots(s, Ends)
  BY <1>3 DEF Spots, Ends
<1>6. Spots(t, {"added"}) = {}
  BY <1>3 DEF Spots
<1>7. ASSUME NEW b \in Blocks PROVE Spots(t, MarksOf(b)) = Spots(s, MarksOf(b))
  <2>1. "added" \notin MarksOf(b) /\ "newline" \notin MarksOf(b)
    BY TokenKinds DEF Ends
  <2>. QED
    BY <1>3, <2>1 DEF Spots
<1>8. /\ Amount(t, {"newline"}) = Amount(s, Ends) /\ Amount(t, {"added"}) = 0
      /\ \A b \in Blocks : Amount(t, MarksOf(b)) = Amount(s, MarksOf(b))
  BY <1>5, <1>6, <1>7, FS_EmptySet DEF Amount
<1>. QED
  BY <1>3, <1>4, <1>8, Zenon DEF t

(* Each block came with its line ends, whichever the user has edited since. *)
Paired(f, s) ==
  /\ s \in Seq(Tokens)
  /\ Amount(s, {"added"}) = Due(f, Amount(s, MarksOf("policy")) + Amount(s, MarksOf("autopilot")))

LEMMA PlannedKeeps ==
  ASSUME NEW f \in Targets, NEW s, NEW mode \in Modes, Paired(f, s), Accepts(f, s, mode)
  PROVE  LET n == Planned(f, s, mode)
         IN  Paired(f, n) /\ Only(n, Own) = Only(s, Own)
             /\ Amount(n, {"newline"}) = Amount(s, {"newline"})
<1>. DEFINE u == NextText(f, s, "policy", mode)
            v == NextText(f, u, "autopilot", mode)
            n == Settled(v, mode)
            P == MarksOf("policy")
            A == MarksOf("autopilot")
            L == {"newline"}
            D == {"added"}
<1>1. Planned(f, s, mode) = n
  BY DEF Planned
<1>2. /\ s \in Seq(Tokens) /\ "policy" \in Blocks /\ "autopilot" \in Blocks
      /\ Other("policy") = "autopilot" /\ Other("autopilot") = "policy"
      /\ Understood(f, s, "policy") /\ Understood(f, u, "autopilot")
  BY TokenKinds DEF Paired, Accepts, Other
<1>. HIDE DEF u
<1>3. NextTo(f, s, "policy", mode, u)
  BY <1>2, NextKeeps DEF u
<1>4. u \in Seq(Tokens)
  BY <1>3 DEF NextTo
<1>. HIDE DEF v
<1>5. NextTo(f, u, "autopilot", mode, v)
  BY <1>2, <1>4, NextKeeps DEF v
<1>6. v \in Seq(Tokens) /\ Only(v, Own) = Only(s, Own)
  BY <1>3, <1>5 DEF NextTo
<1>7. \A x \in Seq(Tokens) :
        /\ Amount(x, P) \in Nat /\ Amount(x, A) \in Nat /\ Amount(x, L) \in Nat
        /\ Amount(x, D) \in Nat /\ Amount(x, Ends) = Amount(x, L) + Amount(x, D)
  <2>1. \A S : \A x \in Seq(Tokens) : Amount(x, S) \in Nat
    BY AmountOnly
  <2>2. Ends = L \cup D /\ L \cap D = {}
    BY DEF Ends
  <2>3. ASSUME NEW x \in Seq(Tokens) PROVE Amount(x, L \cup D) = Amount(x, L) + Amount(x, D)
    BY <2>2, AmountSplit
  <2>. HIDE DEF L, D, P, A
  <2>. QED
    BY <2>1, <2>2, <2>3
<1>8. Amount(s, D) = Due(f, Amount(s, P) + Amount(s, A))
  BY DEF Paired
<1>9. /\ Amount(u, A) = Amount(s, A) /\ Amount(v, P) = Amount(u, P)
  BY <1>2, <1>3, <1>5 DEF NextTo
<1>10. CASE mode # "remove"
  <2>1. n = v
    BY <1>10 DEF Settled
  <2>2. /\ Amount(u, L) = Amount(s, L)
        /\ \/ Amount(u, D) = Amount(s, D) /\ Amount(u, P) = Amount(s, P)
           \/ Amount(u, D) = Amount(s, D) + EndsOf(f) /\ Amount(u, P) = Amount(s, P) + 1
    BY <1>3, <1>10 DEF NextTo
  <2>3. /\ Amount(v, L) = Amount(u, L)
        /\ \/ Amount(v, D) = Amount(u, D) /\ Amount(v, A) = Amount(u, A)
           \/ Amount(v, D) = Amount(u, D) + EndsOf(f) /\ Amount(v, A) = Amount(u, A) + 1
    BY <1>5, <1>10 DEF NextTo
  <2>. HIDE DEF n, P, A, L, D
  <2>4. /\ Amount(s, P) \in Nat /\ Amount(s, A) \in Nat /\ Amount(s, D) \in Nat
    BY <1>2, <1>7
  <2>5. Amount(v, D) = Due(f, Amount(v, P) + Amount(v, A))
    BY <1>8, <1>9, <2>2, <2>3, <2>4 DEF Due, EndsOf
  <2>6. Paired(f, v)
    BY <1>6, <2>5 DEF Paired, P, A, D
  <2>. QED
    BY <1>1, <1>6, <2>1, <2>2, <2>3, <2>6 DEF L
<1>11. CASE mode = "remove"
  <2>1. /\ n \in Seq(Tokens) /\ Only(n, Own) = Only(v, Own)
        /\ Amount(n, L) = Amount(v, Ends) /\ Amount(n, D) = 0
        /\ Amount(n, P) = Amount(v, P) /\ Amount(n, A) = Amount(v, A)
    <3>1. n = Settled(v, "remove")
      BY <1>11
    <3>. HIDE DEF n
    <3>2. /\ n \in Seq(Tokens) /\ Only(n, Own) = Only(v, Own)
          /\ Amount(n, {"newline"}) = Amount(v, Ends) /\ Amount(n, {"added"}) = 0
          /\ \A b \in Blocks : Amount(n, MarksOf(b)) = Amount(v, MarksOf(b))
      BY <1>6, <3>1, SettledKeeps, Zenon
    <3>. QED
      BY <1>2, <3>2, Zenon
  <2>2. /\ Amount(u, P) = 0
        /\ \/ Amount(s, P) = 0 /\ Amount(u, Ends) = Amount(s, Ends)
           \/ Amount(s, P) = 1 /\ Amount(s, Ends) = Amount(u, Ends) + EndsOf(f)
    BY <1>3, <1>11 DEF NextTo
  <2>3. /\ Amount(v, A) = 0
        /\ \/ Amount(u, A) = 0 /\ Amount(v, Ends) = Amount(u, Ends)
           \/ Amount(u, A) = 1 /\ Amount(u, Ends) = Amount(v, Ends) + EndsOf(f)
    BY <1>5, <1>11 DEF NextTo
  <2>. HIDE DEF n, P, A, L, D
  <2>4. /\ Amount(s, L) \in Nat /\ Amount(s, D) \in Nat
        /\ Amount(s, Ends) = Amount(s, L) + Amount(s, D)
        /\ Amount(s, Ends) \in Nat /\ Amount(u, Ends) \in Nat /\ Amount(v, Ends) \in Nat
    <3>1. \A x \in Seq(Tokens) : Amount(x, Ends) \in Nat
      BY <1>7
    <3>. QED
      BY <1>2, <1>4, <1>6, <1>7, <3>1, Zenon
  <2>5. Amount(n, L) = Amount(s, L)
    <3>1. \/ Amount(s, A) = 0 /\ Amount(v, Ends) = Amount(u, Ends)
          \/ Amount(s, A) = 1 /\ Amount(u, Ends) = Amount(v, Ends) + EndsOf(f)
      BY <1>9, <2>3
    <3>2. Amount(v, Ends) = Amount(s, L)
      <4>1. CASE f = "CLAUDE.md"
        BY <1>8, <2>2, <2>4, <3>1, <4>1 DEF Due, EndsOf
      <4>2. CASE f # "CLAUDE.md"
        BY <1>8, <2>2, <2>4, <3>1, <4>2 DEF Due, EndsOf
      <4>. QED
        BY <4>1, <4>2
    <3>. QED
      BY <2>1, <3>2
  <2>6. Amount(n, D) = Due(f, Amount(n, P) + Amount(n, A))
    BY <1>9, <2>1, <2>2, <2>3 DEF Due
  <2>7. Paired(f, n)
    BY <2>1, <2>6 DEF Paired, P, A, D
  <2>. QED
    BY <1>1, <1>6, <2>1, <2>5, <2>7 DEF L
<1>. QED
  BY <1>10, <1>11

LEMMA SameOwnIs ==
  ASSUME NEW s, NEW t
  PROVE  SameOwn(s, t) <=> /\ Only(s, Own) = Only(t, Own)
                           /\ Amount(s, {"newline"}) = Amount(t, {"newline"})
<1>1. \A u : Spots(u, {"newline"}) = {i \in DOMAIN u : u[i] = "newline"}
  BY DEF Spots
<1>2. \A u : OwnLines(u) = Amount(u, {"newline"})
  BY <1>1 DEF OwnLines, Amount
<1>3. \A u : OwnText(u) = Only(u, Own)
  BY Zenon DEF OwnText, Own
<1>. QED
  BY <1>2, <1>3, Zenon DEF SameOwn

(* What the user writes down is no block and no line end of setup's. *)
LEMMA FirstPaired ==
  ASSUME NEW f \in Targets, NEW s \in Seq(UserTokens)
  PROVE  Paired(f, s)
<1>1. s \in Seq(Tokens)
  BY TokenKinds
<1>2. Spots(s, {"added"}) = {}
  BY TokenKinds DEF Spots
<1>3. Spots(s, MarksOf("policy")) = {} /\ Spots(s, MarksOf("autopilot")) = {}
  <2>1. MarksOf("policy") \cap UserTokens = {} /\ MarksOf("autopilot") \cap UserTokens = {}
    BY TokenKinds
  <2>. QED
    BY <2>1 DEF Spots
<1>4. /\ Amount(s, {"added"}) = 0 /\ Amount(s, MarksOf("policy")) = 0
      /\ Amount(s, MarksOf("autopilot")) = 0
  BY <1>2, <1>3, FS_EmptySet DEF Amount
<1>. QED
  BY <1>1, <1>4 DEF Paired, Due

LEMMA InsertPaired ==
  ASSUME NEW f \in Targets, NEW s, Paired(f, s), NEW t \in UserTokens, NEW i \in 0 .. Len(s)
  PROVE  Paired(f, Insert(s, i, t))
<1>. DEFINE a == SubSeq(s, 1, i)
            b == SubSeq(s, i + 1, Len(s))
            T == <<t>>
<1>1. s \in Seq(Tokens) /\ T \in Seq(Tokens) /\ t \in Tokens
  BY TokenKinds DEF Paired
<1>2. a \in Seq(Tokens) /\ b \in Seq(Tokens) /\ s = a \o b
  <2>1. PartedAt(Tokens, s, SubSeq(s, 1, i), SubSeq(s, i + 1, Len(s)),
                 SubSeq(s, Len(s) + 1, Len(s)), Tokens)
    BY <1>1, Parted
  <2>2. 1 \in 1 .. Len(s) + 1 /\ i \in 1 - 1 .. Len(s) /\ Len(s) \in i .. Len(s)
    BY <1>1
  <2>3. a \o b = SubSeq(s, 1, Len(s))
    BY <1>1, <2>2, ConcatAdjacentSubSeq
  <2>4. SubSeq(s, 1, Len(s)) = s
    BY <1>1, SubSeqFull
  <2>. QED
    BY <2>1, <2>3, <2>4, Zenon DEF PartedAt
<1>3. Insert(s, i, t) = (a \o T) \o b
  BY DEF Insert
<1>. HIDE DEF a, b, T
<1>4. (a \o T) \in Seq(Tokens) /\ (a \o T) \o b \in Seq(Tokens)
  BY <1>1, <1>2
<1>5. \A S : \A u, v \in Seq(Tokens) : Amount(u \o v, S) = Amount(u, S) + Amount(v, S)
  BY AmountConcat
<1>6. \A S : \A u \in Seq(Tokens) : Amount(u, S) \in Nat
  BY AmountOnly
<1>7. ASSUME NEW S, t \notin S PROVE Amount((a \o T) \o b, S) = Amount(s, S)
  <2>1. Amount((a \o T) \o b, S) = (Amount(a, S) + Amount(T, S)) + Amount(b, S)
    <3>1. Amount((a \o T) \o b, S) = Amount(a \o T, S) + Amount(b, S)
      BY <1>2, <1>4, <1>5, Zenon
    <3>2. Amount(a \o T, S) = Amount(a, S) + Amount(T, S)
      BY <1>1, <1>2, <1>5, Zenon
    <3>. QED
      BY <3>1, <3>2, Zenon
  <2>2. Amount(T, S) = 0
    BY <1>1, <1>7, OneToken DEF T
  <2>3. Amount(s, S) = Amount(a, S) + Amount(b, S)
    BY <1>2, <1>5, Zenon
  <2>4. Amount(a, S) \in Nat /\ Amount(b, S) \in Nat
    BY <1>2, <1>6
  <2>. QED
    BY <2>1, <2>2, <2>3, <2>4
<1>8. t \notin {"added"} /\ t \notin MarksOf("policy") /\ t \notin MarksOf("autopilot")
  BY TokenKinds
<1>9. /\ Amount((a \o T) \o b, {"added"}) = Amount(s, {"added"})
      /\ Amount((a \o T) \o b, MarksOf("policy")) = Amount(s, MarksOf("policy"))
      /\ Amount((a \o T) \o b, MarksOf("autopilot")) = Amount(s, MarksOf("autopilot"))
  BY <1>7, <1>8, Zenon
<1>. QED
  BY <1>3, <1>4, <1>9, Zenon DEF Paired

LEMMA EditPaired ==
  ASSUME NEW f \in Targets, NEW s, Paired(f, s), NEW i \in DOMAIN s, s[i] \in Blocks
  PROVE  Paired(f, [s EXCEPT ![i] = Edited[s[i]]])
<1>. DEFINE t == [s EXCEPT ![i] = Edited[s[i]]]
            b == s[i]
<1>1. s \in Seq(Tokens) /\ b \in Blocks /\ Edited[b] \in Tokens
  BY TokenKinds DEF Paired
<1>2. t \in Seq(Tokens) /\ DOMAIN t = DOMAIN s /\ t[i] = Edited[b]
      /\ \A j \in DOMAIN s : j # i => t[j] = s[j]
  BY <1>1
<1>. HIDE DEF t
<1>3. Spots(t, {"added"}) = Spots(s, {"added"})
  <2>1. b # "added" /\ Edited[b] # "added"
    BY <1>1, TokenKinds DEF Ends
  <2>. QED
    BY <1>2, <2>1 DEF Spots
<1>4. ASSUME NEW c \in Blocks PROVE Spots(t, MarksOf(c)) = Spots(s, MarksOf(c))
  <2>1. b \in MarksOf(c) <=> Edited[b] \in MarksOf(c)
    <3>1. c = b \/ c = Other(b)
      BY <1>1, TokenKinds DEF Other
    <3>2. /\ b \in MarksOf(b) /\ Edited[b] \in MarksOf(b)
          /\ b \notin MarksOf(Other(b)) /\ Edited[b] \notin MarksOf(Other(b))
      BY <1>1, TokenKinds
    <3>. HIDE DEF b
    <3>. QED
      BY <3>1, <3>2, Zenon
  <2>. QED
    BY <1>2, <2>1 DEF Spots
<1>5. /\ Amount(t, {"added"}) = Amount(s, {"added"})
      /\ \A c \in Blocks : Amount(t, MarksOf(c)) = Amount(s, MarksOf(c))
  BY <1>3, <1>4 DEF Amount
<1>6. "policy" \in Blocks /\ "autopilot" \in Blocks
  BY TokenKinds
<1>7. Paired(f, t)
  BY <1>2, <1>5, <1>6, Zenon DEF Paired
<1>. QED
  BY <1>7 DEF t

-----------------------------------------------------------------------------
(* Texts and plans hold their blocks whole, a plan keeps what its writer     *)
(* read, and what is being replaced says what was read until it is changed.  *)
SetupInv ==
  /\ SetupTypeOK
  /\ \A f \in Targets : Paired(f, text[f])
  /\ \A p \in Setups, f \in Targets :
       Paired(f, planned[p][f].next) /\ SameOwn(planned[p][f].was, planned[p][f].next)
  /\ \A p \in Setups :
       stage[p].replacing =>
         /\ stage[p].pos \in 1 .. 2
         /\ LET f == Order[stage[p].pos] IN
            p \notin overtaken => SameOwn(text[f], planned[p][f].was)

LEMMA SameOwnRelates ==
  /\ \A s : SameOwn(s, s)
  /\ \A s, t : SameOwn(s, t) => SameOwn(t, s)
  /\ \A s, t, u : SameOwn(s, t) /\ SameOwn(t, u) => SameOwn(s, u)
BY Zenon DEF SameOwn

LEMMA PairedTyped == ASSUME NEW f, NEW s, Paired(f, s) PROVE s \in Seq(Tokens)
BY DEF Paired

LEMMA OrderIs == Len(Order) = 2 /\ \A n \in 1 .. 2 : Order[n] \in Targets
BY DEF Order, Targets

(* Whoever replaces a file and is not overtaken was not before, and the file *)
(* says what it said.                                                       *)
NotOvertaken(q) ==
  stage[q].replacing /\ q \notin overtaken' =>
    /\ q \notin overtaken
    /\ LET f == Order[stage[q].pos] IN SameOwn(text'[f], text[f])

(* No plan, and none of the rest is a setup's. *)
LEMMA ReturnKeeps ==
  ASSUME SetupInv, NEW p \in Setups, Return(p), UNCHANGED <<begun, edits>>,
         backup' \in [Targets -> [some : BOOLEAN, text : Seq(Tokens)]],
         text' \in [Targets -> Seq(Tokens)], \A f \in Targets : Paired(f, text'[f]),
         overtaken' \subseteq Setups,
         \A q \in Setups \ {p} : NotOvertaken(q)
  PROVE  SetupInv'
<1>1. /\ stage \in [Setups -> [pos : 1 .. 3, replacing : BOOLEAN]]
      /\ planned \in [Setups -> [Targets -> [was : Seq(Tokens), next : Seq(Tokens)]]]
      /\ begun \in Nat /\ edits \in Nat
  BY DEF SetupInv, SetupTypeOK
<1>2. /\ stage'[p] = Resting /\ \A q \in Setups : q # p => stage'[q] = stage[q]
      /\ planned'[p] = NoPlan /\ \A q \in Setups : q # p => planned'[q] = planned[q]
  BY <1>1 DEF Return
<1>3. SetupTypeOK'
  <2>1. Resting \in [pos : 1 .. 3, replacing : BOOLEAN]
    BY DEF Resting
  <2>2. NoPlan \in [Targets -> [was : Seq(Tokens), next : Seq(Tokens)]]
    BY DEF NoPlan
  <2>3. stage' \in [Setups -> [pos : 1 .. 3, replacing : BOOLEAN]]
    BY <1>1, <2>1 DEF Return
  <2>4. planned' \in [Setups -> [Targets -> [was : Seq(Tokens), next : Seq(Tokens)]]]
    BY <1>1, <2>2 DEF Return
  <2>. QED
    BY <1>1, <2>3, <2>4 DEF SetupTypeOK
<1>4. ASSUME NEW q \in Setups, NEW f \in Targets
      PROVE  Paired(f, planned'[q][f].next) /\ SameOwn(planned'[q][f].was, planned'[q][f].next)
  <2>1. CASE q = p
    <3>1. planned'[q][f].next = << >> /\ planned'[q][f].was = << >>
      BY <1>2, <2>1 DEF NoPlan
    <3>2. << >> \in Seq(UserTokens)
      OBVIOUS
    <3>3. Paired(f, << >>)
      BY <3>2, FirstPaired
    <3>. QED
      BY <3>1, <3>3, SameOwnRelates
  <2>2. CASE q # p
    BY <1>2, <2>2 DEF SetupInv
  <2>. QED
    BY <2>1, <2>2
<1>5. ASSUME NEW q \in Setups, stage'[q].replacing
      PROVE  /\ stage'[q].pos \in 1 .. 2
             /\ LET f == Order[stage'[q].pos] IN
                q \notin overtaken' => SameOwn(text'[f], planned'[q][f].was)
  <2>1. q # p
    BY <1>2, <1>5 DEF Resting
  <2>2. stage'[q] = stage[q] /\ planned'[q] = planned[q]
    BY <1>2, <2>1
  <2>3. /\ stage[q].replacing /\ stage[q].pos \in 1 .. 2
        /\ q \notin overtaken =>
             SameOwn(text[Order[stage[q].pos]], planned[q][Order[stage[q].pos]].was)
    BY <1>5, <2>2 DEF SetupInv
  <2>4. ASSUME q \notin overtaken'
        PROVE  SameOwn(text'[Order[stage[q].pos]], planned[q][Order[stage[q].pos]].was)
    <3>1. q \notin overtaken /\ SameOwn(text'[Order[stage[q].pos]], text[Order[stage[q].pos]])
      BY <2>1, <2>3, <2>4 DEF NotOvertaken
    <3>. QED
      BY <2>3, <3>1, SameOwnRelates, Zenon
  <2>. QED
    BY <2>2, <2>3, <2>4
<1>. QED
  BY <1>3, <1>4, <1>5 DEF SetupInv

(* The same when the setup goes on to its next file. *)
LEMMA ToNextKeeps ==
  ASSUME SetupInv, NEW p \in Setups, ToNext(p), UNCHANGED <<begun, edits>>,
         stage[p] # Resting, stage[p].pos \in 1 .. 2,
         backup' \in [Targets -> [some : BOOLEAN, text : Seq(Tokens)]],
         text' \in [Targets -> Seq(Tokens)], \A f \in Targets : Paired(f, text'[f]),
         overtaken' \subseteq Setups,
         \A q \in Setups \ {p} : NotOvertaken(q)
  PROVE  SetupInv'
<1>1. CASE stage[p].pos = Len(Order)
  BY <1>1, ReturnKeeps DEF ToNext
<1>2. CASE stage[p].pos # Len(Order)
  <2>1. /\ stage' = [stage EXCEPT ![p] = [pos |-> stage[p].pos + 1, replacing |-> FALSE]]
        /\ planned' = planned
    BY <1>2 DEF ToNext
  <2>2. /\ stage \in [Setups -> [pos : 1 .. 3, replacing : BOOLEAN]]
        /\ planned \in [Setups -> [Targets -> [was : Seq(Tokens), next : Seq(Tokens)]]]
        /\ begun \in Nat /\ edits \in Nat
    BY DEF SetupInv, SetupTypeOK
  <2>3. stage' \in [Setups -> [pos : 1 .. 3, replacing : BOOLEAN]]
    <3>1. [pos |-> stage[p].pos + 1, replacing |-> FALSE] \in [pos : 1 .. 3, replacing : BOOLEAN]
      OBVIOUS
    <3>. QED
      BY <2>1, <2>2, <3>1
  <2>4. SetupTypeOK'
    BY <2>1, <2>2, <2>3 DEF SetupTypeOK
  <2>5. ASSUME NEW q \in Setups, stage'[q].replacing
        PROVE  /\ stage'[q].pos \in 1 .. 2
               /\ LET f == Order[stage'[q].pos] IN
                  q \notin overtaken' => SameOwn(text'[f], planned'[q][f].was)
    <3>1. q # p
      BY <2>1, <2>2, <2>5
    <3>2. stage'[q] = stage[q] /\ planned'[q] = planned[q]
      BY <2>1, <2>2, <3>1
    <3>3. /\ stage[q].replacing /\ stage[q].pos \in 1 .. 2
          /\ q \notin overtaken =>
               SameOwn(text[Order[stage[q].pos]], planned[q][Order[stage[q].pos]].was)
      BY <2>5, <3>2 DEF SetupInv
    <3>4. ASSUME q \notin overtaken'
          PROVE  SameOwn(text'[Order[stage[q].pos]], planned[q][Order[stage[q].pos]].was)
      <4>1. q \notin overtaken /\ SameOwn(text'[Order[stage[q].pos]], text[Order[stage[q].pos]])
        BY <3>1, <3>3, <3>4 DEF NotOvertaken
      <4>. QED
        BY <3>3, <4>1, SameOwnRelates, Zenon
    <3>. QED
      BY <3>2, <3>3, <3>4
  <2>. QED
    BY <2>1, <2>4, <2>5 DEF SetupInv
<1>. QED
  BY <1>1, <1>2

LEMMA PlanTargetsKeeps ==
  ASSUME SetupInv, NEW p \in Setups, NEW mode \in Modes, PlanTargets(p, mode)
  PROVE  SetupInv'
<1>1. /\ stage \in [Setups -> [pos : 1 .. 3, replacing : BOOLEAN]]
      /\ planned \in [Setups -> [Targets -> [was : Seq(Tokens), next : Seq(Tokens)]]]
      /\ begun \in Nat /\ text \in [Targets -> Seq(Tokens)]
  BY DEF SetupInv, SetupTypeOK
<1>. DEFINE drawn == [f \in Targets |-> [was |-> text[f], next |-> Planned(f, text[f], mode)]]
<1>2. ASSUME NEW f \in Targets
      PROVE  /\ drawn[f].was = text[f] /\ drawn[f].next = Planned(f, text[f], mode)
             /\ Paired(f, drawn[f].next) /\ SameOwn(drawn[f].was, drawn[f].next)
  <2>1. drawn[f].was = text[f] /\ drawn[f].next = Planned(f, text[f], mode)
    OBVIOUS
  <2>2. Paired(f, text[f]) /\ Accepts(f, text[f], mode)
    BY DEF SetupInv, PlanTargets
  <2>3. /\ Paired(f, Planned(f, text[f], mode))
        /\ Only(Planned(f, text[f], mode), Own) = Only(text[f], Own)
        /\ Amount(Planned(f, text[f], mode), {"newline"}) = Amount(text[f], {"newline"})
    BY <2>2, PlannedKeeps, Zenon
  <2>4. SameOwn(text[f], Planned(f, text[f], mode))
    BY <2>3, SameOwnIs, Zenon
  <2>. HIDE DEF drawn
  <2>. QED
    BY <2>1, <2>3, <2>4, Zenon
<1>3. drawn \in [Targets -> [was : Seq(Tokens), next : Seq(Tokens)]]
  <2>1. \A f \in Targets : text[f] \in Seq(Tokens) /\ Planned(f, text[f], mode) \in Seq(Tokens)
    <3>. HIDE DEF drawn
    <3>. QED
      BY <1>1, <1>2, PairedTyped
  <2>. QED
    BY <2>1
<1>. HIDE DEF drawn
<1>4. /\ stage[p] = Resting /\ planned' = [planned EXCEPT ![p] = drawn]
      /\ stage' = [stage EXCEPT ![p].pos = 1] /\ begun' = begun + 1
      /\ UNCHANGED <<text, backup, edits, overtaken>>
  BY DEF PlanTargets, drawn
<1>5. stage' \in [Setups -> [pos : 1 .. 3, replacing : BOOLEAN]] /\ ~stage'[p].replacing
      /\ \A q \in Setups : q # p => stage'[q] = stage[q]
  <2>1. stage[p].replacing = FALSE
    BY <1>4 DEF Resting
  <2>2. stage' = [stage EXCEPT ![p] = [stage[p] EXCEPT !.pos = 1]]
    BY <1>4
  <2>3. [stage[p] EXCEPT !.pos = 1] \in [pos : 1 .. 3, replacing : BOOLEAN]
        /\ [stage[p] EXCEPT !.pos = 1].replacing = stage[p].replacing
    <3>1. stage[p] \in [pos : 1 .. 3, replacing : BOOLEAN] /\ 1 \in 1 .. 3
      BY <1>1
    <3>. QED
      BY <3>1
  <2>. QED
    BY <1>1, <2>1, <2>2, <2>3
<1>6. planned' \in [Setups -> [Targets -> [was : Seq(Tokens), next : Seq(Tokens)]]]
      /\ planned'[p] = drawn /\ \A q \in Setups : q # p => planned'[q] = planned[q]
  BY <1>1, <1>3, <1>4
<1>7. SetupTypeOK'
  BY <1>1, <1>4, <1>5, <1>6 DEF SetupTypeOK, SetupInv
<1>8. ASSUME NEW q \in Setups, NEW f \in Targets
      PROVE  Paired(f, planned'[q][f].next) /\ SameOwn(planned'[q][f].was, planned'[q][f].next)
  BY <1>2, <1>6 DEF SetupInv
<1>9. ASSUME NEW q \in Setups, stage'[q].replacing
      PROVE  /\ stage'[q].pos \in 1 .. 2
             /\ LET f == Order[stage'[q].pos] IN
                q \notin overtaken' => SameOwn(text'[f], planned'[q][f].was)
  <2>1. stage'[q] = stage[q] /\ planned'[q] = planned[q] /\ UNCHANGED <<text, overtaken>>
    BY <1>4, <1>5, <1>6, <1>9
  <2>. QED
    BY <1>9, <2>1 DEF SetupInv
<1>10. \A f \in Targets : Paired(f, text'[f])
  BY <1>4 DEF SetupInv
<1>. QED
  BY <1>7, <1>8, <1>9, <1>10 DEF SetupInv

(* A setup that does not rest is at a file. *)
LEMMA AtAFile ==
  ASSUME SetupInv, NEW p \in Setups, stage[p] # Resting
  PROVE  stage[p].pos \in 1 .. 2
<1>1. stage[p] \in [pos : 1 .. 3, replacing : BOOLEAN] /\ (stage[p].replacing => stage[p].pos \in 1 .. 2)
  BY DEF SetupInv, SetupTypeOK
<1>2. CASE stage[p].pos = 3
  <2>1. stage[p].replacing = FALSE
    BY <1>1, <1>2
  <2>2. stage[p] = [pos |-> 3, replacing |-> FALSE]
    BY <1>1, <1>2, <2>1
  <2>. QED
    BY <2>2 DEF Resting
<1>. QED
  BY <1>1, <1>2

LEMMA CompareTargetKeeps ==
  ASSUME SetupInv, NEW p \in Setups, CompareTarget(p)
  PROVE  SetupInv'
<1>. DEFINE f == Order[stage[p].pos]
            here == planned[p][f]
<1>1. stage[p] # Resting /\ ~stage[p].replacing /\ UNCHANGED <<text, backup, begun, edits, overtaken>>
  BY DEF CompareTarget
<1>2. stage[p].pos \in 1 .. 2 /\ f \in Targets
  BY <1>1, AtAFile, OrderIs
<1>3. /\ stage \in [Setups -> [pos : 1 .. 3, replacing : BOOLEAN]]
      /\ backup' \in [Targets -> [some : BOOLEAN, text : Seq(Tokens)]]
      /\ overtaken' \subseteq Setups
  BY <1>1 DEF SetupInv, SetupTypeOK
<1>4. /\ text' \in [Targets -> Seq(Tokens)] /\ \A g \in Targets : Paired(g, text'[g])
      /\ \A q \in Setups : NotOvertaken(q)
  <2>1. text' = text /\ overtaken' = overtaken
    BY <1>1
  <2>2. \A q \in Setups : NotOvertaken(q)
    BY <2>1, SameOwnRelates DEF NotOvertaken
  <2>. QED
    BY <2>1, <2>2 DEF SetupInv, SetupTypeOK
<1>5. CASE ToNext(p)
  BY <1>1, <1>2, <1>3, <1>4, <1>5, ToNextKeeps
<1>6. CASE Return(p)
  BY <1>1, <1>3, <1>4, <1>6, ReturnKeeps
<1>7. CASE /\ AsPlanned(p, f) /\ UNCHANGED planned
           /\ stage' = [stage EXCEPT ![p].replacing = TRUE]
  <2>1. /\ stage' \in [Setups -> [pos : 1 .. 3, replacing : BOOLEAN]]
        /\ stage'[p].pos = stage[p].pos /\ \A q \in Setups : q # p => stage'[q] = stage[q]
    BY <1>3, <1>7
  <2>2. SetupTypeOK'
    BY <1>1, <1>3, <1>4, <1>7, <2>1 DEF SetupTypeOK, SetupInv
  <2>3. ASSUME NEW q \in Setups, stage'[q].replacing
        PROVE  /\ stage'[q].pos \in 1 .. 2
               /\ LET g == Order[stage'[q].pos] IN
                  q \notin overtaken' => SameOwn(text'[g], planned'[q][g].was)
    <3>1. CASE q = p
      <4>1. text[f] = planned[p][f].was
        BY <1>7 DEF AsPlanned
      <4>2. SameOwn(text[f], planned[p][f].was)
        <5>. HIDE DEF f
        <5>. QED
          BY <4>1, SameOwnRelates, Zenon
      <4>. QED
        BY <1>1, <1>2, <1>7, <2>1, <3>1, <4>2
    <3>2. CASE q # p
      BY <1>1, <1>7, <2>1, <2>3, <3>2 DEF SetupInv
    <3>. QED
      BY <3>1, <3>2
  <2>. QED
    BY <1>4, <1>7, <2>2, <2>3 DEF SetupInv
<1>. QED
  BY <1>5, <1>6, <1>7 DEF CompareTarget

LEMMA BackUpKeeps ==
  ASSUME SetupInv, NEW p \in Setups, BackUp(p)
  PROVE  SetupInv'
<1>. DEFINE f == Order[stage[p].pos]
<1>1. f \in Targets
  BY OrderIs DEF BackUp, SetupInv
<1>. HIDE DEF f
<1>2. /\ UNCHANGED <<text, stage, planned, begun, edits, overtaken>>
      /\ backup' = [backup EXCEPT ![f] = [some |-> TRUE, text |-> text[f]]]
  BY DEF BackUp, f
<1>3. backup' \in [Targets -> [some : BOOLEAN, text : Seq(Tokens)]]
  <2>1. /\ backup \in [Targets -> [some : BOOLEAN, text : Seq(Tokens)]]
        /\ [some |-> TRUE, text |-> text[f]] \in [some : BOOLEAN, text : Seq(Tokens)]
    BY <1>1 DEF SetupInv, SetupTypeOK
  <2>. QED
    BY <1>2, <2>1
<1>. QED
  BY <1>2, <1>3 DEF SetupInv, SetupTypeOK

(* What is written says what the file said, unless that was overtaken.      *)
LEMMA ReplaceKeeps ==
  ASSUME SetupInv, NEW p \in Setups, Replace(p)
  PROVE  /\ SetupInv' /\ stage'[p] # stage[p]
         /\ \A f \in Targets :
              SameOwn(text[f], text'[f]) \/ (p \in overtaken /\ p \in Busy(f))
<1>. DEFINE f == Order[stage[p].pos]
<1>1. /\ stage[p].replacing /\ stage[p].pos \in 1 .. 2 /\ stage[p] # Resting
      /\ p \notin overtaken => SameOwn(text[f], planned[p][f].was)
  BY DEF Replace, SetupInv, Resting
<1>2. f \in Targets /\ p \in Busy(f)
  BY <1>1, OrderIs DEF Busy
<1>3. /\ text' = [text EXCEPT ![f] = planned[p][f].next] /\ ToNext(p)
      /\ overtaken' = (IF SameOwn(text[f], text'[f]) THEN overtaken
                       ELSE overtaken \cup Busy(f)) \ {p}
      /\ UNCHANGED <<backup, begun, edits>>
  BY DEF Replace
<1>4. /\ text \in [Targets -> Seq(Tokens)] /\ overtaken \subseteq Setups
      /\ backup \in [Targets -> [some : BOOLEAN, text : Seq(Tokens)]]
      /\ stage \in [Setups -> [pos : 1 .. 3, replacing : BOOLEAN]]
      /\ Paired(f, planned[p][f].next) /\ SameOwn(planned[p][f].was, planned[p][f].next)
  BY <1>2 DEF SetupInv, SetupTypeOK
<1>5. \A q \in Setups : stage[q].replacing => q \in Busy(Order[stage[q].pos])
                                           /\ Order[stage[q].pos] \in Targets
  BY OrderIs DEF Busy, SetupInv
<1>6. stage'[p] # stage[p]
  <2>1. CASE Return(p)
    BY <1>1, <1>4, <2>1 DEF Return
  <2>2. CASE stage' = [stage EXCEPT ![p] = [pos |-> stage[p].pos + 1, replacing |-> FALSE]]
    BY <1>1, <1>4, <2>2
  <2>. QED
    BY <1>3, <2>1, <2>2 DEF ToNext
<1>. HIDE DEF f
<1>7. text'[f] = planned[p][f].next /\ \A g \in Targets : g # f => text'[g] = text[g]
  BY <1>2, <1>3, <1>4
<1>8. p \notin overtaken => SameOwn(text[f], text'[f])
  <2>1. ASSUME p \notin overtaken PROVE SameOwn(text[f], planned[p][f].next)
    BY <1>1, <1>4, <2>1, SameOwnRelates, Zenon
  <2>. QED
    BY <1>7, <2>1
<1>9. \A g \in Targets : SameOwn(text[g], text'[g]) \/ (p \in overtaken /\ p \in Busy(g))
  <2>. TAKE g \in Targets
  <2>1. CASE g = f
    BY <1>2, <1>8, <2>1, Zenon
  <2>2. CASE g # f
    BY <1>7, <2>2, SameOwnRelates, Zenon
  <2>. QED
    BY <2>1, <2>2
<1>10. \A g \in Targets : Paired(g, text'[g])
  BY <1>4, <1>7 DEF SetupInv
<1>11. text' \in [Targets -> Seq(Tokens)]
  <2>1. planned[p][f].next \in Seq(Tokens)
    BY <1>4, PairedTyped
  <2>. QED
    BY <1>3, <1>4, <2>1
<1>12. overtaken' \subseteq Setups
  BY <1>3, <1>4 DEF Busy
<1>13. \A q \in Setups \ {p} : NotOvertaken(q)
  <2>. SUFFICES ASSUME NEW q \in Setups \ {p}, stage[q].replacing, q \notin overtaken'
                PROVE  /\ q \notin overtaken
                       /\ SameOwn(text'[Order[stage[q].pos]], text[Order[stage[q].pos]])
    BY Zenon DEF NotOvertaken
  <2>. DEFINE g == Order[stage[q].pos]
  <2>1. q \in Busy(g) /\ g \in Targets
    BY <1>5
  <2>. HIDE DEF g
  <2>2. q \notin overtaken /\ (SameOwn(text[f], text'[f]) \/ q \notin Busy(f))
    <3>1. CASE SameOwn(text[f], text'[f])
      BY <1>3, <3>1
    <3>2. CASE ~SameOwn(text[f], text'[f])
      BY <1>3, <3>2
    <3>. QED
      BY <3>1, <3>2
  <2>3. ASSUME g = f PROVE SameOwn(text'[g], text[g])
    BY <2>1, <2>2, <2>3, SameOwnRelates
  <2>4. ASSUME g # f PROVE SameOwn(text'[g], text[g])
    BY <1>7, <2>1, <2>4, SameOwnRelates
  <2>5. SameOwn(text'[g], text[g])
    BY <2>3, <2>4
  <2>. QED
    BY <2>2, <2>5, Zenon DEF g
<1>14. SetupInv'
  BY <1>1, <1>3, <1>4, <1>10, <1>11, <1>12, <1>13, ToNextKeeps
<1>. QED
  BY <1>6, <1>9, <1>14

LEMMA UserEditsKeeps ==
  ASSUME SetupInv, NEW f \in Targets, UserEdits(f)
  PROVE  SetupInv' /\ edits' # edits
<1>1. /\ edits' = edits + 1 /\ UNCHANGED <<backup, stage, planned, begun>>
      /\ overtaken' = overtaken \cup Busy(f)
  BY DEF UserEdits
<1>2. /\ text \in [Targets -> Seq(Tokens)] /\ edits \in Nat /\ Paired(f, text[f])
  BY DEF SetupInv, SetupTypeOK
<1>3. PICK new : text' = [text EXCEPT ![f] = new] /\ Paired(f, new)
  <2>1. CASE \E t \in UserTokens, i \in 0 .. Len(text[f]) : text' = [text EXCEPT ![f] = Insert(@, i, t)]
    <3>1. PICK t \in UserTokens, i \in 0 .. Len(text[f]) :
            text' = [text EXCEPT ![f] = Insert(text[f], i, t)]
      BY <2>1
    <3>2. Paired(f, Insert(text[f], i, t))
      BY <1>2, InsertPaired
    <3>. QED
      BY <3>1, <3>2
  <2>2. CASE \E i \in DOMAIN text[f] : /\ text[f][i] \in Blocks
                                     /\ text' = [text EXCEPT ![f][i] = Edited[text[f][i]]]
    <3>1. PICK i \in DOMAIN text[f] : /\ text[f][i] \in Blocks
                                     /\ text' = [text EXCEPT ![f][i] = Edited[text[f][i]]]
      BY <2>2
    <3>2. Paired(f, [text[f] EXCEPT ![i] = Edited[text[f][i]]])
      BY <1>2, <3>1, EditPaired
    <3>3. text' = [text EXCEPT ![f] = [text[f] EXCEPT ![i] = Edited[text[f][i]]]]
      BY <3>1
    <3>. QED
      BY <3>2, <3>3
  <2>. QED
    BY <2>1, <2>2 DEF UserEdits
<1>4. /\ text' \in [Targets -> Seq(Tokens)] /\ \A g \in Targets : g # f => text'[g] = text[g]
      /\ text'[f] = new
  BY <1>2, <1>3, PairedTyped
<1>5. \A g \in Targets : Paired(g, text'[g])
  BY <1>3, <1>4 DEF SetupInv
<1>6. SetupTypeOK'
  BY <1>1, <1>2, <1>4 DEF SetupTypeOK, SetupInv, Busy
<1>7. ASSUME NEW q \in Setups, stage'[q].replacing
      PROVE  /\ stage'[q].pos \in 1 .. 2
             /\ LET g == Order[stage'[q].pos] IN
                q \notin overtaken' => SameOwn(text'[g], planned'[q][g].was)
  <2>1. /\ stage[q].replacing /\ stage[q].pos \in 1 .. 2
        /\ q \notin overtaken =>
             SameOwn(text[Order[stage[q].pos]], planned[q][Order[stage[q].pos]].was)
    BY <1>1, <1>7 DEF SetupInv
  <2>2. ASSUME q \notin overtaken'
        PROVE  /\ q \notin overtaken
               /\ Order[stage[q].pos] \in Targets /\ Order[stage[q].pos] # f
    BY <1>1, <2>1, <2>2, OrderIs DEF Busy
  <2>3. ASSUME q \notin overtaken' PROVE text'[Order[stage[q].pos]] = text[Order[stage[q].pos]]
    BY <1>4, <2>2, <2>3
  <2>. QED
    BY <1>1, <2>1, <2>2, <2>3
<1>. QED
  BY <1>1, <1>2, <1>5, <1>6, <1>7 DEF SetupInv

LEMMA SetupKept == SetupInv /\ [SetupNext]_setupVars => SetupInv'
<1>. SUFFICES ASSUME SetupInv, [SetupNext]_setupVars PROVE SetupInv'
  OBVIOUS
<1>1. ASSUME NEW p \in Setups, NEW mode \in Modes, PlanTargets(p, mode) PROVE SetupInv'
  BY <1>1, PlanTargetsKeeps
<1>2. ASSUME NEW p \in Setups, CompareTarget(p) PROVE SetupInv'
  BY <1>2, CompareTargetKeeps
<1>3. ASSUME NEW p \in Setups, Replace(p) PROVE SetupInv'
  BY <1>3, ReplaceKeeps
<1>4. ASSUME NEW p \in Setups, BreakOff(p) PROVE SetupInv'
  <2>1. Return(p) /\ UNCHANGED <<text, backup, begun, edits>> /\ overtaken' = overtaken \ {p}
    BY <1>4 DEF BreakOff
  <2>2. /\ text' \in [Targets -> Seq(Tokens)] /\ \A f \in Targets : Paired(f, text'[f])
        /\ backup' \in [Targets -> [some : BOOLEAN, text : Seq(Tokens)]]
        /\ overtaken' \subseteq Setups
    BY <2>1 DEF SetupInv, SetupTypeOK
  <2>3. \A q \in Setups \ {p} : NotOvertaken(q)
    BY <2>1, SameOwnRelates DEF NotOvertaken
  <2>. QED
    BY <2>1, <2>2, <2>3, ReturnKeeps
<1>5. ASSUME NEW f \in Targets, UserEdits(f) PROVE SetupInv'
  BY <1>5, UserEditsKeeps
<1>6. ASSUME NEW p \in Setups, BackUp(p) PROVE SetupInv'
  BY <1>6, BackUpKeeps
<1>7. CASE UNCHANGED setupVars
  <2>1. UNCHANGED <<text, backup, stage, planned, begun, edits, overtaken>>
    BY <1>7 DEF setupVars
  <2>. QED
    BY <2>1 DEF SetupInv, SetupTypeOK
<1>. QED
  BY <1>1, <1>2, <1>3, <1>4, <1>5, <1>6, <1>7 DEF SetupNext

LEMMA SetupStarts == SetupInit => SetupInv
<1>. SUFFICES ASSUME SetupInit PROVE SetupInv
  OBVIOUS
<1>1. ASSUME NEW f \in Targets PROVE text[f] \in Seq(UserTokens) /\ Paired(f, text[f])
  <2>1. text[f] \in Seq(UserTokens)
    BY SetupAssumption DEF SetupInit
  <2>. QED
    BY <2>1, FirstPaired
<1>2. text \in [Targets -> Seq(Tokens)]
  <2>1. \A f \in Targets : text[f] \in Seq(Tokens)
    BY <1>1, PairedTyped
  <2>2. text = [f \in Targets |-> text[f]]
    BY DEF SetupInit
  <2>. QED
    BY <2>1, <2>2
<1>3. << >> \in Seq(Tokens) /\ << >> \in Seq(UserTokens)
  OBVIOUS
<1>4. backup \in [Targets -> [some : BOOLEAN, text : Seq(Tokens)]]
  BY <1>3 DEF SetupInit
<1>5. stage \in [Setups -> [pos : 1 .. 3, replacing : BOOLEAN]]
      /\ \A p \in Setups : ~stage[p].replacing
  BY DEF SetupInit, Resting
<1>6. planned \in [Setups -> [Targets -> [was : Seq(Tokens), next : Seq(Tokens)]]]
      /\ \A p \in Setups, f \in Targets : planned[p][f].was = << >> /\ planned[p][f].next = << >>
  BY <1>3 DEF SetupInit, NoPlan
<1>7. SetupTypeOK
  BY <1>2, <1>4, <1>5, <1>6 DEF SetupTypeOK, SetupInit
<1>8. \A f \in Targets : Paired(f, << >>)
  BY <1>3, FirstPaired
<1>. QED
  BY <1>1, <1>5, <1>6, <1>7, <1>8, SameOwnRelates DEF SetupInv

(* The files and plans of every setup have the shapes the code gives them. *)
THEOREM SetupTyped == SetupSpec => []SetupTypeOK
<1>1. SetupInv => SetupTypeOK
  BY DEF SetupInv
<1>. QED
  BY <1>1, SetupStarts, SetupKept, PTL DEF SetupSpec

(* Whatever the texts, the setups that run at once and the edits between     *)
(* them (apply): no step but the user's own changes what the user wrote, and *)
(* a setup that overwrites a change was overtaken after it compared.         *)
THEOREM TextIsKept == SetupSpec => UserTextKept
<1>. DEFINE Lasts == \A f \in Targets :
              \/ SameOwn(text[f], text'[f])
              \/ \E p \in overtaken : p \in Busy(f) /\ stage'[p] # stage[p]
<1>1. ASSUME SetupInv, [SetupNext]_setupVars PROVE [edits' = edits => Lasts]_setupVars
  <2>1. ASSUME NEW p \in Setups, Replace(p) PROVE Lasts
    BY <1>1, <2>1, ReplaceKeeps, Zenon
  <2>2. ASSUME NEW f \in Targets, UserEdits(f) PROVE edits' # edits
    BY <1>1, <2>2, UserEditsKeeps
  <2>3. ASSUME text' = text PROVE Lasts
    BY <2>3, SameOwnRelates
  <2>4. ASSUME NEW p \in Setups, NEW mode \in Modes, PlanTargets(p, mode) PROVE text' = text
    BY <2>4 DEF PlanTargets
  <2>5. ASSUME NEW p \in Setups, CompareTarget(p) \/ BackUp(p) \/ BreakOff(p) PROVE text' = text
    BY <2>5 DEF CompareTarget, BackUp, BreakOff
  <2>. HIDE DEF Lasts
  <2>. QED
    BY <1>1, <2>1, <2>2, <2>3, <2>4, <2>5, Zenon DEF SetupNext
<1>. QED
  BY <1>1, SetupStarts, SetupKept, PTL DEF SetupSpec, UserTextKept

-----------------------------------------------------------------------------
(* Setup: a block that goes in comes out again.                            *)

(* Where a block stands as it is installed. *)
Standing(f, s, b, i) ==
  /\ i \in 1 .. Len(s) /\ s[i] = b /\ WholeLine(s, i)
  /\ i < Len(s) /\ (f = "CLAUDE.md" => i > 1)
  /\ \A j \in 1 .. Len(s) : s[j] \in MarksOf(b) => j = i

LEMMA StandingManaged ==
  ASSUME NEW f, NEW s \in Seq(Tokens), NEW b \in Blocks
  PROVE  /\ \A i \in Marked(s, b) : Managed(f, s, b) => Standing(f, s, b, i)
         /\ \A i : Standing(f, s, b, i) => Managed(f, s, b) /\ Marked(s, b) = {i}
<1>1. Marked(s, b) = {j \in 1 .. Len(s) : s[j] \in MarksOf(b)}
  BY DEF Marked, MarksOf
<1>2. ASSUME NEW i \in Marked(s, b), Managed(f, s, b) PROVE Standing(f, s, b, i)
  <2>1. PICK k : Marked(s, b) = {k}
    <3>1. IsFiniteSet(Marked(s, b))
      <4>1. Spots(s, MarksOf(b)) = Marked(s, b)
        BY <1>1 DEF Spots
      <4>. QED
        BY <4>1, AmountOnly
    <3>. QED
      BY <1>2, <3>1, FS_Singleton DEF Managed
  <2>2. Marked(s, b) = {i}
    BY <2>1
  <2>. QED
    BY <1>1, <1>2, <2>2 DEF Standing, Managed
<1>3. ASSUME NEW i, Standing(f, s, b, i) PROVE Managed(f, s, b) /\ Marked(s, b) = {i}
  <2>1. s[i] \in MarksOf(b)
    BY <1>3, TokenKinds DEF Standing
  <2>2. Marked(s, b) = {i}
    BY <1>1, <1>3, <2>1 DEF Standing
  <2>3. Cardinality({i}) = 1
    BY FS_Singleton
  <2>. QED
    BY <1>3, <2>2, <2>3 DEF Managed, Standing
<1>. QED
  BY <1>2, <1>3

(* The places of one text after the other. *)
Joined(a, b, c) ==
  /\ Len(c) = Len(a) + Len(b)
  /\ \A k \in 1 .. Len(a) : c[k] = a[k]
  /\ \A k \in 1 .. Len(b) : c[Len(a) + k] = b[k]

LEMMA JoinPlaces ==
  ASSUME NEW X, NEW a \in Seq(X), NEW b \in Seq(X)
  PROVE  a \o b \in Seq(X) /\ Joined(a, b, a \o b)
<1>1. /\ a \o b \in Seq(X) /\ Len(a \o b) = Len(a) + Len(b)
      /\ \A i \in 1 .. Len(a) + Len(b) :
           (a \o b)[i] = IF i <= Len(a) THEN a[i] ELSE b[i - Len(a)]
  BY ConcatProperties
<1>2. Len(a) \in Nat /\ Len(b) \in Nat
  OBVIOUS
<1>3. ASSUME NEW k \in 1 .. Len(a) PROVE (a \o b)[k] = a[k]
  BY <1>1, <1>2
<1>4. ASSUME NEW k \in 1 .. Len(b) PROVE (a \o b)[Len(a) + k] = b[k]
  <2>1. /\ Len(a) + k \in 1 .. Len(a) + Len(b) /\ ~(Len(a) + k <= Len(a))
        /\ (Len(a) + k) - Len(a) = k
    BY <1>2
  <2>. QED
    BY <1>1, <2>1
<1>. QED
  BY <1>1, <1>3, <1>4 DEF Joined

(* The places of a text that got a block. *)
LEMMA PutPlaces ==
  ASSUME NEW f \in Targets, NEW s \in Seq(Tokens), NEW b \in Blocks
  PROVE  LET t == Put(f, s, b) IN
         /\ t \in Seq(Tokens)
         /\ f = "CLAUDE.md" =>
              /\ Len(t) = Len(s) + 3 /\ \A k \in 1 .. Len(s) : t[k] = s[k]
              /\ t[Len(s) + 1] = "added" /\ t[Len(s) + 2] = b /\ t[Len(s) + 3] = "added"
         /\ f # "CLAUDE.md" =>
              /\ Len(t) = Len(s) + 2 /\ t[1] = b /\ t[2] = "added"
              /\ \A k \in 1 .. Len(s) : t[k + 2] = s[k]
<1>1. "added" \in Tokens /\ b \in Tokens
  BY TokenKinds DEF Ends
<1>2. Put(f, s, b) \in Seq(Tokens)
  BY PutAdds
<1>3. ASSUME f = "CLAUDE.md"
      PROVE  LET t == Put(f, s, b) IN
             /\ Len(t) = Len(s) + 3 /\ \A k \in 1 .. Len(s) : t[k] = s[k]
             /\ t[Len(s) + 1] = "added" /\ t[Len(s) + 2] = b /\ t[Len(s) + 3] = "added"
  <2>. DEFINE m == <<"added", b, "added">>
  <2>1. Put(f, s, b) = s \o m
    BY <1>3 DEF Put
  <2>2. m \in Seq(Tokens) /\ Len(m) = 3 /\ m[1] = "added" /\ m[2] = b /\ m[3] = "added"
    BY <1>1
  <2>. HIDE DEF m
  <2>0. Joined(s, m, s \o m)
    BY <2>2, JoinPlaces, Zenon
  <2>3. /\ Len(s \o m) = Len(s) + Len(m) /\ \A k \in 1 .. Len(s) : (s \o m)[k] = s[k]
        /\ \A k \in 1 .. Len(m) : (s \o m)[Len(s) + k] = m[k]
    BY <2>0 DEF Joined
  <2>4. /\ (s \o m)[Len(s) + 1] = "added" /\ (s \o m)[Len(s) + 2] = b
        /\ (s \o m)[Len(s) + 3] = "added"
    <3>1. 1 \in 1 .. Len(m) /\ 2 \in 1 .. Len(m) /\ 3 \in 1 .. Len(m)
      BY <2>2
    <3>. QED
      BY <2>2, <2>3, <3>1
  <2>5. Len(s \o m) = Len(s) + 3
    BY <2>2, <2>3
  <2>. QED
    BY <2>1, <2>3, <2>4, <2>5
<1>4. ASSUME f # "CLAUDE.md"
      PROVE  LET t == Put(f, s, b) IN
             /\ Len(t) = Len(s) + 2 /\ t[1] = b /\ t[2] = "added"
             /\ \A k \in 1 .. Len(s) : t[k + 2] = s[k]
  <2>. DEFINE m == <<b, "added">>
  <2>1. Put(f, s, b) = m \o s
    BY <1>4 DEF Put
  <2>2. m \in Seq(Tokens) /\ Len(m) = 2 /\ m[1] = b /\ m[2] = "added"
    BY <1>1
  <2>. HIDE DEF m
  <2>0. Joined(m, s, m \o s)
    BY <2>2, JoinPlaces, Zenon
  <2>3. /\ Len(m \o s) = Len(m) + Len(s) /\ \A k \in 1 .. Len(m) : (m \o s)[k] = m[k]
        /\ \A k \in 1 .. Len(s) : (m \o s)[Len(m) + k] = s[k]
    BY <2>0 DEF Joined
  <2>4. (m \o s)[1] = b /\ (m \o s)[2] = "added" /\ Len(m \o s) = Len(s) + 2
    <3>1. 1 \in 1 .. Len(m) /\ 2 \in 1 .. Len(m)
      BY <2>2
    <3>. QED
      BY <2>2, <2>3, <3>1
  <2>5. \A k \in 1 .. Len(s) : (m \o s)[k + 2] = s[k]
    <3>1. ASSUME NEW k \in 1 .. Len(s) PROVE (m \o s)[k + 2] = s[k]
      <4>1. Len(m) + k = k + 2
        BY <2>2
      <4>. QED
        BY <2>3, <4>1
    <3>. QED
      BY <3>1
  <2>. QED
    BY <2>1, <2>4, <2>5
<1>. QED
  BY <1>2, <1>3, <1>4

(* How much a block takes with it, and how much of it is in front. *)
Wide(f) == IF f = "CLAUDE.md" THEN 3 ELSE 2
Lead(f) == IF f = "CLAUDE.md" THEN 1 ELSE 0

(* The places of a text that lost one. *)
LEMMA CutPlaces ==
  ASSUME NEW f, NEW s \in Seq(Tokens), NEW i \in 1 .. Len(s), i < Len(s),
         f = "CLAUDE.md" => i > 1
  PROVE  LET c == Cut(f, s, i) IN
         /\ c \in Seq(Tokens) /\ Len(c) = Len(s) - Wide(f)
         /\ \A k \in 1 .. Len(s) - Wide(f) :
              c[k] = IF k < i - Lead(f) THEN s[k] ELSE s[k + Wide(f)]
<1>. DEFINE l == IF f = "CLAUDE.md" THEN i - 2 ELSE i - 1
            h == i + 2
            n == Len(s)
            a == SubSeq(s, 1, l)
            b == SubSeq(s, h, n)
<1>0. n \in Nat /\ l \in Nat /\ l <= n /\ h \in Nat /\ h <= n + 1 /\ h >= 1
      /\ h = l + Wide(f) + 1 /\ l + 1 = i - Lead(f) /\ Wide(f) \in Nat /\ Lead(f) \in Nat
      /\ Wide(f) <= n
  BY DEF Wide, Lead
<1>all. \A k \in 1 .. n : s[k] \in Tokens
  OBVIOUS
<1>1. Cut(f, s, i) = a \o b
  BY DEF Cut
<1>. HIDE DEF l, h, n
<1>2. a \in Seq(Tokens) /\ Len(a) = l /\ \A k \in 1 .. l : a[k] = s[k]
  <2>1. \A k \in 1 .. l : s[k] \in Tokens
    BY <1>0, <1>all
  <2>2. /\ a \in Seq(Tokens) /\ Len(a) = (IF 1 <= l THEN l - 1 + 1 ELSE 0)
        /\ \A k \in 1 .. l - 1 + 1 : a[k] = s[1 + k - 1]
    <3>1. 1 \in Int /\ l \in Int
      BY <1>0
    <3>. QED
      BY <3>1, <2>1, SubSeqProperties
  <2>. HIDE DEF a
  <2>. QED
    BY <1>0, <2>2
<1>3. b \in Seq(Tokens) /\ Len(b) = n + 1 - h /\ \A k \in 1 .. n + 1 - h : b[k] = s[h + k - 1]
  <2>1. \A k \in h .. n : s[k] \in Tokens
    BY <1>0, <1>all
  <2>2. /\ b \in Seq(Tokens) /\ Len(b) = (IF h <= n THEN n - h + 1 ELSE 0)
        /\ \A k \in 1 .. n - h + 1 : b[k] = s[h + k - 1]
    <3>1. h \in Int /\ n \in Int
      BY <1>0
    <3>. QED
      BY <3>1, <2>1, SubSeqProperties
  <2>. HIDE DEF b
  <2>3. n \in Int /\ h \in Int /\ h <= n + 1
    BY <1>0
  <2>4. n - h + 1 = n + 1 - h
    BY <2>3
  <2>5. Len(b) = n + 1 - h
    BY <2>2, <2>3
  <2>. QED
    BY <2>2, <2>4, <2>5
<1>. HIDE DEF a, b
<1>4. /\ a \o b \in Seq(Tokens) /\ Len(a \o b) = l + (n + 1 - h)
      /\ \A k \in 1 .. l : (a \o b)[k] = s[k]
      /\ \A k \in 1 .. n + 1 - h : (a \o b)[l + k] = b[k]
  <2>1. a \o b \in Seq(Tokens) /\ Joined(a, b, a \o b)
    BY <1>2, <1>3, JoinPlaces, Zenon
  <2>. QED
    BY <1>2, <1>3, <2>1 DEF Joined
<1>5. \A k \in l + 1 .. l + (n + 1 - h) : (a \o b)[k] = s[k + Wide(f)]
  <2>1. ASSUME NEW k \in l + 1 .. l + (n + 1 - h) PROVE (a \o b)[k] = s[k + Wide(f)]
    <3>1. /\ k \in Int /\ l < k /\ k <= l + (n + 1 - h) /\ Wide(f) \in Int
          /\ n \in Int /\ l \in Int /\ h \in Int /\ h = l + Wide(f) + 1
      BY <1>0
    <3>2. k - l \in 1 .. n + 1 - h
      BY <3>1
    <3>3. h + (k - l) - 1 = k + Wide(f) /\ l + (k - l) = k
      BY <3>1
    <3>. QED
      BY <1>3, <1>4, <3>2, <3>3
  <2>. QED
    BY <2>1
<1>6. l + (n + 1 - h) = n - Wide(f)
  <2>1. n \in Int /\ l \in Int /\ Wide(f) \in Int /\ h = l + Wide(f) + 1
    BY <1>0
  <2>. QED
    BY <2>1
<1>7. \A k \in 1 .. n - Wide(f) :
        (a \o b)[k] = IF k < i - Lead(f) THEN s[k] ELSE s[k + Wide(f)]
  <2>1. ASSUME NEW k \in 1 .. n - Wide(f)
        PROVE  (a \o b)[k] = IF k < i - Lead(f) THEN s[k] ELSE s[k + Wide(f)]
    <3>1. CASE k < i - Lead(f)
      <4>1. k \in 1 .. l
        BY <1>0, <3>1
      <4>. QED
        BY <1>4, <3>1, <4>1
    <3>2. CASE ~(k < i - Lead(f))
      <4>1. k \in l + 1 .. l + (n + 1 - h)
        BY <1>0, <1>6, <3>2
      <4>. QED
        BY <1>5, <3>2, <4>1
    <3>. QED
      BY <3>1, <3>2
  <2>. QED
    BY <2>1
<1>. QED
  BY <1>1, <1>4, <1>6, <1>7 DEF n

-----------------------------------------------------------------------------

(* In a file of instructions two blocks have two line ends of setup's        *)
(* between them, whatever the user put there, too.                          *)
Spaced(f, s) ==
  f = "CLAUDE.md" =>
    \A i \in 1 .. Len(s) : s[i] \in MarksOf("policy") \cup MarksOf("autopilot") =>
      \E k \in i + 1 .. Len(s) :
        /\ s[k] = "added"
        /\ \A j \in i + 1 .. Len(s) : s[j] \in MarksOf("policy") \cup MarksOf("autopilot") =>
             \E l \in k + 1 .. j - 1 : s[l] = "added"

LEMMA FarApart ==
  ASSUME NEW s \in Seq(Tokens), NEW b \in Blocks, NEW c \in Blocks,
         NEW i \in 1 .. Len(s), NEW j \in 1 .. Len(s), i < j, Spaced("CLAUDE.md", s),
         s[i] \in MarksOf(b), s[j] \in MarksOf(c)
  PROVE  i + 3 <= j
<1>1. /\ s[i] \in MarksOf("policy") \cup MarksOf("autopilot")
      /\ s[j] \in MarksOf("policy") \cup MarksOf("autopilot")
  BY DEF Blocks
<1>2. PICK k \in i + 1 .. Len(s) : \E l \in k + 1 .. j - 1 : s[l] = "added"
  BY <1>1 DEF Spaced
<1>. QED
  BY <1>2

LEMMA PutSpaced ==
  ASSUME NEW f \in Targets, NEW s \in Seq(Tokens), NEW b \in Blocks, Spaced(f, s)
  PROVE  Spaced(f, Put(f, s, b))
<1>. SUFFICES ASSUME f = "CLAUDE.md" PROVE Spaced(f, Put(f, s, b))
  BY DEF Spaced
<1>. DEFINE t == Put(f, s, b)
            Marks == MarksOf("policy") \cup MarksOf("autopilot")
<1>1. /\ Len(t) = Len(s) + 3 /\ \A k \in 1 .. Len(s) : t[k] = s[k]
      /\ t[Len(s) + 1] = "added" /\ t[Len(s) + 2] = b /\ t[Len(s) + 3] = "added"
      /\ Len(s) \in Nat
  BY PutPlaces
<1>2. "added" \notin Marks
  <2>1. "policy" \in Blocks /\ "autopilot" \in Blocks /\ "added" \in Ends
    BY DEF Blocks, Ends
  <2>. QED
    BY <2>1, TokenKinds
<1>. HIDE DEF t, Marks
<1>3. ASSUME NEW i \in 1 .. Len(s), t[i] \in Marks
      PROVE  \E k \in i + 1 .. Len(t) :
               /\ t[k] = "added"
               /\ \A j \in i + 1 .. Len(t) : t[j] \in Marks =>
                    \E l \in k + 1 .. j - 1 : t[l] = "added"
  <2>1. s[i] \in Marks
    BY <1>1, <1>3
  <2>2. PICK k \in i + 1 .. Len(s) :
          /\ s[k] = "added"
          /\ \A j \in i + 1 .. Len(s) : s[j] \in Marks =>
               \E l \in k + 1 .. j - 1 : s[l] = "added"
    BY <2>1 DEF Spaced, Marks
  <2>3. ASSUME NEW j \in i + 1 .. Len(t), t[j] \in Marks
        PROVE  \E l \in k + 1 .. j - 1 : t[l] = "added"
    <3>1. CASE j <= Len(s)
      <4>1. s[j] \in Marks /\ j \in i + 1 .. Len(s)
        BY <1>1, <2>3, <3>1
      <4>2. PICK l \in k + 1 .. j - 1 : s[l] = "added"
        BY <2>2, <4>1
      <4>3. l \in 1 .. Len(s)
        BY <3>1
      <4>. QED
        BY <1>1, <4>2, <4>3
    <3>2. CASE j > Len(s)
      <4>1. j = Len(s) + 2
        BY <1>1, <1>2, <2>3, <3>2
      <4>2. Len(s) + 1 \in k + 1 .. j - 1
        BY <1>1, <4>1
      <4>. QED
        BY <1>1, <4>2
    <3>. QED
      BY <3>1, <3>2
  <2>4. k \in i + 1 .. Len(t) /\ t[k] = "added"
    BY <1>1, <2>2
  <2>. QED
    BY <2>3, <2>4
<1>4. ASSUME NEW i \in 1 .. Len(t), i > Len(s), t[i] \in Marks
      PROVE  \E k \in i + 1 .. Len(t) :
               /\ t[k] = "added"
               /\ \A j \in i + 1 .. Len(t) : t[j] \in Marks =>
                    \E l \in k + 1 .. j - 1 : t[l] = "added"
  <2>1. i = Len(s) + 2
    BY <1>1, <1>2, <1>4
  <2>2. \A j \in i + 1 .. Len(t) : t[j] \notin Marks
    BY <1>1, <1>2, <2>1
  <2>3. Len(s) + 3 \in i + 1 .. Len(t)
    BY <1>1, <2>1
  <2>. QED
    BY <1>1, <2>2, <2>3
<1>5. ASSUME NEW i \in 1 .. Len(t), t[i] \in Marks
      PROVE  \E k \in i + 1 .. Len(t) :
               /\ t[k] = "added"
               /\ \A j \in i + 1 .. Len(t) : t[j] \in Marks =>
                    \E l \in k + 1 .. j - 1 : t[l] = "added"
  <2>1. i \in 1 .. Len(s) \/ i > Len(s)
    BY <1>1
  <2>. QED
    BY <1>3, <1>4, <1>5, <2>1
<1>. QED
  BY <1>5 DEF Spaced, t, Marks

LEMMA InsertSpaced ==
  ASSUME NEW f \in Targets, NEW s \in Seq(Tokens), Spaced(f, s), NEW t \in UserTokens,
         NEW i \in 0 .. Len(s)
  PROVE  Spaced(f, Insert(s, i, t))
<1>. SUFFICES ASSUME f = "CLAUDE.md" PROVE Spaced(f, Insert(s, i, t))
  BY DEF Spaced
<1>. DEFINE n == Len(s)
            u == Insert(s, i, t)
            Marks == MarksOf("policy") \cup MarksOf("autopilot")
            a == SubSeq(s, 1, i)
            T == <<t>>
            b == SubSeq(s, i + 1, n)
<1>1. /\ Len(u) = n + 1 /\ u[i + 1] = t /\ \A k \in 1 .. i : u[k] = s[k]
      /\ \A k \in i + 1 .. n : u[k + 1] = s[k]
  <2>0. n \in Nat /\ i \in Nat /\ i <= n /\ \A k \in 1 .. n : s[k] \in Tokens
    OBVIOUS
  <2>. HIDE DEF n
  <2>1. a \in Seq(Tokens) /\ Len(a) = i /\ \A k \in 1 .. i : a[k] = s[k]
    <3>1. /\ a \in Seq(Tokens) /\ Len(a) = (IF 1 <= i THEN i - 1 + 1 ELSE 0)
          /\ \A k \in 1 .. i - 1 + 1 : a[k] = s[1 + k - 1]
      <4>1. 1 \in Int /\ i \in Int /\ \A k \in 1 .. i : s[k] \in Tokens
        BY <2>0
      <4>. QED
        BY <4>1, SubSeqProperties
    <3>. HIDE DEF a
    <3>. QED
      BY <2>0, <3>1
  <2>2. b \in Seq(Tokens) /\ Len(b) = n - i /\ \A k \in 1 .. n - i : b[k] = s[i + k]
    <3>1. /\ b \in Seq(Tokens) /\ Len(b) = (IF i + 1 <= n THEN n - (i + 1) + 1 ELSE 0)
          /\ \A k \in 1 .. n - (i + 1) + 1 : b[k] = s[(i + 1) + k - 1]
      <4>1. i + 1 \in Int /\ n \in Int /\ \A k \in i + 1 .. n : s[k] \in Tokens
        BY <2>0
      <4>. QED
        BY <4>1, SubSeqProperties
    <3>. HIDE DEF b
    <3>. QED
      BY <2>0, <3>1
  <2>3. u = (a \o T) \o b
    BY DEF Insert, n
  <2>4. T \in Seq(Tokens) /\ Len(T) = 1 /\ T[1] = t
    BY TokenKinds
  <2>. HIDE DEF a, b, T, u
  <2>5. /\ a \o T \in Seq(Tokens) /\ Len(a \o T) = i + 1 /\ (a \o T)[i + 1] = t
        /\ \A k \in 1 .. i : (a \o T)[k] = s[k]
    <3>1. /\ a \o T \in Seq(Tokens) /\ Len(a \o T) = i + 1
          /\ \A k \in 1 .. i : (a \o T)[k] = a[k]
          /\ \A k \in 1 .. 1 : (a \o T)[i + k] = T[k]
      <4>1. a \o T \in Seq(Tokens) /\ Joined(a, T, a \o T)
        BY <2>1, <2>4, JoinPlaces, Zenon
      <4>. QED
        BY <2>1, <2>4, <4>1 DEF Joined
    <3>. QED
      BY <2>1, <2>4, <3>1
  <2>6. /\ Len(u) = n + 1 /\ \A k \in 1 .. i + 1 : u[k] = (a \o T)[k]
        /\ \A k \in 1 .. n - i : u[(i + 1) + k] = b[k]
    <3>1. /\ Len((a \o T) \o b) = (i + 1) + (n - i)
          /\ \A k \in 1 .. i + 1 : ((a \o T) \o b)[k] = (a \o T)[k]
          /\ \A k \in 1 .. n - i : ((a \o T) \o b)[(i + 1) + k] = b[k]
      <4>1. Joined(a \o T, b, (a \o T) \o b)
        BY <2>2, <2>5, JoinPlaces, Zenon
      <4>. QED
        BY <2>2, <2>5, <4>1 DEF Joined
    <3>2. (i + 1) + (n - i) = n + 1
      BY <2>0
    <3>. QED
      BY <2>3, <3>1, <3>2
  <2>7. ASSUME NEW k \in i + 1 .. n PROVE u[k + 1] = s[k]
    <3>1. k - i \in 1 .. n - i /\ (i + 1) + (k - i) = k + 1 /\ i + (k - i) = k
      BY <2>0
    <3>. QED
      BY <2>2, <2>6, <3>1
  <2>8. u[i + 1] = t /\ \A k \in 1 .. i : u[k] = s[k]
    <3>1. i + 1 \in 1 .. i + 1 /\ \A k \in 1 .. i : k \in 1 .. i + 1
      BY <2>0
    <3>. QED
      BY <2>5, <2>6, <3>1
  <2>. QED
    BY <2>6, <2>7, <2>8
<1>2. t # "added" /\ t \notin Marks /\ n \in Nat /\ i \in 0 .. n
  <2>1. "policy" \in Blocks /\ "autopilot" \in Blocks
    BY DEF Blocks
  <2>. QED
    BY <2>1, TokenKinds
<1>3. \A x \in 1 .. n : s[x] \in Marks =>
        \E k \in x + 1 .. n :
          /\ s[k] = "added"
          /\ \A j \in x + 1 .. n : s[j] \in Marks => \E l \in k + 1 .. j - 1 : s[l] = "added"
  BY DEF Spaced
<1>. HIDE DEF u, Marks, n
<1>. DEFINE Shift(x) == IF x <= i THEN x ELSE x + 1
            Unshift(y) == IF y <= i THEN y ELSE y - 1
<1>4. \A x \in 1 .. n : Shift(x) \in 1 .. n + 1 /\ u[Shift(x)] = s[x]
  BY <1>1, <1>2
<1>5. \A y \in 1 .. n + 1 : y # i + 1 => Unshift(y) \in 1 .. n /\ Shift(Unshift(y)) = y /\ s[Unshift(y)] = u[y]
  BY <1>1, <1>2
<1>6. /\ \A x, y \in 1 .. n : x < y => Shift(x) < Shift(y)
      /\ \A x, y \in 1 .. n + 1 : x # i + 1 /\ y # i + 1 /\ x < y => Unshift(x) < Unshift(y)
  BY <1>2
<1>. HIDE DEF Shift, Unshift
<1>7. ASSUME NEW x \in 1 .. n + 1, u[x] \in Marks
      PROVE  \E k \in x + 1 .. n + 1 :
               /\ u[k] = "added"
               /\ \A j \in x + 1 .. n + 1 : u[j] \in Marks =>
                    \E l \in k + 1 .. j - 1 : u[l] = "added"
  <2>1. x # i + 1 /\ Unshift(x) \in 1 .. n /\ Shift(Unshift(x)) = x /\ s[Unshift(x)] \in Marks
    BY <1>1, <1>2, <1>5, <1>7
  <2>2. PICK k \in Unshift(x) + 1 .. n :
          /\ s[k] = "added"
          /\ \A j \in Unshift(x) + 1 .. n : s[j] \in Marks => \E l \in k + 1 .. j - 1 : s[l] = "added"
    BY <1>3, <2>1
  <2>3. k \in 1 .. n /\ Unshift(x) < k /\ Shift(k) \in x + 1 .. n + 1 /\ u[Shift(k)] = "added"
    <3>1. k \in 1 .. n /\ Unshift(x) < k
      BY <1>2, <2>1, <2>2
    <3>2. Shift(k) \in 1 .. n + 1 /\ x < Shift(k) /\ u[Shift(k)] = "added"
      BY <1>4, <1>6, <2>1, <2>2, <3>1
    <3>. QED
      BY <1>2, <3>1, <3>2
  <2>4. ASSUME NEW j \in x + 1 .. n + 1, u[j] \in Marks
        PROVE  \E l \in Shift(k) + 1 .. j - 1 : u[l] = "added"
    <3>1. j # i + 1 /\ j \in 1 .. n + 1 /\ x < j
      <4>1. j \in 1 .. n + 1 /\ x < j
        BY <1>2
      <4>. QED
        BY <1>1, <1>2, <2>4, <4>1
    <3>2. Unshift(j) \in 1 .. n /\ Shift(Unshift(j)) = j /\ s[Unshift(j)] \in Marks /\ Unshift(x) < Unshift(j)
      BY <1>5, <1>6, <2>1, <2>4, <3>1
    <3>3. Unshift(j) \in Unshift(x) + 1 .. n
      BY <2>1, <3>2
    <3>4. PICK l \in k + 1 .. Unshift(j) - 1 : s[l] = "added"
      BY <2>2, <3>2, <3>3
    <3>5. l \in 1 .. n /\ k < l /\ l < Unshift(j)
      <4>. DEFINE o == Unshift(j)
      <4>1. o \in 1 .. n /\ k \in 1 .. n /\ l \in k + 1 .. o - 1
        BY <2>3, <3>2
      <4>. HIDE DEF o
      <4>2. l \in 1 .. n /\ k < l /\ l < o
        <5>1. k \in Int /\ o \in Int /\ n \in Int /\ 1 <= k /\ o <= n
          BY <1>2, <4>1
        <5>. QED
          BY <4>1, <5>1
      <4>. QED
        BY <4>2 DEF o
    <3>6. Shift(l) \in 1 .. n + 1 /\ Shift(k) < Shift(l) /\ Shift(l) < j /\ u[Shift(l)] = "added"
      BY <1>4, <1>6, <2>3, <3>2, <3>4, <3>5
    <3>7. Shift(l) \in Shift(k) + 1 .. j - 1
      BY <1>4, <2>3, <3>1, <3>6
    <3>. QED
      BY <3>6, <3>7
  <2>. QED
    BY <2>3, <2>4
<1>. QED
  BY <1>1, <1>7 DEF Spaced, u, Marks

LEMMA EditSpaced ==
  ASSUME NEW f \in Targets, NEW s \in Seq(Tokens), Spaced(f, s), NEW i \in DOMAIN s,
         s[i] \in Blocks
  PROVE  Spaced(f, [s EXCEPT ![i] = Edited[s[i]]])
<1>. DEFINE t == [s EXCEPT ![i] = Edited[s[i]]]
            Marks == MarksOf("policy") \cup MarksOf("autopilot")
<1>1. Len(t) = Len(s) /\ t[i] = Edited[s[i]] /\ \A j \in 1 .. Len(s) : j # i => t[j] = s[j]
  OBVIOUS
<1>2. /\ s[i] \in Marks /\ s[i] # "added" /\ t[i] \in Marks /\ t[i] # "added"
  <2>1. /\ s[i] \in MarksOf(s[i]) /\ Edited[s[i]] \in MarksOf(s[i])
        /\ MarksOf(s[i]) \cap Ends = {}
    BY TokenKinds
  <2>2. s[i] = "policy" \/ s[i] = "autopilot"
    BY DEF Blocks
  <2>. QED
    BY <1>1, <2>1, <2>2 DEF Ends
<1>. HIDE DEF t, Marks
<1>3. \A j \in 1 .. Len(s) : (t[j] \in Marks <=> s[j] \in Marks)
                             /\ (t[j] = "added" <=> s[j] = "added")
  BY <1>1, <1>2
<1>4. ASSUME f = "CLAUDE.md", NEW x \in 1 .. Len(s), t[x] \in Marks
      PROVE  \E k \in x + 1 .. Len(s) :
               /\ t[k] = "added"
               /\ \A j \in x + 1 .. Len(s) : t[j] \in Marks =>
                    \E l \in k + 1 .. j - 1 : t[l] = "added"
  <2>1. PICK k \in x + 1 .. Len(s) :
          /\ s[k] = "added"
          /\ \A j \in x + 1 .. Len(s) : s[j] \in Marks =>
               \E l \in k + 1 .. j - 1 : s[l] = "added"
    BY <1>3, <1>4 DEF Spaced, Marks
  <2>2. ASSUME NEW j \in x + 1 .. Len(s), t[j] \in Marks
        PROVE  \E l \in k + 1 .. j - 1 : t[l] = "added"
    <3>1. PICK l \in k + 1 .. j - 1 : s[l] = "added"
      BY <1>3, <2>1, <2>2
    <3>. QED
      BY <1>3, <3>1
  <2>. QED
    BY <1>3, <2>1, <2>2
<1>5. Spaced(f, t)
  BY <1>1, <1>4 DEF Spaced, Marks
<1>. QED
  BY <1>5 DEF t

LEMMA BareSpaced ==
  ASSUME NEW f \in Targets, NEW s \in Seq(Tokens), Untouched(s)
  PROVE  Spaced(f, s)
BY DEF Spaced, Untouched, Marked, MarksOf, Blocks

-----------------------------------------------------------------------------

(* A block that was put in stands there, and takes the other from its place *)
(* with all around it.                                                      *)
PutAt(f, s) == IF f = "CLAUDE.md" THEN Len(s) + 2 ELSE 1
Along(f, k) == IF f = "CLAUDE.md" THEN k ELSE k + 2

LEMMA PutStands ==
  ASSUME NEW f \in Targets, NEW s \in Seq(Tokens), NEW b \in Blocks, Marked(s, b) = {}
  PROVE  Standing(f, Put(f, s, b), b, PutAt(f, s))
<1>. DEFINE t == Put(f, s, b)
            n == Len(s)
            i == PutAt(f, s)
<1>1. t \in Seq(Tokens) /\ n \in Nat
  BY PutAdds
<1>2. \A j \in 1 .. n : s[j] \notin MarksOf(b)
  BY DEF Marked, MarksOf
<1>3. "added" \notin MarksOf(b) /\ NewLine("added")
  BY TokenKinds DEF Ends, NewLine
<1>4. CASE f = "CLAUDE.md"
  <2>1. /\ Len(t) = n + 3 /\ \A k \in 1 .. n : t[k] = s[k]
        /\ t[n + 1] = "added" /\ t[n + 2] = b /\ t[n + 3] = "added" /\ i = n + 2
    BY <1>4, PutPlaces DEF PutAt
  <2>. HIDE DEF t, n, i
  <2>2. i - 1 = n + 1 /\ i + 1 = n + 3 /\ i > 1 /\ i < Len(t) /\ i \in 1 .. Len(t)
    BY <1>1, <2>1
  <2>3. WholeLine(t, i)
    BY <1>3, <2>1, <2>2 DEF WholeLine
  <2>4. ASSUME NEW j \in 1 .. Len(t), j # i PROVE t[j] \notin MarksOf(b)
    <3>1. j \in 1 .. n \/ j = n + 1 \/ j = n + 3
      BY <1>1, <2>1, <2>4
    <3>. QED
      BY <1>2, <1>3, <2>1, <3>1 DEF n
  <2>5. Standing(f, t, b, i)
    BY <1>4, <2>1, <2>2, <2>3, <2>4 DEF Standing
  <2>. QED
    BY <2>5 DEF t, i
<1>5. CASE f # "CLAUDE.md"
  <2>1. /\ Len(t) = n + 2 /\ t[1] = b /\ t[2] = "added" /\ i = 1
        /\ \A k \in 1 .. n : t[k + 2] = s[k]
    BY <1>5, PutPlaces DEF PutAt
  <2>. HIDE DEF t, n, i
  <2>2. i + 1 = 2 /\ i < Len(t) /\ i \in 1 .. Len(t)
    BY <1>1, <2>1
  <2>3. WholeLine(t, i)
    BY <1>3, <2>1, <2>2 DEF WholeLine
  <2>4. ASSUME NEW j \in 1 .. Len(t), j # i PROVE t[j] \notin MarksOf(b)
    <3>1. CASE j = 2
      BY <1>3, <2>1, <3>1
    <3>2. CASE j # 2
      <4>1. j - 2 \in 1 .. n /\ (j - 2) + 2 = j
        BY <1>1, <2>1, <2>4, <3>2
      <4>2. t[j] = s[j - 2]
        BY <2>1, <4>1
      <4>. QED
        BY <1>2, <4>1, <4>2 DEF n
    <3>. QED
      BY <3>1, <3>2
  <2>5. Standing(f, t, b, i)
    BY <1>5, <2>1, <2>2, <2>3, <2>4 DEF Standing
  <2>. QED
    BY <2>5 DEF t, i
<1>. QED
  BY <1>4, <1>5

LEMMA PutAside ==
  ASSUME NEW f \in Targets, NEW s \in Seq(Tokens), NEW b \in Blocks, NEW i,
         Standing(f, s, Other(b), i)
  PROVE  Standing(f, Put(f, s, b), Other(b), Along(f, i))
<1>. DEFINE t == Put(f, s, b)
            n == Len(s)
            c == Other(b)
<1>1. t \in Seq(Tokens) /\ n \in Nat
  BY PutAdds
<1>2. /\ i \in 1 .. n /\ s[i] = c /\ WholeLine(s, i) /\ i < n /\ (f = "CLAUDE.md" => i > 1)
      /\ \A j \in 1 .. n : s[j] \in MarksOf(c) => j = i
  BY DEF Standing
<1>3. "added" \notin MarksOf(c) /\ b \notin MarksOf(c) /\ NewLine("added")
  BY TokenKinds DEF Ends, NewLine
<1>4. CASE f = "CLAUDE.md"
  <2>1. /\ Len(t) = n + 3 /\ \A k \in 1 .. n : t[k] = s[k]
        /\ t[n + 1] = "added" /\ t[n + 2] = b /\ t[n + 3] = "added" /\ Along(f, i) = i
    BY <1>4, PutPlaces DEF Along
  <2>. HIDE DEF t, n, c
  <2>2. i - 1 \in 1 .. n /\ i + 1 \in 1 .. n /\ i < Len(t) /\ i \in 1 .. Len(t) /\ i > 1
    BY <1>1, <1>2, <1>4, <2>1
  <2>3. NewLine(s[i - 1]) /\ NewLine(s[i + 1])
    BY <1>2, <2>2 DEF WholeLine, n
  <2>4. WholeLine(t, i) /\ t[i] = c
    BY <1>2, <2>1, <2>2, <2>3 DEF WholeLine
  <2>5. ASSUME NEW j \in 1 .. Len(t), j # i PROVE t[j] \notin MarksOf(c)
    <3>1. j \in 1 .. n \/ j = n + 1 \/ j = n + 2 \/ j = n + 3
      BY <1>1, <2>1, <2>5
    <3>. QED
      BY <1>2, <1>3, <2>1, <2>5, <3>1
  <2>6. Standing(f, t, c, i)
    BY <1>4, <2>2, <2>4, <2>5 DEF Standing
  <2>. QED
    BY <2>1, <2>6 DEF t, c
<1>5. CASE f # "CLAUDE.md"
  <2>1. /\ Len(t) = n + 2 /\ t[1] = b /\ t[2] = "added" /\ Along(f, i) = i + 2
        /\ \A k \in 1 .. n : t[k + 2] = s[k]
    BY <1>5, PutPlaces DEF Along
  <2>. HIDE DEF t, n, c
  <2>2. /\ i + 2 \in 1 .. Len(t) /\ i + 2 < Len(t) /\ i + 1 \in 1 .. n /\ (i + 2) + 1 = (i + 1) + 2
        /\ (i + 2) - 1 = i + 1
    BY <1>1, <1>2, <2>1
  <2>3. t[i + 2] = c /\ NewLine(t[(i + 2) + 1])
    <3>1. t[(i + 1) + 2] = s[i + 1] /\ t[i + 2] = s[i]
      BY <1>2, <2>1, <2>2
    <3>2. NewLine(s[i + 1])
      BY <1>2 DEF WholeLine, n
    <3>. QED
      BY <1>2, <2>2, <3>1, <3>2
  <2>4. NewLine(t[i + 1])
    <3>1. CASE i = 1
      BY <1>3, <2>1, <3>1
    <3>2. CASE i # 1
      <4>1. i > 1 /\ i - 1 \in 1 .. n /\ (i - 1) + 2 = i + 1
        BY <1>1, <1>2, <3>2
      <4>2. t[(i - 1) + 2] = s[i - 1]
        BY <2>1, <4>1
      <4>3. NewLine(s[i - 1])
        BY <1>2, <4>1 DEF WholeLine
      <4>. QED
        BY <4>1, <4>2, <4>3
    <3>. QED
      BY <3>1, <3>2
  <2>5. WholeLine(t, i + 2)
    BY <2>2, <2>3, <2>4 DEF WholeLine
  <2>6. ASSUME NEW j \in 1 .. Len(t), j # i + 2 PROVE t[j] \notin MarksOf(c)
    <3>1. CASE j = 1 \/ j = 2
      BY <1>3, <2>1, <3>1
    <3>2. CASE ~(j = 1 \/ j = 2)
      <4>1. j - 2 \in 1 .. n /\ (j - 2) + 2 = j /\ j - 2 # i
        BY <1>1, <1>2, <2>1, <2>6, <3>2
      <4>2. t[j] = s[j - 2]
        BY <2>1, <4>1
      <4>. QED
        BY <1>2, <4>1, <4>2
    <3>. QED
      BY <3>1, <3>2
  <2>7. Standing(f, t, c, i + 2)
    BY <1>5, <2>2, <2>3, <2>5, <2>6 DEF Standing
  <2>. QED
    BY <2>1, <2>7 DEF t, c
<1>. QED
  BY <1>4, <1>5

(* Where a token stands once a block before it is gone. *)
LEMMA MovedDown ==
  ASSUME NEW n \in Int, NEW m \in Int, NEW i \in Int, NEW j \in Int,
         NEW w \in Int, NEW d \in Int, m = n - w, 1 <= i, j < n, i < j, j # i + 1,
         \/ w = 3 /\ d = 1 /\ i > 1 /\ i + 3 <= j
         \/ w = 2 /\ d = 0
  PROVE  /\ j - w \in 1 .. m /\ j - w < m /\ j - w >= i - d /\ (w = 3 => j - w > 1)
         /\ (j - w) + w = j
         /\ (j - w) + 1 \in 1 .. m /\ (j - w) + 1 >= i - d
         /\ ((j - w) + 1) + w = j + 1
         /\ ~(j - w < i - d) /\ ~((j - w) + 1 < i - d)
OBVIOUS

(* Where a token stands once a block behind it is gone. *)
LEMMA NotMoved ==
  ASSUME NEW n \in Int, NEW m \in Int, NEW i \in Int, NEW j \in Int,
         NEW w \in Int, NEW d \in Int, m = n - w, 1 <= j, i < n, j < i, i # j + 1,
         \/ w = 3 /\ d = 1 /\ j + 3 <= i
         \/ w = 2 /\ d = 0
  PROVE  j < i - d /\ j + 1 < i - d /\ j \in 1 .. m /\ j < m /\ j + 1 \in 1 .. m
OBVIOUS

(* A block that is taken out leaves the other in its place. *)
LEMMA CutAside ==
  ASSUME NEW f \in Targets, NEW s \in Seq(Tokens), NEW b \in Blocks, NEW i, NEW j,
         Standing(f, s, b, i), Standing(f, s, Other(b), j), Spaced(f, s)
  PROVE  Standing(f, Cut(f, s, i), Other(b), IF j < i THEN j ELSE j - Wide(f))
<1>. DEFINE c == Other(b)
            t == Cut(f, s, i)
            n == Len(s)
            w == Wide(f)
            d == Lead(f)
            m == n - w
<1>1. /\ i \in 1 .. n /\ s[i] = b /\ i < n /\ (f = "CLAUDE.md" => i > 1) /\ n \in Nat
      /\ j \in 1 .. n /\ s[j] = c /\ j < n /\ (f = "CLAUDE.md" => j > 1)
      /\ WholeLine(s, j) /\ WholeLine(s, i)
      /\ \A k \in 1 .. n : s[k] \in MarksOf(c) => k = j
  BY DEF Standing
<1>2. t \in Seq(Tokens) /\ Len(t) = m /\ \A k \in 1 .. m : t[k] = IF k < i - d THEN s[k] ELSE s[k + w]
  BY <1>1, CutPlaces
<1>3. /\ c \in Blocks /\ b \in MarksOf(b) /\ c \in MarksOf(c) /\ b \notin Ends /\ c \notin Ends
      /\ b # c
  BY TokenKinds
<1>4. /\ \A k \in 1 .. n : k = i - 1 /\ i > 1 => s[k] \in Ends
      /\ s[i + 1] \in Ends /\ s[j + 1] \in Ends /\ (j > 1 => s[j - 1] \in Ends)
  BY <1>1 DEF WholeLine, NewLine, Ends
<1>5. i # j /\ j # i + 1 /\ i # j + 1
  BY <1>1, <1>3, <1>4
<1>6. (f = "CLAUDE.md" => w = 3 /\ d = 1) /\ (f # "CLAUDE.md" => w = 2 /\ d = 0)
  BY DEF Wide, Lead
<1>7. f = "CLAUDE.md" => (i < j => i + 3 <= j) /\ (j < i => j + 3 <= i)
  BY <1>1, <1>3, FarApart
<1>. HIDE DEF c, t, n, w, d, m
<1>8. m \in Int /\ m = n - w /\ i \in Int /\ j \in Int
  BY <1>1, <1>6 DEF m
<1>9. ASSUME NEW k \in 1 .. m, t[k] \in MarksOf(c)
      PROVE  (k < i - d /\ k = j) \/ (k >= i - d /\ k + w = j)
  <2>1. CASE k < i - d
    <3>1. k \in 1 .. n /\ t[k] = s[k]
      BY <1>2, <1>6, <1>8, <2>1, <1>1
    <3>. QED
      BY <1>1, <1>9, <2>1, <3>1
  <2>2. CASE ~(k < i - d)
    <3>1. k + w \in 1 .. n /\ t[k] = s[k + w]
      BY <1>2, <1>6, <1>8, <2>2, <1>1
    <3>2. k >= i - d
      BY <1>6, <1>8, <2>2
    <3>. QED
      BY <1>1, <1>9, <3>1, <3>2
  <2>. QED
    BY <2>1, <2>2
<1>10. CASE j < i
  <2>2. j < i - d /\ j + 1 < i - d /\ j \in 1 .. m /\ j < m /\ j + 1 \in 1 .. m
    <3>1. /\ n \in Int /\ m \in Int /\ m = n - w /\ i \in Int /\ j \in Int
          /\ 1 <= j /\ i < n /\ j < i /\ i # j + 1
      BY <1>1, <1>5, <1>8, <1>10
    <3>2. CASE f = "CLAUDE.md"
      <4>1. w = 3 /\ d = 1 /\ j + 3 <= i
        BY <1>6, <1>7, <3>1, <3>2
      <4>. QED
        BY <3>1, <4>1, NotMoved
    <3>3. CASE f # "CLAUDE.md"
      <4>1. w = 2 /\ d = 0
        BY <1>6, <3>3
      <4>. QED
        BY <3>1, <4>1, NotMoved
    <3>. QED
      BY <3>2, <3>3
  <2>3. t[j] = c /\ t[j + 1] \in Ends
    <3>1. t[j] = s[j] /\ t[j + 1] = s[j + 1]
      BY <1>2, <1>6, <1>8, <2>2
    <3>. QED
      BY <1>1, <1>4, <3>1
  <2>4. j > 1 => t[j - 1] \in Ends
    <3>1. SUFFICES ASSUME j > 1 PROVE t[j - 1] \in Ends
      OBVIOUS
    <3>2. j - 1 \in 1 .. m /\ j - 1 < i - d
      BY <1>6, <1>8, <2>2, <3>1
    <3>3. t[j - 1] = s[j - 1]
      BY <1>2, <3>2
    <3>. QED
      BY <1>4, <3>1, <3>3
  <2>5. WholeLine(t, j)
    BY <2>3, <2>4 DEF WholeLine, NewLine, Ends
  <2>6. \A k \in 1 .. Len(t) : t[k] \in MarksOf(c) => k = j
    <3>1. ASSUME NEW k \in 1 .. m, t[k] \in MarksOf(c) PROVE k = j
      <4>1. (k < i - d /\ k = j) \/ (k >= i - d /\ k + w = j)
        BY <1>9, <3>1
      <4>. QED
        BY <1>6, <1>8, <1>10, <4>1
    <3>. QED
      BY <1>2, <3>1
  <2>7. Standing(f, t, c, j)
    BY <1>1, <1>2, <2>2, <2>3, <2>5, <2>6 DEF Standing
  <2>. QED
    BY <1>10, <2>7 DEF t, c
<1>11. CASE ~(j < i)
  <2>. DEFINE p == j - w
  <2>1. /\ p \in 1 .. m /\ p < m /\ p >= i - d /\ (f = "CLAUDE.md" => p > 1) /\ p + w = j
        /\ p + 1 \in 1 .. m /\ p + 1 >= i - d /\ (p + 1) + w = j + 1
        /\ ~(p < i - d) /\ ~(p + 1 < i - d)
    <3>1. /\ n \in Int /\ m \in Int /\ m = n - w /\ i \in Int /\ j \in Int
          /\ 1 <= i /\ j < n /\ i < j /\ j # i + 1
      BY <1>1, <1>5, <1>8, <1>11
    <3>2. CASE f = "CLAUDE.md"
      <4>1. w = 3 /\ d = 1 /\ i + 3 <= j /\ i > 1
        BY <1>1, <1>6, <1>7, <3>1, <3>2
      <4>. QED
        BY <3>1, <4>1, MovedDown
    <3>3. CASE f # "CLAUDE.md"
      <4>1. w = 2 /\ d = 0
        BY <1>6, <3>3
      <4>. QED
        BY <3>1, <3>3, <4>1, MovedDown
    <3>. QED
      BY <3>2, <3>3
  <2>2. p > 1 => /\ p - 1 \in 1 .. m /\ (p - 1) + w = j - 1 /\ j > 1
                 /\ (p - 1 < i - d => p - 1 = i - 1 /\ i > 1)
    <3>1. w \in Int /\ d \in Int /\ p \in Int
      BY <1>6, <1>8
    <3>2. p > 1 => p - 1 \in 1 .. m /\ (p - 1) + w = j - 1 /\ j > 1
      BY <1>6, <1>8, <2>1, <3>1
    <3>3. CASE f = "CLAUDE.md"
      <4>1. p >= i /\ ~(p - 1 < i - d)
        BY <1>1, <1>5, <1>6, <1>7, <1>8, <1>11, <3>3
      <4>. QED
        BY <3>2, <4>1
    <3>4. CASE f # "CLAUDE.md"
      <4>1. j >= i + 2 /\ w = 2 /\ d = 0
        BY <1>5, <1>6, <1>8, <1>11, <3>4
      <4>2. p >= i
        BY <1>8, <4>1
      <4>. QED
        BY <1>8, <3>1, <3>2, <4>1, <4>2
    <3>. QED
      BY <3>3, <3>4
  <2>. HIDE DEF p
  <2>3. t[p] = c /\ t[p + 1] \in Ends
    <3>1. t[p] = s[j] /\ t[p + 1] = s[j + 1]
      BY <1>2, <2>1
    <3>. QED
      BY <1>1, <1>4, <3>1
  <2>4. p > 1 => t[p - 1] \in Ends
    <3>1. SUFFICES ASSUME p > 1 PROVE t[p - 1] \in Ends
      OBVIOUS
    <3>2. CASE p - 1 < i - d
      <4>1. t[p - 1] = s[i - 1] /\ i > 1 /\ i - 1 \in 1 .. n
        BY <1>1, <1>2, <2>2, <3>1, <3>2
      <4>. QED
        BY <1>4, <4>1
    <3>3. CASE ~(p - 1 < i - d)
      <4>1. t[p - 1] = s[j - 1] /\ j > 1
        BY <1>2, <2>2, <3>1, <3>3
      <4>. QED
        BY <1>4, <4>1
    <3>. QED
      BY <3>2, <3>3
  <2>5. WholeLine(t, p)
    BY <2>3, <2>4 DEF WholeLine, NewLine, Ends
  <2>6. \A k \in 1 .. Len(t) : t[k] \in MarksOf(c) => k = p
    <3>1. ASSUME NEW k \in 1 .. m, t[k] \in MarksOf(c) PROVE k = p
      <4>1. (k < i - d /\ k = j) \/ (k >= i - d /\ k + w = j)
        BY <1>9, <3>1
      <4>2. ~(k < i - d /\ k = j)
        BY <1>6, <1>8, <1>11
      <4>3. k \in Int /\ w \in Int /\ p \in Int
        BY <1>6, <1>8, <2>1
      <4>. QED
        BY <2>1, <4>1, <4>2, <4>3
    <3>. QED
      BY <1>2, <3>1
  <2>7. Standing(f, t, c, p)
    BY <1>2, <2>1, <2>3, <2>5, <2>6 DEF Standing
  <2>. QED
    BY <1>11, <2>7 DEF t, c, p, w
<1>. QED
  BY <1>10, <1>11

(* Taking a block out undoes putting it in, also when the other came after. *)
LEMMA CutPut ==
  ASSUME NEW f \in Targets, NEW s \in Seq(Tokens), NEW b \in Blocks
  PROVE  Cut(f, Put(f, s, b), PutAt(f, s)) = s
<1>. DEFINE t == Put(f, s, b)
            n == Len(s)
            i == PutAt(f, s)
            c == Cut(f, t, i)
<1>1. t \in Seq(Tokens) /\ n \in Nat
  BY PutAdds
<1>2. CASE f = "CLAUDE.md"
  <2>1. Len(t) = n + 3 /\ (\A k \in 1 .. n : t[k] = s[k]) /\ i = n + 2
    BY <1>2, PutPlaces DEF PutAt
  <2>. HIDE DEF t, n, i
  <2>2. i \in 1 .. Len(t) /\ i < Len(t) /\ i > 1 /\ Wide(f) = 3 /\ Lead(f) = 1
    BY <1>1, <1>2, <2>1 DEF Wide, Lead
  <2>3. /\ c \in Seq(Tokens) /\ Len(c) = Len(t) - Wide(f)
        /\ \A k \in 1 .. Len(t) - Wide(f) :
             c[k] = IF k < i - Lead(f) THEN t[k] ELSE t[k + Wide(f)]
    BY <1>1, <2>2, CutPlaces
  <2>. HIDE DEF c
  <2>4. Len(c) = n /\ \A k \in 1 .. n : c[k] = s[k]
    <3>1. Len(c) = n /\ Len(t) - Wide(f) = n
      BY <1>1, <2>1, <2>2, <2>3
    <3>2. ASSUME NEW k \in 1 .. n PROVE c[k] = s[k]
      <4>1. k < i - Lead(f)
        BY <1>1, <2>1, <2>2
      <4>2. c[k] = t[k]
        BY <2>3, <3>1, <4>1
      <4>. QED
        BY <2>1, <4>2
    <3>. QED
      BY <3>1, <3>2
  <2>5. c = s
    BY <2>3, <2>4, SeqEqual DEF n
  <2>. QED
    BY <2>5 DEF c, t, i
<1>3. CASE f # "CLAUDE.md"
  <2>1. Len(t) = n + 2 /\ (\A k \in 1 .. n : t[k + 2] = s[k]) /\ i = 1
    BY <1>3, PutPlaces DEF PutAt
  <2>. HIDE DEF t, n, i
  <2>2. i \in 1 .. Len(t) /\ i < Len(t) /\ Wide(f) = 2 /\ Lead(f) = 0
    BY <1>1, <1>3, <2>1 DEF Wide, Lead
  <2>3. /\ c \in Seq(Tokens) /\ Len(c) = Len(t) - Wide(f)
        /\ \A k \in 1 .. Len(t) - Wide(f) :
             c[k] = IF k < i - Lead(f) THEN t[k] ELSE t[k + Wide(f)]
    BY <1>1, <1>3, <2>2, CutPlaces
  <2>. HIDE DEF c
  <2>4. Len(c) = n /\ \A k \in 1 .. n : c[k] = s[k]
    <3>1. Len(c) = n /\ Len(t) - Wide(f) = n
      BY <1>1, <2>1, <2>2, <2>3
    <3>2. ASSUME NEW k \in 1 .. n PROVE c[k] = s[k]
      <4>1. ~(k < i - Lead(f))
        BY <1>1, <2>1, <2>2
      <4>2. c[k] = t[k + Wide(f)]
        BY <2>3, <3>1, <4>1
      <4>. QED
        BY <2>1, <2>2, <4>2
    <3>. QED
      BY <3>1, <3>2
  <2>5. c = s
    BY <2>3, <2>4, SeqEqual DEF n
  <2>. QED
    BY <2>5 DEF c, t, i
<1>. QED
  BY <1>2, <1>3

LEMMA CutPutPut ==
  ASSUME NEW f \in Targets, NEW s \in Seq(Tokens), NEW b \in Blocks, NEW d \in Blocks
  PROVE  Cut(f, Put(f, Put(f, s, d), b), Along(f, PutAt(f, s))) = Put(f, s, b)
<1>. DEFINE n == Len(s)
            u == Put(f, s, d)
            v == Put(f, u, b)
            t == Put(f, s, b)
            i == Along(f, PutAt(f, s))
            c == Cut(f, v, i)
<1>1. u \in Seq(Tokens) /\ t \in Seq(Tokens) /\ n \in Nat
  BY PutAdds
<1>2. v \in Seq(Tokens)
  BY <1>1, PutAdds
<1>3. CASE f = "CLAUDE.md"
  <2>1. /\ Len(u) = n + 3 /\ \A k \in 1 .. n : u[k] = s[k]
        /\ Len(t) = n + 3 /\ \A k \in 1 .. n : t[k] = s[k]
        /\ t[n + 1] = "added" /\ t[n + 2] = b /\ t[n + 3] = "added" /\ i = n + 2
    BY <1>3, PutPlaces DEF PutAt, Along
  <2>. HIDE DEF u
  <2>2. /\ Len(v) = Len(u) + 3 /\ \A k \in 1 .. Len(u) : v[k] = u[k]
        /\ v[Len(u) + 1] = "added" /\ v[Len(u) + 2] = b /\ v[Len(u) + 3] = "added"
    BY <1>1, <1>3, PutPlaces
  <2>. HIDE DEF v, t, n, i
  <2>3. /\ Len(v) = n + 6 /\ \A k \in 1 .. n : v[k] = s[k]
        /\ v[n + 4] = "added" /\ v[n + 5] = b /\ v[n + 6] = "added"
    BY <1>1, <2>1, <2>2
  <2>4. i \in 1 .. Len(v) /\ i < Len(v) /\ i > 1 /\ Wide(f) = 3 /\ Lead(f) = 1
    BY <1>1, <1>3, <2>1, <2>3 DEF Wide, Lead
  <2>5. /\ c \in Seq(Tokens) /\ Len(c) = Len(v) - Wide(f)
        /\ \A k \in 1 .. Len(v) - Wide(f) :
             c[k] = IF k < i - Lead(f) THEN v[k] ELSE v[k + Wide(f)]
    BY <1>2, <2>4, CutPlaces
  <2>. HIDE DEF c
  <2>6. Len(c) = n + 3 /\ \A k \in 1 .. n + 3 : c[k] = IF k <= n THEN v[k] ELSE v[k + 3]
    BY <1>1, <2>1, <2>3, <2>4, <2>5
  <2>7. ASSUME NEW k \in 1 .. n + 3 PROVE c[k] = t[k]
    <3>1. k \in 1 .. n \/ k = n + 1 \/ k = n + 2 \/ k = n + 3
      BY <1>1
    <3>2. CASE k \in 1 .. n
      <4>1. c[k] = v[k]
        BY <1>1, <2>6, <3>2
      <4>. QED
        BY <2>1, <2>3, <3>2, <4>1
    <3>3. CASE k \in {n + 1, n + 2, n + 3}
      <4>1. ~(k <= n) /\ (n + 1) + 3 = n + 4 /\ (n + 2) + 3 = n + 5 /\ (n + 3) + 3 = n + 6
        BY <1>1, <3>3
      <4>2. c[k] = v[k + 3]
        BY <2>6, <4>1
      <4>. QED
        BY <2>1, <2>3, <3>3, <4>1, <4>2
    <3>. QED
      BY <3>1, <3>2, <3>3
  <2>8. c = t
    BY <1>1, <2>1, <2>5, <2>6, <2>7, SeqEqual
  <2>. QED
    BY <2>8 DEF c, t, v, u, i
<1>4. CASE f # "CLAUDE.md"
  <2>1. /\ Len(u) = n + 2 /\ \A k \in 1 .. n : u[k + 2] = s[k]
        /\ Len(t) = n + 2 /\ t[1] = b /\ t[2] = "added" /\ \A k \in 1 .. n : t[k + 2] = s[k]
        /\ i = 3
    BY <1>4, PutPlaces DEF PutAt, Along
  <2>. HIDE DEF u
  <2>2. /\ Len(v) = Len(u) + 2 /\ v[1] = b /\ v[2] = "added"
        /\ \A k \in 1 .. Len(u) : v[k + 2] = u[k]
    BY <1>1, <1>4, PutPlaces
  <2>. HIDE DEF v, t, n, i
  <2>3. Len(v) = n + 4
    BY <1>1, <2>1, <2>2
  <2>4. i \in 1 .. Len(v) /\ i < Len(v) /\ Wide(f) = 2 /\ Lead(f) = 0
    BY <1>1, <1>4, <2>1, <2>3 DEF Wide, Lead
  <2>5. /\ c \in Seq(Tokens) /\ Len(c) = Len(v) - Wide(f)
        /\ \A k \in 1 .. Len(v) - Wide(f) :
             c[k] = IF k < i - Lead(f) THEN v[k] ELSE v[k + Wide(f)]
    BY <1>2, <1>4, <2>4, CutPlaces
  <2>. HIDE DEF c
  <2>6. Len(c) = n + 2 /\ \A k \in 1 .. n + 2 : c[k] = IF k < 3 THEN v[k] ELSE v[k + 2]
    BY <1>1, <2>1, <2>3, <2>4, <2>5
  <2>7. ASSUME NEW k \in 1 .. n + 2 PROVE c[k] = t[k]
    <3>1. CASE k < 3
      BY <1>1, <2>1, <2>2, <2>6, <3>1
    <3>2. CASE ~(k < 3)
      <4>1. k - 2 \in 1 .. n /\ (k - 2) + 2 = k /\ k \in 1 .. Len(u)
        BY <1>1, <2>1, <3>2
      <4>2. c[k] = v[k + 2] /\ v[k + 2] = u[k]
        BY <2>2, <2>6, <3>2, <4>1
      <4>. QED
        BY <2>1, <4>1, <4>2
    <3>. QED
      BY <3>1, <3>2
  <2>8. c = t
    BY <1>1, <2>1, <2>5, <2>6, <2>7, SeqEqual
  <2>. QED
    BY <2>8 DEF c, t, v, u, i
<1>. QED
  BY <1>3, <1>4

LEMMA RemoveIs ==
  ASSUME NEW f, NEW s \in Seq(Tokens), NEW b \in Blocks, NEW i, Standing(f, s, b, i)
  PROVE  NextText(f, s, b, "remove") = Cut(f, s, i)
<1>1. Marked(s, b) = {i}
  BY StandingManaged
<1>2. (CHOOSE j \in Marked(s, b) : TRUE) = i /\ Marked(s, b) # {}
  BY <1>1
<1>. QED
  BY <1>2 DEF NextText

(* No place of setup's own: the amounts say it, too. *)
LEMMA NoneMarked ==
  ASSUME NEW s \in Seq(Tokens), NEW b
  PROVE  Marked(s, b) = {} <=> Amount(s, MarksOf(b)) = 0
<1>1. Spots(s, MarksOf(b)) = Marked(s, b)
  BY DEF Spots, Marked, MarksOf
<1>2. IsFiniteSet(Marked(s, b))
  BY <1>1, AmountOnly
<1>. QED
  BY <1>1, <1>2, FS_EmptySet DEF Amount

LEMMA SettledSame ==
  ASSUME NEW f, NEW s, Paired(f, s), Untouched(s)
  PROVE  Settled(s, "remove") = s
<1>1. s \in Seq(Tokens) /\ "policy" \in Blocks /\ "autopilot" \in Blocks
  BY TokenKinds DEF Paired
<1>2. Amount(s, MarksOf("policy")) = 0 /\ Amount(s, MarksOf("autopilot")) = 0
  BY <1>1, NoneMarked DEF Untouched
<1>3. Amount(s, {"added"}) = 0
  BY <1>2 DEF Paired, Due
<1>4. IsFiniteSet(Spots(s, {"added"}))
  BY <1>1, AmountOnly
<1>5. Spots(s, {"added"}) = {}
  BY <1>3, <1>4, FS_EmptySet DEF Amount
<1>6. \A i \in DOMAIN s : s[i] # "added"
  BY <1>5 DEF Spots
<1>7. s = [i \in DOMAIN s |-> s[i]]
  BY <1>1
<1>. QED
  BY <1>6, <1>7 DEF Settled

(* After a removal no block is left. *)
LEMMA RemovedIsBare ==
  ASSUME NEW f \in Targets, NEW s \in Seq(Tokens), Accepts(f, s, "remove")
  PROVE  Untouched(Planned(f, s, "remove"))
<1>. DEFINE u == NextText(f, s, "policy", "remove")
            v == NextText(f, u, "autopilot", "remove")
            t == Settled(v, "remove")
<1>1. /\ "policy" \in Blocks /\ "autopilot" \in Blocks
      /\ Other("policy") = "autopilot" /\ Other("autopilot") = "policy"
      /\ Understood(f, s, "policy") /\ Understood(f, u, "autopilot")
  BY TokenKinds DEF Accepts, Other
<1>2. Planned(f, s, "remove") = t
  BY DEF Planned
<1>. HIDE DEF u
<1>3. NextTo(f, s, "policy", "remove", u)
  BY <1>1, NextKeeps DEF u
<1>4. u \in Seq(Tokens)
  BY <1>3 DEF NextTo
<1>. HIDE DEF v
<1>5. NextTo(f, u, "autopilot", "remove", v)
  BY <1>1, <1>4, NextKeeps DEF v
<1>6. /\ v \in Seq(Tokens) /\ Amount(v, MarksOf("autopilot")) = 0
      /\ Amount(v, MarksOf("policy")) = 0
  BY <1>1, <1>3, <1>5 DEF NextTo
<1>. HIDE DEF t
<1>7. /\ t \in Seq(Tokens)
      /\ \A b \in Blocks : Amount(t, MarksOf(b)) = Amount(v, MarksOf(b))
  BY <1>6, SettledKeeps DEF t
<1>8. \A b \in Blocks : Amount(t, MarksOf(b)) = 0
  BY <1>6, <1>7 DEF Blocks
<1>9. Untouched(t)
  BY <1>7, <1>8, NoneMarked DEF Untouched
<1>. QED
  BY <1>2, <1>9

(* The user has no value of his own in a text that got a block, or lost one. *)
LEMMA NoValueKept ==
  ASSUME NEW f \in Targets, NEW s \in Seq(Tokens), NEW b \in Blocks, ~OwnValue(f, s)
  PROVE  /\ ~OwnValue(f, Put(f, s, b))
         /\ \A i : Standing(f, s, b, i) => ~OwnValue(f, Cut(f, s, i))
<1>. SUFFICES ASSUME f = "config.toml"
     PROVE  /\ ~OwnValue(f, Put(f, s, b))
            /\ \A i : Standing(f, s, b, i) => ~OwnValue(f, Cut(f, s, i))
  BY DEF OwnValue
<1>0. f # "CLAUDE.md"
  OBVIOUS
<1>1. \A i \in 1 .. Len(s) : s[i] # "value"
  BY DEF OwnValue
<1>2. ~OwnValue(f, Put(f, s, b))
  <2>. DEFINE t == Put(f, s, b)
  <2>1. /\ t \in Seq(Tokens) /\ Len(t) = Len(s) + 2 /\ t[1] = b /\ t[2] = "added"
        /\ \A k \in 1 .. Len(s) : t[k + 2] = s[k]
    BY <1>0, PutPlaces
  <2>2. b # "value"
    BY DEF Blocks
  <2>. HIDE DEF t
  <2>3. ASSUME NEW k \in 1 .. Len(t) PROVE t[k] # "value"
    <3>1. CASE k = 1 \/ k = 2
      BY <2>1, <2>2, <3>1
    <3>2. CASE ~(k = 1 \/ k = 2)
      <4>1. k - 2 \in 1 .. Len(s) /\ (k - 2) + 2 = k
        BY <2>1, <3>2
      <4>. QED
        BY <1>1, <2>1, <4>1
    <3>. QED
      BY <3>1, <3>2
  <2>4. DOMAIN t = 1 .. Len(t)
    BY <2>1
  <2>. QED
    BY <2>3, <2>4 DEF OwnValue, t
<1>3. ASSUME NEW i, Standing(f, s, b, i) PROVE ~OwnValue(f, Cut(f, s, i))
  <2>. DEFINE c == Cut(f, s, i)
  <2>1. i \in 1 .. Len(s) /\ i < Len(s) /\ Wide(f) = 2 /\ Lead(f) = 0
    BY <1>0, <1>3 DEF Standing, Wide, Lead
  <2>2. /\ c \in Seq(Tokens) /\ Len(c) = Len(s) - Wide(f)
        /\ \A k \in 1 .. Len(s) - Wide(f) :
             c[k] = IF k < i - Lead(f) THEN s[k] ELSE s[k + Wide(f)]
    BY <1>0, <2>1, CutPlaces
  <2>. HIDE DEF c
  <2>3. ASSUME NEW k \in 1 .. Len(c) PROVE c[k] # "value"
    <3>1. k \in 1 .. Len(s) /\ k + 2 \in 1 .. Len(s)
      BY <2>1, <2>2
    <3>2. c[k] = s[k] \/ c[k] = s[k + 2]
      BY <2>1, <2>2
    <3>. QED
      BY <1>1, <3>1, <3>2
  <2>4. DOMAIN c = 1 .. Len(c)
    BY <2>2
  <2>. QED
    BY <2>3, <2>4 DEF OwnValue, c
<1>. QED
  BY <1>2, <1>3

(* One block's part of an installation. *)
LEMMA PutStep ==
  ASSUME NEW f \in Targets, NEW s \in Seq(Tokens), NEW b \in Blocks,
         NEW mode \in Modes \ {"remove"}, ~OwnValue(f, s), Understood(f, s, b)
  PROVE  LET n == NextText(f, s, b, mode) IN
         /\ n \in Seq(Tokens) /\ ~OwnValue(f, n) /\ Understood(f, n, b)
         /\ n = s \/ (Marked(s, b) = {} /\ n = Put(f, s, b))
         /\ Marked(n, b) # {} \/ (b = "autopilot" /\ mode = "install")
<1>. DEFINE n == NextText(f, s, b, mode)
<1>1. mode # "remove"
  OBVIOUS
<1>2. CASE Marked(s, b) # {} \/ (b = "autopilot" /\ mode = "install")
  <2>1. n = s
    BY <1>1, <1>2 DEF NextText
  <2>. QED
    BY <1>2, <2>1
<1>3. CASE ~(Marked(s, b) # {} \/ (b = "autopilot" /\ mode = "install"))
  <2>1. n = Put(f, s, b) /\ Marked(s, b) = {}
    BY <1>1, <1>3 DEF NextText
  <2>2. Put(f, s, b) \in Seq(Tokens)
    BY PutAdds
  <2>3. Standing(f, Put(f, s, b), b, PutAt(f, s))
    BY <2>1, PutStands
  <2>4. ~OwnValue(f, Put(f, s, b))
    BY NoValueKept
  <2>5. Managed(f, Put(f, s, b), b) /\ Marked(Put(f, s, b), b) # {}
    <3>1. /\ Managed(f, Put(f, s, b), b)
          /\ Marked(Put(f, s, b), b) = {PutAt(f, s)}
      BY <2>2, <2>3, StandingManaged, Zenon
    <3>. QED
      BY <3>1
  <2>. QED
    BY <2>1, <2>2, <2>4, <2>5 DEF Understood
<1>. QED
  BY <1>2, <1>3

(* What setup takes it installs once, and can take out. *)
LEMMA InstalledOnce ==
  ASSUME NEW f \in Targets, NEW s, Paired(f, s), Spaced(f, s),
         NEW mode \in Modes \ {"remove"}, Accepts(f, s, mode)
  PROVE  LET n == Planned(f, s, mode) IN
         /\ Spaced(f, n) /\ Accepts(f, n, mode) /\ Planned(f, n, mode) = n
         /\ Accepts(f, n, "remove")
         /\ Untouched(s) => Planned(f, n, "remove") = s
<1>. DEFINE P == "policy"
            A == "autopilot"
            u == NextText(f, s, P, mode)
            v == NextText(f, u, A, mode)
<1>1. /\ s \in Seq(Tokens) /\ P \in Blocks /\ A \in Blocks /\ Other(P) = A /\ Other(A) = P
      /\ mode # "remove" /\ Blocks = {P, A}
      /\ Understood(f, s, P) /\ Understood(f, u, A)
  BY TokenKinds DEF Paired, Accepts, Other
<1>2. \A t : Planned(f, t, mode) = NextText(f, NextText(f, t, P, mode), A, mode)
  BY <1>1 DEF Planned, Settled
<1>3. \A t : Planned(f, t, "remove")
               = Settled(NextText(f, NextText(f, t, P, "remove"), A, "remove"), "remove")
  BY DEF Planned
<1>4. Untouched(s) => Settled(s, "remove") = s
  BY SettledSame
<1>5. CASE OwnValue(f, s)
  <2>1. Marked(s, P) = {}
    BY <1>1, <1>5 DEF Understood
  <2>2. u = s
    BY <1>1, <1>5 DEF NextText
  <2>3. Marked(s, A) = {} /\ v = s
    BY <1>1, <1>5, <2>2 DEF Understood, NextText
  <2>4. NextText(f, s, P, "remove") = s /\ NextText(f, s, A, "remove") = s
    BY <2>1, <2>3 DEF NextText
  <2>5. Accepts(f, s, "remove")
    BY <1>1, <2>1, <2>3, <2>4 DEF Accepts, Understood
  <2>6. Planned(f, s, mode) = s /\ (Untouched(s) => Planned(f, s, "remove") = s)
    BY <1>2, <1>3, <1>4, <2>2, <2>3, <2>4
  <2>. QED
    BY <2>5, <2>6
<1>6. CASE ~OwnValue(f, s)
  <2>. HIDE DEF P, A
  <2>1. /\ u \in Seq(Tokens) /\ ~OwnValue(f, u) /\ Understood(f, u, P)
        /\ u = s \/ (Marked(s, P) = {} /\ u = Put(f, s, P))
        /\ Marked(u, P) # {}
    <3>1. P # "autopilot"
      BY DEF P
    <3>. QED
      BY <1>1, <1>6, <3>1, PutStep
  <2>. HIDE DEF u
  <2>2. /\ v \in Seq(Tokens) /\ ~OwnValue(f, v) /\ Understood(f, v, A)
        /\ v = u \/ (Marked(u, A) = {} /\ v = Put(f, u, A))
        /\ Marked(v, A) # {} \/ mode = "install"
    BY <1>1, <2>1, PutStep
  <2>. HIDE DEF v
  <2>3. PICK i : Standing(f, u, P, i)
    BY <1>1, <2>1, StandingManaged DEF Understood
  <2>4. PICK j : Standing(f, v, P, j)
    <3>1. CASE v = u
      BY <2>3, <3>1
    <3>2. CASE v = Put(f, u, A)
      BY <1>1, <2>1, <2>3, <3>2, PutAside
    <3>. QED
      BY <2>2, <3>1, <3>2
  <2>5. Spaced(f, v)
    <3>1. Spaced(f, u)
      BY <1>1, <2>1, PutSpaced
    <3>. QED
      BY <1>1, <2>1, <2>2, <3>1, PutSpaced
  <2>6. Managed(f, v, P) /\ Marked(v, P) # {} /\ Understood(f, v, P)
    <3>1. Managed(f, v, P) /\ Marked(v, P) = {j}
      BY <1>1, <2>2, <2>4, StandingManaged
    <3>. QED
      BY <2>2, <3>1 DEF Understood
  <2>7. NextText(f, v, P, mode) = v /\ NextText(f, v, A, mode) = v
    <3>1. NextText(f, v, P, mode) = v
      BY <1>1, <2>6 DEF NextText
    <3>2. CASE Marked(v, A) # {}
      BY <1>1, <3>1, <3>2 DEF NextText
    <3>3. CASE mode = "install"
      BY <1>1, <3>1, <3>3 DEF NextText, A
    <3>. QED
      BY <2>2, <3>1, <3>2, <3>3
  <2>8. Accepts(f, v, mode)
    BY <2>2, <2>6, <2>7 DEF Accepts, P, A
  <2>. DEFINE w == Cut(f, v, j)
  <2>9. NextText(f, v, P, "remove") = w
    BY <1>1, <2>2, <2>4, RemoveIs
  <2>10. ~OwnValue(f, w)
    BY <1>1, <2>2, <2>4, NoValueKept
  <2>11. w \in Seq(Tokens) /\ Amount(w, MarksOf(A)) = Amount(v, MarksOf(A))
    <3>1. j \in Marked(v, P) /\ Managed(f, v, P)
      BY <1>1, <2>2, <2>4, StandingManaged
    <3>2. CutTo(f, v, P, w)
      BY <1>1, <2>2, <3>1, CutDrops
    <3>. QED
      BY <1>1, <3>2 DEF CutTo
  <2>. HIDE DEF w
  <2>12. Understood(f, w, A)
    <3>1. CASE Marked(v, A) = {}
      <4>1. Marked(w, A) = {}
        BY <2>2, <2>11, <3>1, NoneMarked
      <4>. QED
        BY <4>1 DEF Understood
    <3>2. CASE Marked(v, A) # {}
      <4>1. PICK k : Standing(f, v, A, k)
        BY <1>1, <2>2, <3>2, StandingManaged DEF Understood
      <4>2. Standing(f, w, A, IF k < j THEN k ELSE k - Wide(f))
        BY <1>1, <2>2, <2>4, <2>5, <4>1, CutAside DEF w
      <4>3. Managed(f, w, A)
        BY <1>1, <2>11, <4>2, StandingManaged
      <4>. QED
        BY <2>10, <4>3 DEF Understood
    <3>. QED
      BY <3>1, <3>2
  <2>13. Accepts(f, v, "remove")
    BY <2>6, <2>9, <2>12 DEF Accepts, P, A
  <2>14. ASSUME Untouched(s) PROVE Planned(f, v, "remove") = s
    <3>1. Marked(s, P) = {} /\ Marked(s, A) = {}
      BY <1>1, <2>14 DEF Untouched
    <3>2. u = Put(f, s, P) /\ Standing(f, u, P, PutAt(f, s))
      BY <1>1, <2>1, <3>1, PutStands
    <3>3. CASE v = u
      <4>1. NextText(f, v, P, "remove") = s
        BY <1>1, <2>1, <3>2, <3>3, RemoveIs, CutPut
      <4>2. NextText(f, s, A, "remove") = s
        BY <3>1 DEF NextText
      <4>. QED
        BY <1>3, <1>4, <2>14, <4>1, <4>2
    <3>4. CASE v # u
      <4>1. v = Put(f, u, A)
        BY <2>2, <3>4
      <4>2. Standing(f, v, P, Along(f, PutAt(f, s)))
        BY <1>1, <2>1, <3>2, <4>1, PutAside
      <4>3. NextText(f, v, P, "remove") = Cut(f, v, Along(f, PutAt(f, s)))
        BY <1>1, <2>2, <4>2, RemoveIs
      <4>4. Cut(f, v, Along(f, PutAt(f, s))) = Put(f, s, A)
        BY <1>1, <3>2, <4>1, CutPutPut
      <4>5. Standing(f, Put(f, s, A), A, PutAt(f, s)) /\ Put(f, s, A) \in Seq(Tokens)
        BY <1>1, <3>1, PutStands, PutAdds
      <4>6. NextText(f, Put(f, s, A), A, "remove") = s
        BY <1>1, <4>5, RemoveIs, CutPut
      <4>. QED
        BY <1>3, <1>4, <2>14, <4>3, <4>4, <4>6
    <3>. QED
      BY <3>3, <3>4
  <2>15. Planned(f, s, mode) = v /\ Planned(f, v, mode) = v
    BY <1>2, <2>7 DEF u, v
  <2>. QED
    BY <2>5, <2>8, <2>13, <2>14, <2>15
<1>. QED
  BY <1>5, <1>6

LEMMA RoundTrip ==
  ASSUME NEW f \in Targets, NEW s, Paired(f, s), Spaced(f, s),
         NEW mode \in Modes \ {"remove"}, Accepts(f, s, mode)
  PROVE  LET settled == Planned(f, s, mode)
             bare == Planned(f, settled, "remove")
         IN /\ Accepts(f, settled, mode) /\ Planned(f, settled, mode) = settled
            /\ Accepts(f, settled, "remove")
            /\ Untouched(bare) /\ SameOwn(bare, s)
            /\ Untouched(s) => bare = s
<1>. DEFINE settled == Planned(f, s, mode)
            bare == Planned(f, settled, "remove")
<1>1. /\ Accepts(f, settled, mode) /\ Planned(f, settled, mode) = settled
      /\ Accepts(f, settled, "remove") /\ (Untouched(s) => bare = s)
  BY InstalledOnce
<1>2. mode \in Modes /\ "remove" \in Modes
  BY DEF Modes
<1>3. /\ Paired(f, settled) /\ Only(settled, Own) = Only(s, Own)
      /\ Amount(settled, {"newline"}) = Amount(s, {"newline"})
  BY <1>2, PlannedKeeps
<1>. HIDE DEF settled
<1>4. /\ Paired(f, bare) /\ Only(bare, Own) = Only(settled, Own)
      /\ Amount(bare, {"newline"}) = Amount(settled, {"newline"})
  BY <1>1, <1>2, <1>3, PlannedKeeps
<1>5. Untouched(bare)
  BY <1>1, <1>3, RemovedIsBare DEF Paired
<1>. HIDE DEF bare
<1>6. SameOwn(bare, s)
  BY <1>3, <1>4, SameOwnIs
<1>. QED
  BY <1>1, <1>5, <1>6 DEF settled, bare

(* Two blocks are never less apart than setup put them, in the files and in  *)
(* what is to be written to them.                                           *)
SpacedInv ==
  /\ \A f \in Targets : Spaced(f, text[f])
  /\ \A p \in Setups, f \in Targets : Spaced(f, planned[p][f].next)

LEMMA PlanSpaced ==
  ASSUME NEW f \in Targets, NEW s, Paired(f, s), Spaced(f, s), NEW mode \in Modes,
         Accepts(f, s, mode)
  PROVE  Spaced(f, Planned(f, s, mode))
<1>1. CASE mode = "remove"
  <2>1. s \in Seq(Tokens)
    BY DEF Paired
  <2>2. Untouched(Planned(f, s, mode))
    BY <1>1, <2>1, RemovedIsBare
  <2>3. Planned(f, s, mode) \in Seq(Tokens)
    BY PlannedKeeps DEF Paired
  <2>. QED
    BY <2>2, <2>3, BareSpaced
<1>2. CASE mode # "remove"
  BY <1>2, InstalledOnce
<1>. QED
  BY <1>1, <1>2

LEMMA EmptySpaced == ASSUME NEW f \in Targets PROVE Spaced(f, << >>)
<1>1. Len(<< >>) = 0
  OBVIOUS
<1>. QED
  BY <1>1 DEF Spaced

LEMMA SpacedKept == SetupInv /\ SpacedInv /\ [SetupNext]_setupVars => SpacedInv'
<1>. SUFFICES ASSUME SetupInv, SpacedInv, [SetupNext]_setupVars PROVE SpacedInv'
  OBVIOUS
<1>1. /\ text \in [Targets -> Seq(Tokens)]
      /\ planned \in [Setups -> [Targets -> [was : Seq(Tokens), next : Seq(Tokens)]]]
      /\ \A f \in Targets : Paired(f, text[f]) /\ Spaced(f, text[f])
      /\ \A p \in Setups, f \in Targets : Spaced(f, planned[p][f].next)
  BY DEF SetupInv, SetupTypeOK, SpacedInv
<1>2. ASSUME NEW p \in Setups, Return(p), text' = text PROVE SpacedInv'
  <2>1. /\ planned'[p] = NoPlan /\ \A q \in Setups : q # p => planned'[q] = planned[q]
    BY <1>1, <1>2 DEF Return
  <2>2. \A f \in Targets : Spaced(f, NoPlan[f].next)
    BY EmptySpaced DEF NoPlan
  <2>. QED
    BY <1>1, <1>2, <2>1, <2>2 DEF SpacedInv
<1>3. ASSUME NEW p \in Setups, NEW mode \in Modes, PlanTargets(p, mode) PROVE SpacedInv'
  <2>. DEFINE drawn == [f \in Targets |-> [was |-> text[f], next |-> Planned(f, text[f], mode)]]
  <2>1. planned' = [planned EXCEPT ![p] = drawn] /\ text' = text
    BY <1>3 DEF PlanTargets
  <2>2. \A f \in Targets : Spaced(f, Planned(f, text[f], mode))
    <3>1. \A f \in Targets : Accepts(f, text[f], mode)
      BY <1>3 DEF PlanTargets
    <3>. QED
      BY <1>1, <3>1, PlanSpaced
  <2>3. \A f \in Targets : drawn[f].next = Planned(f, text[f], mode)
    OBVIOUS
  <2>. HIDE DEF drawn
  <2>4. planned'[p] = drawn /\ \A q \in Setups : q # p => planned'[q] = planned[q]
    BY <1>1, <2>1
  <2>5. ASSUME NEW q \in Setups, NEW f \in Targets PROVE Spaced(f, planned'[q][f].next)
    BY <1>1, <2>2, <2>3, <2>4
  <2>. QED
    BY <1>1, <2>1, <2>5 DEF SpacedInv
<1>4. ASSUME NEW p \in Setups, CompareTarget(p) PROVE SpacedInv'
  <2>1. text' = text
    BY <1>4 DEF CompareTarget
  <2>2. Return(p) \/ planned' = planned
    BY <1>4 DEF CompareTarget, ToNext
  <2>. QED
    BY <1>1, <1>2, <2>1, <2>2 DEF SpacedInv
<1>5. ASSUME NEW p \in Setups, Replace(p) PROVE SpacedInv'
  <2>. DEFINE f == Order[stage[p].pos]
  <2>1. stage[p].replacing /\ f \in Targets
    BY <1>5, OrderIs DEF Replace, SetupInv
  <2>. HIDE DEF f
  <2>2. text' = [text EXCEPT ![f] = planned[p][f].next] /\ ToNext(p)
    BY <1>5 DEF Replace, f
  <2>3. \A g \in Targets : Spaced(g, text'[g])
    BY <1>1, <2>1, <2>2
  <2>4. \A q \in Setups : planned'[q] = planned[q] \/ planned'[q] = NoPlan
    BY <1>1, <2>2 DEF ToNext, Return
  <2>5. \A g \in Targets : Spaced(g, NoPlan[g].next)
    BY EmptySpaced DEF NoPlan
  <2>6. ASSUME NEW q \in Setups, NEW g \in Targets PROVE Spaced(g, planned'[q][g].next)
    BY <1>1, <2>4, <2>5
  <2>. QED
    BY <2>3, <2>6 DEF SpacedInv
<1>6. ASSUME NEW p \in Setups, BreakOff(p) PROVE SpacedInv'
  BY <1>2, <1>6 DEF BreakOff
<1>7. ASSUME NEW f \in Targets, UserEdits(f) PROVE SpacedInv'
  <2>1. planned' = planned
    BY <1>7 DEF UserEdits
  <2>2. PICK new : text' = [text EXCEPT ![f] = new] /\ Spaced(f, new)
    <3>1. CASE \E t \in UserTokens, i \in 0 .. Len(text[f]) :
                 text' = [text EXCEPT ![f] = Insert(@, i, t)]
      <4>1. PICK t \in UserTokens, i \in 0 .. Len(text[f]) :
              text' = [text EXCEPT ![f] = Insert(text[f], i, t)]
        BY <3>1
      <4>2. Spaced(f, Insert(text[f], i, t))
        BY <1>1, InsertSpaced
      <4>. QED
        BY <4>1, <4>2
    <3>2. CASE \E i \in DOMAIN text[f] : /\ text[f][i] \in Blocks
                                       /\ text' = [text EXCEPT ![f][i] = Edited[text[f][i]]]
      <4>1. PICK i \in DOMAIN text[f] : /\ text[f][i] \in Blocks
                                       /\ text' = [text EXCEPT ![f][i] = Edited[text[f][i]]]
        BY <3>2
      <4>2. Spaced(f, [text[f] EXCEPT ![i] = Edited[text[f][i]]])
        BY <1>1, <4>1, EditSpaced
      <4>3. text' = [text EXCEPT ![f] = [text[f] EXCEPT ![i] = Edited[text[f][i]]]]
        BY <4>1
      <4>. QED
        BY <4>2, <4>3
    <3>. QED
      BY <1>7, <3>1, <3>2 DEF UserEdits
  <2>3. \A g \in Targets : Spaced(g, text'[g])
    BY <1>1, <2>2
  <2>. QED
    BY <1>1, <2>1, <2>3 DEF SpacedInv
<1>8. ASSUME UNCHANGED setupVars \/ \E p \in Setups : BackUp(p) PROVE SpacedInv'
  <2>1. UNCHANGED <<text, planned>>
    BY <1>8 DEF setupVars, BackUp
  <2>. QED
    BY <2>1 DEF SpacedInv
<1>. QED
  BY <1>3, <1>4, <1>5, <1>6, <1>7, <1>8 DEF SetupNext

LEMMA SpacedStarts == SetupInit => SpacedInv
<1>. SUFFICES ASSUME SetupInit PROVE SpacedInv
  OBVIOUS
<1>1. ASSUME NEW f \in Targets PROVE Spaced(f, text[f])
  <2>1. text[f] \in Seq(UserTokens)
    BY SetupAssumption DEF SetupInit
  <2>2. text[f] \in Seq(Tokens) /\ \A i \in DOMAIN text[f] : text[f][i] \in UserTokens
    BY <2>1, TokenKinds
  <2>3. Untouched(text[f])
    <3>1. \A b \in Blocks : MarksOf(b) \cap UserTokens = {}
      BY TokenKinds
    <3>. QED
      BY <2>2, <3>1 DEF Untouched, Marked, MarksOf
  <2>. QED
    BY <2>2, <2>3, BareSpaced
<1>2. ASSUME NEW p \in Setups, NEW f \in Targets PROVE Spaced(f, planned[p][f].next)
  <2>1. planned[p][f].next = << >>
    BY DEF SetupInit, NoPlan
  <2>. QED
    BY <2>1, EmptySpaced
<1>. QED
  BY <1>1, <1>2 DEF SpacedInv

LEMMA RoundTripsNow == SetupInv /\ SpacedInv => InstallRoundTrips
<1>. SUFFICES ASSUME SetupInv, SpacedInv, NEW f \in Targets, NEW mode \in Modes \ {"remove"},
                     Accepts(f, text[f], mode)
     PROVE  LET settled == Planned(f, text[f], mode)
                bare == Planned(f, settled, "remove")
            IN /\ Accepts(f, settled, mode) /\ Planned(f, settled, mode) = settled
               /\ Accepts(f, settled, "remove")
               /\ Untouched(bare) /\ SameOwn(bare, text[f])
               /\ Untouched(text[f]) => bare = text[f]
  BY DEF InstallRoundTrips
<1>1. Paired(f, text[f]) /\ Spaced(f, text[f])
  BY DEF SetupInv, SpacedInv
<1>. QED
  BY <1>1, RoundTrip

(* Whatever setups, interruptions and the user make of the files: what setup *)
(* takes it installs once, and takes out again without a trace (setup).      *)
THEOREM InstallsRoundTrip == SetupSpec => []InstallRoundTrips
BY SetupStarts, SetupKept, SpacedStarts, SpacedKept, RoundTripsNow, PTL DEF SetupSpec

-----------------------------------------------------------------------------
(* Init: one block in its frame of the user's lines.                       *)

Front(s, l) == SubSeq(s, 1, l - 1)
Back(s, h) == SubSeq(s, h + 1, Len(s))

LEMMA FrontBack ==
  ASSUME NEW X, NEW s \in Seq(X), NEW l \in 1 .. Len(s) + 1, NEW h \in 0 .. Len(s)
  PROVE  /\ Front(s, l) \in Seq(X) /\ Len(Front(s, l)) = l - 1
         /\ \A k \in 1 .. l - 1 : Front(s, l)[k] = s[k]
         /\ Back(s, h) \in Seq(X) /\ Len(Back(s, h)) = Len(s) - h
         /\ \A k \in 1 .. Len(s) - h : Back(s, h)[k] = s[h + k]
<1>. DEFINE n == Len(s)
            m == l - 1
            p == h + 1
            a == SubSeq(s, 1, m)
            b == SubSeq(s, p, n)
<1>0. n \in Nat /\ m \in Nat /\ m <= n /\ h \in Nat /\ h <= n /\ p = h + 1
      /\ \A k \in 1 .. n : s[k] \in X
  OBVIOUS
<1>1. Front(s, l) = a /\ Back(s, h) = b
  BY DEF Front, Back
<1>. HIDE DEF n, m, p
<1>2. a \in Seq(X) /\ Len(a) = m /\ \A k \in 1 .. m : a[k] = s[k]
  <2>1. \A k \in 1 .. m : s[k] \in X
    BY <1>0
  <2>2. /\ a \in Seq(X) /\ Len(a) = (IF 1 <= m THEN m - 1 + 1 ELSE 0)
        /\ \A k \in 1 .. m - 1 + 1 : a[k] = s[1 + k - 1]
    <3>1. 1 \in Int /\ m \in Int
      BY <1>0
    <3>. QED
      BY <3>1, <2>1, SubSeqProperties
  <2>. HIDE DEF a
  <2>. QED
    BY <1>0, <2>2
<1>3. b \in Seq(X) /\ Len(b) = n - h /\ \A k \in 1 .. n - h : b[k] = s[h + k]
  <2>1. \A k \in p .. n : s[k] \in X
    BY <1>0
  <2>2. /\ b \in Seq(X) /\ Len(b) = (IF p <= n THEN n - p + 1 ELSE 0)
        /\ \A k \in 1 .. n - p + 1 : b[k] = s[p + k - 1]
    <3>1. p \in Int /\ n \in Int
      BY <1>0
    <3>. QED
      BY <3>1, <2>1, SubSeqProperties
  <2>. HIDE DEF b
  <2>. QED
    BY <1>0, <2>2
<1>. QED
  BY <1>1, <1>2, <1>3 DEF m, n

LEMMA SplicedIs ==
  ASSUME NEW s, NEW l, NEW h, NEW new
  PROVE  Spliced(s, l, h, new) = (Front(s, l) \o new) \o Back(s, h)
BY DEF Spliced, Front, Back

LEMMA SplicedTyped ==
  ASSUME NEW X, NEW s \in Seq(X), NEW l \in 1 .. Len(s) + 1, NEW h \in 0 .. Len(s),
         NEW new \in Seq(X)
  PROVE  Spliced(s, l, h, new) \in Seq(X)
<1>1. Front(s, l) \in Seq(X) /\ Back(s, h) \in Seq(X)
  BY FrontBack
<1>2. Front(s, l) \o new \in Seq(X)
  BY <1>1, JoinPlaces, Zenon
<1>3. (Front(s, l) \o new) \o Back(s, h) \in Seq(X)
  BY <1>1, <1>2, JoinPlaces, Zenon
<1>. QED
  BY <1>3, SplicedIs, Zenon

Markers == {"v1", "v2", "end"}

LEMMA RenderedAre == Rendered \subseteq Lines
BY DEF Lines

LEMMA UsersAre == UserLines \subseteq Lines
BY DEF Lines

LEMMA StartIs == "v2" \in Lines
BY DEF Lines

LEMMA EndIs == "end" \in Lines
BY DEF Lines

LEMMA RenderedPlain == \A r \in Rendered : r \notin Markers
BY DEF Rendered, Markers

LEMMA BlockLines ==
  ASSUME NEW r \in Rendered
  PROVE  /\ Block(r) \in Seq(Lines) /\ Len(Block(r)) = 3
         /\ Block(r)[1] = "v2" /\ Block(r)[2] = r /\ Block(r)[3] = "end"
<1>1. r \in Lines /\ "v2" \in Lines /\ "end" \in Lines
  BY RenderedAre, StartIs, EndIs
<1>. QED
  BY <1>1 DEF Block

(* Lines of the user, or of nobody any more. *)
Plain(a) == a \in Seq(Lines) /\ \A k \in 1 .. Len(a) : a[k] \notin Markers

(* One block between two such parts. *)
Framed(t, a, r, b) == Plain(a) /\ Plain(b) /\ r \in Rendered /\ t = (a \o Block(r)) \o b

LEMMA FramedLines ==
  ASSUME NEW t, NEW a, NEW r, NEW b, Framed(t, a, r, b)
  PROVE  /\ t \in Seq(Lines) /\ Len(t) = Len(a) + Len(b) + 3
         /\ Front(t, Len(a) + 1) = a /\ Back(t, Len(a) + 3) = b
         /\ Lined(t, "v2") = {Len(a) + 1} /\ Lined(t, "end") = {Len(a) + 3}
         /\ Lined(t, "v1") = {}
<1>. DEFINE m == Len(a)
            n == Len(b)
            B == Block(r)
            u == a \o B
<1>1. /\ a \in Seq(Lines) /\ b \in Seq(Lines) /\ r \in Rendered /\ t = u \o b
      /\ m \in Nat /\ n \in Nat
      /\ (\A k \in 1 .. m : a[k] \notin Markers) /\ \A k \in 1 .. n : b[k] \notin Markers
  <2>1. Plain(a) /\ Plain(b) /\ r \in Rendered /\ t = u \o b
    BY DEF Framed
  <2>2. a \in Seq(Lines) /\ \A k \in 1 .. Len(a) : a[k] \notin Markers
    BY <2>1 DEF Plain
  <2>3. b \in Seq(Lines) /\ \A k \in 1 .. Len(b) : b[k] \notin Markers
    BY <2>1 DEF Plain
  <2>4. Len(a) \in Nat /\ Len(b) \in Nat
    BY <2>2, <2>3
  <2>. QED
    BY <2>1, <2>2, <2>3, <2>4
<1>2. B \in Seq(Lines) /\ Len(B) = 3 /\ B[1] = "v2" /\ B[2] = r /\ B[3] = "end"
      /\ r \notin Markers
  <2>1. /\ Block(r) \in Seq(Lines) /\ Len(Block(r)) = 3
        /\ Block(r)[1] = "v2" /\ Block(r)[2] = r /\ Block(r)[3] = "end"
    BY <1>1, BlockLines, Zenon
  <2>2. r \notin Markers
    BY <1>1, RenderedPlain, Zenon
  <2>. QED
    BY <2>1, <2>2
<1>. HIDE DEF B
<1>3. u \in Seq(Lines) /\ Joined(a, B, u)
  BY <1>1, <1>2, JoinPlaces, Zenon
<1>4. /\ Len(u) = m + 3 /\ \A k \in 1 .. m : u[k] = a[k]
      /\ u[m + 1] = "v2" /\ u[m + 2] = r /\ u[m + 3] = "end"
  <2>1. 1 \in 1 .. Len(B) /\ 2 \in 1 .. Len(B) /\ 3 \in 1 .. Len(B)
    BY <1>2
  <2>. QED
    BY <1>2, <1>3, <2>1 DEF Joined
<1>. HIDE DEF u
<1>5. t \in Seq(Lines) /\ Joined(u, b, t)
  BY <1>1, <1>3, JoinPlaces, Zenon
<1>6. /\ Len(t) = m + n + 3 /\ \A k \in 1 .. m : t[k] = a[k]
      /\ t[m + 1] = "v2" /\ t[m + 2] = r /\ t[m + 3] = "end"
      /\ \A k \in 1 .. n : t[m + 3 + k] = b[k]
  <2>1. m + 1 \in 1 .. Len(u) /\ m + 2 \in 1 .. Len(u) /\ m + 3 \in 1 .. Len(u)
        /\ \A k \in 1 .. m : k \in 1 .. Len(u)
    BY <1>1, <1>4
  <2>2. /\ Len(t) = Len(u) + n /\ \A k \in 1 .. Len(u) : t[k] = u[k]
        /\ \A k \in 1 .. n : t[Len(u) + k] = b[k]
    BY <1>5 DEF Joined
  <2>. QED
    BY <1>1, <1>4, <2>1, <2>2
<1>. HIDE DEF m, n
<1>7. Front(t, m + 1) = a
  <2>. DEFINE l == m + 1
              c == Front(t, l)
  <2>1. l \in 1 .. Len(t) + 1 /\ 0 \in 0 .. Len(t) /\ l - 1 = m
    BY <1>1, <1>6
  <2>2. c \in Seq(Lines) /\ Len(c) = l - 1 /\ \A k \in 1 .. l - 1 : c[k] = t[k]
    <3>. HIDE DEF l
    <3>. QED
      BY <1>5, <2>1, FrontBack
  <2>. HIDE DEF c
  <2>3. Len(c) = Len(a) /\ \A k \in 1 .. Len(c) : c[k] = a[k]
    BY <1>6, <2>1, <2>2 DEF m
  <2>4. c = a
    BY <1>1, <2>2, <2>3, SeqEqual
  <2>. QED
    BY <2>4 DEF c
<1>8. Back(t, m + 3) = b
  <2>. DEFINE h == m + 3
              c == Back(t, h)
  <2>1. h \in 0 .. Len(t) /\ 1 \in 1 .. Len(t) + 1 /\ Len(t) - h = n
    BY <1>1, <1>6
  <2>2. c \in Seq(Lines) /\ Len(c) = Len(t) - h /\ \A k \in 1 .. Len(t) - h : c[k] = t[h + k]
    <3>. HIDE DEF h
    <3>. QED
      BY <1>5, <2>1, FrontBack
  <2>. HIDE DEF c
  <2>3. Len(c) = Len(b) /\ \A k \in 1 .. Len(c) : c[k] = b[k]
    BY <1>6, <2>1, <2>2 DEF n
  <2>4. c = b
    BY <1>1, <2>2, <2>3, SeqEqual
  <2>. QED
    BY <2>4 DEF c
<1>9. ASSUME NEW k \in 1 .. Len(t), k # m + 1, k # m + 3 PROVE t[k] \notin Markers
  <2>1. CASE k \in 1 .. m
    BY <1>1, <1>6, <2>1
  <2>2. CASE k = m + 2
    BY <1>2, <1>6, <2>2
  <2>3. CASE k > m + 3
    <3>1. k - (m + 3) \in 1 .. n /\ m + 3 + (k - (m + 3)) = k
      BY <1>1, <1>6, <2>3
    <3>2. t[k] = b[k - (m + 3)]
      BY <1>6, <3>1
    <3>. QED
      BY <1>1, <3>1, <3>2
  <2>. QED
    BY <1>1, <1>6, <1>9, <2>1, <2>2, <2>3
<1>10. DOMAIN t = 1 .. Len(t) /\ m + 1 \in 1 .. Len(t) /\ m + 3 \in 1 .. Len(t) /\ m + 1 # m + 3
  BY <1>1, <1>5, <1>6
<1>11. Lined(t, "v2") = {m + 1} /\ Lined(t, "end") = {m + 3} /\ Lined(t, "v1") = {}
  BY <1>6, <1>9, <1>10 DEF Lined, Markers
<1>. QED
  BY <1>5, <1>6, <1>7, <1>8, <1>11 DEF m, n

LEMMA TheOne == \A i : The({i}) = i
BY DEF The

(* Such a text is clear, and another block comes into the same place. *)
LEMMA FramedAgain ==
  ASSUME NEW t, NEW a, NEW r, NEW b, Framed(t, a, r, b)
  PROVE  /\ Clear(t) /\ HasBlock(t) /\ ~HasLegacy(t)
         /\ \A q : Upserted(t, q) = (a \o Block(q)) \o b
         /\ Outside(t) = Users(a \o b)
<1>1. /\ t \in Seq(Lines) /\ Front(t, Len(a) + 1) = a /\ Back(t, Len(a) + 3) = b
      /\ Lined(t, "v2") = {Len(a) + 1} /\ Lined(t, "end") = {Len(a) + 3}
      /\ Lined(t, "v1") = {}
  BY FramedLines
<1>2. HasBlock(t) /\ ~HasLegacy(t)
  BY <1>1 DEF HasBlock, HasLegacy
<1>3. The(Lined(t, "v2")) = Len(a) + 1 /\ The(Lined(t, "end")) = Len(a) + 3
  BY <1>1, TheOne
<1>4. Len(a) \in Nat /\ a \in Seq(Lines) /\ b \in Seq(Lines)
  BY DEF Framed, Plain
<1>5. Clear(t)
  <2>1. \A i : Cardinality({i}) = 1
    BY FS_Singleton
  <2>2. Cardinality(Lined(t, "v2")) = 1 /\ Cardinality(Lined(t, "end")) = 1
    BY <1>1, <2>1
  <2>. QED
    BY <1>2, <1>3, <1>4, <2>2 DEF Clear
<1>6. ASSUME NEW q PROVE Upserted(t, q) = (a \o Block(q)) \o b
  BY <1>1, <1>2, <1>3, SplicedIs DEF Upserted
<1>7. Outside(t) = Users(a \o b)
  <2>1. Outside(t) = Users((a \o << >>) \o b)
    BY <1>1, <1>2, <1>3, SplicedIs DEF Outside
  <2>2. a \o << >> = a
    BY <1>4, ConcatEmptySeq
  <2>. QED
    BY <2>1, <2>2
<1>. QED
  BY <1>2, <1>5, <1>6, <1>7

(* The old block ends behind its heading and in the text. *)
LEMMA LegacyEnds ==
  ASSUME NEW s \in Seq(Lines), Clear(s), HasLegacy(s)
  PROVE  \E i \in 1 .. Len(s) : /\ Lined(s, "v1") = {i}
                                /\ LegacyEnd(s) \in i .. Len(s)
<1>1. ~HasBlock(s) /\ Cardinality(Lined(s, "v1")) = 1 /\ The(Lined(s, "v1")) + 1 \in Lined(s, "heading")
  BY DEF Clear
<1>2. PICK i : Lined(s, "v1") = {i}
  <2>1. IsFiniteSet(Lined(s, "v1"))
    <3>1. Lined(s, "v1") = Spots(s, {"v1"})
      BY DEF Lined, Spots
    <3>. QED
      BY <3>1, AmountOnly
  <2>. QED
    BY <1>1, <2>1, FS_Singleton
<1>3. i \in 1 .. Len(s) /\ The(Lined(s, "v1")) = i /\ i + 1 \in 1 .. Len(s)
  <2>1. i \in Lined(s, "v1")
    BY <1>2
  <2>2. The(Lined(s, "v1")) = i
    BY <1>2, TheOne
  <2>. QED
    BY <1>1, <2>1, <2>2 DEF Lined
<1>. DEFINE ahead == {j \in Lined(s, "chapter") \cup Lined(s, "heading") : j > The(Lined(s, "v1")) + 1}
<1>4. \A j \in ahead : j \in 1 .. Len(s) /\ j > i + 1
  BY <1>3 DEF Lined
<1>5. LegacyEnd(s) = IF ahead = {} THEN Len(s) ELSE (CHOOSE j \in ahead : \A k \in ahead : j <= k) - 1
  BY DEF LegacyEnd
<1>. HIDE DEF ahead
<1>6. ahead # {} => (CHOOSE j \in ahead : \A k \in ahead : j <= k) \in ahead
  <2>1. SUFFICES ASSUME ahead # {} PROVE \E j \in ahead : \A k \in ahead : j <= k
    OBVIOUS
  <2>2. ahead \subseteq Nat
    BY <1>4
  <2>. QED
    BY <2>1, <2>2, LeastNat
<1>7. LegacyEnd(s) \in i .. Len(s)
  <2>1. CASE ahead = {}
    BY <1>3, <1>5, <2>1
  <2>2. CASE ahead # {}
    <3>. DEFINE j == CHOOSE j \in ahead : \A k \in ahead : j <= k
    <3>1. j \in 1 .. Len(s) /\ j > i + 1 /\ LegacyEnd(s) = j - 1
      BY <1>4, <1>5, <1>6, <2>2
    <3>. HIDE DEF j
    <3>. QED
      BY <1>3, <3>1
  <2>. QED
    BY <2>1, <2>2
<1>. QED
  BY <1>2, <1>3, <1>7

(* What init writes: the block in a frame of what it found. *)
LEMMA UpsertedIs ==
  ASSUME NEW s \in Seq(Lines), Clear(s), NEW r \in Rendered
  PROVE  \E a, b : /\ Framed(Upserted(s, r), a, r, b)
                   /\ ~HasLegacy(s) => Outside(s) = Users(a \o b)
                   /\ HasLegacy(s) =>
                        /\ a = SubSeq(s, 1, The(Lined(s, "v1")) - 1)
                        /\ Len(a) = The(Lined(s, "v1")) - 1
<1>1. CASE HasBlock(s)
  <2>0. /\ Cardinality(Lined(s, "v2")) = 1 /\ Cardinality(Lined(s, "end")) = 1 /\ ~HasLegacy(s)
        /\ The(Lined(s, "v2")) < The(Lined(s, "end"))
    BY <1>1 DEF Clear
  <2>1. IsFiniteSet(Lined(s, "v2")) /\ IsFiniteSet(Lined(s, "end"))
    <3>1. Lined(s, "v2") = Spots(s, {"v2"}) /\ Lined(s, "end") = Spots(s, {"end"})
      BY DEF Lined, Spots
    <3>. QED
      BY <3>1, AmountOnly
  <2>2. PICK l : Lined(s, "v2") = {l}
    BY <2>0, <2>1, FS_Singleton
  <2>3. PICK h : Lined(s, "end") = {h}
    BY <2>0, <2>1, FS_Singleton
  <2>4. /\ l \in 1 .. Len(s) /\ h \in 1 .. Len(s) /\ l < h
        /\ The(Lined(s, "v2")) = l /\ The(Lined(s, "end")) = h
        /\ \A k \in 1 .. Len(s) : k # l /\ k # h => s[k] \notin Markers
    <3>1. The(Lined(s, "v2")) = l /\ The(Lined(s, "end")) = h
      BY <2>2, <2>3, TheOne
    <3>2. l \in Lined(s, "v2") /\ h \in Lined(s, "end") /\ Lined(s, "v1") = {}
      BY <2>0, <2>2, <2>3 DEF HasLegacy
    <3>. QED
      BY <2>0, <2>2, <2>3, <3>1, <3>2 DEF Lined, Markers
  <2>. DEFINE a == Front(s, l)
              b == Back(s, h)
  <2>5. /\ a \in Seq(Lines) /\ Len(a) = l - 1 /\ \A k \in 1 .. l - 1 : a[k] = s[k]
        /\ b \in Seq(Lines) /\ Len(b) = Len(s) - h /\ \A k \in 1 .. Len(s) - h : b[k] = s[h + k]
    BY <2>4, FrontBack
  <2>6. /\ Upserted(s, r) = (a \o Block(r)) \o b
        /\ Outside(s) = Users((a \o << >>) \o b)
    BY <1>1, <2>4, SplicedIs DEF Upserted, Outside
  <2>. HIDE DEF a, b
  <2>7. Plain(a)
    BY <2>4, <2>5 DEF Plain
  <2>8. Plain(b)
    <3>1. ASSUME NEW k \in 1 .. Len(s) - h PROVE b[k] \notin Markers
      <4>1. h + k \in 1 .. Len(s) /\ h + k # l /\ h + k # h
        BY <2>4
      <4>. QED
        BY <2>4, <2>5, <4>1
    <3>. QED
      BY <2>5, <3>1 DEF Plain
  <2>9. a \o << >> = a
    BY <2>5, ConcatEmptySeq
  <2>10. Framed(Upserted(s, r), a, r, b)
    BY <2>6, <2>7, <2>8 DEF Framed
  <2>. QED
    BY <2>0, <2>6, <2>9, <2>10
<1>2. CASE ~HasBlock(s) /\ HasLegacy(s)
  <2>1. PICK l \in 1 .. Len(s) : Lined(s, "v1") = {l} /\ LegacyEnd(s) \in l .. Len(s)
    BY <1>2, LegacyEnds
  <2>. DEFINE h == LegacyEnd(s)
              a == Front(s, l)
              b == Back(s, h)
  <2>2. /\ The(Lined(s, "v1")) = l /\ h \in 0 .. Len(s) /\ l \in 1 .. Len(s) + 1 /\ l <= h
        /\ Len(s) \in Nat
    <3>1. The({l}) = l
      BY TheOne, Zenon
    <3>2. The(Lined(s, "v1")) = l
      BY <2>1, <3>1
    <3>3. h \in l .. Len(s) /\ Len(s) \in Nat
      BY <2>1
    <3>. HIDE DEF h
    <3>. QED
      BY <3>2, <3>3
  <2>3. \A k \in 1 .. Len(s) : k # l => s[k] \notin Markers
    BY <1>2, <2>1 DEF HasBlock, Lined, Markers
  <2>4. Upserted(s, r) = (a \o Block(r)) \o b
    BY <1>2, <2>2, SplicedIs DEF Upserted
  <2>. HIDE DEF h
  <2>5. /\ a \in Seq(Lines) /\ Len(a) = l - 1 /\ \A k \in 1 .. l - 1 : a[k] = s[k]
        /\ b \in Seq(Lines) /\ Len(b) = Len(s) - h /\ \A k \in 1 .. Len(s) - h : b[k] = s[h + k]
    BY <2>2, FrontBack
  <2>6. a = SubSeq(s, 1, The(Lined(s, "v1")) - 1)
    BY <2>2 DEF Front
  <2>. HIDE DEF a, b
  <2>7. Plain(a)
    BY <2>2, <2>3, <2>5 DEF Plain
  <2>8. Plain(b)
    <3>1. ASSUME NEW k \in 1 .. Len(s) - h PROVE b[k] \notin Markers
      <4>1. h + k \in 1 .. Len(s) /\ h + k # l
        BY <2>2
      <4>. QED
        BY <2>3, <2>5, <4>1
    <3>. QED
      BY <2>5, <3>1 DEF Plain
  <2>9. Framed(Upserted(s, r), a, r, b)
    BY <2>4, <2>7, <2>8 DEF Framed
  <2>. QED
    BY <1>2, <2>2, <2>5, <2>6, <2>9
<1>3. CASE ~HasBlock(s) /\ ~HasLegacy(s)
  <2>1. Upserted(s, r) = s \o Block(r) /\ Outside(s) = Users(s)
    BY <1>3 DEF Upserted, Outside
  <2>2. Plain(s) /\ Plain(<< >>)
    <3>1. \A k \in 1 .. Len(s) : s[k] \notin Markers
      BY <1>3 DEF HasBlock, HasLegacy, Lined, Markers
    <3>2. << >> \in Seq(Lines) /\ Len(<< >>) = 0
      OBVIOUS
    <3>. QED
      BY <3>1, <3>2 DEF Plain
  <2>3. s \o << >> = s
    BY ConcatEmptySeq
  <2>4. (s \o Block(r)) \o << >> = s \o Block(r)
    <3>1. s \o Block(r) \in Seq(Lines)
      <4>1. Block(r) \in Seq(Lines)
        BY BlockLines, Zenon
      <4>. QED
        BY <4>1, JoinPlaces, Zenon
    <3>. QED
      BY <3>1, ConcatEmptySeq
  <2>5. Framed(Upserted(s, r), s, r, << >>)
    BY <2>1, <2>2, <2>4 DEF Framed
  <2>. QED
    BY <1>3, <2>1, <2>3, <2>5
<1>. QED
  BY <1>1, <1>2, <1>3

LEMMA UpsertRoundTrips ==
  ASSUME NEW s \in Seq(Lines), Clear(s), NEW render \in Rendered
  PROVE  LET result == Upserted(s, render) IN
         /\ result \in Seq(Lines) /\ Clear(result) /\ HasBlock(result)
         /\ \A other \in Rendered :
              /\ Upserted(Upserted(result, other), render) = result
              /\ Outside(Upserted(result, other)) = Outside(result)
         /\ ~HasLegacy(s) => Outside(result) = Outside(s)
         /\ HasLegacy(s) =>
              LET rest == The(Lined(s, "v1")) - 1
              IN  SubSeq(result, 1, rest) = SubSeq(s, 1, rest)
<1>. DEFINE result == Upserted(s, render)
<1>1. PICK a, b : /\ Framed(result, a, render, b)
                  /\ ~HasLegacy(s) => Outside(s) = Users(a \o b)
                  /\ HasLegacy(s) => /\ a = SubSeq(s, 1, The(Lined(s, "v1")) - 1)
                                     /\ Len(a) = The(Lined(s, "v1")) - 1
  BY UpsertedIs
<1>. HIDE DEF result
<1>2. /\ Clear(result) /\ HasBlock(result) /\ Outside(result) = Users(a \o b)
      /\ \A q : Upserted(result, q) = (a \o Block(q)) \o b
      /\ result = (a \o Block(render)) \o b
  <2>1. result = (a \o Block(render)) \o b
    BY <1>1 DEF Framed
  <2>2. Framed(result, a, render, b)
    BY <1>1
  <2>3. /\ Clear(result) /\ HasBlock(result) /\ ~HasLegacy(result)
        /\ \A q : Upserted(result, q) = (a \o Block(q)) \o b
        /\ Outside(result) = Users(a \o b)
    <3>. HIDE <1>1
    <3>. QED
      BY <2>2, FramedAgain
  <2>. QED
    BY <2>1, <2>3
<1>3. ASSUME NEW other \in Rendered
      PROVE  /\ Upserted(Upserted(result, other), render) = result
             /\ Outside(Upserted(result, other)) = Outside(result)
  <2>1. Framed(Upserted(result, other), a, other, b)
    BY <1>1, <1>2 DEF Framed
  <2>. QED
    BY <1>2, <2>1, FramedAgain
<1>4. result \in Seq(Lines) /\ Front(result, Len(a) + 1) = a
  BY <1>1, FramedLines
<1>5. ASSUME HasLegacy(s)
      PROVE  SubSeq(result, 1, The(Lined(s, "v1")) - 1) = SubSeq(s, 1, The(Lined(s, "v1")) - 1)
  <2>1. Len(a) \in Nat
    BY <1>1 DEF Framed, Plain
  <2>2. Front(result, Len(a) + 1) = SubSeq(result, 1, Len(a))
    <3>1. (Len(a) + 1) - 1 = Len(a)
      BY <2>1
    <3>. QED
      BY <3>1 DEF Front
  <2>. QED
    BY <1>1, <1>4, <1>5, <2>2
<1>. QED
  BY <1>1, <1>2, <1>3, <1>4, <1>5 DEF result

(* What an init read was clear when it read it. *)
InitInv ==
  /\ InitTypeOK
  /\ \A p \in Inits : turn[p] # 0 =>
       /\ \A f \in RuleFile : Clear(known[p].texts[f])
       /\ RuleFiles[turn[p]] \in RuleFile

LEMMA RuleFilesAre == Len(RuleFiles) = 2 /\ \A n \in 1 .. 2 : RuleFiles[n] \in RuleFile
BY DEF RuleFiles, RuleFile

Known == [texts : [RuleFile -> Seq(Lines)], render : Rendered]

LEMMA NothingKnown == NothingRead \in Known
<1>1. << >> \in Seq(Lines) /\ "all rules" \in Rendered
  BY DEF Rendered
<1>2. [f \in RuleFile |-> << >>] \in [RuleFile -> Seq(Lines)]
  BY <1>1
<1>. QED
  BY <1>1, <1>2 DEF NothingRead, Known

LEMMA InitKept == InitInv /\ [InitNext]_initVars => InitInv'
<1>. SUFFICES ASSUME InitInv, [InitNext]_initVars PROVE InitInv'
  OBVIOUS
<1>1. /\ rules \in [RuleFile -> Seq(Lines)] /\ turn \in [Inits -> 0 .. 2]
      /\ known \in [Inits -> Known] /\ inits \in Nat /\ lineEdits \in Nat
      /\ Len(RuleFiles) = 2
      /\ \A p \in Inits : turn[p] # 0 => \A f \in RuleFile : Clear(known[p].texts[f])
  BY RuleFilesAre DEF InitInv, InitTypeOK, Known
<1>. DEFINE Good == /\ rules' \in [RuleFile -> Seq(Lines)] /\ turn' \in [Inits -> 0 .. 2]
                   /\ known' \in [Inits -> Known] /\ inits' \in Nat /\ lineEdits' \in Nat
                   /\ \A p \in Inits : turn'[p] # 0 =>
                        \A f \in RuleFile : Clear(known'[p].texts[f])
<1>2. ASSUME Good PROVE InitInv'
  <2>1. ASSUME NEW p \in Inits, turn'[p] # 0 PROVE RuleFiles[turn'[p]] \in RuleFile
    <3>1. turn'[p] \in 1 .. 2
      BY <1>2, <2>1
    <3>. QED
      BY <3>1, RuleFilesAre
  <2>. QED
    BY <1>1, <1>2, <2>1 DEF InitInv, InitTypeOK, Known
<1>3. ASSUME NEW p \in Inits, turn' = [turn EXCEPT ![p] = 0],
             known' = [known EXCEPT ![p] = NothingRead]
      PROVE  /\ turn' \in [Inits -> 0 .. 2] /\ known' \in [Inits -> Known]
             /\ \A q \in Inits : turn'[q] # 0 => \A f \in RuleFile : Clear(known'[q].texts[f])
  <2>1. turn' \in [Inits -> 0 .. 2] /\ known' \in [Inits -> Known]
    BY <1>1, <1>3, NothingKnown
  <2>2. ASSUME NEW q \in Inits, turn'[q] # 0
        PROVE  \A f \in RuleFile : Clear(known'[q].texts[f])
    <3>1. q # p
      BY <1>1, <1>3, <2>2
    <3>2. turn'[q] = turn[q] /\ known'[q] = known[q]
      BY <1>1, <1>3, <3>1
    <3>. QED
      BY <1>1, <2>2, <3>2
  <2>. QED
    BY <2>1, <2>2
<1>4. ASSUME NEW p \in Inits, BeginInit(p) PROVE Good
  <2>1. PICK render \in Rendered :
          known' = [known EXCEPT ![p] = [texts |-> rules, render |-> render]]
    BY <1>4 DEF BeginInit
  <2>2. /\ turn' = [turn EXCEPT ![p] = 1] /\ inits' = inits + 1
        /\ UNCHANGED <<rules, lineEdits>> /\ \A f \in RuleFile : Clear(rules[f])
    BY <1>4 DEF BeginInit
  <2>3. [texts |-> rules, render |-> render] \in Known
    BY <1>1 DEF Known
  <2>4. turn' \in [Inits -> 0 .. 2] /\ known' \in [Inits -> Known]
    BY <1>1, <2>1, <2>2, <2>3
  <2>5. ASSUME NEW q \in Inits, turn'[q] # 0, NEW f \in RuleFile
        PROVE  Clear(known'[q].texts[f])
    <3>1. CASE q = p
      <4>1. known'[q].texts = rules
        BY <1>1, <2>1, <3>1
      <4>. QED
        BY <2>2, <4>1
    <3>2. CASE q # p
      <4>1. turn'[q] = turn[q] /\ known'[q] = known[q]
        BY <1>1, <2>1, <2>2, <3>2
      <4>. QED
        BY <1>1, <2>5, <4>1
    <3>. QED
      BY <3>1, <3>2
  <2>. QED
    BY <1>1, <2>2, <2>4, <2>5
<1>5. ASSUME NEW p \in Inits, ApplyBlock(p) PROVE Good
  <2>. DEFINE f == RuleFiles[turn[p]]
              new == Upserted(known[p].texts[f], known[p].render)
  <2>1. turn[p] # 0 /\ UNCHANGED <<inits, lineEdits>> /\ f \in RuleFile
    BY <1>5 DEF ApplyBlock, InitInv
  <2>2. rules' = [rules EXCEPT ![f] = new]
    BY <1>5 DEF ApplyBlock
  <2>3. /\ known[p].texts[f] \in Seq(Lines) /\ known[p].render \in Rendered
        /\ Clear(known[p].texts[f])
    <3>. HIDE DEF f
    <3>. QED
      BY <1>1, <2>1 DEF Known
  <2>4. new \in Seq(Lines)
    <3>. HIDE DEF f
    <3>. QED
      BY <2>3, UpsertRoundTrips, Zenon
  <2>. HIDE DEF new, f
  <2>5. rules' \in [RuleFile -> Seq(Lines)]
    BY <1>1, <2>1, <2>2, <2>4
  <2>6. CASE turn' = [turn EXCEPT ![p] = 0] /\ known' = [known EXCEPT ![p] = NothingRead]
    BY <1>1, <1>3, <2>1, <2>5, <2>6
  <2>7. CASE turn[p] # Len(RuleFiles) /\ turn' = [turn EXCEPT ![p] = turn[p] + 1] /\ known' = known
    <3>1. turn[p] = 1
      BY <1>1, <2>1, <2>7
    <3>2. turn' \in [Inits -> 0 .. 2]
      BY <1>1, <2>7, <3>1
    <3>3. \A q \in Inits : turn'[q] # 0 => turn[q] # 0
      BY <1>1, <2>1, <2>7
    <3>. QED
      BY <1>1, <2>1, <2>5, <2>7, <3>2, <3>3
  <2>. QED
    BY <1>5, <2>6, <2>7 DEF ApplyBlock
<1>6. ASSUME NEW p \in Inits, InitStops(p) PROVE Good
  <2>1. /\ turn' = [turn EXCEPT ![p] = 0] /\ known' = [known EXCEPT ![p] = NothingRead]
        /\ UNCHANGED <<rules, inits, lineEdits>>
    BY <1>6 DEF InitStops
  <2>. QED
    BY <1>1, <1>3, <2>1
<1>7. ASSUME NEW f \in RuleFile, EditRules(f) PROVE Good
  <2>1. lineEdits' = lineEdits + 1 /\ UNCHANGED <<turn, known, inits>>
    BY <1>7 DEF EditRules
  <2>2. rules[f] \in Seq(Lines) /\ << >> \in Seq(Lines)
    BY <1>1
  <2>3. PICK new \in Seq(Lines) : rules' = [rules EXCEPT ![f] = new]
    <3>1. CASE \E line \in UserLines, i \in 0 .. Len(rules[f]) :
                 rules' = [rules EXCEPT ![f] = Spliced(@, i + 1, i, <<line>>)]
      <4>1. PICK line \in UserLines, i \in 0 .. Len(rules[f]) :
              rules' = [rules EXCEPT ![f] = Spliced(rules[f], i + 1, i, <<line>>)]
        BY <3>1
      <4>2. <<line>> \in Seq(Lines) /\ i + 1 \in 1 .. Len(rules[f]) + 1
        <5>1. line \in Lines
          BY UsersAre
        <5>. QED
          BY <2>2, <5>1
      <4>3. Spliced(rules[f], i + 1, i, <<line>>) \in Seq(Lines)
        BY <2>2, <4>2, SplicedTyped
      <4>. QED
        BY <4>1, <4>3
    <3>2. CASE \E i \in DOMAIN rules[f] :
                 rules' = [rules EXCEPT ![f] = Spliced(@, i, i, << >>)]
      <4>1. PICK i \in DOMAIN rules[f] :
              rules' = [rules EXCEPT ![f] = Spliced(rules[f], i, i, << >>)]
        BY <3>2
      <4>2. i \in 1 .. Len(rules[f]) + 1 /\ i \in 0 .. Len(rules[f])
        BY <2>2
      <4>3. Spliced(rules[f], i, i, << >>) \in Seq(Lines)
        BY <2>2, <4>2, SplicedTyped
      <4>. QED
        BY <4>1, <4>3
    <3>. QED
      BY <1>7, <3>1, <3>2 DEF EditRules
  <2>4. rules' \in [RuleFile -> Seq(Lines)]
    BY <1>1, <2>3
  <2>. QED
    BY <1>1, <2>1, <2>4
<1>8. ASSUME UNCHANGED initVars PROVE Good
  <2>1. UNCHANGED <<rules, turn, known, inits, lineEdits>>
    BY <1>8 DEF initVars
  <2>. QED
    BY <1>1, <2>1
<1>9. Good
  <2>. HIDE DEF Good
  <2>. QED
    BY <1>4, <1>5, <1>6, <1>7, <1>8 DEF InitNext
<1>. QED
  BY <1>2, <1>9

LEMMA InitStarts == InitInit => InitInv
<1>. SUFFICES ASSUME InitInit PROVE InitInv
  OBVIOUS
<1>1. rules \in [RuleFile -> Seq(Lines)]
  BY RulesAssumption DEF InitInit
<1>2. turn \in [Inits -> 0 .. Len(RuleFiles)] /\ \A p \in Inits : turn[p] = 0
  BY RuleFilesAre DEF InitInit
<1>3. known \in [Inits -> Known] /\ inits \in Nat /\ lineEdits \in Nat
  BY NothingKnown DEF InitInit
<1>. QED
  BY <1>1, <1>2, <1>3, RuleFilesAre DEF InitInv, InitTypeOK, Known

(* The rule files and what each init knows of them are texts of the lines    *)
(* the code writes (initcmd.rs, run and apply_block).                        *)
THEOREM InitTyped == InitSpec => []InitTypeOK
<1>1. InitInv => InitTypeOK
  BY DEF InitInv
<1>. QED
  BY <1>1, InitStarts, InitKept, PTL DEF InitSpec

LEMMA InitRoundTripsNow == InitInv => InitRoundTrips
<1>. SUFFICES ASSUME InitInv, NEW f \in RuleFile, NEW render \in Rendered, Clear(rules[f])
     PROVE  LET s == rules[f]
                result == Upserted(s, render)
            IN /\ Clear(result) /\ HasBlock(result)
               /\ \A other \in Rendered :
                    /\ Upserted(Upserted(result, other), render) = result
                    /\ Outside(Upserted(result, other)) = Outside(result)
               /\ ~HasLegacy(s) => Outside(result) = Outside(s)
               /\ HasLegacy(s) =>
                    LET rest == The(Lined(s, "v1")) - 1
                    IN  SubSeq(result, 1, rest) = SubSeq(s, 1, rest)
  BY DEF InitRoundTrips
<1>1. rules[f] \in Seq(Lines)
  BY DEF InitInv, InitTypeOK
<1>. QED
  BY <1>1, UpsertRoundTrips

(* Whatever inits, crashes and edits make of the rule files: where init does *)
(* not refuse, its block comes into one place, again and again, and the      *)
(* user's lines around it stay (upsert_block).                               *)
THEOREM InitsRoundTrip == InitSpec => []InitRoundTrips
BY InitStarts, InitKept, InitRoundTripsNow, PTL DEF InitSpec

-----------------------------------------------------------------------------
(* The two kinds of blocks in their scenes: elsewhere their files stay.      *)

DeskInv == SetupInv /\ SpacedInv /\ InitInv

LEMMA DeskStarts == DeskInit => DeskInv
<1>1. DeskInit => SetupInit /\ InitInit
  BY DEF DeskInit
<1>. QED
  BY <1>1, SetupStarts, SpacedStarts, InitStarts DEF DeskInv

DeskVars == <<scene, stores, lab, setupVars, scanVars, loopVars,
              creation, ledger, claiming, initVars, baselineVars, waste>>

LEMMA DeskKept == DeskInv /\ [DeskNext]_DeskVars => DeskInv'
<1>. SUFFICES ASSUME DeskInv, [DeskNext]_DeskVars PROVE DeskInv'
  OBVIOUS
<1>1. [SetupNext]_setupVars
  <2>1. DeskNext => [SetupNext]_setupVars
    BY DEF DeskNext
  <2>2. UNCHANGED DeskVars => UNCHANGED setupVars
    BY DEF DeskVars
  <2>. QED
    BY <2>1, <2>2
<1>2. [InitNext]_initVars
  <2>1. DeskNext => [InitNext]_initVars
    BY DEF DeskNext
  <2>2. UNCHANGED DeskVars => UNCHANGED initVars
    BY DEF DeskVars
  <2>. QED
    BY <2>1, <2>2
<1>. QED
  BY <1>1, <1>2, SetupKept, SpacedKept, InitKept DEF DeskInv

LEMMA BlocksNow == DeskInv => BlocksRoundTrip
BY RoundTripsNow, InitRoundTripsNow DEF DeskInv, BlocksRoundTrip

(* On the whole desk: setup's and init's blocks go into files the user       *)
(* writes, too, and come out again, or into the same place, and leave the    *)
(* user's text as it was (setupcmd.rs, initcmd.rs).                          *)
THEOREM BlocksGoRound == DeskSpec => []BlocksRoundTrip
<1>1. DeskSpec => DeskInit /\ [][DeskNext]_DeskVars
  BY DEF DeskSpec, DeskVars
<1>. QED
  BY <1>1, DeskStarts, DeskKept, BlocksNow, PTL

-----------------------------------------------------------------------------
(* Sums of amounts, for whatever is said of the requests.                    *)

(* The sums on the way to a total. *)
SumsUp(g, amounts, n) ==
  g = [i \in 0 .. n |-> IF i = 0 THEN 0 ELSE g[i - 1] + amounts[i]]

LEMMA SumsExist == ASSUME NEW amounts, NEW n \in Nat PROVE \E g : SumsUp(g, amounts, n)
<1>. DEFINE M == {m \in 0 .. n : \E g : SumsUp(g, amounts, m)}
<1>1. 0 \in M
  <2>. DEFINE g == [i \in 0 .. 0 |-> 0]
  <2>1. SumsUp(g, amounts, 0)
    BY DEF SumsUp
  <2>. QED
    BY <2>1
<1>2. ASSUME NEW i \in 0 .. n, i \in M, i < n PROVE i + 1 \in M
  <2>1. PICK g : SumsUp(g, amounts, i)
    BY <1>2
  <2>. DEFINE last == g[i] + amounts[i + 1]
              h == [k \in 0 .. i + 1 |-> IF k <= i THEN g[k] ELSE last]
  <2>2. (\A k \in 0 .. i : h[k] = g[k]) /\ h[i + 1] = last
    OBVIOUS
  <2>3. \A k \in 0 .. i : g[k] = IF k = 0 THEN 0 ELSE g[k - 1] + amounts[k]
    BY <2>1 DEF SumsUp
  <2>4. DOMAIN h = 0 .. i + 1 /\ h = [k \in 0 .. i + 1 |-> h[k]]
    OBVIOUS
  <2>. HIDE DEF h
  <2>5. \A k \in 0 .. i : h[k] = IF k = 0 THEN 0 ELSE h[k - 1] + amounts[k]
    BY <2>2, <2>3
  <2>6. h[i + 1] = h[i] + amounts[i + 1]
    BY <2>2
  <2>7. \A k \in 0 .. i + 1 : h[k] = IF k = 0 THEN 0 ELSE h[k - 1] + amounts[k]
    BY <2>5, <2>6
  <2>8. SumsUp(h, amounts, i + 1)
    BY <2>4, <2>7 DEF SumsUp
  <2>. QED
    BY <1>2, <2>8
<1>. HIDE DEF M
<1>3. \A i \in 0 .. n : i \in M
  BY <1>1, <1>2, SetInduction
<1>. QED
  BY <1>3 DEF M

LEMMA TotalSteps ==
  ASSUME NEW n \in Nat, NEW f \in [1 .. n -> Nat]
  PROVE  \E g \in [0 .. n -> Nat] :
           /\ Total(f) = g[n] /\ g[0] = 0
           /\ \A i \in 0 .. n : i < n => g[i + 1] = g[i] + f[i + 1]
<1>. DEFINE g == CHOOSE g : SumsUp(g, f, n)
<1>1. f \in Seq(Nat) /\ Len(f) = n
  OBVIOUS
<1>2. Total(f) = g[n]
  BY <1>1 DEF Total, SumsUp
<1>3. SumsUp(g, f, n)
  BY SumsExist
<1>. HIDE DEF g
<1>4. \A i \in 0 .. n : g[i] = IF i = 0 THEN 0 ELSE g[i - 1] + f[i]
  BY <1>3 DEF SumsUp
<1>5. g[0] = 0
  BY <1>4
<1>6. ASSUME NEW i \in 0 .. n, i < n PROVE g[i + 1] = g[i] + f[i + 1]
  <2>1. i + 1 \in 0 .. n /\ i + 1 # 0 /\ (i + 1) - 1 = i
    BY <1>6
  <2>. QED
    BY <1>4, <2>1
<1>. DEFINE M == {i \in 0 .. n : g[i] \in Nat}
<1>7. 0 \in M
  BY <1>5
<1>8. ASSUME NEW i \in 0 .. n, i \in M, i < n PROVE i + 1 \in M
  <2>1. f[i + 1] \in Nat
    BY <1>8
  <2>. QED
    BY <1>6, <1>8, <2>1
<1>. HIDE DEF M
<1>9. \A i \in 0 .. n : i \in M
  BY <1>7, <1>8, SetInduction
<1>10. g \in [0 .. n -> Nat]
  <2>1. DOMAIN g = 0 .. n /\ g = [i \in 0 .. n |-> g[i]]
    BY <1>3 DEF SumsUp
  <2>2. \A i \in 0 .. n : g[i] \in Nat
    BY <1>9 DEF M
  <2>. QED
    BY <2>1, <2>2
<1>. QED
  BY <1>2, <1>5, <1>6, <1>10

LEMMA TotalTyped == ASSUME NEW n \in Nat, NEW f \in [1 .. n -> Nat] PROVE Total(f) \in Nat
BY TotalSteps

(* One more amount. *)
LEMMA TotalNext ==
  ASSUME NEW n \in Nat, NEW f \in [1 .. n + 1 -> Nat], NEW h \in [1 .. n -> Nat],
         \A i \in 1 .. n : h[i] = f[i]
  PROVE  Total(f) = Total(h) + f[n + 1]
<1>1. n + 1 \in Nat
  OBVIOUS
<1>2. PICK g \in [0 .. n + 1 -> Nat] :
        /\ Total(f) = g[n + 1] /\ g[0] = 0
        /\ \A i \in 0 .. n + 1 : i < n + 1 => g[i + 1] = g[i] + f[i + 1]
  BY <1>1, TotalSteps
<1>3. PICK k \in [0 .. n -> Nat] :
        /\ Total(h) = k[n] /\ k[0] = 0
        /\ \A i \in 0 .. n : i < n => k[i + 1] = k[i] + h[i + 1]
  BY TotalSteps
<1>. DEFINE M == {i \in 0 .. n : g[i] = k[i]}
<1>4. 0 \in M
  BY <1>2, <1>3
<1>5. ASSUME NEW i \in 0 .. n, i \in M, i < n PROVE i + 1 \in M
  <2>1. i + 1 \in 1 .. n /\ i \in 0 .. n + 1 /\ i < n + 1
    BY <1>5
  <2>2. g[i + 1] = g[i] + f[i + 1] /\ k[i + 1] = k[i] + h[i + 1] /\ h[i + 1] = f[i + 1]
    BY <1>2, <1>3, <1>5, <2>1
  <2>. QED
    BY <1>5, <2>1, <2>2
<1>. HIDE DEF M
<1>6. \A i \in 0 .. n : i \in M
  BY <1>4, <1>5, SetInduction
<1>7. g[n] = k[n]
  BY <1>6 DEF M
<1>8. g[n + 1] = g[n] + f[n + 1]
  BY <1>2
<1>. QED
  BY <1>2, <1>3, <1>7, <1>8

LEMMA TotalNone ==
  ASSUME NEW n \in Nat, NEW f \in [1 .. n -> Nat], \A i \in 1 .. n : f[i] = 0
  PROVE  Total(f) = 0
<1>1. PICK g \in [0 .. n -> Nat] :
        /\ Total(f) = g[n] /\ g[0] = 0
        /\ \A i \in 0 .. n : i < n => g[i + 1] = g[i] + f[i + 1]
  BY TotalSteps
<1>. DEFINE M == {i \in 0 .. n : g[i] = 0}
<1>2. 0 \in M
  BY <1>1
<1>3. ASSUME NEW i \in 0 .. n, i \in M, i < n PROVE i + 1 \in M
  <2>1. f[i + 1] = 0 /\ g[i + 1] = g[i] + f[i + 1]
    BY <1>1, <1>3
  <2>. QED
    BY <1>3, <2>1
<1>. HIDE DEF M
<1>4. \A i \in 0 .. n : i \in M
  BY <1>2, <1>3, SetInduction
<1>. QED
  BY <1>1, <1>4 DEF M

LEMMA TotalGrows ==
  ASSUME NEW n \in Nat, NEW f \in [1 .. n -> Nat], NEW h \in [1 .. n -> Nat],
         \A i \in 1 .. n : f[i] <= h[i]
  PROVE  Total(f) <= Total(h)
<1>1. PICK g \in [0 .. n -> Nat] :
        /\ Total(f) = g[n] /\ g[0] = 0
        /\ \A i \in 0 .. n : i < n => g[i + 1] = g[i] + f[i + 1]
  BY TotalSteps
<1>2. PICK k \in [0 .. n -> Nat] :
        /\ Total(h) = k[n] /\ k[0] = 0
        /\ \A i \in 0 .. n : i < n => k[i + 1] = k[i] + h[i + 1]
  BY TotalSteps
<1>. DEFINE M == {i \in 0 .. n : g[i] <= k[i]}
<1>3. 0 \in M
  BY <1>1, <1>2
<1>4. ASSUME NEW i \in 0 .. n, i \in M, i < n PROVE i + 1 \in M
  <2>1. /\ i + 1 \in 1 .. n /\ f[i + 1] <= h[i + 1] /\ f[i + 1] \in Nat /\ h[i + 1] \in Nat
        /\ g[i] \in Nat /\ k[i] \in Nat /\ g[i] <= k[i]
    BY <1>4
  <2>2. g[i + 1] = g[i] + f[i + 1] /\ k[i + 1] = k[i] + h[i + 1]
    BY <1>1, <1>2, <1>4
  <2>. QED
    BY <2>1, <2>2
<1>. HIDE DEF M
<1>5. \A i \in 0 .. n : i \in M
  BY <1>3, <1>4, SetInduction
<1>. QED
  BY <1>1, <1>2, <1>5 DEF M

LEMMA TotalOfSums ==
  ASSUME NEW n \in Nat, NEW a \in [1 .. n -> Nat], NEW b \in [1 .. n -> Nat],
         NEW c \in [1 .. n -> Nat], \A i \in 1 .. n : c[i] = a[i] + b[i]
  PROVE  Total(c) = Total(a) + Total(b)
<1>1. PICK g \in [0 .. n -> Nat] :
        /\ Total(a) = g[n] /\ g[0] = 0
        /\ \A i \in 0 .. n : i < n => g[i + 1] = g[i] + a[i + 1]
  BY TotalSteps
<1>2. PICK h \in [0 .. n -> Nat] :
        /\ Total(b) = h[n] /\ h[0] = 0
        /\ \A i \in 0 .. n : i < n => h[i + 1] = h[i] + b[i + 1]
  BY TotalSteps
<1>3. PICK k \in [0 .. n -> Nat] :
        /\ Total(c) = k[n] /\ k[0] = 0
        /\ \A i \in 0 .. n : i < n => k[i + 1] = k[i] + c[i + 1]
  BY TotalSteps
<1>. DEFINE M == {i \in 0 .. n : k[i] = g[i] + h[i]}
<1>4. 0 \in M
  BY <1>1, <1>2, <1>3
<1>5. ASSUME NEW i \in 0 .. n, i \in M, i < n PROVE i + 1 \in M
  <2>1. /\ i + 1 \in 1 .. n /\ c[i + 1] = a[i + 1] + b[i + 1]
        /\ a[i + 1] \in Nat /\ b[i + 1] \in Nat
        /\ g[i] \in Nat /\ h[i] \in Nat /\ k[i] = g[i] + h[i]
    BY <1>5
  <2>2. /\ g[i + 1] = g[i] + a[i + 1] /\ h[i + 1] = h[i] + b[i + 1]
        /\ k[i + 1] = k[i] + c[i + 1]
    BY <1>1, <1>2, <1>3, <1>5
  <2>. QED
    BY <2>1, <2>2
<1>. HIDE DEF M
<1>6. \A i \in 0 .. n : i \in M
  BY <1>4, <1>5, SetInduction
<1>. QED
  BY <1>1, <1>2, <1>3, <1>6 DEF M

LEMMA TotalSame ==
  ASSUME NEW n \in Nat, NEW f \in [1 .. n -> Nat], NEW h \in [1 .. n -> Nat],
         \A i \in 1 .. n : f[i] = h[i]
  PROVE  Total(f) = Total(h)
<1>1. f = h
  OBVIOUS
<1>. QED
  BY <1>1

(* Only one amount counts. *)
LEMMA TotalOfOne ==
  ASSUME NEW n \in Nat, NEW f \in [1 .. n -> Nat], NEW r \in 1 .. n,
         \A i \in 1 .. n : i # r => f[i] = 0
  PROVE  Total(f) = f[r]
<1>1. PICK g \in [0 .. n -> Nat] :
        /\ Total(f) = g[n] /\ g[0] = 0
        /\ \A i \in 0 .. n : i < n => g[i + 1] = g[i] + f[i + 1]
  BY TotalSteps
<1>. DEFINE M == {i \in 0 .. n : g[i] = IF i < r THEN 0 ELSE f[r]}
<1>2. 0 \in M
  BY <1>1
<1>3. ASSUME NEW i \in 0 .. n, i \in M, i < n PROVE i + 1 \in M
  <2>1. /\ i + 1 \in 1 .. n /\ g[i] = IF i < r THEN 0 ELSE f[r]
        /\ f[i + 1] \in Nat /\ f[r] \in Nat
    <3>1. i + 1 \in 1 .. n
      BY <1>3
    <3>2. g[i] = IF i < r THEN 0 ELSE f[r]
      BY <1>3
    <3>. QED
      BY <3>1, <3>2
  <2>2. g[i + 1] = g[i] + f[i + 1]
    BY <1>1, <1>3
  <2>3. CASE i + 1 = r
    BY <2>1, <2>2, <2>3
  <2>4. CASE i + 1 # r
    <3>1. f[i + 1] = 0
      BY <2>1, <2>4
    <3>2. (i + 1 < r) <=> (i < r)
      BY <2>4
    <3>. QED
      BY <2>1, <2>2, <3>1, <3>2
  <2>. QED
    BY <2>3, <2>4
<1>. HIDE DEF M
<1>4. \A i \in 0 .. n : i \in M
  BY <1>2, <1>3, SetInduction
<1>5. g[n] = IF n < r THEN 0 ELSE f[r]
  BY <1>4 DEF M
<1>. QED
  BY <1>1, <1>5

(* No amount is more than the total. *)
LEMMA TotalHolds ==
  ASSUME NEW n \in Nat, NEW f \in [1 .. n -> Nat], NEW r \in 1 .. n
  PROVE  f[r] <= Total(f)
<1>. DEFINE h == [i \in 1 .. n |-> IF i = r THEN f[r] ELSE 0]
<1>1. /\ h \in [1 .. n -> Nat] /\ h[r] = f[r] /\ (\A i \in 1 .. n : i # r => h[i] = 0)
      /\ \A i \in 1 .. n : h[i] <= f[i]
  OBVIOUS
<1>. HIDE DEF h
<1>2. Total(h) = h[r] /\ Total(h) <= Total(f)
  BY <1>1, TotalOfOne, TotalGrows
<1>. QED
  BY <1>1, <1>2

-----------------------------------------------------------------------------
(* The requests of a session, in the order of their times.                   *)

LEMMA TokensAre == MaxTokens \in Nat
BY FindingsAssumption

LEMMA SentIs ==
  ASSUME NEW r \in Kinds
  PROVE  /\ r.session \in Sessions /\ r.ts \in Nat \cup {NoTime} /\ r.out \in Nat
         /\ TruePrompt(r) \in Nat /\ Prompt(r) \in Nat /\ Prompt(r) <= MaxTokens
         /\ Prompt(r) <= TruePrompt(r) /\ Written(r) \in Nat /\ Written(r) <= Prompt(r)
         /\ ~TooManyTokens(TruePrompt(r)) => Prompt(r) = TruePrompt(r)
<1>1. /\ r.session \in Sessions /\ r.ts \in Nat \cup {NoTime} /\ r.out \in 0 .. MaxTokens
      /\ r.unc \in 0 .. MaxTokens /\ r.cached \in 0 .. MaxTokens
      /\ r.w5 \in 0 .. MaxTokens /\ r.w1h \in 0 .. MaxTokens
  BY FindingsAssumption DEF Request
<1>. QED
  BY <1>1, TokensAre DEF TruePrompt, Prompt, Written, Capped, TooManyTokens

LEMMA RequestAt ==
  ASSUME NEW reqs \in Seq(Kinds), NEW i \in DOMAIN reqs
  PROVE  reqs[i] \in Kinds /\ i \in 1 .. Len(reqs) /\ i \in Nat
         /\ reqs[i].ts \in Nat \cup {NoTime}
<1>1. reqs[i] \in Kinds /\ i \in 1 .. Len(reqs) /\ i \in Nat
  OBVIOUS
<1>. QED
  BY <1>1, SentIs

LEMMA OneFirst ==
  ASSUME NEW reqs \in Seq(Kinds), NEW i \in DOMAIN reqs, NEW j \in DOMAIN reqs,
         NEW k \in DOMAIN reqs
  PROVE  /\ ~Precedes(reqs, i, i)
         /\ Precedes(reqs, i, j) /\ Precedes(reqs, j, k) => Precedes(reqs, i, k)
         /\ i # j => Precedes(reqs, i, j) \/ Precedes(reqs, j, i)
<1>. DEFINE a == reqs[i].ts
            b == reqs[j].ts
            c == reqs[k].ts
<1>1. /\ i \in Nat /\ j \in Nat /\ k \in Nat
      /\ a \in Nat \cup {NoTime} /\ b \in Nat \cup {NoTime} /\ c \in Nat \cup {NoTime}
  BY RequestAt
<1>2. /\ Precedes(reqs, i, i) <=> (a # NoTime /\ (a = NoTime \/ a < a)) \/ (a = a /\ i < i)
      /\ Precedes(reqs, i, j) <=> (a # NoTime /\ (b = NoTime \/ a < b)) \/ (a = b /\ i < j)
      /\ Precedes(reqs, j, i) <=> (b # NoTime /\ (a = NoTime \/ b < a)) \/ (b = a /\ j < i)
      /\ Precedes(reqs, j, k) <=> (b # NoTime /\ (c = NoTime \/ b < c)) \/ (b = c /\ j < k)
      /\ Precedes(reqs, i, k) <=> (a # NoTime /\ (c = NoTime \/ a < c)) \/ (a = c /\ i < k)
  BY DEF Precedes
<1>. HIDE DEF a, b, c
<1>3. NoTime = -1
  BY DEF NoTime
<1>. QED
  BY <1>1, <1>2, <1>3

Ahead(reqs, i) == {j \in Within(reqs, reqs[i].session) : Precedes(reqs, j, i)}

LEMMA WithinIs ==
  ASSUME NEW reqs \in Seq(Kinds), NEW s
  PROVE  /\ Within(reqs, s) \subseteq DOMAIN reqs /\ IsFiniteSet(Within(reqs, s))
         /\ Cardinality(Within(reqs, s)) \in Nat
         /\ \A i \in Within(reqs, s) : reqs[i].session = s
<1>1. Within(reqs, s) \subseteq 1 .. Len(reqs) /\ Len(reqs) \in Nat
  BY DEF Within
<1>2. IsFiniteSet(1 .. Len(reqs))
  BY <1>1, FS_Interval
<1>3. IsFiniteSet(Within(reqs, s)) /\ Cardinality(Within(reqs, s)) \in Nat
  BY <1>1, <1>2, FS_Subset, FS_CardinalityType
<1>. QED
  BY <1>3 DEF Within

LEMMA RankIs ==
  ASSUME NEW reqs \in Seq(Kinds), NEW s, NEW i \in Within(reqs, s)
  PROVE  /\ Ahead(reqs, i) \subseteq Within(reqs, s) \ {i} /\ IsFiniteSet(Ahead(reqs, i))
         /\ Rank(reqs, i) = 1 + Cardinality(Ahead(reqs, i))
         /\ Rank(reqs, i) \in 1 .. Cardinality(Within(reqs, s))
<1>. DEFINE W == Within(reqs, s)
            A == Ahead(reqs, i)
<1>1. /\ W \subseteq DOMAIN reqs /\ IsFiniteSet(W) /\ Cardinality(W) \in Nat
      /\ reqs[i].session = s
  BY WithinIs
<1>2. Rank(reqs, i) = 1 + Cardinality(A)
  BY DEF Rank, Ahead
<1>3. A \subseteq W /\ i \notin A
  <2>1. ~Precedes(reqs, i, i)
    BY <1>1, OneFirst
  <2>. QED
    BY <1>1, <2>1 DEF Ahead
<1>. HIDE DEF W, A
<1>4. i \in W
  BY DEF W
<1>5. IsFiniteSet(W \ {i}) /\ Cardinality(W \ {i}) = Cardinality(W) - 1
  BY <1>1, <1>4, FS_RemoveElement
<1>6. A \in SUBSET (W \ {i})
  BY <1>3
<1>7. IsFiniteSet(A) /\ Cardinality(A) <= Cardinality(W \ {i}) /\ Cardinality(A) \in Nat
  BY <1>5, <1>6, FS_Subset, FS_CardinalityType
<1>8. Rank(reqs, i) \in 1 .. Cardinality(W)
  BY <1>1, <1>2, <1>5, <1>7
<1>. QED
  BY <1>2, <1>6, <1>7, <1>8 DEF W, A

LEMMA RanksDiffer ==
  ASSUME NEW reqs \in Seq(Kinds), NEW s, NEW i \in Within(reqs, s), NEW j \in Within(reqs, s)
  PROVE  /\ Precedes(reqs, i, j) => Rank(reqs, i) < Rank(reqs, j)
         /\ Rank(reqs, i) = Rank(reqs, j) => i = j
<1>0. ASSUME NEW k \in Within(reqs, s), NEW l \in Within(reqs, s), Precedes(reqs, k, l)
      PROVE  Rank(reqs, k) < Rank(reqs, l)
  <2>. DEFINE A == Ahead(reqs, k)
              B == Ahead(reqs, l)
  <2>1. /\ IsFiniteSet(A) /\ IsFiniteSet(B) /\ A \subseteq Within(reqs, s) \ {k}
        /\ Rank(reqs, k) = 1 + Cardinality(A) /\ Rank(reqs, l) = 1 + Cardinality(B)
    BY RankIs
  <2>2. /\ Within(reqs, s) \subseteq DOMAIN reqs
        /\ reqs[k].session = s /\ reqs[l].session = s
    BY WithinIs
  <2>3. A \subseteq B
    <3>1. ASSUME NEW x \in A PROVE x \in B
      <4>1. x \in Within(reqs, s) /\ Precedes(reqs, x, k)
        BY <2>2 DEF Ahead
      <4>2. Precedes(reqs, x, l)
        BY <1>0, <2>2, <4>1, OneFirst
      <4>. QED
        BY <2>2, <4>1, <4>2 DEF Ahead
    <3>. QED
      BY <3>1
  <2>4. k \in B /\ k \notin A
    BY <1>0, <2>1, <2>2 DEF Ahead
  <2>. HIDE DEF A, B
  <2>5. A \in SUBSET B /\ A # B
    BY <2>3, <2>4
  <2>6. Cardinality(A) <= Cardinality(B) /\ Cardinality(A) # Cardinality(B)
        /\ Cardinality(A) \in Nat /\ Cardinality(B) \in Nat
    BY <2>1, <2>5, FS_Subset, FS_CardinalityType
  <2>. QED
    BY <2>1, <2>6
<1>1. Precedes(reqs, i, j) => Rank(reqs, i) < Rank(reqs, j)
  BY <1>0
<1>2. ASSUME i # j PROVE Rank(reqs, i) # Rank(reqs, j)
  <2>1. Precedes(reqs, i, j) \/ Precedes(reqs, j, i)
    BY <1>2, WithinIs, OneFirst
  <2>2. Rank(reqs, i) < Rank(reqs, j) \/ Rank(reqs, j) < Rank(reqs, i)
    BY <1>0, <2>1
  <2>3. Rank(reqs, i) \in Int /\ Rank(reqs, j) \in Int
    <3>1. Rank(reqs, i) \in 1 .. Cardinality(Within(reqs, s))
          /\ Rank(reqs, j) \in 1 .. Cardinality(Within(reqs, s))
      BY RankIs
    <3>. QED
      BY <3>1, WithinIs
  <2>. QED
    BY <2>2, <2>3
<1>. QED
  BY <1>1, <1>2

(* Every rank up to the number of the session's requests is one's. *)
LEMMA RowsAre ==
  ASSUME NEW reqs \in Seq(Kinds), NEW s, NEW k \in 1 .. Cardinality(Within(reqs, s))
  PROVE  Rows(reqs, s)[k] \in Within(reqs, s) /\ Rank(reqs, Rows(reqs, s)[k]) = k
<1>. DEFINE W == Within(reqs, s)
            c == Cardinality(W)
            rank == [i \in W |-> Rank(reqs, i)]
<1>1. IsFiniteSet(W) /\ c \in Nat
  BY WithinIs
<1>2. \A i \in W : Rank(reqs, i) \in 1 .. c
  BY RankIs
<1>3. \A i, j \in W : Rank(reqs, i) = Rank(reqs, j) => i = j
  BY RanksDiffer
<1>4. k \in 1 .. c
  OBVIOUS
<1>5. Rows(reqs, s)[k] = CHOOSE i \in W : Rank(reqs, i) = k
  BY DEF Rows
<1>. HIDE DEF W, c
<1>6. rank \in Injection(W, 1 .. c)
  BY <1>2, <1>3 DEF Injection, IsInjective
<1>7. IsFiniteSet(1 .. c) /\ Cardinality(1 .. c) = c
  BY <1>1, FS_Interval
<1>8. Cardinality(W) = Cardinality(1 .. c)
  BY <1>7 DEF c
<1>9. rank \in Surjection(W, 1 .. c)
  <2>. HIDE DEF rank
  <2>. QED
    BY <1>6, <1>7, <1>8, FS_Injection
<1>10. \E i \in W : Rank(reqs, i) = k
  BY <1>4, <1>9 DEF Surjection
<1>11. Rows(reqs, s)[k] \in W /\ Rank(reqs, Rows(reqs, s)[k]) = k
  BY <1>5, <1>10
<1>. QED
  BY <1>11 DEF W

LEMMA RowOf ==
  ASSUME NEW reqs \in Seq(Kinds), NEW s, NEW i \in Within(reqs, s)
  PROVE  Rows(reqs, s)[Rank(reqs, i)] = i
<1>1. Rank(reqs, i) \in 1 .. Cardinality(Within(reqs, s))
  BY RankIs
<1>2. /\ Rows(reqs, s)[Rank(reqs, i)] \in Within(reqs, s)
      /\ Rank(reqs, Rows(reqs, s)[Rank(reqs, i)]) = Rank(reqs, i)
  BY <1>1, RowsAre
<1>. QED
  BY <1>2, RanksDiffer

LEMMA SessionHere ==
  ASSUME NEW reqs \in Seq(Kinds), NEW i \in DOMAIN reqs
  PROVE  i \in Within(reqs, reqs[i].session)
BY DEF Within

-----------------------------------------------------------------------------
(* What the detectors claim of a request is a part of it.                    *)

LEMMA Portions ==
  ASSUME NEW amount \in Nat, NEW lo \in Nat, NEW mid \in Nat, NEW hi \in Nat,
         lo <= mid, mid <= hi, hi <= 100
  PROVE  LET c == Claim(amount, mid, lo, hi) IN
         /\ c.lo \in Nat /\ c.mid \in Nat /\ c.hi \in Nat
         /\ c.lo <= c.mid /\ c.mid <= c.hi /\ c.hi <= amount
<1>. DEFINE c == Claim(amount, mid, lo, hi)
<1>1. /\ c.lo = (amount * lo) \div 100 /\ c.mid = (amount * mid) \div 100
      /\ c.hi = (amount * hi) \div 100
  BY DEF Claim, Portion
<1>2. /\ amount * lo \in Nat /\ amount * mid \in Nat /\ amount * hi \in Nat
      /\ amount * lo <= amount * mid /\ amount * mid <= amount * hi
      /\ amount * hi <= amount * 100
  OBVIOUS
<1>. HIDE DEF c
<1>3. ASSUME NEW x \in Nat, NEW y \in Nat, x <= y PROVE x \div 100 <= y \div 100 /\ x \div 100 \in Nat
  BY <1>3
<1>4. (amount * 100) \div 100 = amount
  OBVIOUS
<1>5. c.hi \in Nat /\ c.hi <= amount
  BY <1>1, <1>2, <1>3, <1>4
<1>6. c.lo <= c.mid /\ c.lo \in Nat
  BY <1>1, <1>2, <1>3
<1>7. c.mid <= c.hi /\ c.mid \in Nat
  BY <1>1, <1>2, <1>3
<1>. QED
  BY <1>5, <1>6, <1>7 DEF c

LEMMA EarlySums ==
  ASSUME NEW reqs \in Seq(Kinds), NEW s, NEW n \in 0 .. Cardinality(Within(reqs, s))
  PROVE  /\ [k \in 1 .. n |-> Prompt(reqs[Rows(reqs, s)[k]])] \in [1 .. n -> Nat]
         /\ SumOver(reqs, s, n) = Total([k \in 1 .. n |-> Prompt(reqs[Rows(reqs, s)[k]])])
         /\ SumOver(reqs, s, n) \in Nat
<1>. DEFINE c == Cardinality(Within(reqs, s))
            f == [k \in 1 .. n |-> Prompt(reqs[Rows(reqs, s)[k]])]
<1>1. c \in Nat /\ n \in 0 .. c /\ n \in Nat
  BY WithinIs
<1>2. ASSUME NEW k \in 1 .. n PROVE Prompt(reqs[Rows(reqs, s)[k]]) \in Nat
  <2>1. k \in 1 .. c
    BY <1>1
  <2>2. Rows(reqs, s)[k] \in DOMAIN reqs
    BY <2>1, RowsAre, WithinIs
  <2>. QED
    BY <2>2, RequestAt, SentIs
<1>3. f \in [1 .. n -> Nat]
  BY <1>2
<1>4. SumOver(reqs, s, n) = Total(f)
  BY DEF SumOver
<1>. HIDE DEF f
<1>5. Total(f) \in Nat
  BY <1>1, <1>3, TotalTyped
<1>. QED
  BY <1>3, <1>4, <1>5 DEF f

LEMMA Shares ==
  ASSUME NEW p \in Nat, NEW sum \in Nat, NEW n \in Nat \ {0}, p * n - sum > 0
  PROVE  (p * n - sum) \div n \in Nat /\ (p * n - sum) \div n <= p
<1>. DEFINE over == p * n - sum
            q == over \div n
<1>1. over \in Nat /\ over <= p * n
  OBVIOUS
<1>. HIDE DEF over
<1>2. q \in Nat /\ q * n <= over
  BY <1>1
<1>. HIDE DEF q
<1>3. q * n <= p * n
  BY <1>1, <1>2
<1>4. q <= p
  <2>1. SUFFICES ASSUME q >= p + 1 PROVE FALSE
    BY <1>2
  <2>2. q * n >= (p + 1) * n
    BY <1>2, <2>1
  <2>3. (p + 1) * n = p * n + n
    OBVIOUS
  <2>. QED
    BY <1>2, <1>3, <2>2, <2>3
<1>. QED
  BY <1>2, <1>4 DEF over, q

EarlyRows(reqs, s) == Smaller(EarlyN, Smaller(LongSession, Cardinality(Within(reqs, s))))

LEMMA ExcessIs ==
  ASSUME NEW reqs \in Seq(Kinds), NEW i \in DOMAIN reqs
  PROVE  Excess(reqs, i) \in Nat /\ Excess(reqs, i) <= Prompt(reqs[i])
<1>. DEFINE s == reqs[i].session
            n == EarlyRows(reqs, s)
            c == Cardinality(Within(reqs, s))
            p == Prompt(reqs[i])
            sum == SumOver(reqs, s, n)
<1>1. c \in Nat /\ c >= 1
  <2>1. i \in Within(reqs, s)
    BY SessionHere
  <2>2. Rank(reqs, i) \in 1 .. c
    BY <2>1, RankIs
  <2>. QED
    BY <2>2, WithinIs
<1>2. EarlyN \in Nat \ {0} /\ LongSession \in Nat \ {0, 1}
  BY FindingsAssumption
<1>3. n \in Nat \ {0} /\ n \in 0 .. c
  <2>. HIDE DEF c
  <2>. QED
    BY <1>1, <1>2 DEF Smaller, EarlyRows, c
<1>4. p \in Nat
  BY RequestAt, SentIs
<1>5. sum \in Nat
  BY <1>3, EarlySums
<1>6. Excess(reqs, i) = IF p * n - sum > 0 THEN (p * n - sum) \div n ELSE 0
  BY DEF Excess, EarlyRows
<1>. HIDE DEF n, p, sum
<1>. QED
  <2>1. CASE p * n - sum > 0
    <3>1. Excess(reqs, i) = (p * n - sum) \div n
      BY <1>6, <2>1
    <3>2. (p * n - sum) \div n \in Nat /\ (p * n - sum) \div n <= p
      BY <1>3, <1>4, <1>5, <2>1, Shares
    <3>. QED
      BY <3>1, <3>2 DEF p
  <2>2. CASE ~(p * n - sum > 0)
    <3>1. Excess(reqs, i) = 0
      BY <1>6, <2>2
    <3>. QED
      BY <1>4, <3>1 DEF p
  <2>. QED
    BY <2>1, <2>2

(* A claim is a range, and no more than the request sent. *)
Fits(reqs, claims, i) ==
  /\ claims[i].lo \in Nat /\ claims[i].mid \in Nat /\ claims[i].hi \in Nat
  /\ claims[i].lo <= claims[i].mid /\ claims[i].mid <= claims[i].hi
  /\ claims[i].hi <= Prompt(reqs[i])

LEMMA PortionFits ==
  ASSUME NEW reqs, NEW claims, NEW i, NEW amount \in Nat, Prompt(reqs[i]) \in Nat,
         amount <= Prompt(reqs[i]),
         NEW lo \in Nat, NEW mid \in Nat, NEW hi \in Nat,
         lo <= mid, mid <= hi, hi <= 100, claims[i] = Claim(amount, mid, lo, hi)
  PROVE  Fits(reqs, claims, i)
<1>. DEFINE c == Claim(amount, mid, lo, hi)
<1>1. /\ c.lo \in Nat /\ c.mid \in Nat /\ c.hi \in Nat
      /\ c.lo <= c.mid /\ c.mid <= c.hi /\ c.hi <= amount
  BY Portions
<1>2. claims[i] = c
  OBVIOUS
<1>. HIDE DEF c
<1>. QED
  BY <1>1, <1>2 DEF Fits

LEMMA FoundAre ==
  ASSUME NEW reqs
  PROVE  /\ Len(AllFindings(reqs)) = 5 /\ DOMAIN AllFindings(reqs) = 1 .. 5
         /\ AllFindings(reqs)[1] = HeavyOnTrivial(reqs)
         /\ AllFindings(reqs)[2] = ContextTax(reqs)
         /\ AllFindings(reqs)[3] = CacheRewrites(reqs)
         /\ AllFindings(reqs)[4] = FatStarts(reqs)
         /\ AllFindings(reqs)[5] = RetryStorms(reqs)
BY DEF AllFindings

LEMMA ClaimsFit ==
  ASSUME NEW reqs \in Seq(Kinds), NEW f \in DOMAIN AllFindings(reqs)
  PROVE  LET claims == AllFindings(reqs)[f] IN
         /\ DOMAIN claims \subseteq DOMAIN reqs
         /\ \A i \in DOMAIN claims : Fits(reqs, claims, i)
<1>1. ASSUME NEW i \in DOMAIN reqs
      PROVE  Prompt(reqs[i]) \in Nat /\ Written(reqs[i]) \in Nat
             /\ Written(reqs[i]) <= Prompt(reqs[i]) /\ Prompt(reqs[i]) <= Prompt(reqs[i])
  <2>1. Prompt(reqs[i]) \in Nat /\ Written(reqs[i]) \in Nat /\ Written(reqs[i]) <= Prompt(reqs[i])
    BY RequestAt, SentIs
  <2>. QED
    BY <2>1
<1>2. LET claims == HeavyOnTrivial(reqs) IN
      DOMAIN claims \subseteq DOMAIN reqs /\ \A i \in DOMAIN claims : Fits(reqs, claims, i)
  <2>. DEFINE claims == HeavyOnTrivial(reqs)
  <2>1. /\ DOMAIN claims \subseteq DOMAIN reqs
        /\ \A i \in DOMAIN claims : claims[i] = Claim(Prompt(reqs[i]), 50, 25, 75)
    BY DEF HeavyOnTrivial
  <2>. HIDE DEF claims
  <2>2. ASSUME NEW i \in DOMAIN claims PROVE Fits(reqs, claims, i)
    BY <1>1, <2>1, PortionFits
  <2>. QED
    BY <2>1, <2>2 DEF claims
<1>3. LET claims == ContextTax(reqs) IN
      DOMAIN claims \subseteq DOMAIN reqs /\ \A i \in DOMAIN claims : Fits(reqs, claims, i)
  <2>. DEFINE claims == ContextTax(reqs)
  <2>1. /\ DOMAIN claims \subseteq DOMAIN reqs
        /\ \A i \in DOMAIN claims : claims[i] = Claim(Excess(reqs, i), 60, 40, 80)
    BY DEF ContextTax
  <2>. HIDE DEF claims
  <2>2. ASSUME NEW i \in DOMAIN claims PROVE Fits(reqs, claims, i)
    <3>1. i \in DOMAIN reqs /\ claims[i] = Claim(Excess(reqs, i), 60, 40, 80)
      BY <2>1
    <3>2. Excess(reqs, i) \in Nat /\ Excess(reqs, i) <= Prompt(reqs[i])
      BY <3>1, ExcessIs
    <3>. QED
      BY <1>1, <3>1, <3>2, PortionFits
  <2>. QED
    BY <2>1, <2>2 DEF claims
<1>4. LET claims == CacheRewrites(reqs) IN
      DOMAIN claims \subseteq DOMAIN reqs /\ \A i \in DOMAIN claims : Fits(reqs, claims, i)
  <2>. DEFINE claims == CacheRewrites(reqs)
  <2>1. /\ DOMAIN claims \subseteq DOMAIN reqs
        /\ \A i \in DOMAIN claims : claims[i] = Claim(Written(reqs[i]), 100, 100, 100)
    BY DEF CacheRewrites
  <2>. HIDE DEF claims
  <2>2. ASSUME NEW i \in DOMAIN claims PROVE Fits(reqs, claims, i)
    BY <1>1, <2>1, PortionFits
  <2>. QED
    BY <2>1, <2>2 DEF claims
<1>5. LET claims == FatStarts(reqs) IN
      DOMAIN claims \subseteq DOMAIN reqs /\ \A i \in DOMAIN claims : Fits(reqs, claims, i)
  <2>. DEFINE claims == FatStarts(reqs)
  <2>1. /\ DOMAIN claims \subseteq DOMAIN reqs
        /\ \A i \in DOMAIN claims :
             /\ Written(reqs[i]) > FatStart
             /\ claims[i] = Claim(Written(reqs[i]) - FatStart, 50, 25, 75)
    BY DEF FatStarts
  <2>. HIDE DEF claims
  <2>2. ASSUME NEW i \in DOMAIN claims PROVE Fits(reqs, claims, i)
    <3>. DEFINE amount == Written(reqs[i]) - FatStart
    <3>1. i \in DOMAIN reqs /\ claims[i] = Claim(amount, 50, 25, 75) /\ Written(reqs[i]) > FatStart
      BY <2>1
    <3>2. FatStart \in Nat
      BY FindingsAssumption
    <3>3. amount \in Nat /\ amount <= Prompt(reqs[i])
      BY <1>1, <3>1, <3>2
    <3>. HIDE DEF amount
    <3>. QED
      BY <1>1, <3>1, <3>3, PortionFits
  <2>. QED
    BY <2>1, <2>2 DEF claims
<1>6. LET claims == RetryStorms(reqs) IN
      DOMAIN claims \subseteq DOMAIN reqs /\ \A i \in DOMAIN claims : Fits(reqs, claims, i)
  <2>. DEFINE claims == RetryStorms(reqs)
  <2>1. /\ DOMAIN claims \subseteq DOMAIN reqs
        /\ \A i \in DOMAIN claims : claims[i] = Claim(Prompt(reqs[i]), 50, 25, 75)
    BY DEF RetryStorms
  <2>. HIDE DEF claims
  <2>2. ASSUME NEW i \in DOMAIN claims PROVE Fits(reqs, claims, i)
    BY <1>1, <2>1, PortionFits
  <2>. QED
    BY <2>1, <2>2 DEF claims
<1>7. f \in 1 .. 5
  BY FoundAre
<1>. QED
  <2>1. CASE f = 1
    BY <1>2, <2>1, FoundAre, Zenon
  <2>2. CASE f = 2
    BY <1>3, <2>2, FoundAre, Zenon
  <2>3. CASE f = 3
    BY <1>4, <2>3, FoundAre, Zenon
  <2>4. CASE f = 4
    BY <1>5, <2>4, FoundAre, Zenon
  <2>5. CASE f = 5
    BY <1>6, <2>5, FoundAre, Zenon
  <2>. QED
    BY <1>7, <2>1, <2>2, <2>3, <2>4, <2>5

-----------------------------------------------------------------------------
(* Findings and the headline are sums of such parts.                         *)

LEMMA CappedGrows ==
  ASSUME NEW m \in Nat, NEW n \in Nat, m <= n
  PROVE  Capped(m) <= Capped(n) /\ Capped(m) \in Nat
BY TokensAre DEF Capped

LEMMA FieldsAre ==
  ASSUME NEW claims, NEW i
  PROVE  /\ Claimed(claims, i, "mid") = IF i \in DOMAIN claims THEN claims[i].mid ELSE 0
         /\ Claimed(claims, i, "hi") = IF i \in DOMAIN claims THEN claims[i].hi ELSE 0
BY DEF Claimed

LEMMA ClaimedIs ==
  ASSUME NEW reqs \in Seq(Kinds), NEW f \in DOMAIN AllFindings(reqs), NEW i \in DOMAIN reqs
  PROVE  LET claims == AllFindings(reqs)[f] IN
         /\ Claimed(claims, i, "mid") \in Nat /\ Claimed(claims, i, "hi") \in Nat
         /\ Claimed(claims, i, "mid") <= Prompt(reqs[i])
         /\ Claimed(claims, i, "hi") <= Prompt(reqs[i])
<1>. DEFINE claims == AllFindings(reqs)[f]
<1>1. \A j \in DOMAIN claims : Fits(reqs, claims, j)
  BY ClaimsFit
<1>2. Prompt(reqs[i]) \in Nat
  BY RequestAt, SentIs
<1>3. /\ Claimed(claims, i, "mid") = IF i \in DOMAIN claims THEN claims[i].mid ELSE 0
      /\ Claimed(claims, i, "hi") = IF i \in DOMAIN claims THEN claims[i].hi ELSE 0
  BY FieldsAre
<1>. HIDE DEF claims
<1>4. CASE i \in DOMAIN claims
  <2>1. /\ claims[i].mid \in Nat /\ claims[i].hi \in Nat
        /\ claims[i].mid <= claims[i].hi /\ claims[i].hi <= Prompt(reqs[i])
    BY <1>1, <1>4 DEF Fits
  <2>. QED
    BY <1>2, <1>3, <1>4, <2>1 DEF claims
<1>5. CASE i \notin DOMAIN claims
  BY <1>2, <1>3, <1>5 DEF claims
<1>. QED
  BY <1>4, <1>5

LEMMA HeadlineIs ==
  ASSUME NEW P \in Nat, NEW mids, NEW g \in DOMAIN mids, \A f \in DOMAIN mids : mids[f] \in 0 .. P
  PROVE  Headline(mids) \in 0 .. P /\ \A f \in DOMAIN mids : mids[f] <= Headline(mids)
<1>. DEFINE all == {mids[f] : f \in DOMAIN mids}
            T == {P - n : n \in all}
            most == CHOOSE m \in all : \A n \in all : n <= m
<1>1. all \subseteq 0 .. P /\ mids[g] \in all
  OBVIOUS
<1>2. Headline(mids) = most
  BY DEF Headline
<1>3. \A f \in DOMAIN mids : mids[f] \in all
  OBVIOUS
<1>. HIDE DEF all
<1>4. T \subseteq Nat /\ T # {}
  <2>1. \A n \in all : P - n \in Nat
    BY <1>1
  <2>2. P - mids[g] \in T
    BY <1>1
  <2>3. ASSUME NEW x \in T PROVE x \in Nat
    <3>1. PICK n \in all : x = P - n
      OBVIOUS
    <3>. QED
      BY <2>1, <3>1
  <2>. QED
    BY <2>2, <2>3
<1>5. \E m \in T : \A k \in T : m <= k
  <2>. HIDE DEF T
  <2>. QED
    BY <1>4, LeastNat
<1>6. \E m \in all : \A n \in all : n <= m
  <2>1. PICK x \in T : \A k \in T : x <= k
    BY <1>5
  <2>2. PICK m \in all : x = P - m
    BY <2>1
  <2>3. ASSUME NEW n \in all PROVE n <= m
    <3>1. P - n \in T
      OBVIOUS
    <3>2. P - m <= P - n
      BY <2>1, <2>2, <3>1
    <3>. QED
      BY <1>1, <3>2
  <2>. QED
    BY <2>3
<1>7. most \in all /\ \A n \in all : n <= most
  BY <1>6
<1>. HIDE DEF most
<1>. QED
  BY <1>1, <1>2, <1>3, <1>7

(* What counts of each request. *)
Heads(reqs) ==
  [i \in DOMAIN reqs |->
     Headline([f \in DOMAIN AllFindings(reqs) |-> Claimed(AllFindings(reqs)[f], i, "mid")])]

LEMMA HeadsAre ==
  ASSUME NEW reqs \in Seq(Kinds)
  PROVE  /\ Heads(reqs) \in [1 .. Len(reqs) -> Nat]
         /\ ReclaimTotal(reqs) = Capped(Total(Heads(reqs)))
         /\ \A i \in 1 .. Len(reqs) :
              /\ Heads(reqs)[i] <= Prompt(reqs[i])
              /\ \A f \in DOMAIN AllFindings(reqs) :
                   Claimed(AllFindings(reqs)[f], i, "mid") <= Heads(reqs)[i]
<1>. DEFINE found == AllFindings(reqs)
<1>1. DOMAIN reqs = 1 .. Len(reqs)
  OBVIOUS
<1>2. ReclaimTotal(reqs) = Capped(Total(Heads(reqs)))
  BY DEF ReclaimTotal, Heads
<1>3. ASSUME NEW i \in DOMAIN reqs
      PROVE  /\ Heads(reqs)[i] \in Nat /\ Heads(reqs)[i] <= Prompt(reqs[i])
             /\ \A f \in DOMAIN found : Claimed(found[f], i, "mid") <= Heads(reqs)[i]
  <2>. DEFINE mids == [f \in DOMAIN found |-> Claimed(found[f], i, "mid")]
              P == Prompt(reqs[i])
  <2>1. P \in Nat
    BY RequestAt, SentIs
  <2>2. \A f \in DOMAIN found : Claimed(found[f], i, "mid") \in Nat
                                /\ Claimed(found[f], i, "mid") <= P
    BY ClaimedIs
  <2>3. Heads(reqs)[i] = Headline(mids)
    BY DEF Heads
  <2>4. 1 \in DOMAIN found
    BY FoundAre
  <2>. HIDE DEF found, P
  <2>5. /\ DOMAIN mids = DOMAIN found /\ 1 \in DOMAIN mids
        /\ \A f \in DOMAIN mids : mids[f] \in 0 .. P /\ mids[f] = Claimed(found[f], i, "mid")
    BY <2>1, <2>2, <2>4
  <2>. HIDE DEF mids
  <2>6. Headline(mids) \in 0 .. P /\ \A f \in DOMAIN mids : mids[f] <= Headline(mids)
    BY <2>1, <2>5, HeadlineIs
  <2>7. Heads(reqs)[i] \in Nat /\ Heads(reqs)[i] <= P
    BY <2>1, <2>3, <2>6
  <2>8. \A f \in DOMAIN found : Claimed(found[f], i, "mid") <= Heads(reqs)[i]
    BY <2>3, <2>5, <2>6
  <2>. QED
    BY <2>7, <2>8 DEF P
<1>4. Heads(reqs) \in [1 .. Len(reqs) -> Nat]
  <2>1. Heads(reqs) = [i \in 1 .. Len(reqs) |-> Heads(reqs)[i]]
    BY <1>1 DEF Heads
  <2>. QED
    BY <1>1, <1>3, <2>1
<1>. QED
  BY <1>1, <1>2, <1>3, <1>4

Prompts(reqs) == [i \in DOMAIN reqs |-> Prompt(reqs[i])]

LEMMA PromptsAre ==
  ASSUME NEW reqs \in Seq(Kinds)
  PROVE  /\ Prompts(reqs) \in [1 .. Len(reqs) -> Nat] /\ Len(reqs) \in Nat
         /\ TrueSum(reqs, Prompt) = Total(Prompts(reqs))
         /\ \A i \in 1 .. Len(reqs) : Prompts(reqs)[i] = Prompt(reqs[i])
<1>1. DOMAIN reqs = 1 .. Len(reqs) /\ Len(reqs) \in Nat
  OBVIOUS
<1>2. \A i \in DOMAIN reqs : Prompt(reqs[i]) \in Nat
  BY RequestAt, SentIs
<1>3. TrueSum(reqs, Prompt) = Total(Prompts(reqs))
  BY DEF TrueSum, Prompts
<1>. QED
  BY <1>1, <1>2, <1>3 DEF Prompts

LEMMA FindingsBounded ==
  ASSUME NEW reqs \in Seq(Kinds), NEW f \in DOMAIN AllFindings(reqs)
  PROVE  /\ Impact(reqs, AllFindings(reqs)[f], "hi") <= Capped(TrueSum(reqs, Prompt))
         /\ Impact(reqs, AllFindings(reqs)[f], "mid") <= ReclaimTotal(reqs)
<1>. DEFINE claims == AllFindings(reqs)[f]
            n == Len(reqs)
            mids == [i \in DOMAIN reqs |-> Claimed(claims, i, "mid")]
            his == [i \in DOMAIN reqs |-> Claimed(claims, i, "hi")]
<1>1. /\ Prompts(reqs) \in [1 .. n -> Nat] /\ n \in Nat
      /\ TrueSum(reqs, Prompt) = Total(Prompts(reqs))
      /\ \A i \in 1 .. n : Prompts(reqs)[i] = Prompt(reqs[i])
  BY PromptsAre
<1>2. /\ Heads(reqs) \in [1 .. n -> Nat] /\ ReclaimTotal(reqs) = Capped(Total(Heads(reqs)))
      /\ \A i \in 1 .. n : Claimed(claims, i, "mid") <= Heads(reqs)[i]
  BY HeadsAre
<1>3. DOMAIN reqs = 1 .. n
  OBVIOUS
<1>4. /\ Impact(reqs, claims, "hi") = Capped(Total(his))
      /\ Impact(reqs, claims, "mid") = Capped(Total(mids))
  BY DEF Impact
<1>5. \A i \in DOMAIN reqs : /\ Claimed(claims, i, "mid") \in Nat /\ Claimed(claims, i, "hi") \in Nat
                             /\ Claimed(claims, i, "hi") <= Prompt(reqs[i])
  BY ClaimedIs
<1>. HIDE DEF claims, n
<1>6. /\ mids \in [1 .. n -> Nat] /\ his \in [1 .. n -> Nat]
      /\ \A i \in 1 .. n : mids[i] <= Heads(reqs)[i] /\ his[i] <= Prompts(reqs)[i]
  BY <1>1, <1>2, <1>3, <1>5
<1>. HIDE DEF mids, his
<1>7. Total(his) <= Total(Prompts(reqs)) /\ Total(his) \in Nat /\ Total(Prompts(reqs)) \in Nat
  BY <1>1, <1>6, TotalGrows, TotalTyped
<1>8. Total(mids) <= Total(Heads(reqs)) /\ Total(mids) \in Nat /\ Total(Heads(reqs)) \in Nat
  BY <1>1, <1>2, <1>6, TotalGrows, TotalTyped
<1>9. /\ Capped(Total(his)) <= Capped(Total(Prompts(reqs)))
      /\ Capped(Total(mids)) <= Capped(Total(Heads(reqs)))
  BY <1>7, <1>8, CappedGrows
<1>. QED
  BY <1>1, <1>2, <1>4, <1>9 DEF claims

LEMMA HeadlineBounded ==
  ASSUME NEW reqs \in Seq(Kinds)
  PROVE  ReclaimTotal(reqs) <= Capped(TrueSum(reqs, Prompt))
<1>. DEFINE n == Len(reqs)
<1>1. /\ Prompts(reqs) \in [1 .. n -> Nat] /\ n \in Nat
      /\ TrueSum(reqs, Prompt) = Total(Prompts(reqs))
      /\ \A i \in 1 .. n : Prompts(reqs)[i] = Prompt(reqs[i])
  BY PromptsAre
<1>2. /\ Heads(reqs) \in [1 .. n -> Nat] /\ ReclaimTotal(reqs) = Capped(Total(Heads(reqs)))
      /\ \A i \in 1 .. n : Heads(reqs)[i] <= Prompt(reqs[i])
  BY HeadsAre
<1>. HIDE DEF n
<1>3. Total(Heads(reqs)) <= Total(Prompts(reqs))
      /\ Total(Heads(reqs)) \in Nat /\ Total(Prompts(reqs)) \in Nat
  BY <1>1, <1>2, TotalGrows, TotalTyped
<1>. QED
  BY <1>1, <1>2, <1>3, CappedGrows

-----------------------------------------------------------------------------
(* A request that comes last in time changes nothing of what was found.      *)

(* The same requests, and one after them. *)
Extends(now, old) ==
  /\ now \in Seq(Kinds) /\ old \in Seq(Kinds) /\ Len(now) = Len(old) + 1
  /\ \A i \in DOMAIN old : old[i] = now[i]
  /\ \A i \in DOMAIN now : now[i].ts # NoTime /\ now[i].ts <= now[Len(now)].ts

LEMMA ExtendedBy ==
  ASSUME NEW now \in Seq(Kinds), now # << >>, InOrder(now)
  PROVE  Extends(now, SubSeq(now, 1, Len(now) - 1))
<1>. DEFINE m == Len(now) - 1
            old == SubSeq(now, 1, m)
<1>1. Len(now) \in Nat /\ Len(now) # 0 /\ \A i \in 1 .. Len(now) : now[i] \in Kinds
  OBVIOUS
<1>2. m \in Nat /\ Len(now) = m + 1 /\ \A i \in 1 .. m : now[i] \in Kinds
  BY <1>1
<1>. HIDE DEF m
<1>3. /\ old \in Seq(Kinds) /\ Len(old) = (IF 1 <= m THEN m - 1 + 1 ELSE 0)
      /\ \A i \in 1 .. m - 1 + 1 : old[i] = now[1 + i - 1]
  BY <1>2, SubSeqProperties
<1>. HIDE DEF old
<1>4. Len(old) = m /\ DOMAIN old = 1 .. m /\ \A i \in 1 .. m : old[i] = now[i]
  BY <1>2, <1>3
<1>5. Extends(now, old)
  BY <1>2, <1>3, <1>4 DEF Extends, InOrder
<1>. QED
  BY <1>5 DEF old, m

LEMMA OldPlaces ==
  ASSUME NEW now, NEW old, Extends(now, old)
  PROVE  /\ DOMAIN old = 1 .. Len(old) /\ Len(old) \in Nat
         /\ DOMAIN now = 1 .. Len(old) + 1
         /\ \A i \in DOMAIN old : i \in DOMAIN now
         /\ \A s : Within(old, s) = Within(now, s) \ {Len(old) + 1}
<1>1. /\ DOMAIN old = 1 .. Len(old) /\ Len(old) \in Nat /\ DOMAIN now = 1 .. Len(old) + 1
      /\ \A i \in DOMAIN old : old[i] = now[i]
  BY DEF Extends
<1>2. ASSUME NEW s PROVE Within(old, s) = Within(now, s) \ {Len(old) + 1}
  <2>1. ASSUME NEW i \in Within(old, s) PROVE i \in Within(now, s) \ {Len(old) + 1}
    BY <1>1 DEF Within
  <2>2. ASSUME NEW i \in Within(now, s), i # Len(old) + 1 PROVE i \in Within(old, s)
    <3>1. i \in DOMAIN now /\ now[i].session = s
      BY DEF Within
    <3>2. i \in DOMAIN old
      BY <1>1, <2>2, <3>1
    <3>. QED
      BY <1>1, <3>1, <3>2 DEF Within
  <2>. QED
    BY <2>1, <2>2
<1>. QED
  BY <1>1, <1>2

LEMMA OldRanks ==
  ASSUME NEW now, NEW old, Extends(now, old), NEW i \in DOMAIN old
  PROVE  Rank(now, i) = Rank(old, i)
<1>. DEFINE n == Len(old) + 1
            s == old[i].session
<1>1. /\ now \in Seq(Kinds) /\ old \in Seq(Kinds) /\ Len(now) = n
      /\ \A j \in DOMAIN old : old[j] = now[j]
      /\ \A j \in DOMAIN now : now[j].ts # NoTime /\ now[j].ts <= now[n].ts
  BY DEF Extends
<1>2. /\ DOMAIN old = 1 .. Len(old) /\ Len(old) \in Nat /\ DOMAIN now = 1 .. n
      /\ i \in DOMAIN now /\ Within(old, s) = Within(now, s) \ {n}
  BY OldPlaces
<1>3. ~Precedes(now, n, i)
  <2>. DEFINE a == now[n].ts
              b == now[i].ts
  <2>1. n \in DOMAIN now /\ i < n
    BY <1>2
  <2>2. a \in Nat \cup {NoTime} /\ b \in Nat \cup {NoTime}
    BY <1>1, <1>2, <2>1, RequestAt
  <2>3. a # NoTime /\ b # NoTime /\ b <= a
    BY <1>1, <1>2, <2>1
  <2>4. Precedes(now, n, i) <=> (a # NoTime /\ (b = NoTime \/ a < b)) \/ (a = b /\ n < i)
    BY DEF Precedes
  <2>5. i \in Nat /\ n \in Nat
    BY <1>2
  <2>. HIDE DEF a, b, n
  <2>. QED
    BY <2>1, <2>2, <2>3, <2>4, <2>5
<1>4. \A j \in DOMAIN old : Precedes(old, j, i) <=> Precedes(now, j, i)
  BY <1>1 DEF Precedes
<1>5. now[i].session = s
  BY <1>1
<1>6. Ahead(now, i) = Ahead(old, i)
  <2>1. Within(old, s) \subseteq DOMAIN old
    BY <1>1, WithinIs
  <2>2. ASSUME NEW j \in Ahead(now, i) PROVE j \in Ahead(old, i)
    <3>1. j \in Within(now, s) /\ Precedes(now, j, i)
      BY <1>5 DEF Ahead
    <3>2. j \in Within(old, s)
      BY <1>2, <1>3, <3>1
    <3>. QED
      BY <1>4, <2>1, <3>1, <3>2 DEF Ahead
  <2>3. ASSUME NEW j \in Ahead(old, i) PROVE j \in Ahead(now, i)
    <3>1. j \in Within(old, s) /\ Precedes(old, j, i)
      BY DEF Ahead
    <3>2. j \in Within(now, s)
      BY <1>2, <3>1
    <3>. QED
      BY <1>4, <1>5, <2>1, <3>1, <3>2 DEF Ahead
  <2>. QED
    BY <2>2, <2>3
<1>7. i \in Within(old, s) /\ i \in Within(now, s)
  BY <1>1, <1>2, <1>5 DEF Within
<1>8. Rank(now, i) = 1 + Cardinality(Ahead(now, i)) /\ Rank(old, i) = 1 + Cardinality(Ahead(old, i))
  BY <1>1, <1>7, RankIs
<1>. QED
  BY <1>6, <1>8

LEMMA OldRows ==
  ASSUME NEW now, NEW old, Extends(now, old), NEW s
  PROVE  /\ Cardinality(Within(old, s)) \in Nat /\ Cardinality(Within(now, s)) \in Nat
         /\ Cardinality(Within(old, s)) <= Cardinality(Within(now, s))
         /\ \A k \in 1 .. Cardinality(Within(old, s)) :
              /\ Rows(now, s)[k] = Rows(old, s)[k] /\ Rows(old, s)[k] \in DOMAIN old
<1>0. now \in Seq(Kinds) /\ old \in Seq(Kinds)
  BY DEF Extends
<1>1. /\ IsFiniteSet(Within(now, s)) /\ Cardinality(Within(now, s)) \in Nat
      /\ IsFiniteSet(Within(old, s)) /\ Cardinality(Within(old, s)) \in Nat
      /\ Within(old, s) \subseteq DOMAIN old
  BY <1>0, WithinIs
<1>2. Within(old, s) \in SUBSET Within(now, s)
  BY OldPlaces
<1>3. Cardinality(Within(old, s)) <= Cardinality(Within(now, s))
  BY <1>1, <1>2, FS_Subset
<1>4. ASSUME NEW k \in 1 .. Cardinality(Within(old, s))
      PROVE  Rows(now, s)[k] = Rows(old, s)[k] /\ Rows(old, s)[k] \in DOMAIN old
  <2>. DEFINE i == Rows(old, s)[k]
  <2>1. i \in Within(old, s) /\ Rank(old, i) = k
    BY <1>0, RowsAre
  <2>. HIDE DEF i
  <2>2. i \in DOMAIN old /\ i \in Within(now, s)
    BY <1>1, <1>2, <2>1
  <2>3. Rank(now, i) = k
    BY <2>1, <2>2, OldRanks
  <2>4. Rows(now, s)[Rank(now, i)] = i
    BY <1>0, <2>2, RowOf
  <2>. QED
    BY <2>2, <2>3, <2>4 DEF i
<1>. QED
  BY <1>1, <1>3, <1>4

LEMMA OldSums ==
  ASSUME NEW now, NEW old, Extends(now, old), NEW s,
         NEW n \in 0 .. Cardinality(Within(old, s))
  PROVE  SumOver(now, s, n) = SumOver(old, s, n)
<1>. DEFINE f == [k \in 1 .. n |-> Prompt(now[Rows(now, s)[k]])]
            g == [k \in 1 .. n |-> Prompt(old[Rows(old, s)[k]])]
<1>1. SumOver(now, s, n) = Total(f) /\ SumOver(old, s, n) = Total(g)
  BY DEF SumOver
<1>2. ASSUME NEW k \in 1 .. n PROVE f[k] = g[k]
  <2>1. k \in 1 .. Cardinality(Within(old, s))
    BY OldRows
  <2>2. Rows(now, s)[k] = Rows(old, s)[k] /\ Rows(old, s)[k] \in DOMAIN old
    BY <2>1, OldRows
  <2>3. now[Rows(now, s)[k]] = old[Rows(old, s)[k]]
    BY <2>2 DEF Extends
  <2>. QED
    BY <2>3
<1>3. f = g
  BY <1>2
<1>. QED
  BY <1>1, <1>3

LEMMA OldPrevious ==
  ASSUME NEW now, NEW old, Extends(now, old), NEW i \in DOMAIN old, Rank(old, i) > 1
  PROVE  Previous(now, i) = Previous(old, i)
<1>. DEFINE s == old[i].session
            k == Rank(old, i) - 1
<1>0. /\ now \in Seq(Kinds) /\ old \in Seq(Kinds)
      /\ \A j \in DOMAIN old : old[j] = now[j]
  BY DEF Extends
<1>1. Rank(old, i) \in 1 .. Cardinality(Within(old, s))
  BY <1>0, SessionHere, RankIs
<1>2. k \in 1 .. Cardinality(Within(old, s))
  BY <1>1, OldRows
<1>3. Rows(now, s)[k] = Rows(old, s)[k] /\ Rows(old, s)[k] \in DOMAIN old
  BY <1>2, OldRows
<1>4. Rank(now, i) - 1 = k /\ now[i].session = s
  BY <1>0, OldRanks
<1>5. Previous(now, i) = now[Rows(now, s)[k]] /\ Previous(old, i) = old[Rows(old, s)[k]]
  BY <1>4 DEF Previous
<1>. QED
  BY <1>0, <1>3, <1>5

LEMMA OldExcess ==
  ASSUME NEW now, NEW old, Extends(now, old), NEW i \in DOMAIN old,
         Rank(old, i) > LongSession
  PROVE  Excess(now, i) = Excess(old, i)
<1>. DEFINE s == old[i].session
            c == Cardinality(Within(old, s))
            d == Cardinality(Within(now, s))
            n == Smaller(EarlyN, LongSession)
<1>0. now \in Seq(Kinds) /\ old \in Seq(Kinds) /\ old[i] = now[i]
  BY DEF Extends
<1>1. c \in Nat /\ d \in Nat /\ c <= d
  BY OldRows
<1>2. Rank(old, i) \in 1 .. c
  BY <1>0, SessionHere, RankIs
<1>3. EarlyN \in Nat \ {0} /\ LongSession \in Nat \ {0, 1}
  BY FindingsAssumption
<1>4. Smaller(LongSession, c) = LongSession /\ Smaller(LongSession, d) = LongSession
      /\ n \in 0 .. c
  <2>. HIDE DEF c, d
  <2>. QED
    BY <1>1, <1>2, <1>3 DEF Smaller
<1>5. SumOver(now, s, n) = SumOver(old, s, n)
  <2>. HIDE DEF n
  <2>. QED
    BY <1>4, OldSums
<1>6. now[i].session = s
  BY <1>0
<1>. HIDE DEF s
<1>. QED
  BY <1>0, <1>4, <1>5, <1>6 DEF Excess, s

LEMMA FoundStays ==
  ASSUME NEW now, NEW old, Extends(now, old), NEW f \in DOMAIN AllFindings(now),
         NEW i \in DOMAIN AllFindings(old)[f]
  PROVE  /\ i \in DOMAIN AllFindings(now)[f]
         /\ AllFindings(now)[f][i] = AllFindings(old)[f][i]
<1>0. now \in Seq(Kinds) /\ old \in Seq(Kinds)
  BY DEF Extends
<1>1. ASSUME NEW j \in DOMAIN old
      PROVE  j \in DOMAIN now /\ now[j] = old[j] /\ Rank(now, j) = Rank(old, j)
  <2>1. now[j] = old[j]
    BY DEF Extends
  <2>. QED
    BY <2>1, OldPlaces, OldRanks
<1>2. i \in DOMAIN old
  <2>1. f \in DOMAIN AllFindings(old)
    BY FoundAre
  <2>. QED
    BY <1>0, <2>1, ClaimsFit
<1>3. ASSUME NEW j \in DOMAIN old, Resent(old, j) PROVE Resent(now, j)
  <2>1. Rank(old, j) > 1 /\ Previous(now, j) = Previous(old, j)
    BY <1>3, OldPrevious DEF Resent
  <2>. QED
    BY <1>1, <1>3, <2>1 DEF Resent
<1>4. CASE f = 1
  <2>1. i \in DOMAIN HeavyOnTrivial(old)
    BY <1>4, FoundAre
  <2>2. i \in DOMAIN HeavyOnTrivial(now) /\ HeavyOnTrivial(now)[i] = HeavyOnTrivial(old)[i]
    BY <1>1, <1>2, <2>1 DEF HeavyOnTrivial
  <2>. QED
    BY <1>4, <2>2, FoundAre
<1>5. CASE f = 2
  <2>1. i \in DOMAIN ContextTax(old)
    BY <1>5, FoundAre
  <2>2. Rank(old, i) > LongSession /\ Excess(old, i) > 0
    BY <2>1 DEF ContextTax
  <2>3. Excess(now, i) = Excess(old, i)
    BY <1>2, <2>2, OldExcess
  <2>4. i \in DOMAIN ContextTax(now) /\ ContextTax(now)[i] = ContextTax(old)[i]
    BY <1>1, <1>2, <2>1, <2>2, <2>3 DEF ContextTax
  <2>. QED
    BY <1>5, <2>4, FoundAre
<1>6. CASE f = 3
  <2>1. i \in DOMAIN CacheRewrites(old)
    BY <1>6, FoundAre
  <2>2. Rewrites(old, i)
    BY <2>1 DEF CacheRewrites
  <2>3. Rank(old, i) > 1
    BY <2>2 DEF Rewrites
  <2>4. Previous(now, i) = Previous(old, i)
    BY <1>2, <2>3, OldPrevious
  <2>5. Rewrites(now, i)
    BY <1>1, <1>2, <2>2, <2>4 DEF Rewrites
  <2>6. i \in DOMAIN CacheRewrites(now) /\ CacheRewrites(now)[i] = CacheRewrites(old)[i]
    BY <1>1, <1>2, <2>1, <2>5 DEF CacheRewrites
  <2>. QED
    BY <1>6, <2>6, FoundAre
<1>7. CASE f = 4
  <2>1. i \in DOMAIN FatStarts(old)
    BY <1>7, FoundAre
  <2>2. i \in DOMAIN FatStarts(now) /\ FatStarts(now)[i] = FatStarts(old)[i]
    BY <1>1, <1>2, <2>1 DEF FatStarts
  <2>. QED
    BY <1>7, <2>2, FoundAre
<1>8. CASE f = 5
  <2>1. i \in DOMAIN RetryStorms(old)
    BY <1>8, FoundAre
  <2>2. /\ Resent(old, i)
        /\ \E j \in Within(old, old[i].session) :
             Rank(old, j) \in {Rank(old, i) - 1, Rank(old, i) + 1} /\ Resent(old, j)
    BY <2>1 DEF RetryStorms
  <2>3. PICK j \in Within(old, old[i].session) :
          Rank(old, j) \in {Rank(old, i) - 1, Rank(old, i) + 1} /\ Resent(old, j)
    BY <2>2
  <2>4. j \in DOMAIN old /\ j \in Within(now, now[i].session)
    BY <1>0, <1>1, <1>2, WithinIs, OldPlaces
  <2>5. /\ Resent(now, i) /\ Resent(now, j)
        /\ Rank(now, j) \in {Rank(now, i) - 1, Rank(now, i) + 1}
    BY <1>1, <1>2, <1>3, <2>2, <2>3, <2>4
  <2>6. i \in DOMAIN RetryStorms(now)
    BY <1>1, <1>2, <2>4, <2>5 DEF RetryStorms
  <2>7. RetryStorms(now)[i] = RetryStorms(old)[i]
    BY <1>1, <1>2, <2>1, <2>6 DEF RetryStorms
  <2>. QED
    BY <1>8, <2>6, <2>7, FoundAre
<1>9. f \in 1 .. 5
  BY FoundAre
<1>. QED
  BY <1>4, <1>5, <1>6, <1>7, <1>8, <1>9

LEMMA ImpactNow == WasteTypeOK => ImpactIsBounded
<1>. SUFFICES ASSUME WasteTypeOK PROVE ImpactIsBounded
  OBVIOUS
<1>1. requests \in Seq(Kinds)
  BY DEF WasteTypeOK
<1>. DEFINE found == AllFindings(requests)
            sent == Capped(TrueSum(requests, Prompt))
            total == ReclaimTotal(requests)
            earlier == AllFindings(SubSeq(requests, 1, Len(requests) - 1))
<1>2. ASSUME NEW f \in DOMAIN found
      PROVE  /\ \A i \in DOMAIN found[f] :
                  found[f][i].lo <= found[f][i].mid /\ found[f][i].mid <= found[f][i].hi
             /\ Impact(requests, found[f], "hi") <= sent
             /\ Impact(requests, found[f], "mid") <= total
  <2>1. \A i \in DOMAIN found[f] : Fits(requests, found[f], i)
    BY <1>1, ClaimsFit
  <2>2. \A i \in DOMAIN found[f] :
          found[f][i].lo <= found[f][i].mid /\ found[f][i].mid <= found[f][i].hi
    <3>. HIDE DEF found
    <3>. QED
      BY <2>1 DEF Fits
  <2>. QED
    BY <1>1, <2>2, FindingsBounded
<1>3. total <= sent
  BY <1>1, HeadlineBounded
<1>4. ASSUME requests # << >>, InOrder(requests), NEW f \in DOMAIN found, NEW i \in DOMAIN earlier[f]
      PROVE  i \in DOMAIN found[f] /\ found[f][i] = earlier[f][i]
  <2>1. Extends(requests, SubSeq(requests, 1, Len(requests) - 1))
    BY <1>1, <1>4, ExtendedBy
  <2>. QED
    BY <1>4, <2>1, FoundStays
<1>. QED
  BY <1>2, <1>3, <1>4 DEF ImpactIsBounded

-----------------------------------------------------------------------------
(* What the long sessions sent is what their requests sent.                  *)

LEMMA TurnsAre ==
  ASSUME NEW reqs \in Seq(Kinds), NEW s
  PROVE  Turns(reqs, s) = Cardinality(Within(reqs, s)) /\ Turns(reqs, s) \in Nat
BY WithinIs DEF Turns

(* The row after the first n of a session. *)
LEMMA NextSum ==
  ASSUME NEW reqs \in Seq(Kinds), NEW s, NEW n \in Nat, n < Turns(reqs, s)
  PROVE  /\ SumOver(reqs, s, n + 1) = SumOver(reqs, s, n) + Prompt(reqs[Rows(reqs, s)[n + 1]])
         /\ Prompt(reqs[Rows(reqs, s)[n + 1]]) \in Nat /\ SumOver(reqs, s, n) \in Nat
<1>. DEFINE P(k) == Prompt(reqs[Rows(reqs, s)[k]])
            f == [k \in 1 .. n + 1 |-> P(k)]
            h == [k \in 1 .. n |-> P(k)]
            c == Cardinality(Within(reqs, s))
<1>1. c \in Nat /\ n < c
  BY TurnsAre
<1>2. n \in 0 .. c /\ n + 1 \in 0 .. c
  BY <1>1
<1>3. h \in [1 .. n -> Nat] /\ SumOver(reqs, s, n) = Total(h) /\ SumOver(reqs, s, n) \in Nat
  BY <1>2, EarlySums
<1>4. f \in [1 .. n + 1 -> Nat] /\ SumOver(reqs, s, n + 1) = Total(f)
  <2>. DEFINE m == n + 1
  <2>1. m \in 0 .. c
    BY <1>2
  <2>. HIDE DEF m
  <2>2. [k \in 1 .. m |-> P(k)] \in [1 .. m -> Nat]
        /\ SumOver(reqs, s, m) = Total([k \in 1 .. m |-> P(k)])
    BY <2>1, EarlySums
  <2>. QED
    BY <2>2 DEF m
<1>5. n + 1 \in 1 .. n + 1 /\ (\A k \in 1 .. n : h[k] = f[k]) /\ f[n + 1] = P(n + 1)
  OBVIOUS
<1>. HIDE DEF f, h
<1>6. Total(f) = Total(h) + f[n + 1]
  BY <1>3, <1>4, <1>5, TotalNext
<1>7. P(n + 1) \in Nat
  BY <1>4, <1>5
<1>. QED
  BY <1>3, <1>4, <1>5, <1>6, <1>7

LEMMA NoSum == ASSUME NEW reqs, NEW s PROVE SumOver(reqs, s, 0) = 0
<1>. DEFINE f == [k \in 1 .. 0 |-> Prompt(reqs[Rows(reqs, s)[k]])]
<1>1. SumOver(reqs, s, 0) = Total(f)
  BY DEF SumOver
<1>2. 0 \in Nat /\ f \in [1 .. 0 -> Nat] /\ \A i \in 1 .. 0 : f[i] = 0
  OBVIOUS
<1>. HIDE DEF f
<1>3. Total(f) = 0
  BY <1>2, TotalNone
<1>. QED
  BY <1>1, <1>3

(* The prompts of some of the requests. *)
Those(reqs, S) == [j \in 1 .. Len(reqs) |-> IF j \in S THEN Prompt(reqs[j]) ELSE 0]

LEMMA ThoseAre ==
  ASSUME NEW reqs \in Seq(Kinds), NEW S
  PROVE  /\ Those(reqs, S) \in [1 .. Len(reqs) -> Nat] /\ Len(reqs) \in Nat
         /\ \A j \in 1 .. Len(reqs) :
              Those(reqs, S)[j] = IF j \in S THEN Prompt(reqs[j]) ELSE 0
<1>1. \A j \in 1 .. Len(reqs) : Prompt(reqs[j]) \in Nat
  BY PromptsAre
<1>. QED
  BY <1>1 DEF Those

LEMMA ThoseJoin ==
  ASSUME NEW reqs \in Seq(Kinds), NEW S, NEW T, \A j \in S : j \notin T
  PROVE  Total(Those(reqs, S \cup T)) = Total(Those(reqs, S)) + Total(Those(reqs, T))
<1>. DEFINE n == Len(reqs)
            a == Those(reqs, S)
            b == Those(reqs, T)
            c == Those(reqs, S \cup T)
<1>1. /\ n \in Nat /\ a \in [1 .. n -> Nat] /\ b \in [1 .. n -> Nat] /\ c \in [1 .. n -> Nat]
      /\ \A j \in 1 .. n : /\ a[j] = IF j \in S THEN Prompt(reqs[j]) ELSE 0
                           /\ b[j] = IF j \in T THEN Prompt(reqs[j]) ELSE 0
                           /\ c[j] = IF j \in S \cup T THEN Prompt(reqs[j]) ELSE 0
  BY ThoseAre
<1>2. \A j \in 1 .. n : Prompt(reqs[j]) \in Nat
  BY PromptsAre
<1>. HIDE DEF a, b, c, n
<1>3. ASSUME NEW j \in 1 .. n PROVE c[j] = a[j] + b[j]
  <2>1. /\ a[j] = (IF j \in S THEN Prompt(reqs[j]) ELSE 0)
        /\ b[j] = (IF j \in T THEN Prompt(reqs[j]) ELSE 0)
        /\ c[j] = (IF j \in S \cup T THEN Prompt(reqs[j]) ELSE 0)
        /\ Prompt(reqs[j]) \in Nat
    BY <1>1, <1>2
  <2>2. CASE j \in S
    <3>1. j \notin T
      BY <2>2
    <3>. QED
      BY <2>1, <2>2, <3>1
  <2>3. CASE j \notin S
    BY <2>1, <2>3
  <2>. QED
    BY <2>2, <2>3
<1>4. Total(c) = Total(a) + Total(b)
  <2>1. n \in Nat /\ a \in [1 .. n -> Nat] /\ b \in [1 .. n -> Nat] /\ c \in [1 .. n -> Nat]
    BY <1>1
  <2>2. \A j \in 1 .. n : c[j] = a[j] + b[j]
    BY <1>3
  <2>. QED
    BY <2>1, <2>2, TotalOfSums
<1>. QED
  BY <1>4 DEF a, b, c

LEMMA ThatOne ==
  ASSUME NEW reqs \in Seq(Kinds), NEW r \in 1 .. Len(reqs)
  PROVE  Total(Those(reqs, {r})) = Prompt(reqs[r])
<1>. DEFINE f == Those(reqs, {r})
<1>1. /\ Len(reqs) \in Nat /\ f \in [1 .. Len(reqs) -> Nat] /\ f[r] = Prompt(reqs[r])
      /\ \A j \in 1 .. Len(reqs) : j # r => f[j] = 0
  BY ThoseAre
<1>. HIDE DEF f
<1>2. Total(f) = f[r]
  BY <1>1, TotalOfOne
<1>. QED
  BY <1>1, <1>2 DEF f

LEMMA NoneOfThose == ASSUME NEW reqs \in Seq(Kinds) PROVE Total(Those(reqs, {})) = 0
<1>. DEFINE f == Those(reqs, {})
<1>1. /\ Len(reqs) \in Nat /\ f \in [1 .. Len(reqs) -> Nat]
      /\ \A j \in 1 .. Len(reqs) : f[j] = 0
  BY ThoseAre
<1>. HIDE DEF f
<1>2. Total(f) = 0
  BY <1>1, TotalNone
<1>. QED
  BY <1>2 DEF f

(* A session's rows are its requests. *)
LEMMA SessionSum ==
  ASSUME NEW reqs \in Seq(Kinds), NEW s
  PROVE  SumOver(reqs, s, Turns(reqs, s)) = Total(Those(reqs, Within(reqs, s)))
<1>. DEFINE W == Within(reqs, s)
            c == Turns(reqs, s)
            F(n) == {j \in W : Rank(reqs, j) <= n}
            M == {n \in 0 .. c : SumOver(reqs, s, n) = Total(Those(reqs, F(n)))}
<1>1. c = Cardinality(W) /\ c \in Nat
  BY TurnsAre
<1>2. ASSUME NEW j \in W PROVE Rank(reqs, j) \in 1 .. c /\ j \in 1 .. Len(reqs)
  <2>1. Rank(reqs, j) \in 1 .. Cardinality(W)
    BY RankIs
  <2>2. j \in DOMAIN reqs
    BY WithinIs
  <2>. QED
    BY <1>1, <2>1, <2>2
<1>3. 0 \in M
  <2>1. F(0) = {}
    <3>1. \A j \in W : ~(Rank(reqs, j) <= 0)
      BY <1>1, <1>2
    <3>. QED
      BY <3>1
  <2>2. SumOver(reqs, s, 0) = 0 /\ Total(Those(reqs, {})) = 0
    BY NoSum, NoneOfThose
  <2>3. 0 \in 0 .. c
    BY <1>1
  <2>. HIDE DEF F
  <2>. QED
    BY <2>1, <2>2, <2>3
<1>4. ASSUME NEW n \in 0 .. c, n \in M, n < c PROVE n + 1 \in M
  <2>. DEFINE r == Rows(reqs, s)[n + 1]
  <2>1. r \in W /\ Rank(reqs, r) = n + 1
    <3>1. n + 1 \in 1 .. Cardinality(Within(reqs, s))
      BY <1>1, <1>4
    <3>. QED
      BY <3>1, RowsAre
  <2>2. SumOver(reqs, s, n + 1) = SumOver(reqs, s, n) + Prompt(reqs[r])
    <3>1. n \in Nat /\ n < Turns(reqs, s)
      BY <1>1, <1>4
    <3>. QED
      BY <3>1, NextSum
  <2>. HIDE DEF r
  <2>3. F(n + 1) = F(n) \cup {r}
    <3>1. \A j \in W : Rank(reqs, j) = n + 1 => j = r
      BY <2>1, RanksDiffer
    <3>2. \A j \in W : Rank(reqs, j) <= n + 1 <=> Rank(reqs, j) <= n \/ Rank(reqs, j) = n + 1
      BY <1>1, <1>2, <1>4
    <3>. HIDE DEF W
    <3>. QED
      BY <2>1, <3>1, <3>2
  <2>4. \A j \in F(n) : j \notin {r}
    BY <1>1, <1>4, <2>1
  <2>5. Total(Those(reqs, {r})) = Prompt(reqs[r])
    BY <1>2, <2>1, ThatOne
  <2>6. SumOver(reqs, s, n) = Total(Those(reqs, F(n)))
    BY <1>4
  <2>. HIDE DEF F
  <2>7. Total(Those(reqs, F(n) \cup {r})) = Total(Those(reqs, F(n))) + Total(Those(reqs, {r}))
    BY <2>4, ThoseJoin
  <2>8. SumOver(reqs, s, n + 1) = Total(Those(reqs, F(n + 1)))
    BY <2>2, <2>3, <2>5, <2>6, <2>7
  <2>. QED
    BY <1>1, <1>4, <2>8
<1>. HIDE DEF M
<1>5. \A n \in 0 .. c : n \in M
  <2>. HIDE DEF c
  <2>. QED
    BY <1>1, <1>3, <1>4, SetInduction
<1>6. c \in M
  BY <1>1, <1>5
<1>7. F(c) = W
  BY <1>1, <1>2
<1>. HIDE DEF F
<1>. QED
  BY <1>6, <1>7 DEF M

-----------------------------------------------------------------------------
(* The sum over sessions is one over requests.                               *)

Firsts(reqs) ==
  {i \in DOMAIN reqs : Rank(reqs, i) = 1 /\ Turns(reqs, reqs[i].session) > MinTurns}

FirstsTo(reqs, m) == {i \in Firsts(reqs) : i <= m}

LongSums(reqs, m) ==
  [i \in 1 .. Len(reqs) |-> IF i \in FirstsTo(reqs, m) THEN Actual(reqs, reqs[i].session) ELSE 0]

Covered(reqs, m) ==
  {j \in DOMAIN reqs : \E i \in FirstsTo(reqs, m) : reqs[i].session = reqs[j].session}

LEMMA ActualIs ==
  ASSUME NEW reqs \in Seq(Kinds), NEW s
  PROVE  /\ Actual(reqs, s) \in Nat /\ SumOver(reqs, s, Turns(reqs, s)) \in Nat
         /\ ~TooManyTokens(SumOver(reqs, s, Turns(reqs, s))) =>
              Actual(reqs, s) = SumOver(reqs, s, Turns(reqs, s))
<1>. DEFINE sum == SumOver(reqs, s, Turns(reqs, s))
<1>1. Turns(reqs, s) \in 0 .. Cardinality(Within(reqs, s))
  BY TurnsAre
<1>2. sum \in Nat
  BY <1>1, EarlySums
<1>3. Actual(reqs, s) = Capped(sum)
  BY DEF Actual
<1>. HIDE DEF sum
<1>4. Actual(reqs, s) \in Nat /\ ~TooManyTokens(sum) => Actual(reqs, s) = sum
  BY <1>2, <1>3, TokensAre DEF Capped, TooManyTokens
<1>5. Actual(reqs, s) \in Nat
  BY <1>2, <1>3, TokensAre DEF Capped
<1>. QED
  BY <1>2, <1>4, <1>5 DEF sum

LEMMA LongSumsAre ==
  ASSUME NEW reqs \in Seq(Kinds), NEW m
  PROVE  /\ LongSums(reqs, m) \in [1 .. Len(reqs) -> Nat] /\ Len(reqs) \in Nat
         /\ \A i \in 1 .. Len(reqs) :
              LongSums(reqs, m)[i] = IF i \in FirstsTo(reqs, m)
                                     THEN Actual(reqs, reqs[i].session) ELSE 0
<1>1. \A i \in 1 .. Len(reqs) : Actual(reqs, reqs[i].session) \in Nat
  BY ActualIs
<1>. QED
  BY <1>1 DEF LongSums

(* No session is counted twice, as it has one first request. *)
LEMMA NextSession ==
  ASSUME NEW reqs \in Seq(Kinds), NEW m \in Nat, m + 1 \in Firsts(reqs),
         ~TooManyTokens(SumOver(reqs, reqs[m + 1].session, Turns(reqs, reqs[m + 1].session))),
         Total(LongSums(reqs, m)) = Total(Those(reqs, Covered(reqs, m)))
  PROVE  Total(LongSums(reqs, m + 1)) = Total(Those(reqs, Covered(reqs, m + 1)))
<1>. DEFINE n == Len(reqs)
            s == reqs[m + 1].session
            a == LongSums(reqs, m)
            c == LongSums(reqs, m + 1)
            b == [i \in 1 .. n |-> IF i = m + 1 THEN Actual(reqs, s) ELSE 0]
<1>0. m + 1 \in 1 .. n /\ n \in Nat /\ DOMAIN reqs = 1 .. n /\ Rank(reqs, m + 1) = 1
  BY DEF Firsts
<1>1. Actual(reqs, s) \in Nat /\ Actual(reqs, s) = Total(Those(reqs, Within(reqs, s)))
  BY ActualIs, SessionSum
<1>2. /\ a \in [1 .. n -> Nat] /\ c \in [1 .. n -> Nat]
      /\ \A i \in 1 .. n :
           a[i] = IF i \in FirstsTo(reqs, m) THEN Actual(reqs, reqs[i].session) ELSE 0
      /\ \A i \in 1 .. n :
           c[i] = IF i \in FirstsTo(reqs, m + 1) THEN Actual(reqs, reqs[i].session) ELSE 0
  BY LongSumsAre
<1>3. /\ b \in [1 .. n -> Nat] /\ b[m + 1] = Actual(reqs, s)
      /\ \A i \in 1 .. n : i # m + 1 => b[i] = 0
  BY <1>0, <1>1
<1>. HIDE DEF a, b, c
<1>4. /\ FirstsTo(reqs, m + 1) = FirstsTo(reqs, m) \cup {m + 1}
      /\ m + 1 \notin FirstsTo(reqs, m)
  <2>1. Firsts(reqs) \subseteq Nat
    BY <1>0 DEF Firsts
  <2>. QED
    BY <2>1 DEF FirstsTo
<1>5. ASSUME NEW i \in 1 .. n PROVE c[i] = a[i] + b[i]
  <2>1. CASE i = m + 1
    <3>1. a[i] = 0 /\ c[i] = Actual(reqs, s) /\ b[i] = Actual(reqs, s)
      BY <1>2, <1>3, <1>4, <2>1
    <3>. QED
      BY <1>1, <3>1
  <2>2. CASE i # m + 1
    <3>1. c[i] = a[i] /\ b[i] = 0 /\ a[i] \in Nat
      BY <1>2, <1>3, <1>4, <2>2
    <3>. QED
      BY <3>1
  <2>. QED
    BY <2>1, <2>2
<1>6. Total(c) = Total(a) + Total(b)
  <2>1. n \in Nat /\ a \in [1 .. n -> Nat] /\ b \in [1 .. n -> Nat] /\ c \in [1 .. n -> Nat]
    BY <1>0, <1>2, <1>3
  <2>2. \A i \in 1 .. n : c[i] = a[i] + b[i]
    BY <1>5
  <2>. HIDE DEF n
  <2>. QED
    BY <2>1, <2>2, TotalOfSums
<1>7. Total(b) = Actual(reqs, s)
  BY <1>0, <1>3, TotalOfOne
<1>8. Covered(reqs, m + 1) = Covered(reqs, m) \cup Within(reqs, s)
  BY <1>0, <1>4 DEF Covered, Within
<1>9. ASSUME NEW j \in Covered(reqs, m) PROVE j \notin Within(reqs, s)
  <2>1. PICK i \in FirstsTo(reqs, m) : reqs[i].session = reqs[j].session
    BY DEF Covered
  <2>2. i \in DOMAIN reqs /\ Rank(reqs, i) = 1 /\ i # m + 1
    BY <1>4, <2>1 DEF FirstsTo, Firsts
  <2>3. SUFFICES ASSUME j \in Within(reqs, s) PROVE FALSE
    OBVIOUS
  <2>4. reqs[i].session = s
    BY <2>1, <2>3 DEF Within
  <2>5. i \in Within(reqs, s) /\ m + 1 \in Within(reqs, s)
    BY <1>0, <2>2, <2>4 DEF Within
  <2>. QED
    BY <1>0, <2>2, <2>5, RanksDiffer
<1>10. Total(Those(reqs, Covered(reqs, m) \cup Within(reqs, s))) =
         Total(Those(reqs, Covered(reqs, m))) + Total(Those(reqs, Within(reqs, s)))
  BY <1>9, ThoseJoin
<1>. QED
  BY <1>1, <1>6, <1>7, <1>8, <1>10 DEF a, c

LEMMA LongSessions ==
  ASSUME NEW reqs \in Seq(Kinds),
         \A i \in Firsts(reqs) :
           ~TooManyTokens(SumOver(reqs, reqs[i].session, Turns(reqs, reqs[i].session)))
  PROVE  /\ Total(LongSums(reqs, Len(reqs))) = Total(Those(reqs, Covered(reqs, Len(reqs))))
         /\ \A j \in DOMAIN reqs :
              j \in Covered(reqs, Len(reqs)) <=> Turns(reqs, reqs[j].session) > MinTurns
<1>. DEFINE n == Len(reqs)
            M == {m \in 0 .. n :
                    Total(LongSums(reqs, m)) = Total(Those(reqs, Covered(reqs, m)))}
<1>0. n \in Nat /\ DOMAIN reqs = 1 .. n
  OBVIOUS
<1>1. 0 \in M
  <2>1. FirstsTo(reqs, 0) = {}
    BY DEF FirstsTo, Firsts
  <2>2. Covered(reqs, 0) = {}
    BY <2>1 DEF Covered
  <2>3. /\ LongSums(reqs, 0) \in [1 .. n -> Nat]
        /\ \A i \in 1 .. n : LongSums(reqs, 0)[i] = 0
    BY <2>1, LongSumsAre
  <2>4. Total(LongSums(reqs, 0)) = 0
    BY <1>0, <2>3, TotalNone
  <2>5. Total(Those(reqs, {})) = 0
    BY NoneOfThose
  <2>6. 0 \in 0 .. n
    BY <1>0
  <2>. HIDE DEF n
  <2>. QED
    BY <2>2, <2>4, <2>5, <2>6
<1>2. ASSUME NEW m \in 0 .. n, m \in M, m < n PROVE m + 1 \in M
  <2>1. m \in Nat /\ m + 1 \in 0 .. n /\ m + 1 \in DOMAIN reqs
        /\ Total(LongSums(reqs, m)) = Total(Those(reqs, Covered(reqs, m)))
    BY <1>0, <1>2
  <2>2. CASE m + 1 \in Firsts(reqs)
    <3>1. Total(LongSums(reqs, m + 1)) = Total(Those(reqs, Covered(reqs, m + 1)))
      BY <2>1, <2>2, NextSession
    <3>. QED
      BY <2>1, <3>1
  <2>3. CASE m + 1 \notin Firsts(reqs)
    <3>1. FirstsTo(reqs, m + 1) = FirstsTo(reqs, m)
      <4>1. Firsts(reqs) \subseteq Nat
        BY <1>0 DEF Firsts
      <4>. QED
        BY <2>1, <2>3, <4>1 DEF FirstsTo
    <3>2. /\ LongSums(reqs, m + 1) = LongSums(reqs, m)
          /\ Covered(reqs, m + 1) = Covered(reqs, m)
      BY <3>1 DEF LongSums, Covered
    <3>. QED
      BY <2>1, <3>2
  <2>. QED
    BY <2>2, <2>3
<1>. HIDE DEF M
<1>3. \A m \in 0 .. n : m \in M
  <2>. HIDE DEF n
  <2>. QED
    BY <1>0, <1>1, <1>2, SetInduction
<1>4. Total(LongSums(reqs, n)) = Total(Those(reqs, Covered(reqs, n)))
  BY <1>0, <1>3 DEF M
<1>5. ASSUME NEW j \in DOMAIN reqs
      PROVE  j \in Covered(reqs, n) <=> Turns(reqs, reqs[j].session) > MinTurns
  <2>. DEFINE s == reqs[j].session
  <2>1. ASSUME Turns(reqs, s) > MinTurns PROVE j \in Covered(reqs, n)
    <3>1. 1 \in 1 .. Cardinality(Within(reqs, s))
      <4>1. j \in Within(reqs, s)
        BY SessionHere
      <4>2. Rank(reqs, j) \in 1 .. Cardinality(Within(reqs, s))
        BY <4>1, RankIs
      <4>. QED
        BY <4>2, WithinIs
    <3>. DEFINE i == Rows(reqs, s)[1]
    <3>2. i \in Within(reqs, s) /\ Rank(reqs, i) = 1
      BY <3>1, RowsAre
    <3>. HIDE DEF i
    <3>3. i \in DOMAIN reqs /\ reqs[i].session = s
      BY <3>2, WithinIs
    <3>4. i \in FirstsTo(reqs, n)
      BY <1>0, <2>1, <3>2, <3>3 DEF FirstsTo, Firsts
    <3>. QED
      BY <3>3, <3>4 DEF Covered
  <2>2. ASSUME j \in Covered(reqs, n) PROVE Turns(reqs, s) > MinTurns
    BY <2>2 DEF Covered, FirstsTo, Firsts
  <2>. QED
    BY <2>1, <2>2
<1>. QED
  BY <1>4, <1>5

-----------------------------------------------------------------------------
(* Averages of what never grows, and of what never shrinks.                  *)

LEMMA Products ==
  ASSUME NEW a \in Nat, NEW b \in Nat, NEW c \in Nat
  PROVE  /\ a * c \in Nat /\ a * b = b * a
         /\ a <= b => a * c <= b * c /\ c * a <= c * b
<1>1. a * c \in Nat /\ a * b = b * a
  OBVIOUS
<1>2. ASSUME a <= b PROVE a * c <= b * c /\ c * a <= c * b
  BY <1>2
<1>. QED
  BY <1>1, <1>2

LEMMA Distributes ==
  ASSUME NEW a \in Nat, NEW b \in Nat, NEW c \in Nat
  PROVE  (a + b) * c = a * c + b * c /\ c * (a + 1) = c * a + c /\ (a + 1) * c = a * c + c
OBVIOUS

LEMMA MoreBelow ==
  ASSUME NEW i \in Nat, NEW q \in Nat, NEW r \in Nat, NEW a \in Nat,
         r <= q, a >= i * q
  PROVE  a + r >= (i + 1) * r
<1>. DEFINE x == i * q
            y == i * r
<1>1. x \in Nat /\ y \in Nat /\ y <= x
  BY Products
<1>2. (i + 1) * r = y + r
  BY Distributes
<1>3. a >= x
  OBVIOUS
<1>. HIDE DEF x, y
<1>. QED
  BY <1>1, <1>2, <1>3

LEMMA ShareBelow ==
  ASSUME NEW m \in Nat, NEW i \in Nat, NEW a \in Nat, NEW sum \in Nat,
         NEW q \in Nat, NEW r \in Nat, r <= q, sum >= m * q, a * m <= sum * i
  PROVE  (a + r) * m <= sum * (i + 1)
<1>. DEFINE w == a * m
            x == r * m
            y == sum * i
            z == q * m
<1>1. w \in Nat /\ x \in Nat /\ y \in Nat /\ z \in Nat /\ x <= z /\ z = m * q
  BY Products
<1>2. (a + r) * m = w + x
  BY Distributes
<1>3. sum * (i + 1) = y + sum
  BY Distributes
<1>4. w <= y /\ sum >= z
  BY <1>1
<1>. HIDE DEF w, x, y, z
<1>. QED
  BY <1>1, <1>2, <1>3, <1>4

LEMMA Averages ==
  ASSUME NEW T \in Nat, NEW A \in [0 .. T -> Nat], NEW p \in [1 .. T -> Nat], A[0] = 0,
         \A i \in 0 .. T : i < T => A[i + 1] = A[i] + p[i + 1],
         \A i \in 1 .. T : i < T => p[i + 1] <= p[i],
         NEW m \in 1 .. T
  PROVE  A[T] * m <= A[m] * T
<1>. DEFINE M == {i \in 0 .. T : i = 0 \/ A[i] >= i * p[i]}
<1>1. 0 \in M
  OBVIOUS
<1>2. ASSUME NEW i \in 0 .. T, i \in M, i < T PROVE i + 1 \in M
  <2>1. /\ i \in Nat /\ i + 1 \in 1 .. T /\ i + 1 \in 0 .. T /\ A[i + 1] = A[i] + p[i + 1]
        /\ A[i] \in Nat /\ p[i + 1] \in Nat
    BY <1>2
  <2>2. A[i + 1] >= (i + 1) * p[i + 1]
    <3>1. CASE i = 0
      BY <2>1, <3>1
    <3>2. CASE i # 0
      <4>1. p[i] \in Nat /\ p[i + 1] <= p[i]
        BY <1>2, <3>2
      <4>2. A[i] >= i * p[i]
        BY <1>2, <3>2
      <4>3. A[i] + p[i + 1] >= (i + 1) * p[i + 1]
        BY <2>1, <4>1, <4>2, MoreBelow
      <4>. QED
        BY <2>1, <4>3
    <3>. QED
      BY <3>1, <3>2
  <2>. QED
    BY <2>1, <2>2
<1>. HIDE DEF M
<1>3. \A i \in 0 .. T : i \in M
  BY <1>1, <1>2, SetInduction
<1>4. m \in Nat /\ m # 0 /\ m \in 0 .. T /\ A[m] \in Nat /\ p[m] \in Nat
  OBVIOUS
<1>5. A[m] >= m * p[m]
  <2>1. m \in M
    BY <1>3, <1>4
  <2>. QED
    BY <1>4, <2>1 DEF M
<1>. DEFINE Holds(i) == p[i] <= p[m] /\ A[i] * m <= A[m] * i
            N == {i \in 0 .. T : i < m \/ Holds(i)}
<1>6. 0 \in N
  BY <1>4
<1>7. ASSUME NEW i \in 0 .. T, i \in N, i < T PROVE i + 1 \in N
  <2>1. /\ i \in Nat /\ i + 1 \in 1 .. T /\ i + 1 \in 0 .. T /\ A[i + 1] = A[i] + p[i + 1]
        /\ A[i] \in Nat /\ p[i + 1] \in Nat
    BY <1>7
  <2>2. CASE i + 1 < m
    BY <2>1, <2>2
  <2>3. CASE i + 1 = m
    <3>1. Holds(m)
      BY <1>4
    <3>. HIDE DEF Holds
    <3>. QED
      BY <2>1, <2>3, <3>1
  <2>4. CASE i >= m
    <3>1. Holds(i)
      <4>. HIDE DEF Holds
      <4>. QED
        BY <1>4, <1>7, <2>1, <2>4
    <3>2. i # 0 /\ i \in 1 .. T
      BY <1>4, <2>1, <2>4
    <3>3. p[i] \in Nat /\ p[i + 1] <= p[i] /\ p[i] <= p[m]
      BY <1>7, <3>1, <3>2
    <3>4. p[i + 1] <= p[m]
      BY <1>4, <2>1, <3>3
    <3>5. A[i] * m <= A[m] * i
      BY <3>1
    <3>6. (A[i] + p[i + 1]) * m <= A[m] * (i + 1)
      BY <1>4, <1>5, <2>1, <3>4, <3>5, ShareBelow
    <3>7. Holds(i + 1)
      BY <2>1, <3>4, <3>6
    <3>. HIDE DEF Holds
    <3>. QED
      BY <2>1, <3>7
  <2>. QED
    BY <1>4, <2>1, <2>2, <2>3, <2>4
<1>. HIDE DEF N
<1>8. \A i \in 0 .. T : i \in N
  BY <1>6, <1>7, SetInduction
<1>9. Holds(T)
  <2>1. T \in N /\ ~(T < m)
    BY <1>8
  <2>. HIDE DEF Holds
  <2>. QED
    BY <2>1 DEF N
<1>. QED
  BY <1>9

LEMMA MoreAbove ==
  ASSUME NEW i \in Nat, NEW q \in Nat, NEW r \in Nat, NEW a \in Nat,
         r >= q, a <= i * q
  PROVE  a + r <= (i + 1) * r
<1>. DEFINE x == i * q
            y == i * r
<1>1. x \in Nat /\ y \in Nat /\ y >= x
  BY Products
<1>2. (i + 1) * r = y + r
  BY Distributes
<1>3. a <= x
  OBVIOUS
<1>. HIDE DEF x, y
<1>. QED
  BY <1>1, <1>2, <1>3

LEMMA ShareAbove ==
  ASSUME NEW m \in Nat, NEW i \in Nat, NEW a \in Nat, NEW sum \in Nat,
         NEW q \in Nat, NEW r \in Nat, r >= q, sum <= m * q, a * m >= sum * i
  PROVE  (a + r) * m >= sum * (i + 1)
<1>. DEFINE w == a * m
            x == r * m
            y == sum * i
            z == q * m
<1>1. w \in Nat /\ x \in Nat /\ y \in Nat /\ z \in Nat /\ x >= z /\ z = m * q
  BY Products
<1>2. (a + r) * m = w + x
  BY Distributes
<1>3. sum * (i + 1) = y + sum
  BY Distributes
<1>4. w >= y /\ sum <= z
  BY <1>1
<1>. HIDE DEF w, x, y, z
<1>. QED
  BY <1>1, <1>2, <1>3, <1>4

LEMMA AveragesUp ==
  ASSUME NEW T \in Nat, NEW A \in [0 .. T -> Nat], NEW p \in [1 .. T -> Nat], A[0] = 0,
         \A i \in 0 .. T : i < T => A[i + 1] = A[i] + p[i + 1],
         \A i \in 1 .. T : i < T => p[i + 1] >= p[i],
         NEW m \in 1 .. T
  PROVE  A[T] * m >= A[m] * T
<1>. DEFINE M == {i \in 0 .. T : i = 0 \/ A[i] <= i * p[i]}
<1>1. 0 \in M
  OBVIOUS
<1>2. ASSUME NEW i \in 0 .. T, i \in M, i < T PROVE i + 1 \in M
  <2>1. /\ i \in Nat /\ i + 1 \in 1 .. T /\ i + 1 \in 0 .. T /\ A[i + 1] = A[i] + p[i + 1]
        /\ A[i] \in Nat /\ p[i + 1] \in Nat
    BY <1>2
  <2>2. A[i + 1] <= (i + 1) * p[i + 1]
    <3>1. CASE i = 0
      BY <2>1, <3>1
    <3>2. CASE i # 0
      <4>1. p[i] \in Nat /\ p[i + 1] >= p[i]
        BY <1>2, <3>2
      <4>2. A[i] <= i * p[i]
        BY <1>2, <3>2
      <4>3. A[i] + p[i + 1] <= (i + 1) * p[i + 1]
        BY <2>1, <4>1, <4>2, MoreAbove
      <4>. QED
        BY <2>1, <4>3
    <3>. QED
      BY <3>1, <3>2
  <2>. QED
    BY <2>1, <2>2
<1>. HIDE DEF M
<1>3. \A i \in 0 .. T : i \in M
  BY <1>1, <1>2, SetInduction
<1>4. m \in Nat /\ m # 0 /\ m \in 0 .. T /\ A[m] \in Nat /\ p[m] \in Nat
  OBVIOUS
<1>5. A[m] <= m * p[m]
  <2>1. m \in M
    BY <1>3, <1>4
  <2>. QED
    BY <1>4, <2>1 DEF M
<1>. DEFINE Holds(i) == p[i] >= p[m] /\ A[i] * m >= A[m] * i
            N == {i \in 0 .. T : i < m \/ Holds(i)}
<1>6. 0 \in N
  BY <1>4
<1>7. ASSUME NEW i \in 0 .. T, i \in N, i < T PROVE i + 1 \in N
  <2>1. /\ i \in Nat /\ i + 1 \in 1 .. T /\ i + 1 \in 0 .. T /\ A[i + 1] = A[i] + p[i + 1]
        /\ A[i] \in Nat /\ p[i + 1] \in Nat
    BY <1>7
  <2>2. CASE i + 1 < m
    BY <2>1, <2>2
  <2>3. CASE i + 1 = m
    <3>1. Holds(m)
      BY <1>4
    <3>. HIDE DEF Holds
    <3>. QED
      BY <2>1, <2>3, <3>1
  <2>4. CASE i >= m
    <3>1. Holds(i)
      <4>. HIDE DEF Holds
      <4>. QED
        BY <1>4, <1>7, <2>1, <2>4
    <3>2. i # 0 /\ i \in 1 .. T
      BY <1>4, <2>1, <2>4
    <3>3. p[i] \in Nat /\ p[i + 1] >= p[i] /\ p[i] >= p[m]
      BY <1>7, <3>1, <3>2
    <3>4. p[i + 1] >= p[m]
      BY <1>4, <2>1, <3>3
    <3>5. A[i] * m >= A[m] * i
      BY <3>1
    <3>6. (A[i] + p[i + 1]) * m >= A[m] * (i + 1)
      BY <1>4, <1>5, <2>1, <3>4, <3>5, ShareAbove
    <3>7. Holds(i + 1)
      BY <2>1, <3>4, <3>6
    <3>. HIDE DEF Holds
    <3>. QED
      BY <2>1, <3>7
  <2>. QED
    BY <1>4, <2>1, <2>2, <2>3, <2>4
<1>. HIDE DEF N
<1>8. \A i \in 0 .. T : i \in N
  BY <1>6, <1>7, SetInduction
<1>9. Holds(T)
  <2>1. T \in N /\ ~(T < m)
    BY <1>8
  <2>. HIDE DEF Holds
  <2>. QED
    BY <2>1 DEF N
<1>. QED
  BY <1>9

-----------------------------------------------------------------------------
(* What a verdict says, and when.                                            *)

(* What the long sessions sent: session by session, and request by request.  *)
LongTotal(reqs) ==
  Total([i \in DOMAIN reqs |->
    IF Rank(reqs, i) = 1 /\ Turns(reqs, reqs[i].session) > MinTurns
    THEN Actual(reqs, reqs[i].session) ELSE 0])

LongSent(reqs) ==
  Total([i \in DOMAIN reqs |->
    IF reqs[i].session \in Long(reqs) THEN TruePrompt(reqs[i]) ELSE 0])

LEMMA SummaryIs ==
  ASSUME NEW reqs
  PROVE  LET v == Summary(reqs) IN
         /\ v.all = Capped(TrueSum(reqs, Prompt))
         /\ v.observed = Capped(LongTotal(reqs))
         /\ v.included = Cardinality(Long(reqs))
         /\ v.positive = Cardinality({s \in Long(reqs) : Grows(reqs, s)})
         /\ v.negative = Cardinality({s \in Long(reqs) : Shrinks(reqs, s)})
         /\ ~v.overflow =>
              /\ \A i \in DOMAIN reqs : ~TooManyTokens(TruePrompt(reqs[i]))
              /\ ~TooManyTokens(TrueSum(reqs, Prompt))
              /\ ~TooManyTokens(LongTotal(reqs))
              /\ \A s \in Long(reqs) : ~TooManyTokens(SumOver(reqs, s, Turns(reqs, s)))
BY DEF Summary, OverLong, LongTotal

LEMMA LongIs ==
  ASSUME NEW reqs \in Seq(Kinds)
  PROVE  /\ IsFiniteSet(Long(reqs))
         /\ \A s \in Long(reqs) : Turns(reqs, s) > MinTurns
         /\ \A i \in DOMAIN reqs :
              reqs[i].session \in Long(reqs) <=> Turns(reqs, reqs[i].session) > MinTurns
<1>. DEFINE D == DOMAIN reqs
            of == [i \in D |-> reqs[i].session]
<1>1. IsFiniteSet(D)
  <2>1. D = 1 .. Len(reqs) /\ Len(reqs) \in Nat
    OBVIOUS
  <2>. QED
    BY <2>1, FS_Interval
<1>2. of \in Surjection(D, SessionsOf(reqs))
  BY DEF Surjection, SessionsOf
<1>3. IsFiniteSet(SessionsOf(reqs))
  <2>. HIDE DEF D, of
  <2>. QED
    BY <1>1, <1>2, FS_Surjection
<1>4. Long(reqs) \in SUBSET SessionsOf(reqs)
  BY DEF Long
<1>5. IsFiniteSet(Long(reqs))
  BY <1>3, <1>4, FS_Subset
<1>. QED
  BY <1>5 DEF Long, SessionsOf

LEMMA Exact ==
  ASSUME NEW n \in Nat, ~TooManyTokens(n)
  PROVE  Capped(n) = n
BY TokensAre DEF TooManyTokens, Capped

(* All that a verdict sums up without overflow. *)
Clean(reqs) ==
  /\ reqs \in Seq(Kinds)
  /\ \A i \in DOMAIN reqs : ~TooManyTokens(TruePrompt(reqs[i]))
  /\ ~TooManyTokens(TrueSum(reqs, Prompt))
  /\ ~TooManyTokens(LongTotal(reqs))
  /\ \A s \in Long(reqs) : ~TooManyTokens(SumOver(reqs, s, Turns(reqs, s)))

LEMMA ExactPrompts ==
  ASSUME NEW reqs, Clean(reqs), NEW i \in DOMAIN reqs
  PROVE  Prompt(reqs[i]) = TruePrompt(reqs[i]) /\ Prompt(reqs[i]) \in Nat
<1>1. reqs \in Seq(Kinds) /\ ~TooManyTokens(TruePrompt(reqs[i]))
  BY DEF Clean
<1>. QED
  BY <1>1, RequestAt, SentIs

LEMMA AllIsTrue ==
  ASSUME NEW reqs, Clean(reqs)
  PROVE  Capped(TrueSum(reqs, Prompt)) = TrueSum(reqs, TruePrompt)
<1>1. reqs \in Seq(Kinds) /\ ~TooManyTokens(TrueSum(reqs, Prompt))
  BY DEF Clean
<1>2. TrueSum(reqs, Prompt) \in Nat
  BY <1>1, PromptsAre, TotalTyped
<1>3. Capped(TrueSum(reqs, Prompt)) = TrueSum(reqs, Prompt)
  BY <1>1, <1>2, Exact
<1>4. [i \in DOMAIN reqs |-> Prompt(reqs[i])] = [i \in DOMAIN reqs |-> TruePrompt(reqs[i])]
  BY ExactPrompts
<1>5. /\ TrueSum(reqs, Prompt) = Total([i \in DOMAIN reqs |-> Prompt(reqs[i])])
      /\ TrueSum(reqs, TruePrompt) = Total([i \in DOMAIN reqs |-> TruePrompt(reqs[i])])
  BY DEF TrueSum
<1>. QED
  BY <1>3, <1>4, <1>5

LEMMA ObservedIsTrue ==
  ASSUME NEW reqs, Clean(reqs)
  PROVE  Capped(LongTotal(reqs)) =
           LongSent(reqs)
<1>. DEFINE n == Len(reqs)
            C == Covered(reqs, n)
            sum == LongTotal(reqs)
            parts == [i \in DOMAIN reqs |->
                       IF reqs[i].session \in Long(reqs) THEN TruePrompt(reqs[i]) ELSE 0]
<1>0. reqs \in Seq(Kinds) /\ n \in Nat /\ DOMAIN reqs = 1 .. n /\ ~TooManyTokens(sum)
  BY DEF Clean
<1>1. sum = Total([i \in DOMAIN reqs |->
               IF Rank(reqs, i) = 1 /\ Turns(reqs, reqs[i].session) > MinTurns
               THEN Actual(reqs, reqs[i].session) ELSE 0])
  BY DEF LongTotal
<1>2. LongSent(reqs) = Total(parts)
  BY DEF LongSent
<1>. HIDE DEF sum, n
<1>3. LongSums(reqs, n) = [i \in DOMAIN reqs |->
               IF Rank(reqs, i) = 1 /\ Turns(reqs, reqs[i].session) > MinTurns
               THEN Actual(reqs, reqs[i].session) ELSE 0]
  <2>1. \A i \in DOMAIN reqs : i \in FirstsTo(reqs, n) <=>
            (Rank(reqs, i) = 1 /\ Turns(reqs, reqs[i].session) > MinTurns)
    BY <1>0 DEF FirstsTo, Firsts
  <2>2. LongSums(reqs, n) = [i \in DOMAIN reqs |->
            IF i \in FirstsTo(reqs, n) THEN Actual(reqs, reqs[i].session) ELSE 0]
    BY <1>0 DEF LongSums, n
  <2>. QED
    BY <2>1, <2>2
<1>4. ASSUME NEW i \in Firsts(reqs)
      PROVE  ~TooManyTokens(SumOver(reqs, reqs[i].session, Turns(reqs, reqs[i].session)))
  <2>1. reqs[i].session \in Long(reqs)
    BY <1>0, LongIs DEF Firsts
  <2>. QED
    BY <2>1 DEF Clean
<1>5. /\ Total(LongSums(reqs, n)) = Total(Those(reqs, C))
      /\ \A j \in DOMAIN reqs : j \in C <=> Turns(reqs, reqs[j].session) > MinTurns
  BY <1>0, <1>4, LongSessions DEF n
<1>6. Those(reqs, C) = parts
  <2>. HIDE DEF C
  <2>1. Those(reqs, C) = [j \in DOMAIN reqs |-> IF j \in C THEN Prompt(reqs[j]) ELSE 0]
    BY <1>0 DEF Those, n
  <2>2. \A j \in DOMAIN reqs : j \in C <=> reqs[j].session \in Long(reqs)
    BY <1>0, <1>5, LongIs
  <2>3. \A j \in DOMAIN reqs : Prompt(reqs[j]) = TruePrompt(reqs[j])
    BY ExactPrompts
  <2>. QED
    BY <2>1, <2>2, <2>3
<1>7. sum = Total(parts)
  BY <1>1, <1>3, <1>5, <1>6
<1>8. sum \in Nat
  <2>1. LongSums(reqs, n) \in [1 .. n -> Nat]
    BY <1>0, LongSumsAre DEF n
  <2>2. Total(LongSums(reqs, n)) \in Nat
    BY <1>0, <2>1, TotalTyped
  <2>. QED
    BY <1>1, <1>3, <2>2
<1>9. Capped(sum) = sum
  BY <1>0, <1>8, Exact
<1>. QED
  BY <1>2, <1>7, <1>9 DEF sum

LEMMA OneSide ==
  ASSUME NEW reqs \in Seq(Kinds), \A s \in Long(reqs) : ~(Grows(reqs, s) /\ Shrinks(reqs, s))
  PROVE  Cardinality({s \in Long(reqs) : Grows(reqs, s)})
           + Cardinality({s \in Long(reqs) : Shrinks(reqs, s)}) <= Cardinality(Long(reqs))
<1>. DEFINE L == Long(reqs)
            G == {s \in L : Grows(reqs, s)}
            S == {s \in L : Shrinks(reqs, s)}
<1>1. IsFiniteSet(L)
  BY LongIs
<1>2. G \in SUBSET L /\ S \in SUBSET L /\ G \cup S \in SUBSET L /\ G \cap S = {}
  OBVIOUS
<1>. HIDE DEF L, G, S
<1>3. IsFiniteSet(G) /\ IsFiniteSet(S) /\ Cardinality(G \cup S) <= Cardinality(L)
  BY <1>1, <1>2, FS_Subset
<1>4. Cardinality(G \cup S) = Cardinality(G) + Cardinality(S) - Cardinality(G \cap S)
  BY <1>3, FS_Union
<1>5. Cardinality(G \cap S) = 0 /\ Cardinality(G) \in Nat /\ Cardinality(S) \in Nat
  BY <1>2, <1>3, FS_EmptySet, FS_CardinalityType
<1>6. Cardinality(G) + Cardinality(S) <= Cardinality(L)
  BY <1>3, <1>4, <1>5
<1>. QED
  BY <1>6 DEF L, G, S

(* The rows of a long session, and their sums. *)
LEMMA LongRows ==
  ASSUME NEW reqs, Clean(reqs), NEW s \in Long(reqs)
  PROVE  LET T == Turns(reqs, s)
             m == Sample(reqs, s)
             A == [n \in 0 .. T |-> SumOver(reqs, s, n)]
             p == [k \in 1 .. T |-> Prompt(reqs[Rows(reqs, s)[k]])]
         IN /\ T \in Nat /\ m \in 1 .. T
            /\ A \in [0 .. T -> Nat] /\ p \in [1 .. T -> Nat] /\ A[0] = 0
            /\ \A i \in 0 .. T : i < T => A[i + 1] = A[i] + p[i + 1]
            /\ Actual(reqs, s) = A[T] /\ Modeled(reqs, s) = A[m] * T
<1>. DEFINE T == Turns(reqs, s)
            m == Sample(reqs, s)
            A == [n \in 0 .. T |-> SumOver(reqs, s, n)]
            p == [k \in 1 .. T |-> Prompt(reqs[Rows(reqs, s)[k]])]
<1>0. reqs \in Seq(Kinds) /\ ~TooManyTokens(SumOver(reqs, s, T))
  BY DEF Clean
<1>1. T = Cardinality(Within(reqs, s)) /\ T \in Nat /\ T > MinTurns
  BY <1>0, TurnsAre, LongIs
<1>2. T # 0 /\ m \in 1 .. T
  BY <1>1, VerdictAssumption DEF Sample, Smaller
<1>3. A \in [0 .. T -> Nat]
  <2>1. \A n \in 0 .. T : SumOver(reqs, s, n) \in Nat
    BY <1>0, <1>1, EarlySums
  <2>. QED
    BY <2>1
<1>4. p \in [1 .. T -> Nat]
  <2>1. T \in 0 .. Cardinality(Within(reqs, s))
    BY <1>1
  <2>. QED
    BY <1>0, <2>1, EarlySums
<1>5. A[0] = 0
  <2>1. 0 \in 0 .. T
    BY <1>1
  <2>. QED
    BY <2>1, NoSum
<1>6. ASSUME NEW i \in 0 .. T, i < T PROVE A[i + 1] = A[i] + p[i + 1]
  <2>1. i \in Nat /\ i + 1 \in 0 .. T /\ i + 1 \in 1 .. T
    BY <1>1, <1>6
  <2>2. SumOver(reqs, s, i + 1) = SumOver(reqs, s, i) + Prompt(reqs[Rows(reqs, s)[i + 1]])
    BY <1>0, <1>6, <2>1, NextSum
  <2>. QED
    BY <2>1, <2>2
<1>7. A[T] = SumOver(reqs, s, T) /\ A[m] = SumOver(reqs, s, m)
  <2>1. T \in 0 .. T /\ m \in 0 .. T
    BY <1>1, <1>2
  <2>. QED
    BY <2>1
<1>8. Actual(reqs, s) = A[T]
  BY <1>0, <1>7, ActualIs
<1>. HIDE DEF A, p
<1>9. A[m] <= A[T]
  <2>. DEFINE M == {i \in 0 .. T : i < m \/ A[m] <= A[i]}
  <2>1. 0 \in M
    BY <1>1, <1>2
  <2>2. ASSUME NEW i \in 0 .. T, i \in M, i < T PROVE i + 1 \in M
    <3>1. i + 1 \in 0 .. T /\ i + 1 \in 1 .. T /\ i \in Nat
      BY <1>1, <2>2
    <3>2. A[i + 1] = A[i] + p[i + 1] /\ A[i] \in Nat /\ p[i + 1] \in Nat /\ A[m] \in Nat
      BY <1>2, <1>3, <1>4, <1>6, <2>2, <3>1
    <3>. HIDE DEF m, T
    <3>3. CASE i + 1 < m
      BY <3>1, <3>3
    <3>4. CASE i + 1 = m
      BY <3>1, <3>2, <3>4
    <3>5. CASE i >= m
      BY <1>2, <2>2, <3>1, <3>2, <3>5
    <3>. QED
      BY <1>1, <1>2, <3>1, <3>3, <3>4, <3>5
  <2>. HIDE DEF M
  <2>3. \A i \in 0 .. T : i \in M
    <3>. HIDE DEF T
    <3>. QED
      BY <1>1, <2>1, <2>2, SetInduction
  <2>4. T \in M /\ ~(T < m)
    <3>. HIDE DEF T, m
    <3>. QED
      BY <1>1, <1>2, <2>3
  <2>. QED
    BY <2>4 DEF M
<1>10. Modeled(reqs, s) = A[m] * T
  <2>1. A[m] \in Nat /\ A[T] \in Nat
    <3>. HIDE DEF T, m
    <3>. QED
      BY <1>1, <1>2, <1>3
  <2>2. ~TooManyTokens(A[m])
    <3>. HIDE DEF T, m
    <3>. QED
      BY <1>0, <1>7, <1>9, <2>1, TokensAre DEF TooManyTokens
  <2>3. Capped(A[m]) = A[m]
    BY <2>1, <2>2, Exact
  <2>4. Modeled(reqs, s) = Capped(SumOver(reqs, s, m)) * T
    BY DEF Modeled
  <2>. QED
    BY <1>7, <2>3, <2>4
<1>. QED
  BY <1>1, <1>2, <1>3, <1>4, <1>5, <1>6, <1>8, <1>10 DEF A, p

LEMMA NextRow ==
  ASSUME NEW reqs, Clean(reqs), NEW s, NEW k \in 1 .. Turns(reqs, s), k < Turns(reqs, s)
  PROVE  LET i == Rows(reqs, s)[k]
             j == Rows(reqs, s)[k + 1]
         IN /\ j \in Within(reqs, s) /\ Rank(reqs, j) > 1
            /\ TruePrompt(reqs[j]) = Prompt(reqs[j])
            /\ TruePrompt(Previous(reqs, j)) = Prompt(reqs[i])
<1>. DEFINE i == Rows(reqs, s)[k]
            j == Rows(reqs, s)[k + 1]
<1>0. reqs \in Seq(Kinds)
  BY DEF Clean
<1>1. Turns(reqs, s) = Cardinality(Within(reqs, s)) /\ Turns(reqs, s) \in Nat
  BY <1>0, TurnsAre
<1>2. k \in 1 .. Cardinality(Within(reqs, s)) /\ k + 1 \in 1 .. Cardinality(Within(reqs, s))
      /\ k >= 1 /\ k \in Nat
  BY <1>1
<1>3. i \in Within(reqs, s)
  BY <1>0, <1>2, RowsAre
<1>4. j \in Within(reqs, s) /\ Rank(reqs, j) = k + 1
  BY <1>0, <1>2, RowsAre
<1>5. i \in DOMAIN reqs /\ j \in DOMAIN reqs /\ reqs[j].session = s
  BY <1>0, <1>3, <1>4, WithinIs
<1>. HIDE DEF j
<1>6. Previous(reqs, j) = reqs[i]
  <2>1. Rank(reqs, j) - 1 = k
    BY <1>2, <1>4
  <2>. QED
    BY <1>5, <2>1 DEF Previous
<1>. HIDE DEF i
<1>7. TruePrompt(reqs[j]) = Prompt(reqs[j]) /\ TruePrompt(reqs[i]) = Prompt(reqs[i])
  BY <1>5, ExactPrompts
<1>8. Rank(reqs, j) > 1
  BY <1>2, <1>4
<1>. QED
  BY <1>4, <1>6, <1>7, <1>8 DEF i, j

LEMMA SidesAreRight ==
  ASSUME NEW reqs, Clean(reqs), NEW s \in Long(reqs)
  PROVE  /\ NeverMore(reqs, s) => ~Grows(reqs, s)
         /\ NeverLess(reqs, s) => ~Shrinks(reqs, s)
         /\ ~(Grows(reqs, s) /\ Shrinks(reqs, s))
<1>. DEFINE T == Turns(reqs, s)
            m == Sample(reqs, s)
            A == [n \in 0 .. T |-> SumOver(reqs, s, n)]
            p == [k \in 1 .. T |-> Prompt(reqs[Rows(reqs, s)[k]])]
<1>1. /\ T \in Nat /\ m \in 1 .. T
      /\ A \in [0 .. T -> Nat] /\ p \in [1 .. T -> Nat] /\ A[0] = 0
      /\ \A i \in 0 .. T : i < T => A[i + 1] = A[i] + p[i + 1]
      /\ Actual(reqs, s) = A[T] /\ Modeled(reqs, s) = A[m] * T
  BY LongRows
<1>2. /\ Grows(reqs, s) <=> Actual(reqs, s) * m > Modeled(reqs, s)
      /\ Shrinks(reqs, s) <=> Actual(reqs, s) * m < Modeled(reqs, s)
  BY DEF Grows, Shrinks
<1>3. ASSUME NEW k \in 1 .. T, k < T
      PROVE  /\ NeverMore(reqs, s) => p[k + 1] <= p[k]
             /\ NeverLess(reqs, s) => p[k + 1] >= p[k]
  <2>. DEFINE i == Rows(reqs, s)[k]
              j == Rows(reqs, s)[k + 1]
  <2>1. /\ j \in Within(reqs, s) /\ Rank(reqs, j) > 1
        /\ TruePrompt(reqs[j]) = Prompt(reqs[j])
        /\ TruePrompt(Previous(reqs, j)) = Prompt(reqs[i])
    BY <1>3, NextRow
  <2>2. k + 1 \in 1 .. T
    BY <1>1, <1>3
  <2>3. p[k] = Prompt(reqs[i]) /\ p[k + 1] = Prompt(reqs[j])
    BY <2>2
  <2>. HIDE DEF i, j, p
  <2>4. NeverMore(reqs, s) => TruePrompt(reqs[j]) <= TruePrompt(Previous(reqs, j))
    BY <2>1 DEF NeverMore
  <2>5. NeverLess(reqs, s) => TruePrompt(reqs[j]) >= TruePrompt(Previous(reqs, j))
    BY <2>1 DEF NeverLess
  <2>. QED
    BY <2>1, <2>3, <2>4, <2>5
<1>. HIDE DEF T, m, A, p
<1>4. A[T] * m \in Nat /\ A[m] * T \in Nat
  <2>1. A[T] \in Nat /\ A[m] \in Nat /\ m \in Nat
    BY <1>1
  <2>. QED
    BY <1>1, <2>1, Products
<1>5. ASSUME NeverMore(reqs, s) PROVE A[T] * m <= A[m] * T
  <2>1. \A k \in 1 .. T : k < T => p[k + 1] <= p[k]
    BY <1>3, <1>5
  <2>. QED
    BY <1>1, <2>1, Averages
<1>6. ASSUME NeverLess(reqs, s) PROVE A[T] * m >= A[m] * T
  <2>1. \A k \in 1 .. T : k < T => p[k + 1] >= p[k]
    BY <1>3, <1>6
  <2>. QED
    BY <1>1, <2>1, AveragesUp
<1>. DEFINE x == A[T] * m
            y == A[m] * T
<1>7. /\ Grows(reqs, s) <=> x > y
      /\ Shrinks(reqs, s) <=> x < y
  BY <1>1, <1>2
<1>8. /\ x \in Nat /\ y \in Nat
      /\ NeverMore(reqs, s) => x <= y
      /\ NeverLess(reqs, s) => x >= y
  BY <1>4, <1>5, <1>6
<1>. HIDE DEF x, y
<1>. QED
  BY <1>7, <1>8

LEMMA VerdictNow == WasteTypeOK => VerdictIsFair
<1>. SUFFICES ASSUME WasteTypeOK PROVE VerdictIsFair
  OBVIOUS
<1>0. requests \in Seq(Kinds)
  BY DEF WasteTypeOK
<1>. DEFINE v == Summary(requests)
<1>1. /\ v.all = Capped(TrueSum(requests, Prompt))
      /\ v.observed = Capped(LongTotal(requests))
      /\ v.included = Cardinality(Long(requests))
      /\ v.positive = Cardinality({s \in Long(requests) : Grows(requests, s)})
      /\ v.negative = Cardinality({s \in Long(requests) : Shrinks(requests, s)})
  BY SummaryIs
<1>2. ~v.overflow => Clean(requests)
  BY <1>0, SummaryIs DEF Clean
<1>3. ASSUME ~v.overflow
      PROVE  /\ v.all = TrueSum(requests, TruePrompt)
             /\ v.observed = LongSent(requests)
             /\ v.positive + v.negative <= v.included
             /\ \A s \in Long(requests) :
                  /\ NeverMore(requests, s) => ~Grows(requests, s)
                  /\ NeverLess(requests, s) => ~Shrinks(requests, s)
  <2>1. Clean(requests)
    BY <1>2, <1>3
  <2>2. \A s \in Long(requests) :
          /\ NeverMore(requests, s) => ~Grows(requests, s)
          /\ NeverLess(requests, s) => ~Shrinks(requests, s)
          /\ ~(Grows(requests, s) /\ Shrinks(requests, s))
    BY <2>1, SidesAreRight
  <2>. HIDE DEF v
  <2>3. v.all = TrueSum(requests, TruePrompt)
    BY <1>1, <2>1, AllIsTrue
  <2>4. v.observed = LongSent(requests)
    BY <1>1, <2>1, ObservedIsTrue
  <2>5. v.positive + v.negative <= v.included
    BY <1>0, <1>1, <2>2, OneSide
  <2>. QED
    BY <2>2, <2>3, <2>4, <2>5
<1>4. ASSUME InitLine(requests), ignored = 0 \/ CompleteAccounting
      PROVE  Eligible(requests)
  <2>0. Gate(Len(requests)) # "withheld"
    BY <1>0, <1>4 DEF InitLine, Gate
  <2>1. WithoutTime(requests) = {} /\ v.included > 0 /\ ~v.overflow
    BY <1>4 DEF InitLine, Computed
  <2>. HIDE DEF v
  <2>2. Long(requests) # {}
    <3>1. CASE Long(requests) = {}
      <4>1. v.included = 0
        BY <1>1, <3>1, FS_EmptySet
      <4>. QED
        BY <2>1, <4>1
    <3>. QED
      BY <3>1
  <2>. QED
    BY <2>0, <2>1, <2>2 DEF Eligible, Reportable, v
<1>5. Eligible(requests) \/ InitLine(requests) => ~v.overflow
  BY DEF Eligible, Reportable, InitLine, Computed
<1>. HIDE DEF v
<1>. QED
  BY <1>3, <1>4, <1>5 DEF VerdictIsFair, TrueSum, LongSent, v

-----------------------------------------------------------------------------

LEMMA WasteStarts == ScanBegins => WasteTypeOK
<1>. SUFFICES ASSUME ScanBegins PROVE WasteTypeOK
  OBVIOUS
<1>1. requests = << >> /\ ignored = 0 /\ malformed = 0 /\ broken = FALSE
  BY DEF ScanBegins, WasteInit
<1>2. << >> \in Seq(Kinds)
  OBVIOUS
<1>3. 0 \in 0 .. MaxMalformed /\ 0 \in 0 .. MaxIgnored
  BY VerdictAssumption
<1>. QED
  BY <1>1, <1>2, <1>3 DEF WasteTypeOK

LEMMA WasteKept == WasteTypeOK /\ [WasteNext]_waste => WasteTypeOK'
<1>. SUFFICES ASSUME WasteTypeOK, [WasteNext]_waste PROVE WasteTypeOK'
  OBVIOUS
<1>1. /\ requests \in Seq(Kinds) /\ ignored \in 0 .. MaxIgnored
      /\ malformed \in 0 .. MaxMalformed /\ broken \in BOOLEAN
      /\ MaxMalformed \in Nat /\ MaxIgnored \in Nat
  BY VerdictAssumption DEF WasteTypeOK
<1>2. CASE ReadRequest /\ UNCHANGED <<ignored, malformed, broken>>
  BY <1>1, <1>2 DEF ReadRequest, WasteTypeOK
<1>6. CASE ignored < MaxIgnored /\ ignored' = ignored + 1
           /\ UNCHANGED <<requests, malformed, broken>>
  BY <1>1, <1>6 DEF WasteTypeOK
<1>3. CASE malformed < MaxMalformed /\ malformed' = malformed + 1
           /\ UNCHANGED <<requests, ignored, broken>>
  BY <1>1, <1>3 DEF WasteTypeOK
<1>4. CASE ~broken /\ broken' = TRUE /\ UNCHANGED <<requests, ignored, malformed>>
  BY <1>1, <1>4 DEF WasteTypeOK
<1>5. CASE UNCHANGED waste
  BY <1>1, <1>5 DEF waste, WasteTypeOK
<1>. QED
  BY <1>2, <1>3, <1>4, <1>5, <1>6 DEF WasteNext

(* Whatever requests the logs hold, and in whatever order they are read:     *)
(* ranges are ranges, nothing claims more than was sent, the headline is     *)
(* between the findings and what was sent, and later requests take nothing   *)
(* back (detectors.rs).                                                      *)
THEOREM ImpactBounded == WasteSpec => []ImpactIsBounded
BY WasteStarts, WasteKept, ImpactNow, PTL DEF WasteSpec

(* A verdict, of the command or of init, is given only of true sums, with    *)
(* each session on one side at most; init prints none that `verdict` would   *)
(* withhold, unless a project is ignored while malformed records are         *)
(* disclosed (verdictcmd.rs, initcmd.rs).                                    *)
THEOREM VerdictsAreFair == WasteSpec => []VerdictIsFair
BY WasteStarts, WasteKept, VerdictNow, PTL DEF WasteSpec

-----------------------------------------------------------------------------
(* The ledger and the waste of the desk: elsewhere they stay as they are.    *)

NumbersInv == LedgerInv /\ WasteTypeOK

LEMMA NumbersStart == DeskInit => NumbersInv
<1>1. DeskInit => LedgerInit /\ ScanBegins
  BY DEF DeskInit
<1>. QED
  BY <1>1, LedgerStarts, WasteStarts DEF NumbersInv

LEMMA NumbersKept == NumbersInv /\ [DeskNext]_DeskVars => NumbersInv'
<1>. SUFFICES ASSUME NumbersInv, [DeskNext]_DeskVars PROVE NumbersInv'
  OBVIOUS
<1>1. [LedgerNext]_ledger
  <2>1. DeskNext => [LedgerNext]_ledger
    BY DEF DeskNext
  <2>2. UNCHANGED DeskVars => UNCHANGED ledger
    BY DEF DeskVars
  <2>. QED
    BY <2>1, <2>2
<1>2. [WasteNext]_waste
  <2>1. DeskNext => [WasteNext]_waste
    BY DEF DeskNext
  <2>2. UNCHANGED DeskVars => UNCHANGED waste
    BY DEF DeskVars
  <2>. QED
    BY <2>1, <2>2
<1>. QED
  BY <1>1, <1>2, LedgerKept, WasteKept DEF NumbersInv

LEMMA NumbersNow == NumbersInv => NumbersAreTrue
BY CountsFollow, ImpactNow, VerdictNow DEF NumbersInv, NumbersAreTrue

(* On the whole desk: the totals a run's cap is held against are the true    *)
(* ones, nothing the detectors claim exceeds what was sent, and a verdict    *)
(* is given only of true sums (ledger.rs, detectors.rs, verdictcmd.rs).      *)
THEOREM NumbersTrue == DeskSpec => []NumbersAreTrue
<1>1. DeskSpec => DeskInit /\ [][DeskNext]_DeskVars
  BY DEF DeskSpec, DeskVars
<1>. QED
  BY <1>1, NumbersStart, NumbersKept, NumbersNow, PTL

-----------------------------------------------------------------------------
(* The claims of the desk: CodingStateProofs, for the run of this scene.     *)

LEMMA ClaimsAssumed == Claiming!PlanAssumption /\ Claiming!StateAssumption
<1>1. Claiming!PlanAssumption
  BY DEF Claiming!PlanAssumption
<1>2. Claiming!StateAssumption
  <2>2. Claiming!IsFiniteSet({claim})
    BY FS_Singleton, Zenon DEF IsFiniteSet, Claiming!IsFiniteSet
  <2>3. [plan |-> [cap |-> 0, tasks |-> << >>], command |-> TRUE,
         everyStep |-> TRUE, unverified |-> FALSE]
          \in {m \in Claiming!Manifest : Claiming!ValidManifest(m)}
    <3>1. << >> \in Seq(Claiming!Task)
      OBVIOUS
    <3>2. [cap |-> 0, tasks |-> << >>] \in Claiming!Plan
      BY <3>1 DEF Claiming!Plan
    <3>. QED
      BY <3>2 DEF Claiming!Manifest, Claiming!ValidManifest, Claiming!Managed
  <2>4. {[plan |-> [cap |-> 0, tasks |-> << >>], command |-> TRUE,
           everyStep |-> TRUE, unverified |-> FALSE]}
          \subseteq {m \in Claiming!Manifest : Claiming!ValidManifest(m)}
    BY <2>3
  <2>5. {} \subseteq SUBSET {} /\ Claiming!IsFiniteSet({claim})
    BY <2>2
  <2>6. \A n \in {3, 2, 1, 1, 3, 2, 1, 1, 6, 1, 1, 3} : n \in Nat
    OBVIOUS
  <2>7. ASSUME NEW m \in {[plan |-> [cap |-> 0, tasks |-> << >>], command |-> TRUE,
                           everyStep |-> TRUE, unverified |-> FALSE]}
        PROVE  Claiming!Cardinality(Claiming!PlanIds(m.plan)) <= 6
    <3>1. Claiming!PlanIds(m.plan) = {}
      BY DEF Claiming!PlanIds
    <3>2. Claiming!Cardinality({}) = 0
      BY FS_EmptySet, Zenon DEF Cardinality, Claiming!Cardinality
    <3>. QED
      BY <3>1, <3>2
  <2>. QED
    BY <2>4, <2>5, <2>6, <2>7, Zenon DEF Claiming!StateAssumption
<1>. QED
  BY <1>1, <1>2

LEMMA ClaimsRun == [DeskNext]_DeskVars => [Claiming!Next]_(Claiming!vars)
<1>1. DeskNext => [Claiming!Next]_claiming
  BY DEF DeskNext
<1>2. UNCHANGED DeskVars => UNCHANGED claiming
  BY DEF DeskVars
<1>. QED
  BY <1>1, <1>2 DEF claiming, Claiming!vars

(* On the whole desk: a verified claim can only be disputed after that, and  *)
(* a disputed one leaves only for the archive (CodingState::validate_delta).  *)
THEOREM ClaimsStand == DeskSpec => ClaimsMoveForward
<1>1. DeskSpec => DeskInit /\ [][DeskNext]_DeskVars
  BY DEF DeskSpec, DeskVars
<1>2. DeskInit => Claiming!Init
  BY DEF DeskInit
<1>3. Claiming!Spec <=> Claiming!Init /\ [][Claiming!Next]_(Claiming!vars)
  BY DEF Claiming!Spec
<1>4. Claiming!Spec => Claiming!ClaimsMoveForward
  BY ClaimsAssumed, Claiming!KnowledgeStands
<1>. QED
  BY <1>1, <1>2, <1>3, <1>4, ClaimsRun, PTL DEF ClaimsMoveForward
=============================================================================
