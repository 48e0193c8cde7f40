-------------------------- MODULE SanitizeYAMLProofs --------------------------
(***************************************************************************)
(* Proofs that the scan of erasePVC (src/cmds/erase_pvc.go lines 132-159)  *)
(* writes a prefix of the manifest spec.md asks for, and all of it on an   *)
(* ordinary manifest, for every manifest of every length.                  *)
(*                                                                         *)
(* SpecSanitized is a recursive function over the line index.  Its         *)
(* defining equation comes from FiniteNatInductiveDef, and the one fact    *)
(* that needs an induction (a shorter kept prefix is a prefix of a longer  *)
(* one) is proved with the lemma Induction, derived here from the          *)
(* uniqueness of functions defined by recursion over Nat.                  *)
(***************************************************************************)
EXTENDS SanitizeYAML, NaturalsInduction, TLAPS

USE SanitizeAssumption

-----------------------------------------------------------------------------
(* Induction over Nat, with the induction hypothesis and the conclusion    *)
(* behind operators so that a use instantiates P by matching them.         *)

Inductive(P(_)) == P(0) /\ \A n \in Nat : P(n) => P(n + 1)
AllNat(P(_)) == \A n \in Nat : P(n)

\* The function that is 1 up to the first n with ~P(n) and 0 from there on
\* satisfies the same recursive equation as the constant 1.
SameValue(v, i) == v

LEMMA Induction ==
    ASSUME NEW P(_), Inductive(P)
    PROVE  AllNat(P)
<1> DEFINE Upto == [i \in Nat |-> IF \A j \in 0..i : P(j) THEN 1 ELSE 0]
           One == [i \in Nat |-> 1]
<1>1. NatInductiveDefConclusion(Upto, 1, SameValue)
  <2>1. ASSUME NEW i \in Nat \ {0}
        PROVE  (\A j \in 0..i : P(j)) <=> (\A j \in 0..(i - 1) : P(j))
    <3> SUFFICES ASSUME \A j \in 0..(i - 1) : P(j) PROVE P(i)
      OBVIOUS
    <3>1. P(i - 1)
      OBVIOUS
    <3>2. QED
      BY <3>1 DEF Inductive
  <2>2. \A j \in 0..0 : P(j)
    BY DEF Inductive
  <2>3. Upto = [i \in Nat |-> IF i = 0 THEN 1 ELSE SameValue(Upto[i - 1], i)]
    BY <2>1, <2>2 DEF SameValue, Upto
  <2>4. QED
    BY <2>3 DEF NatInductiveDefConclusion
<1>2. NatInductiveDefConclusion(One, 1, SameValue)
  BY DEF NatInductiveDefConclusion, SameValue, One
<1>3. Upto = One
  <2> HIDE DEF Upto, One
  <2>1. QED
    BY <1>1, <1>2, NatInductiveUnique
<1>4. QED
  BY <1>3 DEF AllNat

-----------------------------------------------------------------------------
(* The kept lines of the first i lines of m, as in SpecSanitized.          *)

Kept(m) ==
    CHOOSE kept : kept = [i \in 0..Len(m) |->
                            IF i = 0 THEN <<>>
                            ELSE IF SpecKeeps(m, i) THEN Append(kept[i - 1], m[i])
                            ELSE kept[i - 1]]

\* The defining equation of Kept(m).
LEMMA KeptDef ==
    ASSUME NEW m \in Seq(Lines)
    PROVE  Kept(m) = [i \in 0..Len(m) |->
                        IF i = 0 THEN <<>>
                        ELSE IF SpecKeeps(m, i) THEN Append(Kept(m)[i - 1], m[i])
                        ELSE Kept(m)[i - 1]]
<1> DEFINE Def(v, i) == IF SpecKeeps(m, i) THEN Append(v, m[i]) ELSE v
<1>1. FiniteNatInductiveDefHypothesis(Kept(m), <<>>, Def, 0, Len(m))
  BY DEF FiniteNatInductiveDefHypothesis, Kept
<1>2. FiniteNatInductiveDefConclusion(Kept(m), <<>>, Def, 0, Len(m))
  <2> HIDE DEF Def
  <2>1. QED
    BY <1>1, FiniteNatInductiveDef
<1>3. QED
  BY <1>2 DEF FiniteNatInductiveDefConclusion

\* SpecSanitized(m) is the last value of Kept(m).
LEMMA SpecSanitizedIsKept ==
    ASSUME NEW m \in Seq(Lines)
    PROVE  SpecSanitized(m) = Kept(m)[Len(m)]
BY DEF SpecSanitized, Kept

\* Kept(m)[i] is Kept(m)[i - 1], with m[i] appended when the spec keeps it.
LEMMA KeptStep ==
    ASSUME NEW m \in Seq(Lines), NEW i \in 1..Len(m)
    PROVE  Kept(m)[i] = IF SpecKeeps(m, i) THEN Append(Kept(m)[i - 1], m[i])
                        ELSE Kept(m)[i - 1]
<1>1. Kept(m) = [j \in 0..Len(m) |->
                   IF j = 0 THEN <<>>
                   ELSE IF SpecKeeps(m, j) THEN Append(Kept(m)[j - 1], m[j])
                   ELSE Kept(m)[j - 1]]
  BY KeptDef
<1>2. i \in 0..Len(m) /\ i # 0
  OBVIOUS
<1> HIDE DEF Kept, SpecKeeps
<1>3. QED
  BY <1>1, <1>2

\* Nothing is kept of no line.
LEMMA KeptZero ==
    ASSUME NEW m \in Seq(Lines)
    PROVE  Kept(m)[0] = <<>>
<1>1. Kept(m) = [j \in 0..Len(m) |->
                   IF j = 0 THEN <<>>
                   ELSE IF SpecKeeps(m, j) THEN Append(Kept(m)[j - 1], m[j])
                   ELSE Kept(m)[j - 1]]
  BY KeptDef
<1> HIDE DEF Kept, SpecKeeps
<1>2. QED
  BY <1>1

\* Every Kept(m)[i] is a sequence of lines.
LEMMA KeptType ==
    ASSUME NEW m \in Seq(Lines)
    PROVE  \A i \in 0..Len(m) : Kept(m)[i] \in Seq(Lines)
<1> DEFINE P(i) == i <= Len(m) => Kept(m)[i] \in Seq(Lines)
<1>1. Inductive(P)
  <2>1. P(0)
    <3>1. Kept(m)[0] = <<>>
      BY KeptZero
    <3> HIDE DEF Kept
    <3>2. QED
      BY <3>1 DEF P
  <2>2. ASSUME NEW i \in Nat, P(i) PROVE P(i + 1)
    <3> SUFFICES ASSUME i + 1 <= Len(m) PROVE Kept(m)[i + 1] \in Seq(Lines)
      BY DEF P
    <3>1. Kept(m)[i] \in Seq(Lines)
      BY <2>2 DEF P
    <3>2. m[i + 1] \in Lines
      OBVIOUS
    <3>3. Kept(m)[i + 1] = IF SpecKeeps(m, i + 1) THEN Append(Kept(m)[i], m[i + 1])
                           ELSE Kept(m)[i]
      BY KeptStep
    <3> HIDE DEF Kept, SpecKeeps
    <3>4. QED
      BY <3>1, <3>2, <3>3
  <2>3. QED
    BY <2>1, <2>2 DEF Inductive
<1>2. AllNat(P)
  <2> HIDE DEF P
  <2>1. QED
    BY <1>1, Induction
<1>3. QED
  BY <1>2 DEF AllNat, P

\* s is a prefix of t.
PrefixOf(s, t) == Len(s) <= Len(t) /\ \A i \in 1..Len(s) : s[i] = t[i]

\* The lines kept from the first n lines are the first lines of those kept
\* from the whole manifest.
LEMMA KeptPrefix ==
    ASSUME NEW m \in Seq(Lines), NEW n \in 0..Len(m)
    PROVE  PrefixOf(Kept(m)[n], Kept(m)[Len(m)])
<1> DEFINE L == Len(m)
           K == Kept(m)
           P(d) == d <= L => PrefixOf(K[L - d], K[L])
<1>1. \A i \in 0..L : K[i] \in Seq(Lines)
  BY KeptType
<1>2. ASSUME NEW i \in 1..L PROVE PrefixOf(K[i - 1], K[i])
  <2>1. K[i - 1] \in Seq(Lines) /\ m[i] \in Lines
    BY <1>1
  <2>2. K[i] = IF SpecKeeps(m, i) THEN Append(K[i - 1], m[i]) ELSE K[i - 1]
    BY KeptStep
  <2> HIDE DEF K, SpecKeeps
  <2>3. CASE SpecKeeps(m, i)
    BY <2>1, <2>2, <2>3 DEF PrefixOf
  <2>4. CASE ~SpecKeeps(m, i)
    BY <2>1, <2>2, <2>4 DEF PrefixOf
  <2>5. QED
    BY <2>3, <2>4
<1>3. Inductive(P)
  <2>1. P(0)
    BY <1>1 DEF PrefixOf, P
  <2>2. ASSUME NEW d \in Nat, P(d) PROVE P(d + 1)
    <3> SUFFICES ASSUME d + 1 <= L PROVE PrefixOf(K[L - (d + 1)], K[L])
      BY DEF P
    <3>1. PrefixOf(K[L - d], K[L])
      BY <2>2 DEF P
    <3>2. PrefixOf(K[L - (d + 1)], K[L - d])
      BY <1>2
    <3>3. QED
      BY <1>1, <3>1, <3>2 DEF PrefixOf
  <2>3. QED
    BY <2>1, <2>2 DEF Inductive
<1>4. AllNat(P)
  <2> HIDE DEF P
  <2>1. QED
    BY <1>3, Induction
<1>5. QED
  BY <1>4 DEF AllNat, P

-----------------------------------------------------------------------------
(* The scan against the spec.                                              *)

\* Every removedExportedLine key is nested under metadata or spec
\* (erase_pvc.go lines 34-40), so kubectl prints an excluded line indented.
NestedExclusions == \A l \in Lines : Excluded(l) => l.ind

\* A manifest is a sequence of lines.
LEMMA ManifestIsSeq ==
    ASSUME NEW m \in Manifests
    PROVE  m \in Seq(Lines) /\ Len(m) \in 0..MaxLines
BY DEF Manifests

\* Line p is in a status block when it is "status:", or it is indented and
\* line p - 1 is in the block.
LEMMA InStatusBlockStep ==
    ASSUME NEW m \in Seq(Lines), NEW p \in 1..Len(m)
    PROVE  InStatusBlock(m, p) <=>
             \/ m[p].kind = "Status"
             \/ p > 1 /\ m[p].ind /\ InStatusBlock(m, p - 1)
<1>1. ASSUME InStatusBlock(m, p), m[p].kind # "Status"
      PROVE  p > 1 /\ m[p].ind /\ InStatusBlock(m, p - 1)
  <2>1. PICK j \in 1..p : m[j].kind = "Status" /\ \A k \in (j + 1)..p : m[k].ind
    BY <1>1 DEF InStatusBlock
  <2>2. j # p
    BY <1>1, <2>1
  <2>3. QED
    BY <2>1, <2>2 DEF InStatusBlock
<1>2. ASSUME p > 1, m[p].ind, InStatusBlock(m, p - 1)
      PROVE  InStatusBlock(m, p)
  <2>1. PICK j \in 1..(p - 1) : m[j].kind = "Status" /\ \A k \in (j + 1)..(p - 1) : m[k].ind
    BY <1>2 DEF InStatusBlock
  <2>2. QED
    BY <1>2, <2>1 DEF InStatusBlock
<1>3. m[p].kind = "Status" => InStatusBlock(m, p)
  BY DEF InStatusBlock
<1>4. QED
  BY <1>1, <1>2, <1>3

\* What the scan has done after reading pos - 1 lines: it has kept exactly
\* what the spec keeps of them, and inStatus says whether the last of them
\* lies in a status block; once it has stopped it has kept the spec's lines
\* of some first lines, and of all of them on an ordinary manifest.
IInv ==
    /\ TypeOK
    /\ scan = "Scanning" =>
         /\ outputYAML = Kept(manifest)[pos - 1]
         /\ inStatus <=> (pos > 1 /\ InStatusBlock(manifest, pos - 1))
    /\ scan # "Scanning" =>
         /\ \E n \in 0..Len(manifest) : outputYAML = Kept(manifest)[n]
         /\ Ordinary(manifest) =>
              /\ scan = "Finished"
              /\ outputYAML = Kept(manifest)[Len(manifest)]

LEMMA IInvInit == Init => IInv
<1> SUFFICES ASSUME Init PROVE IInv
  OBVIOUS
<1>1. manifest \in Seq(Lines)
  BY ManifestIsSeq DEF Init
<1>2. Kept(manifest)[0] = <<>>
  BY <1>1, KeptZero
<1> HIDE DEF Kept
<1>3. TypeOK
  <2>1. pos \in 1..(Len(manifest) + 1) /\ outputYAML \in Seq(Lines)
    BY <1>1 DEF Init
  <2>2. inStatus \in BOOLEAN
    BY Zenon DEF Init
  <2>3. QED
    BY <2>1, <2>2 DEF Init, TypeOK
<1>4. outputYAML = Kept(manifest)[pos - 1]
  BY <1>2 DEF Init
<1>5. inStatus <=> (pos > 1 /\ InStatusBlock(manifest, pos - 1))
  <2>1. ~(pos > 1)
    BY DEF Init
  <2>2. QED
    BY <2>1, Zenon DEF Init
<1>6. QED
  BY <1>3, <1>4, <1>5 DEF Init, IInv

\* A step that reads line pos and goes on scanning keeps IInv when it has
\* kept what the spec keeps of the first pos lines and inStatus says
\* whether line pos is in a status block.
LEMMA ContinueKeeps ==
    ASSUME TypeOK, manifest \in Seq(Lines), pos \in 1..Len(manifest),
           manifest' = manifest, pos' = pos + 1, scan' = "Scanning",
           outputYAML' = Kept(manifest)[pos],
           inStatus' \in BOOLEAN,
           inStatus' <=> InStatusBlock(manifest, pos)
    PROVE  IInv'
<1>1. Kept(manifest)[pos] \in Seq(Lines)
  BY KeptType
<1>2. TypeOK'
  <2>1. pos' \in 1..(Len(manifest') + 1) /\ outputYAML' \in Seq(Lines)
    BY <1>1
  <2>2. QED
    BY <2>1 DEF TypeOK
<1>3. outputYAML' = Kept(manifest')[pos' - 1]
  OBVIOUS
<1>4. inStatus' <=> (pos' > 1 /\ InStatusBlock(manifest', pos' - 1))
  <2>1. pos' > 1 /\ pos' - 1 = pos
    OBVIOUS
  <2>2. QED
    BY <2>1, Zenon
<1>5. QED
  BY <1>2, <1>3, <1>4 DEF IInv

\* A step that reads line pos and stops the scan without keeping it keeps
\* IInv when the manifest is not ordinary.
LEMMA StopKeeps ==
    ASSUME TypeOK, manifest \in Seq(Lines), pos \in 1..Len(manifest),
           manifest' = manifest, pos' = pos + 1,
           scan' \in {"Finished", "Panicked"},
           outputYAML' = Kept(manifest)[pos - 1],
           inStatus' \in BOOLEAN,
           ~Ordinary(manifest)
    PROVE  IInv'
<1>1. Kept(manifest)[pos - 1] \in Seq(Lines)
  BY KeptType
<1>2. TypeOK'
  <2>1. pos' \in 1..(Len(manifest') + 1) /\ outputYAML' \in Seq(Lines)
    BY <1>1
  <2>2. QED
    BY <2>1 DEF TypeOK
<1>3. \E n \in 0..Len(manifest') : outputYAML' = Kept(manifest')[n]
  OBVIOUS
<1>4. QED
  BY <1>2, <1>3 DEF IInv

\* One iteration of the loop, one case per branch of its tests.
LEMMA ScanLineKeeps ==
    ASSUME NestedExclusions, IInv, ScanLine
    PROVE  IInv'
<1> DEFINE l == manifest[pos]
           K == Kept(manifest)
           Block(i) == InStatusBlock(manifest, i)
<1>1. /\ manifest \in Seq(Lines) /\ TypeOK
      /\ scan = "Scanning" /\ pos \in 1..Len(manifest)
      /\ pos' = pos + 1 /\ manifest' = manifest
  BY ManifestIsSeq DEF ScanLine, IInv, TypeOK
<1>2. /\ outputYAML = K[pos - 1]
      /\ inStatus <=> (pos > 1 /\ Block(pos - 1))
  BY <1>1 DEF IInv
<1>3. K[pos] = IF SpecKeeps(manifest, pos) THEN Append(K[pos - 1], l) ELSE K[pos - 1]
  BY <1>1, KeptStep
<1>4. Block(pos) <=> \/ l.kind = "Status"
                     \/ pos > 1 /\ l.ind /\ Block(pos - 1)
  BY <1>1, InStatusBlockStep
<1>5. /\ l \in Lines
      /\ l.ind \in BOOLEAN
      /\ l.kind \in Kinds
      /\ inStatus \in BOOLEAN
  BY <1>1 DEF TypeOK, AllLines
<1>6. pos \in DOMAIN manifest
  BY <1>1
<1> HIDE DEF K
<1>7. CASE l.kind = "Long"
  <2>1. scan' = "Finished" /\ UNCHANGED <<inStatus, outputYAML>>
    BY <1>7 DEF ScanLine
  <2>2. ~Ordinary(manifest)
    BY <1>6, <1>7 DEF Ordinary
  <2>3. QED
    BY <1>1, <1>2, <1>5, <2>1, <2>2, StopKeeps DEF K
<1>8. CASE l.kind # "Long" /\ Excluded(l)
  <2>1. UNCHANGED <<inStatus, outputYAML, scan>>
    BY <1>8 DEF ScanLine
  <2>2. l.ind /\ l.kind = "Excluded"
    BY <1>5, <1>8 DEF NestedExclusions, Excluded
  <2>3. ~SpecKeeps(manifest, pos)
    BY <2>2 DEF SpecKeeps
  <2>4. inStatus' <=> Block(pos)
    BY <1>2, <1>4, <2>1, <2>2
  <2>5. QED
    BY <1>1, <1>2, <1>3, <1>5, <2>1, <2>3, <2>4, ContinueKeeps DEF K
<1>9. CASE l.kind = "Status"
  <2>1. inStatus' = TRUE /\ UNCHANGED <<outputYAML, scan>>
    BY <1>9 DEF ScanLine, Excluded
  <2>2. Block(pos)
    BY <1>4, <1>9
  <2>3. ~SpecKeeps(manifest, pos)
    BY <2>2 DEF SpecKeeps
  <2>4. QED
    BY <1>1, <1>2, <1>3, <2>1, <2>2, <2>3, ContinueKeeps DEF K
<1> DEFINE Rest == l.kind \notin {"Long", "Excluded", "Status"}
<1>10. Rest => ~Excluded(l) /\ SpecKeeps(manifest, pos) = ~Block(pos)
  BY DEF Excluded, SpecKeeps
<1>11. CASE Rest /\ inStatus /\ l.kind = "Blank"
  <2>1. scan' = "Panicked" /\ UNCHANGED <<inStatus, outputYAML>>
    BY <1>11, <1>10 DEF ScanLine
  <2>2. ~Ordinary(manifest)
    BY <1>6, <1>11 DEF Ordinary
  <2>3. QED
    BY <1>1, <1>2, <1>5, <2>1, <2>2, StopKeeps DEF K
<1>12. CASE Rest /\ inStatus /\ l.kind # "Blank" /\ ~l.ind
  <2>1. inStatus' = FALSE /\ outputYAML' = Append(outputYAML, l) /\ UNCHANGED scan
    BY <1>12, <1>10 DEF ScanLine, Keep
  <2>2. ~Block(pos)
    BY <1>4, <1>12
  <2>3. SpecKeeps(manifest, pos)
    BY <1>10, <1>12, <2>2
  <2>4. QED
    BY <1>1, <1>2, <1>3, <2>1, <2>2, <2>3, ContinueKeeps DEF K
<1>13. CASE Rest /\ inStatus /\ l.kind # "Blank" /\ l.ind
  <2>1. UNCHANGED <<inStatus, outputYAML, scan>>
    BY <1>13, <1>10 DEF ScanLine
  <2>2. Block(pos)
    BY <1>2, <1>4, <1>13
  <2>3. ~SpecKeeps(manifest, pos)
    BY <1>10, <1>13, <2>2
  <2>4. inStatus' \in BOOLEAN /\ (inStatus' <=> Block(pos))
    BY <1>5, <1>13, <2>1, <2>2, Zenon
  <2>5. QED
    BY <1>1, <1>2, <1>3, <2>1, <2>3, <2>4, ContinueKeeps DEF K
<1>14. CASE Rest /\ ~inStatus
  <2>1. UNCHANGED inStatus /\ outputYAML' = Append(outputYAML, l) /\ UNCHANGED scan
    BY <1>14, <1>10 DEF ScanLine, Keep
  <2>2. ~Block(pos)
    BY <1>2, <1>4, <1>14
  <2>3. SpecKeeps(manifest, pos)
    BY <1>10, <1>14, <2>2
  <2>4. inStatus' \in BOOLEAN /\ (inStatus' <=> Block(pos))
    BY <1>5, <1>14, <2>1, <2>2, Zenon
  <2>5. QED
    BY <1>1, <1>2, <1>3, <2>1, <2>3, <2>4, ContinueKeeps DEF K
<1>15. QED
  BY <1>5, <1>7, <1>8, <1>9, <1>11, <1>12, <1>13, <1>14 DEF Excluded

LEMMA IInvStep ==
    ASSUME NestedExclusions
    PROVE  IInv /\ [Next]_vars => IInv'
<1> SUFFICES ASSUME IInv, [Next]_vars PROVE IInv'
  OBVIOUS
<1>1. manifest \in Seq(Lines)
  BY ManifestIsSeq DEF IInv, TypeOK
<1>2. CASE ScanLine
  BY <1>2, ScanLineKeeps
<1>3. CASE EndOfInput
  <2>1. pos = Len(manifest) + 1
    BY <1>1, <1>3 DEF EndOfInput, IInv, TypeOK
  <2>2. outputYAML = Kept(manifest)[Len(manifest)]
    BY <2>1, <1>3 DEF EndOfInput, IInv
  <2>3. scan' = "Finished" /\ UNCHANGED <<manifest, pos, inStatus, outputYAML>>
    BY <1>3 DEF EndOfInput
  <2>4. TypeOK'
    BY <2>3 DEF IInv, TypeOK
  <2>5. QED
    BY <1>1, <2>2, <2>3, <2>4 DEF IInv
<1>4. CASE Ended \/ UNCHANGED vars
  BY <1>4 DEF Ended, vars, IInv, TypeOK
<1>5. QED
  BY <1>2, <1>3, <1>4 DEF Next

\* IInv holds in every state of the scan of a kubectl manifest.
LEMMA IInvAlways ==
    ASSUME NestedExclusions
    PROVE  Spec => []IInv
BY IInvInit, IInvStep, PTL DEF Spec

\* A prefix is the first Len(s) elements of the sequence.
LEMMA PrefixIsSubSeq ==
    ASSUME NEW s \in Seq(Lines), NEW t \in Seq(Lines), PrefixOf(s, t)
    PROVE  Len(s) \in 0..Len(t) /\ s = SubSeq(t, 1, Len(s))
BY DEF PrefixOf

\* Whatever the manifest (an over-long line ends the scan early, an empty
\* line in the status block crashes it), the lines erasePVC has kept at
\* every step of the loop of lines 135-159 are the first lines of the
\* manifest spec.md asks for, for every manifest of every length.
THEOREM SanitizedPrefixInvariant ==
    ASSUME NestedExclusions
    PROVE  Spec => []SanitizedPrefix
<1>1. IInv => SanitizedPrefix
  <2> SUFFICES ASSUME IInv PROVE SanitizedPrefix
    OBVIOUS
  <2>1. manifest \in Seq(Lines)
    BY ManifestIsSeq DEF IInv, TypeOK
  <2>2. PICK j \in 0..Len(manifest) : outputYAML = Kept(manifest)[j]
    BY DEF IInv, TypeOK
  <2>3. /\ PrefixOf(Kept(manifest)[j], Kept(manifest)[Len(manifest)])
        /\ Kept(manifest)[j] \in Seq(Lines)
        /\ Kept(manifest)[Len(manifest)] \in Seq(Lines)
    BY <2>1, KeptPrefix, KeptType
  <2>4. SpecSanitized(manifest) = Kept(manifest)[Len(manifest)]
    BY <2>1, SpecSanitizedIsKept
  <2> HIDE DEF Kept
  <2>5. QED
    BY <2>2, <2>3, <2>4, PrefixIsSubSeq DEF SanitizedPrefix
<1>2. QED
  BY <1>1, IInvAlways, PTL

\* On a manifest with neither an over-long nor an empty line, erasePVC
\* finishes the loop of lines 135-159 with exactly the lines spec.md asks
\* for, in their order, for every manifest of every length.
THEOREM OrdinaryMatchesSpecInvariant ==
    ASSUME NestedExclusions
    PROVE  Spec => []OrdinaryMatchesSpec
<1>1. IInv => OrdinaryMatchesSpec
  <2> SUFFICES ASSUME IInv PROVE OrdinaryMatchesSpec
    OBVIOUS
  <2>1. SpecSanitized(manifest) = Kept(manifest)[Len(manifest)]
    BY ManifestIsSeq, SpecSanitizedIsKept DEF IInv, TypeOK
  <2> HIDE DEF Kept
  <2>2. QED
    BY <2>1 DEF IInv, OrdinaryMatchesSpec, SanitizeMatchesSpec
<1>2. QED
  BY <1>1, IInvAlways, PTL

=============================================================================
