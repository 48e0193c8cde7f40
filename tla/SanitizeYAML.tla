----------------------------- MODULE SanitizeYAML -----------------------------
(***************************************************************************)
(* The scan of erasePVC (src/cmds/erase_pvc.go lines 132-159) that turns   *)
(* the output of `kubectl get -o yaml pvc' into the manifest written to    *)
(* the temporary file, one loop iteration per step.                        *)
(*                                                                         *)
(* A line is abstracted to what the scan looks at:                         *)
(*   ind   its first byte is a space (text[0] == " ")                      *)
(*   kind  "Status"   the line is exactly "status:"                        *)
(*         "Excluded" trimmed, it starts with a removedExportedLine prefix *)
(*         "Blank"    the empty line                                       *)
(*         "Long"     longer than bufio.MaxScanTokenSize (64 KiB)          *)
(*         "Other"    any other line                                       *)
(***************************************************************************)
EXTENDS Naturals, Sequences

CONSTANTS
    Lines,     \* the lines kubectl may print, a subset of AllLines
    MaxLines   \* the longest manifest considered

Kinds == {"Status", "Excluded", "Blank", "Long", "Other"}

\* "status:" and "" have no leading space.
AllLines == {l \in [ind : BOOLEAN, kind : Kinds] :
               l.kind \in {"Status", "Blank"} => ~l.ind}

ASSUME SanitizeAssumption ==
    /\ Lines \subseteq AllLines
    /\ MaxLines \in Nat

\* The kubectl outputs considered.
Manifests == UNION {[1..n -> Lines] : n \in 0..MaxLines}

VARIABLES
    manifest,    \* the kubectl output being scanned
    pos,         \* the index of the line scanner.Scan() reads next
    inStatus,    \* the inStatus flag of line 132
    outputYAML,  \* the lines kept so far
    scan         \* "Scanning", "Finished" (the loop ended) or "Panicked"

vars == <<manifest, pos, inStatus, outputYAML, scan>>

Init ==
    /\ manifest \in Manifests
    /\ pos = 1
    /\ inStatus = FALSE
    /\ outputYAML = <<>>
    /\ scan = "Scanning"

\* Mutant: the prefixes are matched against the untrimmed line.
ExcludedUntrimmed(l) == l.kind = "Excluded" /\ ~l.ind

\* Lines 137-144: the trimmed line starts with a removedExportedLine prefix.
Excluded(l) == l.kind = "Excluded"

\* One iteration of the loop body, lines 136-158, for the line l.
\* Lines 139-147: a line with an excluded prefix is dropped before
\* anything else, inStatus untouched.  Lines 148-151: "status:" opens the
\* block.  Lines 153-157: inside the block an unindented line closes it and
\* is kept, text[0] of the empty line is an index out of range.
Keep(l) ==
    /\ outputYAML' = Append(outputYAML, l)
    /\ UNCHANGED scan

\* Mutant: the unindented line after the status block does not reset
\* inStatus.
ScanLineNoReset ==
    /\ scan = "Scanning"
    /\ pos <= Len(manifest)
    /\ pos' = pos + 1
    /\ LET l == manifest[pos] IN
       IF l.kind = "Long" THEN scan' = "Finished" /\ UNCHANGED <<inStatus, outputYAML>>
       ELSE IF l.kind = "Status" THEN inStatus' = TRUE /\ UNCHANGED <<outputYAML, scan>>
       ELSE IF inStatus \/ Excluded(l) THEN UNCHANGED <<inStatus, outputYAML, scan>>
       ELSE Keep(l) /\ UNCHANGED inStatus
    /\ UNCHANGED manifest

\* The tests of the loop body in the order the code makes them; each branch
\* ends the iteration (continue, or the append of line 158).
ScanLine ==
    /\ scan = "Scanning"
    /\ pos <= Len(manifest)
    /\ pos' = pos + 1
    /\ LET l == manifest[pos] IN
       IF l.kind = "Long" THEN
          \* Scan() returns false on a too long token; the loop ends and
          \* scanner.Err() is never looked at.
          /\ scan' = "Finished"
          /\ UNCHANGED <<inStatus, outputYAML>>
       ELSE IF Excluded(l) THEN
          UNCHANGED <<inStatus, outputYAML, scan>>
       ELSE IF l.kind = "Status" THEN
          /\ inStatus' = TRUE
          /\ UNCHANGED <<outputYAML, scan>>
       ELSE IF inStatus /\ l.kind = "Blank" THEN
          /\ scan' = "Panicked"
          /\ UNCHANGED <<inStatus, outputYAML>>
       ELSE IF inStatus /\ ~l.ind THEN
          /\ inStatus' = FALSE
          /\ Keep(l)
       ELSE IF inStatus THEN
          UNCHANGED <<inStatus, outputYAML, scan>>
       ELSE
          /\ Keep(l)
          /\ UNCHANGED inStatus
    /\ UNCHANGED manifest

\* Scan() returns false at the end of the output.
EndOfInput ==
    /\ scan = "Scanning"
    /\ pos > Len(manifest)
    /\ scan' = "Finished"
    /\ UNCHANGED <<manifest, pos, inStatus, outputYAML>>

Ended == scan # "Scanning" /\ UNCHANGED vars

Next == ScanLine \/ EndOfInput \/ Ended

Spec == Init /\ [][Next]_vars

-----------------------------------------------------------------------------
(* What spec.md §4.1 step 4 asks of the sanitised manifest.                *)

\* Line i of m lies in a status block: it is "status:", or follows one with
\* only indented lines in between.
InStatusBlock(m, i) ==
    \E j \in 1..i : m[j].kind = "Status" /\ \A k \in (j + 1)..i : m[k].ind

SpecKeeps(m, i) == m[i].kind # "Excluded" /\ ~InStatusBlock(m, i)

\* The kept lines of m, in their order.
SpecSanitized(m) ==
    LET kept[i \in 0..Len(m)] ==
          IF i = 0 THEN <<>>
          ELSE IF SpecKeeps(m, i) THEN Append(kept[i - 1], m[i])
          ELSE kept[i - 1]
    IN kept[Len(m)]

TypeOK ==
    /\ manifest \in Manifests
    /\ pos \in 1..(Len(manifest) + 1)
    /\ inStatus \in BOOLEAN
    /\ outputYAML \in Seq(Lines)
    /\ scan \in {"Scanning", "Finished", "Panicked"}

\* When the scan ends, the file erase-pvc writes is exactly the manifest with
\* the excluded lines and the status block removed, every other line kept
\* verbatim and in order (spec.md §4.1 step 4 and §8), and the scan has not
\* crashed.
SanitizeMatchesSpec ==
    scan # "Scanning" =>
      /\ scan = "Finished"
      /\ outputYAML = SpecSanitized(manifest)

\* A manifest with neither an over-long nor an empty line, as kubectl
\* prints for an ordinary claim.
Ordinary(m) == \A k \in DOMAIN m : m[k].kind \notin {"Long", "Blank"}

\* On an ordinary manifest the file erase-pvc writes is exactly the one
\* spec.md asks for (lines 132-159 against §4.1 step 4).
OrdinaryMatchesSpec == Ordinary(manifest) => SanitizeMatchesSpec

\* Whatever else happens (a line over 64 KiB ends the scan early, an empty
\* line in the status block crashes it), at every step the lines written so
\* far are the first lines of the spec's sanitised manifest: the scan never
\* writes a status or server-generated line, never reorders, never skips a
\* line it should keep and then writes a later one.
SanitizedPrefix ==
    \E n \in 0..Len(SpecSanitized(manifest)) :
      outputYAML = SubSeq(SpecSanitized(manifest), 1, n)

=============================================================================
