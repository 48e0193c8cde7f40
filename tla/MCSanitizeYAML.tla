---------------------------- MODULE MCSanitizeYAML ----------------------------
(* The lines kubectl may print for a claim.  Every removedExportedLine key  *)
(* is nested (metadata.selfLink, spec.volumeName, ...), so an excluded line *)
(* is indented.                                                             *)
EXTENDS SanitizeYAML

\* Manifests that may hold an over-long line (a large last-applied
\* annotation) but no empty line.
LongLines == {l \in AllLines : l.kind # "Blank" /\ (l.kind = "Excluded" => l.ind)}

\* Manifests that may hold an empty line but no over-long one.
BlankLines == {l \in AllLines : l.kind # "Long" /\ (l.kind = "Excluded" => l.ind)}

\* Every line kubectl may print for a claim, over-long and empty ones included.
AnyKubectlLines == {l \in AllLines : l.kind = "Excluded" => l.ind}

=============================================================================
