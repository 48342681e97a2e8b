---------------------------- MODULE MCCatalogScan ----------------------------
(* Instances of CatalogScan for TLC. *)
EXTENDS CatalogScan

CONSTANTS a, b, c, s, t

\* One source with a plain text file and an Office file.
ContentKind == [f \in Files |-> IF f = a THEN "text" ELSE "office"]

\* A plain text file, a metadata-only file and a temporary file.
MixedKind == [f \in Files |-> CASE f = a -> "text" [] f = b -> "metadata" [] OTHER -> "ignored"]

\* One source with a metadata-only file and an Office file.
OfficeKind == [f \in Files |-> IF f = a THEN "metadata" ELSE "office"]

\* One source with a plain text, a metadata-only and an Office file.
AllKinds == [f \in Files |-> CASE f = a -> "text" [] f = b -> "metadata" [] OTHER -> "office"]

OneSource == [x \in Sources |-> Files]

\* Source s is the parent folder, t the subfolder that holds b.
Nested == [x \in Sources |-> IF x = s THEN Files ELSE {b}]
=============================================================================
