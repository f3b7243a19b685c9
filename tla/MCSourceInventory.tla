--------------------------- MODULE MCSourceInventory ---------------------------
(* Overlapping commands on an inventory that may list one PDF.             *)
EXTENDS SourceInventory, TLC

CONSTANTS scan, note

MCKindOf == [id \in Ids |-> IF id = scan THEN "pdf" ELSE "native"]
Symmetry == Permutations(Commands)

(* bound: all the copies list no more than one source, a PDF or a native text *)
Listed(manifest) == IF manifest = NoCopy THEN {} ELSE {id \in Ids : manifest[id] # NoSource}
OneSource ==
  \E id \in Ids : UNION ({Listed(saved), Listed(cached.manifest)}
                          \cup {Listed(command[c].copy) : c \in Commands}) \subseteq {id}
===============================================================================
