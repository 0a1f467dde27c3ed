----------------------------- MODULE MCPipeline -----------------------------
(* Small instances of Pipeline for TLC: what a page may say of a file.     *)
EXTENDS Fsck, TLC

(* The announced hash is the body's.                                       *)
Honest == [c \in Contents |-> [has_metadata |-> TRUE, sha |-> c, body |-> c]]

NoSidecar(c) == [has_metadata |-> FALSE, sha |-> None, body |-> c]

HashedEntries == UNION {{Honest[c], NoSidecar(c)} : c \in Contents}

(* A sidecar whose hash is not announced.                                  *)
UnhashedEntries ==
    UNION {{[has_metadata |-> TRUE, sha |-> None, body |-> c], NoSidecar(c)} : c \in Contents}

(* Nothing was imported, or one body for one of the files.                 *)
NoImport == [w \in Wheels |-> None]
OneImport == {NoImport} \cup {[NoImport EXCEPT ![w] = c] : w \in Wheels, c \in Contents}

CONSTANTS w1, c1, c2

(* The sidecars hold c1 and the import c2.                                 *)
FirstBody == {e \in UnhashedEntries : e.body = c1}
OtherBodyImported == {NoImport, [NoImport EXCEPT ![w1] = c2]}

Symmetry == Permutations(Wheels) \cup Permutations(Contents)
=============================================================================
