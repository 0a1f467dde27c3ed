----------------------------- MODULE BlobStore -----------------------------
(***************************************************************************)
(* What the archive promises, without segments, blocks or files: a blob    *)
(* that has been added can be lost until its segment is sealed and never   *)
(* afterwards, and a wheel that points at a lost blob is reset with it.    *)
(***************************************************************************)
CONSTANT Contents

VARIABLES
    status,  \* of each blob: "absent", "open" (indexed, not yet sealed) or "sealed"
    linked   \* the blobs some live wheel's blob_sha256 names

Add(c) ==
    /\ status[c] = "absent"
    /\ status' = [status EXCEPT ![c] = "open"]
    /\ UNCHANGED linked

\* ArchiveHandoff applies the wheel's Ok outcome once the blob is indexed
Link(c) ==
    /\ status[c] # "absent"
    /\ linked' = linked \cup {c}
    /\ UNCHANGED status

Seal ==
    /\ status' = [c \in Contents |-> IF status[c] = "open" THEN "sealed" ELSE status[c]]
    /\ UNCHANGED linked

\* recovery forgets blobs of the unsealed segment, and the wheels with them
Lose(L) ==
    /\ L # {} /\ \A c \in L : status[c] = "open"
    /\ status' = [c \in Contents |-> IF c \in L THEN "absent" ELSE status[c]]
    /\ linked' = linked \ L

Init ==
    /\ status = [c \in Contents |-> "absent"]
    /\ linked = {}

Next ==
    \/ \E c \in Contents : Add(c) \/ Link(c)
    \/ Seal
    \/ \E L \in SUBSET Contents : Lose(L)

Spec == Init /\ [][Next]_<<status, linked>>
=============================================================================
