-------------------------------- MODULE Fsck --------------------------------
(***************************************************************************)
(* What fsck (fsck.py) makes of the rows of module Pipeline: each rule is  *)
(* the set of wheels, or blobs, its query matches.  How a query is paged   *)
(* is module Scan; here a rule is evaluated in one state.                  *)
(*                                                                         *)
(* Left out: rules 8 (a state outside WheelState), 9a and 19 (skips and    *)
(* conda_name columns Pipeline does not keep), 14 and 15 (segments: module *)
(* Archive), 17 and 18 (change_seq: modules Scan and Writer).              *)
(***************************************************************************)
EXTENDS Pipeline

In(s) == {w \in Wheels : state[w] = s}

Dangling(w) == blob[w] # None /\ blobs[blob[w]] = "absent"

ReadyWithoutRepodata     == {w \in In("READY") : repodata[w] = None}
RepodataWithoutReady     == {w \in Wheels \ In("READY") : repodata[w] # None}
NeedConvertWithoutBlob   == {w \in In("NEED_CONVERT") : blob[w] = None \/ Dangling(w)}
NeedMetadataWithBlob     == {w \in In("NEED_METADATA") : blob[w] # None}
NoMetadataWithHash       == {w \in In("NO_METADATA") : meta[w] # None}
SkippedWithoutSkipsRow   == {w \in In("SKIPPED") : skip[w] = "none"}
QuarantinedWithoutWork   == {w \in In("QUARANTINED") : \A s \in Stages : ~quar[w][s]}
DeletedWithoutDeletedAt  == {w \in In("DELETED") : ~deleted[w]}
DeletedAtWithoutDeleted  == {w \in Wheels \ In("DELETED") : deleted[w]}
SkipWithoutVersion       == {w \in Wheels : skip[w] = "unversioned"}
StaleSkip                == {w \in Wheels \ In("SKIPPED") : skip[w] # "none"}
BlobUnresolved           == {w \in Wheels : Dangling(w)}
OrphanedBlob             == {c \in Contents : blobs[c] # "absent" /\ \A w \in Wheels : blob[w] # c}
TombstonedWithRepodata   == {w \in In("DELETED") : repodata[w] # None}

(* A work row: some attempt of the stage was counted.                      *)
TerminalForWork == {"READY", "SKIPPED", "NO_METADATA", "DELETED"}
WorkOfTerminal  == {w \in Wheels : state[w] \in TerminalForWork /\ \E s \in Stages : attempts[w][s] > 0}

AttemptsExceedMax == {w \in Wheels : \E s \in Stages : attempts[w][s] > MaxAttempts}

MaxAttemptsWithoutQuarantine ==
    {w \in Wheels : \E s \in Stages : attempts[w][s] > 0 /\ attempts[w][s] = MaxAttempts /\ ~quar[w][s]}

(* What run() reports, by rule.                                            *)
Report ==
    [ready_without_repodata          |-> ReadyWithoutRepodata,
     repodata_without_ready          |-> RepodataWithoutReady,
     need_convert_without_blob       |-> NeedConvertWithoutBlob,
     need_metadata_with_blob         |-> NeedMetadataWithBlob,
     no_metadata_with_hash           |-> NoMetadataWithHash,
     skipped_without_skips_row       |-> SkippedWithoutSkipsRow,
     quarantined_without_work        |-> QuarantinedWithoutWork,
     deleted_without_deleted_at      |-> DeletedWithoutDeletedAt,
     deleted_at_without_deleted      |-> DeletedAtWithoutDeleted,
     skip_without_version            |-> SkipWithoutVersion,
     stale_skip                      |-> StaleSkip,
     work_of_terminal                |-> WorkOfTerminal,
     attempts_exceed_max             |-> AttemptsExceedMax,
     max_attempts_without_quarantine |-> MaxAttemptsWithoutQuarantine,
     blob_unresolved                 |-> BlobUnresolved,
     orphaned_blob                   |-> OrphanedBlob,
     tombstoned_with_repodata        |-> TombstonedWithRepodata]

(* The two rules that FsckReport.ok does not count.                        *)
Informational == {"orphaned_blob", "tombstoned_with_repodata"}

Violated == {r \in DOMAIN Report \ Informational : Report[r] # {}}

-----------------------------------------------------------------------------
(* fsck's rules that hold in every state, whatever stages, ingest, admin   *)
(* commands, crashes and recovery do between any two ops: 5, 6 and 7a      *)
(* match nothing.                                                          *)
FsckHolds ==
    /\ SkippedWithoutSkipsRow = {}
    /\ QuarantinedWithoutWork = {}
    /\ DeletedWithoutDeletedAt = {}

(* The rules a correct history can match: 1b and 11 after two conversions  *)
(* of one wheel, 10 after a reprocess by state, and the two halves of 12.  *)
Noisy == {"repodata_without_ready", "work_of_terminal", "stale_skip",
          "attempts_exceed_max", "max_attempts_without_quarantine"}

(* For as long as the page has been published once, no sealed blob is      *)
(* corrupt and reprocess selects archived wheels, fsck reports nothing but *)
(* the noisy rules: retries, double conversions, reprocess, crashes and    *)
(* recovery alone never bring the rows of a project into a state any other *)
(* rule forbids.  Late outcomes do so once ingest changes a row under      *)
(* them, and a reprocess of a whole project requeues wheels without bytes. *)
CalmFsck == rev <= 1 /\ ~Corruption /\ Selectors \subseteq Archived => Violated \subseteq Noisy

(* A tombstone that no thread holds is at rest: until ingest sees its file *)
(* back on the page no claim, selection, plan or recovery takes it up, so  *)
(* it stays DELETED and unheld.  Nothing is said here of a wheel that was  *)
(* held when ingest deleted it: see README, section 4.                     *)
TombstoneRests ==
    [][\A w \in Wheels :
         state[w] = "DELETED" /\ ~Held(w) /\ (deleted[w] => deleted'[w]) =>
             state'[w] = "DELETED" /\ ~Held(w)']_vars
=============================================================================
