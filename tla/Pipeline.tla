------------------------------ MODULE Pipeline ------------------------------
(***************************************************************************)
(* The life of a project's wheels rows, from the PyPI page to converted    *)
(* repodata.                                                               *)
(*                                                                         *)
(* Five threads of the daemon work on the same rows: project sync          *)
(* (ingest.py), the fetch stage (daemon/stages/fetch.py), the archive      *)
(* thread (fetch.ArchiveHandoff), the convert stage                        *)
(* (daemon/stages/convert.py) and the admin commands reprocess and         *)
(* unquarantine.  Each reads rows on its own connection, works outside any *)
(* transaction, and then submits one write op; an op commits atomically    *)
(* (module Writer), so an action below is one op, or one read, and the     *)
(* ops of all threads interleave between any read and the write based on   *)
(* it.  A crash loses everything but the database and the sealed segments. *)
(*                                                                         *)
(* One project.  Metadata bytes are their own sha256 (Contents).  Lane,    *)
(* yank flags, conda_name, urls, error rows and timestamps are left out;   *)
(* a backoff deadline is "some later claim".                               *)
(***************************************************************************)
EXTENDS Integers, Sequences, FiniteSets

CONSTANTS
    Wheels,       \* the filenames of the project
    Contents,     \* the METADATA bodies that exist
    Entries,      \* what the page may say of a listed file
    Bridge,       \* the bodies the old corpus (_bridge_lookup) still holds
    Imports,      \* what the bulk import may have left in unlinked_blobs
    Selectors,    \* the admin commands that may be given
    MaxAttempts,  \* max_attempts
    ConvertLimit, \* the convert stage's limit
    FedMax,       \* the convert stage's queue_maxsize
    Corruption,   \* whether a sealed blob may fail its sha256 check
    MaxRevs,      \* bound: how often the page changes
    MaxAdmin,     \* bound: how many admin chunks are written
    MaxCrashes,   \* bound: how often the process dies
    None          \* NULL

States == { "NEED_METADATA", "NO_METADATA", "NEED_CONVERT", "READY",
            "SKIPPED", "QUARANTINED", "DELETED" }

(* "ABSENT" stands for a filename with no wheels row.                      *)
RowStates == States \cup {"ABSENT"}

Stages == {"fetch", "convert"}

(* A ProjectFile: whether a sidecar is announced, the hash announced for   *)
(* it (which may be missing) and what the sidecar really contains.         *)
EntryType == [has_metadata : BOOLEAN, sha : Contents \cup {None}, body : Contents]

SelectorType == States \cup {"PROJECT", "VERSION", "UNQUARANTINE"}

ASSUME PipelineAssumption ==
    /\ None \notin Wheels
    /\ None \notin Contents
    /\ None \notin EntryType
    /\ Entries \subseteq EntryType
    /\ Bridge \subseteq Contents
    /\ Imports \subseteq [Wheels -> Contents \cup {None}]
    /\ Selectors \subseteq SelectorType
    /\ MaxAttempts \in Nat
    /\ ConvertLimit \in Nat \ {0}
    /\ FedMax \in Nat \ {0}
    /\ Corruption \in BOOLEAN
    /\ MaxRevs \in Nat
    /\ MaxAdmin \in Nat
    /\ MaxCrashes \in Nat

(* A hash is announced with a sidecar only (_parse_file), and NULL is not  *)
(* a command.                                                              *)
ASSUME EntryAssumption ==
    /\ \A e \in Entries : e.sha # None => e.has_metadata
    /\ None \notin SelectorType

VARIABLES
    \* PyPI
    page,      \* the entry of each file on the project page, None: not listed
    rev,       \* the page's serial
    \* the database
    unlinked,  \* unlinked_blobs: the imported body of a file without a row
    state,     \* wheels.state
    deleted,   \* wheels.deleted_at IS NOT NULL
    meta,      \* wheels.metadata_sha256
    blob,      \* wheels.blob_sha256
    repodata,  \* wheel_repodata: the body it was converted from
    skip,      \* skips: "none", "permanent", "versioned", "unversioned"
    attempts,  \* work.attempts per stage, 0: no row
    quar,      \* work.quarantined_at IS NOT NULL per stage
    blobs,     \* blobs row and segment: "absent", "open", "sealed", "lost"
    serial,    \* pypi_index.serial, 0: no row
    \* project sync
    ipc,       \* "idle", "page", "plan", "gone"
    seen,      \* the page it fetched
    seenRev,   \* and the serial of that page
    plan,      \* what the diff decided for each file
    \* the fetch stage and the archive thread
    fpc,       \* "idle", "claimed", "loaded", "queued"; in flight: not idle
    fval,      \* the expected hash once loaded, the body once queued
    arc,       \* the handoff item the archive thread is at
    \* the convert stage
    fed,       \* _fed_queue
    batch,     \* the futures not yet completed
    unread,    \* bulk-claimed wheels whose blob could not be read
    \* the admin command in progress
    adm,
    admins,    \* how many chunks have been written
    crashes    \* how many crashes have happened

remote == <<page, rev, unlinked>>  \* what comes from outside the daemon
rows   == <<state, deleted, meta, blob, repodata>>
work   == <<attempts, quar>>
db     == <<rows, skip, work, blobs, serial>>
ingest == <<ipc, seen, seenRev, plan>>
fetch  == <<fpc, fval>>
conv   == <<fed, batch, unread>>
admin  == <<adm, admins>>
vars   == <<remote, db, ingest, fetch, arc, conv, admin, crashes>>

Unlisted == [w \in Wheels |-> None]
NoPlan   == [w \in Wheels |-> "keep"]
NoUnread == [w \in Wheels |-> "no"]
Idle     == [w \in Wheels |-> "idle"]
NoArc    == [at |-> "idle", w |-> None, c |-> None]
NoAdm    == [cmd |-> None, ids |-> {}]
NoWork   == [s \in Stages |-> 0]
NoQuar   == [s \in Stages |-> FALSE]

PlanKinds == { "keep", "insert", "link", "revive", "refetch", "reclear",
               "promote", "tombstone" }

(* A future of the convert pool: its position, the wheel and the bytes.    *)
Futures == Nat \X Wheels \X Contents

-----------------------------------------------------------------------------
(* The bulk import (specs/13, outside this repository) ran before the      *)
(* daemon: the bodies it left unlinked have their blobs rows, in segments  *)
(* that are sealed.                                                        *)
Init ==
    /\ page = Unlisted /\ rev = 0
    /\ unlinked \in Imports
    /\ state = [w \in Wheels |-> "ABSENT"]
    /\ deleted = [w \in Wheels |-> FALSE]
    /\ meta = [w \in Wheels |-> None]
    /\ blob = [w \in Wheels |-> None]
    /\ repodata = [w \in Wheels |-> None]
    /\ skip = [w \in Wheels |-> "none"]
    /\ attempts = [w \in Wheels |-> NoWork]
    /\ quar = [w \in Wheels |-> NoQuar]
    /\ blobs = [c \in Contents |->
                  IF \E w \in Wheels : unlinked[w] = c THEN "sealed" ELSE "absent"]
    /\ serial = 0
    /\ ipc = "idle" /\ seen = Unlisted /\ seenRev = 0 /\ plan = NoPlan
    /\ fpc = Idle /\ fval = [w \in Wheels |-> None]
    /\ arc = NoArc
    /\ fed = <<>> /\ batch = {} /\ unread = NoUnread
    /\ adm = NoAdm /\ admins = 0
    /\ crashes = 0

(* The stages start only once the unsealed segments have been recovered.   *)
Running == \A c \in Contents : blobs[c] # "lost"

(* PyPI publishes a new version of the page: any files, any entries.       *)
Publish ==
    /\ rev < MaxRevs
    /\ rev' = rev + 1
    /\ page' \in [Wheels -> Entries \cup {None}]
    /\ page' # page
    /\ UNCHANGED <<unlinked, db, ingest, fetch, arc, conv, admin, crashes>>

-----------------------------------------------------------------------------
(* The write ops of dispatcher.py and the helpers they share.              *)

DeleteWork(w, s) ==
    /\ attempts' = [attempts EXCEPT ![w][s] = 0]
    /\ quar' = [quar EXCEPT ![w][s] = FALSE]

(* Counts stop at the first one past max_attempts: an op only asks whether *)
(* the count is past it.                                                   *)
NextAttempt(w, s) ==
    IF attempts[w][s] > MaxAttempts THEN attempts[w][s] ELSE attempts[w][s] + 1

(* Wrong variant: the upsert of a row that already exists does not set     *)
(* quarantined_at.                                                         *)
RetryOpForgetsStamp(w, s) ==
    /\ attempts' = [attempts EXCEPT ![w][s] = NextAttempt(w, s)]
    /\ IF NextAttempt(w, s) > MaxAttempts
          THEN /\ state' = [state EXCEPT ![w] = "QUARANTINED"]
               /\ quar' = [quar EXCEPT ![w][s] = @ \/ attempts[w][s] = 0]
          ELSE UNCHANGED <<state, quar>>
    /\ UNCHANGED <<deleted, meta, blob, repodata, skip, blobs, serial>>

RetryOp(w, s) ==
    /\ attempts' = [attempts EXCEPT ![w][s] = NextAttempt(w, s)]
    /\ IF NextAttempt(w, s) > MaxAttempts
          THEN /\ state' = [state EXCEPT ![w] = "QUARANTINED"]
               /\ quar' = [quar EXCEPT ![w][s] = TRUE]
          ELSE UNCHANGED <<state, quar>>
    /\ UNCHANGED <<deleted, meta, blob, repodata, skip, blobs, serial>>

SkipOp(w, kind) ==
    /\ state' = [state EXCEPT ![w] = "SKIPPED"]
    /\ skip' = [skip EXCEPT ![w] = kind]
    /\ DeleteWork(w, "convert")
    /\ UNCHANGED <<deleted, meta, blob, repodata, blobs, serial>>

ConvertOkOp(w, c) ==
    /\ state' = [state EXCEPT ![w] = "READY"]
    /\ repodata' = [repodata EXCEPT ![w] = c]
    /\ DeleteWork(w, "convert")
    /\ UNCHANGED <<deleted, meta, blob, skip, blobs, serial>>

FetchOkOp(w, c) ==
    /\ state' = [state EXCEPT ![w] = "NEED_CONVERT"]
    /\ blob' = [blob EXCEPT ![w] = c]
    /\ DeleteWork(w, "fetch")
    /\ UNCHANGED <<deleted, meta, repodata, skip, blobs, serial>>

QueueState == [fetch |-> "NEED_METADATA", convert |-> "NEED_CONVERT"]

(* What a stage's claim query may return, some page of it at a time.       *)
Claimable(s) == {w \in Wheels : state[w] = QueueState[s] /\ ~quar[w][s]}

-----------------------------------------------------------------------------
(* Project sync: fetch the page, read the local rows, diff, write.         *)

FetchPage ==
    /\ Running
    /\ ipc = "idle"
    /\ serial # rev
    /\ ipc' = "page"
    /\ seen' = page
    /\ seenRev' = rev
    /\ UNCHANGED <<remote, db, plan, fetch, arc, conv, admin, crashes>>

(* A project without files may also be gone from the index (404).          *)
FetchPageGone ==
    /\ Running
    /\ ipc = "idle"
    /\ serial # rev
    /\ page = Unlisted
    /\ ipc' = "gone"
    /\ UNCHANGED <<remote, db, seen, seenRev, plan, fetch, arc, conv, admin, crashes>>

(* _plan_new_wheel: a file whose body was imported needs no fetch.         *)
NewWheel(w) == IF unlinked[w] # None THEN "link" ELSE "insert"

InitialState(e) == IF e.has_metadata THEN "NEED_METADATA" ELSE "NO_METADATA"

(* The archived bytes are not the ones the page announces.                 *)
HashChanged(w, e) ==
    /\ blob[w] # None
    /\ e.sha # None
    /\ e.sha # blob[w]

(* state is written only when the diff moves it away from the state read.  *)
DiffCommon(w, e) ==
    CASE deleted[w] -> "revive"
      [] ~deleted[w] /\ HashChanged(w, e) /\ state[w] # "NEED_METADATA" -> "refetch"
      [] ~deleted[w] /\ HashChanged(w, e) /\ state[w] = "NEED_METADATA" -> "reclear"
      [] /\ ~deleted[w] /\ ~HashChanged(w, e)
         /\ state[w] = "NO_METADATA" /\ e.has_metadata -> "promote"
      [] OTHER -> "keep"

PlanFor(w) ==
    CASE state[w] = "ABSENT" /\ seen[w] = None -> "keep"
      [] state[w] = "ABSENT" /\ seen[w] # None -> NewWheel(w)
      [] state[w] # "ABSENT" /\ seen[w] # None -> DiffCommon(w, seen[w])
      [] state[w] # "ABSENT" /\ seen[w] = None -> IF deleted[w] THEN "keep" ELSE "tombstone"

ReadRows ==
    /\ ipc = "page"
    /\ ipc' = "plan"
    /\ plan' = [w \in Wheels |-> PlanFor(w)]
    /\ UNCHANGED <<remote, db, seen, seenRev, fetch, arc, conv, admin, crashes>>

PlannedState(w) ==
    CASE plan[w] \in {"insert", "revive"} -> InitialState(seen[w])
      [] plan[w] = "link" -> "NEED_CONVERT"
      [] plan[w] \in {"refetch", "promote"} -> "NEED_METADATA"
      [] plan[w] = "tombstone" -> "DELETED"
      [] OTHER -> state[w]

(* Whether the plan clears the wheel's blob_sha256.                        *)
ClearsBlob(w) == plan[w] \in {"insert", "revive", "refetch", "reclear"}

(* Wrong variant: the blob is linked by the hash the page announces.       *)
PlannedBlobAnnounced(w) ==
    CASE plan[w] = "link" -> seen[w].sha
      [] ClearsBlob(w) -> None
      [] OTHER -> blob[w]

(* No one else writes unlinked_blobs, so the row is still the one read.    *)
PlannedBlob(w) ==
    CASE plan[w] = "link" -> unlinked[w]
      [] ClearsBlob(w) -> None
      [] OTHER -> blob[w]

ApplyPlan ==
    /\ ipc = "plan"
    /\ state' = [w \in Wheels |-> PlannedState(w)]
    /\ deleted' = [w \in Wheels |->
                     plan[w] = "tombstone" \/ (deleted[w] /\ plan[w] # "revive")]
    /\ meta' = [w \in Wheels |-> IF seen[w] = None THEN meta[w] ELSE seen[w].sha]
    /\ blob' = [w \in Wheels |-> PlannedBlob(w)]
    /\ unlinked' = [w \in Wheels |-> IF plan[w] = "link" THEN None ELSE unlinked[w]]
    /\ repodata' = [w \in Wheels |->
                      IF plan[w] \in {"refetch", "reclear"} THEN None ELSE repodata[w]]
    /\ serial' = seenRev
    /\ ipc' = "idle" /\ seen' = Unlisted /\ seenRev' = 0 /\ plan' = NoPlan
    /\ UNCHANGED <<page, rev, skip, work, blobs, fetch, arc, conv, admin, crashes>>

Vanishing(w) == state[w] # "ABSENT" /\ ~deleted[w]

ApplyGone ==
    /\ ipc = "gone"
    /\ state' = [w \in Wheels |-> IF Vanishing(w) THEN "DELETED" ELSE state[w]]
    /\ deleted' = [w \in Wheels |-> deleted[w] \/ Vanishing(w)]
    /\ serial' = 0
    /\ ipc' = "idle"
    /\ UNCHANGED <<remote, meta, blob, repodata, skip, work, blobs,
                   seen, seenRev, plan, fetch, arc, conv, admin, crashes>>

-----------------------------------------------------------------------------
(* The fetch stage: claim a batch, load its rows, route every outcome.     *)

InFlight == {w \in Wheels : fpc[w] # "idle"}

ClaimFetch(S) ==
    /\ Running
    /\ \A w \in Wheels : fpc[w] \in {"idle", "queued"}
    /\ S \subseteq Claimable("fetch") \ InFlight
    /\ S # {}
    /\ fpc' = [w \in Wheels |-> IF w \in S THEN "claimed" ELSE fpc[w]]
    /\ UNCHANGED <<remote, db, ingest, fval, arc, conv, admin, crashes>>

LoadFetch ==
    /\ \E w \in Wheels : fpc[w] = "claimed"
    /\ fpc' = [w \in Wheels |-> IF fpc[w] = "claimed" THEN "loaded" ELSE fpc[w]]
    /\ fval' = [w \in Wheels |-> IF fpc[w] = "claimed" THEN meta[w] ELSE fval[w]]
    /\ UNCHANGED <<remote, db, ingest, arc, conv, admin, crashes>>

(* The bytes a fetch of w may return: verified against the hash read when  *)
(* there is one, from the old corpus or from the published sidecar.        *)
Fetchable(w) ==
    {c \in Contents :
        \/ fval[w] = c /\ c \in Bridge
        \/ /\ page[w] # None
           /\ page[w].has_metadata
           /\ page[w].body = c
           /\ fval[w] \in {None, c}}

FetchOk(w, c) ==
    /\ fpc[w] = "loaded"
    /\ c \in Fetchable(w)
    /\ fpc' = [fpc EXCEPT ![w] = "queued"]
    /\ fval' = [fval EXCEPT ![w] = c]
    /\ UNCHANGED <<remote, db, ingest, arc, conv, admin, crashes>>

ReleaseFetch(w) ==
    /\ fpc' = [fpc EXCEPT ![w] = "idle"]
    /\ fval' = [fval EXCEPT ![w] = None]

(* A missing sidecar, a hash mismatch and a transient error all come here. *)
FetchRetry(w) ==
    /\ fpc[w] = "loaded"
    /\ RetryOp(w, "fetch")
    /\ ReleaseFetch(w)
    /\ UNCHANGED <<remote, ingest, arc, conv, admin, crashes>>

FetchRateLimited(w) ==
    /\ fpc[w] = "loaded"
    /\ ReleaseFetch(w)
    /\ UNCHANGED <<remote, db, ingest, arc, conv, admin, crashes>>

-----------------------------------------------------------------------------
(* The archive thread: ArchiveHandoff.process_one, one commit at a time.   *)

ArchiveAdd(w) ==
    /\ arc = NoArc
    /\ fpc[w] = "queued"
    /\ blobs' = [blobs EXCEPT ![fval[w]] = IF @ = "absent" THEN "open" ELSE @]
    /\ arc' = [at |-> "added", w |-> w, c |-> fval[w]]
    /\ UNCHANGED <<remote, rows, skip, work, serial, ingest, fetch, conv, admin, crashes>>

Seal ==
    /\ arc.at = "added"
    /\ \E c \in Contents : blobs[c] = "open"
    /\ blobs' = [c \in Contents |-> IF blobs[c] = "open" THEN "sealed" ELSE blobs[c]]
    /\ UNCHANGED <<remote, rows, skip, work, serial, ingest, fetch, arc, conv, admin,
                   crashes>>

ArchiveOk ==
    /\ arc.at = "added"
    /\ FetchOkOp(arc.w, arc.c)
    /\ ReleaseFetch(arc.w)
    /\ arc' = [arc EXCEPT !.at = "committed"]
    /\ UNCHANGED <<remote, ingest, conv, admin, crashes>>

(* on_archived, which waits while the convert queue is full.               *)
Feed ==
    /\ arc.at = "committed"
    /\ Len(fed) < FedMax
    /\ fed' = Append(fed, <<arc.w, arc.c>>)
    /\ arc' = NoArc
    /\ UNCHANGED <<remote, db, ingest, fetch, batch, unread, admin, crashes>>

-----------------------------------------------------------------------------
(* The convert stage: one batch at a time, fed items first, the archive    *)
(* otherwise; futures complete in any order.                               *)

BatchDone == batch = {} /\ unread = NoUnread

DrainCount == IF Len(fed) < ConvertLimit THEN Len(fed) ELSE ConvertLimit

DrainFed ==
    /\ BatchDone
    /\ fed # <<>>
    /\ batch' = {<<i, fed[i][1], fed[i][2]>> : i \in 1..DrainCount}
    /\ fed' = SubSeq(fed, DrainCount + 1, Len(fed))
    /\ UNCHANGED <<remote, db, ingest, fetch, arc, unread, admin, crashes>>

(* Wrong variant: a claimed wheel without blob_sha256 is not dropped.      *)
ReadBlobNoNullCheck(w, bad) ==
    CASE blob[w] # None /\ blobs[blob[w]] # "sealed" -> "missing"
      [] blob[w] # None /\ blobs[blob[w]] = "sealed" /\ blob[w] \in bad -> "corrupt"
      [] OTHER -> "ready"

(* Wrong variant: a blob that cannot be read yet is left for another time. *)
ReadBlobDropsMissing(w, bad) ==
    CASE blob[w] = None \/ blobs[blob[w]] # "sealed" -> "no"
      [] blob[w] # None /\ blobs[blob[w]] = "sealed" /\ blob[w] \in bad -> "corrupt"
      [] OTHER -> "ready"

(* A segment still open has no file under its final name: "missing".       *)
ReadBlob(w, bad) ==
    CASE blob[w] = None -> "no"
      [] blob[w] # None /\ blobs[blob[w]] # "sealed" -> "missing"
      [] blob[w] # None /\ blobs[blob[w]] = "sealed" /\ blob[w] \in bad -> "corrupt"
      [] OTHER -> "ready"

(* Wrong variant: every conversion of the batch reads the variable that     *)
(* held the bytes of one of them.                                          *)
BulkClaimLate(S, bad) ==
    /\ Running
    /\ BatchDone
    /\ fed = <<>>
    /\ S \subseteq Claimable("convert")
    /\ S # {}
    /\ bad \subseteq IF Corruption THEN Contents ELSE {}
    /\ LET ready == {x \in S : ReadBlob(x, bad) = "ready"}
       IN  batch' = {<<0, w, blob[CHOOSE x \in ready : TRUE]>> : w \in ready}
    /\ unread' = [w \in Wheels |->
                    IF w \in S /\ ReadBlob(w, bad) \in {"missing", "corrupt"}
                       THEN ReadBlob(w, bad) ELSE "no"]
    /\ UNCHANGED <<remote, db, ingest, fetch, arc, fed, admin, crashes>>

BulkClaim(S, bad) ==
    /\ Running
    /\ BatchDone
    /\ fed = <<>>
    /\ S \subseteq Claimable("convert")
    /\ S # {}
    /\ bad \subseteq IF Corruption THEN Contents ELSE {}
    /\ batch' = {<<0, w, blob[w]>> : w \in {x \in S : ReadBlob(x, bad) = "ready"}}
    /\ unread' = [w \in Wheels |->
                    IF w \in S /\ ReadBlob(w, bad) \in {"missing", "corrupt"}
                       THEN ReadBlob(w, bad) ELSE "no"]
    /\ UNCHANGED <<remote, db, ingest, fetch, arc, fed, admin, crashes>>

BulkRetry(w) ==
    /\ unread[w] = "missing"
    /\ RetryOp(w, "convert")
    /\ unread' = [unread EXCEPT ![w] = "no"]
    /\ UNCHANGED <<remote, ingest, fetch, arc, fed, batch, admin, crashes>>

BulkSkipCorrupt(w) ==
    /\ unread[w] = "corrupt"
    /\ SkipOp(w, "unversioned")
    /\ unread' = [unread EXCEPT ![w] = "no"]
    /\ UNCHANGED <<remote, ingest, fetch, arc, fed, batch, admin, crashes>>

(* claim_batch resolves what it could not read before anything converts.   *)
Complete(f) ==
    /\ f \in batch
    /\ unread = NoUnread
    /\ batch' = batch \ {f}
    /\ UNCHANGED <<remote, ingest, fetch, arc, fed, unread, admin, crashes>>

ConvertOk(f) == Complete(f) /\ ConvertOkOp(f[2], f[3])

ConvertSkip(f, kind) ==
    /\ kind \in {"permanent", "versioned"}
    /\ Complete(f)
    /\ SkipOp(f[2], kind)

ConvertRetry(f) == Complete(f) /\ RetryOp(f[2], "convert")

-----------------------------------------------------------------------------
(* reprocess and unquarantine: select a chunk of ids, then write it.       *)

Live(w) == state[w] \notin {"ABSENT", "DELETED"}

Matching(sel) ==
    {w \in Wheels :
        /\ Live(w)
        /\ CASE sel = "PROJECT" -> TRUE
             [] sel = "VERSION" -> repodata[w] # None \/ skip[w] = "versioned"
             [] sel = "UNQUARANTINE" -> state[w] = "QUARANTINED"
             [] OTHER -> state[w] = sel}

SelectChunk(sel, S) ==
    /\ Running
    /\ adm = NoAdm
    /\ admins < MaxAdmin
    /\ S \subseteq Matching(sel)
    /\ S # {}
    /\ adm' = [cmd |-> sel, ids |-> S]
    /\ UNCHANGED <<remote, db, ingest, fetch, arc, conv, admins, crashes>>

DeleteAllWork(S) ==
    /\ attempts' = [w \in Wheels |-> IF w \in S THEN NoWork ELSE attempts[w]]
    /\ quar' = [w \in Wheels |-> IF w \in S THEN NoQuar ELSE quar[w]]

RequeuedState(w) == IF w \in adm.ids THEN "NEED_CONVERT" ELSE state[w]

ReprocessChunk ==
    /\ adm.cmd \notin {None, "UNQUARANTINE"}
    /\ state' = [w \in Wheels |-> RequeuedState(w)]
    /\ repodata' = [w \in Wheels |-> IF w \in adm.ids THEN None ELSE repodata[w]]
    /\ skip' = [w \in Wheels |->
                  IF w \in adm.ids /\ adm.cmd = "VERSION" /\ skip[w] = "versioned"
                     THEN "none" ELSE skip[w]]
    /\ DeleteAllWork(adm.ids)
    /\ adm' = NoAdm
    /\ admins' = admins + 1
    /\ UNCHANGED <<remote, deleted, meta, blob, blobs, serial, ingest, fetch, arc,
                   conv, crashes>>

UnquarantineChunk ==
    /\ adm.cmd = "UNQUARANTINE"
    /\ DeleteAllWork(adm.ids)
    /\ state' = [w \in Wheels |->
                   IF w \in adm.ids /\ state[w] = "QUARANTINED"
                      THEN "NEED_METADATA" ELSE state[w]]
    /\ adm' = NoAdm
    /\ admins' = admins + 1
    /\ UNCHANGED <<remote, deleted, meta, blob, repodata, skip, blobs, serial, ingest,
                   fetch, arc, conv, crashes>>

-----------------------------------------------------------------------------
(* The process dies: the threads' state is gone and so are the bytes of    *)
(* the segment that was open.  Recovery then goes through the blobs rows   *)
(* of that segment, a chunk per op, before any stage starts.               *)

Crash ==
    /\ crashes < MaxCrashes
    /\ crashes' = crashes + 1
    /\ blobs' = [c \in Contents |-> IF blobs[c] = "open" THEN "lost" ELSE blobs[c]]
    /\ ipc' = "idle" /\ seen' = Unlisted /\ seenRev' = 0 /\ plan' = NoPlan
    /\ fpc' = Idle /\ fval' = [w \in Wheels |-> None]
    /\ arc' = NoArc
    /\ fed' = <<>> /\ batch' = {} /\ unread' = NoUnread
    /\ adm' = NoAdm
    /\ UNCHANGED <<remote, rows, skip, work, serial, admins>>

(* Wrong variant: tombstones are reset too.                                *)
OrphansWithTombstones(C) == {w \in Wheels : state[w] # "ABSENT" /\ blob[w] \in C}

(* The wheels a chunk resets.                                              *)
Orphans(C) == {w \in Wheels : Live(w) /\ blob[w] \in C}

(* Wrong variant: a wheel waiting for conversion keeps its place.          *)
RecoveredStateKeepsConvert(w, C) ==
    IF w \in Orphans(C) /\ state[w] # "NEED_CONVERT" THEN "NEED_METADATA" ELSE state[w]

RecoveredState(w, C) == IF w \in Orphans(C) THEN "NEED_METADATA" ELSE state[w]

RecoverChunk(C) ==
    /\ C # {}
    /\ \A c \in C : blobs[c] = "lost"
    /\ state' = [w \in Wheels |-> RecoveredState(w, C)]
    /\ blob' = [w \in Wheels |-> IF w \in Orphans(C) THEN None ELSE blob[w]]
    /\ repodata' = [w \in Wheels |-> IF w \in Orphans(C) THEN None ELSE repodata[w]]
    /\ blobs' = [c \in Contents |-> IF c \in C THEN "absent" ELSE blobs[c]]
    /\ UNCHANGED <<remote, deleted, meta, skip, work, serial, ingest, fetch, arc, conv,
                   admin, crashes>>

-----------------------------------------------------------------------------
IngestNext == FetchPage \/ FetchPageGone \/ ReadRows \/ ApplyPlan \/ ApplyGone

FetchNext ==
    \/ \E S \in SUBSET Wheels : ClaimFetch(S)
    \/ LoadFetch
    \/ \E w \in Wheels, c \in Contents : FetchOk(w, c)
    \/ \E w \in Wheels : FetchRetry(w) \/ FetchRateLimited(w)

ArchiveNext == (\E w \in Wheels : ArchiveAdd(w)) \/ Seal \/ ArchiveOk \/ Feed

ConvertNext ==
    \/ DrainFed
    \/ \E S \in SUBSET Wheels, bad \in SUBSET Contents : BulkClaim(S, bad)
    \/ \E w \in Wheels : BulkRetry(w) \/ BulkSkipCorrupt(w)
    \/ \E f \in batch : ConvertOk(f) \/ ConvertRetry(f)
    \/ \E f \in batch, kind \in {"permanent", "versioned"} : ConvertSkip(f, kind)

AdminNext ==
    \/ \E sel \in Selectors, S \in SUBSET Wheels : SelectChunk(sel, S)
    \/ ReprocessChunk
    \/ UnquarantineChunk

Next ==
    \/ Publish
    \/ IngestNext
    \/ FetchNext
    \/ ArchiveNext
    \/ ConvertNext
    \/ AdminNext
    \/ Crash
    \/ \E C \in SUBSET Contents : RecoverChunk(C)

Spec == Init /\ [][Next]_vars

ClaimFetchOf(w) == \E S \in SUBSET Wheels : w \in S /\ ClaimFetch(S)

FetchAnswers(w) == FetchRetry(w) \/ \E c \in Contents : FetchOk(w, c)

(* Every thread keeps running.  The claim cursor comes round to every      *)
(* claimable wheel, and PyPI does not rate limit a wheel for ever: both    *)
(* hold infinitely often rather than continuously.  Nothing makes PyPI     *)
(* publish, an admin act, a segment reach its size or the process die.     *)
Fairness ==
    /\ WF_vars(IngestNext)
    /\ WF_vars(LoadFetch)
    /\ \A w \in Wheels : SF_vars(ClaimFetchOf(w)) /\ SF_vars(FetchAnswers(w))
    /\ WF_vars((\E w \in Wheels : ArchiveAdd(w)) \/ ArchiveOk \/ Feed)
    /\ WF_vars(ConvertNext)
    /\ WF_vars(ReprocessChunk \/ UnquarantineChunk)
    /\ WF_vars(\E C \in SUBSET Contents : RecoverChunk(C))

FairSpec == Spec /\ Fairness

-----------------------------------------------------------------------------
(* Every variable keeps its type: in particular a conversion, fed or       *)
(* claimed in bulk, always has bytes to work on.                           *)
TypeOK ==
    /\ page \in [Wheels -> EntryType \cup {None}]
    /\ rev \in Nat
    /\ unlinked \in [Wheels -> Contents \cup {None}]
    /\ state \in [Wheels -> RowStates]
    /\ deleted \in [Wheels -> BOOLEAN]
    /\ meta \in [Wheels -> Contents \cup {None}]
    /\ blob \in [Wheels -> Contents \cup {None}]
    /\ repodata \in [Wheels -> Contents \cup {None}]
    /\ skip \in [Wheels -> {"none", "permanent", "versioned", "unversioned"}]
    /\ attempts \in [Wheels -> [Stages -> 0..(MaxAttempts + 1)]]
    /\ quar \in [Wheels -> [Stages -> BOOLEAN]]
    /\ blobs \in [Contents -> {"absent", "open", "sealed", "lost"}]
    /\ serial \in Nat
    /\ ipc \in {"idle", "page", "plan", "gone"}
    /\ seen \in [Wheels -> EntryType \cup {None}]
    /\ seenRev \in Nat
    /\ plan \in [Wheels -> PlanKinds]
    /\ fpc \in [Wheels -> {"idle", "claimed", "loaded", "queued"}]
    /\ fval \in [Wheels -> Contents \cup {None}]
    /\ \/ arc = NoArc
       \/ arc \in [at : {"added", "committed"}, w : Wheels, c : Contents]
    /\ fed \in Seq(Wheels \X Contents)
    /\ batch \subseteq Futures
    /\ unread \in [Wheels -> {"no", "missing", "corrupt"}]
    /\ adm \in [cmd : SelectorType \cup {None}, ids : SUBSET Wheels]
    /\ admins \in Nat
    /\ crashes \in Nat

(* A SKIPPED wheel has the skips row that says why (fsck invariant 5):     *)
(* reprocess deletes skips rows in the same op that requeues the wheel.    *)
SkippedHasRow == \A w \in Wheels : state[w] = "SKIPPED" => skip[w] # "none"

(* A QUARANTINED wheel has a work row with quarantined_at set (fsck        *)
(* invariant 6), whichever stage gave up and whatever admin command or     *)
(* late outcome of another stage touched the work rows in between.         *)
QuarantinedHasWork ==
    \A w \in Wheels : state[w] = "QUARANTINED" => \E s \in Stages : quar[w][s]

(* A DELETED wheel has deleted_at set (fsck invariant 7, first half).      *)
TombstoneDated == \A w \in Wheels : state[w] = "DELETED" => deleted[w]

(* The blob_sha256 of a wheel that is not DELETED names a blobs row (fsck  *)
(* invariants 2 and 13), through crashes, the chunks of a recovery and     *)
(* late outcomes that bring a tombstoned wheel back.                       *)
BlobResolves ==
    \A w \in Wheels : Live(w) /\ blob[w] # None => blobs[blob[w]] # "absent"

(* Some thread holds w and may still write its row without looking at it.  *)
Held(w) ==
    \/ fpc[w] # "idle"
    \/ arc.w = w
    \/ \E i \in 1..Len(fed) : fed[i][1] = w
    \/ \E f \in batch : f[2] = w
    \/ unread[w] # "no"
    \/ w \in adm.ids
    \/ ipc = "plan" /\ plan[w] = "promote"

(* Why BlobResolves is kept: a held wheel resolves too, DELETED or not, so *)
(* a late write may bring it back; bytes waiting to be linked are stored;  *)
(* and nobody holds anything while recovery removes blobs rows.            *)
HeldBlobResolves ==
    \A w \in Wheels : (Live(w) \/ Held(w)) /\ blob[w] # None => blobs[blob[w]] # "absent"

(* What was imported and not linked yet is stored for good, and a plan     *)
(* links nothing else.                                                     *)
UnlinkedStored ==
    \A w \in Wheels : /\ unlinked[w] # None => blobs[unlinked[w]] = "sealed"
                      /\ ipc = "plan" /\ plan[w] = "link" => unlinked[w] # None

QueuedHasBody == \A w \in Wheels : fpc[w] = "queued" => fval[w] # None

LinkIsStored == arc # NoArc => blobs[arc.c] # "absent"

QuietInRecovery ==
    ~Running => /\ ipc = "idle" /\ fpc = Idle /\ arc = NoArc
                /\ fed = <<>> /\ batch = {} /\ unread = NoUnread /\ adm = NoAdm

(* The inductive invariant: what each thread holds, with the checks of     *)
(* fsck that survive every interleaving.                                   *)
PipelineInv ==
    /\ TypeOK
    /\ SkippedHasRow
    /\ QuarantinedHasWork
    /\ TombstoneDated
    /\ QueuedHasBody
    /\ UnlinkedStored
    /\ LinkIsStored
    /\ QuietInRecovery
    /\ HeldBlobResolves

(* The commands that only select wheels whose METADATA has been archived.  *)
Archived == {"NEED_CONVERT", "READY", "SKIPPED"}

(* For as long as the page has been published once and reprocess selects   *)
(* archived wheels, the repodata of a READY wheel was converted from the   *)
(* very bytes its blob_sha256 names: retries, bytes handed over beside a   *)
(* bulk claim of the same wheel, linked imports, reprocess, crashes and    *)
(* recovery never pair it with others.  A fetch that outlives a change of  *)
(* the page can: README, section 4.                                        *)
ReadyIsCurrent ==
    rev <= 1 /\ Selectors \subseteq Archived =>
        \A w \in Wheels : state[w] = "READY" => repodata[w] # None /\ repodata[w] = blob[w]

Pending(w) == state[w] \in {"NEED_METADATA", "NEED_CONVERT"}

(* A wheel that waits for a stage is worked on until it is READY, SKIPPED, *)
(* QUARANTINED or DELETED: no crash, retry or recovery strands it.         *)
EveryWheelSettles == \A w \in Wheels : Pending(w) ~> ~Pending(w)
=============================================================================
