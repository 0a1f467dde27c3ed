-------------------------------- MODULE Sync --------------------------------
(***************************************************************************)
(* Keeping up with PyPI's index: the index_poll and project_sync stages    *)
(* (src/reroll_sync/daemon/stages/), poll_index, ingest_stale_projects and *)
(* ProjectBackoff (src/reroll_sync/ingest.py), and the pypi.org circuit    *)
(* breaker the two stages share.                                           *)
(*                                                                         *)
(* A project is its serial: on PyPI, as the index listing showed it, and   *)
(* in pypi_index.  What a reconciliation writes to wheels is the business  *)
(* of module Pipeline; here it either changed something or did not.        *)
(***************************************************************************)
EXTENDS Integers, Sequences, FiniteSets, Breaker

CONSTANTS
    Projects,
    BatchLimit,   \* batch_limit of project_sync
    MaxAttempts,  \* ProjectBackoff's max_attempts
    Faults,       \* which failures may happen: subset of FaultKinds
    MaxFaults,    \* bound: how many of them happen
    MaxSerial,    \* bound: how many changes PyPI publishes
    MaxCrashes    \* bound: how often the process restarts

FaultKinds ==
    { "poll",     \* the index request fails
      "limited",  \* a request is throttled
      "retry",    \* a project page fails
      "raise" }   \* a batch ends with an exception (a locked database, say)

ASSUME SyncAssumption ==
    /\ IsFiniteSet(Projects)
    /\ BatchLimit \in Nat \ {0}
    /\ MaxAttempts \in Nat
    /\ Faults \subseteq FaultKinds
    /\ MaxFaults \in Nat /\ MaxSerial \in Nat /\ MaxCrashes \in Nat

VARIABLES
    \* PyPI
    clock,        \* the last serial
    remote,       \* each project's serial; 0: no such project
    \* pypi_index
    local,        \* each project's stored serial; 0: no row
    \* index_poll
    ipc,          \* "idle", "fetch", "read", "finish", "enqueue"
    etag,         \* _etag: the listing last seen, or NoEtag
    seen,         \* the listing this poll got
    stale,        \* the projects it found stale
    \* project_sync
    spc,          \* "idle", "allow", "work"
    pending,      \* _pending, in insertion order
    names,        \* the batch drained from it
    todo,         \* projects of the batch whose page is still to come
    got,          \* pages that arrived and are not yet applied
    tally,        \* what the batch has to show: IngestSummary
    \* ProjectBackoff
    attempts, cooling, quarantined,
    b,            \* the pypi.org breaker
    faults, crashes

pypiVars    == <<clock, remote>>
pollVars    == <<ipc, etag, seen, stale>>
syncVars    == <<spc, pending, names, todo, got, tally>>
backoffVars == <<attempts, cooling, quarantined>>
vars == <<pypiVars, local, pollVars, syncVars, backoffVars, b, faults, crashes>>

NoListing == [p \in Projects |-> -1]
NoEtag == NoListing

\* A page: what kind of outcome, and the serial of an "ok" one
NoPage == [kind |-> "none", serial |-> 0]

NoTally == [retried |-> FALSE, succeeded |-> FALSE]

\* the names of a sequence
Names(s) == {s[i] : i \in 1..Len(s)}

NewProcess ==
    /\ ipc' = "idle" /\ etag' = NoEtag /\ seen' = NoListing /\ stale' = {}
    /\ spc' = "idle" /\ pending' = <<>> /\ names' = <<>> /\ todo' = {}
    /\ got' = [p \in Projects |-> NoPage] /\ tally' = NoTally
    /\ attempts' = [p \in Projects |-> 0] /\ cooling' = {} /\ quarantined' = {}
    /\ b' = NewBreaker

Init ==
    /\ clock = 0 /\ remote = [p \in Projects |-> 0]
    /\ local = [p \in Projects |-> 0]
    /\ ipc = "idle" /\ etag = NoEtag /\ seen = NoListing /\ stale = {}
    /\ spc = "idle" /\ pending = <<>> /\ names = <<>> /\ todo = {}
    /\ got = [p \in Projects |-> NoPage] /\ tally = NoTally
    /\ attempts = [p \in Projects |-> 0] /\ cooling = {} /\ quarantined = {}
    /\ b = NewBreaker
    /\ faults = [poll |-> 0, other |-> 0] /\ crashes = 0

-----------------------------------------------------------------------------
(* PyPI *)

Publish(p) ==
    /\ clock < MaxSerial
    /\ clock' = clock + 1
    /\ remote' = [remote EXCEPT ![p] = clock + 1]
    /\ UNCHANGED <<local, pollVars, syncVars, backoffVars, b, faults, crashes>>

\* The project leaves the listing and its page answers 404.
Delete(p) ==
    /\ clock < MaxSerial
    /\ remote[p] > 0
    /\ clock' = clock + 1
    /\ remote' = [remote EXCEPT ![p] = 0]
    /\ UNCHANGED <<local, pollVars, syncVars, backoffVars, b, faults, crashes>>

\* one more failure, of a kind that may happen
Fault(k) ==
    /\ k \in Faults
    /\ faults.poll + faults.other < MaxFaults
    /\ faults' = IF k = "poll" THEN [faults EXCEPT !.poll = @ + 1]
                 ELSE [faults EXCEPT !.other = @ + 1]

\* A stage asks the breaker and is let through.
Granted ==
    /\ Allowed(b)
    /\ b' = AfterAllow(b)

-----------------------------------------------------------------------------
(* index_poll *)

PollStart ==
    /\ ipc = "idle"
    /\ Granted
    /\ ipc' = "fetch"
    /\ UNCHANGED <<pypiVars, local, etag, seen, stale, syncVars, backoffVars, faults, crashes>>

\* PyPIRateLimited: the iteration ends and the breaker is not told
PollRateLimited ==
    /\ ipc = "fetch"
    /\ Fault("limited")
    /\ ipc' = "idle"
    /\ UNCHANGED <<pypiVars, local, etag, seen, stale, syncVars, backoffVars, b, crashes>>

PollFails ==
    /\ ipc = "fetch"
    /\ Fault("poll")
    /\ ipc' = "idle"
    /\ b' = RecordFailure(b)
    /\ UNCHANGED <<pypiVars, local, etag, seen, stale, syncVars, backoffVars, crashes>>

\* Wrong variant: any listing kept from an earlier poll passes for the current one.
PollNotModifiedAnyEtag ==
    /\ ipc = "fetch"
    /\ etag # NoEtag
    /\ ipc' = "idle"
    /\ b' = RecordSuccess(b)
    /\ UNCHANGED <<pypiVars, local, etag, seen, stale, syncVars, backoffVars, faults, crashes>>

\* 304 Not Modified
PollNotModified ==
    /\ ipc = "fetch"
    /\ etag = remote
    /\ ipc' = "idle"
    /\ b' = RecordSuccess(b)
    /\ UNCHANGED <<pypiVars, local, etag, seen, stale, syncVars, backoffVars, faults, crashes>>

PollListing ==
    /\ ipc = "fetch"
    /\ etag # remote
    /\ seen' = remote
    /\ ipc' = "read"
    /\ UNCHANGED <<pypiVars, local, etag, stale, syncVars, backoffVars, b, faults, crashes>>

\* _stale_projects: listed, and absent locally or with a higher serial
StaleProjects(listing, stored) ==
    {p \in Projects : listing[p] > 0 /\ (stored[p] = 0 \/ listing[p] > stored[p])}

\* _read_local_serials and _stale_projects
PollRead ==
    /\ ipc = "read"
    /\ stale' = StaleProjects(seen, local)
    /\ ipc' = "finish"
    /\ UNCHANGED <<pypiVars, local, etag, seen, syncVars, backoffVars, b, faults, crashes>>

\* the breaker and the etag first, ...
PollFinish ==
    /\ ipc = "finish"
    /\ b' = RecordSuccess(b)
    /\ etag' = seen /\ seen' = NoListing
    /\ ipc' = "enqueue"
    /\ UNCHANGED <<pypiVars, local, stale, syncVars, backoffVars, faults, crashes>>

\* enqueue: a name that is already queued keeps its place
Enqueued(s, p) == IF p \in Names(s) THEN s ELSE Append(s, p)

\* ... then the stale names, one lock acquisition each
PollEnqueue(p) ==
    /\ ipc = "enqueue" /\ p \in stale
    /\ pending' = Enqueued(pending, p)
    /\ stale' = stale \ {p}
    /\ UNCHANGED <<pypiVars, local, ipc, etag, seen, spc, names, todo, got, tally,
                   backoffVars, b, faults, crashes>>

PollDone ==
    /\ ipc = "enqueue" /\ stale = {}
    /\ ipc' = "idle"
    /\ UNCHANGED <<pypiVars, local, etag, seen, stale, syncVars, backoffVars, b,
                   faults, crashes>>

-----------------------------------------------------------------------------
(* project_sync *)

Drain ==
    /\ spc = "idle"
    /\ pending # <<>>
    /\ LET n == IF Len(pending) < BatchLimit THEN Len(pending) ELSE BatchLimit
       IN  /\ names' = SubSeq(pending, 1, n)
           /\ pending' = SubSeq(pending, n + 1, Len(pending))
    /\ spc' = "allow"
    /\ UNCHANGED <<pypiVars, local, pollVars, todo, got, tally, backoffVars, b,
                   faults, crashes>>

\* _requeue: the names of the batch, in their order
Requeued ==
    LET with[i \in 0..Len(names)] ==
            IF i = 0 THEN pending ELSE Enqueued(with[i - 1], names[i])
    IN  with[Len(names)]

\* Wrong variant: the batch is dropped.
SyncRefusedDrops ==
    /\ spc = "allow"
    /\ ~Allowed(b)
    /\ names' = <<>>
    /\ spc' = "idle"
    /\ UNCHANGED <<pypiVars, local, pollVars, pending, todo, got, tally, backoffVars, b, faults, crashes>>

\* the breaker refuses
SyncRefused ==
    /\ spc = "allow"
    /\ ~Allowed(b)
    /\ pending' = Requeued
    /\ names' = <<>>
    /\ spc' = "idle"
    /\ UNCHANGED <<pypiVars, local, pollVars, todo, got, tally, backoffVars, b,
                   faults, crashes>>

\* ProjectBackoff.is_eligible
Eligible(p) == p \notin quarantined /\ p \notin cooling

\* ingest_stale_projects starts on the eligible names of the batch
SyncAllowed ==
    /\ spc = "allow"
    /\ Granted
    /\ todo' = {p \in Names(names) : Eligible(p)}
    /\ spc' = "work"
    /\ UNCHANGED <<pypiVars, local, pollVars, pending, names, got, tally, backoffVars,
                   faults, crashes>>

\* sync_project on a worker thread: the page as it is now, or 404
FetchPage(p) ==
    /\ spc = "work" /\ p \in todo
    /\ got' = [got EXCEPT ![p] = [kind |-> IF remote[p] = 0 THEN "gone" ELSE "ok",
                                  serial |-> remote[p]]]
    /\ todo' = todo \ {p}
    /\ UNCHANGED <<pypiVars, local, pollVars, spc, pending, names, tally, backoffVars, b, faults, crashes>>

FetchPageFails(p, k) ==
    /\ spc = "work" /\ p \in todo
    /\ Fault(k)
    /\ got' = [got EXCEPT ![p] = [kind |-> k, serial |-> 0]]
    /\ todo' = todo \ {p}
    /\ UNCHANGED <<pypiVars, local, pollVars, spc, pending, names, tally, backoffVars, b, crashes>>

\* ProjectBackoff.record_success
ForgetFailures(p) ==
    /\ attempts' = [attempts EXCEPT ![p] = 0]
    /\ cooling' = cooling \ {p}
    /\ quarantined' = quarantined \ {p}

\* Wrong variant: the global serial, not the project's.
ApplyPageGlobalSerial(p, changed) ==
    /\ spc = "work" /\ got[p].kind = "ok"
    /\ local' = [local EXCEPT ![p] = clock]
    /\ ForgetFailures(p)
    /\ tally' = [tally EXCEPT !.succeeded = @ \/ changed]
    /\ got' = [got EXCEPT ![p] = NoPage]
    /\ UNCHANGED <<pypiVars, pollVars, spc, pending, names, todo, b, faults, crashes>>

\* the plan is written with the page's serial; it may change no wheel at all
ApplyPage(p, changed) ==
    /\ spc = "work" /\ got[p].kind = "ok"
    /\ local' = [local EXCEPT ![p] = got[p].serial]
    /\ ForgetFailures(p)
    /\ tally' = [tally EXCEPT !.succeeded = @ \/ changed]
    /\ got' = [got EXCEPT ![p] = NoPage]
    /\ UNCHANGED <<pypiVars, pollVars, spc, pending, names, todo, b, faults, crashes>>

\* wheels tombstoned, pypi_index row deleted
ApplyGone(p) ==
    /\ spc = "work" /\ got[p].kind = "gone"
    /\ local' = [local EXCEPT ![p] = 0]
    /\ ForgetFailures(p)
    /\ tally' = [tally EXCEPT !.succeeded = TRUE]
    /\ got' = [got EXCEPT ![p] = NoPage]
    /\ UNCHANGED <<pypiVars, pollVars, spc, pending, names, todo, b, faults, crashes>>

\* ProjectBackoff.record_failure; nothing is written to wheels or pypi_index
ApplyRetry(p) ==
    /\ spc = "work" /\ got[p].kind = "retry"
    /\ attempts' = [attempts EXCEPT ![p] = @ + 1]
    /\ cooling' = cooling \cup {p}
    /\ quarantined' = IF attempts[p] + 1 > MaxAttempts
                      THEN quarantined \cup {p} ELSE quarantined
    /\ tally' = [tally EXCEPT !.retried = TRUE]
    /\ got' = [got EXCEPT ![p] = NoPage]
    /\ UNCHANGED <<pypiVars, local, pollVars, spc, pending, names, todo, b, faults,
                   crashes>>

\* limiter.penalize; no attempt is counted
ApplyRateLimited(p) ==
    /\ spc = "work" /\ got[p].kind = "limited"
    /\ got' = [got EXCEPT ![p] = NoPage]
    /\ UNCHANGED <<pypiVars, local, pollVars, spc, pending, names, todo, tally, backoffVars,
                   b, faults, crashes>>

\* An exception leaves ingest_stale_projects; StageLoop logs it and goes on.
SyncRaises ==
    /\ spc = "work"
    /\ Fault("raise")
    /\ spc' = "idle" /\ names' = <<>> /\ todo' = {} /\ tally' = NoTally
    /\ got' = [p \in Projects |-> NoPage]
    /\ UNCHANGED <<pypiVars, local, pollVars, pending, backoffVars, b, crashes>>

\* the summary decides what the breaker is told, if anything
SyncFinish ==
    /\ spc = "work" /\ todo = {}
    /\ \A p \in Projects : got[p] = NoPage
    /\ b' = IF tally.succeeded THEN RecordSuccess(b)
            ELSE IF tally.retried THEN RecordFailure(b)
            ELSE b
    /\ spc' = "idle" /\ names' = <<>> /\ tally' = NoTally
    /\ UNCHANGED <<pypiVars, local, pollVars, pending, todo, got, backoffVars, faults, crashes>>

-----------------------------------------------------------------------------
(* Time, and the process *)

CoolDown(p) ==
    /\ p \in cooling
    /\ cooling' = cooling \ {p}
    /\ UNCHANGED <<pypiVars, local, pollVars, syncVars, attempts, quarantined, b,
                   faults, crashes>>

BreakerDue ==
    /\ b.state = "open" /\ ~b.due
    /\ b' = Recovered(b)
    /\ UNCHANGED <<pypiVars, local, pollVars, syncVars, backoffVars, faults, crashes>>

\* Everything but pypi_index is in memory.
Restart ==
    /\ crashes < MaxCrashes
    /\ crashes' = crashes + 1
    /\ NewProcess
    /\ UNCHANGED <<pypiVars, local, faults>>

PollNext ==
    \/ PollStart \/ PollNotModified \/ PollListing \/ PollRead \/ PollFinish \/ PollDone
    \/ \E p \in Projects : PollEnqueue(p)

SyncNext ==
    \/ Drain \/ SyncRefused \/ SyncAllowed \/ SyncFinish
    \/ \E p \in Projects :
          \/ FetchPage(p) \/ ApplyGone(p) \/ ApplyRetry(p) \/ ApplyRateLimited(p)
          \/ \E changed \in BOOLEAN : ApplyPage(p, changed)

Next ==
    \/ \E p \in Projects : Publish(p) \/ Delete(p) \/ CoolDown(p)
    \/ PollNext \/ PollRateLimited \/ PollFails
    \/ SyncNext \/ SyncRaises
    \/ \E p \in Projects, k \in {"retry", "limited"} : FetchPageFails(p, k)
    \/ BreakerDue
    \/ Restart

Spec == Init /\ [][Next]_vars

(* Both stages keep running on their triggers, and time passes.  Requests
   fail at most MaxFaults times and are answered otherwise.  Drain comes
   round although index_poll keeps taking turns. *)
Fairness ==
    /\ WF_vars(PollNext)
    /\ WF_vars(SyncNext)
    /\ WF_vars(BreakerDue)
    /\ \A p \in Projects : WF_vars(CoolDown(p))

FairSpec == Spec /\ Fairness

-----------------------------------------------------------------------------
(* Properties *)

Serials == 0..MaxSerial

(* The variables keep their types, and a project is queued at most once. *)
TypeOK ==
    /\ clock \in Serials
    /\ remote \in [Projects -> Serials] /\ local \in [Projects -> Serials]
    /\ ipc \in {"idle", "fetch", "read", "finish", "enqueue"}
    /\ etag \in [Projects -> Serials \cup {-1}] /\ seen \in [Projects -> Serials \cup {-1}]
    /\ stale \subseteq Projects /\ todo \subseteq Projects
    /\ spc \in {"idle", "allow", "work"}
    /\ pending \in Seq(Projects) /\ Len(pending) = Cardinality(Names(pending))
    /\ names \in Seq(Projects) /\ Len(names) <= BatchLimit
    /\ got \in [Projects -> [kind : {"none", "ok", "gone", "retry", "limited"},
                             serial : Serials]]
    /\ tally \in [retried : BOOLEAN, succeeded : BOOLEAN]
    /\ attempts \in [Projects -> 0..MaxFaults]
    /\ cooling \subseteq Projects /\ quarantined \subseteq Projects
    /\ b \in BreakerType
    /\ faults \in [poll : 0..MaxFaults, other : 0..MaxFaults] /\ crashes \in 0..MaxCrashes

(* The stored serial is never ahead of a page PyPI really served: else a later
   change would look old and never be fetched. *)
SerialNotAhead ==
    \A p \in Projects : local[p] <= clock /\ (local[p] > remote[p] => remote[p] = 0)

(* Types, one place in the queue for each project, and no serial ahead. *)
SyncInv == TypeOK /\ SerialNotAhead

(* A listing whose etag is kept is not looked at again (304) until PyPI
   changes, so a project it showed as stale, and that has not changed since,
   must be in somebody's hands until pypi_index has caught up with it: queued,
   drained or being worked on, or about to be queued -- also when the breaker
   sends a batch back, polls fail and both stages run at once.  (Once a page
   request has failed this no longer holds: see CatchesUp.) *)
NothingDropped ==
    faults.other = 0 =>
        \A p \in Projects :
            /\ etag[p] > 0 /\ etag[p] = remote[p]
            /\ local[p] < etag[p]
            => p \in stale \cup Names(pending) \cup Names(names)

(* "A project that fails is retried on the next poll (its serial is
   unchanged)" (specs/08): in the end pypi_index has the serial of every project
   in the listing, failures or not. *)
CatchesUp == <>[](\A p \in Projects : remote[p] > 0 => local[p] = remote[p])

(* As long as no request fails: through restarts that lose the pending set,
   and pages that change while a batch is under way. *)
CatchesUpUnharmed == <>(faults.poll + faults.other > 0) \/ CatchesUp
=============================================================================
