------------------------------- MODULE Daemon -------------------------------
(***************************************************************************)
(* The life of the daemon process: start (daemon/service.py), the control  *)
(* socket and its clients (control.py, control_client.py, cli.py), the     *)
(* stage loops (daemon/stage_loop.py) and shutdown, by a command or a      *)
(* signal, at any moment of that life.                                     *)
(*                                                                         *)
(* The main thread runs start() and then waits for _stopped_event.  The    *)
(* control socket is up before the stages are.  A shutdown runs in a       *)
(* thread of its own, of which only the first gets past the lock.  A       *)
(* client is a process: the command line, or a probe that connects and     *)
(* closes (_socket_is_live).  The rival is another `run` on the same       *)
(* database; only what it does to this daemon's files is modelled.         *)
(*                                                                         *)
(* What the stages and the archive thread work on is left to the modules   *)
(* Pipeline and Handoff, and the writer's queue to Writer.                 *)
(***************************************************************************)
EXTENDS Naturals, Sequences, FiniteSets

CONSTANTS
    Clients,    \* processes that use the control socket
    Order,      \* the stages, in the order they are started
    Needs,      \* the stage a stage cannot be built without, or itself
    Chunks,     \* how many chunks a reprocess writes
    Workers,    \* max_workers of the control pool
    Histories,  \* bound: the troubles and the commands that occur together
    MaxSignals  \* bound: SIGTERM or SIGINT received

Stages == {Order[i] : i \in DOMAIN Order}

(* A "probe" (_socket_is_live) sends nothing.                              *)
AllCommands == {"status", "pause", "resume", "drain", "reprocess", "shutdown", "probe"}

TroubleKinds ==
    { "signal",  \* SIGTERM or SIGINT
      "start",   \* a stage cannot be built, or start() raises
      "fatal",   \* an exception that ends a stage's or the archive's thread
      "accept",  \* accept fails while the socket is open
      "leave",   \* a client gives up, or dies
      "rival" }  \* another `run` on the same database

ASSUME DaemonAssumption ==
    /\ IsFiniteSet(Clients)
    /\ Order \in Seq(STRING)
    /\ \A i, j \in DOMAIN Order : Order[i] = Order[j] => i = j
    /\ "fetch" \in Stages
    /\ Needs \in [Stages -> Stages]
    /\ Chunks \in Nat \ {0}
    /\ Workers \in Nat \ {0}
    /\ Histories \subseteq [trouble : SUBSET TroubleKinds, commands : [Clients -> SUBSET AllCommands]]
    /\ MaxSignals \in Nat

VARIABLES
    mpc,      \* where start() is; "serve": waiting; "gone": the process has ended
    built,    \* how many stages have been tried
    stage,    \* "none", "failed", "idle", "due": the event was not set, "checked":
              \* nor was _paused, "busy": in iterate, "ended"
    paused,   \* StageLoop._paused
    archive,  \* the archive thread: "none", "run", "ended"
    writer,   \* "none", "run", "stopped"
    sd,       \* where shutdown() is; "none": not begun, "dead": it raised
    spawned,  \* a thread is about to call shutdown()
    early,    \* shutdown() began before start() had returned
    late,     \* the grace period is over
    event,    \* shutdown_event
    status,   \* _status_only
    closed,   \* ControlServer.stop has closed the listening socket
    acceptor, \* the accept thread: "none", "waiting", "ended"
    pool,     \* the control pool takes work
    path,     \* the file at socket_path: "none", "stale", "ours", "rival"
    client,   \* what a client has seen, see ClientStates
    conn,     \* its connection in the daemon, see ConnStates
    cmd,      \* its command
    prog,     \* chunks written, or stages paused, for it
    reply,    \* the answer it is to get
    rival,    \* "none", "refused", "probed", "recovered", "up"
    blind,    \* the rival probed before this daemon had bound its socket
    history,  \* what happens in this one
    signals   \* how many signals were received

start    == <<mpc, built>>
threads  == <<stage, paused, archive, writer>>
stopping == <<sd, spawned, early, late, event>>
server   == <<status, closed, acceptor, pool>>
requests == <<client, conn, cmd, prog, reply>>
other    == <<rival, blind>>
bounds   == <<history, signals>>
vars     == <<start, threads, stopping, server, path, requests, other, bounds>>

(* "sent" and "quit" have sent a request; "quit" and "closed" have gone.   *)
ClientStates == {"new", "open", "sent", "quit", "closed", "ok", "error", "refused", "eof", "nodaemon"}

ConnStates == {"none", "backlog", "pooled", "reading", "working", "reply", "done"}

Fetch == "fetch"

(* StageLoop exists: control commands can find it.                         *)
Known(s) == stage[s] \notin {"none", "failed"}

Alive(s) == stage[s] \in {"idle", "due", "checked", "busy"}

-----------------------------------------------------------------------------
(* _cmd_run has probed the socket and found nobody.                        *)
Init ==
    /\ mpc = "init" /\ built = 0
    /\ stage = [s \in Stages |-> "none"] /\ paused = [s \in Stages |-> FALSE]
    /\ archive = "none" /\ writer = "none"
    /\ sd = "none" /\ spawned = FALSE /\ early = FALSE /\ late = FALSE /\ event = FALSE
    /\ status = FALSE /\ closed = FALSE /\ acceptor = "none" /\ pool = TRUE
    /\ path \in {"none", "stale"}
    /\ client = [c \in Clients |-> "new"] /\ conn = [c \in Clients |-> "none"]
    /\ cmd = [c \in Clients |-> "status"] /\ prog = [c \in Clients |-> 0]
    /\ reply = [c \in Clients |-> "none"]
    /\ rival = "none" /\ blind = FALSE
    /\ history \in Histories /\ signals = 0

(* The process ends: its threads are daemon threads, its sockets close and *)
(* the socket file stays where it is.                                      *)
EndProcess ==
    /\ mpc' = "gone"
    /\ stage' = [s \in Stages |-> IF Alive(s) THEN "ended" ELSE stage[s]]
    /\ archive' = IF archive = "run" THEN "ended" ELSE archive
    /\ writer' = IF writer = "run" THEN "stopped" ELSE writer
    /\ acceptor' = IF acceptor = "waiting" THEN "ended" ELSE acceptor
    /\ closed' = TRUE
    /\ path' = IF path = "ours" THEN "stale" ELSE path
    /\ client' = [c \in Clients |-> IF client[c] \in {"open", "sent"} THEN "eof" ELSE client[c]]
    /\ conn' = [c \in Clients |-> IF conn[c] = "none" THEN "none" ELSE "done"]
    /\ spawned' = FALSE
    /\ UNCHANGED <<built, paused, sd, early, late, event, status, pool, cmd, prog, reply, other>>

-----------------------------------------------------------------------------
(* start(), step by step.                                                  *)

StartWriter ==
    /\ mpc = "init"
    /\ mpc' = "build"
    /\ writer' = "run"
    /\ UNCHANGED <<built, stage, paused, archive, stopping, server, path, requests, other, bounds>>

(* _recover_archive, the limiter, the dispatcher, ... and handoff_queue,   *)
(* which shutdown uses without asking whether it is there.                 *)
Build ==
    /\ mpc = "build"
    /\ mpc' = "bind"
    /\ UNCHANGED <<built, threads, stopping, server, path, requests, other, bounds>>

(* ControlServer.start: whatever is at the path is replaced.               *)
Bind ==
    /\ mpc = "bind"
    /\ mpc' = "assign"
    /\ path' = "ours"
    /\ acceptor' = "waiting"
    /\ UNCHANGED <<built, threads, stopping, status, closed, pool, requests, other, bounds>>

(* self.control_server is set only now.                                    *)
Assign ==
    /\ mpc = "assign"
    /\ mpc' = "stages"
    /\ UNCHANGED <<built, threads, stopping, server, path, requests, other, bounds>>

(* A stage that cannot be built is recorded, and the next one is tried.    *)
StartStage(ok) ==
    /\ mpc = "stages"
    /\ built < Len(Order)
    /\ LET s == Order[built + 1]
       IN  /\ IF ok THEN Needs[s] = s \/ Known(Needs[s])
                     ELSE "start" \in history.trouble
           /\ stage' = [stage EXCEPT ![s] = IF ok THEN "idle" ELSE "failed"]
    /\ built' = built + 1
    /\ UNCHANGED <<mpc, paused, archive, writer, stopping, server, path, requests, other, bounds>>

StartArchive ==
    /\ mpc = "stages"
    /\ built = Len(Order)
    /\ mpc' = "metrics"
    /\ archive' = IF Known(Fetch) THEN "run" ELSE "none"
    /\ UNCHANGED <<built, stage, paused, writer, stopping, server, path, requests, other, bounds>>

StartMetrics ==
    /\ mpc = "metrics"
    /\ mpc' = "serve"
    /\ UNCHANGED <<built, threads, stopping, server, path, requests, other, bounds>>

(* A schema mismatch, a failing recovery, an address in use: start raises  *)
(* and the process ends with it, whatever is already running.              *)
StartFails ==
    /\ "start" \in history.trouble
    /\ mpc \in {"init", "build", "bind", "metrics"}
    /\ EndProcess
    /\ UNCHANGED bounds

-----------------------------------------------------------------------------
(* The stage threads and the archive thread.                               *)

(* run_forever reads the event ...                                         *)
StageDue(s) ==
    /\ stage[s] = "idle"
    /\ ~event
    /\ stage' = [stage EXCEPT ![s] = "due"]
    /\ UNCHANGED <<start, paused, archive, writer, stopping, server, path, requests, other, bounds>>

(* ... run_once reads _paused, under the lock ...                          *)
StageChecks(s) ==
    /\ stage[s] = "due"
    /\ stage' = [stage EXCEPT ![s] = IF paused[s] THEN "idle" ELSE "checked"]
    /\ UNCHANGED <<start, paused, archive, writer, stopping, server, path, requests, other, bounds>>

(* ... and iterates without it: a pause in between comes too late.         *)
StageBegins(s) ==
    /\ stage[s] = "checked"
    /\ stage' = [stage EXCEPT ![s] = "busy"]
    /\ UNCHANGED <<start, paused, archive, writer, stopping, server, path, requests, other, bounds>>

(* An iteration ends; an exception of fatal_exceptions ends the thread.    *)
StageReturns(s, fatal) ==
    /\ stage[s] = "busy"
    /\ fatal => "fatal" \in history.trouble
    /\ stage' = [stage EXCEPT ![s] = IF fatal THEN "ended" ELSE "idle"]
    /\ UNCHANGED <<start, paused, archive, writer, stopping, server, path, requests, other, bounds>>

StageEnds(s) ==
    /\ stage[s] = "idle"
    /\ event
    /\ stage' = [stage EXCEPT ![s] = "ended"]
    /\ UNCHANGED <<start, paused, archive, writer, stopping, server, path, requests, other, bounds>>

QueueClosed == sd \notin {"none", "restrict", "event", "fetch", "close", "dead"}

ArchiveEnds ==
    /\ archive = "run"
    /\ QueueClosed
    /\ archive' = "ended"
    /\ UNCHANGED <<start, stage, paused, writer, stopping, server, path, requests, other, bounds>>

(* A failed append, or the guard that paused between two looks.            *)
ArchiveCrashes ==
    /\ archive = "run"
    /\ "fatal" \in history.trouble
    /\ archive' = "ended"
    /\ UNCHANGED <<start, stage, paused, writer, stopping, server, path, requests, other, bounds>>

-----------------------------------------------------------------------------
(* Signals, and shutdown() in its own thread.                              *)

AfterBuild  == mpc \notin {"init", "build"}
AfterAssign == AfterBuild /\ mpc \notin {"bind", "assign"}

(* The first signal starts a thread; once shutdown() has begun the next    *)
(* one is os._exit.                                                        *)
Signal ==
    /\ mpc # "gone"
    /\ "signal" \in history.trouble
    /\ signals < MaxSignals
    /\ signals' = signals + 1
    /\ history' = history
    /\ IF sd # "none"
       THEN EndProcess
       ELSE /\ spawned' = TRUE
            /\ UNCHANGED <<start, threads, sd, early, late, event, server, path, requests, other>>

(* Every thread but the first returns at the lock.                         *)
TakeLock ==
    /\ spawned
    /\ spawned' = FALSE
    /\ sd' = IF sd = "none" THEN "restrict" ELSE sd
    /\ early' = IF sd = "none" THEN mpc # "serve" ELSE early
    /\ UNCHANGED <<start, threads, late, event, server, path, requests, other, bounds>>

(* One step of the shutdown thread that leaves everything else alone.      *)
Advance(from, to) ==
    /\ mpc # "gone"
    /\ sd = from
    /\ sd' = to
    /\ UNCHANGED <<spawned, early, late>>
    /\ UNCHANGED <<start, stage, paused, archive, requests, other, bounds>>

(* Wrong variant: no more commands, so the socket is closed here already.  *)
RestrictClosesSocket ==
    /\ Advance("restrict", "event")
    /\ status' = (status \/ AfterAssign)
    /\ closed' = (closed \/ AfterAssign)
    /\ UNCHANGED <<writer, event, acceptor, pool, path>>

Restrict ==
    /\ Advance("restrict", "event")
    /\ status' = (status \/ AfterAssign)
    /\ UNCHANGED <<writer, event, closed, acceptor, pool, path>>

SetEvent ==
    /\ Advance("event", "fetch")
    /\ event' = TRUE
    /\ UNCHANGED <<writer, server, path>>

JoinFetch ==
    /\ ~Alive(Fetch) \/ late
    /\ Advance("fetch", "close")
    /\ UNCHANGED <<writer, event, server, path>>

(* An attribute that is not there yet ends the thread.                     *)
CloseQueue ==
    /\ Advance("close", IF AfterBuild THEN "join" ELSE "dead")
    /\ UNCHANGED <<writer, event, server, path>>

JoinStages ==
    /\ (\A s \in Stages \ {Fetch} : ~Alive(s)) \/ late
    /\ Advance("join", "archive")
    /\ UNCHANGED <<writer, event, server, path>>

(* While start() creates the threads, joining one that has not been        *)
(* started, or iterating over the growing dictionary, raises.              *)
JoinRaises ==
    /\ mpc = "stages"
    /\ \E from \in {"fetch", "join", "archive"} : Advance(from, "dead")
    /\ UNCHANGED <<writer, event, server, path>>

JoinArchive ==
    /\ archive # "run" \/ late
    /\ Advance("archive", "writer")
    /\ UNCHANGED <<writer, event, server, path>>

StopWriter ==
    /\ Advance("writer", IF AfterAssign THEN "close_socket" ELSE "rest")
    /\ writer' = "stopped"
    /\ UNCHANGED <<event, server, path>>

(* ControlServer.stop.  Closing the descriptor does not wake a thread that *)
(* is inside accept: the join runs into its timeout, and until somebody    *)
(* connects the kernel keeps listening.                                    *)
CloseSocket ==
    /\ Advance("close_socket", "pool")
    /\ closed' = TRUE
    /\ UNCHANGED <<writer, event, status, acceptor, pool, path>>

PoolShutdown ==
    /\ Advance("pool", "drain")
    /\ pool' = FALSE
    /\ UNCHANGED <<writer, event, status, closed, acceptor, path>>

Handling(c) == conn[c] \in {"pooled", "reading", "working", "reply"}

(* Wrong variant: shutdown(wait=False).                                    *)
PoolDrainedNoWait ==
    /\ Advance("drain", "unlink")
    /\ UNCHANGED <<writer, event, server, path>>

PoolDrained ==
    /\ \A c \in Clients : ~Handling(c)
    /\ Advance("drain", "unlink")
    /\ UNCHANGED <<writer, event, server, path>>

(* Whoever's file it is by now.                                            *)
Unlink ==
    /\ Advance("unlink", "rest")
    /\ path' = "none"
    /\ UNCHANGED <<writer, event, server>>

(* The metrics server, the client, the pools, the connections, the event.  *)
Rest ==
    /\ Advance("rest", "done")
    /\ UNCHANGED <<writer, event, server, path>>

Joining == sd \in {"fetch", "close", "join", "archive"}

GraceOver ==
    /\ mpc # "gone"
    /\ Joining
    /\ ~late
    /\ late' = TRUE
    /\ UNCHANGED <<start, threads, sd, spawned, early, event, server, path, requests, other, bounds>>

(* run_forever returns.                                                    *)
Exit ==
    /\ mpc = "serve"
    /\ sd = "done"
    /\ EndProcess
    /\ UNCHANGED bounds

-----------------------------------------------------------------------------
(* The control socket.                                                     *)

Backlog == {c \in Clients : conn[c] = "backlog"}

(* connect() succeeds: a thread is in accept, or the socket is open and    *)
(* nobody will ever accept.                                                *)
Listening == acceptor = "waiting" \/ (acceptor = "ended" /\ ~closed)

Connect(c, m) ==
    /\ client[c] = "new"
    /\ path # "rival"
    /\ cmd' = [cmd EXCEPT ![c] = m]
    /\ LET up == path = "ours" /\ Listening
       IN  /\ client' = [client EXCEPT ![c] = IF up THEN "open" ELSE "nodaemon"]
           /\ conn' = [conn EXCEPT ![c] = IF up THEN "backlog" ELSE "none"]
    /\ UNCHANGED <<start, threads, stopping, server, path, prog, reply, other, bounds>>

Send(c) ==
    /\ client[c] = "open"
    /\ cmd[c] # "probe"
    /\ client' = [client EXCEPT ![c] = "sent"]
    /\ UNCHANGED <<start, threads, stopping, server, path, conn, cmd, prog, reply, other, bounds>>

(* A probe closes at once; a client may die, or its read time out.         *)
Leave(c) ==
    /\ client[c] \in {"open", "sent"}
    /\ cmd[c] = "probe" \/ "leave" \in history.trouble
    /\ client' = [client EXCEPT ![c] = IF client[c] = "open" THEN "closed" ELSE "quit"]
    /\ UNCHANGED <<start, threads, stopping, server, path, conn, cmd, prog, reply, other, bounds>>

(* The connections in S are closed without an answer.                      *)
HungUp(S) == [c \in Clients |-> IF c \in S /\ client[c] \in {"open", "sent"} THEN "eof" ELSE client[c]]

(* submit on a pool that is shut down raises and ends the thread.  A       *)
(* thread whose socket was closed meanwhile ends on its next accept, and   *)
(* the kernel drops the rest of the backlog with the socket.               *)
Accept(c) ==
    /\ acceptor = "waiting"
    /\ conn[c] = "backlog"
    /\ LET ends == closed \/ ~pool
           drop == (IF ends THEN Backlog \ {c} ELSE {}) \cup (IF pool THEN {} ELSE {c})
       IN  /\ acceptor' = IF ends THEN "ended" ELSE "waiting"
           /\ client' = HungUp(drop)
           /\ conn' = [d \in Clients |-> IF d \in drop THEN "done"
                                         ELSE IF d = c THEN "pooled" ELSE conn[d]]
    /\ UNCHANGED <<start, threads, stopping, status, closed, pool, path, cmd, prog, reply, other, bounds>>

(* accept raises (EMFILE, ECONNABORTED): the loop takes it for a stop.     *)
AcceptFails ==
    /\ acceptor = "waiting"
    /\ ~closed
    /\ Backlog # {}
    /\ "accept" \in history.trouble
    /\ acceptor' = "ended"
    /\ UNCHANGED <<start, threads, stopping, status, closed, pool, path, requests, other, bounds>>

TakeWork(c) ==
    /\ conn[c] = "pooled"
    /\ Cardinality({d \in Clients : conn[d] \in {"reading", "working", "reply"}}) < Workers
    /\ conn' = [conn EXCEPT ![c] = "reading"]
    /\ UNCHANGED <<start, threads, stopping, server, path, client, cmd, prog, reply, other, bounds>>

Refused(c) == status /\ cmd[c] # "status"

ReadRequest(c) ==
    /\ conn[c] = "reading"
    /\ client[c] \in {"sent", "quit", "closed"}
    /\ conn' = [conn EXCEPT ![c] = IF client[c] = "closed" THEN "done"
                                   ELSE IF Refused(c) THEN "reply" ELSE "working"]
    /\ reply' = [reply EXCEPT ![c] = IF conn'[c] = "reply" THEN "refused" ELSE "none"]
    /\ UNCHANGED <<start, threads, stopping, server, path, client, cmd, prog, other, bounds>>

(* Wrong variant: an exception of the handler ends the worker, too.        *)
ReplyDropsErrors(c) ==
    /\ conn[c] = "reply"
    /\ conn' = [conn EXCEPT ![c] = "done"]
    /\ client' = [client EXCEPT ![c] = IF client[c] = "sent" /\ reply[c] # "error" THEN reply[c] ELSE @]
    /\ reply' = [reply EXCEPT ![c] = "none"]
    /\ UNCHANGED <<start, threads, stopping, server, path, cmd, prog, other, bounds>>

(* _handle_connection sends; a client that is gone is no error.            *)
Reply(c) ==
    /\ conn[c] = "reply"
    /\ conn' = [conn EXCEPT ![c] = "done"]
    /\ client' = [client EXCEPT ![c] = IF client[c] = "sent" THEN reply[c] ELSE client[c]]
    /\ reply' = [reply EXCEPT ![c] = "none"]
    /\ UNCHANGED <<start, threads, stopping, server, path, cmd, prog, other, bounds>>

-----------------------------------------------------------------------------
(* The command handlers, in a worker of the pool.                          *)

(* Handler m of client c is done and its answer is r.                      *)
Answer(c, m, r) ==
    /\ conn[c] = "working"
    /\ cmd[c] = m
    /\ conn' = [conn EXCEPT ![c] = "reply"]
    /\ reply' = [reply EXCEPT ![c] = r]
    /\ UNCHANGED <<start, stage, archive, writer, sd, early, late, event, server, path,
                   client, cmd, other, bounds>>

(* start() is adding to the dictionary of the loops.                       *)
Growing == mpc = "stages" /\ built \in 1..(Len(Order) - 1)

(* Iterating over a dictionary that grows raises.                          *)
Status(c, r) ==
    /\ r = "error" => Growing
    /\ Answer(c, "status", r)
    /\ UNCHANGED <<paused, spawned, prog>>

SetPaused(c, m) ==
    /\ Answer(c, m, IF Known(Fetch) THEN "ok" ELSE "error")
    /\ paused' = [paused EXCEPT ![Fetch] = IF Known(Fetch) THEN m = "pause" ELSE @]
    /\ UNCHANGED <<spawned, prog>>

(* Wrong variant: a loop that is in an iteration is left alone.            *)
DrainIdleOnly(c, r) ==
    /\ Answer(c, "drain", r)
    /\ prog' = [prog EXCEPT ![c] = built]
    /\ paused' = [s \in Stages |-> paused[s] \/ stage[s] = "idle"]
    /\ r = "error" => Growing
    /\ UNCHANGED spawned

(* Every loop there is by now; if another one is added meanwhile, only     *)
(* some of them, and an error.                                             *)
Drain(c, r) ==
    /\ Answer(c, "drain", r)
    /\ \E n \in (IF r = "ok" THEN {built} ELSE 1..built) :
          /\ prog' = [prog EXCEPT ![c] = n]
          /\ paused' = [s \in Stages |-> paused[s] \/ \E i \in 1..n : Order[i] = s /\ Known(s)]
    /\ r = "error" => Growing
    /\ UNCHANGED spawned

(* reprocess and unquarantine: one submit_and_wait for each chunk.         *)
ReprocessChunk(c) ==
    /\ conn[c] = "working"
    /\ cmd[c] = "reprocess"
    /\ writer = "run"
    /\ prog[c] < Chunks
    /\ prog' = [prog EXCEPT ![c] = @ + 1]
    /\ UNCHANGED <<start, threads, stopping, server, path, client, conn, cmd, reply, other, bounds>>

(* Wrong variant: the error is logged and the total so far returned.       *)
ReprocessEndsSwallows(c) ==
    /\ prog[c] = Chunks \/ writer # "run"
    /\ Answer(c, "reprocess", "ok")
    /\ UNCHANGED <<paused, spawned, prog>>

(* Without a writer a submit raises, and what was written stays written.   *)
ReprocessEnds(c) ==
    /\ prog[c] = Chunks \/ writer # "run"
    /\ Answer(c, "reprocess", IF prog[c] = Chunks THEN "ok" ELSE "error")
    /\ UNCHANGED <<paused, spawned, prog>>

(* Wrong variant: shutdown() in the worker itself, which is busy with it   *)
(* to the end.                                                             *)
RequestShutdownInline(c) ==
    \/ /\ conn[c] = "working" /\ cmd[c] = "shutdown"
       /\ sd = "none" /\ ~spawned
       /\ spawned' = TRUE
       /\ UNCHANGED <<start, threads, sd, early, late, event, server, path, requests, other, bounds>>
    \/ /\ sd \in {"done", "dead"}
       /\ Answer(c, "shutdown", "ok")
       /\ UNCHANGED <<paused, spawned, prog>>

(* request_shutdown: in another thread, because this one is in the pool    *)
(* that shutdown() waits for.                                              *)
RequestShutdown(c) ==
    /\ Answer(c, "shutdown", "ok")
    /\ spawned' = TRUE
    /\ UNCHANGED <<paused, prog>>

Handle(c) ==
    \/ \E r \in {"ok", "error"} : Status(c, r) \/ Drain(c, r)
    \/ \E m \in {"pause", "resume"} : SetPaused(c, m)
    \/ ReprocessChunk(c) \/ ReprocessEnds(c) \/ RequestShutdown(c)

-----------------------------------------------------------------------------
(* Another `run` on the same database.                                     *)

(* _socket_is_live: the probe is also what wakes an acceptor whose socket  *)
(* was closed under it.  A refused `run` may be tried again.               *)
RivalProbe ==
    /\ "rival" \in history.trouble
    /\ rival \in {"none", "refused"}
    /\ mpc # "gone"
    /\ LET live == path = "ours" /\ Listening
       IN  /\ rival' = IF live THEN "refused" ELSE "probed"
           /\ blind' = (~AfterBuild \/ mpc = "bind")
           /\ acceptor' = IF live /\ closed /\ Backlog = {} THEN "ended" ELSE acceptor
    /\ UNCHANGED <<start, threads, stopping, status, closed, pool, path, requests, bounds>>

(* Daemon.start: the writer, and every .open segment truncated.            *)
RivalRecover ==
    /\ rival = "probed"
    /\ rival' = "recovered"
    /\ UNCHANGED <<start, threads, stopping, server, path, requests, blind, bounds>>

RivalBind ==
    /\ rival = "recovered"
    /\ rival' = "up"
    /\ path' = "rival"
    /\ UNCHANGED <<start, threads, stopping, server, requests, blind, bounds>>

-----------------------------------------------------------------------------
StartStep ==
    \/ StartWriter \/ Build \/ Bind \/ Assign
    \/ \E ok \in BOOLEAN : StartStage(ok)
    \/ StartArchive \/ StartMetrics \/ Exit

ShutdownStep ==
    \/ TakeLock \/ Restrict \/ SetEvent \/ JoinFetch \/ CloseQueue \/ JoinStages
    \/ JoinArchive \/ StopWriter \/ CloseSocket \/ PoolShutdown \/ PoolDrained
    \/ Unlink \/ Rest \/ GraceOver

StageStep(s) ==
    \/ StageDue(s) \/ StageChecks(s) \/ StageBegins(s) \/ StageEnds(s)
    \/ \E fatal \in BOOLEAN : StageReturns(s, fatal)

Next ==
    \/ StartStep \/ StartFails
    \/ \E s \in Stages : StageStep(s)
    \/ ArchiveEnds \/ ArchiveCrashes
    \/ Signal \/ ShutdownStep \/ JoinRaises
    \/ \E c \in Clients :
          \/ \E m \in history.commands[c] : Connect(c, m)
          \/ Send(c) \/ Leave(c)
          \/ Accept(c) \/ TakeWork(c) \/ ReadRequest(c) \/ Handle(c) \/ Reply(c)
    \/ AcceptFails
    \/ RivalProbe \/ RivalRecover \/ RivalBind

Spec == Init /\ [][Next]_vars

(* The threads of the daemon run, except that an iteration of a stage may  *)
(* take for ever: the grace period is what ends the wait for it.  A client *)
(* that has connected sends or goes; that is not the daemon's doing, but   *)
(* its pool waits for it without a bound.  Nobody has to give up waiting,  *)
(* and signals, failures and the rival are free.  No history has more than *)
(* finitely many of these steps, so one condition does for all of them.    *)
Progress ==
    \/ StartStep \/ ShutdownStep \/ ArchiveEnds
    \/ \E c \in Clients :
          \/ client[c] = "open" /\ (Send(c) \/ Leave(c))
          \/ Accept(c) \/ TakeWork(c) \/ ReadRequest(c) \/ Handle(c) \/ Reply(c)

FairSpec == Spec /\ WF_vars(Progress)

-----------------------------------------------------------------------------
(* Every variable keeps its type.                                          *)
TypeOK ==
    /\ mpc \in {"init", "build", "bind", "assign", "stages", "metrics", "serve", "gone"}
    /\ built \in 0..Len(Order)
    /\ stage \in [Stages -> {"none", "failed", "idle", "due", "checked", "busy", "ended"}]
    /\ paused \in [Stages -> BOOLEAN]
    /\ archive \in {"none", "run", "ended"} /\ writer \in {"none", "run", "stopped"}
    /\ sd \in {"none", "restrict", "event", "fetch", "close", "join", "archive", "writer",
               "close_socket", "pool", "drain", "unlink", "rest", "done", "dead"}
    /\ spawned \in BOOLEAN /\ early \in BOOLEAN /\ late \in BOOLEAN /\ event \in BOOLEAN
    /\ status \in BOOLEAN /\ closed \in BOOLEAN /\ pool \in BOOLEAN /\ blind \in BOOLEAN
    /\ acceptor \in {"none", "waiting", "ended"}
    /\ path \in {"none", "stale", "ours", "rival"}
    /\ client \in [Clients -> ClientStates] /\ conn \in [Clients -> ConnStates]
    /\ cmd \in [Clients -> AllCommands]
    /\ prog \in [Clients -> 0..(Chunks + Len(Order))]
    /\ reply \in [Clients -> {"none", "ok", "error", "refused"}]
    /\ rival \in {"none", "refused", "probed", "recovered", "up"}
    /\ history \in Histories /\ signals \in 0..MaxSignals

(* What a client is told is what happened: "ok" to a reprocess means that  *)
(* every chunk is committed, although shutdown() may have stopped the      *)
(* writer between two of them; "ok" to a shutdown, that one is under way;  *)
(* a refusal, that nothing was done.                                       *)
ReplyIsTrue ==
    \A c \in Clients :
       /\ client[c] = "ok" /\ cmd[c] = "reprocess" => prog[c] = Chunks
       /\ client[c] = "ok" /\ cmd[c] = "shutdown" => spawned \/ sd # "none" \/ mpc = "gone"
       /\ client[c] = "refused" => sd # "none" /\ cmd[c] # "status" /\ prog[c] = 0

(* Types, and answers that are true.                                       *)
DaemonInv == TypeOK /\ ReplyIsTrue

(* After a confirmed drain or pause a stage gets past the check of _paused *)
(* no more, however its thread, start() and other commands interleave,     *)
(* unless somebody resumes it: the one iteration it may still begin is one *)
(* that had passed the check before.  A drain during start() reaches the   *)
(* stages that are there by then, and no others.                           *)
PauseHolds ==
    [][(\A d \in Clients : cmd[d] # "resume") =>
          \A c \in Clients, s \in Stages :
             /\ client[c] = "ok"
             /\ \/ cmd[c] = "pause" /\ s = Fetch
                \/ cmd[c] = "drain" /\ \E i \in 1..prog[c] : Order[i] = s
             => ~(stage[s] # "checked" /\ stage'[s] = "checked")]_vars

(* What _socket_is_live is for: when another daemon goes on to recovery,   *)
(* which truncates the open segments and writes the database, this one     *)
(* has no thread left that could.  It takes a probe after this daemon has  *)
(* bound its socket, a shutdown within its grace period, and one that did  *)
(* not begin inside start().                                               *)
RecoveryAlone ==
    [][rival = "probed" /\ rival' = "recovered" /\ ~blind /\ ~late /\ ~early =>
          /\ \A s \in Stages : ~Alive(s)
          /\ archive # "run"
          /\ writer # "run"]_vars

(* When shutdown() is through, the writer is stopped, no handler is still  *)
(* at work, every connection that was accepted has been answered or        *)
(* closed, and no socket file of this daemon is left.                      *)
CleanExit ==
    sd = "done" /\ ~early =>
       /\ writer = "stopped"
       /\ ~\E c \in Clients : Handling(c)
       /\ path \in {"none", "rival"}

(* A shutdown that begins after start() has returned ends the process, by  *)
(* a command as well as by a signal: the pool, the lock, the acceptor and  *)
(* the stages never wait for each other in a circle, even if an iteration  *)
(* hangs.                                                                  *)
ShutdownEnds == (sd # "none" /\ ~early) ~> mpc = "gone"

AcceptLost == acceptor = "ended" /\ ~closed

(* A client that has sent a request gets an answer or sees the connection  *)
(* closed, before, during and after a shutdown, as long as accept has not  *)
(* failed.                                                                 *)
EveryClientAnswered ==
    \A c \in Clients : client[c] = "sent" ~> (client[c] # "sent" \/ AcceptLost)
=============================================================================
