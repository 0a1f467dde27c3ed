---------------------------- MODULE DaemonProofs ----------------------------
(***************************************************************************)
(* For any number of clients, stages, chunks, workers and signals: what a  *)
(* control client is told is true, a stage that was paused passes its      *)
(* check no more, a shutdown that began after start() leaves no handler    *)
(* at work, no running writer and no socket file, and another `run`        *)
(* recovers the database only when no thread of this daemon is left.       *)
(*                                                                         *)
(* None of it is inductive.  An answer travels from the handler through    *)
(* reply to the client, and has to stay true on its way (ReplyInHand,      *)
(* PauseKept), which needs to know where a request is (RequestPlace) and   *)
(* that a restricted socket means a shutdown (StatusIsShutdown).  What     *)
(* shutdown() achieves is built up step by step (ShutdownOrder, Joined),   *)
(* and start() cannot undo it because it is over (StartIsOver).  A probe   *)
(* finds nobody only when the socket is closed (Reachable, ProbeIsRight).  *)
(***************************************************************************)
EXTENDS Daemon, TLAPS

(* A shutdown that is not early finds start() returned.                    *)
StartIsOver == sd # "none" /\ ~early => mpc \in {"serve", "gone"}

StatusIsShutdown == status => sd # "none"

(* A request that no handler has taken has done nothing, and what a client *)
(* has been told is the end of its connection.                             *)
RequestPlace ==
    \A c \in Clients :
        /\ client[c] = "new" => conn[c] = "none"
        /\ conn[c] \in {"none", "backlog", "pooled", "reading"} => prog[c] = 0
        /\ reply[c] # "none" => conn[c] \in {"reply", "done"}
        /\ conn[c] = "reply" => reply[c] # "none"
        /\ client[c] \in {"ok", "error", "refused"} => conn[c] = "done"

(* ReplyIsTrue, already while the answer has not been sent.                *)
ReplyInHand ==
    \A c \in Clients :
        /\ reply[c] = "ok" /\ cmd[c] = "reprocess" => prog[c] = Chunks
        /\ reply[c] = "ok" /\ cmd[c] = "shutdown" => spawned \/ sd # "none" \/ mpc = "gone"
        /\ reply[c] = "refused" => sd # "none" /\ cmd[c] # "status" /\ prog[c] = 0

(* Where shutdown() is after it has joined the stages, and after it has    *)
(* closed the socket.                                                      *)
Ending  == {"archive", "writer", "close_socket", "pool", "drain", "unlink", "rest", "done"}
Closing == sd \in {"pool", "drain", "unlink", "rest", "done"}

(* What shutdown() has achieved by the step it is at.                      *)
ShutdownOrder ==
    ~early =>
        /\ sd \in {"close_socket", "pool", "drain", "unlink", "rest", "done"} => writer = "stopped"
        /\ sd \in {"drain", "unlink", "rest", "done"} => ~pool
        /\ sd \in {"unlink", "rest", "done"} => \A c \in Clients : ~Handling(c)
        /\ sd \in {"rest", "done"} => path \in {"none", "rival"}

(* No two entries of Order are one stage, so a drain that reached the      *)
(* first prog[c] of them reached them all: those that exist stay paused.   *)
PauseKept ==
    (\A d \in Clients : cmd[d] # "resume") =>
        \A c \in Clients :
            client[c] = "ok" \/ reply[c] = "ok" =>
                /\ cmd[c] = "pause" => paused[Fetch]
                /\ cmd[c] = "drain" =>
                      /\ prog[c] <= built
                      /\ \A i \in 1..prog[c] : Known(Order[i]) => paused[Order[i]]

NewIsBlank == \A c \in Clients : client[c] = "new" => cmd[c] = "status"

Pauses == PauseKept /\ NewIsBlank

(* Once shutdown() has gone past a join within the grace period, the       *)
(* threads it joined have ended.                                           *)
Joined ==
    ~early /\ ~late =>
        /\ sd \in {"close", "join"} \cup Ending => ~Alive(Fetch)
        /\ sd \in Ending => \A s \in Stages : ~Alive(s)
        /\ sd \in Ending \ {"archive"} => archive # "run"

(* From Bind on the socket answers a probe until shutdown() closes it.     *)
Reachable ==
    /\ mpc \notin {"init", "build", "bind", "gone"} =>
          acceptor # "none" /\ (path = "ours" \/ rival = "up" \/ sd \in {"rest", "done"})
    /\ path = "rival" => rival = "up"
    /\ closed => Closing \/ mpc = "gone"

(* A process that has ended has no threads.                                *)
GoneIsEmpty ==
    mpc = "gone" => /\ \A s \in Stages : ~Alive(s)
                    /\ archive # "run" /\ writer # "run"

(* A probe after Bind found nobody because this daemon is past its joins.  *)
ProbeIsRight == rival = "probed" /\ ~blind /\ ~early => Closing \/ mpc = "gone"

EarlyIsShutdown == early => sd # "none"

Alone == EarlyIsShutdown /\ Joined /\ Reachable /\ GoneIsEmpty /\ ProbeIsRight

Answers == RequestPlace /\ ReplyInHand /\ ReplyIsTrue

Phases == StartIsOver /\ StatusIsShutdown /\ ShutdownOrder

DaemonIInv == TypeOK /\ Answers /\ Phases /\ Pauses /\ Alone

(* The stages exist, so Order and its length are what they seem.           *)
LEMMA OrderFacts ==
    /\ Len(Order) \in Nat
    /\ \A n \in 1..Len(Order) : Order[n] \in Stages
    /\ \A i, j \in 1..Len(Order) : Order[i] = Order[j] => i = j
    /\ Fetch \in Stages
  BY DaemonAssumption DEF Stages, Fetch

(* A process that has just begun.                                          *)
LEMMA InitInv == Init => DaemonIInv
<1> SUFFICES ASSUME Init PROVE DaemonIInv
  OBVIOUS
<1>1. TypeOK
  <2>1. built \in 0..Len(Order) /\ signals \in 0..MaxSignals
    BY OrderFacts, DaemonAssumption DEF Init
  <2>2. prog \in [Clients -> 0..(Chunks + Len(Order))]
    BY OrderFacts, DaemonAssumption DEF Init
  <2>3. /\ stage \in [Stages -> {"none", "failed", "idle", "due", "checked", "busy", "ended"}]
        /\ paused \in [Stages -> BOOLEAN]
    BY DEF Init
  <2>4. /\ client \in [Clients -> ClientStates] /\ conn \in [Clients -> ConnStates]
        /\ cmd \in [Clients -> AllCommands]
        /\ reply \in [Clients -> {"none", "ok", "error", "refused"}]
    BY DEF Init, ClientStates, ConnStates, AllCommands
  <2> QED
    BY <2>1, <2>2, <2>3, <2>4 DEF Init, TypeOK
<1>2. Answers
  BY DEF Init, Answers, RequestPlace, ReplyInHand, ReplyIsTrue
<1>3. Phases
  BY DEF Init, Phases, StartIsOver, StatusIsShutdown, ShutdownOrder
<1>4. Pauses
  BY DEF Init, Pauses, PauseKept, NewIsBlank
<1>5. Alone
  BY DEF Init, Alone, EarlyIsShutdown, Joined, Ending, Reachable, Closing, GoneIsEmpty, ProbeIsRight, Alive
<1> QED
  BY <1>1, <1>2, <1>3, <1>4, <1>5 DEF DaemonIInv

(* Only commands of the socket protocol are sent.                          *)
LEMMA HistoryCommands ==
    ASSUME TypeOK, NEW c \in Clients
    PROVE  history.commands[c] \subseteq AllCommands
  BY DaemonAssumption DEF TypeOK

(* The end of the process keeps the types.                                 *)
LEMMA EndTypes ==
    ASSUME TypeOK, EndProcess, history' = history, signals' \in 0..MaxSignals
    PROVE  TypeOK'
<1> USE DEF start, threads, stopping, server, requests, other
<1>1. /\ stage' \in [Stages -> {"none", "failed", "idle", "due", "checked", "busy", "ended"}]
      /\ paused' \in [Stages -> BOOLEAN]
  BY DEF EndProcess, TypeOK
<1>2. client' \in [Clients -> ClientStates] /\ conn' \in [Clients -> ConnStates]
  BY DEF EndProcess, TypeOK, ClientStates, ConnStates
<1>3. /\ archive' \in {"none", "run", "ended"} /\ writer' \in {"none", "run", "stopped"}
      /\ acceptor' \in {"none", "waiting", "ended"}
      /\ path' \in {"none", "stale", "ours", "rival"}
  BY DEF EndProcess, TypeOK
<1>4. spawned' \in BOOLEAN /\ closed' \in BOOLEAN
  BY DEF EndProcess
<1> QED
  BY <1>1, <1>2, <1>3, <1>4 DEF EndProcess, TypeOK

(* Every step keeps the types.                                             *)
LEMMA TypeStep ==
    ASSUME TypeOK, Answers, [Next]_vars
    PROVE  TypeOK'
<1> USE DEF start, threads, stopping, server, requests, other, bounds
<1>1. CASE StartWriter
  BY <1>1 DEF StartWriter, TypeOK
<1>2. CASE Build
  BY <1>2 DEF Build, TypeOK
<1>3. CASE Bind
  BY <1>3 DEF Bind, TypeOK
<1>4. CASE Assign
  BY <1>4 DEF Assign, TypeOK
<1>5. ASSUME NEW ok \in BOOLEAN, StartStage(ok)
      PROVE  TypeOK'
  BY <1>5, OrderFacts DEF StartStage, TypeOK
<1>6. CASE StartArchive
  BY <1>6, OrderFacts DEF StartArchive, TypeOK
<1>7. CASE StartMetrics
  BY <1>7 DEF StartMetrics, TypeOK
<1>8. CASE Exit
  BY <1>8, EndTypes DEF Exit, TypeOK
<1>9. CASE StartFails
  BY <1>9, EndTypes DEF StartFails, TypeOK
<1>10. ASSUME NEW s \in Stages, StageBegins(s)
      PROVE  TypeOK'
  BY <1>10 DEF StageBegins, TypeOK
<1>49. ASSUME NEW s \in Stages, StageDue(s)
      PROVE  TypeOK'
  BY <1>49 DEF StageDue, TypeOK
<1>50. ASSUME NEW s \in Stages, StageChecks(s)
      PROVE  TypeOK'
  BY <1>50 DEF StageChecks, TypeOK
<1>11. ASSUME NEW s \in Stages, StageEnds(s)
      PROVE  TypeOK'
  BY <1>11 DEF StageEnds, TypeOK
<1>12. ASSUME NEW s \in Stages, NEW fatal \in BOOLEAN, StageReturns(s, fatal)
      PROVE  TypeOK'
  BY <1>12 DEF StageReturns, TypeOK
<1>13. CASE ArchiveEnds
  BY <1>13 DEF ArchiveEnds, TypeOK
<1>14. CASE ArchiveCrashes
  BY <1>14 DEF ArchiveCrashes, TypeOK
<1>15. CASE Signal
  <2>1. signals' \in 0..MaxSignals /\ history' = history
    BY <1>15, DaemonAssumption DEF Signal, TypeOK
  <2>2. CASE sd # "none"
    BY <1>15, <2>1, <2>2, EndTypes DEF Signal
  <2>3. CASE sd = "none"
    BY <1>15, <2>1, <2>3 DEF Signal, TypeOK
  <2> QED
    BY <2>2, <2>3
<1>16. CASE TakeLock
  <2>1. early' \in BOOLEAN
    BY <1>16, Zenon DEF TakeLock, TypeOK
  <2>2. spawned' \in BOOLEAN
    BY <1>16 DEF TakeLock
  <2>3. sd' = IF sd = "none" THEN "restrict" ELSE sd
    BY <1>16 DEF TakeLock
  <2>4. UNCHANGED <<start, threads, late, event, server, path, requests, other, bounds>>
    BY <1>16 DEF TakeLock
  <2> QED
    BY <2>1, <2>2, <2>3, <2>4 DEF TypeOK
<1>17. CASE Restrict
  BY <1>17 DEF Restrict, Advance, AfterAssign, AfterBuild, TypeOK
<1>18. CASE SetEvent
  BY <1>18 DEF SetEvent, Advance, TypeOK
<1>19. CASE JoinFetch
  BY <1>19 DEF JoinFetch, Advance, TypeOK
<1>20. CASE CloseQueue
  BY <1>20 DEF CloseQueue, Advance, AfterBuild, TypeOK
<1>21. CASE JoinStages
  BY <1>21 DEF JoinStages, Advance, TypeOK
<1>22. CASE JoinArchive
  BY <1>22 DEF JoinArchive, Advance, TypeOK
<1>23. CASE StopWriter
  BY <1>23 DEF StopWriter, Advance, AfterAssign, AfterBuild, TypeOK
<1>24. CASE CloseSocket
  BY <1>24 DEF CloseSocket, Advance, TypeOK
<1>25. CASE PoolShutdown
  <2>1. pool' \in BOOLEAN
    BY <1>25 DEF PoolShutdown
  <2> QED
    BY <1>25, <2>1 DEF PoolShutdown, Advance, TypeOK
<1>26. CASE PoolDrained
  BY <1>26 DEF PoolDrained, Advance, TypeOK
<1>27. CASE Unlink
  BY <1>27 DEF Unlink, Advance, TypeOK
<1>28. CASE Rest
  BY <1>28 DEF Rest, Advance, TypeOK
<1>29. CASE GraceOver
  BY <1>29 DEF GraceOver, TypeOK
<1>30. CASE JoinRaises
  BY <1>30 DEF JoinRaises, Advance, TypeOK
<1>31. ASSUME NEW c \in Clients, NEW m \in AllCommands, Connect(c, m)
      PROVE  TypeOK'
  BY <1>31 DEF Connect, ClientStates, ConnStates, TypeOK
<1>32. ASSUME NEW c \in Clients, Send(c)
      PROVE  TypeOK'
  BY <1>32 DEF Send, ClientStates, TypeOK
<1>33. ASSUME NEW c \in Clients, Leave(c)
      PROVE  TypeOK'
  BY <1>33 DEF Leave, ClientStates, TypeOK
<1>34. ASSUME NEW c \in Clients, Accept(c)
      PROVE  TypeOK'
  BY <1>34 DEF Accept, HungUp, ClientStates, ConnStates, TypeOK
<1>35. ASSUME NEW c \in Clients, TakeWork(c)
      PROVE  TypeOK'
  BY <1>35 DEF TakeWork, ConnStates, TypeOK
<1>36. ASSUME NEW c \in Clients, ReadRequest(c)
      PROVE  TypeOK'
  BY <1>36 DEF ReadRequest, ConnStates, TypeOK
<1>37. ASSUME NEW c \in Clients, Reply(c)
      PROVE  TypeOK'
  <2>1. client' \in [Clients -> ClientStates] /\ conn' \in [Clients -> ConnStates]
    <3>1. reply[c] \in ClientStates
      BY <1>37 DEF Reply, Answers, RequestPlace, ClientStates, TypeOK
    <3> QED
      BY <1>37, <3>1 DEF Reply, ClientStates, ConnStates, TypeOK
  <2>2. reply' \in [Clients -> {"none", "ok", "error", "refused"}]
    BY <1>37 DEF Reply, TypeOK
  <2> QED
    BY <1>37, <2>1, <2>2 DEF Reply, TypeOK
<1>38. ASSUME NEW c \in Clients, NEW r \in {"ok", "error"}, Status(c, r)
      PROVE  TypeOK'
  BY <1>38 DEF Status, Answer, ConnStates, TypeOK
<1>39. ASSUME NEW c \in Clients, NEW r \in {"ok", "error"}, Drain(c, r)
      PROVE  TypeOK'
  BY <1>39, OrderFacts, DaemonAssumption DEF Drain, Answer, ConnStates, TypeOK
<1>40. ASSUME NEW c \in Clients, NEW m \in {"pause", "resume"}, SetPaused(c, m)
      PROVE  TypeOK'
  <2>1. paused' \in [Stages -> BOOLEAN]
    BY <1>40, OrderFacts, Zenon DEF SetPaused, TypeOK
  <2>2. /\ conn' \in [Clients -> ConnStates]
        /\ reply' \in [Clients -> {"none", "ok", "error", "refused"}]
    BY <1>40 DEF SetPaused, Answer, ConnStates, TypeOK
  <2> QED
    BY <1>40, <2>1, <2>2 DEF SetPaused, Answer, TypeOK
<1>41. ASSUME NEW c \in Clients, ReprocessChunk(c)
      PROVE  TypeOK'
  BY <1>41, OrderFacts, DaemonAssumption DEF ReprocessChunk, TypeOK
<1>42. ASSUME NEW c \in Clients, ReprocessEnds(c)
      PROVE  TypeOK'
  BY <1>42 DEF ReprocessEnds, Answer, ConnStates, TypeOK
<1>43. ASSUME NEW c \in Clients, RequestShutdown(c)
      PROVE  TypeOK'
  BY <1>43 DEF RequestShutdown, Answer, ConnStates, TypeOK
<1>44. CASE AcceptFails
  BY <1>44 DEF AcceptFails, TypeOK
<1>45. CASE RivalProbe
  BY <1>45 DEF RivalProbe, AfterBuild, Listening, TypeOK
<1>46. CASE RivalRecover
  BY <1>46 DEF RivalRecover, TypeOK
<1>47. CASE RivalBind
  BY <1>47 DEF RivalBind, TypeOK
<1>48. CASE UNCHANGED vars
  BY <1>48 DEF vars, TypeOK
<1> QED
  BY <1>1, <1>2, <1>3, <1>4, <1>5, <1>6, <1>7, <1>8, <1>9, <1>10, <1>11,
     <1>12, <1>13, <1>14, <1>15, <1>16, <1>17, <1>18, <1>19, <1>20, <1>21,
     <1>22, <1>23, <1>24, <1>25, <1>26, <1>27, <1>28, <1>29, <1>30, <1>31,
     <1>32, <1>33, <1>34, <1>35, <1>36, <1>37, <1>38, <1>39, <1>40, <1>41,
     <1>42, <1>43, <1>44, <1>45, <1>46, <1>47, <1>48, <1>49, <1>50,
     HistoryCommands DEF
     Next, StartStep, ShutdownStep, StageStep, Handle

(* Every answer stays true until it is given, and after.                   *)
LEMMA AnswersStep ==
    ASSUME TypeOK, Answers, Phases, [Next]_vars
    PROVE  Answers'
<1> USE DEF start, threads, stopping, server, requests, other, bounds
<1>1. CASE StartWriter
  BY <1>1 DEF StartWriter, Answers, RequestPlace, ReplyInHand, ReplyIsTrue,
     TypeOK
<1>2. CASE Build
  BY <1>2 DEF Build, Answers, RequestPlace, ReplyInHand, ReplyIsTrue, TypeOK
<1>3. CASE Bind
  BY <1>3 DEF Bind, Answers, RequestPlace, ReplyInHand, ReplyIsTrue, TypeOK
<1>4. CASE Assign
  BY <1>4 DEF Assign, Answers, RequestPlace, ReplyInHand, ReplyIsTrue, TypeOK
<1>5. ASSUME NEW ok \in BOOLEAN, StartStage(ok)
      PROVE  Answers'
  BY <1>5 DEF StartStage, Answers, RequestPlace, ReplyInHand, ReplyIsTrue,
     TypeOK
<1>6. CASE StartArchive
  BY <1>6 DEF StartArchive, Answers, RequestPlace, ReplyInHand, ReplyIsTrue,
     TypeOK
<1>7. CASE StartMetrics
  BY <1>7 DEF StartMetrics, Answers, RequestPlace, ReplyInHand, ReplyIsTrue,
     TypeOK
<1>8. CASE Exit
  BY <1>8 DEF Exit, EndProcess, Answers, RequestPlace, ReplyInHand,
     ReplyIsTrue, TypeOK
<1>9. CASE StartFails
  BY <1>9 DEF StartFails, EndProcess, Answers, RequestPlace, ReplyInHand,
     ReplyIsTrue, TypeOK
<1>10. ASSUME NEW s \in Stages, StageBegins(s)
      PROVE  Answers'
  BY <1>10 DEF StageBegins, Answers, RequestPlace, ReplyInHand, ReplyIsTrue,
     TypeOK
<1>49. ASSUME NEW s \in Stages, StageDue(s)
      PROVE  Answers'
  BY <1>49 DEF StageDue, Answers, RequestPlace, ReplyInHand, ReplyIsTrue,
     TypeOK
<1>50. ASSUME NEW s \in Stages, StageChecks(s)
      PROVE  Answers'
  BY <1>50 DEF StageChecks, Answers, RequestPlace, ReplyInHand, ReplyIsTrue,
     TypeOK
<1>11. ASSUME NEW s \in Stages, StageEnds(s)
      PROVE  Answers'
  BY <1>11 DEF StageEnds, Answers, RequestPlace, ReplyInHand, ReplyIsTrue,
     TypeOK
<1>12. ASSUME NEW s \in Stages, NEW fatal \in BOOLEAN, StageReturns(s, fatal)
      PROVE  Answers'
  BY <1>12 DEF StageReturns, Answers, RequestPlace, ReplyInHand, ReplyIsTrue,
     TypeOK
<1>13. CASE ArchiveEnds
  BY <1>13 DEF ArchiveEnds, Answers, RequestPlace, ReplyInHand, ReplyIsTrue,
     TypeOK
<1>14. CASE ArchiveCrashes
  BY <1>14 DEF ArchiveCrashes, Answers, RequestPlace, ReplyInHand,
     ReplyIsTrue, TypeOK
<1>15. CASE Signal
  BY <1>15 DEF Signal, EndProcess, Answers, RequestPlace, ReplyInHand,
     ReplyIsTrue, TypeOK
<1>16. CASE TakeLock
  BY <1>16 DEF TakeLock, Answers, RequestPlace, ReplyInHand, ReplyIsTrue,
     TypeOK
<1>17. CASE Restrict
  BY <1>17 DEF Restrict, Advance, Answers, RequestPlace, ReplyInHand,
     ReplyIsTrue, TypeOK
<1>18. CASE SetEvent
  BY <1>18 DEF SetEvent, Advance, Answers, RequestPlace, ReplyInHand,
     ReplyIsTrue, TypeOK
<1>19. CASE JoinFetch
  BY <1>19 DEF JoinFetch, Advance, Answers, RequestPlace, ReplyInHand,
     ReplyIsTrue, TypeOK
<1>20. CASE CloseQueue
  BY <1>20 DEF CloseQueue, Advance, Answers, RequestPlace, ReplyInHand,
     ReplyIsTrue, TypeOK
<1>21. CASE JoinStages
  BY <1>21 DEF JoinStages, Advance, Answers, RequestPlace, ReplyInHand,
     ReplyIsTrue, TypeOK
<1>22. CASE JoinArchive
  BY <1>22 DEF JoinArchive, Advance, Answers, RequestPlace, ReplyInHand,
     ReplyIsTrue, TypeOK
<1>23. CASE StopWriter
  BY <1>23 DEF StopWriter, Advance, Answers, RequestPlace, ReplyInHand,
     ReplyIsTrue, TypeOK
<1>24. CASE CloseSocket
  BY <1>24 DEF CloseSocket, Advance, Answers, RequestPlace, ReplyInHand,
     ReplyIsTrue, TypeOK
<1>25. CASE PoolShutdown
  BY <1>25 DEF PoolShutdown, Advance, Answers, RequestPlace, ReplyInHand,
     ReplyIsTrue, TypeOK
<1>26. CASE PoolDrained
  BY <1>26 DEF PoolDrained, Advance, Answers, RequestPlace, ReplyInHand,
     ReplyIsTrue, TypeOK
<1>27. CASE Unlink
  BY <1>27 DEF Unlink, Advance, Answers, RequestPlace, ReplyInHand,
     ReplyIsTrue, TypeOK
<1>28. CASE Rest
  BY <1>28 DEF Rest, Advance, Answers, RequestPlace, ReplyInHand, ReplyIsTrue,
     TypeOK
<1>29. CASE GraceOver
  BY <1>29 DEF GraceOver, Answers, RequestPlace, ReplyInHand, ReplyIsTrue,
     TypeOK
<1>30. CASE JoinRaises
  BY <1>30 DEF JoinRaises, Advance, Answers, RequestPlace, ReplyInHand,
     ReplyIsTrue, TypeOK
<1>31. ASSUME NEW c \in Clients, NEW m \in AllCommands, Connect(c, m)
      PROVE  Answers'
  BY <1>31 DEF Connect, Answers, RequestPlace, ReplyInHand, ReplyIsTrue,
     TypeOK
<1>32. ASSUME NEW c \in Clients, Send(c)
      PROVE  Answers'
  BY <1>32 DEF Send, Answers, RequestPlace, ReplyInHand, ReplyIsTrue, TypeOK
<1>33. ASSUME NEW c \in Clients, Leave(c)
      PROVE  Answers'
  BY <1>33 DEF Leave, Answers, RequestPlace, ReplyInHand, ReplyIsTrue, TypeOK
<1>34. ASSUME NEW c \in Clients, Accept(c)
      PROVE  Answers'
  BY <1>34 DEF Accept, HungUp, Backlog, Answers, RequestPlace, ReplyInHand,
     ReplyIsTrue, TypeOK
<1>35. ASSUME NEW c \in Clients, TakeWork(c)
      PROVE  Answers'
  BY <1>35 DEF TakeWork, Answers, RequestPlace, ReplyInHand, ReplyIsTrue,
     TypeOK
<1>36. ASSUME NEW c \in Clients, ReadRequest(c)
      PROVE  Answers'
  BY <1>36 DEF ReadRequest, Refused, Phases, StatusIsShutdown, Answers,
     RequestPlace, ReplyInHand, ReplyIsTrue, TypeOK
<1>37. ASSUME NEW c \in Clients, Reply(c)
      PROVE  Answers'
  BY <1>37 DEF Reply, Answers, RequestPlace, ReplyInHand, ReplyIsTrue, TypeOK
<1>38. ASSUME NEW c \in Clients, NEW r \in {"ok", "error"}, Status(c, r)
      PROVE  Answers'
  BY <1>38 DEF Status, Answer, Answers, RequestPlace, ReplyInHand,
     ReplyIsTrue, TypeOK
<1>39. ASSUME NEW c \in Clients, NEW r \in {"ok", "error"}, Drain(c, r)
      PROVE  Answers'
  BY <1>39 DEF Drain, Answer, Answers, RequestPlace, ReplyInHand, ReplyIsTrue,
     TypeOK
<1>40. ASSUME NEW c \in Clients, NEW m \in {"pause", "resume"}, SetPaused(c, m)
      PROVE  Answers'
  BY <1>40 DEF SetPaused, Answer, Answers, RequestPlace, ReplyInHand,
     ReplyIsTrue, TypeOK
<1>41. ASSUME NEW c \in Clients, ReprocessChunk(c)
      PROVE  Answers'
  BY <1>41 DEF ReprocessChunk, Answers, RequestPlace, ReplyInHand,
     ReplyIsTrue, TypeOK
<1>42. ASSUME NEW c \in Clients, ReprocessEnds(c)
      PROVE  Answers'
  BY <1>42 DEF ReprocessEnds, Answer, Answers, RequestPlace, ReplyInHand,
     ReplyIsTrue, TypeOK
<1>43. ASSUME NEW c \in Clients, RequestShutdown(c)
      PROVE  Answers'
  BY <1>43 DEF RequestShutdown, Answer, Answers, RequestPlace, ReplyInHand,
     ReplyIsTrue, TypeOK
<1>44. CASE AcceptFails
  BY <1>44 DEF AcceptFails, Answers, RequestPlace, ReplyInHand, ReplyIsTrue,
     TypeOK
<1>45. CASE RivalProbe
  BY <1>45 DEF RivalProbe, Answers, RequestPlace, ReplyInHand, ReplyIsTrue,
     TypeOK
<1>46. CASE RivalRecover
  BY <1>46 DEF RivalRecover, Answers, RequestPlace, ReplyInHand, ReplyIsTrue,
     TypeOK
<1>47. CASE RivalBind
  BY <1>47 DEF RivalBind, Answers, RequestPlace, ReplyInHand, ReplyIsTrue,
     TypeOK
<1>48. CASE UNCHANGED vars
  BY <1>48 DEF vars, Answers, RequestPlace, ReplyInHand, ReplyIsTrue, TypeOK
<1> QED
  BY <1>1, <1>2, <1>3, <1>4, <1>5, <1>6, <1>7, <1>8, <1>9, <1>10, <1>11,
     <1>12, <1>13, <1>14, <1>15, <1>16, <1>17, <1>18, <1>19, <1>20, <1>21,
     <1>22, <1>23, <1>24, <1>25, <1>26, <1>27, <1>28, <1>29, <1>30, <1>31,
     <1>32, <1>33, <1>34, <1>35, <1>36, <1>37, <1>38, <1>39, <1>40, <1>41,
     <1>42, <1>43, <1>44, <1>45, <1>46, <1>47, <1>48, <1>49, <1>50,
     HistoryCommands DEF
     Next, StartStep, ShutdownStep, StageStep, Handle

(* What shutdown() has achieved is not undone.                             *)
LEMMA PhasesStep ==
    ASSUME TypeOK, Answers, Phases, [Next]_vars
    PROVE  Phases'
<1> USE DEF start, threads, stopping, server, requests, other, bounds
<1>1. CASE StartWriter
  BY <1>1 DEF StartWriter, Phases, StartIsOver, StatusIsShutdown,
     ShutdownOrder, Handling, TypeOK
<1>2. CASE Build
  BY <1>2 DEF Build, Phases, StartIsOver, StatusIsShutdown, ShutdownOrder,
     Handling, TypeOK
<1>3. CASE Bind
  BY <1>3 DEF Bind, Phases, StartIsOver, StatusIsShutdown, ShutdownOrder,
     Handling, TypeOK
<1>4. CASE Assign
  BY <1>4 DEF Assign, Phases, StartIsOver, StatusIsShutdown, ShutdownOrder,
     Handling, TypeOK
<1>5. ASSUME NEW ok \in BOOLEAN, StartStage(ok)
      PROVE  Phases'
  BY <1>5 DEF StartStage, Phases, StartIsOver, StatusIsShutdown,
     ShutdownOrder, Handling, TypeOK
<1>6. CASE StartArchive
  BY <1>6 DEF StartArchive, Phases, StartIsOver, StatusIsShutdown,
     ShutdownOrder, Handling, TypeOK
<1>7. CASE StartMetrics
  BY <1>7 DEF StartMetrics, Phases, StartIsOver, StatusIsShutdown,
     ShutdownOrder, Handling, TypeOK
<1>8. CASE Exit
  BY <1>8 DEF Exit, EndProcess, Phases, StartIsOver, StatusIsShutdown,
     ShutdownOrder, Handling, TypeOK
<1>9. CASE StartFails
  BY <1>9 DEF StartFails, EndProcess, Phases, StartIsOver, StatusIsShutdown,
     ShutdownOrder, Handling, TypeOK
<1>10. ASSUME NEW s \in Stages, StageBegins(s)
      PROVE  Phases'
  BY <1>10 DEF StageBegins, Phases, StartIsOver, StatusIsShutdown,
     ShutdownOrder, Handling, TypeOK
<1>49. ASSUME NEW s \in Stages, StageDue(s)
      PROVE  Phases'
  BY <1>49 DEF StageDue, Phases, StartIsOver, StatusIsShutdown,
     ShutdownOrder, Handling, TypeOK
<1>50. ASSUME NEW s \in Stages, StageChecks(s)
      PROVE  Phases'
  BY <1>50 DEF StageChecks, Phases, StartIsOver, StatusIsShutdown,
     ShutdownOrder, Handling, TypeOK
<1>11. ASSUME NEW s \in Stages, StageEnds(s)
      PROVE  Phases'
  BY <1>11 DEF StageEnds, Phases, StartIsOver, StatusIsShutdown,
     ShutdownOrder, Handling, TypeOK
<1>12. ASSUME NEW s \in Stages, NEW fatal \in BOOLEAN, StageReturns(s, fatal)
      PROVE  Phases'
  BY <1>12 DEF StageReturns, Phases, StartIsOver, StatusIsShutdown,
     ShutdownOrder, Handling, TypeOK
<1>13. CASE ArchiveEnds
  BY <1>13 DEF ArchiveEnds, Phases, StartIsOver, StatusIsShutdown,
     ShutdownOrder, Handling, TypeOK
<1>14. CASE ArchiveCrashes
  BY <1>14 DEF ArchiveCrashes, Phases, StartIsOver, StatusIsShutdown,
     ShutdownOrder, Handling, TypeOK
<1>15. CASE Signal
  BY <1>15 DEF Signal, EndProcess, Phases, StartIsOver, StatusIsShutdown,
     ShutdownOrder, Handling, TypeOK
<1>16. CASE TakeLock
  BY <1>16 DEF TakeLock, Phases, StartIsOver, StatusIsShutdown, ShutdownOrder,
     Handling, TypeOK
<1>17. CASE Restrict
  BY <1>17 DEF Restrict, Advance, AfterAssign, AfterBuild, Phases,
     StartIsOver, StatusIsShutdown, ShutdownOrder, Handling, TypeOK
<1>18. CASE SetEvent
  BY <1>18 DEF SetEvent, Advance, Phases, StartIsOver, StatusIsShutdown,
     ShutdownOrder, Handling, TypeOK
<1>19. CASE JoinFetch
  BY <1>19 DEF JoinFetch, Advance, Phases, StartIsOver, StatusIsShutdown,
     ShutdownOrder, Handling, TypeOK
<1>20. CASE CloseQueue
  BY <1>20 DEF CloseQueue, Advance, AfterBuild, Phases, StartIsOver,
     StatusIsShutdown, ShutdownOrder, Handling, TypeOK
<1>21. CASE JoinStages
  BY <1>21 DEF JoinStages, Advance, Phases, StartIsOver, StatusIsShutdown,
     ShutdownOrder, Handling, TypeOK
<1>22. CASE JoinArchive
  BY <1>22 DEF JoinArchive, Advance, Phases, StartIsOver, StatusIsShutdown,
     ShutdownOrder, Handling, TypeOK
<1>23. CASE StopWriter
  BY <1>23 DEF StopWriter, Advance, AfterAssign, AfterBuild, Phases,
     StartIsOver, StatusIsShutdown, ShutdownOrder, Handling, TypeOK
<1>24. CASE CloseSocket
  BY <1>24 DEF CloseSocket, Advance, Phases, StartIsOver, StatusIsShutdown,
     ShutdownOrder, Handling, TypeOK
<1>25. CASE PoolShutdown
  BY <1>25 DEF PoolShutdown, Advance, Phases, StartIsOver, StatusIsShutdown,
     ShutdownOrder, Handling, TypeOK
<1>26. CASE PoolDrained
  BY <1>26 DEF PoolDrained, Advance, Phases, StartIsOver, StatusIsShutdown,
     ShutdownOrder, Handling, TypeOK
<1>27. CASE Unlink
  BY <1>27 DEF Unlink, Advance, Phases, StartIsOver, StatusIsShutdown,
     ShutdownOrder, Handling, TypeOK
<1>28. CASE Rest
  BY <1>28 DEF Rest, Advance, Phases, StartIsOver, StatusIsShutdown,
     ShutdownOrder, Handling, TypeOK
<1>29. CASE GraceOver
  BY <1>29 DEF GraceOver, Phases, StartIsOver, StatusIsShutdown,
     ShutdownOrder, Handling, TypeOK
<1>30. CASE JoinRaises
  BY <1>30 DEF JoinRaises, Advance, Phases, StartIsOver, StatusIsShutdown,
     ShutdownOrder, Handling, TypeOK
<1>31. ASSUME NEW c \in Clients, NEW m \in AllCommands, Connect(c, m)
      PROVE  Phases'
  BY <1>31 DEF Connect, Phases, StartIsOver, StatusIsShutdown, ShutdownOrder,
     Handling, TypeOK
<1>32. ASSUME NEW c \in Clients, Send(c)
      PROVE  Phases'
  BY <1>32 DEF Send, Phases, StartIsOver, StatusIsShutdown, ShutdownOrder,
     Handling, TypeOK
<1>33. ASSUME NEW c \in Clients, Leave(c)
      PROVE  Phases'
  BY <1>33 DEF Leave, Phases, StartIsOver, StatusIsShutdown, ShutdownOrder,
     Handling, TypeOK
<1>34. ASSUME NEW c \in Clients, Accept(c)
      PROVE  Phases'
  BY <1>34 DEF Accept, HungUp, Backlog, Phases, StartIsOver, StatusIsShutdown,
     ShutdownOrder, Handling, TypeOK
<1>35. ASSUME NEW c \in Clients, TakeWork(c)
      PROVE  Phases'
  BY <1>35 DEF TakeWork, Phases, StartIsOver, StatusIsShutdown, ShutdownOrder,
     Handling, TypeOK
<1>36. ASSUME NEW c \in Clients, ReadRequest(c)
      PROVE  Phases'
  BY <1>36 DEF ReadRequest, Phases, StartIsOver, StatusIsShutdown,
     ShutdownOrder, Handling, TypeOK
<1>37. ASSUME NEW c \in Clients, Reply(c)
      PROVE  Phases'
  BY <1>37 DEF Reply, Phases, StartIsOver, StatusIsShutdown, ShutdownOrder,
     Handling, TypeOK
<1>38. ASSUME NEW c \in Clients, NEW r \in {"ok", "error"}, Status(c, r)
      PROVE  Phases'
  BY <1>38 DEF Status, Answer, Phases, StartIsOver, StatusIsShutdown,
     ShutdownOrder, Handling, TypeOK
<1>39. ASSUME NEW c \in Clients, NEW r \in {"ok", "error"}, Drain(c, r)
      PROVE  Phases'
  BY <1>39 DEF Drain, Answer, Phases, StartIsOver, StatusIsShutdown,
     ShutdownOrder, Handling, TypeOK
<1>40. ASSUME NEW c \in Clients, NEW m \in {"pause", "resume"}, SetPaused(c, m)
      PROVE  Phases'
  BY <1>40 DEF SetPaused, Answer, Phases, StartIsOver, StatusIsShutdown,
     ShutdownOrder, Handling, TypeOK
<1>41. ASSUME NEW c \in Clients, ReprocessChunk(c)
      PROVE  Phases'
  BY <1>41 DEF ReprocessChunk, Phases, StartIsOver, StatusIsShutdown,
     ShutdownOrder, Handling, TypeOK
<1>42. ASSUME NEW c \in Clients, ReprocessEnds(c)
      PROVE  Phases'
  BY <1>42 DEF ReprocessEnds, Answer, Phases, StartIsOver, StatusIsShutdown,
     ShutdownOrder, Handling, TypeOK
<1>43. ASSUME NEW c \in Clients, RequestShutdown(c)
      PROVE  Phases'
  BY <1>43 DEF RequestShutdown, Answer, Phases, StartIsOver, StatusIsShutdown,
     ShutdownOrder, Handling, TypeOK
<1>44. CASE AcceptFails
  BY <1>44 DEF AcceptFails, Phases, StartIsOver, StatusIsShutdown,
     ShutdownOrder, Handling, TypeOK
<1>45. CASE RivalProbe
  BY <1>45 DEF RivalProbe, AfterBuild, Listening, Phases, StartIsOver,
     StatusIsShutdown, ShutdownOrder, Handling, TypeOK
<1>46. CASE RivalRecover
  BY <1>46 DEF RivalRecover, Phases, StartIsOver, StatusIsShutdown,
     ShutdownOrder, Handling, TypeOK
<1>47. CASE RivalBind
  BY <1>47 DEF RivalBind, Phases, StartIsOver, StatusIsShutdown,
     ShutdownOrder, Handling, TypeOK
<1>48. CASE UNCHANGED vars
  BY <1>48 DEF vars, Phases, StartIsOver, StatusIsShutdown, ShutdownOrder,
     Handling, TypeOK
<1> QED
  BY <1>1, <1>2, <1>3, <1>4, <1>5, <1>6, <1>7, <1>8, <1>9, <1>10, <1>11,
     <1>12, <1>13, <1>14, <1>15, <1>16, <1>17, <1>18, <1>19, <1>20, <1>21,
     <1>22, <1>23, <1>24, <1>25, <1>26, <1>27, <1>28, <1>29, <1>30, <1>31,
     <1>32, <1>33, <1>34, <1>35, <1>36, <1>37, <1>38, <1>39, <1>40, <1>41,
     <1>42, <1>43, <1>44, <1>45, <1>46, <1>47, <1>48, <1>49, <1>50,
     HistoryCommands DEF
     Next, StartStep, ShutdownStep, StageStep, Handle

(* The end of the process pauses and resumes nothing.                      *)
LEMMA EndPauses ==
    ASSUME TypeOK, Pauses, EndProcess
    PROVE  Pauses'
<1>1. \A n \in 1..Len(Order) : Known(Order[n])' => Known(Order[n])
  BY OrderFacts DEF EndProcess, Alive, Known, TypeOK
<1>2. /\ \A c \in Clients : client'[c] \in {"new", "ok"} => client'[c] = client[c]
      /\ paused' = paused /\ cmd' = cmd /\ prog' = prog /\ reply' = reply /\ built' = built
  BY DEF EndProcess, TypeOK
<1>3. \A c \in Clients : \A i \in 1..prog[c] : prog[c] <= built => i \in 1..Len(Order)
  BY OrderFacts, DaemonAssumption DEF TypeOK
<1>4. NewIsBlank'
  BY <1>2 DEF Pauses, NewIsBlank
<1>5. PauseKept'
  BY <1>1, <1>2, <1>3 DEF Pauses, PauseKept
<1> QED
  BY <1>4, <1>5 DEF Pauses

(* A process that ends leaves no thread behind.                            *)
LEMMA EndAlone ==
    ASSUME TypeOK, Alone, EndProcess
    PROVE  Alone'
<1> USE DEF other
<1>1. /\ \A s \in Stages : ~Alive(s)'
      /\ archive' # "run" /\ writer' # "run" /\ mpc' = "gone"
  BY DEF EndProcess, Alive, TypeOK
<1>2. /\ sd' = sd /\ early' = early /\ rival' = rival
      /\ path' = "rival" => path = "rival"
  BY DEF EndProcess, TypeOK
<1> QED
  BY <1>1, <1>2, OrderFacts DEF Alone, EarlyIsShutdown, Joined, Reachable, GoneIsEmpty, ProbeIsRight

(* A stage that was paused stays paused until somebody resumes it.         *)
LEMMA PausesStep ==
    ASSUME TypeOK, Answers, Pauses, [Next]_vars
    PROVE  Pauses'
<1> USE DEF start, threads, stopping, server, requests, other, bounds
<1>1. CASE StartWriter
  BY <1>1 DEF StartWriter, Pauses, PauseKept, NewIsBlank, Known, TypeOK
<1>2. CASE Build
  BY <1>2 DEF Build, Pauses, PauseKept, NewIsBlank, Known, TypeOK
<1>3. CASE Bind
  BY <1>3 DEF Bind, Pauses, PauseKept, NewIsBlank, Known, TypeOK
<1>4. CASE Assign
  BY <1>4 DEF Assign, Pauses, PauseKept, NewIsBlank, Known, TypeOK
<1>5. ASSUME NEW ok \in BOOLEAN, StartStage(ok)
      PROVE  Pauses'
  BY <1>5, OrderFacts DEF StartStage, Pauses, PauseKept, NewIsBlank, Known,
     TypeOK
<1>6. CASE StartArchive
  BY <1>6 DEF StartArchive, Pauses, PauseKept, NewIsBlank, Known, TypeOK
<1>7. CASE StartMetrics
  BY <1>7 DEF StartMetrics, Pauses, PauseKept, NewIsBlank, Known, TypeOK
<1>8. CASE Exit
  BY <1>8, EndPauses DEF Exit
<1>9. CASE StartFails
  BY <1>9, EndPauses DEF StartFails
<1>10. ASSUME NEW s \in Stages, StageBegins(s)
      PROVE  Pauses'
  BY <1>10 DEF StageBegins, Pauses, PauseKept, NewIsBlank, Known, TypeOK
<1>49. ASSUME NEW s \in Stages, StageDue(s)
      PROVE  Pauses'
  BY <1>49 DEF StageDue, Pauses, PauseKept, NewIsBlank, Known, TypeOK
<1>50. ASSUME NEW s \in Stages, StageChecks(s)
      PROVE  Pauses'
  BY <1>50 DEF StageChecks, Pauses, PauseKept, NewIsBlank, Known, TypeOK
<1>11. ASSUME NEW s \in Stages, StageEnds(s)
      PROVE  Pauses'
  BY <1>11 DEF StageEnds, Pauses, PauseKept, NewIsBlank, Known, TypeOK
<1>12. ASSUME NEW s \in Stages, NEW fatal \in BOOLEAN, StageReturns(s, fatal)
      PROVE  Pauses'
  BY <1>12 DEF StageReturns, Pauses, PauseKept, NewIsBlank, Known, TypeOK
<1>13. CASE ArchiveEnds
  BY <1>13 DEF ArchiveEnds, Pauses, PauseKept, NewIsBlank, Known, TypeOK
<1>14. CASE ArchiveCrashes
  BY <1>14 DEF ArchiveCrashes, Pauses, PauseKept, NewIsBlank, Known, TypeOK
<1>15. CASE Signal
  <2>1. CASE sd # "none"
    BY <1>15, <2>1, EndPauses DEF Signal
  <2>2. CASE sd = "none"
    BY <1>15, <2>2 DEF Signal, Pauses, PauseKept, NewIsBlank, Known, TypeOK
  <2> QED
    BY <2>1, <2>2
<1>16. CASE TakeLock
  BY <1>16 DEF TakeLock, Pauses, PauseKept, NewIsBlank, Known, TypeOK
<1>17. CASE Restrict
  BY <1>17 DEF Restrict, Advance, Pauses, PauseKept, NewIsBlank, Known, TypeOK
<1>18. CASE SetEvent
  BY <1>18 DEF SetEvent, Advance, Pauses, PauseKept, NewIsBlank, Known, TypeOK
<1>19. CASE JoinFetch
  BY <1>19 DEF JoinFetch, Advance, Pauses, PauseKept, NewIsBlank, Known,
     TypeOK
<1>20. CASE CloseQueue
  BY <1>20 DEF CloseQueue, Advance, Pauses, PauseKept, NewIsBlank, Known,
     TypeOK
<1>21. CASE JoinStages
  BY <1>21 DEF JoinStages, Advance, Pauses, PauseKept, NewIsBlank, Known,
     TypeOK
<1>22. CASE JoinArchive
  BY <1>22 DEF JoinArchive, Advance, Pauses, PauseKept, NewIsBlank, Known,
     TypeOK
<1>23. CASE StopWriter
  BY <1>23 DEF StopWriter, Advance, Pauses, PauseKept, NewIsBlank, Known,
     TypeOK
<1>24. CASE CloseSocket
  BY <1>24 DEF CloseSocket, Advance, Pauses, PauseKept, NewIsBlank, Known,
     TypeOK
<1>25. CASE PoolShutdown
  BY <1>25 DEF PoolShutdown, Advance, Pauses, PauseKept, NewIsBlank, Known,
     TypeOK
<1>26. CASE PoolDrained
  BY <1>26 DEF PoolDrained, Advance, Pauses, PauseKept, NewIsBlank, Known,
     TypeOK
<1>27. CASE Unlink
  BY <1>27 DEF Unlink, Advance, Pauses, PauseKept, NewIsBlank, Known, TypeOK
<1>28. CASE Rest
  BY <1>28 DEF Rest, Advance, Pauses, PauseKept, NewIsBlank, Known, TypeOK
<1>29. CASE GraceOver
  BY <1>29 DEF GraceOver, Pauses, PauseKept, NewIsBlank, Known, TypeOK
<1>30. CASE JoinRaises
  BY <1>30 DEF JoinRaises, Advance, Pauses, PauseKept, NewIsBlank, Known,
     TypeOK
<1>31. ASSUME NEW c \in Clients, NEW m \in AllCommands, Connect(c, m)
      PROVE  Pauses'
  <2>1. /\ client[c] = "new" /\ reply[c] = "none" /\ cmd[c] = "status"
    BY <1>31 DEF Connect, Answers, RequestPlace, Pauses, NewIsBlank, TypeOK
  <2>2. /\ client' = [client EXCEPT ![c] = client'[c]]
        /\ client'[c] \in {"open", "nodaemon"}
        /\ cmd' = [cmd EXCEPT ![c] = m]
        /\ UNCHANGED <<stage, paused, built, prog, reply>>
    BY <1>31 DEF Connect, TypeOK
  <2>3. NewIsBlank'
    BY <2>2 DEF Pauses, NewIsBlank, TypeOK
  <2>4. (\A d \in Clients : cmd'[d] # "resume") => \A d \in Clients : cmd[d] # "resume"
    BY <2>1, <2>2 DEF TypeOK
  <2>5. \A d \in Clients :
           client'[d] = "ok" \/ reply'[d] = "ok" =>
              /\ client[d] = "ok" \/ reply[d] = "ok"
              /\ cmd'[d] = cmd[d]
    BY <2>1, <2>2 DEF TypeOK
  <2>6. PauseKept'
    BY <2>2, <2>4, <2>5 DEF Pauses, PauseKept, Known
  <2> QED
    BY <2>3, <2>6 DEF Pauses
<1>32. ASSUME NEW c \in Clients, Send(c)
      PROVE  Pauses'
  BY <1>32 DEF Send, Pauses, PauseKept, NewIsBlank, Known, TypeOK
<1>33. ASSUME NEW c \in Clients, Leave(c)
      PROVE  Pauses'
  BY <1>33 DEF Leave, Pauses, PauseKept, NewIsBlank, Known, TypeOK
<1>34. ASSUME NEW c \in Clients, Accept(c)
      PROVE  Pauses'
  BY <1>34 DEF Accept, HungUp, Backlog, Pauses, PauseKept, NewIsBlank, Known,
     TypeOK
<1>35. ASSUME NEW c \in Clients, TakeWork(c)
      PROVE  Pauses'
  BY <1>35 DEF TakeWork, Pauses, PauseKept, NewIsBlank, Known, TypeOK
<1>36. ASSUME NEW c \in Clients, ReadRequest(c)
      PROVE  Pauses'
  BY <1>36 DEF ReadRequest, Pauses, PauseKept, NewIsBlank, Known, TypeOK
<1>37. ASSUME NEW c \in Clients, Reply(c)
      PROVE  Pauses'
  BY <1>37 DEF Reply, Answers, RequestPlace, Pauses, PauseKept, NewIsBlank,
     Known, TypeOK
<1>38. ASSUME NEW c \in Clients, NEW r \in {"ok", "error"}, Status(c, r)
      PROVE  Pauses'
  BY <1>38 DEF Status, Answer, Pauses, PauseKept, NewIsBlank, Known, TypeOK
<1>39. ASSUME NEW c \in Clients, NEW r \in {"ok", "error"}, Drain(c, r)
      PROVE  Pauses'
  <2>1. /\ conn[c] = "working" /\ cmd[c] = "drain"
        /\ reply' = [reply EXCEPT ![c] = r]
        /\ client' = client /\ cmd' = cmd /\ stage' = stage /\ built' = built
    BY <1>39 DEF Drain, Answer
  <2>2. PICK n \in (IF r = "ok" THEN {built} ELSE 1..built) :
           /\ prog' = [prog EXCEPT ![c] = n]
           /\ paused' = [s \in Stages |-> paused[s] \/ \E i \in 1..n : Order[i] = s /\ Known(s)]
    BY <1>39 DEF Drain
  <2>3. NewIsBlank'
    BY <2>1 DEF Pauses, NewIsBlank
  <2>4. ASSUME \A d \in Clients : cmd'[d] # "resume",
               NEW d \in Clients, client'[d] = "ok" \/ reply'[d] = "ok"
        PROVE  /\ cmd'[d] = "pause" => paused'[Fetch]
               /\ cmd'[d] = "drain" =>
                     /\ prog'[d] <= built'
                     /\ \A i \in 1..prog'[d] : Known(Order[i])' => paused'[Order[i]]
    <3>1. CASE d = c
      <4>1. client[c] # "ok" /\ r = "ok"
        BY <2>1, <2>4, <3>1 DEF Answers, RequestPlace, TypeOK
      <4>2. n = built /\ prog'[c] = built /\ built <= Len(Order)
        BY <2>2, <4>1, OrderFacts DEF TypeOK
      <4>3. \A i \in 1..built : Order[i] \in Stages
        BY <4>2, OrderFacts DEF TypeOK
      <4>4. \A i \in 1..built : Known(Order[i]) => paused'[Order[i]]
        BY <2>2, <4>2, <4>3
      <4>5. \A i \in 1..built : Known(Order[i])' => Known(Order[i])
        BY <2>1 DEF Known
      <4>6. cmd'[c] = "drain"
        BY <2>1
      <4>7. built \in Nat
        BY OrderFacts DEF TypeOK
      <4> QED
        BY <2>1, <3>1, <4>2, <4>4, <4>5, <4>6, <4>7
    <3>2. CASE d # c
      <4>1. /\ client[d] = "ok" \/ reply[d] = "ok"
            /\ cmd'[d] = cmd[d] /\ prog'[d] = prog[d] /\ built' = built
            /\ \A e \in Clients : cmd[e] # "resume"
        BY <2>1, <2>2, <2>4, <3>2 DEF TypeOK
      <4>2. /\ cmd[d] = "pause" => paused[Fetch]
            /\ cmd[d] = "drain" =>
                  /\ prog[d] <= built
                  /\ \A i \in 1..prog[d] : Known(Order[i]) => paused[Order[i]]
        BY <4>1 DEF Pauses, PauseKept
      <4>3. \A s \in Stages : paused[s] => paused'[s]
        BY <2>2
      <4>4. \A i \in 1..prog[d] : prog[d] <= built => Order[i] \in Stages
        BY OrderFacts, DaemonAssumption DEF TypeOK
      <4>5. \A i \in 1..prog[d] : Known(Order[i])' => Known(Order[i])
        BY <2>1 DEF Known
      <4> QED
        BY <4>1, <4>2, <4>3, <4>4, <4>5, OrderFacts
    <3> QED
      BY <3>1, <3>2
  <2>5. PauseKept'
    BY <2>4 DEF PauseKept
  <2> QED
    BY <2>3, <2>5 DEF Pauses
<1>40. ASSUME NEW c \in Clients, NEW m \in {"pause", "resume"}, SetPaused(c, m)
      PROVE  Pauses'
  <2>1. /\ conn[c] = "working" /\ cmd[c] = m
        /\ reply' = [reply EXCEPT ![c] = IF Known(Fetch) THEN "ok" ELSE "error"]
        /\ client' = client /\ cmd' = cmd /\ stage' = stage /\ built' = built /\ prog' = prog
    BY <1>40 DEF SetPaused, Answer
  <2>2. NewIsBlank'
    BY <2>1 DEF Pauses, NewIsBlank
  <2>3. ASSUME \A d \in Clients : cmd[d] # "resume"
        PROVE  /\ \A s \in Stages : paused[s] => paused'[s]
               /\ Known(Fetch) => paused'[Fetch]
    <3>1. m = "pause"
      BY <2>1, <2>3
    <3>2. \A s \in Stages : s # Fetch => paused'[s] = paused[s]
      BY <1>40 DEF SetPaused, TypeOK
    <3>3. paused'[Fetch] = IF Known(Fetch) THEN m = "pause" ELSE paused[Fetch]
      BY <1>40, OrderFacts, Zenon DEF SetPaused, TypeOK
    <3>4. Known(Fetch) => paused'[Fetch]
      BY <3>1, <3>3, Zenon
    <3>5. ~Known(Fetch) => paused'[Fetch] = paused[Fetch]
      BY <3>3, Zenon
    <3> QED
      BY <3>2, <3>4, <3>5
  <2>4. \A d \in Clients : \A i \in 1..prog[d] : prog[d] <= built => Order[i] \in Stages
    BY OrderFacts, DaemonAssumption DEF TypeOK
  <2>5. \A d \in Clients : reply'[d] = "ok" => reply[d] = "ok" \/ (d = c /\ Known(Fetch))
    BY <2>1 DEF TypeOK
  <2>6. \A d \in Clients : d = c => cmd[d] = m
    BY <2>1
  <2>7. Known(Fetch)' <=> Known(Fetch)
    BY <2>1 DEF Known
  <2>8. \A n \in 1..Len(Order) : Known(Order[n])' => Known(Order[n])
    BY <2>1 DEF Known
  <2>9. \A d \in Clients : \A i \in 1..prog[d] : prog[d] <= built => i \in 1..Len(Order)
    BY OrderFacts, DaemonAssumption DEF TypeOK
  <2>10. PauseKept'
    BY <2>1, <2>3, <2>4, <2>5, <2>6, <2>8, <2>9, OrderFacts DEF Pauses, PauseKept
  <2> QED
    BY <2>2, <2>10 DEF Pauses
<1>41. ASSUME NEW c \in Clients, ReprocessChunk(c)
      PROVE  Pauses'
  BY <1>41 DEF ReprocessChunk, Pauses, PauseKept, NewIsBlank, Known, TypeOK
<1>42. ASSUME NEW c \in Clients, ReprocessEnds(c)
      PROVE  Pauses'
  BY <1>42 DEF ReprocessEnds, Answer, Pauses, PauseKept, NewIsBlank, Known,
     TypeOK
<1>43. ASSUME NEW c \in Clients, RequestShutdown(c)
      PROVE  Pauses'
  BY <1>43 DEF RequestShutdown, Answer, Pauses, PauseKept, NewIsBlank, Known,
     TypeOK
<1>44. CASE AcceptFails
  BY <1>44 DEF AcceptFails, Pauses, PauseKept, NewIsBlank, Known, TypeOK
<1>45. CASE RivalProbe
  BY <1>45 DEF RivalProbe, Pauses, PauseKept, NewIsBlank, Known, TypeOK
<1>46. CASE RivalRecover
  BY <1>46 DEF RivalRecover, Pauses, PauseKept, NewIsBlank, Known, TypeOK
<1>47. CASE RivalBind
  BY <1>47 DEF RivalBind, Pauses, PauseKept, NewIsBlank, Known, TypeOK
<1>48. CASE UNCHANGED vars
  BY <1>48 DEF vars, Pauses, PauseKept, NewIsBlank, Known, TypeOK
<1> QED
  BY <1>1, <1>2, <1>3, <1>4, <1>5, <1>6, <1>7, <1>8, <1>9, <1>10, <1>11,
     <1>12, <1>13, <1>14, <1>15, <1>16, <1>17, <1>18, <1>19, <1>20, <1>21,
     <1>22, <1>23, <1>24, <1>25, <1>26, <1>27, <1>28, <1>29, <1>30, <1>31,
     <1>32, <1>33, <1>34, <1>35, <1>36, <1>37, <1>38, <1>39, <1>40, <1>41,
     <1>42, <1>43, <1>44, <1>45, <1>46, <1>47, <1>48, <1>49, <1>50,
     HistoryCommands DEF
     Next, StartStep, ShutdownStep, StageStep, Handle

(* What is left of this daemon when another one probes it.                 *)
LEMMA AloneStep ==
    ASSUME TypeOK, Phases, Alone, [Next]_vars
    PROVE  Alone'
<1> USE DEF start, threads, stopping, server, requests, other, bounds
<1>1. CASE StartWriter
  BY <1>1 DEF StartWriter, Phases, StartIsOver, Alone, EarlyIsShutdown,
     Joined, Ending, Reachable, Closing, GoneIsEmpty, ProbeIsRight, Alive,
     TypeOK
<1>2. CASE Build
  BY <1>2 DEF Build, Alone, EarlyIsShutdown, Joined, Ending, Reachable,
     Closing, GoneIsEmpty, ProbeIsRight, Alive, TypeOK
<1>3. CASE Bind
  BY <1>3 DEF Bind, Alone, EarlyIsShutdown, Joined, Ending, Reachable,
     Closing, GoneIsEmpty, ProbeIsRight, Alive, TypeOK
<1>4. CASE Assign
  BY <1>4 DEF Assign, Alone, EarlyIsShutdown, Joined, Ending, Reachable,
     Closing, GoneIsEmpty, ProbeIsRight, Alive, TypeOK
<1>5. ASSUME NEW ok \in BOOLEAN, StartStage(ok)
      PROVE  Alone'
  BY <1>5, OrderFacts DEF StartStage, Phases, StartIsOver, Alone,
     EarlyIsShutdown, Joined, Ending, Reachable, Closing, GoneIsEmpty,
     ProbeIsRight, Alive, TypeOK
<1>6. CASE StartArchive
  BY <1>6 DEF StartArchive, Phases, StartIsOver, Alone, EarlyIsShutdown,
     Joined, Ending, Reachable, Closing, GoneIsEmpty, ProbeIsRight, Alive,
     TypeOK
<1>7. CASE StartMetrics
  BY <1>7 DEF StartMetrics, Alone, EarlyIsShutdown, Joined, Ending, Reachable,
     Closing, GoneIsEmpty, ProbeIsRight, Alive, TypeOK
<1>8. CASE Exit
  BY <1>8, EndAlone DEF Exit
<1>9. CASE StartFails
  BY <1>9, EndAlone DEF StartFails
<1>10. ASSUME NEW s \in Stages, StageBegins(s)
      PROVE  Alone'
  BY <1>10 DEF StageBegins, Alone, EarlyIsShutdown, Joined, Ending, Reachable,
     Closing, GoneIsEmpty, ProbeIsRight, Alive, TypeOK
<1>49. ASSUME NEW s \in Stages, StageDue(s)
      PROVE  Alone'
  BY <1>49 DEF StageDue, Alone, EarlyIsShutdown, Joined, Ending, Reachable,
     Closing, GoneIsEmpty, ProbeIsRight, Alive, TypeOK
<1>50. ASSUME NEW s \in Stages, StageChecks(s)
      PROVE  Alone'
  BY <1>50 DEF StageChecks, Alone, EarlyIsShutdown, Joined, Ending, Reachable,
     Closing, GoneIsEmpty, ProbeIsRight, Alive, TypeOK
<1>11. ASSUME NEW s \in Stages, StageEnds(s)
      PROVE  Alone'
  BY <1>11 DEF StageEnds, Alone, EarlyIsShutdown, Joined, Ending, Reachable,
     Closing, GoneIsEmpty, ProbeIsRight, Alive, TypeOK
<1>12. ASSUME NEW s \in Stages, NEW fatal \in BOOLEAN, StageReturns(s, fatal)
      PROVE  Alone'
  BY <1>12 DEF StageReturns, Alone, EarlyIsShutdown, Joined, Ending,
     Reachable, Closing, GoneIsEmpty, ProbeIsRight, Alive, TypeOK
<1>13. CASE ArchiveEnds
  BY <1>13 DEF ArchiveEnds, Alone, EarlyIsShutdown, Joined, Ending, Reachable,
     Closing, GoneIsEmpty, ProbeIsRight, Alive, TypeOK
<1>14. CASE ArchiveCrashes
  BY <1>14 DEF ArchiveCrashes, Alone, EarlyIsShutdown, Joined, Ending,
     Reachable, Closing, GoneIsEmpty, ProbeIsRight, Alive, TypeOK
<1>15. CASE Signal
  <2>1. CASE sd # "none"
    BY <1>15, <2>1, EndAlone DEF Signal
  <2>2. CASE sd = "none"
    BY <1>15, <2>2 DEF Signal, Alone, EarlyIsShutdown, Joined, Ending, Reachable, Closing,
       GoneIsEmpty, ProbeIsRight, Alive, TypeOK
  <2> QED
    BY <2>1, <2>2
<1>16. CASE TakeLock
  BY <1>16 DEF TakeLock, Alone, EarlyIsShutdown, Joined, Ending, Reachable,
     Closing, GoneIsEmpty, ProbeIsRight, Alive, TypeOK
<1>17. CASE Restrict
  BY <1>17 DEF Restrict, Advance, Alone, EarlyIsShutdown, Joined, Ending,
     Reachable, Closing, GoneIsEmpty, ProbeIsRight, Alive, TypeOK
<1>18. CASE SetEvent
  BY <1>18 DEF SetEvent, Advance, Alone, EarlyIsShutdown, Joined, Ending,
     Reachable, Closing, GoneIsEmpty, ProbeIsRight, Alive, TypeOK
<1>19. CASE JoinFetch
  BY <1>19, OrderFacts DEF JoinFetch, Advance, Alone, EarlyIsShutdown, Joined,
     Ending, Reachable, Closing, GoneIsEmpty, ProbeIsRight, Alive, TypeOK
<1>20. CASE CloseQueue
  BY <1>20 DEF CloseQueue, Advance, AfterBuild, Alone, EarlyIsShutdown,
     Joined, Ending, Reachable, Closing, GoneIsEmpty, ProbeIsRight, Alive,
     TypeOK
<1>21. CASE JoinStages
  BY <1>21, OrderFacts DEF JoinStages, Advance, Alone, EarlyIsShutdown,
     Joined, Ending, Reachable, Closing, GoneIsEmpty, ProbeIsRight, Alive,
     TypeOK
<1>22. CASE JoinArchive
  BY <1>22 DEF JoinArchive, Advance, Alone, EarlyIsShutdown, Joined, Ending,
     Reachable, Closing, GoneIsEmpty, ProbeIsRight, Alive, TypeOK
<1>23. CASE StopWriter
  BY <1>23 DEF StopWriter, Advance, AfterAssign, AfterBuild, Alone,
     EarlyIsShutdown, Joined, Ending, Reachable, Closing, GoneIsEmpty,
     ProbeIsRight, Alive, TypeOK
<1>24. CASE CloseSocket
  BY <1>24 DEF CloseSocket, Advance, Alone, EarlyIsShutdown, Joined, Ending,
     Reachable, Closing, GoneIsEmpty, ProbeIsRight, Alive, TypeOK
<1>25. CASE PoolShutdown
  BY <1>25 DEF PoolShutdown, Advance, Alone, EarlyIsShutdown, Joined, Ending,
     Reachable, Closing, GoneIsEmpty, ProbeIsRight, Alive, TypeOK
<1>26. CASE PoolDrained
  BY <1>26 DEF PoolDrained, Advance, Alone, EarlyIsShutdown, Joined, Ending,
     Reachable, Closing, GoneIsEmpty, ProbeIsRight, Alive, TypeOK
<1>27. CASE Unlink
  BY <1>27 DEF Unlink, Advance, Alone, EarlyIsShutdown, Joined, Ending,
     Reachable, Closing, GoneIsEmpty, ProbeIsRight, Alive, TypeOK
<1>28. CASE Rest
  BY <1>28 DEF Rest, Advance, Alone, EarlyIsShutdown, Joined, Ending,
     Reachable, Closing, GoneIsEmpty, ProbeIsRight, Alive, TypeOK
<1>29. CASE GraceOver
  BY <1>29 DEF GraceOver, Alone, EarlyIsShutdown, Joined, Ending, Reachable,
     Closing, GoneIsEmpty, ProbeIsRight, Alive, TypeOK
<1>30. CASE JoinRaises
  BY <1>30 DEF JoinRaises, Advance, Alone, EarlyIsShutdown, Joined, Ending,
     Reachable, Closing, GoneIsEmpty, ProbeIsRight, Alive, TypeOK
<1>31. ASSUME NEW c \in Clients, NEW m \in AllCommands, Connect(c, m)
      PROVE  Alone'
  BY <1>31 DEF Connect, Alone, EarlyIsShutdown, Joined, Ending, Reachable,
     Closing, GoneIsEmpty, ProbeIsRight, Alive, TypeOK
<1>32. ASSUME NEW c \in Clients, Send(c)
      PROVE  Alone'
  BY <1>32 DEF Send, Alone, EarlyIsShutdown, Joined, Ending, Reachable,
     Closing, GoneIsEmpty, ProbeIsRight, Alive, TypeOK
<1>33. ASSUME NEW c \in Clients, Leave(c)
      PROVE  Alone'
  BY <1>33 DEF Leave, Alone, EarlyIsShutdown, Joined, Ending, Reachable,
     Closing, GoneIsEmpty, ProbeIsRight, Alive, TypeOK
<1>34. ASSUME NEW c \in Clients, Accept(c)
      PROVE  Alone'
  BY <1>34 DEF Accept, Alone, EarlyIsShutdown, Joined, Ending, Reachable,
     Closing, GoneIsEmpty, ProbeIsRight, Alive, TypeOK
<1>35. ASSUME NEW c \in Clients, TakeWork(c)
      PROVE  Alone'
  BY <1>35 DEF TakeWork, Alone, EarlyIsShutdown, Joined, Ending, Reachable,
     Closing, GoneIsEmpty, ProbeIsRight, Alive, TypeOK
<1>36. ASSUME NEW c \in Clients, ReadRequest(c)
      PROVE  Alone'
  BY <1>36 DEF ReadRequest, Alone, EarlyIsShutdown, Joined, Ending, Reachable,
     Closing, GoneIsEmpty, ProbeIsRight, Alive, TypeOK
<1>37. ASSUME NEW c \in Clients, Reply(c)
      PROVE  Alone'
  BY <1>37 DEF Reply, Alone, EarlyIsShutdown, Joined, Ending, Reachable,
     Closing, GoneIsEmpty, ProbeIsRight, Alive, TypeOK
<1>38. ASSUME NEW c \in Clients, NEW r \in {"ok", "error"}, Status(c, r)
      PROVE  Alone'
  BY <1>38 DEF Status, Answer, Alone, EarlyIsShutdown, Joined, Ending,
     Reachable, Closing, GoneIsEmpty, ProbeIsRight, Alive, TypeOK
<1>39. ASSUME NEW c \in Clients, NEW r \in {"ok", "error"}, Drain(c, r)
      PROVE  Alone'
  BY <1>39 DEF Drain, Answer, Alone, EarlyIsShutdown, Joined, Ending,
     Reachable, Closing, GoneIsEmpty, ProbeIsRight, Alive, TypeOK
<1>40. ASSUME NEW c \in Clients, NEW m \in {"pause", "resume"}, SetPaused(c, m)
      PROVE  Alone'
  BY <1>40 DEF SetPaused, Answer, Alone, EarlyIsShutdown, Joined, Ending,
     Reachable, Closing, GoneIsEmpty, ProbeIsRight, Alive, TypeOK
<1>41. ASSUME NEW c \in Clients, ReprocessChunk(c)
      PROVE  Alone'
  BY <1>41 DEF ReprocessChunk, Alone, EarlyIsShutdown, Joined, Ending,
     Reachable, Closing, GoneIsEmpty, ProbeIsRight, Alive, TypeOK
<1>42. ASSUME NEW c \in Clients, ReprocessEnds(c)
      PROVE  Alone'
  BY <1>42 DEF ReprocessEnds, Answer, Alone, EarlyIsShutdown, Joined, Ending,
     Reachable, Closing, GoneIsEmpty, ProbeIsRight, Alive, TypeOK
<1>43. ASSUME NEW c \in Clients, RequestShutdown(c)
      PROVE  Alone'
  BY <1>43 DEF RequestShutdown, Answer, Alone, EarlyIsShutdown, Joined,
     Ending, Reachable, Closing, GoneIsEmpty, ProbeIsRight, Alive, TypeOK
<1>44. CASE AcceptFails
  BY <1>44 DEF AcceptFails, Alone, EarlyIsShutdown, Joined, Ending, Reachable,
     Closing, GoneIsEmpty, ProbeIsRight, Alive, TypeOK
<1>45. CASE RivalProbe
  BY <1>45 DEF RivalProbe, AfterBuild, Listening, Alone, EarlyIsShutdown,
     Joined, Ending, Reachable, Closing, GoneIsEmpty, ProbeIsRight, Alive,
     TypeOK
<1>46. CASE RivalRecover
  BY <1>46 DEF RivalRecover, Alone, EarlyIsShutdown, Joined, Ending,
     Reachable, Closing, GoneIsEmpty, ProbeIsRight, Alive, TypeOK
<1>47. CASE RivalBind
  BY <1>47 DEF RivalBind, Alone, EarlyIsShutdown, Joined, Ending, Reachable,
     Closing, GoneIsEmpty, ProbeIsRight, Alive, TypeOK
<1>48. CASE UNCHANGED vars
  BY <1>48 DEF vars, Alone, EarlyIsShutdown, Joined, Ending, Reachable,
     Closing, GoneIsEmpty, ProbeIsRight, Alive, TypeOK
<1> QED
  BY <1>1, <1>2, <1>3, <1>4, <1>5, <1>6, <1>7, <1>8, <1>9, <1>10, <1>11,
     <1>12, <1>13, <1>14, <1>15, <1>16, <1>17, <1>18, <1>19, <1>20, <1>21,
     <1>22, <1>23, <1>24, <1>25, <1>26, <1>27, <1>28, <1>29, <1>30, <1>31,
     <1>32, <1>33, <1>34, <1>35, <1>36, <1>37, <1>38, <1>39, <1>40, <1>41,
     <1>42, <1>43, <1>44, <1>45, <1>46, <1>47, <1>48, <1>49, <1>50,
     HistoryCommands DEF
     Next, StartStep, ShutdownStep, StageStep, Handle

(* The invariant holds in every reachable state of the daemon.             *)
THEOREM DaemonInvariant == Spec => []DaemonIInv
<1>1. DaemonIInv /\ [Next]_vars => DaemonIInv'
  BY TypeStep, AnswersStep, PhasesStep, PausesStep, AloneStep DEF DaemonIInv
<1> QED
  BY InitInv, <1>1, PTL DEF Spec

(* The variables keep their types, and what a client is told is what       *)
(* happened (control.py, the handlers of service.py): "ok" to a reprocess  *)
(* means that every chunk is committed, although shutdown() may stop the   *)
(* writer between two of them.                                             *)
THEOREM DaemonTellsTruth == Spec => []DaemonInv
<1>1. DaemonIInv => DaemonInv
  BY DEF DaemonIInv, Answers, DaemonInv
<1> QED
  BY DaemonInvariant, <1>1, PTL

(* A shutdown() that began after start() had returned ends with the writer *)
(* stopped, no handler at work and no socket file of its own, whatever     *)
(* clients, signals and another `run` do meanwhile.                        *)
THEOREM DaemonCleanExit == Spec => []CleanExit
<1>1. DaemonIInv => CleanExit
  BY DEF DaemonIInv, Phases, ShutdownOrder, CleanExit
<1> QED
  BY DaemonInvariant, <1>1, PTL

(* StageLoop.run_once reads _paused: the one step that takes a stage past  *)
(* the check.                                                              *)
LEMMA OnlyUnpausedPasses ==
    ASSUME TypeOK, Next, NEW s \in Stages, stage[s] # "checked", stage'[s] = "checked"
    PROVE  ~paused[s] /\ stage[s] = "due"
<1> USE DEF threads
<1>1. CASE StartStep
  BY <1>1, OrderFacts DEF StartStep, StartWriter, Build, Bind, Assign, StartStage, StartArchive,
     StartMetrics, Exit, EndProcess, Alive, TypeOK
<1>2. CASE StartFails
  BY <1>2 DEF StartFails, EndProcess, Alive
<1>3. ASSUME NEW r \in Stages, StageStep(r)
      PROVE  ~paused[s] /\ stage[s] = "due"
  BY <1>3 DEF StageStep, StageDue, StageChecks, StageBegins, StageEnds, StageReturns, TypeOK
<1>4. CASE ArchiveEnds \/ ArchiveCrashes
  BY <1>4 DEF ArchiveEnds, ArchiveCrashes
<1>5. CASE Signal
  BY <1>5 DEF Signal, EndProcess, Alive
<1>6. CASE ShutdownStep \/ JoinRaises
  BY <1>6 DEF ShutdownStep, TakeLock, Restrict, SetEvent, JoinFetch, CloseQueue, JoinStages,
     JoinArchive, StopWriter, CloseSocket, PoolShutdown, PoolDrained, Unlink, Rest, GraceOver,
     JoinRaises, Advance
<1>7. ASSUME NEW c \in Clients,
             \/ \E m \in history.commands[c] : Connect(c, m)
             \/ Send(c) \/ Leave(c)
             \/ Accept(c) \/ TakeWork(c) \/ ReadRequest(c) \/ Reply(c)
      PROVE  ~paused[s] /\ stage[s] = "due"
  BY <1>7 DEF Connect, Send, Leave, Accept, TakeWork, ReadRequest, Reply
<1>8. ASSUME NEW c \in Clients, Handle(c)
      PROVE  ~paused[s] /\ stage[s] = "due"
  BY <1>8 DEF Handle, Status, Drain, SetPaused, ReprocessChunk, ReprocessEnds, RequestShutdown,
     Answer
<1>9. CASE AcceptFails \/ RivalProbe \/ RivalRecover \/ RivalBind
  BY <1>9 DEF AcceptFails, RivalProbe, RivalRecover, RivalBind
<1> QED
  BY <1>1, <1>2, <1>3, <1>4, <1>5, <1>6, <1>7, <1>8, <1>9 DEF Next

(* What PauseHolds says of one step.                                       *)
PauseStep ==
    (\A d \in Clients : cmd[d] # "resume") =>
        \A c \in Clients, s \in Stages :
            /\ client[c] = "ok"
            /\ \/ cmd[c] = "pause" /\ s = Fetch
               \/ cmd[c] = "drain" /\ \E i \in 1..prog[c] : Order[i] = s
            => ~(stage[s] # "checked" /\ stage'[s] = "checked")

LEMMA PauseHoldsStep ==
    ASSUME DaemonIInv, [Next]_vars
    PROVE  PauseStep
<1> SUFFICES ASSUME \A d \in Clients : cmd[d] # "resume",
                    NEW c \in Clients, NEW s \in Stages, client[c] = "ok",
                    \/ cmd[c] = "pause" /\ s = Fetch
                    \/ cmd[c] = "drain" /\ \E i \in 1..prog[c] : Order[i] = s,
                    stage[s] # "checked", stage'[s] = "checked"
             PROVE  FALSE
  BY DEF PauseStep
<1>1. Next
  BY DEF vars, threads
<1>2. ~paused[s] /\ stage[s] = "due"
  BY <1>1, OnlyUnpausedPasses DEF DaemonIInv
<1>3. paused[s]
  BY <1>2 DEF DaemonIInv, Pauses, PauseKept, Known
<1> QED
  BY <1>2, <1>3

(* A stage that `pause` or `drain` was confirmed for passes the check of   *)
(* _paused no more until somebody resumes it (StageLoop.pause, the drain   *)
(* handler of service.py), however its thread, start() and other commands  *)
(* interleave: at most the iteration that was past it already begins.      *)
THEOREM DaemonPauseHolds == Spec => PauseHolds
<1>1. DaemonIInv /\ [Next]_vars => [PauseStep]_vars
  BY PauseHoldsStep
<1>2. [PauseStep]_vars =>
        [(\A d \in Clients : cmd[d] # "resume") =>
            \A c \in Clients, s \in Stages :
                /\ client[c] = "ok"
                /\ \/ cmd[c] = "pause" /\ s = Fetch
                   \/ cmd[c] = "drain" /\ \E i \in 1..prog[c] : Order[i] = s
                => ~(stage[s] # "checked" /\ stage'[s] = "checked")]_vars
  BY DEF PauseStep
<1> QED
  BY DaemonInvariant, <1>1, <1>2, PTL DEF Spec, PauseHolds

(* A rival that goes on to recovery after a probe finds no thread of this  *)
(* daemon at work (_socket_is_live in cli.py), unless it probed before the *)
(* socket was bound, the grace period ran out or the shutdown began inside *)
(* start().                                                                *)
THEOREM DaemonRecoveryAlone == Spec => RecoveryAlone
<1>1. ASSUME DaemonIInv, rival = "probed", ~blind, ~late, ~early
      PROVE  /\ \A s \in Stages : ~Alive(s)
             /\ archive # "run"
             /\ writer # "run"
  BY <1>1 DEF DaemonIInv, Alone, ProbeIsRight, Closing, GoneIsEmpty, Joined, Ending, Phases,
     ShutdownOrder
<1>2. DaemonIInv =>
        [rival = "probed" /\ rival' = "recovered" /\ ~blind /\ ~late /\ ~early =>
            /\ \A s \in Stages : ~Alive(s)
            /\ archive # "run"
            /\ writer # "run"]_vars
  BY <1>1
<1> QED
  BY DaemonInvariant, <1>2, PTL DEF RecoveryAlone
=============================================================================
