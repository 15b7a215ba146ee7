--------------------------- MODULE AgentHostProofs ---------------------------
(***************************************************************************)
(* Theorems about AgentHost, for any commands, updates and faults, and     *)
(* whichever file os.Executable finds.                                     *)
(***************************************************************************)
EXTENDS AgentHost, AgentCommandsProofs

\* What the host adds to the type invariant of AgentCommands.
HostShape ==
  /\ files \in [Paths -> Files]
  /\ procs \in [Procs -> Proc]
  /\ broken \in BOOLEAN

Placed == \A u \in Procs : Applying(u) => Updating(u) /\ procs[u].target < MaxBak

DownIsIdle == procs["daemon"].stage = "down" => pc = "idle" /\ todo = {}

HostInv == HostShape /\ Placed /\ DownIsIdle /\ ExecutableInPlace

-----------------------------------------------------------------------------
(* The daemon on its host takes only steps of AgentCommands.               *)

LEMMA HostStep == ASSUME [HostNext]_hostVars PROVE [Next]_vars
<1>1. CASE UNCHANGED hostVars
  BY <1>1 DEF hostVars
<1>2. CASE Server
  BY <1>2 DEF Server, Next
<1>3. CASE Poll
  BY <1>3 DEF Poll, Next
<1>4. CASE HostExecute
  BY <1>4 DEF HostExecute, Execute, Next
<1>5. CASE HostProceed
  BY <1>5 DEF HostProceed, Next
<1>6. CASE \E u \in Procs : Apply(u)
  BY <1>6 DEF Apply, BeginApply, CreateBackup, Install, RestoreBackup, RemoveBackup
<1>7. CASE StartCli \/ EndCli \/ KillCli
  BY <1>7 DEF StartCli, EndCli, KillCli
<1>8. CASE Kill
  BY <1>8 DEF Kill, Next
<1>9. CASE StartService
  BY <1>9 DEF StartService
<1> QED BY <1>1, <1>2, <1>3, <1>4, <1>5, <1>6, <1>7, <1>8, <1>9 DEF HostNext

\* AgentHost implements AgentCommands: whatever update and restart do to the
\* files and the processes, the daemon and the server take the steps of
\* AgentCommands, so its theorems hold on the host as well (executeCommand).
THEOREM ImplementsCommandsHolds == HostSpec => ImplementsCommands
<1>1. HostInit => Init
  BY DEF HostInit
<1> QED BY <1>1, HostStep, PTL DEF HostSpec, ImplementsCommands, Spec

-----------------------------------------------------------------------------
(* What the renames do to the processes.                                   *)

\* Only u changes its stage, and no process its target.
Moves(u, stage) ==
  /\ procs' \in [Procs -> Proc]
  /\ procs'[u].stage = stage
  /\ \A v \in Procs : procs'[v].target = procs[v].target
  /\ \A v \in Procs \ {u} : procs'[v].stage = procs[v].stage

\* Where a file goes, the process that runs it follows, and nothing else of it
\* changes.
LEMMA FollowsFields ==
  ASSUME NEW pr \in Proc, NEW from \in Paths, NEW to \in Paths
  PROVE  /\ Follows(pr, from, to) \in Proc
         /\ Follows(pr, from, to).stage = pr.stage
         /\ Follows(pr, from, to).target = pr.target
<1>1. CASE pr.linked /\ pr.image = from
  BY <1>1 DEF Follows, Proc
<1>2. CASE ~ (pr.linked /\ pr.image = from) /\ pr.linked /\ pr.image = to
  BY <1>2 DEF Follows, Proc
<1>3. CASE ~ (pr.linked /\ pr.image = from) /\ ~ (pr.linked /\ pr.image = to)
  BY <1>3 DEF Follows, Proc
<1> QED BY <1>1, <1>2, <1>3

\* os.Rename keeps the shape of the host and moves only its caller.
LEMMA RenameMoves ==
  ASSUME HostShape, NEW u \in Procs, NEW from \in Paths, NEW to \in Paths,
         NEW stage \in Stages, Rename(u, from, to, stage)
  PROVE  files' \in [Paths -> Files] /\ Moves(u, stage)
<1>1. files' \in [Paths -> Files]
  BY DEF HostShape, Rename, Files
<1> DEFINE seen(v) == Follows(procs[v], from, to)
           new(v) == IF v = u THEN [seen(v) EXCEPT !.stage = stage] ELSE seen(v)
<1>2. ASSUME NEW v \in Procs
      PROVE  /\ new(v) \in Proc /\ new(v).target = procs[v].target
             /\ new(v).stage = IF v = u THEN stage ELSE procs[v].stage
  <2>1. seen(v) \in Proc /\ seen(v).stage = procs[v].stage /\ seen(v).target = procs[v].target
    BY FollowsFields DEF HostShape
  <2> HIDE DEF seen
  <2>2. CASE v = u
    BY <2>1, <2>2 DEF Proc
  <2>3. CASE v # u
    BY <2>1, <2>3
  <2> QED BY <2>2, <2>3
<1>3. procs' = [v \in Procs |-> new(v)]
  BY DEF Rename
<1> HIDE DEF seen, new
<1>4. Moves(u, stage)
  BY <1>2, <1>3 DEF Moves
<1> QED BY <1>1, <1>4

\* Installing or removing a file does so, too.
LEMMA PutMoves ==
  ASSUME HostShape, NEW u \in Procs, NEW p \in Paths, NEW content \in Files,
         NEW stage \in Stages, Put(u, p, content, stage)
  PROVE  files' \in [Paths -> Files] /\ Moves(u, stage)
<1>1. files' \in [Paths -> Files]
  BY DEF HostShape, Put
<1> DEFINE seen(v) == IF procs[v].image = p THEN [procs[v] EXCEPT !.linked = FALSE]
                                            ELSE procs[v]
           new(v) == IF v = u THEN [seen(v) EXCEPT !.stage = stage] ELSE seen(v)
<1>2. ASSUME NEW v \in Procs
      PROVE  /\ new(v) \in Proc /\ new(v).target = procs[v].target
             /\ new(v).stage = IF v = u THEN stage ELSE procs[v].stage
  <2>1. seen(v) \in Proc /\ seen(v).stage = procs[v].stage /\ seen(v).target = procs[v].target
    BY DEF HostShape, Proc
  <2> HIDE DEF seen
  <2>2. CASE v = u
    BY <2>1, <2>2 DEF Proc
  <2>3. CASE v # u
    BY <2>1, <2>3
  <2> QED BY <2>2, <2>3
<1>3. procs' = [v \in Procs |-> new(v)]
  BY DEF Put
<1> HIDE DEF seen, new
<1>4. Moves(u, stage)
  BY <1>2, <1>3 DEF Moves
<1> QED BY <1>1, <1>4

\* A process that only goes on.
LEMMA GoesMoves ==
  ASSUME HostShape, NEW u \in Procs, NEW stage \in Stages, Goes(u, stage)
  PROVE  Moves(u, stage)
BY DEF HostShape, Goes, Moves, Proc

-----------------------------------------------------------------------------
(* The invariant of the host.                                              *)

LEMMA HostInvInit == ASSUME HostInit PROVE HostInv
<1> USE AgentHostAssumption
<1>1. HostShape
  <2>1. files \in [Paths -> Files]
    BY DEF HostInit, Files, Versions
  <2>2. Stopped \in Proc /\ [Stopped EXCEPT !.stage = "running", !.linked = TRUE] \in Proc
    <3>1. 0 \in Paths
      BY DEF Paths
    <3>2. Stopped \in Proc
      BY <3>1 DEF Stopped, Proc, Stages, Versions
    <3> QED BY <3>2 DEF Proc, Stages
  <2>3. procs \in [Procs -> Proc]
    BY <2>2 DEF HostInit
  <2> QED BY <2>1, <2>3 DEF HostInit, HostShape
<1>2. Placed /\ DownIsIdle
  BY DEF HostInit, Placed, DownIsIdle, Applying, Stopped, Init, Procs
<1>3. ExecutableInPlace
  BY DEF HostInit, ExecutableInPlace, Exists, Paths
<1> QED BY <1>1, <1>2, <1>3 DEF HostInv

\* A step that leaves AgentCommands alone, moves u and keeps the target of a
\* swap in range keeps processes in place.
LEMMA MovesKeepPlaces ==
  ASSUME HostInv, NEW u \in Procs, NEW stage \in Stages, Moves(u, stage), UNCHANGED vars,
         stage # "down",
         stage \in {"resolved", "moved", "undoing", "installed"} => Applying(u)
  PROVE  Placed' /\ DownIsIdle'
<1>1. Placed'
  <2> SUFFICES ASSUME NEW v \in Procs, Applying(v)'
               PROVE  Updating(v)' /\ procs'[v].target < MaxBak
    BY DEF Placed
  <2>1. Applying(v)
    BY DEF Moves, Applying
  <2> QED BY <2>1 DEF HostInv, Placed, Moves, Updating, vars, agent
<1>2. DownIsIdle'
  BY DEF HostInv, DownIsIdle, Moves, vars, agent, Procs
<1> QED BY <1>1, <1>2

\* Every step of Apply keeps the invariant: the only renames that take the
\* executable away are those of the process that is swapping it.
LEMMA ApplyKeepsHostInv ==
  ASSUME HostInv, NEW u \in Procs, Apply(u)
  PROVE  HostInv'
<1> USE AgentHostAssumption
<1> DEFINE p == procs[u].target
<1>0. /\ HostShape /\ Placed /\ DownIsIdle /\ ExecutableInPlace
      /\ p \in Paths /\ (Applying(u) => p + 1 \in Paths)
      /\ UNCHANGED vars
  BY DEF HostInv, HostShape, Placed, Proc, Paths, Applying, Apply, BeginApply, CreateBackup,
         Install, RestoreBackup, RemoveBackup
<1>1. CASE BeginApply(u)
  <2>1. Executable(u) \in Paths /\ Executable(u) < MaxBak
    BY <1>0, <1>1 DEF BeginApply, Executable, HostShape, Proc, Paths
  <2> DEFINE e == Executable(u)
  <2> HIDE DEF e
  <2>2. procs' = [procs EXCEPT ![u].stage = "resolved", ![u].target = e]
    BY <1>1 DEF BeginApply, e
  <2>3. /\ procs' \in [Procs -> Proc]
        /\ procs'[u].stage = "resolved" /\ procs'[u].target = e
        /\ \A v \in Procs \ {u} : procs'[v] = procs[v]
    BY <1>0, <2>1, <2>2 DEF HostShape, Proc, Stages, e
  <2>4. Updating(u)' /\ procs[u].stage = "running" /\ UNCHANGED <<files, broken>>
    BY <1>0, <1>1 DEF BeginApply, Updating, vars, agent
  <2>5. Placed'
    BY <1>0, <2>1, <2>3, <2>4 DEF Placed, Applying, Updating, vars, agent, e
  <2>6. DownIsIdle'
    BY <1>0, <2>3 DEF DownIsIdle, vars, agent, Procs
  <2>7. ExecutableInPlace'
    BY <1>0, <2>3, <2>4 DEF ExecutableInPlace, BeingSwapped, Exists, Swapping
  <2> QED BY <1>0, <2>3, <2>4, <2>5, <2>6, <2>7 DEF HostInv, HostShape
<1>2. CASE CreateBackup(u)
  <2>1. procs[u].stage = "resolved" /\ Applying(u)
    BY <1>2 DEF CreateBackup, Applying
  <2>2. CASE Rename(u, p, p + 1, "moved")
    <3>1. files' \in [Paths -> Files] /\ Moves(u, "moved")
      BY <1>0, <2>1, <2>2, RenameMoves DEF Stages
    <3>2. Placed' /\ DownIsIdle'
      BY <1>0, <2>1, <3>1, MovesKeepPlaces DEF Stages
    <3>3. ExecutableInPlace'
      <4>1. CASE p = 0
        BY <3>1, <4>1 DEF Moves, ExecutableInPlace, BeingSwapped, Swapping
      <4>2. CASE p # 0
        <5>1. files'[0] = files[0]
          BY <1>0, <2>2, <4>2 DEF Rename, HostShape, Paths
        <5> QED BY <1>0, <1>2, <2>1, <3>1, <5>1
                DEF Moves, ExecutableInPlace, BeingSwapped, Swapping, Exists, CreateBackup
      <4> QED BY <4>1, <4>2
    <3> QED BY <1>0, <1>2, <3>1, <3>2, <3>3 DEF HostInv, HostShape, CreateBackup, Moves
  <2>3. CASE Goes(u, "failed") /\ UNCHANGED files
    <3>1. Moves(u, "failed")
      BY <1>0, <2>3, GoesMoves DEF Stages
    <3>2. Placed' /\ DownIsIdle'
      BY <1>0, <3>1, MovesKeepPlaces DEF Stages
    <3>3. ExecutableInPlace'
      BY <1>0, <1>2, <2>1, <2>3, <3>1
         DEF Moves, ExecutableInPlace, BeingSwapped, Swapping, Exists, CreateBackup
    <3> QED BY <1>0, <1>2, <2>3, <3>1, <3>2, <3>3 DEF HostInv, HostShape, CreateBackup, Moves
  <2> QED BY <1>2, <2>2, <2>3 DEF CreateBackup
<1>3. CASE Install(u)
  <2>1. procs[u].stage = "moved" /\ Applying(u)
    BY <1>3 DEF Install, Applying
  <2>2. CASE Put(u, p, "new", "installed")
    <3>1. files' \in [Paths -> Files] /\ Moves(u, "installed")
      BY <1>0, <2>2, PutMoves DEF Stages, Files, Versions
    <3>2. Placed' /\ DownIsIdle'
      BY <1>0, <2>1, <3>1, MovesKeepPlaces DEF Stages
    <3>3. ExecutableInPlace'
      <4>1. CASE p = 0
        BY <1>0, <2>2, <4>1 DEF Put, HostShape, ExecutableInPlace, Exists
      <4>2. CASE p # 0
        <5>1. files'[0] = files[0]
          BY <1>0, <2>2, <4>2 DEF Put, HostShape, Paths
        <5> QED BY <1>0, <1>3, <3>1, <4>2, <5>1
                DEF Moves, ExecutableInPlace, BeingSwapped, Swapping, Exists, Install
      <4> QED BY <4>1, <4>2
    <3> QED BY <1>0, <1>3, <3>1, <3>2, <3>3 DEF HostInv, HostShape, Install, Moves
  <2>3. CASE Goes(u, "undoing") /\ UNCHANGED files
    <3>1. Moves(u, "undoing")
      BY <1>0, <2>3, GoesMoves DEF Stages
    <3>2. Placed' /\ DownIsIdle'
      BY <1>0, <2>1, <3>1, MovesKeepPlaces DEF Stages
    <3>3. ExecutableInPlace'
      BY <1>0, <1>3, <2>1, <2>3, <3>1
         DEF Moves, ExecutableInPlace, BeingSwapped, Swapping, Exists, Install
    <3> QED BY <1>0, <1>3, <2>3, <3>1, <3>2, <3>3 DEF HostInv, HostShape, Install, Moves
  <2> QED BY <1>3, <2>2, <2>3 DEF Install
<1>4. CASE RestoreBackup(u)
  <2>1. procs[u].stage = "undoing" /\ Applying(u)
    BY <1>4 DEF RestoreBackup, Applying
  <2>2. CASE Rename(u, p + 1, p, "failed") /\ UNCHANGED broken
    <3>1. files' \in [Paths -> Files] /\ Moves(u, "failed")
      BY <1>0, <2>1, <2>2, RenameMoves DEF Stages
    <3>2. Placed' /\ DownIsIdle'
      BY <1>0, <3>1, MovesKeepPlaces DEF Stages
    <3>3. ExecutableInPlace'
      <4>1. CASE p = 0
        BY <1>0, <2>1, <2>2, <4>1 DEF Rename, HostShape, ExecutableInPlace, Exists, Paths
      <4>2. CASE p # 0
        <5>1. files'[0] = files[0]
          BY <1>0, <2>2, <4>2 DEF Rename, HostShape, Paths
        <5> QED BY <1>0, <2>2, <3>1, <4>2, <5>1
                DEF Moves, ExecutableInPlace, BeingSwapped, Swapping, Exists
      <4> QED BY <4>1, <4>2
    <3> QED BY <1>0, <2>2, <3>1, <3>2, <3>3 DEF HostInv, HostShape, Moves
  <2>3. CASE Goes(u, "failed") /\ broken' = TRUE /\ UNCHANGED files
    <3>1. Moves(u, "failed")
      BY <1>0, <2>3, GoesMoves DEF Stages
    <3>2. Placed' /\ DownIsIdle'
      BY <1>0, <3>1, MovesKeepPlaces DEF Stages
    <3>3. ExecutableInPlace'
      BY <2>3 DEF ExecutableInPlace, BeingSwapped
    <3> QED BY <1>0, <2>3, <3>1, <3>2, <3>3 DEF HostInv, HostShape, Moves
  <2> QED BY <1>4, <2>2, <2>3 DEF RestoreBackup
<1>5. CASE RemoveBackup(u)
  <2>1. procs[u].stage = "installed" /\ Applying(u) /\ UNCHANGED broken
    BY <1>5 DEF RemoveBackup, Applying
  <2>2. Put(u, p + 1, "none", "updated")
    BY <1>5 DEF RemoveBackup
  <2>3. files' \in [Paths -> Files] /\ Moves(u, "updated")
    BY <1>0, <2>1, <2>2, PutMoves DEF Stages, Files
  <2>4. Placed' /\ DownIsIdle'
    BY <1>0, <2>3, MovesKeepPlaces DEF Stages
  <2>5. files'[0] = files[0]
    BY <1>0, <2>1, <2>2 DEF Put, HostShape, Paths
  <2>6. ExecutableInPlace'
    BY <1>0, <2>1, <2>3, <2>5 DEF Moves, ExecutableInPlace, BeingSwapped, Swapping, Exists
  <2> QED BY <1>0, <2>1, <2>3, <2>4, <2>6 DEF HostInv, HostShape, Moves
<1> QED BY <1>1, <1>2, <1>3, <1>4, <1>5 DEF Apply

\* A process that starts runs what is at p.
LEMMA StartedShape ==
  ASSUME HostShape, NEW p \in Paths, Exists(p)
  PROVE  Started(p) \in Proc /\ Stopped \in Proc
BY AgentHostAssumption DEF HostShape, Started, Stopped, Proc, Stages, Exists, Files, Versions, Paths

\* A step in which u becomes a process outside Apply, and every swap it cut
\* short is recorded.
LEMMA ReplaceKeepsHostInv ==
  ASSUME HostInv, NEW u \in Procs, NEW pr \in Proc, procs' = [procs EXCEPT ![u] = pr],
         pr.stage \notin {"resolved", "moved", "undoing", "installed"},
         UNCHANGED files, broken' \in BOOLEAN, broken => broken', Swapping(u) => broken',
         u = "cli" => UNCHANGED vars,
         \/ u = "cli"
         \/ pr.stage # "down"
         \/ pc' = "idle" /\ todo' = {}
  PROVE  HostInv'
<1>0. HostShape /\ Placed /\ DownIsIdle /\ ExecutableInPlace
  BY DEF HostInv
<1>1. /\ procs' \in [Procs -> Proc] /\ procs'[u] = pr
      /\ \A v \in Procs \ {u} : procs'[v] = procs[v]
  BY <1>0 DEF HostShape
<1>2. HostShape'
  BY <1>0, <1>1 DEF HostShape
<1>3. Placed'
  <2> SUFFICES ASSUME NEW v \in Procs, Applying(v)'
               PROVE  Updating(v)' /\ procs'[v].target < MaxBak
    BY DEF Placed
  <2>1. v # u /\ Applying(v)
    BY <1>1 DEF Applying
  <2> QED BY <1>0, <1>1, <2>1 DEF Placed, Updating, Procs, vars, agent
<1>4. DownIsIdle'
  BY <1>0, <1>1 DEF DownIsIdle, Procs, vars, agent
<1>5. ExecutableInPlace'
  BY <1>0, <1>1 DEF ExecutableInPlace, BeingSwapped, Swapping, Exists
<1> QED BY <1>2, <1>3, <1>4, <1>5 DEF HostInv

\* A step of the daemon that leaves the host alone.
LEMMA HostAlone ==
  ASSUME HostInv, UNCHANGED host,
         Applying("daemon") => Updating("daemon")',
         procs["daemon"].stage = "down" => pc' = "idle" /\ todo' = {}
  PROVE  HostInv'
<1>1. HostShape' /\ DownIsIdle' /\ ExecutableInPlace'
  BY DEF HostInv, HostShape, DownIsIdle, ExecutableInPlace, BeingSwapped, Swapping, Exists, host
<1>2. Placed'
  BY DEF HostInv, Placed, Applying, Updating, Procs, host
<1> QED BY <1>1, <1>2 DEF HostInv

LEMMA HostInvStep == ASSUME HostInv, [HostNext]_hostVars PROVE HostInv'
<1>0. HostShape /\ Placed /\ DownIsIdle /\ ExecutableInPlace
  BY DEF HostInv
<1>a. "daemon" \in Procs /\ "cli" \in Procs /\ 0 \in Paths /\ Stopped \in Proc
  BY AgentHostAssumption DEF Procs, Paths, Stopped, Proc, Stages, Versions
<1>b. Applying("daemon") => pc = "executing" /\ cur \in Updates
  BY <1>0, <1>a DEF Placed, Updating
<1>1. CASE UNCHANGED hostVars
  BY <1>1, <1>0, <1>b, HostAlone DEF hostVars, vars, agent, Updating, DownIsIdle
<1>2. CASE Server
  <2>1. UNCHANGED <<agent, host>>
    BY <1>2 DEF Server, CreateCommand, CancelCommand, TimeoutPasses, MarkTimedOutCommands,
                ReadRow, WriteRow, WriteRowFails
  <2> QED BY <2>1, <1>0, <1>b, HostAlone DEF agent, Updating, DownIsIdle
<1>3. CASE Poll
  <2>1. pc = "idle" /\ procs["daemon"].stage # "down" /\ UNCHANGED host
    BY <1>3 DEF Poll, GetCommands, StartCommand
  <2> QED BY <2>1, <1>b, HostAlone
<1>4. CASE HostExecute
  <2> DEFINE pr == [procs["daemon"] EXCEPT !.stage = IF @ = "failed" THEN "running" ELSE @]
  <2>1. /\ procs["daemon"].stage \in {"running", "updated", "failed"}
        /\ procs' = [procs EXCEPT !["daemon"] = pr]
        /\ UNCHANGED <<files, broken>>
    BY <1>4 DEF HostExecute
  <2>2. pr \in Proc /\ pr.stage \in {"running", "updated"}
    BY <1>0, <1>a, <2>1 DEF HostShape, Proc, Stages
  <2> HIDE DEF pr
  <2> QED BY <1>0, <1>a, <2>1, <2>2, ReplaceKeepsHostInv DEF HostShape, Swapping
<1>5. CASE HostProceed
  <2>1. pc \in {"acking", "starting", "reporting"}
    BY <1>5 DEF HostProceed, GetAnswer, GiveUp, Proceed
  <2>2. procs["daemon"].stage # "down" /\ ~ Applying("daemon")
    BY <1>0, <1>b, <2>1 DEF DownIsIdle
  <2>3. CASE ~ RestartDue
    BY <1>5, <2>2, <2>3, HostAlone DEF HostProceed
  <2>4. CASE RestartDue
    <3>1. Restart /\ UNCHANGED <<files, broken>>
      BY <1>5, <2>4 DEF HostProceed
    <3> DEFINE p == Executable("daemon")
    <3>2. p \in Paths
      BY <1>0, <1>a DEF Executable, HostShape, Proc
    <3>3. CASE Exists(p)
      <4>1. procs' = [procs EXCEPT !["daemon"] = Started(p)]
        BY <3>1, <3>3 DEF Restart
      <4>2. Started(p) \in Proc /\ Started(p).stage = "running"
        BY <1>0, <3>2, <3>3, StartedShape DEF Started
      <4> HIDE DEF p
      <4> QED BY <1>0, <1>a, <2>2, <3>1, <4>1, <4>2, ReplaceKeepsHostInv
              DEF HostShape, Swapping, Applying
    <3>4. CASE ~ Exists(p)
      <4> DEFINE pr == [procs["daemon"] EXCEPT !.stage = "running"]
      <4>1. procs' = [procs EXCEPT !["daemon"] = pr]
        BY <3>1, <3>4 DEF Restart, Goes
      <4>2. pr \in Proc /\ pr.stage = "running"
        BY <1>0, <1>a DEF HostShape, Proc, Stages
      <4> HIDE DEF pr
      <4> QED BY <1>0, <1>a, <2>2, <3>1, <4>1, <4>2, ReplaceKeepsHostInv
              DEF HostShape, Swapping, Applying
    <3> QED BY <3>3, <3>4
  <2> QED BY <2>3, <2>4
<1>6. CASE \E u \in Procs : Apply(u)
  BY <1>6, ApplyKeepsHostInv
<1>7. CASE StartCli
  <2>1. Started(0) \in Proc /\ Started(0).stage = "running"
    BY <1>0, <1>a, <1>7, StartedShape DEF StartCli, Started
  <2> QED BY <1>0, <1>a, <1>7, <2>1, ReplaceKeepsHostInv DEF StartCli, HostShape, Swapping
<1>8. CASE EndCli
  BY <1>0, <1>a, <1>8, ReplaceKeepsHostInv DEF EndCli, Ends, HostShape, Swapping, Stopped
<1>9. CASE KillCli
  BY <1>0, <1>a, <1>9, ReplaceKeepsHostInv DEF KillCli, Ends, HostShape, Stopped
<1>10. CASE Kill
  <2>1. pc' = "idle" /\ todo' = {}
    BY <1>10 DEF Kill, AgentCrash, NextCommand, vars, agent
  <2> QED BY <1>0, <1>a, <1>10, <2>1, ReplaceKeepsHostInv DEF Kill, Ends, HostShape, Stopped
<1>11. CASE StartService
  <2>1. Started(0) \in Proc /\ Started(0).stage = "running"
    BY <1>0, <1>a, <1>11, StartedShape DEF StartService, Started
  <2> QED BY <1>0, <1>a, <1>11, <2>1, ReplaceKeepsHostInv
          DEF StartService, HostShape, Swapping
<1> QED BY <1>1, <1>2, <1>3, <1>4, <1>5, <1>6, <1>7, <1>8, <1>9, <1>10, <1>11 DEF HostNext

-----------------------------------------------------------------------------
(* What an update leaves behind: the invariant.                            *)

Swaps(u, p) == Swapping(u) /\ procs[u].target = p

NoneFrom(n) == \A p \in Paths : p >= n => files[p] = "none"

\* Only one process at a time can have taken the executable away.
SwapsExcluded ==
  /\ \A u \in Procs : Swaps(u, 0) => files[0] = "none"
  /\ \A u, v \in Procs : Swaps(u, 0) /\ Swaps(v, 0) => u = v

\* A process runs the version of the file it is linked to, and one whose file is
\* the executable is linked to it: nothing replaces the executable in one step.
RunsItsFile ==
  \A u \in Procs : procs[u].stage # "down" =>
    /\ procs[u].linked => files[procs[u].image] = procs[u].version
    /\ procs[u].image = 0 => procs[u].linked

ApplierIsOld ==
  \A u \in Procs : /\ Applying(u) => procs[u].version = "old"
                   /\ ~ ExecutableIsFollowed => procs[u].target = 0

\* The old version is the one to be started: it is in place, or a swap holds it
\* in the .bak, or another process is swapping that .bak.
OldAt0 == files[0] = "old"
OldAt1 == \E u \in Procs : Swaps(u, 0) /\ files[1] = "old"
OldAt2 == \E u, v \in Procs : Swaps(u, 0) /\ Swaps(v, 1) /\ files[2] = "old"
OldIsKept == OldAt0 \/ OldAt1 \/ OldAt2

\* Then there is no other file, nobody is further with an update, and none is
\* reported as completed.
NoOtherFile ==
  /\ OldAt0 => NoneFrom(1)
  /\ OldAt1 => NoneFrom(2)
  /\ OldAt2 => files[1] = "none" /\ NoneFrom(3)

NobodyAhead ==
  \A u \in Procs :
    /\ procs[u].stage \notin {"installed", "updated"}
    /\ Applying(u) => procs[u].target <= 1
    /\ Swaps(u, 1) => OldAt2

NoneReported ==
  /\ \A c \in Updates : status[c] # "completed"
  /\ \A r \in requests : ~ (r.cmd \in Updates /\ r.kind = "completed")

Kept == ~ broken /\ OldIsKept => NoOtherFile /\ NobodyAhead /\ NoneReported

\* While u is about to move the executable, v has stopped, runs the new version
\* for good, or has left no .bak behind that it could take for its executable.
Waits(v) ==
  \/ procs[v].stage = "down"
  \/ procs[v].version = "new" /\ procs[v].image = 0
  \/ /\ NoneFrom(2)
     /\ files[1] = "none" \/ procs[v].stage \in {"moved", "undoing", "installed"}
     /\ Applying(v) => procs[v].stage = "resolved" \/ procs[v].target = 0

About(u) == procs[u].stage = "resolved" /\ procs[u].target = 0

Resolved ==
  ExecutableIsFollowed /\ ~ broken =>
    \A u, v \in Procs : About(u) /\ u # v => Waits(v)

InstInv == SwapsExcluded /\ RunsItsFile /\ ApplierIsOld /\ Kept /\ Resolved

Inv == HostInv /\ InstInv

\* What is true of a completed update.
LEMMA CompletedIsInstalled == ASSUME Inv PROVE CompletedUpdateIsInstalled
<1> SUFFICES ASSUME NEW c \in Updates, status[c] = "completed", ~ BeingSwapped
             PROVE  files[0] = "new"
  BY DEF CompletedUpdateIsInstalled
<1>1. ~ broken /\ files[0] # "none"
  BY DEF Inv, HostInv, ExecutableInPlace, BeingSwapped, Exists
<1>2. files[0] # "old"
  BY <1>1 DEF Inv, InstInv, Kept, OldIsKept, OldAt0, NoneReported
<1>3. files[0] \in Files
  BY AgentHostAssumption DEF Inv, HostInv, HostShape, Paths
<1> QED BY <1>1, <1>2, <1>3 DEF Files, Versions

\* There are two processes.
LEMMA Pair ==
  ASSUME NEW u \in Procs
  PROVE  \E w \in Procs : w # u /\ Procs = {u, w}
BY DEF Procs

-----------------------------------------------------------------------------
(* What the renames show to the processes.                                 *)

LEMMA RenameSeen ==
  ASSUME HostShape, NEW u \in Procs, NEW from \in Paths, NEW to \in Paths, from # to,
         NEW stage \in Stages, Rename(u, from, to, stage), NEW v \in Procs
  PROVE  /\ procs'[v].version = procs[v].version
         /\ procs[v].linked /\ procs[v].image = from =>
              procs'[v].linked /\ procs'[v].image = to
         /\ procs[v].linked /\ procs[v].image = to =>
              ~ procs'[v].linked /\ procs'[v].image = to
         /\ ~ (procs[v].linked /\ procs[v].image \in {from, to}) =>
              procs'[v].linked = procs[v].linked /\ procs'[v].image = procs[v].image
<1> DEFINE pr == procs[v]
           seen == Follows(pr, from, to)
           new == IF v = u THEN [seen EXCEPT !.stage = stage] ELSE seen
<1>1. procs'[v] = new
  BY DEF Rename
<1>2. pr \in Proc
  BY DEF HostShape
<1>3. seen \in Proc
  BY <1>2, FollowsFields
<1>4. /\ seen.version = pr.version
      /\ pr.linked /\ pr.image = from => seen.linked /\ seen.image = to
      /\ pr.linked /\ pr.image = to => ~ seen.linked /\ seen.image = to
      /\ ~ (pr.linked /\ pr.image \in {from, to}) => seen = pr
  <2> HIDE DEF pr
  <2>1. CASE pr.linked /\ pr.image = from
    BY <1>2, <2>1 DEF Follows, Proc
  <2>2. CASE ~ (pr.linked /\ pr.image = from) /\ pr.linked /\ pr.image = to
    BY <1>2, <2>2 DEF Follows, Proc
  <2>3. CASE ~ (pr.linked /\ pr.image = from) /\ ~ (pr.linked /\ pr.image = to)
    BY <1>2, <2>3 DEF Follows, Proc
  <2> QED BY <2>1, <2>2, <2>3
<1>5. new.version = seen.version /\ new.linked = seen.linked /\ new.image = seen.image
  <2> HIDE DEF seen
  <2> QED BY <1>3 DEF Proc
<1> HIDE DEF pr, seen, new
<1> QED BY <1>1, <1>4, <1>5 DEF pr

LEMMA PutSeen ==
  ASSUME HostShape, NEW u \in Procs, NEW p \in Paths, NEW content, NEW stage \in Stages,
         Put(u, p, content, stage), NEW v \in Procs
  PROVE  /\ procs'[v].version = procs[v].version /\ procs'[v].image = procs[v].image
         /\ procs[v].image = p => ~ procs'[v].linked
         /\ procs[v].image # p => procs'[v].linked = procs[v].linked
<1> DEFINE pr == procs[v]
           seen == IF pr.image = p THEN [pr EXCEPT !.linked = FALSE] ELSE pr
           new == IF v = u THEN [seen EXCEPT !.stage = stage] ELSE seen
<1>1. procs'[v] = new
  BY DEF Put
<1>2. pr \in Proc
  BY DEF HostShape
<1>3. /\ seen \in Proc /\ seen.version = pr.version /\ seen.image = pr.image
      /\ pr.image = p => ~ seen.linked
      /\ pr.image # p => seen.linked = pr.linked
  <2> HIDE DEF pr
  <2> QED BY <1>2 DEF Proc
<1>4. new.version = seen.version /\ new.linked = seen.linked /\ new.image = seen.image
  <2> HIDE DEF seen
  <2> QED BY <1>3 DEF Proc
<1> HIDE DEF pr, seen, new
<1> QED BY <1>1, <1>3, <1>4 DEF pr

LEMMA GoesSeen ==
  ASSUME HostShape, NEW u \in Procs, NEW stage \in Stages, Goes(u, stage), NEW v \in Procs
  PROVE  /\ procs'[v].version = procs[v].version /\ procs'[v].image = procs[v].image
         /\ procs'[v].linked = procs[v].linked
BY DEF HostShape, Goes, Proc

(* How Apply keeps it.                                                     *)

LEMMA RenameRuns ==
  ASSUME Inv, NEW u \in Procs, NEW from \in Paths, NEW to \in Paths, from # to,
         NEW stage \in Stages, Rename(u, from, to, stage),
         procs[u].stage # "down", to = 0 => files[0] = "none"
  PROVE  RunsItsFile'
<1>0. HostShape /\ RunsItsFile
  BY DEF Inv, HostInv, InstInv
<1> SUFFICES ASSUME NEW v \in Procs, procs'[v].stage # "down"
             PROVE  /\ procs'[v].linked => files'[procs'[v].image] = procs'[v].version
                    /\ procs'[v].image = 0 => procs'[v].linked
  BY DEF RunsItsFile
<1>1. procs[v].stage # "down"
  BY <1>0, RenameMoves DEF Moves
<1>2. /\ procs[v].linked => files[procs[v].image] = procs[v].version
      /\ procs[v].image = 0 => procs[v].linked
      /\ procs[v].version # "none" /\ procs[v].image \in Paths /\ procs[v].linked \in BOOLEAN
  BY <1>0, <1>1 DEF RunsItsFile, HostShape, Proc, Versions
<1>3. /\ files'[to] = files[from]
      /\ \A p \in Paths \ {from, to} : files'[p] = files[p]
  BY <1>0 DEF Rename, HostShape
<1>4. CASE procs[v].linked /\ procs[v].image = from
  BY <1>0, <1>2, <1>3, <1>4, RenameSeen
<1>5. CASE procs[v].linked /\ procs[v].image = to
  BY <1>0, <1>2, <1>5, RenameSeen
<1>6. CASE ~ (procs[v].linked /\ procs[v].image \in {from, to})
  BY <1>0, <1>2, <1>3, <1>6, RenameSeen
<1> QED BY <1>4, <1>5, <1>6

LEMMA PutRuns ==
  ASSUME Inv, NEW u \in Procs, NEW p \in Paths, NEW content \in Files,
         NEW stage \in Stages, Put(u, p, content, stage),
         procs[u].stage # "down", p = 0 => files[0] = "none"
  PROVE  RunsItsFile'
<1>0. HostShape /\ RunsItsFile
  BY DEF Inv, HostInv, InstInv
<1> SUFFICES ASSUME NEW v \in Procs, procs'[v].stage # "down"
             PROVE  /\ procs'[v].linked => files'[procs'[v].image] = procs'[v].version
                    /\ procs'[v].image = 0 => procs'[v].linked
  BY DEF RunsItsFile
<1>1. procs[v].stage # "down"
  BY <1>0, PutMoves DEF Moves
<1>2. /\ procs[v].linked => files[procs[v].image] = procs[v].version
      /\ procs[v].image = 0 => procs[v].linked
      /\ procs[v].version # "none" /\ procs[v].image \in Paths
  BY <1>0, <1>1 DEF RunsItsFile, HostShape, Proc, Versions
<1>3. \A q \in Paths \ {p} : files'[q] = files[q]
  BY <1>0 DEF Put, HostShape
<1> QED BY <1>0, <1>2, <1>3, PutSeen

LEMMA GoesRuns ==
  ASSUME Inv, NEW u \in Procs, NEW stage \in Stages, Goes(u, stage),
         procs[u].stage # "down", UNCHANGED files
  PROVE  RunsItsFile'
<1>0. HostShape /\ RunsItsFile
  BY DEF Inv, HostInv, InstInv
<1> QED BY <1>0, GoesMoves, GoesSeen DEF RunsItsFile, Moves

LEMMA AppliersStayOld ==
  ASSUME Inv, NEW u \in Procs, NEW stage \in Stages, Moves(u, stage),
         stage \in {"resolved", "moved", "undoing", "installed"} => Applying(u),
         \A v \in Procs : procs'[v].version = procs[v].version
  PROVE  ApplierIsOld'
BY DEF Inv, InstInv, ApplierIsOld, Moves, Applying

\* A step that neither the tables nor the requests see.
LEMMA KeptBy ==
  ASSUME Inv, UNCHANGED vars,
         ~ broken' /\ OldIsKept' => ~ broken /\ OldIsKept /\ NoOtherFile' /\ NobodyAhead'
  PROVE  Kept'
BY DEF Inv, InstInv, Kept, NoneReported, vars

\* A step of u after which w need not wait for it, and that changes nothing w has
\* to wait for.
LEMMA ResolvedBy ==
  ASSUME Inv, NEW u \in Procs, NEW w \in Procs, w # u, Procs = {u, w},
         broken => broken',
         ExecutableIsFollowed /\ ~ broken' /\ About(u)' => Waits(w)',
         ExecutableIsFollowed /\ ~ broken' /\ About(w)' => Waits(u)'
  PROVE  Resolved'
BY DEF Resolved

LEMMA BeginApplyKeeps == ASSUME Inv, NEW u \in Procs, BeginApply(u) PROVE InstInv'
<1> USE AgentHostAssumption
<1>0. /\ HostShape /\ Placed /\ ExecutableInPlace
      /\ SwapsExcluded /\ RunsItsFile /\ ApplierIsOld /\ Kept /\ Resolved
  BY DEF Inv, HostInv, InstInv
<1> DEFINE e == Executable(u)
<1>1. /\ procs[u].stage = "running" /\ procs[u].version = "old"
      /\ files[e] # "none" /\ e < MaxBak /\ e \in Paths
      /\ procs' = [procs EXCEPT ![u].stage = "resolved", ![u].target = e]
      /\ UNCHANGED <<vars, files, broken>>
  BY <1>0 DEF BeginApply, Executable, Exists, HostShape, Proc, Paths
<1>2. ExecutableIsFollowed => e = procs[u].image
  BY DEF Executable
<1>m. ~ ExecutableIsFollowed => e = 0
  BY DEF Executable
<1> HIDE DEF e
<1>3. PICK w \in Procs : w # u /\ Procs = {u, w}
  BY Pair
<1>4. /\ procs'[u].stage = "resolved" /\ procs'[u].target = e
      /\ procs'[u].version = "old" /\ procs'[u].image = procs[u].image
      /\ procs'[u].linked = procs[u].linked
      /\ procs'[w] = procs[w]
  BY <1>0, <1>1, <1>3 DEF HostShape, Proc
<1>5. SwapsExcluded'
  BY <1>0, <1>1, <1>3, <1>4 DEF SwapsExcluded, Swaps, Swapping
<1>6. RunsItsFile'
  <2>1. /\ files' = files
        /\ \A v \in Procs : /\ procs'[v].image = procs[v].image
                            /\ procs'[v].linked = procs[v].linked
                            /\ procs'[v].version = procs[v].version
                            /\ procs'[v].stage # "down" => procs[v].stage # "down"
    BY <1>1, <1>3, <1>4
  <2>2. RunsItsFile
    BY <1>0
  <2> QED
    BY <2>1, <2>2 DEF RunsItsFile
<1>7. ApplierIsOld'
  BY <1>0, <1>1, <1>m, <1>3, <1>4 DEF ApplierIsOld, Applying
<1>8. ASSUME ~ broken, OldIsKept
      PROVE  e <= 1
  <2>1. NoOtherFile /\ NobodyAhead
    BY <1>0, <1>8 DEF Kept
  <2>2. ~ OldAt2
    <3>1. ~ Swapping(u)
      BY <1>1 DEF Swapping
    <3> QED BY <1>3, <3>1 DEF OldAt2, Swaps
  <2>3. e \in Nat
    BY <1>1 DEF Paths
  <2> QED BY <1>1, <1>8, <2>1, <2>2, <2>3 DEF OldIsKept, NoOtherFile, NoneFrom
<1>9. Kept'
  <2> SUFFICES ASSUME ~ broken', OldIsKept'
               PROVE  ~ broken /\ OldIsKept /\ NoOtherFile' /\ NobodyAhead'
    BY <1>1, KeptBy
  <2>1. /\ ~ broken
        /\ OldAt0' <=> OldAt0
        /\ OldAt1' <=> OldAt1
        /\ OldAt2' <=> OldAt2
    BY <1>1, <1>3, <1>4 DEF OldAt0, OldAt1, OldAt2, Swaps, Swapping
  <2>2. OldIsKept /\ NoOtherFile /\ NobodyAhead /\ e <= 1
    BY <1>0, <1>8, <2>1 DEF OldIsKept, Kept
  <2>3. NoOtherFile'
    BY <1>1, <2>1, <2>2 DEF NoOtherFile, NoneFrom
  <2>4. NobodyAhead'
    BY <1>3, <1>4, <2>1, <2>2 DEF NobodyAhead, Applying, Swaps, Swapping
  <2> QED BY <2>1, <2>2, <2>3, <2>4
<1>10. Resolved'
  <2>1. ASSUME ExecutableIsFollowed, ~ broken', e = 0
        PROVE  Waits(w)'
    <3>1. OldAt0 /\ ~ broken
      BY <1>0, <1>1, <1>2, <2>1 DEF OldAt0, RunsItsFile
    <3>2. NoneFrom(1) /\ NobodyAhead /\ ~ OldAt2
      <4>1. ~ OldAt2
        BY <1>0, <3>1 DEF OldAt0, OldAt2, SwapsExcluded
      <4> QED BY <1>0, <3>1, <4>1 DEF OldIsKept, Kept, NoOtherFile
    <3>3. Applying(w) => procs[w].stage = "resolved" \/ procs[w].target = 0
      <4> SUFFICES ASSUME Applying(w), procs[w].target # 0, procs[w].stage # "resolved"
                   PROVE  FALSE
        OBVIOUS
      <4>1. procs[w].target = 1 /\ Swapping(w)
        BY <3>2 DEF NobodyAhead, Applying, Swapping, HostShape, Proc, Paths, Inv, HostInv
      <4> QED BY <3>2, <4>1 DEF NobodyAhead, Swaps
    <3>4. files[1] = "none" /\ NoneFrom(2)
      BY <3>2 DEF NoneFrom, Paths
    <3> QED BY <1>1, <1>4, <3>3, <3>4 DEF Waits, NoneFrom, Applying
  <2>2. ASSUME ExecutableIsFollowed, ~ broken', About(w)'
        PROVE  Waits(u)'
    <3>1. Waits(u)
      BY <1>0, <1>1, <1>3, <1>4, <2>2 DEF Resolved, About
    <3> QED BY <1>1, <1>4, <3>1 DEF Waits, NoneFrom, Applying
  <2> QED BY <1>1, <1>3, <1>4, <2>1, <2>2, ResolvedBy DEF About
<1> QED BY <1>5, <1>6, <1>7, <1>9, <1>10 DEF InstInv

LEMMA CreateBackupKeeps == ASSUME Inv, NEW u \in Procs, CreateBackup(u) PROVE InstInv'
<1> USE AgentHostAssumption
<1>0. /\ HostShape /\ Placed /\ ExecutableInPlace
      /\ SwapsExcluded /\ RunsItsFile /\ ApplierIsOld /\ Kept /\ Resolved
  BY DEF Inv, HostInv, InstInv
<1>w. PICK w \in Procs : w # u /\ Procs = {u, w}
  BY Pair
<1> DEFINE p == procs[u].target
<1>1. /\ procs[u].stage = "resolved" /\ procs[u].version = "old"
      /\ p \in Paths /\ p + 1 \in Paths /\ UNCHANGED <<vars, broken>>
  BY <1>0 DEF CreateBackup, HostShape, Proc, Placed, Paths, Applying, ApplierIsOld
<1>2. CASE Goes(u, "failed") /\ UNCHANGED files
  <2>1. Moves(u, "failed") /\ procs'[u].target = p /\ procs'[w].target = procs[w].target
        /\ procs'[u].stage = "failed" /\ procs'[w].stage = procs[w].stage
        /\ \A v \in Procs : procs'[v].version = procs[v].version /\ procs'[v].image = procs[v].image
    BY <1>0, <1>w, <1>2, GoesMoves, GoesSeen DEF Moves, Stages
  <2> HIDE DEF p
  <2>2. SwapsExcluded'
    BY <1>0, <1>w, <1>1, <1>2, <2>1 DEF SwapsExcluded, Swaps, Swapping
  <2>3. RunsItsFile' /\ ApplierIsOld'
    BY <1>1, <1>2, <2>1, GoesRuns, AppliersStayOld DEF Stages
  <2>4. Kept'
    <3> SUFFICES ASSUME ~ broken', OldIsKept'
                 PROVE  ~ broken /\ OldIsKept /\ NoOtherFile' /\ NobodyAhead'
      BY <1>1, KeptBy
    <3>1. (OldAt0' <=> OldAt0) /\ (OldAt1' <=> OldAt1) /\ (OldAt2' <=> OldAt2)
      BY <1>w, <1>1, <1>2, <2>1 DEF OldAt0, OldAt1, OldAt2, Swaps, Swapping
    <3>2. ~ broken /\ OldIsKept /\ NoOtherFile /\ NobodyAhead
      BY <1>0, <1>1, <3>1 DEF OldIsKept, Kept
    <3>3. NoOtherFile'
      BY <1>2, <3>1, <3>2 DEF NoOtherFile, NoneFrom
    <3>4. NobodyAhead'
      BY <1>w, <2>1, <3>1, <3>2 DEF NobodyAhead, Applying, Swaps, Swapping
    <3> QED BY <3>2, <3>3, <3>4
  <2>5. ASSUME ExecutableIsFollowed, ~ broken', About(w)' PROVE Waits(u)'
    <3>1. Waits(u)
      BY <1>0, <1>1, <1>w, <2>1, <2>5 DEF Resolved, About
    <3> QED BY <1>1, <1>2, <2>1, <3>1 DEF Waits, NoneFrom, Applying
  <2>6. Resolved'
    BY <1>1, <1>w, <2>1, <2>5, ResolvedBy DEF About
  <2> QED BY <2>2, <2>3, <2>4, <2>6 DEF InstInv
<1>3. CASE Rename(u, p, p + 1, "moved")
  <2>1. /\ Moves(u, "moved") /\ procs'[u].target = p /\ procs'[w].target = procs[w].target
        /\ procs'[u].stage = "moved" /\ procs'[w].stage = procs[w].stage
        /\ \A v \in Procs : procs'[v].version = procs[v].version
    <3>1. p \in Paths /\ p + 1 \in Paths /\ p # p + 1
      BY <1>1 DEF Paths
    <3> HIDE DEF p
    <3>2. Moves(u, "moved")
      BY <1>0, <1>3, <3>1, RenameMoves DEF Stages
    <3>3. \A v \in Procs : procs'[v].version = procs[v].version
      BY <1>0, <1>3, <3>1, RenameSeen DEF Stages
    <3> QED BY <1>w, <3>2, <3>3 DEF Moves, p
  <2>2. /\ files[p] # "none" /\ files'[p + 1] = files[p] /\ files'[p] = "none"
        /\ \A q \in Paths : q # p /\ q # p + 1 => files'[q] = files[q]
    BY <1>0, <1>1, <1>3 DEF Rename, Exists, HostShape, Paths
  <2>3. RunsItsFile'
    BY <1>1, <1>3, RenameRuns DEF Stages, Paths
  <2>4. ApplierIsOld'
    BY <1>1, <2>1, AppliersStayOld DEF Stages, Applying
  <2>p. p \in Nat /\ 0 \in Paths /\ 1 \in Paths /\ p = procs[u].target
    BY <1>1 DEF Paths
  <2> HIDE DEF p
  <2>a. Applying(u)
    BY <1>1 DEF Applying
  <2>5. SwapsExcluded'
    <3>1. CASE p = 0
      <4>1. ~ Swaps(w, 0)' /\ files'[0] = "none"
        BY <1>0, <1>w, <2>1, <2>2, <3>1 DEF SwapsExcluded, Swaps, Swapping
      <4> QED BY <1>w, <4>1 DEF SwapsExcluded
    <3>2. CASE p # 0
      <4>1. files'[0] = files[0] /\ ~ Swaps(u, 0)' /\ (Swaps(w, 0)' <=> Swaps(w, 0))
        BY <2>1, <2>2, <2>p, <3>2 DEF Swaps, Swapping
      <4> QED BY <1>0, <1>w, <4>1 DEF SwapsExcluded
    <3> QED BY <3>1, <3>2
  <2>6. Kept'
    <3> SUFFICES ASSUME ~ broken', OldIsKept'
                 PROVE  ~ broken /\ OldIsKept /\ NoOtherFile' /\ NobodyAhead'
      BY <1>1, KeptBy
    <3>b. ~ broken
      BY <1>1
    <3>k. OldIsKept => NoOtherFile /\ NobodyAhead
      BY <1>0, <3>b DEF Kept
    <3>1. CASE p = 0
      <4>1. ~ OldAt2'
        <5> SUFFICES ASSUME Swaps(w, 1) PROVE FALSE
          BY <1>w, <2>1, <2>p, <3>1 DEF OldAt2, Swaps, Swapping
        <5>1. Applying(w) /\ procs[w].stage # "resolved" /\ procs[w].target # 0
              /\ procs[w].stage # "down"
          BY DEF Swaps, Swapping, Applying
        <5>2. ExecutableIsFollowed /\ procs[w].version = "old"
          BY <1>0, <5>1 DEF ApplierIsOld
        <5>3. Waits(w)
          BY <1>0, <1>1, <1>w, <2>p, <3>1, <3>b, <5>2 DEF Resolved, About
        <5> QED BY <5>1, <5>2, <5>3 DEF Waits
      <4>2. OldAt0
        BY <2>2, <3>1, <4>1 DEF OldIsKept, OldAt0, OldAt1
      <4>3. NoneFrom(1) /\ NobodyAhead
        BY <3>k, <4>2 DEF OldIsKept, NoOtherFile
      <4>4. ~ Swaps(w, 1)
        BY <1>0, <4>2, <4>3 DEF NobodyAhead, OldAt0, OldAt2, SwapsExcluded
      <4>5. NoneFrom(2)' /\ ~ OldAt0'
        BY <2>2, <3>1, <4>3 DEF NoneFrom, OldAt0, Paths
      <4>6. NobodyAhead'
        BY <1>w, <2>1, <2>p, <3>1, <4>3, <4>4 DEF NobodyAhead, Applying, Swaps, Swapping
      <4> QED BY <3>b, <4>1, <4>2, <4>5, <4>6 DEF NoOtherFile, OldIsKept
    <3>2. CASE p = 1
      <4>1. ~ OldAt0'
        BY <2>2, <2>p, <3>2, <3>k DEF OldAt0, OldIsKept, NoOtherFile, NoneFrom
      <4>2. ~ OldAt1'
        BY <2>2, <3>2 DEF OldAt1
      <4>3. OldAt1
        BY <1>w, <2>1, <2>2, <2>p, <3>2, <4>1, <4>2 DEF OldIsKept, OldAt1, OldAt2, Swaps, Swapping
      <4>4. NoneFrom(2) /\ NobodyAhead
        BY <3>k, <4>3 DEF OldIsKept, NoOtherFile
      <4>5. Swaps(w, 0)
        <5>1. PICK v \in Procs : Swaps(v, 0)
          BY <4>3 DEF OldAt1
        <5>2. v # u
          <6>1. procs[v].target = 0
            BY <5>1 DEF Swaps
          <6>2. procs[u].target = 1
            BY <2>p, <3>2
          <6> QED BY <6>1, <6>2
        <5> QED BY <1>w, <5>1, <5>2
      <4>6. NoneFrom(3)' /\ files'[1] = "none"
        BY <2>2, <3>2, <4>4 DEF NoneFrom, Paths
      <4>7. OldAt2'
        BY <4>1, <4>2 DEF OldIsKept
      <4>8. NobodyAhead'
        BY <1>w, <2>1, <2>p, <3>2, <4>4, <4>5, <4>7 DEF NobodyAhead, Applying, Swaps, Swapping
      <4> QED BY <3>b, <4>1, <4>2, <4>3, <4>6, <4>8 DEF NoOtherFile, OldIsKept
    <3>3. CASE p # 0 /\ p # 1
      <4>1. ~ OldIsKept
        BY <2>a, <2>p, <3>3, <3>k DEF NobodyAhead
      <4>2. ~ OldAt0' /\ ~ OldAt1'
        BY <1>w, <2>1, <2>2, <2>p, <3>3, <4>1 DEF OldIsKept, OldAt0, OldAt1, Swaps, Swapping
      <4>3. ~ OldAt2'
        BY <1>w, <2>1, <2>p, <3>3 DEF OldAt2, Swaps, Swapping
      <4> QED BY <4>2, <4>3 DEF OldIsKept
    <3> QED BY <3>1, <3>2, <3>3
  <2>7. ASSUME ExecutableIsFollowed, ~ broken', About(w)' PROVE Waits(u)'
    <3>1. Waits(u)
      BY <1>0, <1>1, <1>w, <2>1, <2>7 DEF Resolved, About
    <3>2. NoneFrom(2) /\ files[1] = "none"
      BY <1>1, <3>1 DEF Waits
    <3>3. p = 0
      BY <1>1, <2>2, <2>p, <3>2 DEF NoneFrom
    <3>4. NoneFrom(2)'
      BY <2>2, <3>2, <3>3 DEF NoneFrom, Paths
    <3> QED BY <2>1, <3>3, <3>4 DEF Waits
  <2>8. Resolved'
    BY <1>1, <1>w, <2>1, <2>7, ResolvedBy DEF About
  <2> QED BY <2>3, <2>4, <2>5, <2>6, <2>8 DEF InstInv
<1> QED BY <1>2, <1>3 DEF CreateBackup

LEMMA InstallKeeps == ASSUME Inv, NEW u \in Procs, Install(u) PROVE InstInv'
<1> USE AgentHostAssumption
<1>0. /\ HostShape /\ Placed /\ ExecutableInPlace
      /\ SwapsExcluded /\ RunsItsFile /\ ApplierIsOld /\ Kept /\ Resolved
  BY DEF Inv, HostInv, InstInv
<1>w. PICK w \in Procs : w # u /\ Procs = {u, w}
  BY Pair
<1> DEFINE p == procs[u].target
<1>1. /\ procs[u].stage = "moved" /\ procs[u].version = "old" /\ Swaps(u, p)
      /\ p \in Paths /\ UNCHANGED <<vars, broken>>
  BY <1>0 DEF Install, HostShape, Proc, Applying, ApplierIsOld, Swaps, Swapping
<1>p. p \in Nat /\ 0 \in Paths /\ 1 \in Paths /\ p = procs[u].target /\ Applying(u)
  BY <1>1 DEF Paths, Applying
<1>t. ASSUME ExecutableIsFollowed, ~ broken', procs[w].stage = "resolved", procs[w].target = 0
      PROVE  NoneFrom(2) /\ p = 0
  BY <1>0, <1>1, <1>p, <1>w, <1>t DEF Resolved, About, Waits
<1>2. CASE Goes(u, "undoing") /\ UNCHANGED files
  <2>1. Moves(u, "undoing") /\ procs'[u].target = p /\ procs'[w].target = procs[w].target
        /\ procs'[u].stage = "undoing" /\ procs'[w].stage = procs[w].stage
        /\ \A v \in Procs : procs'[v].version = procs[v].version /\ procs'[v].image = procs[v].image
    BY <1>0, <1>w, <1>2, GoesMoves, GoesSeen DEF Moves, Stages
  <2> HIDE DEF p
  <2>s. \A v \in Procs : \A q \in Paths : Swaps(v, q)' <=> Swaps(v, q)
    BY <1>w, <1>1, <1>p, <2>1 DEF Swaps, Swapping
  <2>2. SwapsExcluded'
    BY <1>0, <1>p, <1>2, <2>s DEF SwapsExcluded
  <2>3. RunsItsFile' /\ ApplierIsOld'
    BY <1>1, <1>p, <1>2, <2>1, GoesRuns, AppliersStayOld DEF Stages
  <2>4. Kept'
    <3> SUFFICES ASSUME ~ broken', OldIsKept'
                 PROVE  ~ broken /\ OldIsKept /\ NoOtherFile' /\ NobodyAhead'
      BY <1>1, KeptBy
    <3>1. (OldAt0' <=> OldAt0) /\ (OldAt1' <=> OldAt1) /\ (OldAt2' <=> OldAt2)
      BY <1>p, <1>2, <2>s DEF OldAt0, OldAt1, OldAt2
    <3>2. ~ broken /\ OldIsKept /\ NoOtherFile /\ NobodyAhead
      BY <1>0, <1>1, <3>1 DEF OldIsKept, Kept
    <3>3. NoOtherFile'
      BY <1>2, <3>1, <3>2 DEF NoOtherFile, NoneFrom
    <3>4. NobodyAhead'
      BY <1>w, <1>p, <2>1, <2>s, <3>1, <3>2 DEF NobodyAhead, Applying
    <3> QED BY <3>2, <3>3, <3>4
  <2>5. ASSUME ExecutableIsFollowed, ~ broken', About(w)' PROVE Waits(u)'
    BY <1>2, <1>t, <2>1, <2>5 DEF About, Waits, NoneFrom
  <2>6. Resolved'
    BY <1>1, <1>w, <2>1, <2>5, ResolvedBy DEF About
  <2> QED BY <2>2, <2>3, <2>4, <2>6 DEF InstInv
<1>3. CASE Put(u, p, "new", "installed")
  <2>1. Moves(u, "installed") /\ procs'[u].target = p /\ procs'[w].target = procs[w].target
        /\ procs'[u].stage = "installed" /\ procs'[w].stage = procs[w].stage
        /\ \A v \in Procs : procs'[v].version = procs[v].version
    BY <1>0, <1>w, <1>1, <1>3, PutMoves, PutSeen DEF Moves, Stages, Files, Versions
  <2>2. files'[p] = "new" /\ \A q \in Paths : q # p => files'[q] = files[q]
    BY <1>0, <1>1, <1>3 DEF Put, HostShape
  <2>3. RunsItsFile'
    BY <1>0, <1>1, <1>3, PutRuns DEF Stages, Files, Versions, SwapsExcluded
  <2> HIDE DEF p
  <2>4. ApplierIsOld'
    BY <1>p, <2>1, AppliersStayOld DEF Stages
  <2>s. ~ Swapping(u)' /\ \A q \in Paths : Swaps(w, q)' <=> Swaps(w, q)
    BY <2>1 DEF Swaps, Swapping
  <2>u. p = 0 => ~ Swaps(w, 0)
    BY <1>0, <1>1, <1>w DEF SwapsExcluded
  <2>5. SwapsExcluded'
    BY <1>0, <1>p, <1>w, <2>2, <2>s, <2>u DEF SwapsExcluded, Swaps
  <2>6. Kept'
    <3> SUFFICES ASSUME ~ broken', OldIsKept' PROVE FALSE
      BY <1>1, KeptBy
    <3>k. OldIsKept => NoOtherFile /\ NobodyAhead
      BY <1>0, <1>1 DEF Kept
    <3>1. ~ OldAt2'
      BY <1>w, <2>s DEF OldAt2, Swaps
    <3>2. CASE p = 0
      BY <1>w, <1>p, <2>2, <2>s, <2>u, <3>1, <3>2 DEF OldIsKept, OldAt0, OldAt1, Swaps
    <3>3. CASE p = 1
      <4>1. ~ OldAt1'
        BY <2>2, <3>3, <1>p DEF OldAt1
      <4>2. OldAt0
        BY <1>p, <2>2, <3>1, <3>3, <4>1 DEF OldIsKept, OldAt0
      <4>3. OldAt2
        BY <1>1, <3>3, <3>k, <4>2 DEF OldIsKept, NobodyAhead
      <4> QED BY <1>0, <4>2, <4>3 DEF OldAt0, OldAt2, SwapsExcluded
    <3>4. CASE p # 0 /\ p # 1
      <4>1. ~ OldIsKept
        BY <1>p, <3>4, <3>k DEF NobodyAhead
      <4> QED BY <1>w, <1>p, <2>2, <2>s, <3>1, <3>4, <4>1 DEF OldIsKept, OldAt0, OldAt1, Swaps
    <3> QED BY <3>2, <3>3, <3>4
  <2>7. ASSUME ExecutableIsFollowed, ~ broken', About(w)' PROVE Waits(u)'
    <3>1. NoneFrom(2) /\ p = 0
      BY <1>t, <2>1, <2>7 DEF About
    <3>2. NoneFrom(2)'
      BY <2>2, <3>1 DEF NoneFrom, Paths
    <3> QED BY <2>1, <3>1, <3>2 DEF Waits
  <2>8. Resolved'
    BY <1>1, <1>w, <2>1, <2>7, ResolvedBy DEF About
  <2> QED BY <2>3, <2>4, <2>5, <2>6, <2>8 DEF InstInv
<1> QED BY <1>2, <1>3 DEF Install

LEMMA RestoreBackupKeeps == ASSUME Inv, NEW u \in Procs, RestoreBackup(u) PROVE InstInv'
<1> USE AgentHostAssumption
<1>0. /\ HostShape /\ Placed /\ ExecutableInPlace
      /\ SwapsExcluded /\ RunsItsFile /\ ApplierIsOld /\ Kept /\ Resolved
  BY DEF Inv, HostInv, InstInv
<1>w. PICK w \in Procs : w # u /\ Procs = {u, w}
  BY Pair
<1> DEFINE p == procs[u].target
<1>1. /\ procs[u].stage = "undoing" /\ procs[u].version = "old" /\ Swaps(u, p)
      /\ p \in Paths /\ p + 1 \in Paths /\ UNCHANGED vars
  BY <1>0 DEF RestoreBackup, HostShape, Proc, Placed, Paths, Applying, ApplierIsOld, Swaps, Swapping
<1>p. p \in Nat /\ 0 \in Paths /\ 1 \in Paths /\ p = procs[u].target /\ Applying(u)
  BY <1>1 DEF Paths, Applying
<1>2. CASE Goes(u, "failed") /\ broken' = TRUE /\ UNCHANGED files
  <2>1. Moves(u, "failed") /\ procs'[u].target = p /\ procs'[w].target = procs[w].target
        /\ procs'[u].stage = "failed" /\ procs'[w].stage = procs[w].stage
        /\ \A v \in Procs : procs'[v].version = procs[v].version
    BY <1>0, <1>w, <1>2, GoesMoves, GoesSeen DEF Moves, Stages
  <2> HIDE DEF p
  <2>2. SwapsExcluded'
    BY <1>0, <1>w, <1>2, <2>1 DEF SwapsExcluded, Swaps, Swapping
  <2>3. RunsItsFile' /\ ApplierIsOld'
    BY <1>1, <1>2, <2>1, GoesRuns, AppliersStayOld DEF Stages
  <2>4. Kept' /\ Resolved'
    BY <1>2 DEF Kept, Resolved
  <2> QED BY <2>2, <2>3, <2>4 DEF InstInv
<1>3. CASE Rename(u, p + 1, p, "failed") /\ UNCHANGED broken
  <2>1. Moves(u, "failed") /\ procs'[u].target = p /\ procs'[w].target = procs[w].target
        /\ procs'[u].stage = "failed" /\ procs'[w].stage = procs[w].stage
        /\ \A v \in Procs : procs'[v].version = procs[v].version
    <3>1. p \in Paths /\ p + 1 \in Paths /\ p # p + 1
      BY <1>1 DEF Paths
    <3> HIDE DEF p
    <3>2. Moves(u, "failed")
      BY <1>0, <1>3, <3>1, RenameMoves DEF Stages
    <3>3. \A v \in Procs : procs'[v].version = procs[v].version
      BY <1>0, <1>3, <3>1, RenameSeen DEF Stages
    <3> QED BY <1>w, <3>2, <3>3 DEF Moves, p
  <2>2. /\ files'[p] = files[p + 1] /\ files'[p + 1] = "none"
        /\ \A q \in Paths : q # p /\ q # p + 1 => files'[q] = files[q]
    BY <1>0, <1>1, <1>3 DEF Rename, Exists, HostShape, Paths
  <2>3. RunsItsFile'
    BY <1>0, <1>1, <1>3, RenameRuns DEF Stages, Paths, SwapsExcluded
  <2> HIDE DEF p
  <2>4. ApplierIsOld'
    BY <2>1, AppliersStayOld DEF Stages
  <2>s. ~ Swapping(u)' /\ \A q \in Paths : Swaps(w, q)' <=> Swaps(w, q)
    BY <2>1 DEF Swaps, Swapping
  <2>u. p = 0 => ~ Swaps(w, 0)
    BY <1>0, <1>1, <1>w DEF SwapsExcluded
  <2>5. SwapsExcluded'
    BY <1>0, <1>p, <1>w, <2>2, <2>s, <2>u DEF SwapsExcluded, Swaps
  <2>6. Kept'
    <3> SUFFICES ASSUME ~ broken', OldIsKept'
                 PROVE  ~ broken /\ OldIsKept /\ NoOtherFile' /\ NobodyAhead'
      BY <1>1, KeptBy
    <3>b. ~ broken
      BY <1>3
    <3>k. OldIsKept => NoOtherFile /\ NobodyAhead
      BY <1>0, <3>b DEF Kept
    <3>1. ~ OldAt2'
      BY <1>w, <2>s DEF OldAt2, Swaps
    <3>2. CASE p = 0
      <4>1. ~ OldAt1'
        BY <1>w, <1>p, <2>s, <2>u, <3>2 DEF OldAt1, Swaps
      <4>2. files[1] = "old" /\ OldAt1
        BY <1>1, <2>2, <3>1, <3>2, <4>1 DEF OldIsKept, OldAt0, OldAt1
      <4>3. NoneFrom(2) /\ NobodyAhead /\ ~ OldAt2
        BY <3>k, <4>2 DEF OldIsKept, NoOtherFile
      <4>4. NoneFrom(1)'
        BY <2>2, <3>2, <4>3 DEF NoneFrom, Paths
      <4>5. NobodyAhead'
        BY <1>w, <1>p, <2>1, <2>s, <4>3 DEF NobodyAhead, Applying, Swaps
      <4> QED BY <3>b, <3>1, <4>1, <4>2, <4>4, <4>5 DEF NoOtherFile, OldIsKept
    <3>3. CASE p = 1
      <4>1. ~ OldAt0'
        <5> SUFFICES ASSUME OldAt0 PROVE FALSE
          BY <1>p, <2>2, <3>3 DEF OldAt0
        <5>1. OldAt2
          BY <1>1, <3>3, <3>k DEF OldIsKept, NobodyAhead
        <5> QED BY <1>0, <5>1 DEF OldAt0, OldAt2, SwapsExcluded
      <4>2. files[2] = "old" /\ Swaps(w, 0)
        BY <1>p, <1>w, <2>2, <2>s, <3>1, <3>3, <4>1 DEF OldIsKept, OldAt1, Swaps
      <4>3. OldAt2
        BY <1>1, <3>3, <4>2 DEF OldAt2
      <4>4. NoneFrom(3) /\ NobodyAhead
        BY <3>k, <4>3 DEF OldIsKept, NoOtherFile
      <4>5. NoneFrom(2)'
        BY <2>2, <3>3, <4>4 DEF NoneFrom, Paths
      <4>6. NobodyAhead'
        BY <1>w, <1>p, <2>1, <4>2, <4>4 DEF NobodyAhead, Applying, Swaps, Swapping
      <4> QED BY <3>b, <3>1, <4>1, <4>3, <4>5, <4>6 DEF NoOtherFile, OldIsKept
    <3>4. CASE p # 0 /\ p # 1
      <4>1. ~ OldIsKept
        BY <1>p, <3>4, <3>k DEF NobodyAhead
      <4> QED BY <1>w, <1>p, <2>2, <2>s, <3>1, <3>4, <4>1 DEF OldIsKept, OldAt0, OldAt1, Swaps
    <3> QED BY <3>2, <3>3, <3>4
  <2>7. ASSUME ExecutableIsFollowed, ~ broken', About(w)' PROVE Waits(u)'
    <3>1. NoneFrom(2) /\ p = 0
      BY <1>0, <1>1, <1>3, <1>p, <1>w, <2>1, <2>7 DEF Resolved, About, Waits
    <3>2. NoneFrom(2)' /\ files'[1] = "none"
      BY <2>2, <3>1 DEF NoneFrom, Paths
    <3> QED BY <2>1, <3>2 DEF Waits, Applying
  <2>8. Resolved'
    BY <1>3, <1>w, <2>1, <2>7, ResolvedBy DEF About
  <2> QED BY <2>3, <2>4, <2>5, <2>6, <2>8 DEF InstInv
<1> QED BY <1>2, <1>3 DEF RestoreBackup

LEMMA RemoveBackupKeeps == ASSUME Inv, NEW u \in Procs, RemoveBackup(u) PROVE InstInv'
<1> USE AgentHostAssumption
<1>0. /\ HostShape /\ Placed /\ ExecutableInPlace
      /\ SwapsExcluded /\ RunsItsFile /\ ApplierIsOld /\ Kept /\ Resolved
  BY DEF Inv, HostInv, InstInv
<1>w. PICK w \in Procs : w # u /\ Procs = {u, w}
  BY Pair
<1> DEFINE p == procs[u].target
<1>1. /\ procs[u].stage = "installed" /\ procs[u].version = "old" /\ Applying(u)
      /\ p \in Paths /\ p + 1 \in Paths /\ UNCHANGED <<vars, broken>>
      /\ Put(u, p + 1, "none", "updated")
  BY <1>0 DEF RemoveBackup, HostShape, Proc, Placed, Paths, Applying, ApplierIsOld
<1>2. Moves(u, "updated") /\ procs'[u].target = p /\ procs'[w].target = procs[w].target
      /\ procs'[u].stage = "updated" /\ procs'[w].stage = procs[w].stage
      /\ \A v \in Procs : procs'[v].version = procs[v].version
  BY <1>0, <1>w, <1>1, PutMoves, PutSeen DEF Moves, Stages, Files
<1>3. files'[p + 1] = "none" /\ \A q \in Paths : q # p + 1 => files'[q] = files[q]
  BY <1>0, <1>1 DEF Put, HostShape
<1>4. RunsItsFile'
  BY <1>1, PutRuns DEF Stages, Files, Paths
<1>5. ApplierIsOld'
  BY <1>2, AppliersStayOld DEF Stages
<1>p. p \in Nat /\ 0 \in Paths /\ 1 \in Paths /\ p = procs[u].target
  BY <1>1 DEF Paths
<1> HIDE DEF p
<1>s. ~ Swapping(u)' /\ ~ Swapping(u) /\ \A q \in Paths : Swaps(w, q)' <=> Swaps(w, q)
  BY <1>1, <1>2 DEF Swaps, Swapping
<1>6. SwapsExcluded'
  BY <1>0, <1>p, <1>w, <1>3, <1>s DEF SwapsExcluded, Swaps
<1>7. Kept'
  <2> SUFFICES ASSUME ~ broken', OldIsKept' PROVE FALSE
    BY <1>1, KeptBy
  <2>1. OldIsKept
    <3>1. ~ OldAt2'
      BY <1>w, <1>s DEF OldAt2, Swaps
    <3> QED BY <1>p, <1>w, <1>3, <1>s, <3>1 DEF OldIsKept, OldAt0, OldAt1, Swaps
  <2> QED BY <1>0, <1>1, <2>1 DEF Kept, NobodyAhead
<1>8. ASSUME ExecutableIsFollowed, ~ broken', About(w)' PROVE Waits(u)'
  <2>1. NoneFrom(2) /\ p = 0
    BY <1>0, <1>1, <1>p, <1>w, <1>2, <1>8 DEF Resolved, About, Waits
  <2>2. NoneFrom(2)' /\ files'[1] = "none"
    BY <1>3, <2>1 DEF NoneFrom, Paths
  <2> QED BY <1>2, <2>2 DEF Waits, Applying
<1>9. Resolved'
  BY <1>1, <1>w, <1>2, <1>8, ResolvedBy DEF About
<1> QED BY <1>4, <1>5, <1>6, <1>7, <1>9 DEF InstInv

(* What the reports say of the updates.                                    *)

\* Every request is one of before, perhaps in another phase or abandoned, or
\* announces the current command, or reports it.
LEMMA RequestsSeen ==
  ASSUME TypeOK, [Next]_vars, NEW q \in requests'
  PROVE  \/ \E s \in requests : q.cmd = s.cmd /\ q.kind = s.kind
         \/ q.kind \in {"ack", "running"}
         \/ q.cmd = cur /\ (cur \in Restarting \/ (pc = "executing" /\ pc' = "reporting"))
<1>0. requests \subseteq Request /\ cur \in Commands \cup {NoCommand} /\ todo \subseteq Commands
  BY DEF TypeOK
<1> DEFINE Known == \E s \in requests : q.cmd = s.cmd /\ q.kind = s.kind
<1>1. ASSUME q \in requests PROVE Known
  BY <1>1
<1>a. ASSUME NEW s \in requests, q = Abandoned(s) PROVE Known
  BY <1>0, <1>a, RequestFields DEF Phase
<1>b. ASSUME NEW s \in requests, NEW p \in Phase, q = At(s, p) PROVE Known
  BY <1>0, <1>b, RequestFields
<1>c. ASSUME NEW s \in requests, q \in Without(s) PROVE Known
  BY <1>1, <1>a, <1>c DEF Without, Abandoned
<1>d. ASSUME NEW kind, NEW c, q = Send(kind, c) PROVE q.kind = kind /\ q.cmd = c
  BY <1>d DEF Send
<1> HIDE DEF Known
<1>2. CASE UNCHANGED requests
  BY <1>1, <1>2 DEF Known
<1>3. ASSUME NEW c \in Commands, StartCommand(c)
      PROVE  Known \/ q.kind = "ack"
  BY <1>1, <1>d, <1>3 DEF StartCommand
<1>4. ASSUME NEW r \in requests, ReadRow(r) \/ WriteRow(r) \/ WriteRowFails(r)
      PROVE  Known
  <2>1. q \in requests \/ \E p \in Phase : q = At(r, p)
    BY <1>4 DEF ReadRow, WriteRow, WriteRowFails, Answer, At, Phase
  <2> QED BY <1>1, <1>b, <2>1
<1>5. ASSUME NEW r \in requests, GetAnswer(r) \/ GiveUp(r)
      PROVE  Known \/ q.kind = "running" \/ (q.cmd = cur /\ cur \in Restarting)
  <2>1. PICK ok \in BOOLEAN : Proceed(ok, Without(r))
    BY <1>5 DEF GetAnswer, GiveUp
  <2>2. \/ q \in Without(r) \/ q = Send("running", cur)
        \/ cur \in Restarting /\ q = Send("completed", cur)
    BY <2>1 DEF Proceed, AfterAck, AfterRunning, AfterReport
  <2> QED BY <1>c, <1>d, <2>2
<1>6. ASSUME Execute
      PROVE  Known \/ (q.cmd = cur /\ pc = "executing" /\ pc' = "reporting")
  BY <1>1, <1>d, <1>6 DEF Execute, ReportResult
<1>7. ASSUME AgentCrash PROVE Known
  BY <1>a, <1>7 DEF AgentCrash, Abandoned
<1>8. CASE \/ \E c \in Commands : CreateCommand(c) \/ CancelCommand(c) \/ TimeoutPasses(c)
           \/ MarkTimedOutCommands \/ GetCommands \/ UNCHANGED vars
  BY <1>2, <1>8 DEF CreateCommand, CancelCommand, TimeoutPasses, MarkTimedOutCommands,
                    GetCommands, vars, Known
<1> QED BY <1>3, <1>4, <1>5, <1>6, <1>7, <1>8 DEF Next, Known

\* Only a request that reports it completes a command.
LEMMA CompletionIsRequested ==
  ASSUME TypeOK, [Next]_vars, NEW c \in Commands, status'[c] = "completed"
  PROVE  status[c] = "completed" \/ \E r \in requests : r.cmd = c /\ r.kind = "completed"
<1>0. status \in [Commands -> Status] /\ requests \subseteq Request
  BY DEF TypeOK
<1>1. CASE UNCHANGED status
  BY <1>1
<1>2. ASSUME NEW d \in Commands, CreateCommand(d) \/ CancelCommand(d)
      PROVE  status[c] = "completed"
  BY <1>0, <1>2 DEF CreateCommand, CancelCommand
<1>3. ASSUME MarkTimedOutCommands
      PROVE  status[c] = "completed"
  BY <1>3 DEF MarkTimedOutCommands
<1>4. ASSUME NEW r \in requests, WriteRow(r)
      PROVE  status[c] = "completed" \/ (r.cmd = c /\ r.kind = "completed")
  <2>1. CASE r.cmd = c
    <3>1. status'[c] = NewStatus(r)
      BY <1>0, <1>4, <2>1 DEF WriteRow
    <3> QED BY <2>1, <3>1 DEF NewStatus
  <2>2. CASE r.cmd # c
    BY <1>0, <1>4, <2>2 DEF WriteRow
  <2> QED BY <2>1, <2>2
<1>5. CASE \/ \E d \in Commands : TimeoutPasses(d) \/ StartCommand(d)
           \/ \E r \in requests : ReadRow(r) \/ WriteRowFails(r) \/ GetAnswer(r) \/ GiveUp(r)
           \/ GetCommands \/ Execute \/ AgentCrash \/ UNCHANGED vars
  BY <1>1, <1>5 DEF TimeoutPasses, StartCommand, ReadRow, WriteRowFails, GetAnswer, GiveUp,
                    Proceed, GetCommands, Execute, ReportResult, AgentCrash, vars
<1> QED BY <1>2, <1>3, <1>4, <1>5 DEF Next

\* While no update is reported as completed, only the daemon that has executed
\* one can report it.
LEMMA NoNewReport ==
  ASSUME TypeOK, [Next]_vars, NoneReported, ~ (pc = "executing" /\ pc' = "reporting")
  PROVE  NoneReported'
<1>1. ASSUME NEW c \in Updates, status'[c] = "completed" PROVE FALSE
  <2>1. c \in Commands
    BY AgentHostAssumption
  <2> QED BY <1>1, <2>1, CompletionIsRequested DEF NoneReported
<1>2. ASSUME NEW q \in requests', q.cmd \in Updates, q.kind = "completed" PROVE FALSE
  <2>1. q.cmd \notin Restarting
    BY <1>2, AgentHostAssumption
  <2>2. PICK s \in requests : q.cmd = s.cmd /\ q.kind = s.kind
    BY <1>2, <2>1, RequestsSeen
  <2> QED BY <1>2, <2>2 DEF NoneReported
<1> QED BY <1>1, <1>2 DEF NoneReported

\* It does not report one that Apply did not finish (executeUpdate).
LEMMA UnfinishedIsNotReported ==
  ASSUME TypeOK, HostExecute, NoneReported, procs["daemon"].stage # "updated"
  PROVE  NoneReported'
<1>1. PICK kind \in {"completed", "failed"} :
        /\ cur \in Updates => kind = "failed"
        /\ requests' = requests \cup {Send(kind, cur)}
        /\ UNCHANGED status
  BY DEF HostExecute, ReportResult
<1>2. Send(kind, cur).kind = kind /\ Send(kind, cur).cmd = cur
  BY DEF Send
<1> QED BY <1>1, <1>2 DEF NoneReported

(* How the other steps keep it: a process starts, goes on or ends.         *)

\* While another process is about to move the executable, one that starts what
\* is at p runs the new version for good or finds no .bak.
LEMMA StartedWaits ==
  ASSUME Inv, NEW u \in Procs, NEW w \in Procs, w # u, NEW p \in Paths, Exists(p),
         ExecutableIsFollowed, ~ broken, About(w),
         p = 0 \/ (p = procs[u].image /\ procs[u].stage # "down" /\ ~ Applying(u))
  PROVE  \/ files[p] = "new" /\ p = 0
         \/ NoneFrom(2) /\ files[1] = "none"
<1>0. HostShape /\ RunsItsFile /\ Kept /\ Waits(u) /\ files[p] \in {"old", "new"}
  BY DEF Inv, HostInv, InstInv, Resolved, HostShape, Exists, Files, Versions
<1>1. CASE p = 0
  <2> SUFFICES ASSUME files[0] = "old" PROVE NoneFrom(2) /\ files[1] = "none"
    BY <1>0, <1>1
  <2>1. NoneFrom(1)
    BY <1>0 DEF Kept, OldIsKept, OldAt0, NoOtherFile
  <2> QED BY <2>1, AgentHostAssumption DEF NoneFrom, Paths
<1>2. CASE p # 0
  BY <1>0, <1>2 DEF Waits, Applying
<1> QED BY <1>1, <1>2

\* A step in which u becomes a process outside Apply that runs its file, every
\* swap it cut short is recorded, and no update is newly reported.
LEMMA ReplaceKeeps ==
  ASSUME Inv, NEW u \in Procs, NEW pr \in Proc, procs' = [procs EXCEPT ![u] = pr],
         pr.stage \in {"down", "running", "updated"},
         pr.stage = "updated" => procs[u].stage = "updated",
         pr.stage # "down" => /\ pr.linked => files[pr.image] = pr.version
                              /\ pr.image = 0 => pr.linked,
         ~ ExecutableIsFollowed => pr.target = 0,
         UNCHANGED files, broken => broken', Swapping(u) => broken',
         ~ broken /\ NobodyAhead /\ NoneReported => NoneReported',
         \A w \in Procs \ {u} :
           ExecutableIsFollowed /\ ~ broken /\ About(w) =>
             \/ pr.stage = "down"
             \/ pr.version = "new" /\ pr.image = 0
             \/ NoneFrom(2) /\ files[1] = "none"
  PROVE  InstInv'
<1>0. HostShape /\ SwapsExcluded /\ RunsItsFile /\ ApplierIsOld /\ Kept /\ Resolved
  BY DEF Inv, HostInv, InstInv
<1>w. PICK w \in Procs : w # u /\ Procs = {u, w}
  BY Pair
<1>1. procs'[u] = pr /\ procs'[w] = procs[w]
  BY <1>0, <1>w DEF HostShape
<1>2. ~ Swapping(u)' /\ ~ Applying(u)' /\ ~ About(u)'
  BY <1>1 DEF Swapping, Applying, About
<1>3. SwapsExcluded'
  BY <1>0, <1>w, <1>1, <1>2 DEF SwapsExcluded, Swaps, Swapping
<1>4. RunsItsFile'
  BY <1>0, <1>w, <1>1 DEF RunsItsFile
<1>5. ApplierIsOld'
  BY <1>0, <1>w, <1>1, <1>2 DEF ApplierIsOld, Applying
<1>6. Kept'
  <2> SUFFICES ASSUME ~ broken', OldIsKept'
               PROVE  NoOtherFile' /\ NobodyAhead' /\ NoneReported'
    BY DEF Kept
  <2>1. ~ broken /\ ~ Swapping(u)
    OBVIOUS
  <2>2. \A v \in Procs : \A q : Swaps(v, q)' <=> Swaps(v, q)
    <3>1. \A q : ~ Swaps(u, q) /\ ~ Swaps(u, q)'
      BY <1>2, <2>1 DEF Swaps
    <3>2. \A q : Swaps(w, q)' <=> Swaps(w, q)
      BY <1>1 DEF Swaps, Swapping
    <3> QED BY <1>w, <3>1, <3>2
  <2>3. (OldAt0' <=> OldAt0) /\ (OldAt1' <=> OldAt1) /\ (OldAt2' <=> OldAt2)
    BY <2>2 DEF OldAt0, OldAt1, OldAt2
  <2>4. NoOtherFile /\ NobodyAhead /\ NoneReported
    BY <1>0, <2>1, <2>3 DEF Kept, OldIsKept
  <2>5. NoOtherFile'
    BY <2>3, <2>4 DEF NoOtherFile, NoneFrom
  <2>6. procs'[u].stage \notin {"installed", "updated"}
    BY <1>1, <2>4 DEF NobodyAhead
  <2>7. NobodyAhead'
    BY <1>w, <1>1, <1>2, <2>2, <2>3, <2>4, <2>6 DEF NobodyAhead, Applying
  <2> QED BY <2>1, <2>4, <2>5, <2>7
<1>7. ASSUME ExecutableIsFollowed, ~ broken', About(w)' PROVE Waits(u)'
  <2>1. \/ pr.stage = "down"
        \/ pr.version = "new" /\ pr.image = 0
        \/ NoneFrom(2) /\ files[1] = "none"
    BY <1>w, <1>1, <1>7 DEF About
  <2>2. (NoneFrom(2) /\ files[1] = "none") => (NoneFrom(2) /\ files[1] = "none")'
    BY DEF NoneFrom
  <2> QED BY <1>1, <1>2, <2>1, <2>2 DEF Waits
<1>8. Resolved'
  BY <1>w, <1>2, <1>7, ResolvedBy
<1> QED BY <1>3, <1>4, <1>5, <1>6, <1>8 DEF InstInv

\* A process that starts what is at p, where it is not in Apply.
LEMMA StartKeeps ==
  ASSUME Inv, TypeOK, [HostNext]_hostVars, NEW u \in Procs, NEW p \in Paths, Exists(p),
         procs' = [procs EXCEPT ![u] = Started(p)], UNCHANGED <<files, broken>>,
         ~ Applying(u), ~ (pc = "executing" /\ pc' = "reporting"),
         p = 0 \/ (p = procs[u].image /\ procs[u].stage # "down")
  PROVE  InstInv'
<1>1. HostShape
  BY DEF Inv, HostInv
<1> DEFINE pr == Started(p)
<1>2. /\ pr \in Proc /\ pr.stage = "running" /\ pr.version = files[p]
      /\ pr.image = p /\ pr.linked /\ pr.target = 0
  BY <1>1, StartedShape DEF Started
<1>3. ~ Swapping(u)
  BY DEF Swapping, Applying
<1>4. \A w \in Procs \ {u} :
        ExecutableIsFollowed /\ ~ broken /\ About(w) =>
          \/ pr.version = "new" /\ pr.image = 0
          \/ NoneFrom(2) /\ files[1] = "none"
  <2> HIDE DEF pr
  <2> SUFFICES ASSUME NEW w \in Procs \ {u}, ExecutableIsFollowed, ~ broken, About(w)
               PROVE  \/ files[p] = "new" /\ p = 0
                      \/ NoneFrom(2) /\ files[1] = "none"
    BY <1>2
  <2> QED BY StartedWaits
<1>5. NoneReported => NoneReported'
  BY HostStep, NoNewReport
<1>6. procs' = [procs EXCEPT ![u] = pr]
  OBVIOUS
<1> HIDE DEF pr
<1> QED BY <1>2, <1>3, <1>4, <1>5, <1>6, ReplaceKeeps

\* A process outside Apply that goes on.
LEMMA GoesOnKeeps ==
  ASSUME Inv, TypeOK, NEW u \in Procs, NEW stage \in {"running", "updated"},
         stage = "updated" => procs[u].stage = "updated", Goes(u, stage),
         procs[u].stage # "down", ~ Applying(u), UNCHANGED <<files, broken>>,
         ~ broken /\ NobodyAhead /\ NoneReported => NoneReported'
  PROVE  InstInv'
<1>1. HostShape /\ RunsItsFile /\ ApplierIsOld /\ Resolved
  BY DEF Inv, HostInv, InstInv
<1> DEFINE pr == [procs[u] EXCEPT !.stage = stage]
<1>2. procs' = [procs EXCEPT ![u] = pr]
  BY DEF Goes
<1>3. /\ pr \in Proc /\ pr.stage = stage /\ pr.version = procs[u].version
      /\ pr.image = procs[u].image /\ pr.linked = procs[u].linked /\ pr.target = procs[u].target
  BY <1>1 DEF HostShape, Proc, Stages
<1>4. ~ Swapping(u)
  BY DEF Swapping, Applying
<1>5. /\ pr.linked => files[pr.image] = pr.version
      /\ pr.image = 0 => pr.linked
      /\ ~ ExecutableIsFollowed => pr.target = 0
  <2> HIDE DEF pr
  <2> QED BY <1>1, <1>3 DEF RunsItsFile, ApplierIsOld
<1>6. \A w \in Procs \ {u} :
        ExecutableIsFollowed /\ ~ broken /\ About(w) =>
          \/ pr.version = "new" /\ pr.image = 0
          \/ NoneFrom(2) /\ files[1] = "none"
  <2> HIDE DEF pr
  <2> SUFFICES ASSUME NEW w \in Procs \ {u}, ExecutableIsFollowed, ~ broken, About(w)
               PROVE  \/ procs[u].version = "new" /\ procs[u].image = 0
                      \/ NoneFrom(2) /\ files[1] = "none"
    BY <1>3
  <2>1. Waits(u)
    BY <1>1 DEF Resolved
  <2> QED BY <2>1 DEF Waits, Applying
<1> HIDE DEF pr
<1> QED BY <1>2, <1>3, <1>4, <1>5, <1>6, ReplaceKeeps

\* A process that ends.
LEMMA EndKeeps ==
  ASSUME Inv, TypeOK, [HostNext]_hostVars, NEW u \in Procs, Ends(u), UNCHANGED files,
         broken => broken', Swapping(u) => broken',
         ~ (pc = "executing" /\ pc' = "reporting")
  PROVE  InstInv'
<1>1. /\ Stopped \in Proc /\ Stopped.stage = "down" /\ Stopped.target = 0
      /\ procs' = [procs EXCEPT ![u] = Stopped]
  BY AgentHostAssumption DEF Stopped, Proc, Stages, Versions, Paths, Ends
<1>2. NoneReported => NoneReported'
  BY HostStep, NoNewReport
<1> QED BY <1>1, <1>2, ReplaceKeeps

\* A step that leaves the host alone.
LEMMA AloneKeeps ==
  ASSUME Inv, TypeOK, [HostNext]_hostVars, UNCHANGED host,
         ~ (pc = "executing" /\ pc' = "reporting")
  PROVE  InstInv'
<1>1. NoneReported => NoneReported'
  BY HostStep, NoNewReport
<1>2. SwapsExcluded' /\ RunsItsFile' /\ ApplierIsOld' /\ Resolved'
  BY DEF Inv, InstInv, host, SwapsExcluded, Swaps, Swapping, RunsItsFile, ApplierIsOld, Applying,
         Resolved, About, Waits, NoneFrom
<1>3. (broken' <=> broken) /\ (OldIsKept' <=> OldIsKept)
  BY DEF host, OldIsKept, OldAt0, OldAt1, OldAt2, Swaps, Swapping
<1>4. (NoOtherFile' <=> NoOtherFile) /\ (NobodyAhead' <=> NobodyAhead)
  BY DEF host, NoOtherFile, NobodyAhead, OldAt0, OldAt1, OldAt2, Swaps, Swapping, Applying, NoneFrom
<1>5. Kept'
  BY <1>1, <1>3, <1>4 DEF Inv, InstInv, Kept
<1> QED BY <1>2, <1>5 DEF InstInv

LEMMA InstInvInit == ASSUME HostInit PROVE InstInv
<1>0. 0 \in Paths
  BY AgentHostAssumption DEF Paths
<1>1. /\ files[0] = "old" /\ \A p \in Paths : p # 0 => files[p] = "none"
      /\ ~ broken
      /\ status = [c \in Commands |-> "unborn"] /\ requests = {}
  BY <1>0 DEF HostInit, Init
<1>2. \A u \in Procs : /\ procs[u].stage \in {"down", "running"} /\ procs[u].version = "old"
                       /\ procs[u].image = 0 /\ procs[u].target = 0
                       /\ procs[u].stage = "running" => procs[u].linked
  BY DEF HostInit, Stopped
<1>3. \A u \in Procs : ~ Swapping(u) /\ ~ Applying(u)
  BY <1>2 DEF Swapping, Applying
<1>4. SwapsExcluded /\ RunsItsFile /\ ApplierIsOld /\ Resolved
  BY <1>1, <1>2, <1>3 DEF SwapsExcluded, Swaps, RunsItsFile, ApplierIsOld, Resolved, About
<1>5. NoOtherFile
  <2>1. NoneFrom(1)
    BY <1>1 DEF NoneFrom, Paths
  <2> QED BY <1>3, <2>1 DEF NoOtherFile, OldAt1, OldAt2, Swaps
<1>6. NobodyAhead /\ NoneReported
  BY <1>1, <1>2, <1>3, AgentHostAssumption DEF NobodyAhead, NoneReported, Swaps
<1> QED BY <1>4, <1>5, <1>6 DEF InstInv, Kept

LEMMA InvStep == ASSUME Inv, TypeOK, [HostNext]_hostVars PROVE Inv'
<1>0. HostShape /\ Placed /\ DownIsIdle /\ "daemon" \in Procs /\ "cli" \in Procs /\ 0 \in Paths
  BY AgentHostAssumption DEF Inv, HostInv, Procs, Paths
<1>h. HostInv'
  BY HostInvStep DEF Inv
<1>p. Applying("daemon") => pc = "executing"
  BY <1>0 DEF Placed, Updating
<1>1. CASE UNCHANGED hostVars
  BY <1>1, <1>h, AloneKeeps DEF Inv, hostVars, vars, agent
<1>2. CASE Server
  <2>1. UNCHANGED <<agent, host>>
    BY <1>2 DEF Server, CreateCommand, CancelCommand, TimeoutPasses, MarkTimedOutCommands,
                ReadRow, WriteRow, WriteRowFails
  <2> QED BY <2>1, <1>h, AloneKeeps DEF Inv, agent
<1>3. CASE Poll
  <2>1. pc = "idle" /\ UNCHANGED host
    BY <1>3 DEF Poll, GetCommands, StartCommand
  <2> QED BY <2>1, <1>h, AloneKeeps DEF Inv
<1>4. CASE HostExecute
  <2>1. procs["daemon"].stage \in {"running", "updated", "failed"} /\ UNCHANGED <<files, broken>>
    BY <1>4 DEF HostExecute
  <2>2. PICK stage \in {"running", "updated"} :
          /\ Goes("daemon", stage)
          /\ stage = "updated" => procs["daemon"].stage = "updated"
    <3>1. CASE procs["daemon"].stage = "failed"
      BY <1>4, <3>1 DEF HostExecute, Goes
    <3>2. CASE procs["daemon"].stage # "failed"
      BY <1>4, <2>1, <3>2 DEF HostExecute, Goes
    <3> QED BY <3>1, <3>2
  <2>3. NobodyAhead /\ NoneReported => NoneReported'
    BY <1>0, <1>4, UnfinishedIsNotReported DEF NobodyAhead
  <2> QED BY <1>0, <1>h, <2>1, <2>2, <2>3, GoesOnKeeps DEF Inv, Applying
<1>5. CASE HostProceed
  <2>1. pc \in {"acking", "starting", "reporting"}
    BY <1>5 DEF HostProceed, GetAnswer, GiveUp, Proceed
  <2>2. procs["daemon"].stage # "down" /\ ~ Applying("daemon")
    BY <1>0, <1>p, <2>1 DEF DownIsIdle
  <2>3. CASE ~ RestartDue
    BY <1>5, <1>h, <2>1, <2>3, AloneKeeps DEF Inv, HostProceed
  <2>4. CASE RestartDue
    <3>1. Restart /\ UNCHANGED <<files, broken>>
      BY <1>5, <2>4 DEF HostProceed
    <3> DEFINE p == Executable("daemon")
    <3>2. p \in Paths /\ (p = 0 \/ p = procs["daemon"].image)
      BY <1>0 DEF Executable, HostShape, Proc
    <3>3. CASE Exists(p)
      <4>1. procs' = [procs EXCEPT !["daemon"] = Started(p)]
        BY <3>1, <3>3 DEF Restart
      <4> HIDE DEF p
      <4> QED BY <1>0, <1>h, <2>1, <2>2, <3>1, <3>2, <3>3, <4>1, StartKeeps DEF Inv
    <3>4. CASE ~ Exists(p)
      <4>1. Goes("daemon", "running")
        BY <3>1, <3>4 DEF Restart
      <4>2. NoneReported => NoneReported'
        BY <2>1, HostStep, NoNewReport
      <4> QED BY <1>0, <1>h, <2>2, <3>1, <4>1, <4>2, GoesOnKeeps DEF Inv
    <3> QED BY <3>3, <3>4
  <2> QED BY <2>3, <2>4
<1>6. CASE \E u \in Procs : Apply(u)
  BY <1>6, <1>h, BeginApplyKeeps, CreateBackupKeeps, InstallKeeps, RestoreBackupKeeps,
     RemoveBackupKeeps DEF Apply, Inv
<1>7. CASE StartCli
  BY <1>0, <1>7, <1>h, StartKeeps DEF StartCli, Inv, Applying, vars, agent
<1>8. CASE EndCli
  BY <1>0, <1>8, <1>h, EndKeeps DEF EndCli, Inv, Swapping, vars, agent
<1>9. CASE KillCli
  BY <1>0, <1>9, <1>h, EndKeeps DEF KillCli, Inv, vars, agent
<1>10. CASE Kill
  <2>1. pc' = "idle"
    BY <1>10 DEF Kill, AgentCrash, NextCommand, vars, agent
  <2> QED BY <1>0, <1>10, <1>h, <2>1, EndKeeps DEF Kill, Inv
<1>11. CASE StartService
  BY <1>0, <1>11, <1>h, StartKeeps DEF StartService, Inv, Applying, vars, agent
<1> QED BY <1>1, <1>2, <1>3, <1>4, <1>5, <1>6, <1>7, <1>8, <1>9, <1>10, <1>11 DEF HostNext

-----------------------------------------------------------------------------
\* The host keeps its types, and Apply runs in the daemon only while it
\* executes an update (executeUpdate).
THEOREM HostTypeCorrect == HostSpec => []HostTypeOK
<1>1. HostInv /\ TypeOK => HostTypeOK
  BY DEF HostInv, HostShape, Placed, DownIsIdle, HostTypeOK
<1> QED BY <1>1, HostInvInit, HostInvStep, ImplementsCommandsHolds, TypeCorrect,
           PTL DEF HostSpec, ImplementsCommands

\* The agent's executable is in place except while a swap of it is under way or
\* was cut short, however the daemon's and the administrator's updates meet
\* (Updater.Apply).
THEOREM ExecutableInPlaceHolds == HostSpec => []ExecutableInPlace
<1>1. HostInv => ExecutableInPlace
  BY DEF HostInv
<1> QED BY <1>1, HostInvInit, HostInvStep, PTL DEF HostSpec

\* An update recorded as completed has left the new version at the executable's
\* path, or a swap of it is under way or was cut short, whichever file
\* os.Executable finds and whoever updates at the same time (executeUpdate,
\* Updater.Apply).
THEOREM CompletedUpdateIsInstalledHolds == HostSpec => []CompletedUpdateIsInstalled
<1>1. HostInit => Inv
  BY HostInvInit, InstInvInit DEF Inv
<1>2. Inv /\ TypeOK /\ [HostNext]_hostVars => Inv'
  BY InvStep
<1>3. Inv => CompletedUpdateIsInstalled
  BY CompletedIsInstalled
<1> QED BY <1>1, <1>2, <1>3, ImplementsCommandsHolds, TypeCorrect,
           PTL DEF HostSpec, ImplementsCommands

\* On its host, too, the daemon executes no command twice (executeCommand).
THEOREM ExecutedAtMostOnceOnHost == HostSpec => []ExecutedAtMostOnce
BY ImplementsCommandsHolds, ExecutedAtMostOnceHolds, PTL DEF ImplementsCommands
=============================================================================
