------------------------------ MODULE AgentHost ------------------------------
(***************************************************************************)
(* The agent's daemon on its host: AgentCommands together with what the    *)
(* update and restart commands do there, and with an administrator who     *)
(* runs `keldris-agent update` at the same time.                           *)
(*                                                                         *)
(* Updater.Apply renames the executable to .bak, renames the downloaded    *)
(* file to its name and removes the .bak; when the second rename fails it  *)
(* renames the .bak back.  It finds the executable, and a restart does,    *)
(* with os.Executable, which on Linux follows the file it was started from *)
(* through every rename.  Nothing keeps two of these apart.                *)
(***************************************************************************)
EXTENDS AgentCommands

CONSTANTS
  Updates,             \* the commands of type update
  MaxBak,              \* bound: how many times ".bak" is appended to the path
  ExecutableIsFollowed, \* os.Executable reads /proc/self/exe (Linux)
  HostFaults           \* a subset of {"rename_error", "kill"}

ASSUME AgentHostAssumption ==
  /\ Updates \subseteq Commands \ Restarting
  /\ MaxBak \in Nat \ {0}
  /\ ExecutableIsFollowed \in BOOLEAN
  /\ HostFaults \subseteq {"rename_error", "kill"}

VARIABLES
  files,   \* the executable (0), its .bak (1), that one's .bak (2) and so on
  procs,   \* the daemon and the administrator's command
  broken   \* history: a swap was cut short between its renames, or not undone

host == <<files, procs, broken>>
hostVars == <<vars, host>>

Paths == 0 .. MaxBak

Versions == {"old", "new"}

Files == Versions \cup {"none"}

Procs == {"daemon", "cli"}

\* stage: down, running, or a place in Updater.Apply or after it; image: where
\* the file it runs is, or was when it was removed; linked: it still is there;
\* target: the path Apply works on.
Stages ==
  {"down", "running", "resolved", "moved", "undoing", "installed", "updated", "failed"}

Proc == [stage : Stages, version : Versions, image : Paths, linked : BOOLEAN, target : Paths]

\* u is in Apply; between its renames.
Applying(u) == procs[u].stage \in {"resolved", "moved", "undoing", "installed"}

Swapping(u) == procs[u].stage \in {"moved", "undoing"}

Exists(p) == files[p] # "none"

Goes(u, stage) == procs' = [procs EXCEPT ![u].stage = stage]

Started(p) == [stage |-> "running", version |-> files[p], image |-> p, linked |-> TRUE,
               target |-> 0]

Stopped == [stage |-> "down", version |-> "old", image |-> 0, linked |-> FALSE, target |-> 0]

Ends(u) == procs' = [procs EXCEPT ![u] = Stopped]

\* os.Executable, without the " (deleted)" of a file that is gone.
Executable(u) == IF ExecutableIsFollowed THEN procs[u].image ELSE 0

-----------------------------------------------------------------------------
(* Renames, as every process sees the file it runs.                        *)

Follows(pr, from, to) ==
  CASE pr.linked /\ pr.image = from -> [pr EXCEPT !.image = to]
    [] pr.linked /\ pr.image = to   -> [pr EXCEPT !.linked = FALSE]
    [] OTHER                        -> pr

\* os.Rename by u, which goes to a stage.
Rename(u, from, to, stage) ==
  /\ Exists(from)
  /\ files' = [files EXCEPT ![to] = files[from], ![from] = "none"]
  /\ procs' = [v \in Procs |-> LET pr == Follows(procs[v], from, to)
                               IN  IF v = u THEN [pr EXCEPT !.stage = stage] ELSE pr]

RenameFails(from) == ~ Exists(from) \/ "rename_error" \in HostFaults

\* A new file at p, none if content is "none".
Put(u, p, content, stage) ==
  /\ files' = [files EXCEPT ![p] = content]
  /\ procs' = [v \in Procs |->
                 LET pr == IF procs[v].image = p THEN [procs[v] EXCEPT !.linked = FALSE]
                                                 ELSE procs[v]
                 IN  IF v = u THEN [pr EXCEPT !.stage = stage] ELSE pr]

-----------------------------------------------------------------------------
HostInit ==
  /\ Init
  /\ files = [p \in Paths |-> IF p = 0 THEN "old" ELSE "none"]
  /\ procs = [u \in Procs |-> IF u = "daemon" THEN [Stopped EXCEPT !.stage = "running", !.linked = TRUE]
                                               ELSE Stopped]
  /\ broken = FALSE

(* Updater.Apply, in the daemon's executeUpdate or the command's runUpdate. *)

Updating(u) == IF u = "daemon" THEN pc = "executing" /\ cur \in Updates ELSE TRUE

\* A newer release was found and downloaded; the executable's path resolves.
BeginApply(u) ==
  /\ procs[u].stage = "running" /\ Updating(u)
  /\ procs[u].version = "old"
  /\ Exists(Executable(u)) /\ Executable(u) < MaxBak
  /\ procs' = [procs EXCEPT ![u].stage = "resolved", ![u].target = Executable(u)]
  /\ UNCHANGED <<vars, files, broken>>

CreateBackup(u) ==
  LET p == procs[u].target
  IN  /\ procs[u].stage = "resolved"
      /\ \/ Rename(u, p, p + 1, "moved")
         \/ RenameFails(p) /\ Goes(u, "failed") /\ UNCHANGED files
      /\ UNCHANGED <<vars, broken>>

Install(u) ==
  /\ procs[u].stage = "moved"
  /\ \/ Put(u, procs[u].target, "new", "installed")
     \/ "rename_error" \in HostFaults /\ Goes(u, "undoing") /\ UNCHANGED files
  /\ UNCHANGED <<vars, broken>>

\* Mutant: the paths are swapped.
RestoreBackup_Swapped(u) ==
  LET p == procs[u].target
  IN  /\ procs[u].stage = "undoing"
      /\ \/ Rename(u, p, p + 1, "failed") /\ UNCHANGED broken
         \/ ~ Exists(p) /\ Goes(u, "failed") /\ UNCHANGED <<files, broken>>
      /\ UNCHANGED vars

\* Its error is ignored.
RestoreBackup(u) ==
  LET p == procs[u].target
  IN  /\ procs[u].stage = "undoing"
      /\ \/ Rename(u, p + 1, p, "failed") /\ UNCHANGED broken
         \/ RenameFails(p + 1) /\ Goes(u, "failed") /\ broken' = TRUE /\ UNCHANGED files
      /\ UNCHANGED vars

RemoveBackup(u) ==
  /\ procs[u].stage = "installed"
  /\ Put(u, procs[u].target + 1, "none", "updated")
  /\ UNCHANGED <<vars, broken>>

Apply(u) == BeginApply(u) \/ CreateBackup(u) \/ Install(u) \/ RestoreBackup(u) \/ RemoveBackup(u)

-----------------------------------------------------------------------------
(* The administrator's command.                                            *)

StartCli ==
  /\ procs["cli"].stage = "down"
  /\ Exists(0)
  /\ procs' = [procs EXCEPT !["cli"] = Started(0)]
  /\ UNCHANGED <<vars, files, broken>>

\* It found nothing to do, gave up, or tries to restart itself and ends.
EndCli ==
  /\ procs["cli"].stage \in {"running", "updated", "failed"}
  /\ Ends("cli")
  /\ UNCHANGED <<vars, files, broken>>

KillCli ==
  /\ "kill" \in HostFaults
  /\ procs["cli"].stage # "down"
  /\ Ends("cli")
  /\ broken' = (broken \/ Swapping("cli"))
  /\ UNCHANGED <<vars, files>>

-----------------------------------------------------------------------------
(* The daemon: every step of AgentCommands, and what it means on the host. *)

Server ==
  /\ \/ \E c \in Commands : CreateCommand(c) \/ CancelCommand(c) \/ TimeoutPasses(c)
     \/ MarkTimedOutCommands
     \/ \E r \in requests : ReadRow(r) \/ WriteRow(r) \/ WriteRowFails(r)
  /\ UNCHANGED host

Poll ==
  /\ procs["daemon"].stage # "down"
  /\ GetCommands \/ \E c \in Commands : StartCommand(c)
  /\ UNCHANGED host

\* Mutant: an error of Apply is only logged.
HostExecute_IgnoresApply ==
  /\ procs["daemon"].stage \in {"running", "updated", "failed"}
  /\ Execute
  /\ procs' = [procs EXCEPT !["daemon"].stage = IF @ = "failed" THEN "running" ELSE @]
  /\ UNCHANGED <<files, broken>>

\* An update has completed if Apply did; it fails for many other reasons.
HostExecute ==
  /\ procs["daemon"].stage \in {"running", "updated", "failed"}
  /\ \E kind \in {"completed", "failed"} :
       /\ cur \in Updates => (kind = "completed" <=> procs["daemon"].stage = "updated")
       /\ ReportResult(kind)
  /\ procs' = [procs EXCEPT !["daemon"].stage = IF @ = "failed" THEN "running" ELSE @]
  /\ UNCHANGED <<files, broken>>

\* executeRestart: syscall.Exec of os.Executable; when that fails it goes on.
Restart ==
  LET p == Executable("daemon")
  IN  IF Exists(p)
      THEN todo' = {} /\ procs' = [procs EXCEPT !["daemon"] = Started(p)]
      ELSE todo' = todo /\ Goes("daemon", "running")

RestartDue == pc = "reporting" /\ (cur \in Restarting \/ procs["daemon"].stage = "updated")

HostProceed ==
  /\ \E r \in requests : GetAnswer(r) \/ GiveUp(r)
  /\ IF RestartDue THEN Restart /\ UNCHANGED <<files, broken>>
     ELSE UNCHANGED host /\ (pc = "reporting" => todo' = todo)

\* The daemon dies, also when it waits for nothing.
Kill ==
  /\ "crash" \in Faults
  /\ procs["daemon"].stage # "down"
  /\ \/ AgentCrash
     \/ pc = "idle" /\ todo = {} /\ UNCHANGED vars
  /\ Ends("daemon")
  /\ broken' = (broken \/ Swapping("daemon"))
  /\ UNCHANGED files

\* The service manager starts it again (Restart=always).
StartService ==
  /\ procs["daemon"].stage = "down"
  /\ Exists(0)
  /\ procs' = [procs EXCEPT !["daemon"] = Started(0)]
  /\ UNCHANGED <<vars, files, broken>>

HostNext ==
  \/ Server \/ Poll \/ HostExecute \/ HostProceed
  \/ \E u \in Procs : Apply(u)
  \/ StartCli \/ EndCli \/ KillCli
  \/ Kill \/ StartService

HostSpec == HostInit /\ [][HostNext]_hostVars

\* That of AgentCommands, and processes and the service manager go on.
HostFairness ==
  /\ WF_hostVars(Server /\ \E r \in requests : ReadRow(r) \/ WriteRow(r))
  /\ \A c \in Commands : WF_hostVars(Server /\ TimeoutPasses(c))
  /\ WF_hostVars(Server /\ MarkTimedOutCommands)
  /\ WF_hostVars(Poll) /\ WF_hostVars(HostExecute)
  /\ WF_hostVars(HostProceed /\ \E r \in requests : GetAnswer(r))
  /\ \A u \in Procs : WF_hostVars(Apply(u))
  /\ WF_hostVars(StartService)

FairHostSpec == HostSpec /\ HostFairness

-----------------------------------------------------------------------------
(* Properties.                                                             *)

\* Type invariant; Apply runs in the daemon only while it executes an update.
HostTypeOK ==
  /\ TypeOK
  /\ files \in [Paths -> Files]
  /\ procs \in [Procs -> Proc]
  /\ broken \in BOOLEAN
  /\ \A u \in Procs : Applying(u) => Updating(u) /\ procs[u].target < MaxBak
  /\ procs["daemon"].stage = "down" => pc = "idle" /\ todo = {}

\* The executable is missing because a swap of it is under way, or was cut short.
BeingSwapped == broken \/ \E u \in Procs : Swapping(u) /\ procs[u].target = 0

\* The agent can be started again: its executable is in place except while a
\* swap is between its renames, although two updates may rename, restore and
\* remove each other's files (Updater.Apply).
ExecutableInPlace == Exists(0) \/ BeingSwapped

\* An update recorded as completed left the new version where the service
\* manager starts it, whoever else updates (executeUpdate, Updater.Apply).
CompletedUpdateIsInstalled ==
  \A c \in Updates : status[c] = "completed" => files[0] = "new" \/ BeingSwapped

\* On its host the daemon still behaves as AgentCommands says (executeCommand).
ImplementsCommands == Spec

\* A swap that has to be undone finds its backup (Updater.Apply: "Restore
\* backup").  It does not if the other process has moved or removed it.
UndoFindsBackup ==
  \A u \in Procs : procs[u].stage = "undoing" => Exists(procs[u].target + 1)

\* A completed update takes effect: the daemon comes to run the new version
\* (Updater.Apply: "replaces the current binary with the new one and restarts").
\* It does not where os.Executable follows the file that Apply has removed.
UpdateTakesEffect ==
  \A c \in Updates :
    status[c] = "completed" ~> procs["daemon"].version = "new" \/ broken
=============================================================================
