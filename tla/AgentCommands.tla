---------------------------- MODULE AgentCommands ----------------------------
(***************************************************************************)
(* Commands a user gives to one agent: the server's handlers over the      *)
(* agent_commands table, the timeout worker, and the agent's poll loop.    *)
(*                                                                         *)
(* The agent makes one request at a time, but a request it gave up on is   *)
(* still being served.  The acknowledge and result handlers read the row,  *)
(* check its status and later write the whole row by id; cancelling and    *)
(* timing out are single guarded UPDATEs.                                  *)
(***************************************************************************)
EXTENDS Naturals, FiniteSets

CONSTANTS
  Commands,          \* identities of commands
  Restarting,        \* those whose completion is reported before they act
  NoCommand,         \* the agent is not on any command
  UserCancels,       \* whether users cancel
  TimeoutWorkerRuns, \* whether a commands.TimeoutWorker was started
  Faults             \* a subset of {"lost", "write_error", "crash"}

ASSUME AgentCommandsAssumption ==
  /\ Restarting \subseteq Commands
  /\ NoCommand \notin Commands
  /\ UserCancels \in BOOLEAN
  /\ TimeoutWorkerRuns \in BOOLEAN
  /\ Faults \subseteq {"lost", "write_error", "crash"}

VARIABLES
  status,    \* the status column of agent_commands
  expired,   \* commands whose timeout_at has passed
  requests,  \* acknowledge and result requests being served
  pc,        \* what the agent's executeCommand waits for
  cur,       \* the command it is on
  todo,      \* what is left of the list GetCommands returned
  runs       \* history: how often the agent started to execute a command

vars == <<status, expired, requests, pc, cur, todo, runs>>
agent == <<pc, cur, todo>>

Open == {"pending", "acknowledged", "running"}
Terminal == {"completed", "failed", "timed_out", "canceled"}
Status == {"unborn"} \cup Open \cup Terminal

Kinds == {"ack", "running", "completed", "failed"}

\* phase: sent, row read and checked, answered; live: the agent still waits.
\* One abandoned request of a kind, phase and command stands for all alike.
Request == [cmd : Commands, kind : Kinds, live : BOOLEAN,
            phase : {"sent", "read", "ok", "error"}]

Send(kind, c) == [cmd |-> c, kind |-> kind, live |-> TRUE, phase |-> "sent"]

Answered(r) == r.phase \in {"ok", "error"}

\* Nobody reads the answer to an abandoned request.
Answer(r, phase) ==
  (requests \ {r}) \cup IF r.live THEN {[r EXCEPT !.phase = phase]} ELSE {}

\* The requests left when the agent stops waiting for r.
Without(r) ==
  (requests \ {r}) \cup IF Answered(r) THEN {} ELSE {[r EXCEPT !.live = FALSE]}

-----------------------------------------------------------------------------
Init ==
  /\ status = [c \in Commands |-> "unborn"]
  /\ expired = {}
  /\ requests = {}
  /\ pc = "idle"
  /\ cur = NoCommand
  /\ todo = {}
  /\ runs = [c \in Commands |-> 0]

(* The server.                                                             *)

CreateCommand(c) ==
  /\ status[c] = "unborn"
  /\ status' = [status EXCEPT ![c] = "pending"]
  /\ UNCHANGED <<expired, requests, agent, runs>>

CancelCommand(c) ==
  /\ UserCancels
  /\ status[c] \in Open
  /\ status' = [status EXCEPT ![c] = "canceled"]
  /\ UNCHANGED <<expired, requests, agent, runs>>

TimeoutPasses(c) ==
  /\ status[c] # "unborn" /\ c \notin expired
  /\ expired' = expired \cup {c}
  /\ UNCHANGED <<status, requests, agent, runs>>

\* Mutant: commands being executed are left to the agent.
MarkTimedOutCommands_NotRunning ==
  LET late == {c \in expired : status[c] \in {"pending", "acknowledged"}}
  IN  /\ TimeoutWorkerRuns
      /\ late # {}
      /\ status' = [c \in Commands |-> IF c \in late THEN "timed_out" ELSE status[c]]
      /\ UNCHANGED <<expired, requests, agent, runs>>

MarkTimedOutCommands ==
  LET late == {c \in expired : status[c] \in Open}
  IN  /\ TimeoutWorkerRuns
      /\ late # {}
      /\ status' = [c \in Commands |-> IF c \in late THEN "timed_out" ELSE status[c]]
      /\ UNCHANGED <<expired, requests, agent, runs>>

\* IsPending for an acknowledgement, not IsTerminal for a result.
Accepts(r) ==
  IF r.kind = "ack" THEN status[r.cmd] = "pending" ELSE status[r.cmd] \notin Terminal

ReadRow(r) ==
  /\ r.phase = "sent"
  /\ requests' = IF Accepts(r)
                 THEN (requests \ {r}) \cup {[r EXCEPT !.phase = "read"]}
                 ELSE Answer(r, "error")
  /\ UNCHANGED <<status, expired, agent, runs>>

\* Mutant: a result leaves the row acknowledged until the next report.
NewStatus_Swapped(r) == IF r.kind \in {"ack", "completed"} THEN "completed" ELSE r.kind

NewStatus(r) == IF r.kind = "ack" THEN "acknowledged" ELSE r.kind

WriteRow(r) ==
  /\ r.phase = "read"
  /\ status' = [status EXCEPT ![r.cmd] = NewStatus(r)]
  /\ requests' = Answer(r, "ok")
  /\ UNCHANGED <<expired, agent, runs>>

WriteRowFails(r) ==
  /\ "write_error" \in Faults
  /\ r.phase = "read"
  /\ requests' = Answer(r, "error")
  /\ UNCHANGED <<status, expired, agent, runs>>

-----------------------------------------------------------------------------
(* The agent.                                                              *)

GetCommands ==
  /\ pc = "idle" /\ todo = {}
  /\ todo' = {c \in Commands : status[c] = "pending"}
  /\ todo' # {}
  /\ UNCHANGED <<status, expired, requests, pc, cur, runs>>

StartCommand(c) ==
  /\ pc = "idle" /\ c \in todo
  /\ pc' = "acking" /\ cur' = c /\ todo' = todo \ {c}
  /\ requests' = requests \cup {Send("ack", c)}
  /\ UNCHANGED <<status, expired, runs>>

Count(c) == runs' = [runs EXCEPT ![c] = IF @ > 1 THEN @ ELSE @ + 1]

NextCommand == pc' = "idle" /\ cur' = NoCommand

\* Mutant: a failed acknowledgement is only logged.
AfterAck_Ignored(ok, rest) ==
  /\ pc' = "starting" /\ cur' = cur
  /\ requests' = rest \cup {Send("running", cur)}
  /\ UNCHANGED <<todo, runs>>

\* executeCommand returns when the acknowledgement failed, else reports running.
AfterAck(ok, rest) ==
  /\ \/ ok /\ pc' = "starting" /\ cur' = cur /\ requests' = rest \cup {Send("running", cur)}
     \/ ~ok /\ NextCommand /\ requests' = rest
  /\ UNCHANGED <<todo, runs>>

\* The answer to the running report is ignored, and so is that to the result.
AfterRunning(rest) ==
  /\ IF cur \in Restarting
     THEN /\ pc' = "reporting"
          /\ requests' = rest \cup {Send("completed", cur)}
          /\ UNCHANGED runs
     ELSE /\ pc' = "executing"
          /\ requests' = rest
          /\ Count(cur)
  /\ UNCHANGED <<cur, todo>>

\* Mutant: the command stays the current one.
AfterReport_KeepsCommand(rest) ==
  /\ pc' = "idle" /\ cur' = cur
  /\ requests' = rest
  /\ todo' \in {{}, todo}
  /\ IF cur \in Restarting THEN Count(cur) ELSE UNCHANGED runs

\* A restart, and an update that succeeded, replaces the process and forgets
\* the rest of the list; when that fails the agent goes on with it.
AfterReport(rest) ==
  /\ NextCommand
  /\ requests' = rest
  /\ todo' \in {{}, todo}
  /\ IF cur \in Restarting THEN Count(cur) ELSE UNCHANGED runs

Proceed(ok, rest) ==
  /\ \/ pc = "acking" /\ AfterAck(ok, rest)
     \/ pc = "starting" /\ AfterRunning(rest)
     \/ pc = "reporting" /\ AfterReport(rest)
  /\ UNCHANGED <<status, expired>>

GetAnswer(r) == r.live /\ Answered(r) /\ Proceed(r.phase = "ok", Without(r))

\* The client's 30 second timeout, or an answer lost on the way.
GiveUp(r) == "lost" \in Faults /\ r.live /\ Proceed(FALSE, Without(r))

ReportResult(kind) ==
  /\ pc = "executing"
  /\ requests' = requests \cup {Send(kind, cur)}
  /\ pc' = "reporting"
  /\ UNCHANGED <<status, expired, cur, todo, runs>>

Execute == \E kind \in {"completed", "failed"} : ReportResult(kind)

AgentCrash ==
  /\ "crash" \in Faults
  /\ pc # "idle" \/ todo # {}
  /\ NextCommand
  /\ todo' = {}
  /\ requests' = {[r EXCEPT !.live = FALSE] : r \in {q \in requests : ~Answered(q)}}
  /\ UNCHANGED <<status, expired, runs>>

Next ==
  \/ \E c \in Commands : \/ CreateCommand(c) \/ CancelCommand(c) \/ TimeoutPasses(c)
                         \/ StartCommand(c)
  \/ MarkTimedOutCommands
  \/ \E r \in requests : \/ ReadRow(r) \/ WriteRow(r) \/ WriteRowFails(r)
                         \/ GetAnswer(r) \/ GiveUp(r)
  \/ GetCommands \/ Execute
  \/ AgentCrash

Spec == Init /\ [][Next]_vars

\* Handlers end, the agent's heartbeat ticker polls, commands return, time
\* passes, and the worker's ticker fires where one was started.
Fairness ==
  /\ WF_vars(\E r \in requests : ReadRow(r) \/ WriteRow(r))
  /\ WF_vars(\E r \in requests : GetAnswer(r))
  /\ WF_vars(GetCommands)
  /\ WF_vars(\E c \in Commands : StartCommand(c))
  /\ WF_vars(Execute)
  /\ \A c \in Commands : WF_vars(TimeoutPasses(c))
  /\ WF_vars(MarkTimedOutCommands)

FairSpec == Spec /\ Fairness

-----------------------------------------------------------------------------
(* Properties.                                                             *)

\* Type invariant: the agent's place, its command and the requests agree.
TypeOK ==
  /\ status \in [Commands -> Status]
  /\ expired \subseteq Commands
  /\ requests \subseteq Request
  /\ pc \in {"idle", "acking", "starting", "executing", "reporting"}
  /\ cur \in Commands \cup {NoCommand}
  /\ (pc = "idle") <=> (cur = NoCommand)
  /\ todo \subseteq Commands
  /\ runs \in [Commands -> 0 .. 2]

\* The agent executes a command at most once, although polls repeat, answers
\* are lost, requests it abandoned are still served, and it restarts (only
\* pending commands are listed, and executeCommand returns unless the server
\* confirmed that the command is no longer pending).
ExecutedAtMostOnce == \A c \in Commands : runs[c] <= 1

\* No result arrives for a command still pending (ReportCommandResult does not
\* exclude it although its comment does): the agent's order of calls does.
ResultsFollowAck ==
  \A r \in requests : r.kind # "ack" => status[r.cmd] \notin {"unborn", "pending"}

\* A command recorded as completed was executed, however late and in whatever
\* order reports are written, except those reported before they act.
CompletedWasExecuted ==
  \A c \in Commands \ Restarting :
    status[c] \in {"completed", "failed"} => runs[c] = 1

\* With a timeout worker no command stays open for ever, whatever is lost.
CommandsSettle ==
  \A c \in Commands : status[c] = "pending" ~> status[c] \in Terminal

\* A terminal status is final (models.AgentCommand.IsTerminal).
TerminalIsFinal ==
  [][\A c \in Commands : status[c] \in Terminal => status'[c] = status[c]]_vars
=============================================================================
