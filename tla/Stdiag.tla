--------------------------------- MODULE Stdiag ---------------------------------
(***************************************************************************)
(* cmd/stackdiag/main.go: the life of the process, from the argument list  *)
(* to its exit status.                                                     *)
(*                                                                         *)
(* What the other modules decide is an input here: CliArgs whether the     *)
(* arguments make a Config, Target whether the target is accepted, Runner  *)
(* which exit code a diagnosis ends with (never 1: RunnerProofs shows that *)
(* no layer's result is taken for a tool error).  This module is about the *)
(* order of what main does, the signals that fall between, and what has    *)
(* become of the output when the process ends.                             *)
(***************************************************************************)
EXTENDS StackCore

VARIABLES
  outcome,      \* of ParseArgs and ResolveAuth: "config", "help", "version" or "error"
  json,         \* errors and reports are to be JSON
  targetOK,     \* ParseTarget accepts the target
  reader,       \* what is behind stdout: it takes everything, part or nothing
  pc,           \* where main is
  caught,       \* signal.NotifyContext is in effect
  ctxDone,      \* the context of the diagnosis is done
  code,         \* the exit code main has decided on
  doc,          \* what is being written
  stdout,       \* what stdout received: pairs of a document and "whole" or "part"
  stderr,       \* an error message was written to stderr
  status        \* how the process ended: an exit code, or a signal as -1

inputs == <<outcome, json, targetOK, reader>>
vars == <<inputs, pc, caught, ctxDone, code, doc, stdout, stderr, status>>

Running == 256

Killed == -1

Init ==
  /\ outcome \in {"config", "help", "version", "error"}
  /\ json \in BOOLEAN
  /\ targetOK \in BOOLEAN
  /\ reader \in {"open", "full", "closed"}
  /\ pc = "args"
  /\ caught = FALSE
  /\ ctxDone = FALSE
  /\ code = 0
  /\ doc = "none"
  /\ stdout = <<>>
  /\ stderr = FALSE
  /\ status = Running

------------------------------------------------------------------------------
(* Write d to stdout and exit with c, as the code always does in this      *)
(* order, or print an error to stderr and exit.                            *)
Output(d, c) ==
  /\ pc' = "write"
  /\ doc' = d
  /\ code' = c
  /\ UNCHANGED stderr

(* A mistake the checks must notice: the message goes to stderr always.    *)
ToolErrorAlsoPlain ==
  /\ stderr' = TRUE
  /\ pc' = IF json THEN "write" ELSE "exit"
  /\ doc' = IF json THEN "toolError" ELSE doc
  /\ code' = 1

(* main's and exitToolError's branches on the form.                        *)
ToolError ==
  \/ json /\ Output("toolError", 1)
  \/ /\ ~json
     /\ stderr' = TRUE
     /\ pc' = "exit"
     /\ code' = 1
     /\ UNCHANGED doc

(* cli.ParseArgs, the branches on its result, and cli.ResolveAuth.         *)
ParseArgs ==
  /\ pc = "args"
  /\ \/ outcome = "error" /\ ToolError
     \/ outcome = "help" /\ Output("help", 0)
     \/ outcome = "version" /\ Output("version", 0)
     \/ outcome = "config" /\ pc' = "target" /\ UNCHANGED <<doc, code, stderr>>
  /\ UNCHANGED <<inputs, caught, ctxDone, stdout, status>>

ParseTarget ==
  /\ pc = "target"
  /\ \/ ~targetOK /\ ToolError
     \/ targetOK /\ pc' = "notify" /\ UNCHANGED <<doc, code, stderr>>
  /\ UNCHANGED <<inputs, caught, ctxDone, stdout, status>>

(* signal.NotifyContext and context.WithTimeout                            *)
NotifyContext ==
  /\ pc = "notify"
  /\ caught' = TRUE
  /\ pc' = "run"
  /\ UNCHANGED <<inputs, ctxDone, code, doc, stdout, stderr, status>>

(* A mistake the checks must notice: stop() as soon as the run is over.    *)
RunReturnsAndStops ==
  /\ pc = "run"
  /\ \E c \in ExitCodes \ {1} : Output("report", c)
  /\ caught' = FALSE
  /\ UNCHANGED <<inputs, ctxDone, stdout, status>>

(* Run or RunCount, and the rendering into a buffer.                       *)
RunReturns ==
  /\ pc = "run"
  /\ \E c \in ExitCodes \ {1} : Output("report", c)
  /\ UNCHANGED <<inputs, caught, ctxDone, stdout, status>>

(* One write to stdout is many for the kernel.  One that fails leaves what *)
(* was taken so far; the error is not looked at.  A closed pipe ends the   *)
(* process by SIGPIPE, which Go does not ignore for stdout.                *)
WriteBegins ==
  /\ pc = "write"
  /\ reader # "closed"
  /\ stdout' = Append(stdout, <<doc, "part">>)
  /\ pc' = "writing"
  /\ UNCHANGED <<inputs, caught, ctxDone, code, doc, stderr, status>>

WriteEnds ==
  /\ pc = "writing"
  /\ stdout' = IF reader = "open" THEN <<<<doc, "whole">>>> ELSE stdout
  /\ pc' = "exit"
  /\ UNCHANGED <<inputs, caught, ctxDone, code, doc, stderr, status>>

BrokenPipe ==
  /\ pc = "write"
  /\ reader = "closed"
  /\ status' = Killed
  /\ pc' = "ended"
  /\ UNCHANGED <<inputs, caught, ctxDone, code, doc, stdout, stderr>>

Exit ==
  /\ pc = "exit"
  /\ status' = code
  /\ pc' = "ended"
  /\ UNCHANGED <<inputs, caught, ctxDone, code, doc, stdout, stderr>>

------------------------------------------------------------------------------
(* SIGINT or SIGTERM.  Once caught, the first cancels the context and the  *)
(* others do nothing.                                                      *)
SignalKills ==
  /\ pc # "ended"
  /\ ~caught
  /\ status' = Killed
  /\ pc' = "ended"
  /\ UNCHANGED <<inputs, caught, ctxDone, code, doc, stdout, stderr>>

SignalCancels ==
  /\ pc # "ended"
  /\ caught
  /\ ctxDone' = TRUE
  /\ UNCHANGED <<inputs, pc, caught, code, doc, stdout, stderr, status>>

(* A mistake the checks must notice: no timeout on the context.            *)
DeadlineNeverFires == FALSE /\ UNCHANGED vars

DeadlineFires ==
  /\ pc = "run"
  /\ ~ctxDone
  /\ ctxDone' = TRUE
  /\ UNCHANGED <<inputs, pc, caught, code, doc, stdout, stderr, status>>

Main ==
  \/ ParseArgs \/ ParseTarget \/ NotifyContext
  \/ WriteBegins \/ WriteEnds \/ BrokenPipe \/ Exit

Next == Main \/ RunReturns \/ SignalKills \/ SignalCancels \/ DeadlineFires

(* The runner is only known to end once its contexts are done (Runner's    *)
(* Terminates); stdout is trusted to take or refuse what is written.       *)
Fairness ==
  WF_vars(Main) /\ WF_vars(DeadlineFires) /\ WF_vars(ctxDone /\ RunReturns)

Spec == Init /\ [][Next]_vars /\ Fairness

------------------------------------------------------------------------------
(* A process that exits has said one thing in one place, and its exit code *)
(* says which: 1 an error of the tool and nothing else, in the form asked  *)
(* for; 2 and above a report; 0 a report or what was asked for instead.    *)
(* (Not whether all of it was taken: main.go:130 "then writes atomically   *)
(* to stdout", but the error of the write is not looked at.)               *)
ExitCodeTellsOutput ==
  status \notin {Running, Killed} =>
    /\ Len(stdout) + (IF stderr THEN 1 ELSE 0) = 1
    /\ status = 1 <=> stderr \/ stdout[1][1] = "toolError"
    /\ stderr => ~json
    /\ status > 1 => stdout[1][1] = "report"

(* main.go "ensuring graceful shutdown": once signals are caught none ends *)
(* the process, and the report is written as if there had been none.       *)
SignalLeavesReportWhole ==
  /\ caught /\ reader # "closed" => status # Killed
  /\ status # Running /\ doc = "report" /\ reader = "open" => stdout = <<<<"report", "whole">>>>

(* The process ends, although no probe need return before its context is   *)
(* done and although signals do not end it.                                *)
Ends == <>(pc = "ended")

==============================================================================
