------------------------------ MODULE StdiagProofs ------------------------------
(***************************************************************************)
(* What the end of the process tells, proved for every order of signals,   *)
(* deadline, arguments and whatever is behind stdout.                      *)
(***************************************************************************)
EXTENDS Stdiag, TLAPS

Documents == {"help", "version", "toolError", "report"}

(* What has been decided to be written goes with the exit code decided.    *)
Fits ==
  /\ doc \in Documents
  /\ code = 1 <=> doc = "toolError"
  /\ code > 1 => doc = "report"

(* One thing has been said in one place.                                   *)
SaidPlainly == stderr /\ stdout = <<>> /\ ~json /\ code = 1 /\ doc = "none"

SaidOnStdout ==
  /\ ~stderr
  /\ Fits
  /\ stdout = <<<<doc, IF reader = "open" THEN "whole" ELSE "part">>>>

Said == SaidPlainly \/ SaidOnStdout

Before == {"args", "target", "notify", "run"}

(* ExitCodeTellsOutput speaks of the end only.  OutputInv says how far     *)
(* main has come at each point before it.                                  *)
OutputInv ==
  /\ pc \in Before => stdout = <<>> /\ ~stderr /\ doc = "none"
  /\ pc = "write" => stdout = <<>> /\ ~stderr /\ Fits
  /\ pc = "writing" => stdout = <<<<doc, "part">>>> /\ ~stderr /\ Fits
  /\ pc = "exit" => Said
  /\ pc = "ended" /\ status # Killed => status = code /\ Said

(* Signals are caught from before the run on; a process killed later has   *)
(* written to a closed pipe.                                               *)
SignalInv ==
  /\ caught => pc \notin {"args", "target", "notify"}
  /\ pc = "run" => caught
  /\ doc = "report" => caught
  /\ caught /\ status = Killed => reader = "closed"

StateInv ==
  /\ pc \in Before \cup {"write", "writing", "exit", "ended"}
  /\ caught \in BOOLEAN /\ stderr \in BOOLEAN /\ json \in BOOLEAN
  /\ code \in ExitCodes
  /\ status \in ExitCodes \cup {Running, Killed}
  /\ pc = "ended" <=> status # Running
  /\ reader \in {"open", "full", "closed"}

Inv == StateInv /\ OutputInv /\ SignalInv

------------------------------------------------------------------------------
(* Every state main starts in satisfies the invariant.                     *)
LEMMA InitInv == Init => Inv
  BY DEF Init, Inv, StateInv, OutputInv, SignalInv, Said, SaidPlainly, SaidOnStdout, Fits,
         Documents, Before, Running, Killed, ExitCodes

(* main's branches on the form of an error keep it.                        *)
LEMMA ToolErrorInv ==
  ASSUME Inv, pc \in {"args", "target"}, ToolError,
         UNCHANGED <<inputs, caught, ctxDone, stdout, status>>
  PROVE  Inv'
  <1>1. UNCHANGED <<json, reader, caught, stdout, status>>
    BY DEF inputs
  <1>2. ~caught /\ stdout = <<>> /\ ~stderr /\ doc = "none" /\ status = Running
    BY DEF Inv, StateInv, OutputInv, SignalInv, Before
  <1>3. CASE json /\ Output("toolError", 1)
    <2>1. pc' = "write" /\ doc' = "toolError" /\ code' = 1 /\ stderr' = stderr
      BY <1>3 DEF Output
    <2>2. Fits'
      <3>1. doc' \in Documents /\ (code' = 1 <=> doc' = "toolError")
        BY <2>1 DEF Documents
      <3>2. ~(code' > 1)
        BY <2>1
      <3> QED
        BY <3>1, <3>2, Zenon DEF Fits
    <2>3. StateInv'
      BY <1>1, <1>2, <2>1 DEF Inv, StateInv, Before, Running, ExitCodes
    <2>4. OutputInv'
      BY <1>1, <1>2, <2>1, <2>2 DEF OutputInv, Before
    <2>5. SignalInv'
      <3>1. ~caught' /\ pc' # "run" /\ doc' # "report"
        BY <1>1, <1>2, <2>1
      <3> QED
        BY <3>1, Zenon DEF SignalInv
    <2> QED
      BY <2>3, <2>4, <2>5 DEF Inv
  <1>4. CASE ~json /\ stderr' = TRUE /\ pc' = "exit" /\ code' = 1 /\ UNCHANGED doc
    BY <1>1, <1>2, <1>4 DEF Inv, StateInv, OutputInv, SignalInv, Said, SaidPlainly, Before,
         Running, Killed, ExitCodes
  <1> QED
    BY <1>3, <1>4 DEF ToolError

(* So does a step that decides to write the document d and exit with c.    *)
LEMMA OutputKeeps ==
  ASSUME NEW d \in Documents, NEW c \in ExitCodes, Inv,
         pc \in Before, c = 1 <=> d = "toolError", c > 1 => d = "report",
         d = "report" => caught,
         Output(d, c), UNCHANGED <<inputs, caught, ctxDone, stdout, status>>
  PROVE  Inv'
  <1>1. UNCHANGED <<json, reader, caught, stdout, status>>
    BY DEF inputs
  <1>2. stdout = <<>> /\ ~stderr /\ status = Running
    BY DEF Inv, StateInv, OutputInv, Before
  <1>3. pc' = "write" /\ doc' = d /\ code' = c /\ stderr' = stderr
    BY DEF Output
  <1>4. Fits'
    BY <1>3 DEF Fits
  <1>5. StateInv'
    BY <1>1, <1>2, <1>3 DEF Inv, StateInv, Before, Running
  <1>6. OutputInv'
    BY <1>1, <1>2, <1>3, <1>4 DEF OutputInv, Before
  <1>7. SignalInv'
    <2>1. pc' \notin {"args", "target", "notify", "run"}
      BY <1>3
    <2>2. status' # Killed
      BY <1>1, <1>2 DEF Running, Killed
    <2>3. doc' = "report" => caught'
      BY <1>1, <1>3
    <2> QED
      BY <2>1, <2>2, <2>3 DEF SignalInv
  <1> QED
    BY <1>5, <1>6, <1>7 DEF Inv

(* The invariant is inductive.                                             *)
LEMMA NextInv == Inv /\ [Next]_vars => Inv'
  <1> SUFFICES ASSUME Inv, [Next]_vars PROVE Inv'
    OBVIOUS
  <1> USE DEF Inv
  <1>1. CASE ParseArgs
    <2>1. CASE outcome = "error" /\ ToolError
      BY <1>1, <2>1, ToolErrorInv DEF ParseArgs
    <2>2. CASE outcome = "help" /\ Output("help", 0)
      BY <1>1, <2>2, OutputKeeps DEF ParseArgs, Documents, ExitCodes, Before
    <2>3. CASE outcome = "version" /\ Output("version", 0)
      BY <1>1, <2>3, OutputKeeps DEF ParseArgs, Documents, ExitCodes, Before
    <2>4. CASE outcome = "config" /\ pc' = "target" /\ UNCHANGED <<doc, code, stderr>>
      BY <1>1, <2>4 DEF ParseArgs, inputs, StateInv, OutputInv, SignalInv, Before
    <2> QED
      BY <1>1, <2>1, <2>2, <2>3, <2>4 DEF ParseArgs
  <1>2. CASE ParseTarget
    <2>1. CASE ~targetOK /\ ToolError
      BY <1>2, <2>1, ToolErrorInv DEF ParseTarget
    <2>2. CASE targetOK /\ pc' = "notify" /\ UNCHANGED <<doc, code, stderr>>
      BY <1>2, <2>2 DEF ParseTarget, inputs, StateInv, OutputInv, SignalInv, Before
    <2> QED
      BY <1>2, <2>1, <2>2 DEF ParseTarget
  <1>3. CASE NotifyContext
    BY <1>3 DEF NotifyContext, inputs, StateInv, OutputInv, SignalInv, Before, Running, Killed
  <1>4. CASE RunReturns
    <2>1. PICK c \in ExitCodes \ {1} : Output("report", c)
      BY <1>4 DEF RunReturns
    <2> QED
      BY <1>4, <2>1, OutputKeeps DEF RunReturns, Documents, Before, SignalInv
  <1>5. CASE WriteBegins
    <2>1. /\ pc = "write" /\ pc' = "writing" /\ stdout' = Append(stdout, <<doc, "part">>)
          /\ UNCHANGED <<reader, json, caught, code, doc, stderr, status>>
      BY <1>5 DEF WriteBegins, inputs
    <2>2. stdout = <<>> /\ ~stderr /\ Fits /\ status = Running
      BY <2>1 DEF OutputInv, StateInv
    <2>3. stdout' = <<<<doc, "part">>>>
      BY <2>1, <2>2
    <2>4. Fits'
      BY <2>1, <2>2 DEF Fits
    <2>5. StateInv'
      BY <2>1, <2>2 DEF StateInv, Before
    <2>6. OutputInv'
      BY <2>1, <2>2, <2>3, <2>4 DEF OutputInv, Before
    <2>7. SignalInv'
      BY <2>1 DEF SignalInv
    <2> QED
      BY <2>5, <2>6, <2>7
  <1>6. CASE WriteEnds
    <2>1. /\ pc = "writing" /\ pc' = "exit"
          /\ UNCHANGED <<reader, json, caught, code, doc, stderr, status>>
      BY <1>6 DEF WriteEnds, inputs
    <2>2. stdout' = <<<<doc, IF reader = "open" THEN "whole" ELSE "part">>>>
      BY <1>6, <2>1 DEF WriteEnds, OutputInv
    <2> QED
      BY <2>1, <2>2 DEF StateInv, OutputInv, SignalInv, Said, SaidOnStdout, Fits, Before,
           Running, Killed
  <1>7. CASE BrokenPipe
    BY <1>7 DEF BrokenPipe, inputs, StateInv, OutputInv, SignalInv, Before, Running, Killed
  <1>8. CASE Exit
    <2>1. /\ pc = "exit" /\ pc' = "ended" /\ status' = code
          /\ UNCHANGED <<reader, json, caught, code, doc, stdout, stderr>>
      BY <1>8 DEF Exit, inputs
    <2>2. Said'
      BY <2>1 DEF OutputInv, Said, SaidPlainly, SaidOnStdout, Fits
    <2> QED
      BY <2>1, <2>2 DEF StateInv, OutputInv, SignalInv, Before, Running, Killed, ExitCodes
  <1>9. CASE SignalKills
    BY <1>9 DEF SignalKills, inputs, StateInv, OutputInv, SignalInv, Before, Running, Killed
  <1>10. CASE SignalCancels \/ DeadlineFires
    <2>1. UNCHANGED <<inputs, pc, caught, code, doc, stdout, stderr, status>>
      BY <1>10 DEF SignalCancels, DeadlineFires
    <2> QED
      BY <2>1 DEF inputs, StateInv, OutputInv, SignalInv, Said, SaidPlainly, SaidOnStdout, Fits
  <1>11. CASE UNCHANGED vars
    BY <1>11 DEF vars, inputs, StateInv, OutputInv, SignalInv, Said, SaidPlainly,
         SaidOnStdout, Fits
  <1> QED
    BY <1>1, <1>2, <1>3, <1>4, <1>5, <1>6, <1>7, <1>8, <1>9, <1>10, <1>11 DEF Next, Main

(* In every run of the program the invariant holds.                        *)
LEMMA InvHolds == Spec => []Inv
  BY InitInv, NextInv, PTL DEF Spec

------------------------------------------------------------------------------
(* The exit code of a process that exits tells what it wrote: 1 one error  *)
(* of the tool in the form asked for and nothing beside it, 2 and above a  *)
(* report, 0 a report or the text asked for.                               *)
THEOREM ExitCodeHonest == Spec => []ExitCodeTellsOutput
  <1>1. Inv => ExitCodeTellsOutput
    <2> SUFFICES ASSUME Inv, status \notin {Running, Killed} PROVE ExitCodeTellsOutput
      BY DEF ExitCodeTellsOutput
    <2>1. status = code /\ Said
      BY DEF Inv, StateInv, OutputInv
    <2>2. CASE SaidPlainly
      BY <2>1, <2>2 DEF SaidPlainly, ExitCodeTellsOutput
    <2>3. CASE SaidOnStdout
      <3>1. Len(stdout) = 1 /\ stdout[1][1] = doc
        BY <2>3 DEF SaidOnStdout
      <3>2. ~stderr /\ (status = 1 <=> doc = "toolError") /\ (status > 1 => doc = "report")
        BY <2>1, <2>3 DEF SaidOnStdout, Fits
      <3>3. Len(stdout) + (IF stderr THEN 1 ELSE 0) = 1
        BY <3>1, <3>2
      <3>4. status = 1 <=> stderr \/ stdout[1][1] = "toolError"
        BY <3>1, <3>2, Zenon
      <3> QED
        BY <3>1, <3>2, <3>3, <3>4, Zenon DEF ExitCodeTellsOutput
    <2> QED
      BY <2>1, <2>2, <2>3 DEF Said
  <1> QED
    BY <1>1, InvHolds, PTL

(* Once signals are caught none of them ends the process, and the report a *)
(* reader with an open pipe receives is whole.                             *)
THEOREM ShutdownGraceful == Spec => []SignalLeavesReportWhole
  <1>1. Inv => SignalLeavesReportWhole
    <2> SUFFICES ASSUME Inv PROVE SignalLeavesReportWhole
      OBVIOUS
    <2>1. caught /\ reader # "closed" => status # Killed
      BY DEF Inv, SignalInv
    <2>2. ASSUME status # Running, doc = "report", reader = "open"
          PROVE  stdout = <<<<"report", "whole">>>>
      <3>1. status # Killed /\ pc = "ended"
        BY <2>2 DEF Inv, SignalInv, StateInv
      <3> QED
        BY <2>2, <3>1 DEF Inv, OutputInv, Said, SaidPlainly, SaidOnStdout
    <2> QED
      BY <2>1, <2>2 DEF SignalLeavesReportWhole
  <1> QED
    BY <1>1, InvHolds, PTL

(***************************************************************************)
(* How long main can take.                                                 *)
(***************************************************************************)

(* How much main has still to do, the end of the context included.         *)
Points ==
  [args |-> 7, target |-> 6, notify |-> 5, run |-> 4, write |-> 3, writing |-> 2,
   exit |-> 1, ended |-> 0]

StepsLeft == Points[pc] + IF ctxDone THEN 0 ELSE 1

(* Every step brings main further.                                         *)
LEMMA PointsFall ==
  ASSUME Inv, Inv', [Next]_vars, vars' # vars, ctxDone \in BOOLEAN
  PROVE  StepsLeft' < StepsLeft
<1>1. CASE Main \/ RunReturns
  <2>1. ctxDone' = ctxDone
    BY <1>1 DEF Main, ParseArgs, ParseTarget, NotifyContext, WriteBegins, WriteEnds,
         BrokenPipe, Exit, RunReturns
  <2>2. /\ pc \in DOMAIN Points /\ pc' \in DOMAIN Points
        /\ Points[pc'] \in Nat /\ Points[pc] \in Nat /\ Points[pc'] < Points[pc]
    BY <1>1 DEF Main, ParseArgs, ParseTarget, NotifyContext, WriteBegins, WriteEnds,
         BrokenPipe, Exit, RunReturns, ToolError, Output, Points
  <2>3. QED BY <2>1, <2>2 DEF StepsLeft
<1>2. CASE SignalKills
  <2>1. ctxDone' = ctxDone /\ pc' = "ended" /\ pc # "ended" BY <1>2 DEF SignalKills
  <2>2. pc \in Before \cup {"write", "writing", "exit", "ended"} BY DEF Inv, StateInv
  <2>3. QED BY <2>1, <2>2 DEF StepsLeft, Points, Before
<1>3. CASE SignalCancels \/ DeadlineFires
  <2>1. pc' = pc /\ ctxDone' = TRUE BY <1>3 DEF SignalCancels, DeadlineFires
  <2>2. ctxDone = FALSE
    BY <1>3, <2>1 DEF SignalCancels, DeadlineFires, vars, inputs
  <2>3. pc \in Before \cup {"write", "writing", "exit", "ended"} BY DEF Inv, StateInv
  <2>4. QED BY <2>1, <2>2, <2>3 DEF StepsLeft, Points, Before
<1>4. QED BY <1>1, <1>2, <1>3 DEF Next

(* The context is done or it is not.                                       *)
LEMMA ContextType == Spec => [](ctxDone \in BOOLEAN)
<1>1. Init => ctxDone \in BOOLEAN BY DEF Init
<1>2. ctxDone \in BOOLEAN /\ [Next]_vars => (ctxDone \in BOOLEAN)'
  BY DEF Next, Main, ParseArgs, ParseTarget, NotifyContext, WriteBegins, WriteEnds,
     BrokenPipe, Exit, RunReturns, SignalKills, SignalCancels, DeadlineFires, vars
<1>3. QED BY <1>1, <1>2, PTL DEF Spec

(* main has no loop: whatever signals come and when, it takes at most      *)
(* seven steps to the end, besides the one that ends its context.          *)
THEOREM MainIsBounded ==
  Spec => StepsLeft = 8 /\ [](StepsLeft \in 0 .. 8) /\ [][StepsLeft' < StepsLeft]_vars
<1>1. Init => StepsLeft = 8 BY DEF Init, StepsLeft, Points
<1>2. Inv /\ ctxDone \in BOOLEAN => StepsLeft \in 0 .. 8
  BY DEF Inv, StateInv, Before, StepsLeft, Points
<1>3. Inv /\ Inv' /\ ctxDone \in BOOLEAN /\ [Next]_vars => [StepsLeft' < StepsLeft]_vars
  BY PointsFall
<1>4. QED BY <1>1, <1>2, <1>3, InvHolds, ContextType, PTL DEF Spec
==============================================================================
