---------------------------------- MODULE Ping ----------------------------------
(***************************************************************************)
(* internal/layers/reachability: one ICMP echo per attempt.                *)
(*                                                                         *)
(* Ping opens a raw socket, arms its read deadline, spawns a watcher       *)
(* goroutine that closes the socket when the context is done, sends one    *)
(* echo request and reads until a reply with the process's own identifier  *)
(* arrives.  The socket deadline and the context's deadline are set to the *)
(* same instant but are two timers, and the watcher is a thread of its     *)
(* own: the three fire in any order.  Every attempt of a --count run sends *)
(* its request with the same identifier (the pid) and sequence number (1), *)
(* and the kernel hands every incoming reply to every open raw socket.     *)
(***************************************************************************)
EXTENDS StackCore

CONSTANTS
  Attempts,       \* how many pings the process makes, one after the other
  MaxStrangers    \* bound on the ICMP packets with a foreign identifier

ASSUME AttemptsAssumption == Attempts \in Nat \ {0}

ASSUME StrangersAssumption == MaxStrangers \in Nat

Attempt == 1 .. Attempts

(* A packet in a socket buffer: the attempt whose request it answers, or   *)
(* Stranger for anything that is not an echo reply with our identifier.    *)
Stranger == 0

VARIABLES
  current,      \* the attempt under way
  pc,           \* where its thread is
  err,          \* the error Ping holds, "nil" when it has none
  expired,      \* the attempts whose socket deadline has fired
  ctxErr,       \* per attempt, ctx.Err()
  conn,         \* per attempt, its socket: "none", "open" or "closed"
  watcher,      \* per attempt, its goroutine
  done,         \* the attempts whose done channel is closed
  requests,     \* requests on their way to the target
  answers,      \* replies on their way back
  buffer,       \* per attempt, the packets queued at its socket
  interrupted,  \* the process has been signaled
  conclusion,   \* per attempt, <<status, code>> of the Probe that returned
  answered,     \* history: the requests the target has answered
  accepted,     \* history: per attempt, the packet taken for its reply
  strangers     \* foreign packets delivered so far

netVars == <<requests, answers, answered>>
timeVars == <<expired, ctxErr, interrupted>>
vars == <<current, pc, err, timeVars, conn, watcher, done, netVars, buffer,
          conclusion, accepted, strangers>>

Undecided == <<"none", NoError>>

Init ==
  /\ current = 1
  /\ pc = "idle"
  /\ err = "nil"
  /\ expired = {}
  /\ ctxErr = [a \in Attempt |-> "nil"]
  /\ conn = [a \in Attempt |-> "none"]
  /\ watcher = [a \in Attempt |-> "none"]
  /\ done = {}
  /\ requests = {}
  /\ answers = {}
  /\ buffer = [a \in Attempt |-> <<>>]
  /\ interrupted = FALSE
  /\ conclusion = [a \in Attempt |-> Undecided]
  /\ answered = {}
  /\ accepted = [a \in Attempt |-> Stranger]
  /\ strangers = 0

------------------------------------------------------------------------------
(* The thread of the attempt under way.                                    *)

Return(e) ==
  /\ pc' = "return"
  /\ err' = e

(* The runner calls Probe only while the context is not done.              *)
Call ==
  /\ pc = "idle"
  /\ ctxErr[current] = "nil"
  /\ pc' = "dial"
  /\ UNCHANGED <<current, err, timeVars, conn, watcher, done, netVars, buffer,
                 conclusion, accepted, strangers>>

(* net.Dial of a raw socket fails without CAP_NET_RAW, or for any other    *)
(* reason; it does not look at the context.                                *)
DialFails ==
  /\ pc = "dial"
  /\ \E e \in {"EPERM", "errno"} : Return(e)
  /\ UNCHANGED <<current, timeVars, conn, watcher, done, netVars, buffer,
                 conclusion, accepted, strangers>>

(* A mistake the checks must notice: no goroutine watches the context.     *)
DialOpensUnwatched ==
  /\ pc = "dial"
  /\ conn' = [conn EXCEPT ![current] = "open"]
  /\ pc' = "write"
  /\ UNCHANGED <<current, err, timeVars, watcher, done, netVars, buffer, conclusion,
                 accepted, strangers>>

(* net.Dial, SetDeadline and the go statement: until the goroutine runs    *)
(* nothing else can touch the new socket, so they are one step.            *)
DialOpens ==
  /\ pc = "dial"
  /\ conn' = [conn EXCEPT ![current] = "open"]
  /\ watcher' = [watcher EXCEPT ![current] = "waiting"]
  /\ pc' = "write"
  /\ UNCHANGED <<current, err, timeVars, done, netVars, buffer, conclusion,
                 accepted, strangers>>

(* What a socket operation reports before it touches the network.          *)
SocketError ==
  IF conn[current] = "closed" THEN "closed"
  ELSE IF current \in expired THEN "i/o timeout" ELSE "nil"

(* The error of a write is returned as it is.                              *)
WriteFails ==
  /\ pc = "write"
  /\ IF SocketError # "nil" THEN Return(SocketError)
     ELSE \E e \in {"EPERM", "errno"} : Return(e)
  /\ UNCHANGED <<current, timeVars, conn, watcher, done, netVars, buffer,
                 conclusion, accepted, strangers>>

WriteSends ==
  /\ pc = "write"
  /\ SocketError = "nil"
  /\ requests' = requests \cup {current}
  /\ pc' = "read"
  /\ UNCHANGED <<current, err, timeVars, conn, watcher, done, answers, answered,
                 buffer, conclusion, accepted, strangers>>

(* A read fails at once on a closed or expired socket, or with an ICMP     *)
(* error the kernel attached to it.                                        *)
ReadFails ==
  /\ pc = "read"
  /\ pc' = "map"
  /\ err' = IF SocketError # "nil" THEN SocketError ELSE "errno"
  /\ UNCHANGED <<current, timeVars, conn, watcher, done, netVars, buffer,
                 conclusion, accepted, strangers>>

(* A mistake the checks must notice: any packet is taken for the reply.    *)
IsAnything(packet) == TRUE

(* Type, code and identifier are compared; the sequence number is not.     *)
IsOurs(packet) == packet # Stranger

ReadPacket ==
  /\ pc = "read"
  /\ SocketError = "nil"
  /\ buffer[current] # <<>>
  /\ LET packet == Head(buffer[current])
     IN  /\ IF IsOurs(packet)
            THEN Return("nil") /\ accepted' = [accepted EXCEPT ![current] = packet]
            ELSE UNCHANGED <<pc, err, accepted>>
         /\ buffer' = [buffer EXCEPT ![current] = Tail(@)]
  /\ UNCHANGED <<current, timeVars, conn, watcher, done, netVars, conclusion,
                 strangers>>

(* A mistake the checks must notice: the raw read error is returned.       *)
MapReadErrorRaw ==
  /\ pc = "map"
  /\ Return(err)
  /\ UNCHANGED <<current, timeVars, conn, watcher, done, netVars, buffer,
                 conclusion, accepted, strangers>>

(* Once a read has failed the context is asked again, a step later.        *)
MapReadError ==
  /\ pc = "map"
  /\ Return(IF ctxErr[current] # "nil" THEN ctxErr[current] ELSE err)
  /\ UNCHANGED <<current, timeVars, conn, watcher, done, netVars, buffer,
                 conclusion, accepted, strangers>>

(* A mistake the checks must notice: a skip that carries an error code.    *)
ClassifySkipWithCode(e) ==
  CASE e = "nil" -> <<"ok", NoError>>
    [] e = "EPERM" -> <<"skip", "REACHABILITY_ERROR">>
    [] e \in {"deadline", "canceled"} -> <<"fail", "REACHABILITY_TIMEOUT">>
    [] OTHER -> <<"fail", "REACHABILITY_ERROR">>

(* Layer.Probe and skipReason: from an error to a status and a code.       *)
Classify(e) ==
  CASE e = "nil" -> <<"ok", NoError>>
    [] e = "EPERM" -> <<"skip", NoError>>
    [] e \in {"deadline", "canceled"} -> <<"fail", "REACHABILITY_TIMEOUT">>
    [] OTHER -> <<"fail", "REACHABILITY_ERROR">>

(* A mistake the checks must notice: the done channel is never closed.     *)
ProbeReturnsNotDone ==
  /\ pc = "return"
  /\ conn' = [conn EXCEPT ![current] = IF @ = "none" THEN @ ELSE "closed"]
  /\ buffer' = [buffer EXCEPT ![current] = <<>>]
  /\ conclusion' = [conclusion EXCEPT ![current] = Classify(err)]
  /\ pc' = "returned"
  /\ UNCHANGED <<current, err, timeVars, watcher, done, netVars, accepted, strangers>>

(* The deferred calls run, done first, and Probe returns.  What is still   *)
(* queued at a socket is lost when it is closed.                           *)
ProbeReturns ==
  /\ pc = "return"
  /\ done' = IF conn[current] = "none" THEN done ELSE done \cup {current}
  /\ conn' = [conn EXCEPT ![current] = IF @ = "none" THEN @ ELSE "closed"]
  /\ buffer' = [buffer EXCEPT ![current] = <<>>]
  /\ conclusion' = [conclusion EXCEPT ![current] = Classify(err)]
  /\ pc' = "returned"
  /\ UNCHANGED <<current, err, timeVars, watcher, netVars, accepted, strangers>>

(* RunCount cancels the context and goes on to the next attempt.  After a  *)
(* signal that attempt's context is done from the start.                   *)
NextAttempt ==
  /\ pc = "returned"
  /\ current < Attempts
  /\ current' = current + 1
  /\ pc' = "idle"
  /\ err' = "nil"
  /\ ctxErr' = [ctxErr EXCEPT
                  ![current] = IF @ = "nil" THEN "canceled" ELSE @,
                  ![current + 1] = IF interrupted THEN "canceled" ELSE "nil"]
  /\ UNCHANGED <<expired, interrupted, conn, watcher, done, netVars,
                 buffer, conclusion, accepted, strangers>>

------------------------------------------------------------------------------
(* The watcher goroutine of an attempt: select, then close.                *)

WatcherSeesContext(a) ==
  /\ watcher[a] = "waiting"
  /\ ctxErr[a] # "nil"
  /\ watcher' = [watcher EXCEPT ![a] = "closing"]
  /\ UNCHANGED <<current, pc, err, timeVars, conn, done, netVars, buffer,
                 conclusion, accepted, strangers>>

WatcherCloses(a) ==
  /\ watcher[a] = "closing"
  /\ conn' = [conn EXCEPT ![a] = "closed"]
  /\ buffer' = [buffer EXCEPT ![a] = <<>>]
  /\ watcher' = [watcher EXCEPT ![a] = "gone"]
  /\ UNCHANGED <<current, pc, err, timeVars, done, netVars, conclusion, accepted,
                 strangers>>

WatcherSeesDone(a) ==
  /\ watcher[a] = "waiting"
  /\ a \in done
  /\ watcher' = [watcher EXCEPT ![a] = "gone"]
  /\ UNCHANGED <<current, pc, err, timeVars, conn, done, netVars, buffer,
                 conclusion, accepted, strangers>>

------------------------------------------------------------------------------
(* Timers, the signal and the network.  The two timers are set to the same *)
(* instant; which of them is seen first, and how much later the other is,  *)
(* is up to the scheduler.                                                 *)

SocketTimer ==
  /\ conn[current] = "open"
  /\ current \notin expired
  /\ expired' = expired \cup {current}
  /\ UNCHANGED <<current, pc, err, ctxErr, interrupted, conn, watcher, done, netVars,
                 buffer, conclusion, accepted, strangers>>

ContextTimer ==
  /\ ctxErr[current] = "nil"
  /\ ctxErr' = [ctxErr EXCEPT ![current] = "deadline"]
  /\ UNCHANGED <<current, pc, err, expired, interrupted, conn, watcher, done, netVars,
                 buffer, conclusion, accepted, strangers>>

Signal ==
  /\ ~interrupted
  /\ interrupted' = TRUE
  /\ ctxErr' = [ctxErr EXCEPT ![current] = IF @ = "nil" THEN "canceled" ELSE @]
  /\ UNCHANGED <<current, pc, err, expired, conn, watcher, done,
                 netVars, buffer, conclusion, accepted, strangers>>

Answer(a) ==
  /\ a \in requests
  /\ requests' = requests \ {a}
  /\ answers' = answers \cup {a}
  /\ answered' = answered \cup {a}
  /\ UNCHANGED <<current, pc, err, timeVars, conn, watcher, done, buffer,
                 conclusion, accepted, strangers>>

Queue(packet) ==
  buffer' = [a \in Attempt |->
               IF conn[a] = "open" THEN Append(buffer[a], packet) ELSE buffer[a]]

(* The kernel copies an arriving packet to every open raw socket.          *)
Deliver(a) ==
  /\ a \in answers
  /\ answers' = answers \ {a}
  /\ Queue(a)
  /\ UNCHANGED <<current, pc, err, timeVars, conn, watcher, done, requests,
                 answered, conclusion, accepted, strangers>>

DeliverStranger ==
  /\ strangers < MaxStrangers
  /\ strangers' = strangers + 1
  /\ Queue(Stranger)
  /\ UNCHANGED <<current, pc, err, timeVars, conn, watcher, done, netVars,
                 conclusion, accepted>>

------------------------------------------------------------------------------
Thread ==
  \/ DialFails \/ DialOpens
  \/ WriteFails \/ WriteSends
  \/ (SocketError # "nil" /\ ReadFails)
  \/ MapReadError
  \/ ProbeReturns

Watcher(a) == WatcherSeesContext(a) \/ WatcherCloses(a) \/ WatcherSeesDone(a)

Next ==
  \/ Thread \/ Call \/ ReadFails \/ ReadPacket \/ NextAttempt
  \/ \E a \in Attempt : Watcher(a)
  \/ SocketTimer \/ ContextTimer
  \/ Signal
  \/ \E a \in Attempt : Answer(a) \/ Deliver(a)
  \/ DeliverStranger

(* The thread and the goroutines are scheduled; a read blocks until there  *)
(* is something to read or its socket is closed or expired.  Nothing is    *)
(* assumed of the timers, the network, the signal or the runner.           *)
Fairness ==
  /\ WF_vars(Thread)
  /\ \A a \in Attempt : WF_vars(Watcher(a))

Spec == Init /\ [][Next]_vars /\ Fairness
------------------------------------------------------------------------------
(* Type correctness of the attempts' threads, sockets and packets.         *)
Errors == {"nil", "EPERM", "errno", "closed", "i/o timeout", "deadline", "canceled"}

Packet == Attempt \cup {Stranger}

TypeOK ==
  /\ current \in Attempt
  /\ pc \in {"idle", "dial", "write", "read", "map", "return", "returned"}
  /\ err \in Errors
  /\ expired \subseteq Attempt
  /\ ctxErr \in [Attempt -> {"nil", "deadline", "canceled"}]
  /\ conn \in [Attempt -> {"none", "open", "closed"}]
  /\ watcher \in [Attempt -> {"none", "waiting", "closing", "gone"}]
  /\ done \subseteq Attempt
  /\ requests \subseteq Attempt
  /\ answers \subseteq Attempt
  /\ buffer \in [Attempt -> Seq(Packet)]
  /\ interrupted \in BOOLEAN
  /\ conclusion \in [Attempt -> ReachabilityConclusions \cup {Undecided}]
  /\ answered \subseteq Attempt
  /\ accepted \in [Attempt -> Packet]
  /\ strangers \in 0 .. MaxStrangers

(* reachability.go:184, "Map close-after-cancel to context error": a read  *)
(* that failed because the watcher closed the socket under it is reported  *)
(* as the context's error, although the context is asked only afterwards.  *)
ClosedReadIsContextError ==
  [][pc = "map" /\ err = "closed" /\ pc' = "return"
       => err' \in {"deadline", "canceled"}]_vars

(* Whatever order the timers, the watcher and the packets came in, the     *)
(* verdict has its reason: "reachable" is never reported unless the target *)
(* answered an echo request of this very process, sent in this attempt or  *)
(* an earlier one; a timeout only when the context is done; and an error   *)
(* only for an ICMP error, or for a socket that one of the two timers or   *)
(* the watcher really took away.  (So a ping nobody answered may be either *)
(* of docs/schema.md:174, "REACHABILITY_TIMEOUT: ICMP probe timed out (no  *)
(* response)", and :175 "REACHABILITY_ERROR: Other ICMP error".)           *)
VerdictIsExplained ==
  /\ \A a \in Attempt :
       /\ conclusion[a][1] = "ok" => accepted[a] \in answered /\ accepted[a] <= a
       /\ conclusion[a][2] = "REACHABILITY_TIMEOUT" => ctxErr[a] # "nil"
  /\ pc = "returned" /\ conclusion[current][2] = "REACHABILITY_ERROR" =>
       \/ err = "errno"
       \/ err = "i/o timeout" /\ current \in expired
       \/ err = "closed" /\ ctxErr[current] # "nil" /\ watcher[current] = "gone"

(* reachability.go:154, "The done channel prevents the goroutine from      *)
(* leaking on success": once a Probe has returned its watcher ends, even   *)
(* if the context never comes to be done, and its socket is closed.        *)
NothingLeaks ==
  \A a \in Attempt :
    conclusion[a] # Undecided ~> watcher[a] \in {"none", "gone"} /\ conn[a] # "open"

(* Each attempt's Probe keeps the contract the runner relies on, and       *)
(* returns once its context is done however the timers, the watcher, the   *)
(* replies and the reading thread interleave.                              *)
Phase ==
  CASE pc = "idle" -> "idle"
    [] pc = "returned" -> "returned"
    [] OTHER -> "called"

Contract ==
  INSTANCE LayerProbe WITH
    Layer <- "reachability",
    phase <- Phase,
    ctxDone <- ctxErr[current] # "nil",
    conclusion <- conclusion[current]

ImplementsProbe == Contract!Spec

------------------------------------------------------------------------------
(* reachability.go:166, "stale replies from prior attempts cannot arrive   *)
(* on a new raw socket": an attempt that reports the target as reachable   *)
(* took the reply to its own request.                                      *)
NoStaleReply ==
  \A a \in Attempt : conclusion[a][1] = "ok" => accepted[a] = a

==============================================================================
