------------------------------ MODULE PingProofs ------------------------------
(***************************************************************************)
(* The verdicts of any number of pings, for every order of the two timers, *)
(* the watchers, the signal and the packets, and with any number of        *)
(* foreign packets among them.                                             *)
(***************************************************************************)
EXTENDS Ping, TLAPS

(* Nothing is answered, delivered or queued that was not asked for, and    *)
(* nothing was asked for by an attempt that has not begun.                 *)
PacketInv ==
  /\ requests \subseteq 1 .. current
  /\ answered \subseteq 1 .. current
  /\ answers \subseteq answered
  /\ \A a \in Attempt : \A k \in DOMAIN buffer[a] : buffer[a][k] \in answered \cup {Stranger}

(* An attempt has no watcher before it begins.  A watcher is about to      *)
(* close its socket only when the context is done, and until Probe returns *)
(* nobody else closes it.                                                  *)
WatcherInv ==
  /\ \A a \in Attempt : a > current => watcher[a] = "none"
  /\ \A a \in Attempt : watcher[a] = "closing" => ctxErr[a] # "nil"
  /\ pc \in {"write", "read"} /\ conn[current] = "closed" =>
       watcher[current] = "gone" /\ ctxErr[current] # "nil"

(* Once an operation has failed, the error it holds has its reason.        *)
ErrorInv ==
  /\ pc = "map" => err \in {"closed", "i/o timeout", "errno"}
  /\ pc \in {"map", "return", "returned"} =>
       /\ err = "i/o timeout" => current \in expired
       /\ err = "closed" => ctxErr[current] # "nil" /\ watcher[current] = "gone"
       /\ err \in {"deadline", "canceled"} => ctxErr[current] # "nil"
  /\ pc \in {"return", "returned"} /\ err = "nil" =>
       accepted[current] \in answered /\ accepted[current] <= current

(* There is no conclusion before Probe returns, and then it is what err    *)
(* was classified as.                                                      *)
ConclusionInv ==
  /\ \A a \in Attempt : a > current => conclusion[a] = Undecided
  /\ conclusion[current] = IF pc = "returned" THEN Classify(err) ELSE Undecided
  /\ \A a \in Attempt :
       /\ conclusion[a][1] = "ok" => accepted[a] \in answered /\ accepted[a] <= a
       /\ conclusion[a][2] = "REACHABILITY_TIMEOUT" => ctxErr[a] # "nil"

PingInv == TypeOK /\ PacketInv /\ WatcherInv /\ ErrorInv /\ ConclusionInv
------------------------------------------------------------------------------
(* The operators.                                                          *)

(* Every error has a conclusion the contract of the layer allows; only no  *)
(* error at all is an ok, and only the context's errors are a timeout.     *)
LEMMA ClassifyKinds ==
  ASSUME NEW e \in Errors
  PROVE  /\ Classify(e) \in ReachabilityConclusions
         /\ Classify(e)[1] = "ok" <=> e = "nil"
         /\ Classify(e)[2] = "REACHABILITY_TIMEOUT" <=> e \in {"deadline", "canceled"}
         /\ Classify(e)[2] = "REACHABILITY_ERROR" => e \in {"errno", "i/o timeout", "closed"}
  BY DEF Errors, Classify, ReachabilityConclusions, ReachabilityCodes, OK, With, NoError

(* A socket that is closed has nothing queued.                             *)
LEMMA EmptyBuffer ==
  ASSUME buffer \in [Attempt -> Seq(Packet)], NEW a \in Attempt,
         buffer' = [buffer EXCEPT ![a] = <<>>]
  PROVE  /\ buffer' \in [Attempt -> Seq(Packet)]
         /\ \A b \in Attempt : \A k \in DOMAIN buffer'[b] :
              k \in DOMAIN buffer[b] /\ buffer'[b][k] = buffer[b][k]
<1>1. <<>> \in Seq(Packet) /\ DOMAIN <<>> = {}
  OBVIOUS
<1>2. \A b \in Attempt : buffer'[b] = IF b = a THEN <<>> ELSE buffer[b]
  OBVIOUS
<1>3. \A b \in Attempt : buffer'[b] \in Seq(Packet)
  BY <1>1, <1>2
<1>4. buffer' \in [Attempt -> Seq(Packet)]
  BY <1>3
<1> QED
  BY <1>1, <1>2, <1>4

(* Reading takes the first packet and leaves the others.                   *)
LEMMA ReadTakesHead ==
  ASSUME buffer \in [Attempt -> Seq(Packet)], NEW a \in Attempt, buffer[a] # <<>>,
         buffer' = [buffer EXCEPT ![a] = Tail(@)]
  PROVE  /\ Head(buffer[a]) \in Packet
         /\ 1 \in DOMAIN buffer[a] /\ Head(buffer[a]) = buffer[a][1]
         /\ buffer' \in [Attempt -> Seq(Packet)]
         /\ \A b \in Attempt : \A k \in DOMAIN buffer'[b] :
              \E j \in DOMAIN buffer[b] : buffer'[b][k] = buffer[b][j]
<1> DEFINE s == buffer[a]
<1>1. s \in Seq(Packet) /\ s # <<>>
  OBVIOUS
<1>2. s[1] \in Packet /\ 1 \in DOMAIN s /\ Head(s) = s[1] /\ Tail(s) \in Seq(Packet)
  BY <1>1
<1>3. \A k \in DOMAIN Tail(s) : k + 1 \in DOMAIN s /\ Tail(s)[k] = s[k + 1]
  BY <1>1
<1>4. \A b \in Attempt : buffer'[b] = IF b = a THEN Tail(s) ELSE buffer[b]
  OBVIOUS
<1> HIDE DEF s
<1>5. \A b \in Attempt : buffer'[b] \in Seq(Packet)
  BY <1>2, <1>4
<1>6. ASSUME NEW b \in Attempt, NEW k \in DOMAIN buffer'[b]
      PROVE  \E j \in DOMAIN buffer[b] : buffer'[b][k] = buffer[b][j]
  BY <1>3, <1>4, <1>6 DEF s
<1> QED
  BY <1>2, <1>5, <1>6 DEF s

(* A packet is queued at the end of the buffers of the open sockets.       *)
LEMMA QueueAppends ==
  ASSUME buffer \in [Attempt -> Seq(Packet)], NEW packet \in Packet, Queue(packet)
  PROVE  /\ buffer' \in [Attempt -> Seq(Packet)]
         /\ \A a \in Attempt : \A k \in DOMAIN buffer'[a] :
              buffer'[a][k] = packet \/ (k \in DOMAIN buffer[a] /\ buffer'[a][k] = buffer[a][k])
<1>1. \A a \in Attempt : buffer'[a] \in {buffer[a], Append(buffer[a], packet)}
  BY DEF Queue
<1>2. \A a \in Attempt : Append(buffer[a], packet) \in Seq(Packet)
  OBVIOUS
<1>3. buffer' \in [Attempt -> Seq(Packet)]
  BY <1>2 DEF Queue
<1>4. ASSUME NEW a \in Attempt, NEW k \in DOMAIN buffer'[a]
      PROVE  buffer'[a][k] = packet \/ (k \in DOMAIN buffer[a] /\ buffer'[a][k] = buffer[a][k])
  <2>1. buffer[a] \in Seq(Packet)
    OBVIOUS
  <2>2. CASE buffer'[a] = buffer[a]
    BY <1>4, <2>2
  <2>3. CASE buffer'[a] = Append(buffer[a], packet)
    BY <1>4, <2>1, <2>3
  <2> QED
    BY <1>1, <2>2, <2>3
<1> QED
  BY <1>3, <1>4

(* The steps of the attempt's thread, of its watchers and of the rest.     *)
LEMMA StepCases ==
  ASSUME [Next]_vars
  PROVE  \/ Call \/ DialFails \/ DialOpens \/ WriteFails \/ WriteSends \/ ReadFails
         \/ ReadPacket \/ MapReadError \/ ProbeReturns \/ NextAttempt
         \/ \E a \in Attempt : WatcherSeesContext(a) \/ WatcherCloses(a) \/ WatcherSeesDone(a)
         \/ SocketTimer \/ ContextTimer \/ Signal
         \/ \E a \in Attempt : Answer(a) \/ Deliver(a)
         \/ DeliverStranger
         \/ UNCHANGED vars
  BY DEF Next, Thread, Watcher

------------------------------------------------------------------------------
(* The type of the state.                                                  *)

LEMMA InitInv == Init => PingInv
<1> SUFFICES ASSUME Init PROVE PingInv
  OBVIOUS
<1>1. 1 \in Attempt
  BY AttemptsAssumption DEF Attempt
<1>2. TypeOK
  <2>1. <<>> \in Seq(Packet)
    OBVIOUS
  <2>2. buffer \in [Attempt -> Seq(Packet)]
    BY <2>1 DEF Init
  <2>3. 0 \in 0 .. MaxStrangers
    BY StrangersAssumption
  <2> QED
    BY <1>1, <2>2, <2>3, ZenonT(30) DEF Init, TypeOK, Errors, Packet
<1>3. PacketInv /\ WatcherInv /\ ErrorInv
  BY DEF Init, PacketInv, WatcherInv, ErrorInv
<1>4. ConclusionInv
  BY <1>1 DEF Init, ConclusionInv, Undecided, NoError
<1> QED
  BY <1>2, <1>3, <1>4 DEF PingInv

(* An attempt that is not the last has a successor.                        *)
LEMMA NextIsAttempt ==
  ASSUME NEW a \in Attempt, a < Attempts
  PROVE  a + 1 \in Attempt
  BY AttemptsAssumption DEF Attempt

(* The attempt under way has begun.                                        *)
LEMMA CurrentBegun == \A a \in Attempt : a \in 1 .. a
  BY DEF Attempt

(* An attempt that has begun is not later than the one under way.          *)
LEMMA BegunBefore == \A a \in Attempt : \A b \in 1 .. a : b <= a
  BY AttemptsAssumption DEF Attempt

(* The foreign packets are counted up to their bound.                      *)
LEMMA CountsStrangers ==
  ASSUME NEW n \in 0 .. MaxStrangers, n < MaxStrangers
  PROVE  n + 1 \in 0 .. MaxStrangers
  BY StrangersAssumption

(* Every step keeps the type of the state.                                 *)
LEMMA NextType ==
  ASSUME TypeOK, [Next]_vars
  PROVE  TypeOK'
<1> USE DEF TypeOK, timeVars, netVars, Errors
<1>1. CASE Call
  BY <1>1 DEF Call
<1>2. CASE DialFails
  BY <1>2 DEF DialFails, Return
<1>3. CASE DialOpens
  BY <1>3 DEF DialOpens
<1>4. CASE WriteFails
  BY <1>4 DEF WriteFails, Return, SocketError
<1>5. CASE WriteSends
  BY <1>5 DEF WriteSends
<1>6. CASE ReadFails
  BY <1>6 DEF ReadFails, SocketError
<1>7. CASE ReadPacket
  <2>1. buffer[current] # <<>> /\ buffer' = [buffer EXCEPT ![current] = Tail(@)]
    BY <1>7 DEF ReadPacket
  <2>2. Head(buffer[current]) \in Packet
    BY <2>1, ReadTakesHead
  <2>3. buffer' \in [Attempt -> Seq(Packet)]
    BY <2>1, ReadTakesHead
  <2>4. accepted' \in [Attempt -> Packet]
    BY <1>7, <2>2 DEF ReadPacket
  <2> QED
    BY <1>7, <2>3, <2>4 DEF ReadPacket, Return
<1>8. CASE MapReadError
  BY <1>8 DEF MapReadError, Return
<1>9. CASE ProbeReturns
  <2>1. Classify(err) \in ReachabilityConclusions
    BY ClassifyKinds
  <2>2. buffer' \in [Attempt -> Seq(Packet)]
    BY <1>9, EmptyBuffer DEF ProbeReturns
  <2> QED
    BY <1>9, <2>1, <2>2 DEF ProbeReturns
<1>10. CASE NextAttempt
  <2>1. current + 1 \in Attempt
    BY <1>10, NextIsAttempt DEF NextAttempt
  <2>2. ctxErr' \in [Attempt -> {"nil", "deadline", "canceled"}]
    BY <1>10, <2>1 DEF NextAttempt
  <2> QED
    BY <1>10, <2>1, <2>2 DEF NextAttempt
<1>11. ASSUME NEW a \in Attempt, WatcherSeesContext(a) \/ WatcherCloses(a) \/ WatcherSeesDone(a)
       PROVE  TypeOK'
  <2>1. buffer' \in [Attempt -> Seq(Packet)]
    BY <1>11, EmptyBuffer DEF WatcherSeesContext, WatcherCloses, WatcherSeesDone
  <2> QED
    BY <1>11, <2>1 DEF WatcherSeesContext, WatcherCloses, WatcherSeesDone
<1>12. CASE SocketTimer \/ ContextTimer \/ Signal
  BY <1>12 DEF SocketTimer, ContextTimer, Signal
<1>13. ASSUME NEW a \in Attempt, Answer(a) \/ Deliver(a)
       PROVE  TypeOK'
  <2>1. buffer' \in [Attempt -> Seq(Packet)]
    BY <1>13, QueueAppends DEF Answer, Deliver, Packet
  <2> QED
    BY <1>13, <2>1 DEF Answer, Deliver
<1>14. CASE DeliverStranger
  <2>1. buffer' \in [Attempt -> Seq(Packet)]
    BY <1>14, QueueAppends DEF DeliverStranger, Packet
  <2>2. strangers' \in 0 .. MaxStrangers
    BY <1>14, CountsStrangers DEF DeliverStranger
  <2> QED
    BY <1>14, <2>1, <2>2 DEF DeliverStranger
<1>15. CASE UNCHANGED vars
  BY <1>15 DEF vars
<1> QED
  BY <1>1, <1>2, <1>3, <1>4, <1>5, <1>6, <1>7, <1>8, <1>9, <1>10, <1>11, <1>12, <1>13,
     <1>14, <1>15, StepCases

------------------------------------------------------------------------------
(* The packets.                                                            *)

(* A step keeps what is queued when it adds nothing to the buffers and     *)
(* withdraws no answer.                                                    *)
LEMMA QueuedStaysAnswered ==
  ASSUME PacketInv, answered \subseteq answered',
         \A a \in Attempt : \A k \in DOMAIN buffer'[a] :
           \E j \in DOMAIN buffer[a] : buffer'[a][k] = buffer[a][j]
  PROVE  \A a \in Attempt : \A k \in DOMAIN buffer'[a] : buffer'[a][k] \in answered' \cup {Stranger}
<1> TAKE a \in Attempt
<1> TAKE k \in DOMAIN buffer'[a]
<1>1. PICK j \in DOMAIN buffer[a] : buffer'[a][k] = buffer[a][j]
  OBVIOUS
<1>2. buffer[a][j] \in answered \cup {Stranger}
  BY DEF PacketInv
<1> QED
  BY <1>1, <1>2

(* Every step keeps the packets accounted for.                             *)
LEMMA NextPackets ==
  ASSUME TypeOK, PacketInv, [Next]_vars
  PROVE  PacketInv'
<1>1. buffer \in [Attempt -> Seq(Packet)]
  BY DEF TypeOK
<1>2. CASE UNCHANGED <<current, netVars, buffer>>
  BY <1>2 DEF PacketInv, netVars
<1>3. CASE WriteSends
  BY <1>3, CurrentBegun DEF WriteSends, PacketInv, TypeOK
<1>4. CASE ReadPacket
  <2>1. UNCHANGED <<current, netVars>>
    BY <1>4 DEF ReadPacket
  <2>2. \A a \in Attempt : \A k \in DOMAIN buffer'[a] :
          \E j \in DOMAIN buffer[a] : buffer'[a][k] = buffer[a][j]
    BY <1>1, <1>4, ReadTakesHead DEF ReadPacket, TypeOK
  <2> QED
    BY <2>1, <2>2, QueuedStaysAnswered DEF PacketInv, netVars
<1>5. CASE NextAttempt
  <2>1. \A a \in 1 .. current : a \in 1 .. current'
    BY <1>5 DEF NextAttempt, TypeOK, Attempt
  <2> QED
    BY <1>5, <2>1 DEF NextAttempt, PacketInv, netVars
<1>6. ASSUME ProbeReturns \/ \E a \in Attempt : WatcherCloses(a)
      PROVE  PacketInv'
  <2>1. UNCHANGED <<current, netVars>>
    BY <1>6 DEF ProbeReturns, WatcherCloses
  <2>2. \A a \in Attempt : \A k \in DOMAIN buffer'[a] :
          k \in DOMAIN buffer[a] /\ buffer'[a][k] = buffer[a][k]
    BY <1>1, <1>6, EmptyBuffer DEF ProbeReturns, WatcherCloses, TypeOK
  <2> QED
    BY <2>1, <2>2, QueuedStaysAnswered DEF PacketInv, netVars
<1>7. ASSUME NEW a \in Attempt, Answer(a)
      PROVE  PacketInv'
  BY <1>7 DEF Answer, PacketInv
<1>8. ASSUME NEW a \in Attempt, Deliver(a)
      PROVE  PacketInv'
  <2>1. a \in answered /\ a \in Packet
    BY <1>8 DEF Deliver, PacketInv, Packet
  <2> QED
    BY <1>1, <1>8, <2>1, QueueAppends DEF Deliver, PacketInv
<1>9. CASE DeliverStranger
  <2>1. Stranger \in Packet
    BY DEF Packet
  <2> QED
    BY <1>1, <1>9, <2>1, QueueAppends DEF DeliverStranger, PacketInv, netVars
<1>10. Call \/ DialFails \/ DialOpens \/ WriteFails \/ ReadFails \/ MapReadError
         \/ (\E a \in Attempt : WatcherSeesContext(a) \/ WatcherSeesDone(a))
         \/ SocketTimer \/ ContextTimer \/ Signal \/ UNCHANGED vars
       => UNCHANGED <<current, netVars, buffer>>
  BY DEF Call, DialFails, DialOpens, WriteFails, ReadFails, MapReadError,
         WatcherSeesContext, WatcherSeesDone, SocketTimer, ContextTimer, Signal, vars
<1> QED
  BY <1>2, <1>3, <1>4, <1>5, <1>6, <1>7, <1>8, <1>9, <1>10, StepCases

------------------------------------------------------------------------------
(* The watchers.                                                           *)

(* Every step keeps what is known of the watchers.                         *)
LEMMA NextWatchers ==
  ASSUME TypeOK, WatcherInv, [Next]_vars
  PROVE  WatcherInv'
<1> USE DEF TypeOK, WatcherInv, timeVars
<1>1. CASE DialOpens
  <2>1. \A a \in Attempt : a > current => a # current
    BY DEF Attempt
  <2> QED
    BY <1>1, <2>1 DEF DialOpens
<1>2. CASE ProbeReturns \/ Call \/ DialFails \/ WriteFails \/ WriteSends \/ ReadFails \/ MapReadError
  BY <1>2 DEF ProbeReturns, Call, DialFails, WriteFails, WriteSends, ReadFails, MapReadError, Return
<1>3. CASE ReadPacket
  BY <1>3 DEF ReadPacket, Return
<1>4. CASE NextAttempt
  <2>1. current + 1 \in Attempt /\ current + 1 > current
        /\ \A a \in Attempt : a > current + 1 => a > current
    BY <1>4, NextIsAttempt DEF NextAttempt, Attempt
  <2>2. \A a \in Attempt \ {current + 1} : ctxErr[a] # "nil" => ctxErr'[a] # "nil"
    BY <1>4, <2>1 DEF NextAttempt
  <2>3. watcher[current + 1] = "none"
    BY <2>1
  <2> QED
    BY <1>4, <2>1, <2>2, <2>3 DEF NextAttempt
<1>5. ASSUME NEW a \in Attempt, WatcherSeesContext(a)
      PROVE  WatcherInv'
  BY <1>5 DEF WatcherSeesContext
<1>6. ASSUME NEW a \in Attempt, WatcherCloses(a)
      PROVE  WatcherInv'
  BY <1>6 DEF WatcherCloses
<1>7. ASSUME NEW a \in Attempt, WatcherSeesDone(a)
      PROVE  WatcherInv'
  BY <1>7 DEF WatcherSeesDone
<1>8. CASE ContextTimer \/ Signal
  <2>1. \A a \in Attempt : ctxErr[a] # "nil" => ctxErr'[a] # "nil"
    BY <1>8 DEF ContextTimer, Signal
  <2> QED
    BY <1>8, <2>1 DEF ContextTimer, Signal
<1>9. CASE SocketTimer \/ DeliverStranger \/ UNCHANGED vars
  BY <1>9 DEF SocketTimer, DeliverStranger, vars
<1>10. ASSUME NEW a \in Attempt, Answer(a) \/ Deliver(a)
       PROVE  WatcherInv'
  BY <1>10 DEF Answer, Deliver
<1> QED
  BY <1>1, <1>2, <1>3, <1>4, <1>5, <1>6, <1>7, <1>8, <1>9, <1>10, StepCases

------------------------------------------------------------------------------
(* The errors and the verdicts.                                            *)

(* What an error owes to the timers, the context and the watchers stays:   *)
(* none of them is undone while the attempt is under way.                  *)
LEMMA ReasonsStay ==
  ASSUME TypeOK, WatcherInv, [Next]_vars, ~DialOpens, ~NextAttempt
  PROVE  /\ current' = current
         /\ expired \subseteq expired'
         /\ \A a \in Attempt : ctxErr[a] # "nil" => ctxErr'[a] # "nil"
         /\ \A a \in Attempt : watcher[a] = "gone" => watcher'[a] = "gone"
         /\ answered \subseteq answered'
<1> USE DEF TypeOK, timeVars, netVars
<1>1. current' = current /\ expired \subseteq expired' /\ answered \subseteq answered'
  BY StepCases
     DEF Call, DialFails, WriteFails, WriteSends, ReadFails, ReadPacket, MapReadError,
         ProbeReturns, WatcherSeesContext, WatcherCloses, WatcherSeesDone, SocketTimer,
         ContextTimer, Signal, Answer, Deliver, DeliverStranger, vars
<1>2. \A a \in Attempt : ctxErr[a] # "nil" => ctxErr'[a] # "nil"
  <2>1. CASE ContextTimer \/ Signal
    BY <2>1 DEF ContextTimer, Signal
  <2>2. ~(ContextTimer \/ Signal) => UNCHANGED ctxErr
    BY StepCases
       DEF Call, DialFails, WriteFails, WriteSends, ReadFails, ReadPacket, MapReadError,
           ProbeReturns, WatcherSeesContext, WatcherCloses, WatcherSeesDone, SocketTimer,
           Answer, Deliver, DeliverStranger, vars
  <2> QED
    BY <2>1, <2>2
<1>3. \A a \in Attempt : watcher[a] = "gone" => watcher'[a] = "gone"
  <2>1. CASE \E a \in Attempt : WatcherSeesContext(a) \/ WatcherCloses(a) \/ WatcherSeesDone(a)
    BY <2>1 DEF WatcherSeesContext, WatcherCloses, WatcherSeesDone
  <2>2. ~(\E a \in Attempt : WatcherSeesContext(a) \/ WatcherCloses(a) \/ WatcherSeesDone(a))
          => UNCHANGED watcher
    BY StepCases
       DEF Call, DialFails, WriteFails, WriteSends, ReadFails, ReadPacket, MapReadError,
           ProbeReturns, SocketTimer, ContextTimer, Signal, Answer, Deliver, DeliverStranger, vars
  <2> QED
    BY <2>1, <2>2
<1> QED
  BY <1>1, <1>2, <1>3

(* What a socket operation reports is its deadline or its watcher.         *)
LEMMA SocketErrorHasReason ==
  ASSUME TypeOK, WatcherInv, pc \in {"write", "read"}
  PROVE  /\ SocketError \in {"nil", "closed", "i/o timeout"}
         /\ SocketError = "i/o timeout" => current \in expired
         /\ SocketError = "closed" => ctxErr[current] # "nil" /\ watcher[current] = "gone"
  BY DEF SocketError, WatcherInv

(* Every step leaves the error with its reason.                            *)
LEMMA NextErrors ==
  ASSUME TypeOK, PacketInv, WatcherInv, ErrorInv, [Next]_vars
  PROVE  ErrorInv'
<1> USE DEF ErrorInv
<1>1. CASE DialOpens
  BY <1>1 DEF DialOpens
<1>2. CASE NextAttempt
  BY <1>2 DEF NextAttempt
<1>3. CASE DialFails
  BY <1>3 DEF DialFails, Return
<1>4. CASE WriteFails
  BY <1>4, SocketErrorHasReason DEF WriteFails, Return, timeVars
<1>5. CASE ReadFails
  BY <1>5, SocketErrorHasReason DEF ReadFails, timeVars
<1>6. CASE MapReadError
  <2>1. ctxErr[current] \in {"nil", "deadline", "canceled"}
    BY DEF TypeOK
  <2> QED
    BY <1>6, <2>1 DEF MapReadError, Return, timeVars
<1>7. CASE ReadPacket
  <2>1. buffer \in [Attempt -> Seq(Packet)] /\ current \in Attempt
        /\ accepted \in [Attempt -> Packet]
    BY DEF TypeOK
  <2>2. CASE IsOurs(Head(buffer[current]))
    <3>1. Head(buffer[current]) \in answered
      BY <1>7, <2>1, <2>2, ReadTakesHead DEF ReadPacket, PacketInv, IsOurs
    <3>2. Head(buffer[current]) <= current
      BY <2>1, <3>1, BegunBefore DEF PacketInv
    <3> QED
      BY <1>7, <2>1, <2>2, <3>1, <3>2 DEF ReadPacket, Return, netVars
  <2>3. CASE ~IsOurs(Head(buffer[current]))
    BY <1>7, <2>3 DEF ReadPacket
  <2> QED
    BY <2>2, <2>3
<1>8. CASE ProbeReturns
  BY <1>8 DEF ProbeReturns, timeVars, netVars
<1>9. CASE Call \/ WriteSends
  BY <1>9 DEF Call, WriteSends
<1>10. CASE /\ ~DialOpens /\ ~NextAttempt
            /\ UNCHANGED <<pc, err, accepted>>
  <2>1. current \in Attempt
    BY DEF TypeOK
  <2> QED
    BY <1>10, <2>1, ReasonsStay
<1>11. (\E a \in Attempt : WatcherSeesContext(a) \/ WatcherCloses(a) \/ WatcherSeesDone(a))
         \/ SocketTimer \/ ContextTimer \/ Signal
         \/ (\E a \in Attempt : Answer(a) \/ Deliver(a))
         \/ DeliverStranger \/ UNCHANGED vars
       => UNCHANGED <<pc, err, accepted>>
  BY DEF WatcherSeesContext, WatcherCloses, WatcherSeesDone, SocketTimer, ContextTimer,
         Signal, Answer, Deliver, DeliverStranger, vars
<1> QED
  BY <1>1, <1>2, <1>3, <1>4, <1>5, <1>6, <1>7, <1>8, <1>9, <1>10, <1>11, StepCases

(* Every step leaves the verdicts explained.                               *)
LEMMA NextConclusions ==
  ASSUME TypeOK, PacketInv, WatcherInv, ErrorInv, ConclusionInv, [Next]_vars
  PROVE  ConclusionInv'
<1> USE DEF ConclusionInv
<1>0. current \in Attempt /\ err \in Errors
      /\ Undecided[1] # "ok" /\ Undecided[2] # "REACHABILITY_TIMEOUT"
  BY DEF TypeOK, Undecided, NoError
<1>1. CASE ProbeReturns
  <2>1. conclusion' = [conclusion EXCEPT ![current] = Classify(err)] /\ pc' = "returned"
        /\ UNCHANGED <<current, err, ctxErr, answered, accepted>>
    BY <1>1 DEF ProbeReturns, timeVars, netVars
  <2>2. /\ Classify(err)[1] = "ok" => accepted[current] \in answered /\ accepted[current] <= current
        /\ Classify(err)[2] = "REACHABILITY_TIMEOUT" => ctxErr[current] # "nil"
    BY <1>0, <1>1, ClassifyKinds DEF ProbeReturns, ErrorInv
  <2>3. conclusion'[current] = Classify(err)
        /\ \A a \in Attempt \ {current} : conclusion'[a] = conclusion[a]
    BY <1>0, <2>1 DEF TypeOK
  <2>4. \A a \in Attempt : a > current => a # current
    BY <1>0 DEF Attempt
  <2> QED
    BY <1>0, <2>1, <2>2, <2>3, <2>4
<1>2. CASE NextAttempt
  <2>1. current + 1 \in Attempt /\ current + 1 > current
        /\ \A a \in Attempt : a > current + 1 => a > current
    BY <1>0, <1>2, NextIsAttempt DEF NextAttempt, Attempt
  <2>2. \A a \in Attempt \ {current + 1} : ctxErr[a] # "nil" => ctxErr'[a] # "nil"
    BY <1>2, <2>1 DEF NextAttempt, TypeOK
  <2>3. current' = current + 1 /\ pc' = "idle" /\ UNCHANGED <<conclusion, answered, accepted>>
    BY <1>2 DEF NextAttempt, netVars
  <2> QED
    BY <1>0, <2>1, <2>2, <2>3
<1>3. CASE ReadPacket
  <2>1. /\ UNCHANGED <<current, conclusion, ctxErr, answered>>
        /\ pc # "returned" /\ pc' # "returned"
        /\ \A a \in Attempt \ {current} : accepted'[a] = accepted[a]
    BY <1>3 DEF ReadPacket, Return, timeVars, netVars, TypeOK
  <2> QED
    BY <1>0, <2>1
<1>4. CASE DialOpens
  BY <1>4 DEF DialOpens, timeVars, netVars
<1>5. CASE Call \/ DialFails \/ WriteFails \/ WriteSends \/ ReadFails \/ MapReadError
  BY <1>5 DEF Call, DialFails, WriteFails, WriteSends, ReadFails, MapReadError, Return,
              timeVars, netVars
<1>6. CASE ~DialOpens /\ ~NextAttempt /\ UNCHANGED <<pc, err, accepted, conclusion>>
  BY <1>0, <1>6, ReasonsStay
<1>7. (\E a \in Attempt : WatcherSeesContext(a) \/ WatcherCloses(a) \/ WatcherSeesDone(a))
        \/ SocketTimer \/ ContextTimer \/ Signal
        \/ (\E a \in Attempt : Answer(a) \/ Deliver(a))
        \/ DeliverStranger \/ UNCHANGED vars
      => UNCHANGED <<pc, err, accepted, conclusion>>
  BY DEF WatcherSeesContext, WatcherCloses, WatcherSeesDone, SocketTimer, ContextTimer,
         Signal, Answer, Deliver, DeliverStranger, vars
<1> QED
  BY <1>1, <1>2, <1>3, <1>4, <1>5, <1>6, <1>7, StepCases

------------------------------------------------------------------------------
(* The results.                                                            *)

(* The invariant is inductive.                                             *)
LEMMA Invariance == Spec => []PingInv
<1>1. PingInv /\ [Next]_vars => PingInv'
  BY NextType, NextPackets, NextWatchers, NextErrors, NextConclusions DEF PingInv
<1> QED
  BY <1>1, InitInv, PTL DEF Spec

(* reachability.go: the attempts' threads, sockets, timers and packets     *)
(* keep their types, however many attempts there are.                      *)
THEOREM PingTypeCorrect == Spec => []TypeOK
<1>1. PingInv => TypeOK
  BY DEF PingInv
<1> QED
  BY <1>1, Invariance, PTL

(* reachability.go, Ping and Probe: "reachable" needs an answered request  *)
(* of this process, a timeout a context that is done, and an error an ICMP *)
(* error or a socket that a timer or the watcher took away.                *)
THEOREM VerdictExplained == Spec => []VerdictIsExplained
<1>1. ASSUME PingInv PROVE VerdictIsExplained
  <2>1. ASSUME pc = "returned", conclusion[current][2] = "REACHABILITY_ERROR"
        PROVE  \/ err = "errno"
               \/ err = "i/o timeout" /\ current \in expired
               \/ err = "closed" /\ ctxErr[current] # "nil" /\ watcher[current] = "gone"
    <3>1. err \in {"errno", "i/o timeout", "closed"}
      <4>1. err \in Errors
        BY <1>1 DEF PingInv, TypeOK
      <4>2. Classify(err)[2] = "REACHABILITY_ERROR"
        BY <1>1, <2>1 DEF PingInv, ConclusionInv
      <4> QED
        BY <4>1, <4>2, ClassifyKinds
    <3> QED
      BY <1>1, <2>1, <3>1 DEF PingInv, ErrorInv
  <2> QED
    BY <1>1, <2>1 DEF PingInv, ConclusionInv, VerdictIsExplained
<1> QED
  BY <1>1, Invariance, PTL

(* reachability.go:184: a read that failed because the watcher closed the  *)
(* socket is mapped to the context's error; the watcher had seen it done.  *)
THEOREM ClosedReadMapped == Spec => ClosedReadIsContextError
<1>1. ASSUME PingInv, [Next]_vars
      PROVE  [pc = "map" /\ err = "closed" /\ pc' = "return"
                => err' \in {"deadline", "canceled"}]_vars
  <2> SUFFICES ASSUME pc = "map", err = "closed", pc' = "return"
               PROVE  err' \in {"deadline", "canceled"}
    OBVIOUS
  <2>1. ctxErr[current] \in {"deadline", "canceled"}
    BY <1>1 DEF PingInv, TypeOK, ErrorInv
  <2>2. MapReadError
    BY <1>1, StepCases
       DEF Call, DialFails, DialOpens, WriteFails, WriteSends, ReadFails, ReadPacket,
           ProbeReturns, NextAttempt, WatcherSeesContext, WatcherCloses, WatcherSeesDone,
           SocketTimer, ContextTimer, Signal, Answer, Deliver, DeliverStranger, vars
  <2> QED
    BY <2>1, <2>2 DEF MapReadError, Return
<1> QED
  BY <1>1, Invariance, PTL DEF ClosedReadIsContextError, Spec

(* The contract's table is the one the model uses.                         *)
LEMMA SameConclusions == Contract!Conclusions["reachability"] = ReachabilityConclusions
  BY DEF Contract!Conclusions, Contract!ReachabilityConclusions, Contract!ReachabilityCodes,
         Contract!OK, Contract!With, Contract!NoError,
         ReachabilityConclusions, ReachabilityCodes, OK, With, NoError

(* Every step of the system is a step of the contract or none of it.       *)
LEMMA ContractStep ==
  ASSUME PingInv, [Next]_vars
  PROVE  [Contract!Next]_(Contract!vars)
<1> USE DEF Contract!vars, Contract!Next, Phase
<1>0. current \in Attempt /\ ctxErr \in [Attempt -> {"nil", "deadline", "canceled"}]
      /\ conclusion \in [Attempt -> ReachabilityConclusions \cup {Undecided}]
      /\ pc \in {"idle", "dial", "write", "read", "map", "return", "returned"}
  BY DEF PingInv, TypeOK
<1>1. CASE Call
  BY <1>1 DEF Call, Contract!Call, timeVars
<1>2. CASE ProbeReturns
  <2>1. Classify(err) \in ReachabilityConclusions
    BY ClassifyKinds DEF PingInv, TypeOK
  <2>2. conclusion'[current'] = Classify(err)
    BY <1>0, <1>2 DEF ProbeReturns
  <2> QED
    BY <1>2, <2>1, <2>2, SameConclusions DEF ProbeReturns, Contract!Return, timeVars
<1>3. CASE NextAttempt
  <2>1. current + 1 \in Attempt /\ current + 1 > current
    BY <1>0, <1>3, NextIsAttempt DEF NextAttempt, Attempt
  <2>2. conclusion[current + 1] = Undecided
    BY <2>1 DEF PingInv, ConclusionInv
  <2> QED
    BY <1>3, <2>2 DEF NextAttempt, Contract!Renew, Contract!Undecided, Undecided,
                      Contract!NoError, NoError
<1>4. CASE ContextTimer \/ Signal
  BY <1>0, <1>4 DEF ContextTimer, Signal, Contract!ContextDone
<1>5. CASE ReadPacket
  BY <1>5 DEF ReadPacket, Return, timeVars
<1>6. CASE DialFails \/ DialOpens \/ WriteFails \/ WriteSends \/ ReadFails \/ MapReadError
  BY <1>6 DEF DialFails, DialOpens, WriteFails, WriteSends, ReadFails, MapReadError, Return,
              timeVars
<1>7. (\E a \in Attempt : WatcherSeesContext(a) \/ WatcherCloses(a) \/ WatcherSeesDone(a))
        \/ SocketTimer \/ (\E a \in Attempt : Answer(a) \/ Deliver(a))
        \/ DeliverStranger \/ UNCHANGED vars
      => UNCHANGED <<pc, current, ctxErr, conclusion>>
  BY DEF WatcherSeesContext, WatcherCloses, WatcherSeesDone, SocketTimer, Answer, Deliver,
         DeliverStranger, vars, timeVars
<1>8. CASE UNCHANGED <<pc, current, ctxErr, conclusion>>
  BY <1>8
<1> QED
  BY <1>1, <1>2, <1>3, <1>4, <1>5, <1>6, <1>7, <1>8, StepCases

(* reachability.go, Layer.Probe: every behaviour of the pings is, step for *)
(* step, one the contract of the layer allows (its safety part: that the   *)
(* call does return is liveness, which the run checks).                    *)
THEOREM PingKeepsContract == Spec => Contract!Init /\ [][Contract!Next]_(Contract!vars)
<1>1. Init => Contract!Init
  <2> SUFFICES ASSUME Init PROVE Contract!Init
    OBVIOUS
  <2>1. conclusion[current] = Undecided
    BY AttemptsAssumption DEF Init, Attempt
  <2> QED
    BY <2>1 DEF Init, Contract!Init, Phase, Contract!Undecided, Undecided,
                Contract!NoError, NoError
<1>2. PingInv /\ [Next]_vars => [Contract!Next]_(Contract!vars)
  BY ContractStep
<1> QED
  BY <1>1, <1>2, Invariance, PTL DEF Spec

(***************************************************************************)
(* What a finished attempt holds: sockets, their packets, and watchers.    *)
(***************************************************************************)

(* An attempt that has not dialed holds nothing, and one that has returned *)
(* holds no socket and keeps no watcher that has not been told.  Only an   *)
(* open socket has packets queued, and none is watched before it is open.  *)
SocketInv ==
  /\ \A a \in Attempt : a > current \/ (a = current /\ pc \in {"idle", "dial"}) =>
       conn[a] = "none" /\ watcher[a] = "none"
  /\ \A a \in Attempt : a < current \/ (a = current /\ pc = "returned") =>
       conn[a] # "open" /\ (watcher[a] = "waiting" => a \in done)
  /\ \A a \in Attempt : conn[a] = "none" => watcher[a] = "none"
  /\ \A a \in Attempt : conn[a] # "open" => buffer[a] = <<>>

(* What a Probe that has returned must not hold.                           *)
NothingHeld ==
  \A a \in Attempt : conclusion[a] # Undecided =>
    /\ conn[a] # "open" /\ buffer[a] = <<>>
    /\ watcher[a] = "waiting" => a \in done

(* There is no socket and no watcher before the first dial.                *)
LEMMA SocketInit == Init => SocketInv
BY AttemptsAssumption DEF Init, SocketInv, Attempt

(* The attempts are walked through in order. *)
LEMMA AttemptOrder ==
  /\ Attempt \subseteq Nat
  /\ \A a, c \in Attempt : a < c \/ a = c \/ a > c
  /\ \A a, c \in Attempt : ~(a < c /\ a = c) /\ ~(a < c /\ a > c) /\ ~(a = c /\ a > c)
  /\ \A a, c \in Attempt : (a > c + 1 => a > c) /\ (a = c + 1 => a > c)
                           /\ (a < c + 1 => a < c \/ a = c)
BY AttemptsAssumption DEF Attempt

(* Every step keeps it; the deferred close(done) and conn.Close are one    *)
(* step of ProbeReturns.                                                   *)
LEMMA SocketStep == PingInv /\ SocketInv /\ [Next]_vars => SocketInv'
<1> SUFFICES ASSUME PingInv, SocketInv, [Next]_vars PROVE SocketInv'
  OBVIOUS
<1>0. /\ current \in Attempt
      /\ conn \in [Attempt -> {"none", "open", "closed"}]
      /\ watcher \in [Attempt -> {"none", "waiting", "closing", "gone"}]
      /\ buffer \in [Attempt -> Seq(Packet)]
  BY DEF PingInv, TypeOK
<1>1. CASE UNCHANGED <<current, conn, watcher, done, buffer>>
           /\ (pc' = pc \/ (pc = "idle" /\ pc' = "dial")
                \/ (pc # "returned" /\ pc' \notin {"idle", "dial", "returned"}))
  BY <1>1 DEF SocketInv
<1>2. CASE Call BY <1>1, <1>2 DEF Call
<1>3. CASE DialFails BY <1>1, <1>3 DEF DialFails, Return
<1>4. CASE DialOpens
  BY <1>0, <1>4, AttemptOrder DEF DialOpens, SocketInv
<1>5. CASE WriteFails BY <1>1, <1>5 DEF WriteFails, Return
<1>6. CASE WriteSends BY <1>1, <1>6 DEF WriteSends
<1>7. CASE ReadFails BY <1>1, <1>7 DEF ReadFails
<1>8. CASE ReadPacket
  <2>1. /\ pc = "read" /\ SocketError = "nil" /\ buffer[current] # <<>>
        /\ buffer' = [buffer EXCEPT ![current] = Tail(@)]
        /\ (pc' = "return" \/ pc' = pc)
        /\ UNCHANGED <<current, conn, watcher, done>>
    BY <1>8 DEF ReadPacket, Return
  <2>2. conn[current] = "open" BY <1>0, <2>1 DEF SocketInv
  <2>3. \A a \in Attempt : conn'[a] # "open" => buffer'[a] = <<>>
    BY <1>0, <2>1, <2>2 DEF SocketInv
  <2>4. QED BY <2>1, <2>3 DEF SocketInv
<1>9. CASE MapReadError BY <1>1, <1>9 DEF MapReadError, Return
<1>10. CASE ProbeReturns
  <2>1. /\ pc = "return" /\ pc' = "returned" /\ current' = current /\ watcher' = watcher
        /\ done' = IF conn[current] = "none" THEN done ELSE done \cup {current}
        /\ conn' = [conn EXCEPT ![current] = IF @ = "none" THEN @ ELSE "closed"]
        /\ buffer' = [buffer EXCEPT ![current] = <<>>]
    BY <1>10 DEF ProbeReturns
  <2>2. \A a \in Attempt : a # current => conn'[a] = conn[a] /\ buffer'[a] = buffer[a]
    BY <2>1, <1>0
  <2>3. /\ conn'[current] \in {"none", "closed"} /\ buffer'[current] = <<>>
        /\ conn'[current] = "none" <=> conn[current] = "none"
    BY <2>1, <1>0
  <2>4. watcher[current] = "waiting" => current \in done' BY <1>0, <2>1 DEF SocketInv
  <2>5. QED BY <1>0, <2>1, <2>2, <2>3, <2>4, AttemptOrder DEF SocketInv
<1>11. CASE NextAttempt
  <2>1. /\ current' = current + 1 /\ pc = "returned" /\ pc' = "idle"
        /\ UNCHANGED <<conn, watcher, done, buffer>>
    BY <1>11 DEF NextAttempt
  <2>2. QED BY <1>0, <2>1, AttemptOrder DEF SocketInv
<1>12. ASSUME NEW a \in Attempt, WatcherSeesContext(a) PROVE SocketInv'
  <2>1. /\ watcher[a] = "waiting" /\ watcher' = [watcher EXCEPT ![a] = "closing"]
        /\ UNCHANGED <<current, pc, conn, done, buffer>>
    BY <1>12 DEF WatcherSeesContext
  <2>2. QED BY <1>0, <2>1 DEF SocketInv
<1>13. ASSUME NEW a \in Attempt, WatcherCloses(a) PROVE SocketInv'
  <2>1. /\ watcher[a] = "closing" /\ watcher' = [watcher EXCEPT ![a] = "gone"]
        /\ conn' = [conn EXCEPT ![a] = "closed"] /\ buffer' = [buffer EXCEPT ![a] = <<>>]
        /\ UNCHANGED <<current, pc, done>>
    BY <1>13 DEF WatcherCloses
  <2>2. \A b \in Attempt :
          /\ conn'[b] = IF b = a THEN "closed" ELSE conn[b]
          /\ watcher'[b] = IF b = a THEN "gone" ELSE watcher[b]
          /\ buffer'[b] = IF b = a THEN <<>> ELSE buffer[b]
    BY <1>0, <2>1
  <2>3. QED BY <2>1, <2>2 DEF SocketInv
<1>14. ASSUME NEW a \in Attempt, WatcherSeesDone(a) PROVE SocketInv'
  <2>1. /\ watcher[a] = "waiting" /\ watcher' = [watcher EXCEPT ![a] = "gone"]
        /\ UNCHANGED <<current, pc, conn, done, buffer>>
    BY <1>14 DEF WatcherSeesDone
  <2>2. QED BY <1>0, <2>1 DEF SocketInv
<1>15. ASSUME NEW packet, Queue(packet), UNCHANGED <<current, pc, conn, watcher, done>>
       PROVE  SocketInv'
  <2>1. \A a \in Attempt : conn[a] # "open" => buffer'[a] = buffer[a] BY <1>15 DEF Queue
  <2>2. QED BY <1>15, <2>1 DEF SocketInv
<1>16. CASE SocketTimer BY <1>1, <1>16 DEF SocketTimer
<1>17. CASE ContextTimer BY <1>1, <1>17 DEF ContextTimer
<1>18. CASE Signal BY <1>1, <1>18 DEF Signal
<1>19. ASSUME NEW a \in Attempt, Answer(a) PROVE SocketInv' BY <1>1, <1>19 DEF Answer
<1>20. ASSUME NEW a \in Attempt, Deliver(a) PROVE SocketInv' BY <1>15, <1>20 DEF Deliver
<1>21. CASE DeliverStranger BY <1>15, <1>21 DEF DeliverStranger
<1>22. CASE UNCHANGED vars BY <1>1, <1>22 DEF vars
<1>23. QED
  BY <1>2, <1>3, <1>4, <1>5, <1>6, <1>7, <1>8, <1>9, <1>10, <1>11, <1>12, <1>13, <1>14,
     <1>16, <1>17, <1>18, <1>19, <1>20, <1>21, <1>22, StepCases

(* reachability.go:154, "The done channel prevents the goroutine from      *)
(* leaking on success".  The safety half of NothingLeaks, for any number   *)
(* of attempts: a Probe that has returned leaves no socket open, nothing   *)
(* queued, and no watcher waiting that its done channel does not release.  *)
THEOREM NothingHeldBack == Spec => []NothingHeld
<1>1. PingInv /\ SocketInv => NothingHeld
  <2> SUFFICES ASSUME PingInv, SocketInv, NEW a \in Attempt, conclusion[a] # Undecided
               PROVE  /\ conn[a] # "open" /\ buffer[a] = <<>>
                      /\ watcher[a] = "waiting" => a \in done
    BY DEF NothingHeld
  <2>1. a < current \/ (a = current /\ pc = "returned")
    <3>1. current \in Attempt BY DEF PingInv, TypeOK
    <3>2. ~(a > current) BY DEF PingInv, ConclusionInv
    <3>3. a = current => pc = "returned" BY DEF PingInv, ConclusionInv
    <3>4. QED BY <3>1, <3>2, <3>3, AttemptOrder
  <2>2. QED BY <2>1 DEF SocketInv
<1>2. QED BY <1>1, Invariance, SocketInit, SocketStep, PTL DEF Spec

(***************************************************************************)
(* Replies.  Requests are told apart by nothing, so that a late reply may  *)
(* be taken for another attempt's; but each is taken once at most.         *)
(***************************************************************************)
Holds(s, p) == \E k \in DOMAIN s : s[k] = p

HoldsOnce(s, p) == \A j, k \in DOMAIN s : s[j] = p /\ s[k] = p => j = k

Queued(p) == \E a \in Attempt : Holds(buffer[a], p)

Taken(p) == \E a \in Attempt : accepted[a] = p

NotSent(p) == p > current \/ (p = current /\ pc \in {"idle", "dial", "write"})

(* An echo is in one place at a time: on its way out, on its way back, at  *)
(* one place of one socket's queue, or taken by one attempt.               *)
PlaceInv ==
  \A p \in Attempt :
    /\ p \in requests => p \notin answers /\ ~Queued(p) /\ ~Taken(p)
    /\ p \in answers => ~Queued(p) /\ ~Taken(p)
    /\ Queued(p) => ~Taken(p)
    /\ \A a \in Attempt : HoldsOnce(buffer[a], p)
    /\ \A a, c \in Attempt : accepted[a] = p /\ accepted[c] = p => a = c
    /\ NotSent(p) => p \notin requests /\ p \notin answers /\ ~Queued(p) /\ ~Taken(p)

(* At the start no reply is anywhere.                                      *)
LEMMA PlaceInit == Init => PlaceInv
<1>1. \A p : ~Holds(<<>>, p) /\ HoldsOnce(<<>>, p) BY DEF Holds, HoldsOnce
<1>2. Stranger \notin Attempt BY AttemptsAssumption DEF Stranger, Attempt
<1>3. QED BY <1>1, <1>2 DEF Init, PlaceInv, Queued, Taken

(* A queue that grows at its end.                                          *)
LEMMA AppendHolds ==
  ASSUME NEW s \in Seq(Packet), NEW x \in Packet, NEW p
  PROVE  /\ Holds(Append(s, x), p) <=> Holds(s, p) \/ x = p
         /\ HoldsOnce(s, p) /\ (x = p => ~Holds(s, p)) => HoldsOnce(Append(s, x), p)
<1> DEFINE t == Append(s, x)
           n == Len(s) + 1
<1>1. DOMAIN t = DOMAIN s \cup {n} /\ n \notin DOMAIN s OBVIOUS
<1>2. t[n] = x /\ \A k \in DOMAIN s : t[k] = s[k] OBVIOUS
<1> HIDE DEF t, n
<1>3. QED BY <1>1, <1>2 DEF t, Holds, HoldsOnce

(* A queue that is read at its head.                                       *)
LEMMA TailHolds ==
  ASSUME NEW s \in Seq(Packet), s # <<>>, NEW p
  PROVE  /\ Holds(Tail(s), p) => Holds(s, p)
         /\ HoldsOnce(s, p) => HoldsOnce(Tail(s), p)
         /\ HoldsOnce(s, p) /\ Head(s) = p => ~Holds(Tail(s), p)
         /\ Holds(s, Head(s))
<1> DEFINE t == Tail(s)
<1>1. \A k \in DOMAIN t : k + 1 \in DOMAIN s /\ t[k] = s[k + 1] /\ k + 1 # 1 /\ k \in Nat
  OBVIOUS
<1>2. 1 \in DOMAIN s /\ Head(s) = s[1] OBVIOUS
<1>3. \A j, k \in Nat : j + 1 = k + 1 => j = k OBVIOUS
<1> HIDE DEF t
<1>4. QED BY <1>1, <1>2, <1>3 DEF t, Holds, HoldsOnce

(* Nothing changes but what is lost.                                       *)
LEMMA LossKeepsPlaces ==
  ASSUME PlaceInv, UNCHANGED <<requests, answers, accepted>>,
         \A p \in Attempt : NotSent(p)' => NotSent(p),
         \A a \in Attempt : buffer'[a] = buffer[a] \/ buffer'[a] = <<>>
  PROVE  PlaceInv'
<1>1. \A a \in Attempt, p \in Attempt :
        (Holds(buffer'[a], p) => Holds(buffer[a], p))
        /\ (HoldsOnce(buffer[a], p) => HoldsOnce(buffer'[a], p))
  BY DEF Holds, HoldsOnce
<1>2. \A p \in Attempt : (Queued(p)' => Queued(p)) /\ (Taken(p)' <=> Taken(p))
  BY <1>1 DEF Queued, Taken
<1>3. QED BY <1>1, <1>2 DEF PlaceInv

(* A packet is queued at the open socket, which is that of the attempt     *)
(* under way.                                                              *)
LEMMA QueueKeepsPlaces ==
  ASSUME TypeOK, SocketInv, PlaceInv, NEW x \in Packet, Queue(x), answers' \subseteq answers,
         UNCHANGED <<current, pc, requests, accepted>>,
         x \in Attempt => x \in answers /\ x \notin answers'
  PROVE  PlaceInv'
<1>0. current \in Attempt /\ buffer \in [Attempt -> Seq(Packet)] BY DEF TypeOK
<1>1. \A a \in Attempt : a # current => buffer'[a] = buffer[a] /\ buffer[a] = <<>>
  <2>1. \A a \in Attempt : a # current => conn[a] # "open"
    BY <1>0, AttemptOrder DEF SocketInv
  <2>2. QED BY <2>1 DEF Queue, SocketInv
<1>2. \A p : ~Holds(<<>>, p) /\ HoldsOnce(<<>>, p) BY DEF Holds, HoldsOnce
<1>3. buffer'[current] = buffer[current] \/ buffer'[current] = Append(buffer[current], x)
  BY <1>0 DEF Queue
<1>4. \A p \in Attempt : /\ Queued(p) <=> Holds(buffer[current], p)
                         /\ Queued(p)' => Holds(buffer'[current], p)
                         /\ Taken(p)' <=> Taken(p)
                         /\ NotSent(p)' <=> NotSent(p)
  BY <1>0, <1>1, <1>2 DEF Queued, Taken, NotSent
<1>5. \A p \in Attempt : Holds(buffer'[current], p) => Holds(buffer[current], p) \/ x = p
  <2>1. buffer[current] \in Seq(Packet) BY <1>0
  <2>2. CASE buffer'[current] = buffer[current] BY <2>2
  <2>3. CASE buffer'[current] = Append(buffer[current], x) BY <2>1, <2>3, AppendHolds
  <2>4. QED BY <1>3, <2>2, <2>3
<1>6. \A p \in Attempt : x = p => ~Holds(buffer[current], p) /\ ~Taken(p) /\ ~NotSent(p)
                                  /\ p \notin requests /\ p \notin answers'
  BY <1>4 DEF PlaceInv
<1>7. \A p \in Attempt : HoldsOnce(buffer'[current], p)
  <2>1. buffer[current] \in Seq(Packet) BY <1>0
  <2> SUFFICES ASSUME NEW p \in Attempt PROVE HoldsOnce(buffer'[current], p)
    OBVIOUS
  <2>2. HoldsOnce(buffer[current], p) BY <1>0 DEF PlaceInv
  <2>3. CASE buffer'[current] = buffer[current] BY <2>2, <2>3
  <2>4. CASE buffer'[current] = Append(buffer[current], x)
    BY <1>6, <2>1, <2>2, <2>4, AppendHolds
  <2>5. QED BY <1>3, <2>3, <2>4
<1>8. \A p \in Attempt : \A a \in Attempt : HoldsOnce(buffer'[a], p)
  BY <1>1, <1>2, <1>7
<1>9. QED BY <1>4, <1>5, <1>6, <1>8 DEF PlaceInv

(* Every step keeps each reply in one place at a time.                      *)
LEMMA PlaceStep == PingInv /\ SocketInv /\ PlaceInv /\ [Next]_vars => PlaceInv'
<1> SUFFICES ASSUME PingInv, SocketInv, PlaceInv, [Next]_vars PROVE PlaceInv'
  OBVIOUS
<1> USE DEF netVars, timeVars
<1>0. /\ TypeOK /\ current \in Attempt /\ answers \subseteq Attempt
      /\ buffer \in [Attempt -> Seq(Packet)]
      /\ accepted \in [Attempt -> Packet]
  BY DEF PingInv, TypeOK
<1>1. CASE /\ UNCHANGED <<current, requests, answers, accepted>>
           /\ pc' \in {"idle", "dial", "write"} => pc \in {"idle", "dial", "write"}
           /\ \A a \in Attempt : buffer'[a] = buffer[a] \/ buffer'[a] = <<>>
  BY <1>1, LossKeepsPlaces DEF NotSent
<1>2. CASE Call \/ DialFails \/ DialOpens \/ WriteFails \/ ReadFails \/ MapReadError
           \/ ProbeReturns \/ SocketTimer \/ ContextTimer \/ Signal \/ UNCHANGED vars
  BY <1>0, <1>1, <1>2
  DEF Call, DialFails, DialOpens, WriteFails, ReadFails, MapReadError, ProbeReturns, Return,
      SocketTimer, ContextTimer, Signal, vars
<1>3. ASSUME NEW a \in Attempt, WatcherSeesContext(a) \/ WatcherCloses(a) \/ WatcherSeesDone(a)
      PROVE  PlaceInv'
  BY <1>0, <1>1, <1>3 DEF WatcherSeesContext, WatcherCloses, WatcherSeesDone
<1>4. CASE WriteSends
  <2>1. /\ pc = "write" /\ pc' = "read" /\ requests' = requests \cup {current}
        /\ UNCHANGED <<current, answers, buffer, accepted>>
    BY <1>4 DEF WriteSends
  <2>2. \A p \in Attempt : (Queued(p)' <=> Queued(p)) /\ (Taken(p)' <=> Taken(p))
    BY <2>1 DEF Queued, Taken
  <2>3. NotSent(current) BY <2>1 DEF NotSent
  <2>4. \A p \in Attempt : NotSent(p)' => NotSent(p) /\ p # current
    BY <1>0, <2>1, AttemptOrder DEF NotSent
  <2>5. QED BY <1>0, <2>1, <2>2, <2>3, <2>4 DEF PlaceInv
<1>5. ASSUME NEW a \in Attempt, Answer(a) PROVE PlaceInv'
  <2>1. /\ a \in requests /\ requests' = requests \ {a} /\ answers' = answers \cup {a}
        /\ UNCHANGED <<current, pc, buffer, accepted>>
    BY <1>5 DEF Answer
  <2>2. \A p \in Attempt : (Queued(p)' <=> Queued(p)) /\ (Taken(p)' <=> Taken(p))
                           /\ (NotSent(p)' <=> NotSent(p))
    BY <2>1 DEF Queued, Taken, NotSent
  <2>3. QED BY <2>1, <2>2 DEF PlaceInv
<1>6. ASSUME NEW a \in Attempt, Deliver(a) PROVE PlaceInv'
  BY <1>0, <1>6, QueueKeepsPlaces DEF Deliver, Packet
<1>7. CASE DeliverStranger
  <2>1. Stranger \notin Attempt /\ Stranger \in Packet
    BY AttemptsAssumption DEF Stranger, Attempt, Packet
  <2>2. QED BY <1>0, <1>7, <2>1, QueueKeepsPlaces DEF DeliverStranger
<1>8. CASE ReadPacket
  <2>1. PICK packet \in Packet : packet = Head(buffer[current])
    <3>1. buffer[current] \in Seq(Packet) /\ buffer[current] # <<>>
      BY <1>0, <1>8 DEF ReadPacket
    <3>2. QED BY <3>1
  <2>2. /\ buffer[current] # <<>> /\ pc = "read"
        /\ buffer' = [buffer EXCEPT ![current] = Tail(@)]
        /\ UNCHANGED <<current, requests, answers>>
        /\ \/ packet # Stranger /\ pc' = "return"
              /\ accepted' = [accepted EXCEPT ![current] = packet]
           \/ packet = Stranger /\ pc' = pc /\ accepted' = accepted
    BY <1>8, <2>1 DEF ReadPacket, IsOurs, Return
  <2>3. buffer[current] \in Seq(Packet) BY <1>0
  <2>4. \A a \in Attempt : buffer'[a] = IF a = current THEN Tail(buffer[a]) ELSE buffer[a]
    BY <1>0, <2>2
  <2>5. \A p \in Attempt : \A a \in Attempt :
          (Holds(buffer'[a], p) => Holds(buffer[a], p)) /\ HoldsOnce(buffer'[a], p)
    BY <2>2, <2>3, <2>4, TailHolds DEF PlaceInv
  <2>6. \A p \in Attempt : (Queued(p)' => Queued(p)) /\ (NotSent(p)' => NotSent(p))
    BY <2>2, <2>5 DEF Queued, NotSent
  <2>7. CASE packet = Stranger
    <3>1. \A p \in Attempt : Taken(p)' <=> Taken(p) BY <2>2, <2>7 DEF Taken
    <3>2. QED BY <2>2, <2>5, <2>6, <2>7, <3>1 DEF PlaceInv
  <2>8. CASE packet # Stranger
    <3>1. packet \in Attempt BY <2>8 DEF Packet
    <3>2. \A a \in Attempt : accepted'[a] = IF a = current THEN packet ELSE accepted[a]
      BY <1>0, <2>2, <2>8
    <3>3. Holds(buffer[current], packet) BY <2>1, <2>2, <2>3, TailHolds
    <3>4. Queued(packet) BY <1>0, <3>3 DEF Queued
    <3>5. /\ packet \notin requests /\ packet \notin answers
          /\ ~Taken(packet) /\ ~NotSent(packet)
      BY <3>1, <3>4 DEF PlaceInv
    <3>6. ~Holds(Tail(buffer[current]), packet)
      BY <1>0, <2>1, <2>2, <2>3, <3>1, TailHolds DEF PlaceInv
    <3>7. \A a \in Attempt : a # current => buffer[a] = <<>>
      BY <1>0, AttemptOrder DEF SocketInv
    <3>8. ~Queued(packet)'
      <4>1. \A a \in Attempt : ~Holds(buffer'[a], packet)
        <5> SUFFICES ASSUME NEW a \in Attempt PROVE ~Holds(buffer'[a], packet)
          OBVIOUS
        <5>1. CASE a = current BY <2>4, <3>6, <5>1
        <5>2. CASE a # current
          <6>1. buffer'[a] = <<>> BY <2>4, <3>7, <5>2
          <6>2. QED BY <6>1 DEF Holds
        <5>3. QED BY <5>1, <5>2
      <4>2. QED BY <4>1 DEF Queued
    <3>9. \A p \in Attempt : Taken(p)' => Taken(p) \/ p = packet
      BY <3>2 DEF Taken
    <3>10. \A p \in Attempt : \A a, c \in Attempt : accepted'[a] = p /\ accepted'[c] = p => a = c
      BY <3>2, <3>5 DEF PlaceInv, Taken
    <3>11. QED BY <2>2, <2>5, <2>6, <3>5, <3>8, <3>9, <3>10 DEF PlaceInv
  <2>9. QED BY <2>7, <2>8
<1>9. CASE NextAttempt
  <2>1. /\ UNCHANGED <<requests, answers, buffer, accepted>>
        /\ current' = current + 1
    BY <1>9 DEF NextAttempt
  <2>2. \A p \in Attempt : NotSent(p)' => NotSent(p)
    BY <1>0, <2>1, AttemptOrder DEF NotSent
  <2>3. QED BY <2>1, <2>2, LossKeepsPlaces
<1>10. QED
  BY <1>2, <1>3, <1>4, <1>5, <1>6, <1>7, <1>8, <1>9, StepCases

(* What a series of pings may make of the replies it gets.                 *)
EachReplyCountsOnce ==
  /\ \A a, c \in Attempt :
       conclusion[a][1] = "ok" /\ conclusion[c][1] = "ok" /\ accepted[a] = accepted[c] => a = c
  /\ conclusion[1][1] = "ok" => accepted[1] = 1

(* reachability.go:166.  NoStaleReply is false, but no reply is taken      *)
(* twice, however late it comes: attempts that report the target as        *)
(* reachable took different replies, so that there are no more of them     *)
(* than the target has answered, and the first, which is all there is      *)
(* without --count, took the reply to its own request.                     *)
THEOREM RepliesCountOnce == Spec => []EachReplyCountsOnce
<1>1. PingInv /\ PlaceInv => EachReplyCountsOnce
  <2> SUFFICES ASSUME PingInv, PlaceInv PROVE EachReplyCountsOnce
    OBVIOUS
  <2>1. \A a \in Attempt : conclusion[a][1] = "ok" => accepted[a] \in Attempt /\ accepted[a] <= a
    BY DEF PingInv, TypeOK, ConclusionInv
  <2>2. 1 \in Attempt /\ \A b \in Attempt : b <= 1 => b = 1
    BY AttemptsAssumption DEF Attempt
  <2>3. QED BY <2>1, <2>2 DEF PlaceInv, EachReplyCountsOnce
<1>2. QED
  BY <1>1, Invariance, SocketInit, SocketStep, PlaceInit, PlaceStep, PTL DEF Spec

==============================================================================
