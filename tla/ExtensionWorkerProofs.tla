------------------------ MODULE ExtensionWorkerProofs ------------------------
(***************************************************************************)
(* Proofs about ExtensionWorker, for any number of calls and of shutdowns, *)
(* any pipe capacity and any number of frames from the child.              *)
(*                                                                         *)
(* First type correctness, then the six parts of IndInv one by one, each   *)
(* from the parts before it: Phases and Identity stand alone, Mailboxes    *)
(* rests on both, Outcomes on all three, Reachable on Identity and         *)
(* Mailboxes, Drainable on Phases, Identity and Reachable.  The properties *)
(* of the worker follow from the whole.                                    *)
(***************************************************************************)
EXTENDS ExtensionWorker, TLAPS

-----------------------------------------------------------------------------
(* Types.                                                                  *)

\* Where request_inner may continue after WorkerInner::send.
LEMMA AfterSendType ==
    ASSUME NEW c, NEW b
    PROVE  AfterSend(c, b) \in {"wait", "unregister", "done", "fail"}
BY DEF AfterSend

\* Which frame was being sent, told from where request_inner continues: only a
\* request or a reply is followed by a wait, and never after an error.
LEMMA AfterSendCases ==
    ASSUME NEW c, NEW b
    PROVE  /\ AfterSend(c, b) = "wait" => out[c] \in {"Request", "Reply"}
           /\ AfterSend(c, TRUE) \in {"unregister", "done"} => out[c] = "Reject"
           /\ AfterSend(c, FALSE) # "wait"
           /\ AfterSend(c, FALSE) = "done" => out[c] = "Reply"
           /\ AfterSend(c, FALSE) = "fail" => out[c] \notin {"Request", "Reply"}
BY DEF AfterSend

\* Event builds members of Events.
LEMMA EventType ==
    ASSUME NEW k \in RoutedKinds \cup StreamKinds \cup ErrorKinds, NEW i \in Nat
    PROVE  Event(k, i) \in Events
BY DEF Event, Events

\* Head and Tail of a non-empty sequence, element by element.
LEMMA SeqParts ==
    ASSUME NEW S, NEW q \in Seq(S), q # <<>>
    PROVE  /\ Head(q) \in S /\ Head(q) = q[1] /\ 1 \in 1..Len(q)
           /\ Tail(q) \in Seq(S) /\ Len(Tail(q)) = Len(q) - 1
           /\ \A i \in 1..Len(Tail(q)) : i + 1 \in 1..Len(q) /\ Tail(q)[i] = q[i + 1]
OBVIOUS

\* Append, element by element.
LEMMA AppendParts ==
    ASSUME NEW S, NEW q \in Seq(S), NEW e \in S
    PROVE  /\ Append(q, e) \in Seq(S) /\ Len(Append(q, e)) = Len(q) + 1
           /\ \A i \in 1..Len(q) : Append(q, e)[i] = q[i]
           /\ Append(q, e)[Len(q) + 1] = e
OBVIOUS

\* What a failed send leaves in the results is an event.
LEMMA SendErrorType ==
    ASSUME StreamTypeOK, CallTypeOK, NEW c \in Calls, NEW k \in ErrorKinds, SendError(c, k)
    PROVE  result' \in [Calls -> Events]
<1>1. Event(k, rid[c]) \in Events
  BY EventType DEF CallTypeOK
<1> QED
  BY <1>1 DEF SendError, StreamTypeOK

\* The channels stay sequences of events when the pending map is taken.
LEMMA DrainType ==
    ASSUME StreamTypeOK, Drain
    PROVE  chan' \in [Calls -> Seq(Events)]
<1>1. Event("Failure", 0) \in Events
  BY EventType DEF ErrorKinds
<1>2. \A c \in Calls : chan[c] \in Seq(Events) /\ Append(chan[c], Event("Failure", 0)) \in Seq(Events)
  BY <1>1 DEF StreamTypeOK
<1> QED
  BY <1>2 DEF Drain

\* Every step keeps the type of the worker and of its process.
LEMMA WorkerTypeStep ==
    ASSUME WorkerTypeOK, [Next]_vars
    PROVE  WorkerTypeOK'
<1> USE DEF WorkerTypeOK, Threads, Failers, States
<1>1. ASSUME NEW c \in Calls, CallRefused(c) PROVE WorkerTypeOK'
  BY <1>1, ThreadAssumption, BoundAssumption DEF CallRefused, Goto, worker, caller,
       reading, process
<1>2. ASSUME NEW c \in Calls, CallStart(c) PROVE WorkerTypeOK'
  BY <1>2, ThreadAssumption, BoundAssumption DEF CallStart, Goto, worker, caller,
       reading, process
<1>3. ASSUME NEW c \in Calls, Send(c) PROVE WorkerTypeOK'
  BY <1>3, ThreadAssumption, BoundAssumption DEF Send, Goto, worker, caller, reading,
       process
<1>4. ASSUME NEW c \in Calls, SendRefused(c) PROVE WorkerTypeOK'
  BY <1>4, ThreadAssumption, BoundAssumption DEF SendRefused, AfterSend, SendError,
       SentFrame, Goto, worker, caller, reading, process
<1>5. ASSUME NEW c \in Calls, SendClosed(c) PROVE WorkerTypeOK'
  BY <1>5, ThreadAssumption, BoundAssumption DEF SendClosed, AfterSend, SendError,
       SentFrame, Goto, worker, caller, reading, process
<1>6. ASSUME NEW c \in Calls, SendTooLarge(c) PROVE WorkerTypeOK'
  BY <1>6, ThreadAssumption, BoundAssumption DEF SendTooLarge, Goto, worker, caller,
       reading, process
<1>7. ASSUME NEW c \in Calls, SendLock(c) PROVE WorkerTypeOK'
  BY <1>7, ThreadAssumption, BoundAssumption DEF SendLock, Goto, worker, caller,
       reading, process
<1>8. ASSUME NEW c \in Calls, Write(c) PROVE WorkerTypeOK'
  BY <1>8, ThreadAssumption, BoundAssumption DEF Write, AfterSend, SentFrame, Goto,
       worker, caller, reading, process
<1>9. ASSUME NEW c \in Calls, WriteFails(c) PROVE WorkerTypeOK'
  BY <1>9, ThreadAssumption, BoundAssumption DEF WriteFails, Goto, worker, caller,
       reading, process
<1>10. ASSUME NEW c \in Calls, Register(c) PROVE WorkerTypeOK'
  BY <1>10, ThreadAssumption, BoundAssumption DEF Register, Insert, Goto, worker,
       caller, reading, process
<1>11. ASSUME NEW c \in Calls, Unregister(c) PROVE WorkerTypeOK'
  BY <1>11, ThreadAssumption, BoundAssumption DEF Unregister, Remove, Goto, worker,
       caller, reading, process
<1>12. ASSUME NEW c \in Calls, ReceiveAnswer(c) PROVE WorkerTypeOK'
  BY <1>12, ThreadAssumption, BoundAssumption DEF ReceiveAnswer, Receives, Goto, worker,
       caller, reading, process
<1>13. ASSUME NEW c \in Calls, ReceiveCancel(c) PROVE WorkerTypeOK'
  BY <1>13, ThreadAssumption, BoundAssumption DEF ReceiveCancel, Receives, Goto, worker,
       caller, reading, process
<1>14. ASSUME NEW c \in Calls, ReceiveNotification(c) PROVE WorkerTypeOK'
  BY <1>14, ThreadAssumption, BoundAssumption DEF ReceiveNotification, Receives, Goto,
       worker, caller, reading, process
<1>15. ASSUME NEW c \in Calls, ReceiveRequest(c) PROVE WorkerTypeOK'
  BY <1>15, ThreadAssumption, BoundAssumption DEF ReceiveRequest, Receives, Goto,
       worker, caller, reading, process
<1>16. ASSUME NEW c \in Calls, Expire(c) PROVE WorkerTypeOK'
  BY <1>16, ThreadAssumption, BoundAssumption DEF Expire, Remove, Goto, worker, caller,
       reading, process
<1>17. ASSUME NEW t \in Failers, FailWins(t) PROVE WorkerTypeOK'
  BY <1>17, ThreadAssumption, BoundAssumption DEF FailWins, Goto, worker, caller,
       reading, process
<1>18. ASSUME NEW t \in Failers, FailLoses(t) PROVE WorkerTypeOK'
  BY <1>18, ThreadAssumption, BoundAssumption DEF FailLoses, AfterFail, AfterSend,
       SendError, SentFrame, Goto, worker, caller, reading, process
<1>19. ASSUME NEW t \in Failers, FailClose(t) PROVE WorkerTypeOK'
  BY <1>19, ThreadAssumption, BoundAssumption DEF FailClose, Goto, worker, caller,
       reading, process
<1>20. ASSUME NEW t \in Failers, FailKill(t) PROVE WorkerTypeOK'
  BY <1>20, ThreadAssumption, BoundAssumption DEF FailKill, Goto, worker, caller,
       reading, process
<1>21. ASSUME NEW t \in Failers, FailDrain(t) PROVE WorkerTypeOK'
  BY <1>21, ThreadAssumption, BoundAssumption DEF FailDrain, Drain, AfterFail,
       AfterSend, SendError, SentFrame, Goto, worker, caller, reading, process
<1>22. CASE RouteFound
  BY <1>22, ThreadAssumption, BoundAssumption DEF RouteFound, ReadFrame, Remove, Goto,
       worker, caller, reading, process
<1>23. CASE RouteLate
  BY <1>23, ThreadAssumption, BoundAssumption DEF RouteLate, ReadFrame, Goto, worker,
       caller, reading, process
<1>24. CASE Deliver
  BY <1>24, ThreadAssumption, BoundAssumption DEF Deliver, Goto, worker, caller,
       reading, process
<1>25. CASE ReadShutdown
  BY <1>25, ThreadAssumption, BoundAssumption DEF ReadShutdown, ReadFrame, Goto, worker,
       caller, reading, process
<1>26. CASE ReadError
  BY <1>26, ThreadAssumption, BoundAssumption DEF ReadError, ReadFrame, Goto, worker,
       caller, reading, process
<1>27. CASE ReadEof
  BY <1>27, ThreadAssumption, BoundAssumption DEF ReadEof, Goto, worker, caller,
       reading, process
<1>28. ASSUME NEW s \in Stoppers, StopBegin(s) PROVE WorkerTypeOK'
  BY <1>28, ThreadAssumption, BoundAssumption DEF StopBegin, Goto, worker, caller,
       reading, process
<1>29. ASSUME NEW s \in Stoppers, StopLate(s) PROVE WorkerTypeOK'
  BY <1>29, ThreadAssumption, BoundAssumption DEF StopLate, Goto, worker, caller,
       reading, process
<1>30. ASSUME NEW s \in Stoppers, StopClose(s) PROVE WorkerTypeOK'
  BY <1>30, ThreadAssumption, BoundAssumption DEF StopClose, Goto, worker, caller,
       reading, process
<1>31. ASSUME NEW s \in Stoppers, StopLock(s) PROVE WorkerTypeOK'
  BY <1>31, ThreadAssumption, BoundAssumption DEF StopLock, Goto, worker, caller,
       reading, process
<1>32. ASSUME NEW s \in Stoppers, StopBye(s) PROVE WorkerTypeOK'
  BY <1>32, ThreadAssumption, BoundAssumption DEF StopBye, Goto, worker, caller,
       reading, process
<1>33. ASSUME NEW s \in Stoppers, StopFinish(s) PROVE WorkerTypeOK'
  BY <1>33, ThreadAssumption, BoundAssumption DEF StopFinish, Goto, worker, caller,
       reading, process
<1>34. ASSUME NEW s \in Stoppers, StopTake(s) PROVE WorkerTypeOK'
  BY <1>34, ThreadAssumption, BoundAssumption DEF StopTake, Goto, worker, caller,
       reading, process
<1>35. ASSUME NEW s \in Stoppers, StopReap(s) PROVE WorkerTypeOK'
  BY <1>35, ThreadAssumption, BoundAssumption DEF StopReap, Goto, worker, caller,
       reading, process
<1>36. ASSUME NEW s \in Stoppers, StopMark(s) PROVE WorkerTypeOK'
  BY <1>36, ThreadAssumption, BoundAssumption DEF StopMark, Goto, worker, caller,
       reading, process
<1>37. ASSUME NEW s \in Stoppers, StopSweep(s) PROVE WorkerTypeOK'
  BY <1>37, ThreadAssumption, BoundAssumption DEF StopSweep, Drain, Goto, worker,
       caller, reading, process
<1>38. ASSUME NEW s \in Stoppers, StopJoin(s) PROVE WorkerTypeOK'
  BY <1>38, ThreadAssumption, BoundAssumption DEF StopJoin, Goto, worker, caller,
       reading, process
<1>39. ASSUME NEW s \in Stoppers, StopJoined(s) PROVE WorkerTypeOK'
  BY <1>39, ThreadAssumption, BoundAssumption DEF StopJoined, Goto, worker, caller,
       reading, process
<1>40. CASE ChildRead
  BY <1>40, ThreadAssumption, BoundAssumption DEF ChildRead, Goto, worker, caller,
       reading, process
<1>41. CASE ChildEmit
  BY <1>41, ThreadAssumption, BoundAssumption DEF ChildEmit, Goto, worker, caller,
       reading, process
<1>42. CASE ChildDetach
  BY <1>42, ThreadAssumption, BoundAssumption DEF ChildDetach, Goto, worker, caller,
       reading, process
<1>43. CASE ChildExit
  BY <1>43, ThreadAssumption, BoundAssumption DEF ChildExit, Goto, worker, caller,
       reading, process
<1>44. CASE UNCHANGED vars
  BY <1>44, ThreadAssumption, BoundAssumption DEF vars, worker, caller, reading, process
<1> QED
  BY <1>1, <1>2, <1>3, <1>4, <1>5, <1>6, <1>7, <1>8, <1>9, <1>10, <1>11, <1>12, <1>13,
       <1>14, <1>15, <1>16, <1>17, <1>18, <1>19, <1>20, <1>21, <1>22, <1>23, <1>24,
       <1>25, <1>26, <1>27, <1>28, <1>29, <1>30, <1>31, <1>32, <1>33, <1>34, <1>35,
       <1>36, <1>37, <1>38, <1>39, <1>40, <1>41, <1>42, <1>43, <1>44
  DEF Next, CallStep, SendStep, FailStep, RequestStep, ReaderStep, StopStep, ChildStep,
       Finished, Failers

\* Every step keeps each thread inside its own code.
LEMMA PcTypeStep ==
    ASSUME PcTypeOK, [Next]_vars
    PROVE  PcTypeOK'
<1> USE DEF PcTypeOK, Threads, Failers, CallSteps, ReaderSteps, StopSteps
<1>1. ASSUME NEW c \in Calls, CallRefused(c) PROVE PcTypeOK'
  BY <1>1, ThreadAssumption DEF CallRefused, Goto, worker, caller, reading, process
<1>2. ASSUME NEW c \in Calls, CallStart(c) PROVE PcTypeOK'
  BY <1>2, ThreadAssumption DEF CallStart, Goto, worker, caller, reading, process
<1>3. ASSUME NEW c \in Calls, Send(c) PROVE PcTypeOK'
  BY <1>3, ThreadAssumption DEF Send, Goto, worker, caller, reading, process
<1>4. ASSUME NEW c \in Calls, SendRefused(c) PROVE PcTypeOK'
  BY <1>4, ThreadAssumption, AfterSendType DEF SendRefused, SendError, SentFrame, Goto,
       worker, caller, reading, process
<1>5. ASSUME NEW c \in Calls, SendClosed(c) PROVE PcTypeOK'
  BY <1>5, ThreadAssumption, AfterSendType DEF SendClosed, SendError, SentFrame, Goto,
       worker, caller, reading, process
<1>6. ASSUME NEW c \in Calls, SendTooLarge(c) PROVE PcTypeOK'
  BY <1>6, ThreadAssumption DEF SendTooLarge, Goto, worker, caller, reading, process
<1>7. ASSUME NEW c \in Calls, SendLock(c) PROVE PcTypeOK'
  BY <1>7, ThreadAssumption DEF SendLock, Goto, worker, caller, reading, process
<1>8. ASSUME NEW c \in Calls, Write(c) PROVE PcTypeOK'
  BY <1>8, ThreadAssumption, AfterSendType DEF Write, SentFrame, Goto, worker, caller,
       reading, process
<1>9. ASSUME NEW c \in Calls, WriteFails(c) PROVE PcTypeOK'
  BY <1>9, ThreadAssumption DEF WriteFails, Goto, worker, caller, reading, process
<1>10. ASSUME NEW c \in Calls, Register(c) PROVE PcTypeOK'
  BY <1>10, ThreadAssumption DEF Register, Insert, Goto, worker, caller, reading,
       process
<1>11. ASSUME NEW c \in Calls, Unregister(c) PROVE PcTypeOK'
  BY <1>11, ThreadAssumption DEF Unregister, Remove, Goto, worker, caller, reading,
       process
<1>12. ASSUME NEW c \in Calls, ReceiveAnswer(c) PROVE PcTypeOK'
  BY <1>12, ThreadAssumption DEF ReceiveAnswer, Receives, Goto, worker, caller, reading,
       process
<1>13. ASSUME NEW c \in Calls, ReceiveCancel(c) PROVE PcTypeOK'
  BY <1>13, ThreadAssumption DEF ReceiveCancel, Receives, Goto, worker, caller, reading,
       process
<1>14. ASSUME NEW c \in Calls, ReceiveNotification(c) PROVE PcTypeOK'
  BY <1>14, ThreadAssumption DEF ReceiveNotification, Receives, Goto, worker, caller,
       reading, process
<1>15. ASSUME NEW c \in Calls, ReceiveRequest(c) PROVE PcTypeOK'
  BY <1>15, ThreadAssumption DEF ReceiveRequest, Receives, Goto, worker, caller,
       reading, process
<1>16. ASSUME NEW c \in Calls, Expire(c) PROVE PcTypeOK'
  BY <1>16, ThreadAssumption DEF Expire, Remove, Goto, worker, caller, reading, process
<1>17. ASSUME NEW t \in Failers, FailWins(t) PROVE PcTypeOK'
  BY <1>17, ThreadAssumption DEF FailWins, Goto, worker, caller, reading, process
<1>18. ASSUME NEW t \in Failers, FailLoses(t) PROVE PcTypeOK'
  <2>1. CASE t = Reader
    BY <1>18, <2>1, ThreadAssumption DEF FailLoses, AfterFail, Goto
  <2>2. CASE t \in Calls
    <3>1. \E step \in {"wait", "unregister", "done", "fail"} : Goto(t, step)
      BY <1>18, <2>2, AfterSendType, ThreadAssumption DEF FailLoses, AfterFail
    <3> QED
      BY <2>2, <3>1, ThreadAssumption DEF Goto
  <2> QED
    BY <2>1, <2>2
<1>19. ASSUME NEW t \in Failers, FailClose(t) PROVE PcTypeOK'
  BY <1>19, ThreadAssumption DEF FailClose, Goto, worker, caller, reading, process
<1>20. ASSUME NEW t \in Failers, FailKill(t) PROVE PcTypeOK'
  BY <1>20, ThreadAssumption DEF FailKill, Goto, worker, caller, reading, process
<1>21. ASSUME NEW t \in Failers, FailDrain(t) PROVE PcTypeOK'
  <2>1. CASE t = Reader
    BY <1>21, <2>1, ThreadAssumption DEF FailDrain, AfterFail, Goto
  <2>2. CASE t \in Calls
    <3>1. \E step \in {"wait", "unregister", "done", "fail"} : Goto(t, step)
      BY <1>21, <2>2, AfterSendType, ThreadAssumption DEF FailDrain, AfterFail
    <3> QED
      BY <2>2, <3>1, ThreadAssumption DEF Goto
  <2> QED
    BY <2>1, <2>2
<1>22. CASE RouteFound
  BY <1>22, ThreadAssumption DEF RouteFound, ReadFrame, Remove, Goto, worker, caller,
       reading, process
<1>23. CASE RouteLate
  BY <1>23, ThreadAssumption DEF RouteLate, ReadFrame, Goto, worker, caller, reading,
       process
<1>24. CASE Deliver
  BY <1>24, ThreadAssumption DEF Deliver, Goto, worker, caller, reading, process
<1>25. CASE ReadShutdown
  BY <1>25, ThreadAssumption DEF ReadShutdown, ReadFrame, Goto, worker, caller, reading,
       process
<1>26. CASE ReadError
  BY <1>26, ThreadAssumption DEF ReadError, ReadFrame, Goto, worker, caller, reading,
       process
<1>27. CASE ReadEof
  BY <1>27, ThreadAssumption DEF ReadEof, Goto, worker, caller, reading, process
<1>28. ASSUME NEW s \in Stoppers, StopBegin(s) PROVE PcTypeOK'
  BY <1>28, ThreadAssumption DEF StopBegin, Goto, worker, caller, reading, process
<1>29. ASSUME NEW s \in Stoppers, StopLate(s) PROVE PcTypeOK'
  BY <1>29, ThreadAssumption DEF StopLate, Goto, worker, caller, reading, process
<1>30. ASSUME NEW s \in Stoppers, StopClose(s) PROVE PcTypeOK'
  BY <1>30, ThreadAssumption DEF StopClose, Goto, worker, caller, reading, process
<1>31. ASSUME NEW s \in Stoppers, StopLock(s) PROVE PcTypeOK'
  BY <1>31, ThreadAssumption DEF StopLock, Goto, worker, caller, reading, process
<1>32. ASSUME NEW s \in Stoppers, StopBye(s) PROVE PcTypeOK'
  BY <1>32, ThreadAssumption DEF StopBye, Goto, worker, caller, reading, process
<1>33. ASSUME NEW s \in Stoppers, StopFinish(s) PROVE PcTypeOK'
  BY <1>33, ThreadAssumption DEF StopFinish, Goto, worker, caller, reading, process
<1>34. ASSUME NEW s \in Stoppers, StopTake(s) PROVE PcTypeOK'
  BY <1>34, ThreadAssumption DEF StopTake, Goto, worker, caller, reading, process
<1>35. ASSUME NEW s \in Stoppers, StopReap(s) PROVE PcTypeOK'
  BY <1>35, ThreadAssumption DEF StopReap, Goto, worker, caller, reading, process
<1>36. ASSUME NEW s \in Stoppers, StopMark(s) PROVE PcTypeOK'
  BY <1>36, ThreadAssumption DEF StopMark, Goto, worker, caller, reading, process
<1>37. ASSUME NEW s \in Stoppers, StopSweep(s) PROVE PcTypeOK'
  BY <1>37, ThreadAssumption DEF StopSweep, Drain, Goto, worker, caller, reading,
       process
<1>38. ASSUME NEW s \in Stoppers, StopJoin(s) PROVE PcTypeOK'
  BY <1>38, ThreadAssumption DEF StopJoin, Goto, worker, caller, reading, process
<1>39. ASSUME NEW s \in Stoppers, StopJoined(s) PROVE PcTypeOK'
  BY <1>39, ThreadAssumption DEF StopJoined, Goto, worker, caller, reading, process
<1>40. CASE ChildRead
  BY <1>40, ThreadAssumption DEF ChildRead, Goto, worker, caller, reading, process
<1>41. CASE ChildEmit
  BY <1>41, ThreadAssumption DEF ChildEmit, Goto, worker, caller, reading, process
<1>42. CASE ChildDetach
  BY <1>42, ThreadAssumption DEF ChildDetach, Goto, worker, caller, reading, process
<1>43. CASE ChildExit
  BY <1>43, ThreadAssumption DEF ChildExit, Goto, worker, caller, reading, process
<1>44. CASE UNCHANGED vars
  BY <1>44, ThreadAssumption DEF vars, worker, caller, reading, process
<1> QED
  BY <1>1, <1>2, <1>3, <1>4, <1>5, <1>6, <1>7, <1>8, <1>9, <1>10, <1>11, <1>12, <1>13,
       <1>14, <1>15, <1>16, <1>17, <1>18, <1>19, <1>20, <1>21, <1>22, <1>23, <1>24,
       <1>25, <1>26, <1>27, <1>28, <1>29, <1>30, <1>31, <1>32, <1>33, <1>34, <1>35,
       <1>36, <1>37, <1>38, <1>39, <1>40, <1>41, <1>42, <1>43, <1>44
  DEF Next, CallStep, SendStep, FailStep, RequestStep, ReaderStep, StopStep, ChildStep,
       Finished, Failers

\* Every step keeps the type of the pending map and of the calls.
LEMMA CallTypeStep ==
    ASSUME PcTypeOK, CallTypeOK, StreamTypeOK, [Next]_vars
    PROVE  CallTypeOK'
<1> USE DEF CallTypeOK, SendKinds, Failers
<1>1. ASSUME NEW c \in Calls, CallRefused(c) PROVE CallTypeOK'
  BY <1>1, ThreadAssumption DEF CallRefused, Goto, worker, caller, reading, process
<1>2. ASSUME NEW c \in Calls, CallStart(c) PROVE CallTypeOK'
  BY <1>2, ThreadAssumption DEF CallStart, Goto, worker, caller, reading, process
<1>3. ASSUME NEW c \in Calls, Send(c) PROVE CallTypeOK'
  BY <1>3, ThreadAssumption DEF Send, Goto, worker, caller, reading, process
<1>4. ASSUME NEW c \in Calls, SendRefused(c) PROVE CallTypeOK'
  BY <1>4, ThreadAssumption DEF SendRefused, SendError, SentFrame, Goto, worker, caller,
       reading, process
<1>5. ASSUME NEW c \in Calls, SendClosed(c) PROVE CallTypeOK'
  BY <1>5, ThreadAssumption DEF SendClosed, SendError, SentFrame, Goto, worker, caller,
       reading, process
<1>6. ASSUME NEW c \in Calls, SendTooLarge(c) PROVE CallTypeOK'
  BY <1>6, ThreadAssumption DEF SendTooLarge, Goto, worker, caller, reading, process
<1>7. ASSUME NEW c \in Calls, SendLock(c) PROVE CallTypeOK'
  BY <1>7, ThreadAssumption DEF SendLock, Goto, worker, caller, reading, process
<1>8. ASSUME NEW c \in Calls, Write(c) PROVE CallTypeOK'
  BY <1>8, ThreadAssumption DEF Write, SentFrame, Goto, worker, caller, reading, process
<1>9. ASSUME NEW c \in Calls, WriteFails(c) PROVE CallTypeOK'
  BY <1>9, ThreadAssumption DEF WriteFails, Goto, worker, caller, reading, process
<1>10. ASSUME NEW c \in Calls, Register(c) PROVE CallTypeOK'
  BY <1>10, ThreadAssumption DEF Register, Insert, Goto, worker, caller, reading,
       process
<1>11. ASSUME NEW c \in Calls, Unregister(c) PROVE CallTypeOK'
  BY <1>11, ThreadAssumption DEF Unregister, Remove, Goto, worker, caller, reading,
       process
<1>12. ASSUME NEW c \in Calls, ReceiveAnswer(c) PROVE CallTypeOK'
  BY <1>12, ThreadAssumption DEF ReceiveAnswer, Receives, Goto, worker, caller, reading,
       process
<1>13. ASSUME NEW c \in Calls, ReceiveCancel(c) PROVE CallTypeOK'
  BY <1>13, ThreadAssumption DEF ReceiveCancel, Receives, Goto, worker, caller, reading,
       process
<1>14. ASSUME NEW c \in Calls, ReceiveNotification(c) PROVE CallTypeOK'
  BY <1>14, ThreadAssumption DEF ReceiveNotification, Receives, Goto, worker, caller,
       reading, process
<1>15. ASSUME NEW c \in Calls, ReceiveRequest(c) PROVE CallTypeOK'
  BY <1>15, ThreadAssumption DEF ReceiveRequest, Receives, Goto, worker, caller,
       reading, process
<1>16. ASSUME NEW c \in Calls, Expire(c) PROVE CallTypeOK'
  BY <1>16, ThreadAssumption DEF Expire, Remove, Goto, worker, caller, reading, process
<1>17. ASSUME NEW t \in Failers, FailWins(t) PROVE CallTypeOK'
  BY <1>17, ThreadAssumption DEF FailWins, Goto, worker, caller, reading, process
<1>18. ASSUME NEW t \in Failers, FailLoses(t) PROVE CallTypeOK'
  BY <1>18, ThreadAssumption DEF FailLoses, AfterFail, SendError, SentFrame, Goto,
       worker, caller, reading, process
<1>19. ASSUME NEW t \in Failers, FailClose(t) PROVE CallTypeOK'
  BY <1>19, ThreadAssumption DEF FailClose, Goto, worker, caller, reading, process
<1>20. ASSUME NEW t \in Failers, FailKill(t) PROVE CallTypeOK'
  BY <1>20, ThreadAssumption DEF FailKill, Goto, worker, caller, reading, process
<1>21. ASSUME NEW t \in Failers, FailDrain(t) PROVE CallTypeOK'
  BY <1>21, ThreadAssumption DEF FailDrain, Drain, AfterFail, SendError, SentFrame,
       Goto, worker, caller, reading, process
<1>22. CASE RouteFound
  BY <1>22, ThreadAssumption DEF RouteFound, ReadFrame, Remove, StreamTypeOK, Events,
       Goto, worker, caller, reading, process
<1>23. CASE RouteLate
  BY <1>23, ThreadAssumption DEF RouteLate, ReadFrame, Goto, worker, caller, reading,
       process
<1>24. CASE Deliver
  BY <1>24, ThreadAssumption DEF Deliver, Goto, worker, caller, reading, process
<1>25. CASE ReadShutdown
  BY <1>25, ThreadAssumption DEF ReadShutdown, ReadFrame, Goto, worker, caller, reading,
       process
<1>26. CASE ReadError
  BY <1>26, ThreadAssumption DEF ReadError, ReadFrame, Goto, worker, caller, reading,
       process
<1>27. CASE ReadEof
  BY <1>27, ThreadAssumption DEF ReadEof, Goto, worker, caller, reading, process
<1>28. ASSUME NEW s \in Stoppers, StopBegin(s) PROVE CallTypeOK'
  BY <1>28, ThreadAssumption DEF StopBegin, Goto, worker, caller, reading, process
<1>29. ASSUME NEW s \in Stoppers, StopLate(s) PROVE CallTypeOK'
  BY <1>29, ThreadAssumption DEF StopLate, Goto, worker, caller, reading, process
<1>30. ASSUME NEW s \in Stoppers, StopClose(s) PROVE CallTypeOK'
  BY <1>30, ThreadAssumption DEF StopClose, Goto, worker, caller, reading, process
<1>31. ASSUME NEW s \in Stoppers, StopLock(s) PROVE CallTypeOK'
  BY <1>31, ThreadAssumption DEF StopLock, Goto, worker, caller, reading, process
<1>32. ASSUME NEW s \in Stoppers, StopBye(s) PROVE CallTypeOK'
  BY <1>32, ThreadAssumption DEF StopBye, Goto, worker, caller, reading, process
<1>33. ASSUME NEW s \in Stoppers, StopFinish(s) PROVE CallTypeOK'
  BY <1>33, ThreadAssumption DEF StopFinish, Goto, worker, caller, reading, process
<1>34. ASSUME NEW s \in Stoppers, StopTake(s) PROVE CallTypeOK'
  BY <1>34, ThreadAssumption DEF StopTake, Goto, worker, caller, reading, process
<1>35. ASSUME NEW s \in Stoppers, StopReap(s) PROVE CallTypeOK'
  BY <1>35, ThreadAssumption DEF StopReap, Goto, worker, caller, reading, process
<1>36. ASSUME NEW s \in Stoppers, StopMark(s) PROVE CallTypeOK'
  BY <1>36, ThreadAssumption DEF StopMark, Goto, worker, caller, reading, process
<1>37. ASSUME NEW s \in Stoppers, StopSweep(s) PROVE CallTypeOK'
  BY <1>37, ThreadAssumption DEF StopSweep, Drain, Goto, worker, caller, reading,
       process
<1>38. ASSUME NEW s \in Stoppers, StopJoin(s) PROVE CallTypeOK'
  BY <1>38, ThreadAssumption DEF StopJoin, Goto, worker, caller, reading, process
<1>39. ASSUME NEW s \in Stoppers, StopJoined(s) PROVE CallTypeOK'
  BY <1>39, ThreadAssumption DEF StopJoined, Goto, worker, caller, reading, process
<1>40. CASE ChildRead
  BY <1>40, ThreadAssumption DEF ChildRead, Goto, worker, caller, reading, process
<1>41. CASE ChildEmit
  BY <1>41, ThreadAssumption DEF ChildEmit, Goto, worker, caller, reading, process
<1>42. CASE ChildDetach
  BY <1>42, ThreadAssumption DEF ChildDetach, Goto, worker, caller, reading, process
<1>43. CASE ChildExit
  BY <1>43, ThreadAssumption DEF ChildExit, Goto, worker, caller, reading, process
<1>44. CASE UNCHANGED vars
  BY <1>44, ThreadAssumption DEF vars, worker, caller, reading, process
<1> QED
  BY <1>1, <1>2, <1>3, <1>4, <1>5, <1>6, <1>7, <1>8, <1>9, <1>10, <1>11, <1>12, <1>13,
       <1>14, <1>15, <1>16, <1>17, <1>18, <1>19, <1>20, <1>21, <1>22, <1>23, <1>24,
       <1>25, <1>26, <1>27, <1>28, <1>29, <1>30, <1>31, <1>32, <1>33, <1>34, <1>35,
       <1>36, <1>37, <1>38, <1>39, <1>40, <1>41, <1>42, <1>43, <1>44
  DEF Next, CallStep, SendStep, FailStep, RequestStep, ReaderStep, StopStep, ChildStep,
       Finished, Failers

\* Every step keeps the type of the channels and of what the reader holds; the
\* sender it has looked up is that of a call.
LEMMA StreamTypeStep ==
    ASSUME PcTypeOK, CallTypeOK, StreamTypeOK, [Next]_vars
    PROVE  StreamTypeOK'
<1> USE DEF StreamTypeOK, PcTypeOK, CallTypeOK, Threads, Failers, AnswerKinds,
    RoutedKinds, StreamKinds, ErrorKinds
<1>1. ASSUME NEW c \in Calls, CallRefused(c) PROVE StreamTypeOK'
  BY <1>1, ThreadAssumption, EventType DEF CallRefused, Goto, worker, caller, reading,
       process
<1>2. ASSUME NEW c \in Calls, CallStart(c) PROVE StreamTypeOK'
  BY <1>2, ThreadAssumption DEF CallStart, Goto, worker, caller, reading, process
<1>3. ASSUME NEW c \in Calls, Send(c) PROVE StreamTypeOK'
  BY <1>3, ThreadAssumption DEF Send, Goto, worker, caller, reading, process
<1>4. ASSUME NEW c \in Calls, SendRefused(c) PROVE StreamTypeOK'
  BY <1>4, ThreadAssumption, SendErrorType, AfterSendType
  DEF SendRefused, SendError, SentFrame, Goto, worker, caller, reading, process
<1>5. ASSUME NEW c \in Calls, SendClosed(c) PROVE StreamTypeOK'
  BY <1>5, ThreadAssumption, SendErrorType, AfterSendType
  DEF SendClosed, SendError, SentFrame, Goto, worker, caller, reading, process
<1>6. ASSUME NEW c \in Calls, SendTooLarge(c) PROVE StreamTypeOK'
  BY <1>6, ThreadAssumption DEF SendTooLarge, Goto, worker, caller, reading, process
<1>7. ASSUME NEW c \in Calls, SendLock(c) PROVE StreamTypeOK'
  BY <1>7, ThreadAssumption DEF SendLock, Goto, worker, caller, reading, process
<1>8. ASSUME NEW c \in Calls, Write(c) PROVE StreamTypeOK'
  BY <1>8, ThreadAssumption, AfterSendType DEF Write, SentFrame, Goto, worker, caller,
       reading, process
<1>9. ASSUME NEW c \in Calls, WriteFails(c) PROVE StreamTypeOK'
  BY <1>9, ThreadAssumption DEF WriteFails, Goto, worker, caller, reading, process
<1>10. ASSUME NEW c \in Calls, Register(c) PROVE StreamTypeOK'
  BY <1>10, ThreadAssumption DEF Register, Insert, Goto, worker, caller, reading,
       process
<1>11. ASSUME NEW c \in Calls, Unregister(c) PROVE StreamTypeOK'
  BY <1>11, ThreadAssumption DEF Unregister, Remove, Goto, worker, caller, reading,
       process
<1>12. ASSUME NEW c \in Calls, ReceiveAnswer(c) PROVE StreamTypeOK'
  <2>1. Head(chan[c]) \in Events /\ Tail(chan[c]) \in Seq(Events)
    BY <1>12, SeqParts DEF ReceiveAnswer, Receives
  <2>2. pc'[Reader] = pc[Reader]
    BY <1>12, ThreadAssumption DEF ReceiveAnswer, Goto
  <2> QED
    BY <1>12, <2>1, <2>2 DEF ReceiveAnswer, Receives, worker, reading, process
<1>13. ASSUME NEW c \in Calls, ReceiveCancel(c) PROVE StreamTypeOK'
  <2>1. Head(chan[c]) \in Events /\ Tail(chan[c]) \in Seq(Events)
    BY <1>13, SeqParts DEF ReceiveCancel, Receives
  <2>2. pc'[Reader] = pc[Reader]
    BY <1>13, ThreadAssumption DEF ReceiveCancel, Goto
  <2> QED
    BY <1>13, <2>1, <2>2 DEF ReceiveCancel, Receives, worker, reading, process
<1>14. ASSUME NEW c \in Calls, ReceiveNotification(c) PROVE StreamTypeOK'
  BY <1>14, ThreadAssumption, SeqParts DEF ReceiveNotification, Receives, Goto, worker,
       caller, reading, process
<1>15. ASSUME NEW c \in Calls, ReceiveRequest(c) PROVE StreamTypeOK'
  <2>1. Tail(chan[c]) \in Seq(Events) /\ Event("UnexpectedRequest", rid[c]) \in Events
    BY <1>15, SeqParts, EventType DEF ReceiveRequest, Receives
  <2>2. pc'[Reader] = pc[Reader]
    BY <1>15, ThreadAssumption DEF ReceiveRequest, Goto
  <2> QED
    BY <1>15, <2>1, <2>2 DEF ReceiveRequest, Receives, worker, reading, process
<1>16. ASSUME NEW c \in Calls, Expire(c) PROVE StreamTypeOK'
  BY <1>16, ThreadAssumption, EventType DEF Expire, Remove, Goto, worker, caller,
       reading, process
<1>17. ASSUME NEW t \in Failers, FailWins(t) PROVE StreamTypeOK'
  BY <1>17, ThreadAssumption DEF FailWins, Goto, worker, caller, reading, process
<1>18. ASSUME NEW t \in Failers, FailLoses(t) PROVE StreamTypeOK'
  <2>1. result' \in [Calls -> Events]
    BY <1>18, SendErrorType, ThreadAssumption DEF FailLoses, AfterFail
  <2>2. pc'[Reader] = "deliver" => pc[Reader] = "deliver"
    BY <1>18, AfterSendType, ThreadAssumption DEF FailLoses, AfterFail, Goto
  <2> QED
    BY <1>18, <2>1, <2>2 DEF FailLoses, worker, reading, process
<1>19. ASSUME NEW t \in Failers, FailClose(t) PROVE StreamTypeOK'
  BY <1>19, ThreadAssumption DEF FailClose, Goto, worker, caller, reading, process
<1>20. ASSUME NEW t \in Failers, FailKill(t) PROVE StreamTypeOK'
  BY <1>20, ThreadAssumption DEF FailKill, Goto, worker, caller, reading, process
<1>21. ASSUME NEW t \in Failers, FailDrain(t) PROVE StreamTypeOK'
  <2>1. result' \in [Calls -> Events]
    BY <1>21, SendErrorType, ThreadAssumption DEF FailDrain, AfterFail
  <2>2. pc'[Reader] = "deliver" => pc[Reader] = "deliver"
    BY <1>21, AfterSendType, ThreadAssumption DEF FailDrain, AfterFail, Goto
  <2> QED
    BY <1>21, <2>1, <2>2, DrainType DEF FailDrain, worker, reading, process
<1>22. CASE RouteFound
  <2>1. Head(stdout) \in Events /\ Tail(stdout) \in Seq(Events)
    BY <1>22, SeqParts DEF RouteFound, ReadFrame
  <2>2. dest' \in Calls
    BY <1>22 DEF RouteFound
  <2> QED
    BY <1>22, <2>1, <2>2 DEF RouteFound, ReadFrame, caller
<1>23. CASE RouteLate
  BY <1>23, ThreadAssumption, SeqParts DEF RouteLate, ReadFrame, Goto, worker, caller,
       reading, process
<1>24. CASE Deliver
  BY <1>24, ThreadAssumption, EventType DEF Deliver, NoEvent, Goto, worker, caller,
       reading, process
<1>25. CASE ReadShutdown
  BY <1>25, ThreadAssumption, SeqParts DEF ReadShutdown, ReadFrame, Goto, worker,
       caller, reading, process
<1>26. CASE ReadError
  BY <1>26, ThreadAssumption, SeqParts DEF ReadError, ReadFrame, Goto, worker, caller,
       reading, process
<1>27. CASE ReadEof
  BY <1>27, ThreadAssumption DEF ReadEof, Goto, worker, caller, reading, process
<1>28. ASSUME NEW s \in Stoppers, StopBegin(s) PROVE StreamTypeOK'
  BY <1>28, ThreadAssumption DEF StopBegin, Goto, worker, caller, reading, process
<1>29. ASSUME NEW s \in Stoppers, StopLate(s) PROVE StreamTypeOK'
  BY <1>29, ThreadAssumption DEF StopLate, Goto, worker, caller, reading, process
<1>30. ASSUME NEW s \in Stoppers, StopClose(s) PROVE StreamTypeOK'
  BY <1>30, ThreadAssumption DEF StopClose, Goto, worker, caller, reading, process
<1>31. ASSUME NEW s \in Stoppers, StopLock(s) PROVE StreamTypeOK'
  BY <1>31, ThreadAssumption DEF StopLock, Goto, worker, caller, reading, process
<1>32. ASSUME NEW s \in Stoppers, StopBye(s) PROVE StreamTypeOK'
  BY <1>32, ThreadAssumption DEF StopBye, Goto, worker, caller, reading, process
<1>33. ASSUME NEW s \in Stoppers, StopFinish(s) PROVE StreamTypeOK'
  BY <1>33, ThreadAssumption DEF StopFinish, Goto, worker, caller, reading, process
<1>34. ASSUME NEW s \in Stoppers, StopTake(s) PROVE StreamTypeOK'
  BY <1>34, ThreadAssumption DEF StopTake, Goto, worker, caller, reading, process
<1>35. ASSUME NEW s \in Stoppers, StopReap(s) PROVE StreamTypeOK'
  BY <1>35, ThreadAssumption DEF StopReap, Goto, worker, caller, reading, process
<1>36. ASSUME NEW s \in Stoppers, StopMark(s) PROVE StreamTypeOK'
  BY <1>36, ThreadAssumption DEF StopMark, Goto, worker, caller, reading, process
<1>37. ASSUME NEW s \in Stoppers, StopSweep(s) PROVE StreamTypeOK'
  <2>1. chan' \in [Calls -> Seq(Events)]
    BY <1>37, DrainType DEF StopSweep
  <2> QED
    BY <1>37, <2>1, ThreadAssumption DEF StopSweep, Goto, reading, process
<1>38. ASSUME NEW s \in Stoppers, StopJoin(s) PROVE StreamTypeOK'
  BY <1>38, ThreadAssumption DEF StopJoin, Goto, worker, caller, reading, process
<1>39. ASSUME NEW s \in Stoppers, StopJoined(s) PROVE StreamTypeOK'
  BY <1>39, ThreadAssumption DEF StopJoined, Goto, worker, caller, reading, process
<1>40. CASE ChildRead
  BY <1>40, ThreadAssumption DEF ChildRead, Goto, worker, caller, reading, process
<1>41. CASE ChildEmit
  <2>1. PICK k \in RoutedKinds \cup StreamKinds, i \in Nat : stdout' = Append(stdout, Event(k, i))
    BY <1>41 DEF ChildEmit
  <2>2. stdout' \in Seq(Events)
    BY <2>1, EventType
  <2> QED
    BY <1>41, <2>2 DEF ChildEmit, caller, reading
<1>42. CASE ChildDetach
  BY <1>42, ThreadAssumption DEF ChildDetach, Goto, worker, caller, reading, process
<1>43. CASE ChildExit
  BY <1>43, ThreadAssumption DEF ChildExit, Goto, worker, caller, reading, process
<1>44. CASE UNCHANGED vars
  BY <1>44, ThreadAssumption DEF vars, worker, caller, reading, process
<1> QED
  BY <1>1, <1>2, <1>3, <1>4, <1>5, <1>6, <1>7, <1>8, <1>9, <1>10, <1>11, <1>12, <1>13,
       <1>14, <1>15, <1>16, <1>17, <1>18, <1>19, <1>20, <1>21, <1>22, <1>23, <1>24,
       <1>25, <1>26, <1>27, <1>28, <1>29, <1>30, <1>31, <1>32, <1>33, <1>34, <1>35,
       <1>36, <1>37, <1>38, <1>39, <1>40, <1>41, <1>42, <1>43, <1>44
  DEF Next, CallStep, SendStep, FailStep, RequestStep, ReaderStep, StopStep, ChildStep,
       Finished, Failers

-----------------------------------------------------------------------------
(* The parts of the inductive invariant.                                    *)

\* What a thread that leaves WorkerInner::fail does: the other threads stay
\* where they are, the reader goes back to its loop or ends, a call returns
\* through the error path of its send.
LEMMA AfterFailEffect ==
    ASSUME PcTypeOK, CallTypeOK, StreamTypeOK, NEW t \in Failers, AfterFail(t)
    PROVE  /\ \A u \in Threads \ {t} : pc'[u] = pc[u]
           /\ t = Reader => pc'[t] \in {"read", "done"} /\ UNCHANGED <<out, result>>
           /\ t # Reader =>
                 /\ pc'[t] \in {"unregister", "done", "fail"}
                 /\ pc'[t] = "done" => out[t] \in {"Reply", "none"}
                 /\ \A c \in Calls \ {t} : out'[c] = out[c] /\ result'[c] = result[c]
                 /\ out'[t] = IF out[t] = "Cancel" THEN "none" ELSE out[t]
                 /\ result'[t] = IF out[t] \in {"Request", "Reply"}
                                 THEN Event("Protocol", rid[t]) ELSE result[t]
<1> USE DEF PcTypeOK, CallTypeOK, StreamTypeOK, Threads, Failers
<1>1. CASE t = Reader
  BY <1>1 DEF AfterFail, Goto
<1>2. CASE t # Reader /\ out[t] = "none"
  BY <1>2 DEF AfterFail, Goto
<1>3. CASE t # Reader /\ out[t] # "none"
  <2>1. /\ pc' = [pc EXCEPT ![t] = AfterSend(t, FALSE)]
        /\ SendError(t, "Protocol") /\ SentFrame(t)
    BY <1>3 DEF AfterFail, Goto
  <2>2. /\ AfterSend(t, FALSE) \in {"unregister", "done", "fail"}
        /\ AfterSend(t, FALSE) = "done" => out[t] = "Reply"
    BY DEF AfterSend
  <2> QED
    BY <1>3, <2>1, <2>2 DEF SendError, SentFrame
<1> QED
  BY <1>1, <1>2, <1>3

\* A call in the pending map receives one Failure after what its channel
\* already held; the channel of any other call is untouched (the drain loops
\* of fail and finish_shutdown).
LEMMA DrainChannels ==
    ASSUME StreamTypeOK, CallTypeOK, Drain, NEW c \in Calls
    PROVE  /\ (\A p \in pending : p[2] # c) => chan'[c] = chan[c]
           /\ Len(chan'[c]) \in Nat
           /\ \A i \in 1..Len(chan[c]) : i \in 1..Len(chan'[c]) /\ chan'[c][i] = chan[c][i]
           /\ \A i \in 1..Len(chan'[c]) :
                 \/ i \in 1..Len(chan[c]) /\ chan'[c][i] = chan[c][i]
                 \/ chan'[c][i] = Event("Failure", 0)
           /\ (\E p \in pending : p[2] = c) =>
                 \E i \in 1..Len(chan'[c]) : chan'[c][i] = Event("Failure", 0)
<1>0. Event("Failure", 0) \in Events /\ chan[c] \in Seq(Events)
  BY EventType DEF ErrorKinds, StreamTypeOK
<1>1. Event("Failure", 0) \in Events /\ chan[c] \in Seq(Events) /\ Len(chan[c]) \in Nat
  BY <1>0
<1>2. CASE \A p \in pending : p[2] # c
  BY <1>1, <1>2 DEF Drain
<1>3. CASE \E p \in pending : p[2] = c
  <2>1. chan'[c] = Append(chan[c], Event("Failure", 0))
    BY <1>3 DEF Drain
  <2>2. /\ Len(chan'[c]) = Len(chan[c]) + 1
        /\ \A i \in 1..Len(chan[c]) : chan'[c][i] = chan[c][i]
        /\ chan'[c][Len(chan[c]) + 1] = Event("Failure", 0)
    BY <1>1, <2>1, AppendParts
  <2> QED
    BY <1>1, <1>3, <2>2
<1> QED
  BY <1>2, <1>3

\* Threads past the compare_exchange of fail, or past the swap of
\* begin_shutdown, see a worker that has left the running state.
LEMMA PhasesStep ==
    ASSUME WorkerTypeOK, PcTypeOK, Phases, [Next]_vars
    PROVE  Phases'
<1> USE DEF WorkerTypeOK, PcTypeOK, Phases, Threads, Failers, States, CallSteps,
    ReaderSteps, StopSteps
<1>1. ASSUME NEW c \in Calls, CallRefused(c) PROVE Phases'
  BY <1>1, ThreadAssumption DEF CallRefused, Goto, worker, caller, reading, process
<1>2. ASSUME NEW c \in Calls, CallStart(c) PROVE Phases'
  BY <1>2, ThreadAssumption DEF CallStart, Goto, worker, caller, reading, process
<1>3. ASSUME NEW c \in Calls, Send(c) PROVE Phases'
  BY <1>3, ThreadAssumption DEF Send, Goto, worker, caller, reading, process
<1>4. ASSUME NEW c \in Calls, SendRefused(c) PROVE Phases'
  BY <1>4, ThreadAssumption, AfterSendType DEF SendRefused, SendError, SentFrame, Goto,
       worker, caller, reading, process
<1>5. ASSUME NEW c \in Calls, SendClosed(c) PROVE Phases'
  BY <1>5, ThreadAssumption, AfterSendType DEF SendClosed, SendError, SentFrame, Goto,
       worker, caller, reading, process
<1>6. ASSUME NEW c \in Calls, SendTooLarge(c) PROVE Phases'
  BY <1>6, ThreadAssumption DEF SendTooLarge, Goto, worker, caller, reading, process
<1>7. ASSUME NEW c \in Calls, SendLock(c) PROVE Phases'
  BY <1>7, ThreadAssumption DEF SendLock, Goto, worker, caller, reading, process
<1>8. ASSUME NEW c \in Calls, Write(c) PROVE Phases'
  BY <1>8, ThreadAssumption, AfterSendType DEF Write, SentFrame, Goto, worker, caller,
       reading, process
<1>9. ASSUME NEW c \in Calls, WriteFails(c) PROVE Phases'
  BY <1>9, ThreadAssumption DEF WriteFails, Goto, worker, caller, reading, process
<1>10. ASSUME NEW c \in Calls, Register(c) PROVE Phases'
  BY <1>10, ThreadAssumption DEF Register, Insert, Goto, worker, caller, reading,
       process
<1>11. ASSUME NEW c \in Calls, Unregister(c) PROVE Phases'
  BY <1>11, ThreadAssumption DEF Unregister, Remove, Goto, worker, caller, reading,
       process
<1>12. ASSUME NEW c \in Calls, ReceiveAnswer(c) PROVE Phases'
  BY <1>12, ThreadAssumption DEF ReceiveAnswer, Receives, Goto, worker, caller, reading,
       process
<1>13. ASSUME NEW c \in Calls, ReceiveCancel(c) PROVE Phases'
  BY <1>13, ThreadAssumption DEF ReceiveCancel, Receives, Goto, worker, caller, reading,
       process
<1>14. ASSUME NEW c \in Calls, ReceiveNotification(c) PROVE Phases'
  BY <1>14, ThreadAssumption DEF ReceiveNotification, Receives, Goto, worker, caller,
       reading, process
<1>15. ASSUME NEW c \in Calls, ReceiveRequest(c) PROVE Phases'
  BY <1>15, ThreadAssumption DEF ReceiveRequest, Receives, Goto, worker, caller,
       reading, process
<1>16. ASSUME NEW c \in Calls, Expire(c) PROVE Phases'
  BY <1>16, ThreadAssumption DEF Expire, Remove, Goto, worker, caller, reading, process
<1>17. ASSUME NEW t \in Failers, FailWins(t) PROVE Phases'
  BY <1>17, ThreadAssumption DEF FailWins, Goto, worker, caller, reading, process
<1>18. ASSUME NEW t \in Failers, FailLoses(t) PROVE Phases'
  BY <1>18, ThreadAssumption, AfterSendType DEF FailLoses, AfterFail, SendError,
       SentFrame, Goto, worker, caller, reading, process
<1>19. ASSUME NEW t \in Failers, FailClose(t) PROVE Phases'
  BY <1>19, ThreadAssumption DEF FailClose, Goto, worker, caller, reading, process
<1>20. ASSUME NEW t \in Failers, FailKill(t) PROVE Phases'
  BY <1>20, ThreadAssumption DEF FailKill, Goto, worker, caller, reading, process
<1>21. ASSUME NEW t \in Failers, FailDrain(t) PROVE Phases'
  BY <1>21, ThreadAssumption, AfterSendType DEF FailDrain, Drain, AfterFail, SendError,
       SentFrame, Goto, worker, caller, reading, process
<1>22. CASE RouteFound
  BY <1>22, ThreadAssumption DEF RouteFound, ReadFrame, Remove, Goto, worker, caller,
       reading, process
<1>23. CASE RouteLate
  BY <1>23, ThreadAssumption DEF RouteLate, ReadFrame, Goto, worker, caller, reading,
       process
<1>24. CASE Deliver
  BY <1>24, ThreadAssumption DEF Deliver, Goto, worker, caller, reading, process
<1>25. CASE ReadShutdown
  BY <1>25, ThreadAssumption DEF ReadShutdown, ReadFrame, Goto, worker, caller, reading,
       process
<1>26. CASE ReadError
  BY <1>26, ThreadAssumption DEF ReadError, ReadFrame, Goto, worker, caller, reading,
       process
<1>27. CASE ReadEof
  BY <1>27, ThreadAssumption DEF ReadEof, Goto, worker, caller, reading, process
<1>28. ASSUME NEW s \in Stoppers, StopBegin(s) PROVE Phases'
  BY <1>28, ThreadAssumption DEF StopBegin, Goto, worker, caller, reading, process
<1>29. ASSUME NEW s \in Stoppers, StopLate(s) PROVE Phases'
  BY <1>29, ThreadAssumption DEF StopLate, Goto, worker, caller, reading, process
<1>30. ASSUME NEW s \in Stoppers, StopClose(s) PROVE Phases'
  BY <1>30, ThreadAssumption DEF StopClose, Goto, worker, caller, reading, process
<1>31. ASSUME NEW s \in Stoppers, StopLock(s) PROVE Phases'
  BY <1>31, ThreadAssumption DEF StopLock, Goto, worker, caller, reading, process
<1>32. ASSUME NEW s \in Stoppers, StopBye(s) PROVE Phases'
  BY <1>32, ThreadAssumption DEF StopBye, Goto, worker, caller, reading, process
<1>33. ASSUME NEW s \in Stoppers, StopFinish(s) PROVE Phases'
  BY <1>33, ThreadAssumption DEF StopFinish, Goto, worker, caller, reading, process
<1>34. ASSUME NEW s \in Stoppers, StopTake(s) PROVE Phases'
  BY <1>34, ThreadAssumption DEF StopTake, Goto, worker, caller, reading, process
<1>35. ASSUME NEW s \in Stoppers, StopReap(s) PROVE Phases'
  BY <1>35, ThreadAssumption DEF StopReap, Goto, worker, caller, reading, process
<1>36. ASSUME NEW s \in Stoppers, StopMark(s) PROVE Phases'
  BY <1>36, ThreadAssumption DEF StopMark, Goto, worker, caller, reading, process
<1>37. ASSUME NEW s \in Stoppers, StopSweep(s) PROVE Phases'
  BY <1>37, ThreadAssumption DEF StopSweep, Drain, Goto, worker, caller, reading,
       process
<1>38. ASSUME NEW s \in Stoppers, StopJoin(s) PROVE Phases'
  BY <1>38, ThreadAssumption DEF StopJoin, Goto, worker, caller, reading, process
<1>39. ASSUME NEW s \in Stoppers, StopJoined(s) PROVE Phases'
  BY <1>39, ThreadAssumption DEF StopJoined, Goto, worker, caller, reading, process
<1>40. CASE ChildRead
  BY <1>40, ThreadAssumption DEF ChildRead, Goto, worker, caller, reading, process
<1>41. CASE ChildEmit
  BY <1>41, ThreadAssumption DEF ChildEmit, Goto, worker, caller, reading, process
<1>42. CASE ChildDetach
  BY <1>42, ThreadAssumption DEF ChildDetach, Goto, worker, caller, reading, process
<1>43. CASE ChildExit
  BY <1>43, ThreadAssumption DEF ChildExit, Goto, worker, caller, reading, process
<1>44. CASE UNCHANGED vars
  BY <1>44, ThreadAssumption DEF vars, worker, caller, reading, process
<1> QED
  BY <1>1, <1>2, <1>3, <1>4, <1>5, <1>6, <1>7, <1>8, <1>9, <1>10, <1>11, <1>12, <1>13,
       <1>14, <1>15, <1>16, <1>17, <1>18, <1>19, <1>20, <1>21, <1>22, <1>23, <1>24,
       <1>25, <1>26, <1>27, <1>28, <1>29, <1>30, <1>31, <1>32, <1>33, <1>34, <1>35,
       <1>36, <1>37, <1>38, <1>39, <1>40, <1>41, <1>42, <1>43, <1>44
  DEF Next, CallStep, SendStep, FailStep, RequestStep, ReaderStep, StopStep, ChildStep,
       Finished, Failers

\* Request ids stay fresh and an entry of the pending map stays that of its
\* call.
LEMMA IdentityStep ==
    ASSUME PcTypeOK, CallTypeOK, StreamTypeOK, Identity, [Next]_vars
    PROVE  Identity'
<1> USE DEF CallTypeOK, PcTypeOK, Identity, Threads, Failers
<1>1. ASSUME NEW c \in Calls, CallRefused(c) PROVE Identity'
  BY <1>1, ThreadAssumption DEF CallRefused, Goto, worker, caller, reading, process
<1>2. ASSUME NEW c \in Calls, CallStart(c) PROVE Identity'
  BY <1>2, ThreadAssumption DEF CallStart, Goto, worker, caller, reading, process
<1>3. ASSUME NEW c \in Calls, Send(c) PROVE Identity'
  BY <1>3, ThreadAssumption DEF Send, Goto, worker, caller, reading, process
<1>4. ASSUME NEW c \in Calls, SendRefused(c) PROVE Identity'
  BY <1>4, ThreadAssumption, AfterSendType DEF SendRefused, SendError, SentFrame, Goto,
       worker, caller, reading, process
<1>5. ASSUME NEW c \in Calls, SendClosed(c) PROVE Identity'
  BY <1>5, ThreadAssumption, AfterSendType DEF SendClosed, SendError, SentFrame, Goto,
       worker, caller, reading, process
<1>6. ASSUME NEW c \in Calls, SendTooLarge(c) PROVE Identity'
  BY <1>6, ThreadAssumption DEF SendTooLarge, Goto, worker, caller, reading, process
<1>7. ASSUME NEW c \in Calls, SendLock(c) PROVE Identity'
  BY <1>7, ThreadAssumption DEF SendLock, Goto, worker, caller, reading, process
<1>8. ASSUME NEW c \in Calls, Write(c) PROVE Identity'
  BY <1>8, ThreadAssumption, AfterSendType DEF Write, SentFrame, Goto, worker, caller,
       reading, process
<1>9. ASSUME NEW c \in Calls, WriteFails(c) PROVE Identity'
  BY <1>9, ThreadAssumption DEF WriteFails, Goto, worker, caller, reading, process
<1>10. ASSUME NEW c \in Calls, Register(c) PROVE Identity'
  BY <1>10, ThreadAssumption DEF Register, Insert, Goto, worker, caller, reading,
       process
<1>11. ASSUME NEW c \in Calls, Unregister(c) PROVE Identity'
  BY <1>11, ThreadAssumption DEF Unregister, Remove, Goto, worker, caller, reading,
       process
<1>12. ASSUME NEW c \in Calls, ReceiveAnswer(c) PROVE Identity'
  BY <1>12, ThreadAssumption DEF ReceiveAnswer, Receives, Goto, worker, caller, reading,
       process
<1>13. ASSUME NEW c \in Calls, ReceiveCancel(c) PROVE Identity'
  BY <1>13, ThreadAssumption DEF ReceiveCancel, Receives, Goto, worker, caller, reading,
       process
<1>14. ASSUME NEW c \in Calls, ReceiveNotification(c) PROVE Identity'
  BY <1>14, ThreadAssumption DEF ReceiveNotification, Receives, Goto, worker, caller,
       reading, process
<1>15. ASSUME NEW c \in Calls, ReceiveRequest(c) PROVE Identity'
  BY <1>15, ThreadAssumption DEF ReceiveRequest, Receives, Goto, worker, caller,
       reading, process
<1>16. ASSUME NEW c \in Calls, Expire(c) PROVE Identity'
  BY <1>16, ThreadAssumption DEF Expire, Remove, Goto, worker, caller, reading, process
<1>17. ASSUME NEW t \in Failers, FailWins(t) PROVE Identity'
  BY <1>17, ThreadAssumption DEF FailWins, Goto, worker, caller, reading, process
<1>18. ASSUME NEW t \in Failers, FailLoses(t) PROVE Identity'
  BY <1>18, ThreadAssumption, AfterFailEffect DEF FailLoses, Goto, worker, caller,
       reading, process
<1>19. ASSUME NEW t \in Failers, FailClose(t) PROVE Identity'
  BY <1>19, ThreadAssumption DEF FailClose, Goto, worker, caller, reading, process
<1>20. ASSUME NEW t \in Failers, FailKill(t) PROVE Identity'
  BY <1>20, ThreadAssumption DEF FailKill, Goto, worker, caller, reading, process
<1>21. ASSUME NEW t \in Failers, FailDrain(t) PROVE Identity'
  <2>1. pending' = {} /\ rid' = rid /\ nextId' = nextId
    BY <1>21 DEF FailDrain, Drain
  <2>2. \A c \in Calls : pc'[c] \notin {"idle", "done"} => pc[c] \notin {"idle", "done"}
    BY <1>21, ThreadAssumption, AfterFailEffect DEF FailDrain
  <2> QED
    BY <2>1, <2>2
<1>22. CASE RouteFound
  BY <1>22, ThreadAssumption DEF RouteFound, ReadFrame, Remove, Goto, worker, caller,
       reading, process
<1>23. CASE RouteLate
  BY <1>23, ThreadAssumption DEF RouteLate, ReadFrame, Goto, worker, caller, reading,
       process
<1>24. CASE Deliver
  BY <1>24, ThreadAssumption DEF Deliver, Goto, worker, caller, reading, process
<1>25. CASE ReadShutdown
  BY <1>25, ThreadAssumption DEF ReadShutdown, ReadFrame, Goto, worker, caller, reading,
       process
<1>26. CASE ReadError
  BY <1>26, ThreadAssumption DEF ReadError, ReadFrame, Goto, worker, caller, reading,
       process
<1>27. CASE ReadEof
  BY <1>27, ThreadAssumption DEF ReadEof, Goto, worker, caller, reading, process
<1>28. ASSUME NEW s \in Stoppers, StopBegin(s) PROVE Identity'
  BY <1>28, ThreadAssumption DEF StopBegin, Goto, worker, caller, reading, process
<1>29. ASSUME NEW s \in Stoppers, StopLate(s) PROVE Identity'
  BY <1>29, ThreadAssumption DEF StopLate, Goto, worker, caller, reading, process
<1>30. ASSUME NEW s \in Stoppers, StopClose(s) PROVE Identity'
  BY <1>30, ThreadAssumption DEF StopClose, Goto, worker, caller, reading, process
<1>31. ASSUME NEW s \in Stoppers, StopLock(s) PROVE Identity'
  BY <1>31, ThreadAssumption DEF StopLock, Goto, worker, caller, reading, process
<1>32. ASSUME NEW s \in Stoppers, StopBye(s) PROVE Identity'
  BY <1>32, ThreadAssumption DEF StopBye, Goto, worker, caller, reading, process
<1>33. ASSUME NEW s \in Stoppers, StopFinish(s) PROVE Identity'
  BY <1>33, ThreadAssumption DEF StopFinish, Goto, worker, caller, reading, process
<1>34. ASSUME NEW s \in Stoppers, StopTake(s) PROVE Identity'
  BY <1>34, ThreadAssumption DEF StopTake, Goto, worker, caller, reading, process
<1>35. ASSUME NEW s \in Stoppers, StopReap(s) PROVE Identity'
  BY <1>35, ThreadAssumption DEF StopReap, Goto, worker, caller, reading, process
<1>36. ASSUME NEW s \in Stoppers, StopMark(s) PROVE Identity'
  BY <1>36, ThreadAssumption DEF StopMark, Goto, worker, caller, reading, process
<1>37. ASSUME NEW s \in Stoppers, StopSweep(s) PROVE Identity'
  BY <1>37, ThreadAssumption DEF StopSweep, Drain, Goto, worker, caller, reading,
       process
<1>38. ASSUME NEW s \in Stoppers, StopJoin(s) PROVE Identity'
  BY <1>38, ThreadAssumption DEF StopJoin, Goto, worker, caller, reading, process
<1>39. ASSUME NEW s \in Stoppers, StopJoined(s) PROVE Identity'
  BY <1>39, ThreadAssumption DEF StopJoined, Goto, worker, caller, reading, process
<1>40. CASE ChildRead
  BY <1>40, ThreadAssumption DEF ChildRead, Goto, worker, caller, reading, process
<1>41. CASE ChildEmit
  BY <1>41, ThreadAssumption DEF ChildEmit, Goto, worker, caller, reading, process
<1>42. CASE ChildDetach
  BY <1>42, ThreadAssumption DEF ChildDetach, Goto, worker, caller, reading, process
<1>43. CASE ChildExit
  BY <1>43, ThreadAssumption DEF ChildExit, Goto, worker, caller, reading, process
<1>44. CASE UNCHANGED vars
  BY <1>44, ThreadAssumption DEF vars, worker, caller, reading, process
<1> QED
  BY <1>1, <1>2, <1>3, <1>4, <1>5, <1>6, <1>7, <1>8, <1>9, <1>10, <1>11, <1>12, <1>13,
       <1>14, <1>15, <1>16, <1>17, <1>18, <1>19, <1>20, <1>21, <1>22, <1>23, <1>24,
       <1>25, <1>26, <1>27, <1>28, <1>29, <1>30, <1>31, <1>32, <1>33, <1>34, <1>35,
       <1>36, <1>37, <1>38, <1>39, <1>40, <1>41, <1>42, <1>43, <1>44
  DEF Next, CallStep, SendStep, FailStep, RequestStep, ReaderStep, StopStep, ChildStep,
       Finished, Failers

\* A frame in the channel of a call, or in the hands of the reader, carries
\* the id of the request of that call; a Failure is only sent by a worker that
\* has left the running state.
LEMMA MailboxesStep ==
    ASSUME WorkerTypeOK, PcTypeOK, CallTypeOK, StreamTypeOK, Phases, Identity, Mailboxes, [Next]_vars
    PROVE  Mailboxes'
<1> USE DEF PcTypeOK, CallTypeOK, StreamTypeOK, Mailboxes, Threads, Failers
<1>1. ASSUME NEW c \in Calls, CallRefused(c) PROVE Mailboxes'
  BY <1>1, ThreadAssumption DEF CallRefused, Goto, worker, caller, reading, process
<1>2. ASSUME NEW c \in Calls, CallStart(c) PROVE Mailboxes'
  BY <1>2, ThreadAssumption DEF CallStart, Goto, worker, caller, reading, process
<1>3. ASSUME NEW c \in Calls, Send(c) PROVE Mailboxes'
  BY <1>3, ThreadAssumption DEF Send, Goto, worker, caller, reading, process
<1>4. ASSUME NEW c \in Calls, SendRefused(c) PROVE Mailboxes'
  BY <1>4, ThreadAssumption, AfterSendType DEF SendRefused, SendError, SentFrame, Goto,
       worker, caller, reading, process
<1>5. ASSUME NEW c \in Calls, SendClosed(c) PROVE Mailboxes'
  BY ZenonT(30), <1>5, ThreadAssumption, AfterSendType DEF SendClosed, SendError, SentFrame, Goto,
       worker, caller, reading, process
<1>6. ASSUME NEW c \in Calls, SendTooLarge(c) PROVE Mailboxes'
  BY <1>6, ThreadAssumption DEF SendTooLarge, Goto, worker, caller, reading, process
<1>7. ASSUME NEW c \in Calls, SendLock(c) PROVE Mailboxes'
  BY <1>7, ThreadAssumption DEF SendLock, Goto, worker, caller, reading, process
<1>8. ASSUME NEW c \in Calls, Write(c) PROVE Mailboxes'
  BY ZenonT(30), <1>8, ThreadAssumption, AfterSendType DEF Write, SentFrame, Goto, worker, caller,
       reading, process
<1>9. ASSUME NEW c \in Calls, WriteFails(c) PROVE Mailboxes'
  BY <1>9, ThreadAssumption DEF WriteFails, Goto, worker, caller, reading, process
<1>10. ASSUME NEW c \in Calls, Register(c) PROVE Mailboxes'
  BY <1>10, ThreadAssumption DEF Register, Insert, Goto, worker, caller, reading,
       process
<1>11. ASSUME NEW c \in Calls, Unregister(c) PROVE Mailboxes'
  BY <1>11, ThreadAssumption DEF Unregister, Remove, Goto, worker, caller, reading,
       process
<1>12. ASSUME NEW c \in Calls, ReceiveAnswer(c) PROVE Mailboxes'
  <2>1. /\ chan'[c] = Tail(chan[c]) /\ \A d \in Calls \ {c} : chan'[d] = chan[d]
        /\ Len(Tail(chan[c])) = Len(chan[c]) - 1 /\ Len(chan[c]) \in Nat
        /\ \A i \in 1..Len(Tail(chan[c])) : i + 1 \in 1..Len(chan[c]) /\ Tail(chan[c])[i] = chan[c][i + 1]
    BY <1>12, SeqParts DEF ReceiveAnswer, Receives
  <2> QED
    BY <1>12, <2>1, ThreadAssumption
    DEF ReceiveAnswer, Receives, Goto, worker, reading, process
<1>13. ASSUME NEW c \in Calls, ReceiveCancel(c) PROVE Mailboxes'
  <2>1. /\ chan'[c] = Tail(chan[c]) /\ \A d \in Calls \ {c} : chan'[d] = chan[d]
        /\ Len(Tail(chan[c])) = Len(chan[c]) - 1 /\ Len(chan[c]) \in Nat
        /\ \A i \in 1..Len(Tail(chan[c])) : i + 1 \in 1..Len(chan[c]) /\ Tail(chan[c])[i] = chan[c][i + 1]
    BY <1>13, SeqParts DEF ReceiveCancel, Receives
  <2> QED
    BY <1>13, <2>1, ThreadAssumption
    DEF ReceiveCancel, Receives, Goto, worker, reading, process
<1>14. ASSUME NEW c \in Calls, ReceiveNotification(c) PROVE Mailboxes'
  <2>1. /\ chan'[c] = Tail(chan[c]) /\ \A d \in Calls \ {c} : chan'[d] = chan[d]
        /\ Len(Tail(chan[c])) = Len(chan[c]) - 1 /\ Len(chan[c]) \in Nat
        /\ \A i \in 1..Len(Tail(chan[c])) : i + 1 \in 1..Len(chan[c]) /\ Tail(chan[c])[i] = chan[c][i + 1]
    BY <1>14, SeqParts DEF ReceiveNotification, Receives
  <2> QED
    BY <1>14, <2>1, ThreadAssumption
    DEF ReceiveNotification, Receives, Goto, worker, reading, process
<1>15. ASSUME NEW c \in Calls, ReceiveRequest(c) PROVE Mailboxes'
  <2>1. /\ chan'[c] = Tail(chan[c]) /\ \A d \in Calls \ {c} : chan'[d] = chan[d]
        /\ Len(Tail(chan[c])) = Len(chan[c]) - 1 /\ Len(chan[c]) \in Nat
        /\ \A i \in 1..Len(Tail(chan[c])) : i + 1 \in 1..Len(chan[c]) /\ Tail(chan[c])[i] = chan[c][i + 1]
    BY <1>15, SeqParts DEF ReceiveRequest, Receives
  <2> QED
    BY <1>15, <2>1, ThreadAssumption
    DEF ReceiveRequest, Receives, Goto, worker, reading, process
<1>16. ASSUME NEW c \in Calls, Expire(c) PROVE Mailboxes'
  BY <1>16, ThreadAssumption DEF Expire, Remove, Goto, worker, caller, reading, process
<1>17. ASSUME NEW t \in Failers, FailWins(t) PROVE Mailboxes'
  BY <1>17, ThreadAssumption DEF FailWins, Goto, worker, caller, reading, process
<1>18. ASSUME NEW t \in Failers, FailLoses(t) PROVE Mailboxes'
  BY ZenonT(30), <1>18, ThreadAssumption, AfterFailEffect DEF FailLoses, Goto, worker, caller,
       reading, process
<1>19. ASSUME NEW t \in Failers, FailClose(t) PROVE Mailboxes'
  BY <1>19, ThreadAssumption DEF FailClose, Goto, worker, caller, reading, process
<1>20. ASSUME NEW t \in Failers, FailKill(t) PROVE Mailboxes'
  BY <1>20, ThreadAssumption DEF FailKill, Goto, worker, caller, reading, process
<1>21. ASSUME NEW t \in Failers, FailDrain(t) PROVE Mailboxes'
  <2>1. state # "running" /\ state' = state /\ rid' = rid /\ frame' = frame /\ dest' = dest
    BY <1>21 DEF Phases, FailDrain, Failers, reading
  <2>2. \A c \in Calls : \A i \in 1..Len(chan'[c]) :
           chan'[c][i].kind # "Failure" => chan'[c][i].id = rid[c]
    <3> SUFFICES ASSUME NEW c \in Calls, NEW i \in 1..Len(chan'[c]), chan'[c][i].kind # "Failure"
                 PROVE  chan'[c][i].id = rid[c]
      OBVIOUS
    <3>1. i \in 1..Len(chan[c]) /\ chan'[c][i] = chan[c][i]
      <4>1. \/ i \in 1..Len(chan[c]) /\ chan'[c][i] = chan[c][i]
            \/ chan'[c][i] = Event("Failure", 0)
        BY <1>21, DrainChannels DEF FailDrain
      <4> QED
        BY <4>1 DEF Event
    <3> QED
      BY <3>1
  <2>3. \A c \in Calls : pc'[c] \in {"idle", "register"} => pc[c] = pc'[c]
    BY <1>21, AfterFailEffect, ThreadAssumption DEF FailDrain, Goto
  <2>4. \A c \in Calls : pc'[c] \in {"idle", "register"} => chan'[c] = <<>>
    BY <1>21, <2>3, DrainChannels DEF FailDrain, Identity
  <2>5. pc'[Reader] = "deliver" => pc[Reader] = "deliver"
    BY <1>21, AfterFailEffect, ThreadAssumption DEF FailDrain, Goto
  <2>6. pc'[Reader] = "deliver" => pc'[dest] \notin {"idle", "register"}
    BY <2>3, <2>5
  <2> QED
    BY <2>1, <2>2, <2>4, <2>5, <2>6
<1>22. CASE RouteFound
  BY <1>22, ThreadAssumption DEF RouteFound, ReadFrame, Remove, Identity, AnswerKinds,
       RoutedKinds, Goto, worker, caller, reading, process
<1>23. CASE RouteLate
  BY <1>23, ThreadAssumption DEF RouteLate, ReadFrame, Goto, worker, caller, reading,
       process
<1>24. CASE Deliver
  <2>1. /\ dest \in Calls /\ frame \in Events /\ chan[dest] \in Seq(Events)
        /\ chan'[dest] = Append(chan[dest], frame)
        /\ \A d \in Calls \ {dest} : chan'[d] = chan[d]
    BY <1>24 DEF Deliver
  <2>2. /\ Len(chan'[dest]) = Len(chan[dest]) + 1 /\ Len(chan[dest]) \in Nat
        /\ \A i \in 1..Len(chan[dest]) : chan'[dest][i] = chan[dest][i]
        /\ chan'[dest][Len(chan[dest]) + 1] = frame
    BY <2>1, AppendParts
  <2>3. frame.kind # "Failure" /\ frame.id = rid[dest] /\ pc[dest] \notin {"idle", "register"}
    BY <1>24 DEF Deliver, RoutedKinds, AnswerKinds
  <2> QED
    BY <1>24, <2>1, <2>2, <2>3, ThreadAssumption DEF Deliver, Goto, worker, process
<1>25. CASE ReadShutdown
  BY <1>25, ThreadAssumption DEF ReadShutdown, ReadFrame, Goto, worker, caller, reading,
       process
<1>26. CASE ReadError
  BY <1>26, ThreadAssumption DEF ReadError, ReadFrame, Goto, worker, caller, reading,
       process
<1>27. CASE ReadEof
  BY <1>27, ThreadAssumption DEF ReadEof, Goto, worker, caller, reading, process
<1>28. ASSUME NEW s \in Stoppers, StopBegin(s) PROVE Mailboxes'
  BY <1>28, ThreadAssumption DEF StopBegin, Goto, worker, caller, reading, process
<1>29. ASSUME NEW s \in Stoppers, StopLate(s) PROVE Mailboxes'
  BY <1>29, ThreadAssumption DEF StopLate, Goto, worker, caller, reading, process
<1>30. ASSUME NEW s \in Stoppers, StopClose(s) PROVE Mailboxes'
  BY <1>30, ThreadAssumption DEF StopClose, Goto, worker, caller, reading, process
<1>31. ASSUME NEW s \in Stoppers, StopLock(s) PROVE Mailboxes'
  BY <1>31, ThreadAssumption DEF StopLock, Goto, worker, caller, reading, process
<1>32. ASSUME NEW s \in Stoppers, StopBye(s) PROVE Mailboxes'
  BY <1>32, ThreadAssumption DEF StopBye, Goto, worker, caller, reading, process
<1>33. ASSUME NEW s \in Stoppers, StopFinish(s) PROVE Mailboxes'
  BY <1>33, ThreadAssumption DEF StopFinish, Goto, worker, caller, reading, process
<1>34. ASSUME NEW s \in Stoppers, StopTake(s) PROVE Mailboxes'
  BY <1>34, ThreadAssumption DEF StopTake, Goto, worker, caller, reading, process
<1>35. ASSUME NEW s \in Stoppers, StopReap(s) PROVE Mailboxes'
  BY <1>35, ThreadAssumption DEF StopReap, Goto, worker, caller, reading, process
<1>36. ASSUME NEW s \in Stoppers, StopMark(s) PROVE Mailboxes'
  BY <1>36, ThreadAssumption DEF StopMark, Goto, worker, caller, reading, process
<1>37. ASSUME NEW s \in Stoppers, StopSweep(s) PROVE Mailboxes'
  <2>1. state # "running" /\ state' = state /\ rid' = rid /\ frame' = frame /\ dest' = dest
    BY <1>37 DEF Phases, StopSweep, Failers, reading
  <2>2. \A c \in Calls : \A i \in 1..Len(chan'[c]) :
           chan'[c][i].kind # "Failure" => chan'[c][i].id = rid[c]
    <3> SUFFICES ASSUME NEW c \in Calls, NEW i \in 1..Len(chan'[c]), chan'[c][i].kind # "Failure"
                 PROVE  chan'[c][i].id = rid[c]
      OBVIOUS
    <3>1. i \in 1..Len(chan[c]) /\ chan'[c][i] = chan[c][i]
      <4>1. \/ i \in 1..Len(chan[c]) /\ chan'[c][i] = chan[c][i]
            \/ chan'[c][i] = Event("Failure", 0)
        BY <1>37, DrainChannels DEF StopSweep
      <4> QED
        BY <4>1 DEF Event
    <3> QED
      BY <3>1
  <2>3. \A c \in Calls : pc'[c] \in {"idle", "register"} => pc[c] = pc'[c]
    BY <1>37, ThreadAssumption DEF StopSweep, Goto
  <2>4. \A c \in Calls : pc'[c] \in {"idle", "register"} => chan'[c] = <<>>
    BY <1>37, <2>3, DrainChannels DEF StopSweep, Identity
  <2>5. pc'[Reader] = "deliver" => pc[Reader] = "deliver"
    BY <1>37, ThreadAssumption DEF StopSweep, Goto
  <2>6. pc'[Reader] = "deliver" => pc'[dest] \notin {"idle", "register"}
    BY <2>3, <2>5
  <2> QED
    BY <2>1, <2>2, <2>4, <2>5, <2>6
<1>38. ASSUME NEW s \in Stoppers, StopJoin(s) PROVE Mailboxes'
  BY <1>38, ThreadAssumption DEF StopJoin, Goto, worker, caller, reading, process
<1>39. ASSUME NEW s \in Stoppers, StopJoined(s) PROVE Mailboxes'
  BY <1>39, ThreadAssumption DEF StopJoined, Goto, worker, caller, reading, process
<1>40. CASE ChildRead
  BY <1>40, ThreadAssumption DEF ChildRead, Goto, worker, caller, reading, process
<1>41. CASE ChildEmit
  BY <1>41, ThreadAssumption DEF ChildEmit, Goto, worker, caller, reading, process
<1>42. CASE ChildDetach
  BY <1>42, ThreadAssumption DEF ChildDetach, Goto, worker, caller, reading, process
<1>43. CASE ChildExit
  BY <1>43, ThreadAssumption DEF ChildExit, Goto, worker, caller, reading, process
<1>44. CASE UNCHANGED vars
  BY <1>44, ThreadAssumption DEF vars, worker, caller, reading, process
<1> QED
  BY <1>1, <1>2, <1>3, <1>4, <1>5, <1>6, <1>7, <1>8, <1>9, <1>10, <1>11, <1>12, <1>13,
       <1>14, <1>15, <1>16, <1>17, <1>18, <1>19, <1>20, <1>21, <1>22, <1>23, <1>24,
       <1>25, <1>26, <1>27, <1>28, <1>29, <1>30, <1>31, <1>32, <1>33, <1>34, <1>35,
       <1>36, <1>37, <1>38, <1>39, <1>40, <1>41, <1>42, <1>43, <1>44
  DEF Next, CallStep, SendStep, FailStep, RequestStep, ReaderStep, StopStep, ChildStep,
       Finished, Failers

\* What a call is about to return fits the state of the worker.
LEMMA OutcomesStep ==
    ASSUME PcTypeOK, CallTypeOK, StreamTypeOK, Phases, Identity, Mailboxes, Outcomes, [Next]_vars
    PROVE  Outcomes'
<1> USE DEF PcTypeOK, CallTypeOK, StreamTypeOK, Outcomes, Threads, Failers, AnswerKinds,
    ErrorKinds
<1>1. ASSUME NEW c \in Calls, CallRefused(c) PROVE Outcomes'
  BY <1>1, ThreadAssumption DEF CallRefused, Phases, Event, Goto, worker, caller,
       reading, process
<1>2. ASSUME NEW c \in Calls, CallStart(c) PROVE Outcomes'
  BY <1>2, ThreadAssumption DEF CallStart, Goto, worker, caller, reading, process
<1>3. ASSUME NEW c \in Calls, Send(c) PROVE Outcomes'
  BY <1>3, ThreadAssumption DEF Send, Goto, worker, caller, reading, process
<1>4. ASSUME NEW c \in Calls, SendRefused(c) PROVE Outcomes'
  BY ZenonT(30), <1>4, ThreadAssumption, AfterSendType, AfterSendCases
  DEF SendRefused, SendError, SentFrame, Phases, Event, Goto, worker, caller, reading,
       process
<1>5. ASSUME NEW c \in Calls, SendClosed(c) PROVE Outcomes'
  BY ZenonT(30), <1>5, ThreadAssumption, AfterSendType, AfterSendCases
  DEF SendClosed, SendError, SentFrame, Phases, Event, Goto, worker, caller, reading,
       process
<1>6. ASSUME NEW c \in Calls, SendTooLarge(c) PROVE Outcomes'
  BY <1>6, ThreadAssumption DEF SendTooLarge, Goto, worker, caller, reading, process
<1>7. ASSUME NEW c \in Calls, SendLock(c) PROVE Outcomes'
  BY <1>7, ThreadAssumption DEF SendLock, Goto, worker, caller, reading, process
<1>8. ASSUME NEW c \in Calls, Write(c) PROVE Outcomes'
  BY ZenonT(30), <1>8, ThreadAssumption, AfterSendType, AfterSendCases
  DEF Write, SentFrame, Goto, worker, caller, reading, process
<1>9. ASSUME NEW c \in Calls, WriteFails(c) PROVE Outcomes'
  BY <1>9, ThreadAssumption DEF WriteFails, Goto, worker, caller, reading, process
<1>10. ASSUME NEW c \in Calls, Register(c) PROVE Outcomes'
  BY <1>10, ThreadAssumption DEF Register, Insert, Goto, worker, caller, reading,
       process
<1>11. ASSUME NEW c \in Calls, Unregister(c) PROVE Outcomes'
  BY <1>11, ThreadAssumption DEF Unregister, Remove, Goto, worker, caller, reading,
       process
<1>12. ASSUME NEW c \in Calls, ReceiveAnswer(c) PROVE Outcomes'
  <2>1. /\ 1 \in 1..Len(chan[c]) /\ Head(chan[c]) = chan[c][1] /\ pc[c] = "wait"
        /\ Head(chan[c]).kind \in AnswerKinds \cup {"Failure"}
    BY <1>12, SeqParts DEF ReceiveAnswer, Receives
  <2>2. /\ Head(chan[c]).kind = "Failure" => state # "running"
        /\ Head(chan[c]).kind # "Failure" => Head(chan[c]).id = rid[c] /\ rid[c] # 0
    BY <2>1 DEF Mailboxes, Identity
  <2>3. /\ rid' = rid /\ out' = out /\ state' = state
        /\ \A d \in Calls \ {c} : pc'[d] = pc[d] /\ result'[d] = result[d]
        /\ pc'[c] = "done" /\ result'[c] = Head(chan[c])
    BY <1>12 DEF ReceiveAnswer, Goto, worker
  <2>4. /\ result'[c].kind \in AnswerKinds \cup {"Cancel"} => result'[c].id = rid[c] /\ rid[c] # 0
        /\ result'[c].kind \in ErrorKinds => state # "running"
        /\ out[c] # "Reject"
    BY <2>1, <2>2, <2>3
  <2> QED
    BY <2>3, <2>4
<1>13. ASSUME NEW c \in Calls, ReceiveCancel(c) PROVE Outcomes'
  <2>1. /\ 1 \in 1..Len(chan[c]) /\ Head(chan[c]) = chan[c][1] /\ pc[c] = "wait"
        /\ Head(chan[c]).kind \in {"Cancel"}
    BY <1>13, SeqParts DEF ReceiveCancel, Receives
  <2>2. /\ Head(chan[c]).kind = "Failure" => state # "running"
        /\ Head(chan[c]).kind # "Failure" => Head(chan[c]).id = rid[c] /\ rid[c] # 0
    BY <2>1 DEF Mailboxes, Identity
  <2>3. /\ rid' = rid /\ out' = out /\ state' = state
        /\ \A d \in Calls \ {c} : pc'[d] = pc[d] /\ result'[d] = result[d]
        /\ pc'[c] = "unregister" /\ result'[c] = Head(chan[c])
    BY <1>13 DEF ReceiveCancel, Goto, worker
  <2>4. /\ result'[c].kind \in AnswerKinds \cup {"Cancel"} => result'[c].id = rid[c] /\ rid[c] # 0
        /\ result'[c].kind \in ErrorKinds => state # "running"
        /\ out[c] # "Reject"
    BY <2>1, <2>2, <2>3
  <2> QED
    BY <2>3, <2>4
<1>14. ASSUME NEW c \in Calls, ReceiveNotification(c) PROVE Outcomes'
  BY <1>14, ThreadAssumption DEF ReceiveNotification, Receives, Goto, worker, caller,
       reading, process
<1>15. ASSUME NEW c \in Calls, ReceiveRequest(c) PROVE Outcomes'
  BY <1>15, ThreadAssumption DEF ReceiveRequest, Receives, Phases, Event, Goto, worker,
       caller, reading, process
<1>16. ASSUME NEW c \in Calls, Expire(c) PROVE Outcomes'
  BY <1>16, ThreadAssumption DEF Expire, Remove, Phases, Event, Goto, worker, caller,
       reading, process
<1>17. ASSUME NEW t \in Failers, FailWins(t) PROVE Outcomes'
  BY <1>17, ThreadAssumption DEF FailWins, Goto, worker, caller, reading, process
<1>18. ASSUME NEW t \in Failers, FailLoses(t) PROVE Outcomes'
  <2>1. state # "running" /\ state' = state /\ rid' = rid
    BY <1>18 DEF FailLoses, worker, Phases
  <2>2. CASE t = Reader
    <3>1. \A c \in Calls : pc'[c] = pc[c] /\ out'[c] = out[c] /\ result'[c] = result[c]
      BY <1>18, <2>2, ThreadAssumption DEF FailLoses, AfterFail, Goto
    <3> QED
      BY <2>1, <3>1
  <2>3. CASE t # Reader
    <3>1. /\ t \in Calls /\ pc'[t] \in {"unregister", "done", "fail"}
          /\ \A c \in Calls \ {t} : pc'[c] = pc[c] /\ out'[c] = out[c] /\ result'[c] = result[c]
      BY <1>18, <2>3, AfterFailEffect, ThreadAssumption DEF FailLoses
    <3>2. /\ out'[t] = "Reject" => out[t] = "Reject"
          /\ result'[t] = result[t] \/ (out[t] # "Reject" /\ result'[t].kind = "Protocol")
      <4>1. /\ out'[t] = IF out[t] = "Cancel" THEN "none" ELSE out[t]
            /\ result'[t] = IF out[t] \in {"Request", "Reply"}
                            THEN Event("Protocol", rid[t]) ELSE result[t]
        BY <1>18, <2>3, AfterFailEffect DEF FailLoses
      <4> QED
        BY <4>1 DEF Event
    <3>3. /\ out'[t] = "Reject" => result'[t].kind = "UnexpectedRequest"
          /\ result'[t].kind \in AnswerKinds \cup {"Cancel"} => result'[t].id = rid[t] /\ rid[t] # 0
      BY <3>1, <3>2
    <3> QED
      BY SMTT(30), <2>1, <3>1, <3>3
  <2> QED
    BY <2>2, <2>3
<1>19. ASSUME NEW t \in Failers, FailClose(t) PROVE Outcomes'
  BY <1>19, ThreadAssumption DEF FailClose, Goto, worker, caller, reading, process
<1>20. ASSUME NEW t \in Failers, FailKill(t) PROVE Outcomes'
  BY <1>20, ThreadAssumption DEF FailKill, Goto, worker, caller, reading, process
<1>21. ASSUME NEW t \in Failers, FailDrain(t) PROVE Outcomes'
  <2>1. state # "running" /\ state' = state /\ rid' = rid
    BY <1>21 DEF FailDrain, worker, Phases
  <2>2. CASE t = Reader
    <3>1. \A c \in Calls : pc'[c] = pc[c] /\ out'[c] = out[c] /\ result'[c] = result[c]
      BY <1>21, <2>2, ThreadAssumption DEF FailDrain, AfterFail, Goto
    <3> QED
      BY <2>1, <3>1
  <2>3. CASE t # Reader
    <3>1. /\ t \in Calls /\ pc'[t] \in {"unregister", "done", "fail"}
          /\ \A c \in Calls \ {t} : pc'[c] = pc[c] /\ out'[c] = out[c] /\ result'[c] = result[c]
      BY <1>21, <2>3, AfterFailEffect, ThreadAssumption DEF FailDrain
    <3>2. /\ out'[t] = "Reject" => out[t] = "Reject"
          /\ result'[t] = result[t] \/ (out[t] # "Reject" /\ result'[t].kind = "Protocol")
      <4>1. /\ out'[t] = IF out[t] = "Cancel" THEN "none" ELSE out[t]
            /\ result'[t] = IF out[t] \in {"Request", "Reply"}
                            THEN Event("Protocol", rid[t]) ELSE result[t]
        BY <1>21, <2>3, AfterFailEffect DEF FailDrain
      <4> QED
        BY <4>1 DEF Event
    <3>3. /\ out'[t] = "Reject" => result'[t].kind = "UnexpectedRequest"
          /\ result'[t].kind \in AnswerKinds \cup {"Cancel"} => result'[t].id = rid[t] /\ rid[t] # 0
      BY <3>1, <3>2
    <3> QED
      BY SMTT(30), <2>1, <3>1, <3>3
  <2> QED
    BY <2>2, <2>3
<1>22. CASE RouteFound
  BY <1>22, ThreadAssumption DEF RouteFound, ReadFrame, Remove, Goto, worker, caller,
       reading, process
<1>23. CASE RouteLate
  BY <1>23, ThreadAssumption DEF RouteLate, ReadFrame, Goto, worker, caller, reading,
       process
<1>24. CASE Deliver
  BY <1>24, ThreadAssumption DEF Deliver, Goto, worker, caller, reading, process
<1>25. CASE ReadShutdown
  BY <1>25, ThreadAssumption DEF ReadShutdown, ReadFrame, Goto, worker, caller, reading,
       process
<1>26. CASE ReadError
  BY <1>26, ThreadAssumption DEF ReadError, ReadFrame, Goto, worker, caller, reading,
       process
<1>27. CASE ReadEof
  BY <1>27, ThreadAssumption DEF ReadEof, Goto, worker, caller, reading, process
<1>28. ASSUME NEW s \in Stoppers, StopBegin(s) PROVE Outcomes'
  BY <1>28, ThreadAssumption DEF StopBegin, Goto, worker, caller, reading, process
<1>29. ASSUME NEW s \in Stoppers, StopLate(s) PROVE Outcomes'
  BY <1>29, ThreadAssumption DEF StopLate, Goto, worker, caller, reading, process
<1>30. ASSUME NEW s \in Stoppers, StopClose(s) PROVE Outcomes'
  BY <1>30, ThreadAssumption DEF StopClose, Goto, worker, caller, reading, process
<1>31. ASSUME NEW s \in Stoppers, StopLock(s) PROVE Outcomes'
  BY <1>31, ThreadAssumption DEF StopLock, Goto, worker, caller, reading, process
<1>32. ASSUME NEW s \in Stoppers, StopBye(s) PROVE Outcomes'
  BY <1>32, ThreadAssumption DEF StopBye, Goto, worker, caller, reading, process
<1>33. ASSUME NEW s \in Stoppers, StopFinish(s) PROVE Outcomes'
  BY <1>33, ThreadAssumption DEF StopFinish, Goto, worker, caller, reading, process
<1>34. ASSUME NEW s \in Stoppers, StopTake(s) PROVE Outcomes'
  BY <1>34, ThreadAssumption DEF StopTake, Goto, worker, caller, reading, process
<1>35. ASSUME NEW s \in Stoppers, StopReap(s) PROVE Outcomes'
  BY <1>35, ThreadAssumption DEF StopReap, Goto, worker, caller, reading, process
<1>36. ASSUME NEW s \in Stoppers, StopMark(s) PROVE Outcomes'
  BY <1>36, ThreadAssumption DEF StopMark, Goto, worker, caller, reading, process
<1>37. ASSUME NEW s \in Stoppers, StopSweep(s) PROVE Outcomes'
  BY <1>37, ThreadAssumption DEF StopSweep, Drain, Goto, worker, caller, reading,
       process
<1>38. ASSUME NEW s \in Stoppers, StopJoin(s) PROVE Outcomes'
  BY <1>38, ThreadAssumption DEF StopJoin, Goto, worker, caller, reading, process
<1>39. ASSUME NEW s \in Stoppers, StopJoined(s) PROVE Outcomes'
  BY <1>39, ThreadAssumption DEF StopJoined, Goto, worker, caller, reading, process
<1>40. CASE ChildRead
  BY <1>40, ThreadAssumption DEF ChildRead, Goto, worker, caller, reading, process
<1>41. CASE ChildEmit
  BY <1>41, ThreadAssumption DEF ChildEmit, Goto, worker, caller, reading, process
<1>42. CASE ChildDetach
  BY <1>42, ThreadAssumption DEF ChildDetach, Goto, worker, caller, reading, process
<1>43. CASE ChildExit
  BY <1>43, ThreadAssumption DEF ChildExit, Goto, worker, caller, reading, process
<1>44. CASE UNCHANGED vars
  BY <1>44, ThreadAssumption DEF vars, worker, caller, reading, process
<1> QED
  BY <1>1, <1>2, <1>3, <1>4, <1>5, <1>6, <1>7, <1>8, <1>9, <1>10, <1>11, <1>12, <1>13,
       <1>14, <1>15, <1>16, <1>17, <1>18, <1>19, <1>20, <1>21, <1>22, <1>23, <1>24,
       <1>25, <1>26, <1>27, <1>28, <1>29, <1>30, <1>31, <1>32, <1>33, <1>34, <1>35,
       <1>36, <1>37, <1>38, <1>39, <1>40, <1>41, <1>42, <1>43, <1>44
  DEF Next, CallStep, SendStep, FailStep, RequestStep, ReaderStep, StopStep, ChildStep,
       Finished, Failers

\* A step that leaves a channel and the hands of the reader alone does not
\* change whether the call is answered.
LEMMA AnsweredFrame ==
    ASSUME NEW c \in Calls, chan'[c] = chan[c], dest' = dest, frame' = frame,
           (pc'[Reader] = "deliver") <=> (pc[Reader] = "deliver")
    PROVE  Answered(c)' <=> Answered(c)
BY DEF Answered, Terminal

\* A step that changes neither the map nor the answers, and makes nobody wait,
\* keeps every waiting call reachable.
LEMMA ReachableFrame ==
    ASSUME Reachable, pending' = pending, rid' = rid, chan' = chan, dest' = dest, frame' = frame,
           (pc'[Reader] = "deliver") <=> (pc[Reader] = "deliver"),
           \A c \in Calls : Awaiting(c)' => Awaiting(c)
    PROVE  Reachable'
<1>1. \A c \in Calls : Answered(c)' <=> Answered(c)
  BY AnsweredFrame
<1> QED
  BY <1>1 DEF Reachable

\* An entry of the pending map belongs to one call only, because ids are not
\* reused.
LEMMA OwnEntry ==
    ASSUME CallTypeOK, Identity, NEW c \in Calls, NEW d \in Calls, c # d,
           <<rid[d], d>> \in pending
    PROVE  rid[d] # rid[c]
BY DEF CallTypeOK, Identity

\* recv_timeout on one channel: no other call is affected, and a frame that
\* does not end the call does not hide one that does.
LEMMA ConsumeQuiet ==
    ASSUME StreamTypeOK, NEW c \in Calls, chan[c] # <<>>,
           chan' = [chan EXCEPT ![c] = Tail(@)], dest' = dest, frame' = frame,
           (pc'[Reader] = "deliver") <=> (pc[Reader] = "deliver")
    PROVE  /\ \A d \in Calls \ {c} : Answered(d)' <=> Answered(d)
           /\ Answered(c)' => Answered(c)
           /\ Answered(c) /\ ~Terminal(Head(chan[c])) => Answered(c)'
<1>1. \A d \in Calls \ {c} : chan'[d] = chan[d]
  BY DEF StreamTypeOK
<1>2. /\ chan'[c] = Tail(chan[c]) /\ Head(chan[c]) = chan[c][1] /\ Len(chan[c]) \in Nat
      /\ Len(Tail(chan[c])) = Len(chan[c]) - 1
      /\ \A i \in 1..Len(Tail(chan[c])) : i + 1 \in 1..Len(chan[c]) /\ Tail(chan[c])[i] = chan[c][i + 1]
  BY SeqParts DEF StreamTypeOK
<1>3. \A d \in Calls \ {c} : Answered(d)' <=> Answered(d)
  BY <1>1, AnsweredFrame
<1>4. Answered(c)' => Answered(c)
  BY <1>2 DEF Answered, Terminal
<1>5. ASSUME Answered(c), ~Terminal(Head(chan[c])) PROVE Answered(c)'
  <2>1. CASE \E i \in 1..Len(chan[c]) : Terminal(chan[c][i])
    <3>1. PICK i \in 1..Len(chan[c]) : Terminal(chan[c][i])
      BY <2>1
    <3>2. i # 1
      BY <1>2, <1>5, <3>1
    <3>3. i - 1 \in 1..Len(chan'[c]) /\ chan'[c][i - 1] = chan[c][i]
      <4>1. i - 1 \in 1..Len(Tail(chan[c])) /\ (i - 1) + 1 = i
        BY <1>2, <3>1, <3>2
      <4>2. Tail(chan[c])[i - 1] = chan[c][(i - 1) + 1]
        BY <1>2, <4>1
      <4> QED
        BY <1>2, <4>1, <4>2
    <3> QED
      BY <3>1, <3>3 DEF Answered, Terminal
  <2>2. CASE pc[Reader] = "deliver" /\ dest = c /\ Terminal(frame)
    BY <2>2 DEF Answered, Terminal
  <2> QED
    BY <1>5, <2>1, <2>2 DEF Answered
<1> QED
  BY <1>3, <1>4, <1>5

\* Taking the pending map answers every call that was in it, so no waiting
\* call is lost by it.
LEMMA DrainAnswers ==
    ASSUME StreamTypeOK, CallTypeOK, Reachable, Drain, dest' = dest, frame' = frame,
           (pc'[Reader] = "deliver") <=> (pc[Reader] = "deliver"),
           \A c \in Calls : Awaiting(c)' => Awaiting(c)
    PROVE  Reachable'
<1> SUFFICES ASSUME NEW c \in Calls, Awaiting(c) PROVE Answered(c)'
  BY DEF Reachable, Drain
<1>1. CASE Answered(c)
  BY <1>1, DrainChannels DEF Answered, Terminal
<1>2. CASE <<rid[c], c>> \in pending
  <2>1. PICK i \in 1..Len(chan'[c]) : chan'[c][i] = Event("Failure", 0)
    BY <1>2, DrainChannels
  <2> QED
    BY <2>1 DEF Answered, Terminal, Event
<1> QED
  BY <1>1, <1>2 DEF Reachable

\* A call that waits, or is about to, stays reachable: its sender is in the
\* map or its answer is on its way, and never both.
LEMMA ReachableStep ==
    ASSUME PcTypeOK, CallTypeOK, StreamTypeOK, Identity, Mailboxes, Reachable, [Next]_vars
    PROVE  Reachable'
<1> USE DEF PcTypeOK, CallTypeOK, StreamTypeOK, Threads, Failers
<1>1. ASSUME NEW c \in Calls, CallRefused(c) PROVE Reachable'
  BY <1>1, ThreadAssumption, ReachableFrame
  DEF CallRefused, Awaiting, Goto, worker, caller, reading, process
<1>2. ASSUME NEW c \in Calls, CallStart(c) PROVE Reachable'
  <2>1. /\ pending' = pending /\ chan' = chan /\ dest' = dest /\ frame' = frame
        /\ \A d \in Calls \ {c} : rid'[d] = rid[d]
        /\ (pc'[Reader] = "deliver") <=> (pc[Reader] = "deliver")
    BY <1>2, ThreadAssumption DEF CallStart, Goto, reading
  <2>2. /\ \A d \in Calls : Awaiting(d)' => Awaiting(d)
        /\ ~Awaiting(c)'
    BY <1>2, ThreadAssumption DEF CallStart, Awaiting, Goto
  <2>3. \A d \in Calls : Answered(d)' <=> Answered(d)
    BY <2>1, AnsweredFrame
  <2>4. \A p \in pending : p[2] # c
    BY <1>2 DEF CallStart, Identity
  <2> QED
    BY <2>1, <2>2, <2>3, <2>4 DEF Reachable
<1>3. ASSUME NEW c \in Calls, Send(c) PROVE Reachable'
  BY <1>3, ThreadAssumption, ReachableFrame
  DEF Send, Awaiting, Goto, worker, caller, reading, process
<1>4. ASSUME NEW c \in Calls, SendRefused(c) PROVE Reachable'
  BY <1>4, AfterSendType, AfterSendCases, ThreadAssumption, ReachableFrame
  DEF SendRefused, Awaiting, SendError, SentFrame, Goto, worker, caller, reading,
      process
<1>5. ASSUME NEW c \in Calls, SendClosed(c) PROVE Reachable'
  BY <1>5, AfterSendType, AfterSendCases, ThreadAssumption, ReachableFrame
  DEF SendClosed, Awaiting, SendError, SentFrame, Goto, worker, caller, reading, process
<1>6. ASSUME NEW c \in Calls, SendTooLarge(c) PROVE Reachable'
  BY <1>6, ThreadAssumption, ReachableFrame
  DEF SendTooLarge, Awaiting, Goto, worker, caller, reading, process
<1>7. ASSUME NEW c \in Calls, SendLock(c) PROVE Reachable'
  BY <1>7, ThreadAssumption, ReachableFrame
  DEF SendLock, Awaiting, Goto, worker, caller, reading, process
<1>8. ASSUME NEW c \in Calls, Write(c) PROVE Reachable'
  BY <1>8, AfterSendType, AfterSendCases, ThreadAssumption, ReachableFrame
  DEF Write, Awaiting, SentFrame, Goto, worker, caller, reading, process
<1>9. ASSUME NEW c \in Calls, WriteFails(c) PROVE Reachable'
  BY <1>9, ThreadAssumption, ReachableFrame
  DEF WriteFails, Awaiting, Goto, worker, caller, reading, process
<1>10. ASSUME NEW c \in Calls, Register(c) PROVE Reachable'
  <2>1. /\ rid' = rid /\ chan' = chan /\ dest' = dest /\ frame' = frame
        /\ pending' = {p \in pending : p[1] # rid[c]} \cup {<<rid[c], c>>}
        /\ (pc'[Reader] = "deliver") <=> (pc[Reader] = "deliver")
    BY <1>10, ThreadAssumption DEF Register, Insert, Goto, reading
  <2>2. \A d \in Calls \ {c} : Awaiting(d)' => Awaiting(d)
    BY <1>10, ThreadAssumption DEF Register, Awaiting, Goto
  <2>3. \A d \in Calls : Answered(d)' <=> Answered(d)
    BY <2>1, AnsweredFrame
  <2>4. ~Answered(c)
    BY <1>10 DEF Register, Answered, Mailboxes
  <2>5. \A d \in Calls \ {c} : <<rid[d], d>> \in pending <=> <<rid[d], d>> \in pending'
    BY <2>1, OwnEntry
  <2> QED
    BY <2>1, <2>2, <2>3, <2>4, <2>5 DEF Reachable
<1>11. ASSUME NEW c \in Calls, Unregister(c) PROVE Reachable'
  <2>1. /\ pending' = Remove(rid[c]) /\ rid' = rid /\ chan' = chan /\ dest' = dest
        /\ frame' = frame
        /\ (pc'[Reader] = "deliver") <=> (pc[Reader] = "deliver")
    BY <1>11, ThreadAssumption DEF Unregister, Goto, caller, reading
  <2>2. /\ \A d \in Calls \ {c} : Awaiting(d)' => Awaiting(d)
        /\ ~Awaiting(c)'
    BY <1>11, ThreadAssumption DEF Unregister, Awaiting, Goto, caller
  <2>3. \A d \in Calls : Answered(d)' <=> Answered(d)
    BY <2>1, AnsweredFrame
  <2>4. \A d \in Calls \ {c} : <<rid[d], d>> \in pending => <<rid[d], d>> \in pending'
    BY <2>1, OwnEntry DEF Remove
  <2>5. pending' \subseteq pending
    BY <2>1 DEF Remove
  <2> QED
    BY <2>1, <2>2, <2>3, <2>4, <2>5 DEF Reachable
<1>12. ASSUME NEW c \in Calls, ReceiveAnswer(c) PROVE Reachable'
  <2>1. /\ pending' = pending /\ rid' = rid /\ chan[c] # <<>> /\ dest' = dest
        /\ frame' = frame
        /\ chan' = [chan EXCEPT ![c] = Tail(@)] /\ Head(chan[c]).kind \in AnswerKinds \cup {"Failure"}
        /\ (pc'[Reader] = "deliver") <=> (pc[Reader] = "deliver")
    BY <1>12, ThreadAssumption DEF ReceiveAnswer, Receives, Goto, worker, reading
  <2>2. /\ \A d \in Calls : Awaiting(d)' => Awaiting(d)
        /\ ~Awaiting(c)'
    BY <1>12, ThreadAssumption DEF ReceiveAnswer, Receives, Awaiting, Goto
  <2>3. /\ \A d \in Calls \ {c} : Answered(d)' <=> Answered(d)
        /\ Answered(c)' => Answered(c)
        /\ Answered(c) /\ ~Terminal(Head(chan[c])) => Answered(c)'
    BY <2>1, ConsumeQuiet
  <2> QED
    BY <2>1, <2>2, <2>3 DEF Reachable
<1>13. ASSUME NEW c \in Calls, ReceiveCancel(c) PROVE Reachable'
  <2>1. /\ pending' = pending /\ rid' = rid /\ chan[c] # <<>> /\ dest' = dest
        /\ frame' = frame
        /\ chan' = [chan EXCEPT ![c] = Tail(@)] /\ Head(chan[c]).kind \in {"Cancel"}
        /\ (pc'[Reader] = "deliver") <=> (pc[Reader] = "deliver")
    BY <1>13, ThreadAssumption DEF ReceiveCancel, Receives, Goto, worker, reading
  <2>2. /\ \A d \in Calls : Awaiting(d)' => Awaiting(d)
        /\ ~Awaiting(c)'
    BY <1>13, ThreadAssumption DEF ReceiveCancel, Receives, Awaiting, Goto
  <2>3. /\ \A d \in Calls \ {c} : Answered(d)' <=> Answered(d)
        /\ Answered(c)' => Answered(c)
        /\ Answered(c) /\ ~Terminal(Head(chan[c])) => Answered(c)'
    BY <2>1, ConsumeQuiet
  <2> QED
    BY <2>1, <2>2, <2>3 DEF Reachable
<1>14. ASSUME NEW c \in Calls, ReceiveNotification(c) PROVE Reachable'
  <2>1. /\ pending' = pending /\ rid' = rid /\ chan[c] # <<>> /\ dest' = dest
        /\ frame' = frame
        /\ chan' = [chan EXCEPT ![c] = Tail(@)] /\ Head(chan[c]).kind \in {"Notification"}
        /\ (pc'[Reader] = "deliver") <=> (pc[Reader] = "deliver")
    BY <1>14, ThreadAssumption DEF ReceiveNotification, Receives, Goto, worker, reading
  <2>2. /\ \A d \in Calls : Awaiting(d)' => Awaiting(d)
    BY <1>14, ThreadAssumption DEF ReceiveNotification, Receives, Awaiting, Goto
  <2>3. /\ \A d \in Calls \ {c} : Answered(d)' <=> Answered(d)
        /\ Answered(c)' => Answered(c)
        /\ Answered(c) /\ ~Terminal(Head(chan[c])) => Answered(c)'
    BY <2>1, ConsumeQuiet
  <2>4. ~Terminal(Head(chan[c]))
    BY <2>1 DEF Terminal, AnswerKinds
  <2> QED
    BY <2>1, <2>2, <2>3, <2>4 DEF Reachable
<1>15. ASSUME NEW c \in Calls, ReceiveRequest(c) PROVE Reachable'
  <2>1. /\ pending' = pending /\ rid' = rid /\ chan[c] # <<>> /\ dest' = dest
        /\ frame' = frame
        /\ chan' = [chan EXCEPT ![c] = Tail(@)] /\ Head(chan[c]).kind \in {"Request"}
        /\ (pc'[Reader] = "deliver") <=> (pc[Reader] = "deliver")
    BY <1>15, ThreadAssumption DEF ReceiveRequest, Receives, Goto, worker, reading
  <2>2. /\ \A d \in Calls : Awaiting(d)' => Awaiting(d)
    BY <1>15, ThreadAssumption DEF ReceiveRequest, Receives, Awaiting, Goto
  <2>3. /\ \A d \in Calls \ {c} : Answered(d)' <=> Answered(d)
        /\ Answered(c)' => Answered(c)
        /\ Answered(c) /\ ~Terminal(Head(chan[c])) => Answered(c)'
    BY <2>1, ConsumeQuiet
  <2>4. ~Terminal(Head(chan[c]))
    BY <2>1 DEF Terminal, AnswerKinds
  <2> QED
    BY <2>1, <2>2, <2>3, <2>4 DEF Reachable
<1>16. ASSUME NEW c \in Calls, Expire(c) PROVE Reachable'
  <2>1. /\ pending' = Remove(rid[c]) /\ rid' = rid /\ chan' = chan /\ dest' = dest
        /\ frame' = frame
        /\ (pc'[Reader] = "deliver") <=> (pc[Reader] = "deliver")
    BY <1>16, ThreadAssumption DEF Expire, Goto, caller, reading
  <2>2. /\ \A d \in Calls \ {c} : Awaiting(d)' => Awaiting(d)
        /\ ~Awaiting(c)'
    BY <1>16, ThreadAssumption DEF Expire, Awaiting, Goto, caller
  <2>3. \A d \in Calls : Answered(d)' <=> Answered(d)
    BY <2>1, AnsweredFrame
  <2>4. \A d \in Calls \ {c} : <<rid[d], d>> \in pending => <<rid[d], d>> \in pending'
    BY <2>1, OwnEntry DEF Remove
  <2>5. pending' \subseteq pending
    BY <2>1 DEF Remove
  <2> QED
    BY <2>1, <2>2, <2>3, <2>4, <2>5 DEF Reachable
<1>17. ASSUME NEW t \in Failers, FailWins(t) PROVE Reachable'
  BY <1>17, ThreadAssumption, ReachableFrame
  DEF FailWins, Awaiting, Goto, worker, caller, reading, process
<1>18. ASSUME NEW t \in Failers, FailLoses(t) PROVE Reachable'
  BY SMTT(30), <1>18, AfterFailEffect, ThreadAssumption, ReachableFrame
  DEF FailLoses, Awaiting, Goto, worker, caller, reading, process
<1>19. ASSUME NEW t \in Failers, FailClose(t) PROVE Reachable'
  BY <1>19, ThreadAssumption, ReachableFrame
  DEF FailClose, Awaiting, Goto, worker, caller, reading, process
<1>20. ASSUME NEW t \in Failers, FailKill(t) PROVE Reachable'
  BY <1>20, ThreadAssumption, ReachableFrame
  DEF FailKill, Awaiting, Goto, worker, caller, reading, process
<1>21. ASSUME NEW t \in Failers, FailDrain(t) PROVE Reachable'
  <2>1. /\ Drain /\ dest' = dest /\ frame' = frame
        /\ (pc'[Reader] = "deliver") <=> (pc[Reader] = "deliver")
    BY <1>21, AfterFailEffect, ThreadAssumption DEF FailDrain, Goto, reading
  <2>2. \A d \in Calls : Awaiting(d)' => Awaiting(d)
    BY <1>21, AfterFailEffect, ThreadAssumption DEF FailDrain, Awaiting, Goto
  <2> QED
    BY <2>1, <2>2, DrainAnswers
<1>22. CASE RouteFound
  <2> DEFINE e == Head(stdout)
  <2>1. PICK p \in pending : p[1] = e.id /\ dest' = p[2]
    BY <1>22 DEF RouteFound
  <2>2. /\ rid' = rid /\ chan' = chan /\ frame' = e /\ pc[Reader] = "read"
        /\ pc'[Reader] = "deliver"
        /\ e.kind \in RoutedKinds
        /\ pending' = IF e.kind \in AnswerKinds THEN Remove(e.id) ELSE pending
    BY <1>22, ThreadAssumption DEF RouteFound, ReadFrame, Goto, caller
  <2>3. p[2] \in Calls /\ p = <<rid[p[2]], p[2]>> /\ e.id = rid[p[2]]
    BY <2>1 DEF Identity
  <2>4. \A d \in Calls : Awaiting(d)' => Awaiting(d)
    BY <1>22, ThreadAssumption DEF RouteFound, Awaiting, Goto, caller
  <2> HIDE DEF e
  <2>5. /\ \A d \in Calls \ {p[2]} : Answered(d)' <=> Answered(d)
        /\ Answered(p[2])' <=> Answered(p[2]) \/ Terminal(e)
    BY <2>1, <2>2 DEF Answered, Terminal
  <2>6. Terminal(e) <=> e.kind \in AnswerKinds
    BY <2>2 DEF Terminal, RoutedKinds, AnswerKinds
  <2>7. \A d \in Calls \ {p[2]} : <<rid[d], d>> \in pending <=> <<rid[d], d>> \in pending'
    BY <2>2, <2>3, OwnEntry DEF Remove
  <2>8. /\ Terminal(e) => <<rid[p[2]], p[2]>> \notin pending'
        /\ ~Terminal(e) => pending' = pending
    BY <2>2, <2>3, <2>6 DEF Remove
  <2> QED
    BY <2>2, <2>3, <2>4, <2>5, <2>7, <2>8 DEF Reachable
<1>23. CASE RouteLate
  BY <1>23, ThreadAssumption, ReachableFrame
  DEF RouteLate, Awaiting, ReadFrame, Goto, worker, caller, reading, process
<1>24. CASE Deliver
  <2>1. /\ pending' = pending /\ rid' = rid /\ pc[Reader] = "deliver"
        /\ pc'[Reader] = "read"
        /\ dest \in Calls /\ frame \in Events /\ chan[dest] \in Seq(Events)
        /\ chan'[dest] = Append(chan[dest], frame)
        /\ \A d \in Calls \ {dest} : chan'[d] = chan[d]
    BY <1>24 DEF Deliver, Goto, worker
  <2>2. /\ Len(chan'[dest]) = Len(chan[dest]) + 1 /\ Len(chan[dest]) \in Nat
        /\ \A i \in 1..Len(chan[dest]) : chan'[dest][i] = chan[dest][i]
        /\ chan'[dest][Len(chan[dest]) + 1] = frame
    BY <2>1, AppendParts
  <2>3. \A d \in Calls : Awaiting(d)' => Awaiting(d)
    BY <1>24, ThreadAssumption DEF Deliver, Awaiting, Goto
  <2>4. \A d \in Calls \ {dest} : Answered(d)' <=> Answered(d)
    BY <2>1 DEF Answered, Terminal
  <2>5. ASSUME NEW d \in Calls, d = dest PROVE Answered(d)' <=> Answered(d)
    <3>1. Answered(d)' => Answered(d)
      <4>1. SUFFICES ASSUME NEW i \in 1..Len(chan'[d]), Terminal(chan'[d][i]) PROVE Answered(d)
        BY <2>1 DEF Answered, Terminal
      <4>2. CASE i \in 1..Len(chan[d])
        BY <4>1, <4>2, <2>2, <2>5 DEF Answered, Terminal
      <4>3. CASE i = Len(chan[d]) + 1
        BY <4>1, <4>3, <2>1, <2>2, <2>5 DEF Answered, Terminal
      <4> QED
        BY <4>2, <4>3, <2>2, <2>5
    <3>2. ASSUME Answered(d) PROVE Answered(d)'
      <4>1. CASE \E i \in 1..Len(chan[d]) : Terminal(chan[d][i])
        <5>1. PICK i \in 1..Len(chan[d]) : Terminal(chan[d][i])
          BY <4>1
        <5>2. i \in 1..Len(chan'[d]) /\ chan'[d][i] = chan[d][i]
          BY <2>2, <2>5
        <5> QED
          BY <5>1, <5>2 DEF Answered, Terminal
      <4>2. CASE Terminal(frame)
        <5>1. Len(chan[d]) + 1 \in 1..Len(chan'[d]) /\ chan'[d][Len(chan[d]) + 1] = frame
          BY <2>2, <2>5
        <5> QED
          BY <4>2, <5>1 DEF Answered, Terminal
      <4> QED
        BY <3>2, <4>1, <4>2 DEF Answered
    <3> QED
      BY <3>1, <3>2
  <2> QED
    BY <2>1, <2>3, <2>4, <2>5 DEF Reachable
<1>25. CASE ReadShutdown
  BY <1>25, ThreadAssumption, ReachableFrame
  DEF ReadShutdown, Awaiting, ReadFrame, Goto, worker, caller, reading, process
<1>26. CASE ReadError
  BY <1>26, ThreadAssumption, ReachableFrame
  DEF ReadError, Awaiting, ReadFrame, Goto, worker, caller, reading, process
<1>27. CASE ReadEof
  BY <1>27, ThreadAssumption, ReachableFrame
  DEF ReadEof, Awaiting, Goto, worker, caller, reading, process
<1>28. ASSUME NEW s \in Stoppers, StopBegin(s) PROVE Reachable'
  BY <1>28, ThreadAssumption, ReachableFrame
  DEF StopBegin, Awaiting, Goto, worker, caller, reading, process
<1>29. ASSUME NEW s \in Stoppers, StopLate(s) PROVE Reachable'
  BY <1>29, ThreadAssumption, ReachableFrame
  DEF StopLate, Awaiting, Goto, worker, caller, reading, process
<1>30. ASSUME NEW s \in Stoppers, StopClose(s) PROVE Reachable'
  BY <1>30, ThreadAssumption, ReachableFrame
  DEF StopClose, Awaiting, Goto, worker, caller, reading, process
<1>31. ASSUME NEW s \in Stoppers, StopLock(s) PROVE Reachable'
  BY <1>31, ThreadAssumption, ReachableFrame
  DEF StopLock, Awaiting, Goto, worker, caller, reading, process
<1>32. ASSUME NEW s \in Stoppers, StopBye(s) PROVE Reachable'
  BY <1>32, ThreadAssumption, ReachableFrame
  DEF StopBye, Awaiting, Goto, worker, caller, reading, process
<1>33. ASSUME NEW s \in Stoppers, StopFinish(s) PROVE Reachable'
  BY <1>33, ThreadAssumption, ReachableFrame
  DEF StopFinish, Awaiting, Goto, worker, caller, reading, process
<1>34. ASSUME NEW s \in Stoppers, StopTake(s) PROVE Reachable'
  BY <1>34, ThreadAssumption, ReachableFrame
  DEF StopTake, Awaiting, Goto, worker, caller, reading, process
<1>35. ASSUME NEW s \in Stoppers, StopReap(s) PROVE Reachable'
  BY <1>35, ThreadAssumption, ReachableFrame
  DEF StopReap, Awaiting, Goto, worker, caller, reading, process
<1>36. ASSUME NEW s \in Stoppers, StopMark(s) PROVE Reachable'
  BY <1>36, ThreadAssumption, ReachableFrame
  DEF StopMark, Awaiting, Goto, worker, caller, reading, process
<1>37. ASSUME NEW s \in Stoppers, StopSweep(s) PROVE Reachable'
  <2>1. /\ Drain /\ dest' = dest /\ frame' = frame
        /\ (pc'[Reader] = "deliver") <=> (pc[Reader] = "deliver")
    BY <1>37, ThreadAssumption DEF StopSweep, Goto, reading
  <2>2. \A d \in Calls : Awaiting(d)' => Awaiting(d)
    BY <1>37, ThreadAssumption DEF StopSweep, Awaiting, Goto
  <2> QED
    BY <2>1, <2>2, DrainAnswers
<1>38. ASSUME NEW s \in Stoppers, StopJoin(s) PROVE Reachable'
  BY <1>38, ThreadAssumption, ReachableFrame
  DEF StopJoin, Awaiting, Goto, worker, caller, reading, process
<1>39. ASSUME NEW s \in Stoppers, StopJoined(s) PROVE Reachable'
  BY <1>39, ThreadAssumption, ReachableFrame
  DEF StopJoined, Awaiting, Goto, worker, caller, reading, process
<1>40. CASE ChildRead
  BY <1>40, ThreadAssumption, ReachableFrame
  DEF ChildRead, Awaiting, Goto, worker, caller, reading, process
<1>41. CASE ChildEmit
  BY <1>41, ThreadAssumption, ReachableFrame
  DEF ChildEmit, Awaiting, Goto, worker, caller, reading, process
<1>42. CASE ChildDetach
  BY <1>42, ThreadAssumption, ReachableFrame
  DEF ChildDetach, Awaiting, Goto, worker, caller, reading, process
<1>43. CASE ChildExit
  BY <1>43, ThreadAssumption, ReachableFrame
  DEF ChildExit, Awaiting, Goto, worker, caller, reading, process
<1>44. CASE UNCHANGED vars
  BY <1>44, ThreadAssumption DEF vars, worker, caller, reading, process, Answered,
       Awaiting, Reachable
<1> QED
  BY <1>1, <1>2, <1>3, <1>4, <1>5, <1>6, <1>7, <1>8, <1>9, <1>10, <1>11, <1>12, <1>13,
       <1>14, <1>15, <1>16, <1>17, <1>18, <1>19, <1>20, <1>21, <1>22, <1>23, <1>24,
       <1>25, <1>26, <1>27, <1>28, <1>29, <1>30, <1>31, <1>32, <1>33, <1>34, <1>35,
       <1>36, <1>37, <1>38, <1>39, <1>40, <1>41, <1>42, <1>43, <1>44
  DEF Next, CallStep, SendStep, FailStep, RequestStep, ReaderStep, StopStep, ChildStep,
       Finished, Failers

\* A step that adds no entry, keeps a coming drain coming and takes no call
\* out of a self-removing position keeps the map drainable.
LEMMA DrainableFrame ==
    ASSUME CallTypeOK, Drainable, pending' \subseteq pending, state' = state, DrainComing => DrainComing',
           \A p \in pending' :
               /\ state # "running" /\ Removes(p[2]) => Removes(p[2])'
               /\ pc'[p[2]] = "done" => pc[p[2]] = "done" \/ state # "running"
    PROVE  Drainable'
BY DEF Drainable, CallTypeOK

\* Once the worker has left the running state, an entry that its call will not
\* remove still has a drain to come.
LEMMA DrainableStep ==
    ASSUME PcTypeOK, CallTypeOK, StreamTypeOK, Phases, Identity, Reachable, Drainable, [Next]_vars
    PROVE  Drainable'
<1> USE DEF PcTypeOK, CallTypeOK, StreamTypeOK, Threads, Failers
<1>1. ASSUME NEW c \in Calls, CallRefused(c) PROVE Drainable'
  BY <1>1, ThreadAssumption, DrainableFrame
  DEF CallRefused, DrainComing, Removes, Identity, Goto, worker, caller, reading,
      process
<1>2. ASSUME NEW c \in Calls, CallStart(c) PROVE Drainable'
  BY <1>2, ThreadAssumption, DrainableFrame
  DEF CallStart, DrainComing, Removes, Identity, Goto, worker, caller, reading, process
<1>3. ASSUME NEW c \in Calls, Send(c) PROVE Drainable'
  BY <1>3, ThreadAssumption, DrainableFrame
  DEF Send, DrainComing, Removes, Identity, Goto, worker, caller, reading, process
<1>4. ASSUME NEW c \in Calls, SendRefused(c) PROVE Drainable'
  <2>9. out[c] = "Request" => AfterSend(c, FALSE) = "unregister"
    BY DEF AfterSend
  <2>1. pending' \subseteq pending
    BY <1>4 DEF SendRefused, worker
  <2>2. state' = state /\ (DrainComing => DrainComing')
    BY <1>4, AfterSendType, AfterSendCases, ThreadAssumption DEF DrainComing,
       SendRefused, SendError, SentFrame, Goto, worker, caller, reading, process
  <2>3. \A p \in pending' :
           /\ state # "running" /\ Removes(p[2]) => Removes(p[2])'
           /\ pc'[p[2]] = "done" => pc[p[2]] = "done" \/ state # "running"
    BY <1>4, <2>1, <2>9, AfterSendType, AfterSendCases, ThreadAssumption DEF
       SendRefused, Removes, SentFrame, Goto, Identity, worker, caller, reading,
       process
  <2> QED
    BY <2>1, <2>2, <2>3, DrainableFrame
<1>5. ASSUME NEW c \in Calls, SendClosed(c) PROVE Drainable'
  <2>0. state # "running"
    BY <1>5 DEF SendClosed, Phases
  <2>9. out[c] = "Request" => AfterSend(c, FALSE) = "unregister"
    BY DEF AfterSend
  <2>1. pending' \subseteq pending
    BY <1>5 DEF SendClosed, worker
  <2>2. state' = state /\ (DrainComing => DrainComing')
    BY <1>5, AfterSendType, AfterSendCases, ThreadAssumption DEF DrainComing,
       SendClosed, SendError, SentFrame, Goto, worker, caller, reading, process
  <2>3. \A p \in pending' :
           /\ state # "running" /\ Removes(p[2]) => Removes(p[2])'
           /\ pc'[p[2]] = "done" => pc[p[2]] = "done" \/ state # "running"
    BY <1>5, <2>1, <2>0, <2>9, AfterSendType, AfterSendCases, ThreadAssumption
    DEF SendClosed, Removes, SentFrame, Goto, Identity, worker, caller, reading, process
  <2> QED
    BY <2>1, <2>2, <2>3, DrainableFrame
<1>6. ASSUME NEW c \in Calls, SendTooLarge(c) PROVE Drainable'
  BY <1>6, ThreadAssumption, DrainableFrame
  DEF SendTooLarge, DrainComing, Removes, Identity, Goto, worker, caller, reading,
      process
<1>7. ASSUME NEW c \in Calls, SendLock(c) PROVE Drainable'
  BY <1>7, ThreadAssumption, DrainableFrame
  DEF SendLock, DrainComing, Removes, Identity, Goto, worker, caller, reading, process
<1>8. ASSUME NEW c \in Calls, Write(c) PROVE Drainable'
  <2>9. AfterSend(c, TRUE) # "done"
    BY DEF AfterSend
  <2>1. pending' \subseteq pending
    BY <1>8 DEF Write, worker
  <2>2. state' = state /\ (DrainComing => DrainComing')
    BY <1>8, AfterSendType, AfterSendCases, ThreadAssumption
    DEF DrainComing, Write, SentFrame, Goto, worker, caller, reading, process
  <2>3. \A p \in pending' :
           /\ state # "running" /\ Removes(p[2]) => Removes(p[2])'
           /\ pc'[p[2]] = "done" => pc[p[2]] = "done" \/ state # "running"
    BY <1>8, <2>1, <2>9, AfterSendType, AfterSendCases, ThreadAssumption
    DEF Write, Removes, SentFrame, Goto, Identity, worker, caller, reading, process
  <2> QED
    BY <2>1, <2>2, <2>3, DrainableFrame
<1>9. ASSUME NEW c \in Calls, WriteFails(c) PROVE Drainable'
  BY <1>9, ThreadAssumption, DrainableFrame
  DEF WriteFails, DrainComing, Removes, Identity, Goto, worker, caller, reading, process
<1>10. ASSUME NEW c \in Calls, Register(c) PROVE Drainable'
  <2>1. /\ pending' = {p \in pending : p[1] # rid[c]} \cup {<<rid[c], c>>}
        /\ state' = state
        /\ \A t \in Threads \ {c} : pc'[t] = pc[t]
        /\ \A d \in Calls \ {c} : out'[d] = out[d]
        /\ pc[c] = "register" /\ pc'[c] = "send" /\ out'[c] = "Request"
    BY <1>10 DEF Register, Insert, Goto
  <2>2. DrainComing => DrainComing'
    BY <2>1, ThreadAssumption DEF DrainComing
  <2>3. \A p \in pending : p[2] # c
    BY <2>1 DEF Identity
  <2>4. \A p \in pending : (Removes(p[2]) => Removes(p[2])') /\ pc'[p[2]] = pc[p[2]]
    BY <2>1, <2>3 DEF Removes
  <2>5. Removes(c)' /\ pc'[c] # "done"
    BY <2>1 DEF Removes
  <2> QED
    BY <2>1, <2>2, <2>4, <2>5 DEF Drainable
<1>11. ASSUME NEW c \in Calls, Unregister(c) PROVE Drainable'
  <2>0. pending' = {p \in pending : p[1] # rid[c]}
    BY <1>11 DEF Unregister, Remove
  <2>9. \A p \in pending' : p[2] # c
    BY <2>0 DEF Identity
  <2>1. pending' \subseteq pending
    BY <2>0
  <2>2. state' = state /\ (DrainComing => DrainComing')
    BY <1>11, ThreadAssumption
    DEF DrainComing, Unregister, Goto, worker, caller, reading, process
  <2>3. \A p \in pending' :
           /\ state # "running" /\ Removes(p[2]) => Removes(p[2])'
           /\ pc'[p[2]] = "done" => pc[p[2]] = "done" \/ state # "running"
    BY <1>11, <2>1, <2>9, ThreadAssumption
    DEF Unregister, Removes, Goto, Identity, worker, caller, reading, process
  <2> QED
    BY <2>1, <2>2, <2>3, DrainableFrame
<1>12. ASSUME NEW c \in Calls, ReceiveAnswer(c) PROVE Drainable'
  <2>0. Answered(c)
    BY <1>12, SeqParts DEF ReceiveAnswer, Receives, Answered, Terminal
  <2>9. \A p \in pending : p[2] # c
    BY <2>0 DEF Reachable, Identity
  <2>1. pending' \subseteq pending
    BY <1>12 DEF ReceiveAnswer, worker
  <2>2. state' = state /\ (DrainComing => DrainComing')
    BY <1>12, ThreadAssumption
    DEF DrainComing, ReceiveAnswer, Receives, Goto, worker, caller, reading, process
  <2>3. \A p \in pending' :
           /\ state # "running" /\ Removes(p[2]) => Removes(p[2])'
           /\ pc'[p[2]] = "done" => pc[p[2]] = "done" \/ state # "running"
    BY <1>12, <2>1, <2>9, ThreadAssumption
    DEF ReceiveAnswer, Removes, Goto, Identity, worker, caller, reading, process
  <2> QED
    BY <2>1, <2>2, <2>3, DrainableFrame
<1>13. ASSUME NEW c \in Calls, ReceiveCancel(c) PROVE Drainable'
  BY <1>13, ThreadAssumption, DrainableFrame
  DEF ReceiveCancel, DrainComing, Removes, Identity, Receives, Goto, worker, caller,
      reading, process
<1>14. ASSUME NEW c \in Calls, ReceiveNotification(c) PROVE Drainable'
  BY <1>14, ThreadAssumption, DrainableFrame
  DEF ReceiveNotification, DrainComing, Removes, Identity, Receives, Goto, worker,
      caller, reading, process
<1>15. ASSUME NEW c \in Calls, ReceiveRequest(c) PROVE Drainable'
  BY <1>15, ThreadAssumption, DrainableFrame
  DEF ReceiveRequest, DrainComing, Removes, Identity, Receives, Goto, worker, caller,
      reading, process
<1>16. ASSUME NEW c \in Calls, Expire(c) PROVE Drainable'
  <2>0. pending' = {p \in pending : p[1] # rid[c]}
    BY <1>16 DEF Expire, Remove
  <2>9. \A p \in pending' : p[2] # c
    BY <2>0 DEF Identity
  <2>1. pending' \subseteq pending
    BY <2>0
  <2>2. state' = state /\ (DrainComing => DrainComing')
    BY <1>16, ThreadAssumption
    DEF DrainComing, Expire, Goto, worker, caller, reading, process
  <2>3. \A p \in pending' :
           /\ state # "running" /\ Removes(p[2]) => Removes(p[2])'
           /\ pc'[p[2]] = "done" => pc[p[2]] = "done" \/ state # "running"
    BY <1>16, <2>1, <2>9, ThreadAssumption
    DEF Expire, Removes, Goto, Identity, worker, caller, reading, process
  <2> QED
    BY <2>1, <2>2, <2>3, DrainableFrame
<1>17. ASSUME NEW t \in Failers, FailWins(t) PROVE Drainable'
  <2>1. pending' = pending /\ state' # "running" /\ DrainComing'
    BY <1>17, ThreadAssumption DEF FailWins, Goto, DrainComing
  <2> QED
    BY <2>1 DEF Drainable
<1>18. ASSUME NEW t \in Failers, FailLoses(t) PROVE Drainable'
  <2>1. /\ pending' = pending /\ state' = state /\ state # "running" /\ pc[t] = "fail"
    BY <1>18 DEF FailLoses, worker
  <2>2. /\ \A u \in Threads \ {t} : pc'[u] = pc[u]
        /\ \A d \in Calls \ {t} : out'[d] = out[d]
    BY <1>18, AfterFailEffect, ThreadAssumption DEF FailLoses
  <2>3. DrainComing => DrainComing'
    BY <2>1, <2>2, ThreadAssumption DEF DrainComing
  <2>4. \A d \in Calls : Removes(d) => Removes(d)'
    BY <2>1, <2>2 DEF Removes
  <2> QED
    BY <2>1, <2>3, <2>4, DrainableFrame
<1>19. ASSUME NEW t \in Failers, FailClose(t) PROVE Drainable'
  BY <1>19, ThreadAssumption, DrainableFrame
  DEF FailClose, DrainComing, Removes, Goto, worker, caller, reading, process
<1>20. ASSUME NEW t \in Failers, FailKill(t) PROVE Drainable'
  BY <1>20, ThreadAssumption, DrainableFrame
  DEF FailKill, DrainComing, Removes, Goto, worker, caller, reading, process
<1>21. ASSUME NEW t \in Failers, FailDrain(t) PROVE Drainable'
  <2>1. pending' = {}
    BY <1>21 DEF FailDrain, Drain
  <2> QED
    BY <2>1 DEF Drainable
<1>22. CASE RouteFound
  BY <1>22, ThreadAssumption, DrainableFrame
  DEF RouteFound, DrainComing, Removes, ReadFrame, Remove, Goto, worker, caller,
      reading, process
<1>23. CASE RouteLate
  BY <1>23, ThreadAssumption, DrainableFrame
  DEF RouteLate, DrainComing, Removes, ReadFrame, Goto, worker, caller, reading, process
<1>24. CASE Deliver
  BY <1>24, ThreadAssumption, DrainableFrame
  DEF Deliver, DrainComing, Removes, Goto, worker, caller, reading, process
<1>25. CASE ReadShutdown
  BY <1>25, ThreadAssumption, DrainableFrame
  DEF ReadShutdown, DrainComing, Removes, ReadFrame, Goto, worker, caller, reading,
      process
<1>26. CASE ReadError
  BY <1>26, ThreadAssumption, DrainableFrame
  DEF ReadError, DrainComing, Removes, ReadFrame, Goto, worker, caller, reading, process
<1>27. CASE ReadEof
  BY <1>27, ThreadAssumption, DrainableFrame
  DEF ReadEof, DrainComing, Removes, Goto, worker, caller, reading, process
<1>28. ASSUME NEW s \in Stoppers, StopBegin(s) PROVE Drainable'
  <2>1. pending' = pending /\ state' # "running" /\ DrainComing'
    BY <1>28, ThreadAssumption DEF StopBegin, Goto, DrainComing
  <2> QED
    BY <2>1 DEF Drainable
<1>29. ASSUME NEW s \in Stoppers, StopLate(s) PROVE Drainable'
  BY <1>29, ThreadAssumption, DrainableFrame
  DEF StopLate, DrainComing, Removes, Goto, worker, caller, reading, process
<1>30. ASSUME NEW s \in Stoppers, StopClose(s) PROVE Drainable'
  BY <1>30, ThreadAssumption, DrainableFrame
  DEF StopClose, DrainComing, Removes, Goto, worker, caller, reading, process
<1>31. ASSUME NEW s \in Stoppers, StopLock(s) PROVE Drainable'
  BY <1>31, ThreadAssumption, DrainableFrame
  DEF StopLock, DrainComing, Removes, Goto, worker, caller, reading, process
<1>32. ASSUME NEW s \in Stoppers, StopBye(s) PROVE Drainable'
  BY <1>32, ThreadAssumption, DrainableFrame
  DEF StopBye, DrainComing, Removes, Goto, worker, caller, reading, process
<1>33. ASSUME NEW s \in Stoppers, StopFinish(s) PROVE Drainable'
  BY <1>33, ThreadAssumption, DrainableFrame
  DEF StopFinish, DrainComing, Removes, Goto, worker, caller, reading, process
<1>34. ASSUME NEW s \in Stoppers, StopTake(s) PROVE Drainable'
  BY <1>34, ThreadAssumption, DrainableFrame
  DEF StopTake, DrainComing, Removes, Goto, worker, caller, reading, process
<1>35. ASSUME NEW s \in Stoppers, StopReap(s) PROVE Drainable'
  BY <1>35, ThreadAssumption, DrainableFrame
  DEF StopReap, DrainComing, Removes, Goto, worker, caller, reading, process
<1>36. ASSUME NEW s \in Stoppers, StopMark(s) PROVE Drainable'
  <2>1. pending' = pending /\ state' # "running" /\ DrainComing'
    BY <1>36, ThreadAssumption DEF StopMark, Goto, DrainComing
  <2> QED
    BY <2>1 DEF Drainable
<1>37. ASSUME NEW s \in Stoppers, StopSweep(s) PROVE Drainable'
  <2>1. pending' = {}
    BY <1>37 DEF StopSweep, Drain
  <2> QED
    BY <2>1 DEF Drainable
<1>38. ASSUME NEW s \in Stoppers, StopJoin(s) PROVE Drainable'
  BY <1>38, ThreadAssumption, DrainableFrame
  DEF StopJoin, DrainComing, Removes, Goto, worker, caller, reading, process
<1>39. ASSUME NEW s \in Stoppers, StopJoined(s) PROVE Drainable'
  BY <1>39, ThreadAssumption, DrainableFrame
  DEF StopJoined, DrainComing, Removes, Goto, worker, caller, reading, process
<1>40. CASE ChildRead
  BY <1>40, ThreadAssumption, DrainableFrame
  DEF ChildRead, DrainComing, Removes, Goto, worker, caller, reading, process
<1>41. CASE ChildEmit
  BY <1>41, ThreadAssumption, DrainableFrame
  DEF ChildEmit, DrainComing, Removes, Goto, worker, caller, reading, process
<1>42. CASE ChildDetach
  BY <1>42, ThreadAssumption, DrainableFrame
  DEF ChildDetach, DrainComing, Removes, Goto, worker, caller, reading, process
<1>43. CASE ChildExit
  BY <1>43, ThreadAssumption, DrainableFrame
  DEF ChildExit, DrainComing, Removes, Goto, worker, caller, reading, process
<1>44. CASE UNCHANGED vars
  BY <1>44, ThreadAssumption DEF vars, worker, caller, reading, process, DrainComing,
       Removes, Drainable
<1> QED
  BY <1>1, <1>2, <1>3, <1>4, <1>5, <1>6, <1>7, <1>8, <1>9, <1>10, <1>11, <1>12, <1>13,
       <1>14, <1>15, <1>16, <1>17, <1>18, <1>19, <1>20, <1>21, <1>22, <1>23, <1>24,
       <1>25, <1>26, <1>27, <1>28, <1>29, <1>30, <1>31, <1>32, <1>33, <1>34, <1>35,
       <1>36, <1>37, <1>38, <1>39, <1>40, <1>41, <1>42, <1>43, <1>44
  DEF Next, CallStep, SendStep, FailStep, RequestStep, ReaderStep, StopStep, ChildStep,
       Finished, Failers

-----------------------------------------------------------------------------
(* The theorems.                                                           *)

\* The initial state is well typed.
LEMMA InitType == Init => TypeOK
<1> SUFFICES ASSUME Init PROVE TypeOK
  OBVIOUS
<1>1. NoEvent \in Events
  BY EventType DEF NoEvent, ErrorKinds
<1>2. WorkerTypeOK
  BY ThreadAssumption, BoundAssumption DEF Init, WorkerTypeOK, States, Threads
<1>3. PcTypeOK
  BY ThreadAssumption DEF Init, PcTypeOK, Threads, CallSteps, ReaderSteps, StopSteps
<1>4. CallTypeOK
  BY DEF Init, CallTypeOK
<1>5. StreamTypeOK
  BY <1>1, ThreadAssumption DEF Init, StreamTypeOK, Threads
<1> QED
  BY <1>2, <1>3, <1>4, <1>5 DEF TypeOK

\* Nothing has been sent yet, so nothing can be misrouted or forgotten.
LEMMA InitInv == Init => IndInv
<1> SUFFICES ASSUME Init PROVE IndInv
  OBVIOUS
<1>0. /\ \A c \in Calls : /\ pc[c] = "idle" /\ rid[c] = 0 /\ chan[c] = <<>>
                          /\ out[c] = "none" /\ result[c] = NoEvent
      /\ \A s \in Stoppers : pc[s] = "idle"
      /\ pc[Reader] = "read" /\ state = "running" /\ pending = {} /\ nextId = 1
      /\ writer = "Some"
  BY ThreadAssumption DEF Init, Threads
<1>1. Phases
  BY <1>0 DEF Phases, Failers
<1>2. Identity
  BY <1>0 DEF Identity
<1>3. Mailboxes
  BY <1>0 DEF Mailboxes
<1>4. Outcomes
  <2>1. \A c \in Calls : result[c].kind = "Failure"
    <3>1. NoEvent.kind = "Failure"
      BY DEF NoEvent, Event
    <3> QED
      BY <1>0, <3>1
  <2> QED
    BY <1>0, <2>1 DEF Outcomes, AnswerKinds
<1>5. Reachable
  BY <1>0 DEF Reachable, Awaiting
<1>6. Drainable
  BY <1>0 DEF Drainable
<1> QED
  BY <1>1, <1>2, <1>3, <1>4, <1>5, <1>6 DEF IndInv

\* Type correctness: the state of the worker, of the threads and of the pipes
\* is always what worker.rs declares, and the sender that `route` has looked up
\* is always that of a call.
THEOREM TypeCorrect == Spec => []TypeOK
<1>1. TypeOK /\ [Next]_vars => TypeOK'
  BY WorkerTypeStep, PcTypeStep, CallTypeStep, StreamTypeStep DEF TypeOK
<1> QED
  BY InitType, <1>1, PTL DEF Spec

\* The strengthening is inductive.
THEOREM Inductive == Spec => []IndInv
<1>1. TypeOK /\ IndInv /\ [Next]_vars => IndInv'
  BY PhasesStep, IdentityStep, MailboxesStep, OutcomesStep, ReachableStep, DrainableStep
  DEF TypeOK, IndInv
<1> QED
  BY InitInv, TypeCorrect, <1>1, PTL DEF Spec

\* A thread in the receive loop of request_inner is never forgotten: its answer
\* is on its way, or its sender is in the pending map and the worker runs or
\* somebody is still to empty the map, however fail, finish_shutdown, route and
\* other calls interleave.
THEOREM CallsAreNotOrphaned == Spec => []NoOrphanedCall
<1>1. TypeOK /\ IndInv => NoOrphanedCall
  BY DEF TypeOK, CallTypeOK, IndInv, NoOrphanedCall, Reachable, Drainable, Awaiting, Removes
<1> QED
  BY TypeCorrect, Inductive, <1>1, PTL

\* The pending map does not leak: the entry of a call that has returned is only
\* there while a drain is coming.
THEOREM PendingDoesNotLeak == Spec => []NoStaleEntry
<1>1. TypeOK /\ IndInv => NoStaleEntry
  BY DEF TypeOK, CallTypeOK, IndInv, NoStaleEntry, Drainable, Removes
<1> QED
  BY TypeCorrect, Inductive, <1>1, PTL

\* request_inner returns the answer to its own request, whatever ids the child
\* writes and in whatever order.
THEOREM AnswersAreNotCrossed == Spec => []AnswersOwnRequest
<1>1. IndInv => AnswersOwnRequest
  BY DEF IndInv, AnswersOwnRequest, Outcomes, Identity
<1> QED
  BY Inductive, <1>1, PTL

\* A call that returns a transport error leaves a worker that is no longer
\* running, which is what the pool looks at before it replaces one.
THEOREM TransportErrorsRetire == Spec => []ErrorsRetireWorker
<1>1. IndInv => ErrorsRetireWorker
  BY DEF IndInv, ErrorsRetireWorker, Outcomes
<1> QED
  BY Inductive, <1>1, PTL

\* The state of a worker never moves backwards, although fail, begin_shutdown
\* and finish_shutdown write it without a lock.
THEOREM StateIsMonotone == Spec => StateMovesForward
<1>1. TypeOK /\ IndInv /\ [Next]_vars => [Rank(state) < Rank(state')]_state
  <2> SUFFICES ASSUME TypeOK, IndInv, [Next]_vars, state' # state
               PROVE  Rank(state) < Rank(state')
    OBVIOUS
  <2> USE DEF Rank
  <2>1. ASSUME NEW t \in Failers, FailWins(t) PROVE Rank(state) < Rank(state')
    BY <2>1 DEF FailWins
  <2>2. ASSUME NEW s \in Stoppers, StopBegin(s) PROVE Rank(state) < Rank(state')
    BY <2>2 DEF StopBegin
  <2>3. ASSUME NEW s \in Stoppers, StopMark(s) PROVE Rank(state) < Rank(state')
    <3>1. state = "stopping"
      BY <2>3 DEF StopMark, IndInv, Phases
    <3> QED
      BY <2>3, <3>1 DEF StopMark
  <2>4. ASSUME NEW c \in Calls,
               \/ CallRefused(c) \/ CallStart(c) \/ Send(c) \/ SendRefused(c)
               \/ SendClosed(c) \/ SendTooLarge(c) \/ SendLock(c) \/ Write(c)
               \/ WriteFails(c) \/ Register(c) \/ Unregister(c)
               \/ ReceiveAnswer(c) \/ ReceiveCancel(c) \/ ReceiveNotification(c)
               \/ ReceiveRequest(c) \/ Expire(c)
        PROVE  state' = state
    BY <2>4 DEF worker, CallRefused, CallStart, Send, SendRefused, SendClosed,
       SendTooLarge, SendLock, Write, WriteFails, Register, Unregister,
       ReceiveAnswer, ReceiveCancel, ReceiveNotification, ReceiveRequest, Expire
  <2>5. ASSUME NEW t \in Failers,
               \/ FailLoses(t) \/ FailClose(t) \/ FailKill(t) \/ FailDrain(t)
        PROVE  state' = state
    BY <2>5 DEF worker, FailLoses, FailClose, FailKill, FailDrain
  <2>6. ASSUME NEW s \in Stoppers,
               \/ StopLate(s) \/ StopClose(s) \/ StopLock(s) \/ StopBye(s)
               \/ StopFinish(s) \/ StopTake(s) \/ StopReap(s) \/ StopSweep(s)
               \/ StopJoin(s) \/ StopJoined(s)
        PROVE  state' = state
    BY <2>6 DEF worker, StopLate, StopClose, StopLock, StopBye, StopFinish,
       StopTake, StopReap, StopSweep, StopJoin, StopJoined
  <2>7. ASSUME \/ RouteFound \/ RouteLate \/ Deliver \/ ReadShutdown \/ ReadError
               \/ ReadEof \/ ChildRead \/ ChildEmit \/ ChildDetach \/ ChildExit
               \/ UNCHANGED vars
        PROVE  state' = state
    BY <2>7 DEF vars, worker, RouteFound, RouteLate, Deliver, ReadShutdown,
       ReadError, ReadEof, ChildRead, ChildEmit, ChildDetach, ChildExit
  <2> QED
    BY <2>1, <2>2, <2>3, <2>4, <2>5, <2>6, <2>7
    DEF Next, CallStep, SendStep, FailStep, RequestStep, ReaderStep, StopStep, ChildStep,
        Finished, Failers
<1> QED
  BY TypeCorrect, Inductive, <1>1, PTL DEF Spec, StateMovesForward

-----------------------------------------------------------------------------
(***************************************************************************)
(* How a call and a worker end: OneOutcome and NothingLeftRunning, from    *)
(* the invariant above and two strengthenings of their own.                *)
(*                                                                         *)
(* A call is sent one event that ends it, because the entry of the pending *)
(* map is what entitles a thread to send one: the reader and the drains    *)
(* take the entry and send the event, and while the entry is there nothing *)
(* that ends the call is on its way (Reachable) or has been taken          *)
(* (Untaken).  Settled says that every other way to return leaves a result *)
(* of request_inner's own making.                                          *)
(*                                                                         *)
(* After a shutdown nothing is left because each resource is either gone   *)
(* or in the hands of a stopper that has still to take one named step.     *)
(***************************************************************************)

-----------------------------------------------------------------------------
(* The strengthenings.                                                     *)

\* The reader has looked up the sender of c and holds a frame that ends c.
InHand(c) == pc[Reader] = "deliver" /\ dest = c /\ Terminal(frame)

\* c has returned an answer or the failure of its worker.
Taken(c) == pc[c] = "done" /\ Terminal(result[c])

\* A call that returns without an event from its channel returns an error of
\* its own: after a failed send, a rejected nested request, the deadline.
Settled ==
    \A c \in Calls :
        /\ pc[c] = "unregister" => ~Terminal(result[c])
        /\ out[c] \in {"none", "Cancel"} /\ pc[c] \notin {"idle", "register"}
               => ~Terminal(result[c])

\* A call with an entry in the pending map has taken nothing that ends it.
Untaken == \A p \in pending : ~Taken(p[2])

\* OneOutcome of one call, without sets of positions.
One(c) ==
    /\ \A i, j \in 1..Len(chan[c]) :
           Terminal(chan[c][i]) /\ Terminal(chan[c][j]) => i = j
    /\ \A i \in 1..Len(chan[c]) : Terminal(chan[c][i]) => ~InHand(c) /\ ~Taken(c)
    /\ InHand(c) => ~Taken(c)

\* The state is final, and the child's handle taken, before a stopper joins.
AtStop ==
    /\ \A s \in Stoppers : pc[s] \in {"sweep", "join", "joining", "done"} => state = "stopped"
    /\ \A s \in Stoppers : pc[s] \in {"reap", "mark"} => handle = "None"
    /\ state = "stopped" => handle = "None"

\* What has been taken from the worker is gone, or a stopper is about to end it.
Retired ==
    /\ handle = "None" => child = "dead" \/ \E s \in Stoppers : pc[s] = "reap"
    /\ joinable = "None" => pc[Reader] = "done" \/ \E s \in Stoppers : pc[s] = "joining"
    /\ \A s \in Stoppers : pc[s] \in {"joining", "done"} => joinable = "None"
    /\ state \in {"stopping", "stopped"}
           => writer = "None" \/ \E s \in Stoppers : pc[s] = "closing"

-----------------------------------------------------------------------------
(* One outcome.                                                            *)

\* Errors of request_inner's own making end no call.
LEMMA OwnErrors ==
    /\ ~Terminal(Event("Disconnected", 0))
    /\ \A i : /\ ~Terminal(Event("Disconnected", i)) /\ ~Terminal(Event("Protocol", i))
              /\ ~Terminal(Event("Timeout", i)) /\ ~Terminal(Event("UnexpectedRequest", i))
    /\ \A e : e.kind \in {"Cancel", "Notification", "Request", "UnexpectedRequest"} => ~Terminal(e)
    /\ \A e : e.kind \in AnswerKinds \cup {"Failure"} <=> Terminal(e)
BY DEF Terminal, Event, AnswerKinds

\* The error of a nested request without a handler ends no call either.
LEMMA RejectEndsNothing ==
    ASSUME Outcomes, NEW c \in Calls, out[c] = "Reject"
    PROVE  ~Terminal(result[c])
<1>1. result[c].kind = "UnexpectedRequest"
  BY DEF Outcomes
<1> QED
  BY <1>1, OwnErrors

\* The error that a failed send, or a failed worker, leaves to a call ends no
\* call: a nested rejection and a deadline keep the error they have set.
LEMMA FailedSend ==
    ASSUME CallTypeOK, Outcomes, Settled, NEW c \in Calls, pc[c] \notin {"idle", "register"},
           NEW k \in {"Disconnected", "Protocol"},
           result'[c] = IF out[c] \in {"Request", "Reply"} THEN Event(k, rid[c]) ELSE result[c]
    PROVE  ~Terminal(result'[c])
<1>1. out[c] \in {"Request", "Reply", "Reject", "Cancel", "none"}
  BY DEF CallTypeOK, SendKinds
<1>2. CASE out[c] \in {"Request", "Reply"}
  BY <1>2, OwnErrors
<1>3. CASE out[c] = "Reject"
  BY <1>3, RejectEndsNothing
<1>4. CASE out[c] \in {"Cancel", "none"}
  BY <1>4 DEF Settled
<1> QED
  BY <1>1, <1>2, <1>3, <1>4

\* A send that is refused.
LEMMA RefusedEffect ==
    ASSUME PcTypeOK, CallTypeOK, StreamTypeOK, Outcomes, Settled, NEW c \in Calls,
           SendRefused(c) \/ SendClosed(c)
    PROVE  /\ \A d \in Calls \ {c} : pc'[d] = pc[d] /\ out'[d] = out[d] /\ result'[d] = result[d]
           /\ ~Terminal(result'[c])
<1>1. /\ pc' = [pc EXCEPT ![c] = AfterSend(c, FALSE)]
      /\ SendError(c, "Disconnected") /\ SentFrame(c)
      /\ pc[c] \in {"send", "lock"}
  BY DEF SendRefused, SendClosed, Goto
<1>2. \A d \in Calls \ {c} : pc'[d] = pc[d] /\ out'[d] = out[d] /\ result'[d] = result[d]
  BY <1>1 DEF SendError, SentFrame, PcTypeOK, CallTypeOK, StreamTypeOK, Threads
<1>3. result'[c] = IF out[c] \in {"Request", "Reply"} THEN Event("Disconnected", rid[c]) ELSE result[c]
  BY <1>1 DEF SendError, StreamTypeOK
<1> QED
  BY <1>1, <1>2, <1>3, FailedSend

\* A thread that leaves WorkerInner::fail.
LEMMA FailedEffect ==
    ASSUME PcTypeOK, CallTypeOK, StreamTypeOK, Outcomes, Settled, NEW t \in Failers,
           FailLoses(t) \/ FailDrain(t)
    PROVE  \A c \in Calls :
               \/ pc'[c] = pc[c] /\ out'[c] = out[c] /\ result'[c] = result[c]
               \/ ~Terminal(result'[c])
<1>1. AfterFail(t) /\ pc[t] \in {"fail", "drain"}
  BY DEF FailLoses, FailDrain
<1>2. CASE t = Reader
  BY <1>1, <1>2, AfterFailEffect, ThreadAssumption DEF Threads
<1>3. CASE t # Reader
  <2>1. /\ t \in Calls
        /\ \A c \in Calls \ {t} : pc'[c] = pc[c] /\ out'[c] = out[c] /\ result'[c] = result[c]
        /\ result'[t] = IF out[t] \in {"Request", "Reply"}
                        THEN Event("Protocol", rid[t]) ELSE result[t]
    BY <1>1, <1>3, AfterFailEffect DEF Failers, Threads
  <2> QED
    BY <1>1, <2>1, FailedSend
<1> QED
  BY <1>2, <1>3

\* Every return path of request_inner but the two that hand on an event of
\* the channel sets an error of its own.
LEMMA SettledStep ==
    ASSUME PcTypeOK, CallTypeOK, StreamTypeOK, Identity, Outcomes, Settled, [Next]_vars
    PROVE  Settled'
<1> USE DEF PcTypeOK, CallTypeOK, StreamTypeOK, Threads, Failers
<1>0. \A c \in Calls : out[c] = "Reject" => ~Terminal(result[c])
  BY RejectEndsNothing
<1>1. ASSUME NEW d \in Calls, CallRefused(d) PROVE Settled'
  BY <1>1, ThreadAssumption, <1>0, OwnErrors
  DEF CallRefused, Goto, worker, caller, reading, process, Settled
<1>2. ASSUME NEW d \in Calls, CallStart(d) PROVE Settled'
  BY <1>2, ThreadAssumption, <1>0, OwnErrors
  DEF CallStart, Goto, worker, caller, reading, process, Settled
<1>3. ASSUME NEW d \in Calls, Send(d) PROVE Settled'
  BY <1>3, ThreadAssumption, <1>0, OwnErrors
  DEF Send, Goto, worker, caller, reading, process, Settled
<1>4. ASSUME NEW d \in Calls, SendRefused(d) PROVE Settled'
  BY <1>4, RefusedEffect DEF Settled
<1>5. ASSUME NEW d \in Calls, SendClosed(d) PROVE Settled'
  BY <1>5, RefusedEffect DEF Settled
<1>6. ASSUME NEW d \in Calls, SendTooLarge(d) PROVE Settled'
  BY <1>6, ThreadAssumption, <1>0, OwnErrors
  DEF SendTooLarge, Goto, worker, caller, reading, process, Settled
<1>7. ASSUME NEW d \in Calls, SendLock(d) PROVE Settled'
  BY <1>7, ThreadAssumption, <1>0, OwnErrors
  DEF SendLock, Goto, worker, caller, reading, process, Settled
<1>8. ASSUME NEW d \in Calls, Write(d) PROVE Settled'
  BY <1>8, ThreadAssumption, AfterSendType, AfterSendCases, <1>0, OwnErrors
  DEF Write, SentFrame, Goto, worker, caller, reading, process, Settled
<1>9. ASSUME NEW d \in Calls, WriteFails(d) PROVE Settled'
  BY <1>9, ThreadAssumption, <1>0, OwnErrors
  DEF WriteFails, Goto, worker, caller, reading, process, Settled
<1>10. ASSUME NEW d \in Calls, Register(d) PROVE Settled'
  BY <1>10, ThreadAssumption, <1>0, OwnErrors
  DEF Register, Goto, worker, caller, reading, process, Settled
<1>11. ASSUME NEW d \in Calls, Unregister(d) PROVE Settled'
  BY <1>11, ThreadAssumption, <1>0, OwnErrors
  DEF Unregister, Goto, worker, caller, reading, process, Settled
<1>12. ASSUME NEW d \in Calls, ReceiveAnswer(d) PROVE Settled'
  <2>1. /\ out[d] \in {"Request", "Reply"} /\ out' = out /\ pc'[d] = "done"
        /\ \A c \in Calls \ {d} : pc'[c] = pc[c] /\ result'[c] = result[c]
    BY <1>12 DEF ReceiveAnswer, Receives, Goto, Outcomes
  <2> QED
    BY <2>1 DEF Settled
<1>13. ASSUME NEW d \in Calls, ReceiveCancel(d) PROVE Settled'
  BY <1>13, ThreadAssumption, <1>0, OwnErrors
  DEF ReceiveCancel, Receives, Goto, worker, caller, reading, process, Settled
<1>14. ASSUME NEW d \in Calls, ReceiveNotification(d) PROVE Settled'
  BY <1>14, ThreadAssumption, <1>0, OwnErrors
  DEF ReceiveNotification, Receives, Goto, worker, caller, reading, process, Settled
<1>15. ASSUME NEW d \in Calls, ReceiveRequest(d) PROVE Settled'
  BY <1>15, ThreadAssumption, <1>0, OwnErrors
  DEF ReceiveRequest, Receives, Goto, worker, caller, reading, process, Settled
<1>16. ASSUME NEW d \in Calls, Expire(d) PROVE Settled'
  BY <1>16, ThreadAssumption, <1>0, OwnErrors
  DEF Expire, Goto, worker, caller, reading, process, Settled
<1>17. ASSUME NEW t \in Failers, FailWins(t) PROVE Settled'
  BY <1>17, ThreadAssumption, <1>0, OwnErrors
  DEF FailWins, Goto, worker, caller, reading, process, Settled
<1>18. ASSUME NEW t \in Failers, FailLoses(t) PROVE Settled'
  BY <1>18, FailedEffect DEF Settled
<1>19. ASSUME NEW t \in Failers, FailClose(t) PROVE Settled'
  BY <1>19, ThreadAssumption, <1>0, OwnErrors
  DEF FailClose, Goto, worker, caller, reading, process, Settled
<1>20. ASSUME NEW t \in Failers, FailKill(t) PROVE Settled'
  BY <1>20, ThreadAssumption, <1>0, OwnErrors
  DEF FailKill, Goto, worker, caller, reading, process, Settled
<1>21. ASSUME NEW t \in Failers, FailDrain(t) PROVE Settled'
  BY <1>21, FailedEffect DEF Settled
<1>22. CASE RouteFound
  BY <1>22, ThreadAssumption, <1>0, OwnErrors
  DEF RouteFound, ReadFrame, Goto, worker, caller, reading, process, Settled
<1>23. CASE RouteLate
  BY <1>23, ThreadAssumption, <1>0, OwnErrors
  DEF RouteLate, ReadFrame, Goto, worker, caller, reading, process, Settled
<1>24. CASE Deliver
  BY <1>24, ThreadAssumption, <1>0, OwnErrors
  DEF Deliver, Goto, worker, caller, reading, process, Settled
<1>25. CASE ReadShutdown
  BY <1>25, ThreadAssumption, <1>0, OwnErrors
  DEF ReadShutdown, ReadFrame, Goto, worker, caller, reading, process, Settled
<1>26. CASE ReadError
  BY <1>26, ThreadAssumption, <1>0, OwnErrors
  DEF ReadError, ReadFrame, Goto, worker, caller, reading, process, Settled
<1>27. CASE ReadEof
  BY <1>27, ThreadAssumption, <1>0, OwnErrors
  DEF ReadEof, Goto, worker, caller, reading, process, Settled
<1>28. ASSUME NEW s \in Stoppers, StopBegin(s) PROVE Settled'
  BY <1>28, ThreadAssumption, <1>0, OwnErrors
  DEF StopBegin, Goto, worker, caller, reading, process, Settled
<1>29. ASSUME NEW s \in Stoppers, StopLate(s) PROVE Settled'
  BY <1>29, ThreadAssumption, <1>0, OwnErrors
  DEF StopLate, Goto, worker, caller, reading, process, Settled
<1>30. ASSUME NEW s \in Stoppers, StopClose(s) PROVE Settled'
  BY <1>30, ThreadAssumption, <1>0, OwnErrors
  DEF StopClose, Goto, worker, caller, reading, process, Settled
<1>31. ASSUME NEW s \in Stoppers, StopLock(s) PROVE Settled'
  BY <1>31, ThreadAssumption, <1>0, OwnErrors
  DEF StopLock, Goto, worker, caller, reading, process, Settled
<1>32. ASSUME NEW s \in Stoppers, StopBye(s) PROVE Settled'
  BY <1>32, ThreadAssumption, <1>0, OwnErrors
  DEF StopBye, Goto, worker, caller, reading, process, Settled
<1>33. ASSUME NEW s \in Stoppers, StopFinish(s) PROVE Settled'
  BY <1>33, ThreadAssumption, <1>0, OwnErrors
  DEF StopFinish, Goto, worker, caller, reading, process, Settled
<1>34. ASSUME NEW s \in Stoppers, StopTake(s) PROVE Settled'
  BY <1>34, ThreadAssumption, <1>0, OwnErrors
  DEF StopTake, Goto, worker, caller, reading, process, Settled
<1>35. ASSUME NEW s \in Stoppers, StopReap(s) PROVE Settled'
  BY <1>35, ThreadAssumption, <1>0, OwnErrors
  DEF StopReap, Goto, worker, caller, reading, process, Settled
<1>36. ASSUME NEW s \in Stoppers, StopMark(s) PROVE Settled'
  BY <1>36, ThreadAssumption, <1>0, OwnErrors
  DEF StopMark, Goto, worker, caller, reading, process, Settled
<1>37. ASSUME NEW s \in Stoppers, StopSweep(s) PROVE Settled'
  BY <1>37, ThreadAssumption, <1>0, OwnErrors
  DEF StopSweep, Goto, worker, caller, reading, process, Settled
<1>38. ASSUME NEW s \in Stoppers, StopJoin(s) PROVE Settled'
  BY <1>38, ThreadAssumption, <1>0, OwnErrors
  DEF StopJoin, Goto, worker, caller, reading, process, Settled
<1>39. ASSUME NEW s \in Stoppers, StopJoined(s) PROVE Settled'
  BY <1>39, ThreadAssumption, <1>0, OwnErrors
  DEF StopJoined, Goto, worker, caller, reading, process, Settled
<1>40. CASE ChildRead
  BY <1>40, ThreadAssumption, <1>0, OwnErrors
  DEF ChildRead, Goto, worker, caller, reading, process, Settled
<1>41. CASE ChildEmit
  BY <1>41, ThreadAssumption, <1>0, OwnErrors
  DEF ChildEmit, Goto, worker, caller, reading, process, Settled
<1>42. CASE ChildDetach
  BY <1>42, ThreadAssumption, <1>0, OwnErrors
  DEF ChildDetach, Goto, worker, caller, reading, process, Settled
<1>43. CASE ChildExit
  BY <1>43, ThreadAssumption, <1>0, OwnErrors
  DEF ChildExit, Goto, worker, caller, reading, process, Settled
<1>44. CASE UNCHANGED vars
  BY <1>44, ThreadAssumption DEF vars, worker, caller, reading, process, Settled
<1> QED
  BY <1>1, <1>2, <1>3, <1>4, <1>5, <1>6, <1>7, <1>8, <1>9, <1>10, <1>11, <1>12,
       <1>13, <1>14, <1>15, <1>16, <1>17, <1>18, <1>19, <1>20, <1>21, <1>22, <1>23,
       <1>24, <1>25, <1>26, <1>27, <1>28, <1>29, <1>30, <1>31, <1>32, <1>33, <1>34,
       <1>35, <1>36, <1>37, <1>38, <1>39, <1>40, <1>41, <1>42, <1>43, <1>44
  DEF Next, CallStep, SendStep, FailStep, RequestStep, ReaderStep, StopStep, ChildStep,
      Finished, Failers

\* recv_timeout takes the first event of c's channel; the reader and the map
\* stay as they are.
Consumes(c) ==
    /\ chan[c] # <<>> /\ chan' = [chan EXCEPT ![c] = Tail(@)]
    /\ UNCHANGED <<pending, dest, frame>>
    /\ (pc'[Reader] = "deliver") <=> (pc[Reader] = "deliver")

\* Nothing is sent, received or looked up.
Quiet ==
    /\ UNCHANGED <<chan, dest, frame>>
    /\ (pc'[Reader] = "deliver") <=> (pc[Reader] = "deliver")

\* Every call with an entry is sent the failure of the worker.
Drains ==
    /\ Drain /\ UNCHANGED <<dest, frame>>
    /\ (pc'[Reader] = "deliver") <=> (pc[Reader] = "deliver")

\* A call takes an event that ends it only from the front of its channel.
LEMMA TakenStep ==
    ASSUME PcTypeOK, CallTypeOK, StreamTypeOK, Outcomes, Settled, [Next]_vars, NEW c \in Calls,
           Taken(c)'
    PROVE  Taken(c) \/ (Consumes(c) /\ Terminal(Head(chan[c])))
<1> USE DEF PcTypeOK, CallTypeOK, StreamTypeOK, Threads, Failers
<1>0. \A d \in Calls : out[d] = "Reject" => ~Terminal(result[d])
  BY RejectEndsNothing
<1> USE DEF Taken, Settled
<1> DEFINE Goal == Taken(c) \/ (Consumes(c) /\ Terminal(Head(chan[c])))
<1>1. ASSUME NEW d \in Calls, CallRefused(d) PROVE Goal
  BY <1>1, ThreadAssumption, <1>0, OwnErrors
  DEF CallRefused, Goto, worker, caller, reading, process
<1>2. ASSUME NEW d \in Calls, CallStart(d) PROVE Goal
  BY <1>2, ThreadAssumption, <1>0, OwnErrors
  DEF CallStart, Goto, worker, caller, reading, process
<1>3. ASSUME NEW d \in Calls, Send(d) PROVE Goal
  BY <1>3, ThreadAssumption, <1>0, OwnErrors
  DEF Send, Goto, worker, caller, reading, process
<1>4. ASSUME NEW d \in Calls, SendRefused(d) PROVE Goal
  BY <1>4, RefusedEffect DEF Taken
<1>5. ASSUME NEW d \in Calls, SendClosed(d) PROVE Goal
  BY <1>5, RefusedEffect DEF Taken
<1>6. ASSUME NEW d \in Calls, SendTooLarge(d) PROVE Goal
  BY <1>6, ThreadAssumption, <1>0, OwnErrors
  DEF SendTooLarge, Goto, worker, caller, reading, process
<1>7. ASSUME NEW d \in Calls, SendLock(d) PROVE Goal
  BY <1>7, ThreadAssumption, <1>0, OwnErrors
  DEF SendLock, Goto, worker, caller, reading, process
<1>8. ASSUME NEW d \in Calls, Write(d) PROVE Goal
  BY <1>8, ThreadAssumption, AfterSendType, AfterSendCases, <1>0, OwnErrors
  DEF Write, SentFrame, Goto, worker, caller, reading, process
<1>9. ASSUME NEW d \in Calls, WriteFails(d) PROVE Goal
  BY <1>9, ThreadAssumption, <1>0, OwnErrors
  DEF WriteFails, Goto, worker, caller, reading, process
<1>10. ASSUME NEW d \in Calls, Register(d) PROVE Goal
  BY <1>10, ThreadAssumption, <1>0, OwnErrors
  DEF Register, Goto, worker, caller, reading, process
<1>11. ASSUME NEW d \in Calls, Unregister(d) PROVE Goal
  BY <1>11, ThreadAssumption, <1>0, OwnErrors
  DEF Unregister, Goto, worker, caller, reading, process
<1>12. ASSUME NEW d \in Calls, ReceiveAnswer(d) PROVE Goal
  <2>1. CASE d = c
    BY <1>12, <2>1, ThreadAssumption, OwnErrors
    DEF ReceiveAnswer, Receives, Consumes, Goto, worker, reading
  <2>2. CASE d # c
    BY <1>12, <2>2 DEF ReceiveAnswer, Goto, Taken
  <2> QED
    BY <2>1, <2>2
<1>13. ASSUME NEW d \in Calls, ReceiveCancel(d) PROVE Goal
  BY <1>13, ThreadAssumption, <1>0, OwnErrors
  DEF ReceiveCancel, Receives, Goto, worker, caller, reading, process
<1>14. ASSUME NEW d \in Calls, ReceiveNotification(d) PROVE Goal
  BY <1>14, ThreadAssumption, <1>0, OwnErrors
  DEF ReceiveNotification, Receives, Goto, worker, caller, reading, process
<1>15. ASSUME NEW d \in Calls, ReceiveRequest(d) PROVE Goal
  BY <1>15, ThreadAssumption, <1>0, OwnErrors
  DEF ReceiveRequest, Receives, Goto, worker, caller, reading, process
<1>16. ASSUME NEW d \in Calls, Expire(d) PROVE Goal
  BY <1>16, ThreadAssumption, <1>0, OwnErrors
  DEF Expire, Goto, worker, caller, reading, process
<1>17. ASSUME NEW t \in Failers, FailWins(t) PROVE Goal
  BY <1>17, ThreadAssumption, <1>0, OwnErrors
  DEF FailWins, Goto, worker, caller, reading, process
<1>18. ASSUME NEW t \in Failers, FailLoses(t) PROVE Goal
  BY <1>18, FailedEffect DEF Taken
<1>19. ASSUME NEW t \in Failers, FailClose(t) PROVE Goal
  BY <1>19, ThreadAssumption, <1>0, OwnErrors
  DEF FailClose, Goto, worker, caller, reading, process
<1>20. ASSUME NEW t \in Failers, FailKill(t) PROVE Goal
  BY <1>20, ThreadAssumption, <1>0, OwnErrors
  DEF FailKill, Goto, worker, caller, reading, process
<1>21. ASSUME NEW t \in Failers, FailDrain(t) PROVE Goal
  BY <1>21, FailedEffect DEF Taken
<1>22. CASE RouteFound
  BY <1>22, ThreadAssumption, <1>0, OwnErrors
  DEF RouteFound, ReadFrame, Goto, worker, caller, reading, process
<1>23. CASE RouteLate
  BY <1>23, ThreadAssumption, <1>0, OwnErrors
  DEF RouteLate, ReadFrame, Goto, worker, caller, reading, process
<1>24. CASE Deliver
  BY <1>24, ThreadAssumption, <1>0, OwnErrors
  DEF Deliver, Goto, worker, caller, reading, process
<1>25. CASE ReadShutdown
  BY <1>25, ThreadAssumption, <1>0, OwnErrors
  DEF ReadShutdown, ReadFrame, Goto, worker, caller, reading, process
<1>26. CASE ReadError
  BY <1>26, ThreadAssumption, <1>0, OwnErrors
  DEF ReadError, ReadFrame, Goto, worker, caller, reading, process
<1>27. CASE ReadEof
  BY <1>27, ThreadAssumption, <1>0, OwnErrors
  DEF ReadEof, Goto, worker, caller, reading, process
<1>28. ASSUME NEW s \in Stoppers, StopBegin(s) PROVE Goal
  BY <1>28, ThreadAssumption, <1>0, OwnErrors
  DEF StopBegin, Goto, worker, caller, reading, process
<1>29. ASSUME NEW s \in Stoppers, StopLate(s) PROVE Goal
  BY <1>29, ThreadAssumption, <1>0, OwnErrors
  DEF StopLate, Goto, worker, caller, reading, process
<1>30. ASSUME NEW s \in Stoppers, StopClose(s) PROVE Goal
  BY <1>30, ThreadAssumption, <1>0, OwnErrors
  DEF StopClose, Goto, worker, caller, reading, process
<1>31. ASSUME NEW s \in Stoppers, StopLock(s) PROVE Goal
  BY <1>31, ThreadAssumption, <1>0, OwnErrors
  DEF StopLock, Goto, worker, caller, reading, process
<1>32. ASSUME NEW s \in Stoppers, StopBye(s) PROVE Goal
  BY <1>32, ThreadAssumption, <1>0, OwnErrors
  DEF StopBye, Goto, worker, caller, reading, process
<1>33. ASSUME NEW s \in Stoppers, StopFinish(s) PROVE Goal
  BY <1>33, ThreadAssumption, <1>0, OwnErrors
  DEF StopFinish, Goto, worker, caller, reading, process
<1>34. ASSUME NEW s \in Stoppers, StopTake(s) PROVE Goal
  BY <1>34, ThreadAssumption, <1>0, OwnErrors
  DEF StopTake, Goto, worker, caller, reading, process
<1>35. ASSUME NEW s \in Stoppers, StopReap(s) PROVE Goal
  BY <1>35, ThreadAssumption, <1>0, OwnErrors
  DEF StopReap, Goto, worker, caller, reading, process
<1>36. ASSUME NEW s \in Stoppers, StopMark(s) PROVE Goal
  BY <1>36, ThreadAssumption, <1>0, OwnErrors
  DEF StopMark, Goto, worker, caller, reading, process
<1>37. ASSUME NEW s \in Stoppers, StopSweep(s) PROVE Goal
  BY <1>37, ThreadAssumption, <1>0, OwnErrors
  DEF StopSweep, Goto, worker, caller, reading, process
<1>38. ASSUME NEW s \in Stoppers, StopJoin(s) PROVE Goal
  BY <1>38, ThreadAssumption, <1>0, OwnErrors
  DEF StopJoin, Goto, worker, caller, reading, process
<1>39. ASSUME NEW s \in Stoppers, StopJoined(s) PROVE Goal
  BY <1>39, ThreadAssumption, <1>0, OwnErrors
  DEF StopJoined, Goto, worker, caller, reading, process
<1>40. CASE ChildRead
  BY <1>40, ThreadAssumption, <1>0, OwnErrors
  DEF ChildRead, Goto, worker, caller, reading, process
<1>41. CASE ChildEmit
  BY <1>41, ThreadAssumption, <1>0, OwnErrors
  DEF ChildEmit, Goto, worker, caller, reading, process
<1>42. CASE ChildDetach
  BY <1>42, ThreadAssumption, <1>0, OwnErrors
  DEF ChildDetach, Goto, worker, caller, reading, process
<1>43. CASE ChildExit
  BY <1>43, ThreadAssumption, <1>0, OwnErrors
  DEF ChildExit, Goto, worker, caller, reading, process
<1>44. CASE UNCHANGED vars
  BY <1>44, ThreadAssumption DEF vars, worker, caller, reading, process
<1> QED
  BY <1>1, <1>2, <1>3, <1>4, <1>5, <1>6, <1>7, <1>8, <1>9, <1>10, <1>11, <1>12,
       <1>13, <1>14, <1>15, <1>16, <1>17, <1>18, <1>19, <1>20, <1>21, <1>22, <1>23,
       <1>24, <1>25, <1>26, <1>27, <1>28, <1>29, <1>30, <1>31, <1>32, <1>33, <1>34,
       <1>35, <1>36, <1>37, <1>38, <1>39, <1>40, <1>41, <1>42, <1>43, <1>44
  DEF Next, CallStep, SendStep, FailStep, RequestStep, ReaderStep, StopStep, ChildStep,
      Finished, Failers

\* What a step does to the channels and to the hands of the reader.
LEMMA ChannelCases ==
    ASSUME PcTypeOK, CallTypeOK, StreamTypeOK, [Next]_vars
    PROVE  \/ Quiet \/ RouteFound \/ Deliver
           \/ \E c \in Calls : Consumes(c)
           \/ Drains
<1> USE DEF PcTypeOK, CallTypeOK, StreamTypeOK, Threads, Failers
<1> DEFINE Cases == Quiet \/ RouteFound \/ Deliver \/ Drains \/ \E c \in Calls : Consumes(c)
<1> SUFFICES Cases
  OBVIOUS
<1>1. ASSUME NEW d \in Calls, CallRefused(d) PROVE Cases
  BY <1>1, ThreadAssumption
  DEF CallRefused, Goto, worker, caller, reading, process, Quiet
<1>2. ASSUME NEW d \in Calls, CallStart(d) PROVE Cases
  BY <1>2, ThreadAssumption
  DEF CallStart, Goto, worker, caller, reading, process, Quiet
<1>3. ASSUME NEW d \in Calls, Send(d) PROVE Cases
  BY <1>3, ThreadAssumption
  DEF Send, Goto, worker, caller, reading, process, Quiet
<1>4. ASSUME NEW d \in Calls, SendRefused(d) PROVE Cases
  BY <1>4, ThreadAssumption, AfterSendType, AfterSendCases
  DEF SendRefused, SendError, SentFrame, Goto, worker, caller, reading, process,
       Quiet
<1>5. ASSUME NEW d \in Calls, SendClosed(d) PROVE Cases
  BY <1>5, ThreadAssumption, AfterSendType, AfterSendCases
  DEF SendClosed, SendError, SentFrame, Goto, worker, caller, reading, process,
       Quiet
<1>6. ASSUME NEW d \in Calls, SendTooLarge(d) PROVE Cases
  BY <1>6, ThreadAssumption
  DEF SendTooLarge, Goto, worker, caller, reading, process, Quiet
<1>7. ASSUME NEW d \in Calls, SendLock(d) PROVE Cases
  BY <1>7, ThreadAssumption
  DEF SendLock, Goto, worker, caller, reading, process, Quiet
<1>8. ASSUME NEW d \in Calls, Write(d) PROVE Cases
  BY <1>8, ThreadAssumption, AfterSendType, AfterSendCases
  DEF Write, SentFrame, Goto, worker, caller, reading, process, Quiet
<1>9. ASSUME NEW d \in Calls, WriteFails(d) PROVE Cases
  BY <1>9, ThreadAssumption
  DEF WriteFails, Goto, worker, caller, reading, process, Quiet
<1>10. ASSUME NEW d \in Calls, Register(d) PROVE Cases
  BY <1>10, ThreadAssumption
  DEF Register, Goto, worker, caller, reading, process, Quiet
<1>11. ASSUME NEW d \in Calls, Unregister(d) PROVE Cases
  BY <1>11, ThreadAssumption
  DEF Unregister, Goto, worker, caller, reading, process, Quiet
<1>12. ASSUME NEW d \in Calls, ReceiveAnswer(d) PROVE Cases
  BY <1>12, ThreadAssumption
  DEF ReceiveAnswer, Receives, Consumes, Goto, worker, reading
<1>13. ASSUME NEW d \in Calls, ReceiveCancel(d) PROVE Cases
  BY <1>13, ThreadAssumption
  DEF ReceiveCancel, Receives, Consumes, Goto, worker, reading
<1>14. ASSUME NEW d \in Calls, ReceiveNotification(d) PROVE Cases
  BY <1>14, ThreadAssumption
  DEF ReceiveNotification, Receives, Consumes, Goto, worker, reading
<1>15. ASSUME NEW d \in Calls, ReceiveRequest(d) PROVE Cases
  BY <1>15, ThreadAssumption
  DEF ReceiveRequest, Receives, Consumes, Goto, worker, reading
<1>16. ASSUME NEW d \in Calls, Expire(d) PROVE Cases
  BY <1>16, ThreadAssumption
  DEF Expire, Goto, worker, caller, reading, process, Quiet
<1>17. ASSUME NEW t \in Failers, FailWins(t) PROVE Cases
  BY <1>17, ThreadAssumption
  DEF FailWins, Goto, worker, caller, reading, process, Quiet
<1>18. ASSUME NEW t \in Failers, FailLoses(t) PROVE Cases
  BY <1>18, ThreadAssumption, AfterFailEffect
  DEF FailLoses, Goto, worker, caller, reading, process, Quiet
<1>19. ASSUME NEW t \in Failers, FailClose(t) PROVE Cases
  BY <1>19, ThreadAssumption
  DEF FailClose, Goto, worker, caller, reading, process, Quiet
<1>20. ASSUME NEW t \in Failers, FailKill(t) PROVE Cases
  BY <1>20, ThreadAssumption
  DEF FailKill, Goto, worker, caller, reading, process, Quiet
<1>21. ASSUME NEW t \in Failers, FailDrain(t) PROVE Cases
  <2>1. /\ Drain /\ dest' = dest /\ frame' = frame
        /\ (pc'[Reader] = "deliver") <=> (pc[Reader] = "deliver")
    BY <1>21, AfterFailEffect, ThreadAssumption DEF FailDrain, Goto, reading
  <2> QED
    BY <2>1 DEF Drains
<1>22. CASE RouteFound
  BY <1>22
<1>23. CASE RouteLate
  BY <1>23, ThreadAssumption
  DEF RouteLate, ReadFrame, Goto, worker, caller, reading, process, Quiet
<1>24. CASE Deliver
  BY <1>24
<1>25. CASE ReadShutdown
  BY <1>25, ThreadAssumption
  DEF ReadShutdown, ReadFrame, Goto, worker, caller, reading, process, Quiet
<1>26. CASE ReadError
  BY <1>26, ThreadAssumption
  DEF ReadError, ReadFrame, Goto, worker, caller, reading, process, Quiet
<1>27. CASE ReadEof
  BY <1>27, ThreadAssumption
  DEF ReadEof, Goto, worker, caller, reading, process, Quiet
<1>28. ASSUME NEW s \in Stoppers, StopBegin(s) PROVE Cases
  BY <1>28, ThreadAssumption
  DEF StopBegin, Goto, worker, caller, reading, process, Quiet
<1>29. ASSUME NEW s \in Stoppers, StopLate(s) PROVE Cases
  BY <1>29, ThreadAssumption
  DEF StopLate, Goto, worker, caller, reading, process, Quiet
<1>30. ASSUME NEW s \in Stoppers, StopClose(s) PROVE Cases
  BY <1>30, ThreadAssumption
  DEF StopClose, Goto, worker, caller, reading, process, Quiet
<1>31. ASSUME NEW s \in Stoppers, StopLock(s) PROVE Cases
  BY <1>31, ThreadAssumption
  DEF StopLock, Goto, worker, caller, reading, process, Quiet
<1>32. ASSUME NEW s \in Stoppers, StopBye(s) PROVE Cases
  BY <1>32, ThreadAssumption
  DEF StopBye, Goto, worker, caller, reading, process, Quiet
<1>33. ASSUME NEW s \in Stoppers, StopFinish(s) PROVE Cases
  BY <1>33, ThreadAssumption
  DEF StopFinish, Goto, worker, caller, reading, process, Quiet
<1>34. ASSUME NEW s \in Stoppers, StopTake(s) PROVE Cases
  BY <1>34, ThreadAssumption
  DEF StopTake, Goto, worker, caller, reading, process, Quiet
<1>35. ASSUME NEW s \in Stoppers, StopReap(s) PROVE Cases
  BY <1>35, ThreadAssumption
  DEF StopReap, Goto, worker, caller, reading, process, Quiet
<1>36. ASSUME NEW s \in Stoppers, StopMark(s) PROVE Cases
  BY <1>36, ThreadAssumption
  DEF StopMark, Goto, worker, caller, reading, process, Quiet
<1>37. ASSUME NEW s \in Stoppers, StopSweep(s) PROVE Cases
  <2>1. /\ Drain /\ dest' = dest /\ frame' = frame
        /\ (pc'[Reader] = "deliver") <=> (pc[Reader] = "deliver")
    BY <1>37, ThreadAssumption DEF StopSweep, Goto, reading
  <2> QED
    BY <2>1 DEF Drains
<1>38. ASSUME NEW s \in Stoppers, StopJoin(s) PROVE Cases
  BY <1>38, ThreadAssumption
  DEF StopJoin, Goto, worker, caller, reading, process, Quiet
<1>39. ASSUME NEW s \in Stoppers, StopJoined(s) PROVE Cases
  BY <1>39, ThreadAssumption
  DEF StopJoined, Goto, worker, caller, reading, process, Quiet
<1>40. CASE ChildRead
  BY <1>40, ThreadAssumption
  DEF ChildRead, Goto, worker, caller, reading, process, Quiet
<1>41. CASE ChildEmit
  BY <1>41, ThreadAssumption
  DEF ChildEmit, Goto, worker, caller, reading, process, Quiet
<1>42. CASE ChildDetach
  BY <1>42, ThreadAssumption
  DEF ChildDetach, Goto, worker, caller, reading, process, Quiet
<1>43. CASE ChildExit
  BY <1>43, ThreadAssumption
  DEF ChildExit, Goto, worker, caller, reading, process, Quiet
<1>44. CASE UNCHANGED vars
  BY <1>44, ThreadAssumption DEF vars, worker, caller, reading, process, Quiet
<1> QED
  BY <1>1, <1>2, <1>3, <1>4, <1>5, <1>6, <1>7, <1>8, <1>9, <1>10, <1>11, <1>12,
       <1>13, <1>14, <1>15, <1>16, <1>17, <1>18, <1>19, <1>20, <1>21, <1>22, <1>23,
       <1>24, <1>25, <1>26, <1>27, <1>28, <1>29, <1>30, <1>31, <1>32, <1>33, <1>34,
       <1>35, <1>36, <1>37, <1>38, <1>39, <1>40, <1>41, <1>42, <1>43, <1>44
  DEF Next, CallStep, SendStep, FailStep, RequestStep, ReaderStep, StopStep, ChildStep,
      Finished, Failers

\* An entry is added to the pending map by the call it is for, before it sends.
LEMMA EntriesStep ==
    ASSUME PcTypeOK, CallTypeOK, [Next]_vars, NEW p \in pending'
    PROVE  p \in pending \/ pc[p[2]] = "register"
<1> DEFINE Old == p \in pending \/ pc[p[2]] = "register"
<1> USE DEF PcTypeOK, CallTypeOK, Threads, Failers
<1> SUFFICES Old
  OBVIOUS
<1>1. ASSUME NEW d \in Calls, CallRefused(d) PROVE Old
  BY <1>1, ThreadAssumption
  DEF CallRefused, Goto, worker, caller, reading, process
<1>2. ASSUME NEW d \in Calls, CallStart(d) PROVE Old
  BY <1>2, ThreadAssumption
  DEF CallStart, Goto, worker, caller, reading, process
<1>3. ASSUME NEW d \in Calls, Send(d) PROVE Old
  BY <1>3, ThreadAssumption
  DEF Send, Goto, worker, caller, reading, process
<1>4. ASSUME NEW d \in Calls, SendRefused(d) PROVE Old
  BY <1>4, ThreadAssumption, AfterSendType, AfterSendCases
  DEF SendRefused, SendError, SentFrame, Goto, worker, caller, reading, process
<1>5. ASSUME NEW d \in Calls, SendClosed(d) PROVE Old
  BY <1>5, ThreadAssumption, AfterSendType, AfterSendCases
  DEF SendClosed, SendError, SentFrame, Goto, worker, caller, reading, process
<1>6. ASSUME NEW d \in Calls, SendTooLarge(d) PROVE Old
  BY <1>6, ThreadAssumption
  DEF SendTooLarge, Goto, worker, caller, reading, process
<1>7. ASSUME NEW d \in Calls, SendLock(d) PROVE Old
  BY <1>7, ThreadAssumption
  DEF SendLock, Goto, worker, caller, reading, process
<1>8. ASSUME NEW d \in Calls, Write(d) PROVE Old
  BY <1>8, ThreadAssumption, AfterSendType, AfterSendCases
  DEF Write, SentFrame, Goto, worker, caller, reading, process
<1>9. ASSUME NEW d \in Calls, WriteFails(d) PROVE Old
  BY <1>9, ThreadAssumption
  DEF WriteFails, Goto, worker, caller, reading, process
<1>10. ASSUME NEW d \in Calls, Register(d) PROVE Old
  BY <1>10 DEF Register, Insert
<1>11. ASSUME NEW d \in Calls, Unregister(d) PROVE Old
  BY <1>11 DEF Unregister, Remove
<1>12. ASSUME NEW d \in Calls, ReceiveAnswer(d) PROVE Old
  BY <1>12, ThreadAssumption
  DEF ReceiveAnswer, Receives, Goto, worker, caller, reading, process
<1>13. ASSUME NEW d \in Calls, ReceiveCancel(d) PROVE Old
  BY <1>13, ThreadAssumption
  DEF ReceiveCancel, Receives, Goto, worker, caller, reading, process
<1>14. ASSUME NEW d \in Calls, ReceiveNotification(d) PROVE Old
  BY <1>14, ThreadAssumption
  DEF ReceiveNotification, Receives, Goto, worker, caller, reading, process
<1>15. ASSUME NEW d \in Calls, ReceiveRequest(d) PROVE Old
  BY <1>15, ThreadAssumption
  DEF ReceiveRequest, Receives, Goto, worker, caller, reading, process
<1>16. ASSUME NEW d \in Calls, Expire(d) PROVE Old
  BY <1>16 DEF Expire, Remove
<1>17. ASSUME NEW t \in Failers, FailWins(t) PROVE Old
  BY <1>17, ThreadAssumption
  DEF FailWins, Goto, worker, caller, reading, process
<1>18. ASSUME NEW t \in Failers, FailLoses(t) PROVE Old
  BY <1>18, ThreadAssumption, AfterFailEffect
  DEF FailLoses, Goto, worker, caller, reading, process
<1>19. ASSUME NEW t \in Failers, FailClose(t) PROVE Old
  BY <1>19, ThreadAssumption
  DEF FailClose, Goto, worker, caller, reading, process
<1>20. ASSUME NEW t \in Failers, FailKill(t) PROVE Old
  BY <1>20, ThreadAssumption
  DEF FailKill, Goto, worker, caller, reading, process
<1>21. ASSUME NEW t \in Failers, FailDrain(t) PROVE Old
  BY <1>21 DEF FailDrain, Drain
<1>22. CASE RouteFound
  BY <1>22 DEF RouteFound, Remove
<1>23. CASE RouteLate
  BY <1>23, ThreadAssumption
  DEF RouteLate, ReadFrame, Goto, worker, caller, reading, process
<1>24. CASE Deliver
  BY <1>24, ThreadAssumption
  DEF Deliver, Goto, worker, caller, reading, process
<1>25. CASE ReadShutdown
  BY <1>25, ThreadAssumption
  DEF ReadShutdown, ReadFrame, Goto, worker, caller, reading, process
<1>26. CASE ReadError
  BY <1>26, ThreadAssumption
  DEF ReadError, ReadFrame, Goto, worker, caller, reading, process
<1>27. CASE ReadEof
  BY <1>27, ThreadAssumption
  DEF ReadEof, Goto, worker, caller, reading, process
<1>28. ASSUME NEW s \in Stoppers, StopBegin(s) PROVE Old
  BY <1>28, ThreadAssumption
  DEF StopBegin, Goto, worker, caller, reading, process
<1>29. ASSUME NEW s \in Stoppers, StopLate(s) PROVE Old
  BY <1>29, ThreadAssumption
  DEF StopLate, Goto, worker, caller, reading, process
<1>30. ASSUME NEW s \in Stoppers, StopClose(s) PROVE Old
  BY <1>30, ThreadAssumption
  DEF StopClose, Goto, worker, caller, reading, process
<1>31. ASSUME NEW s \in Stoppers, StopLock(s) PROVE Old
  BY <1>31, ThreadAssumption
  DEF StopLock, Goto, worker, caller, reading, process
<1>32. ASSUME NEW s \in Stoppers, StopBye(s) PROVE Old
  BY <1>32, ThreadAssumption
  DEF StopBye, Goto, worker, caller, reading, process
<1>33. ASSUME NEW s \in Stoppers, StopFinish(s) PROVE Old
  BY <1>33, ThreadAssumption
  DEF StopFinish, Goto, worker, caller, reading, process
<1>34. ASSUME NEW s \in Stoppers, StopTake(s) PROVE Old
  BY <1>34, ThreadAssumption
  DEF StopTake, Goto, worker, caller, reading, process
<1>35. ASSUME NEW s \in Stoppers, StopReap(s) PROVE Old
  BY <1>35, ThreadAssumption
  DEF StopReap, Goto, worker, caller, reading, process
<1>36. ASSUME NEW s \in Stoppers, StopMark(s) PROVE Old
  BY <1>36, ThreadAssumption
  DEF StopMark, Goto, worker, caller, reading, process
<1>37. ASSUME NEW s \in Stoppers, StopSweep(s) PROVE Old
  BY <1>37 DEF StopSweep, Drain
<1>38. ASSUME NEW s \in Stoppers, StopJoin(s) PROVE Old
  BY <1>38, ThreadAssumption
  DEF StopJoin, Goto, worker, caller, reading, process
<1>39. ASSUME NEW s \in Stoppers, StopJoined(s) PROVE Old
  BY <1>39, ThreadAssumption
  DEF StopJoined, Goto, worker, caller, reading, process
<1>40. CASE ChildRead
  BY <1>40, ThreadAssumption
  DEF ChildRead, Goto, worker, caller, reading, process
<1>41. CASE ChildEmit
  BY <1>41, ThreadAssumption
  DEF ChildEmit, Goto, worker, caller, reading, process
<1>42. CASE ChildDetach
  BY <1>42, ThreadAssumption
  DEF ChildDetach, Goto, worker, caller, reading, process
<1>43. CASE ChildExit
  BY <1>43, ThreadAssumption
  DEF ChildExit, Goto, worker, caller, reading, process
<1>44. CASE UNCHANGED vars
  BY <1>44, ThreadAssumption DEF vars, worker, caller, reading, process
<1> QED
  BY <1>1, <1>2, <1>3, <1>4, <1>5, <1>6, <1>7, <1>8, <1>9, <1>10, <1>11, <1>12,
       <1>13, <1>14, <1>15, <1>16, <1>17, <1>18, <1>19, <1>20, <1>21, <1>22, <1>23,
       <1>24, <1>25, <1>26, <1>27, <1>28, <1>29, <1>30, <1>31, <1>32, <1>33, <1>34,
       <1>35, <1>36, <1>37, <1>38, <1>39, <1>40, <1>41, <1>42, <1>43, <1>44
  DEF Next, CallStep, SendStep, FailStep, RequestStep, ReaderStep, StopStep, ChildStep,
      Finished, Failers

\* An entry of the map is that of a call which nothing has ended yet: neither
\* in its channel, nor in the reader's hands, nor in what it has returned.
LEMMA EntryIsOpen ==
    ASSUME Identity, CallTypeOK, Reachable, Untaken, NEW p \in pending
    PROVE  p[2] \in Calls /\ ~Answered(p[2]) /\ ~Taken(p[2])
<1>1. p[2] \in Calls /\ p = <<rid[p[2]], p[2]>>
  BY DEF CallTypeOK, Identity
<1> QED
  BY <1>1 DEF Reachable, Untaken

\* The front of a channel is in the channel.
LEMMA FrontAnswers ==
    ASSUME StreamTypeOK, NEW c \in Calls, chan[c] # <<>>, Terminal(Head(chan[c]))
    PROVE  /\ Answered(c) /\ 1 \in 1..Len(chan[c]) /\ Terminal(chan[c][1])
           /\ Len(Tail(chan[c])) # Len(chan[c])
<1>1. chan[c] \in Seq(Events)
  BY DEF StreamTypeOK
<1>2. 1 \in 1..Len(chan[c]) /\ Head(chan[c]) = chan[c][1] /\ Len(Tail(chan[c])) = Len(chan[c]) - 1
  BY <1>1, SeqParts
<1>3. Len(Tail(chan[c])) # Len(chan[c])
  BY <1>1, <1>2
<1> QED
  BY <1>2, <1>3 DEF Answered

\* Whoever takes an event that ends a call takes it after the entry has gone.
LEMMA UntakenStep ==
    ASSUME PcTypeOK, CallTypeOK, StreamTypeOK, Identity, Outcomes, Reachable, Settled, Untaken,
           CallTypeOK', [Next]_vars
    PROVE  Untaken'
<1> SUFFICES ASSUME NEW p \in pending', Taken(p[2])' PROVE FALSE
  BY DEF Untaken
<1>1. p[2] \in Calls
  BY DEF CallTypeOK
<1>2. Taken(p[2]) \/ (Consumes(p[2]) /\ Terminal(Head(chan[p[2]])))
  BY <1>1, TakenStep
<1>3. p \in pending \/ pc[p[2]] = "register"
  BY EntriesStep
<1>4. CASE Taken(p[2])
  BY <1>3, <1>4, EntryIsOpen DEF Taken
<1>5. CASE Consumes(p[2]) /\ Terminal(Head(chan[p[2]]))
  <2>1. p \in pending /\ chan[p[2]] # <<>>
    BY <1>5 DEF Consumes
  <2> QED
    BY <1>1, <1>5, <2>1, FrontAnswers, EntryIsOpen
<1> QED
  BY <1>2, <1>4, <1>5

\* A step that sends the call nothing keeps the count.
LEMMA OneFrame ==
    ASSUME NEW c \in Calls, One(c), chan'[c] = chan[c], InHand(c)' => InHand(c),
           Taken(c)' => Taken(c)
    PROVE  One(c)'
BY DEF One, Terminal

\* No call is sent a second event that ends it.
LEMMA OneStep ==
    ASSUME PcTypeOK, CallTypeOK, StreamTypeOK, Identity, Outcomes, Reachable, Settled, Untaken,
           [Next]_vars, NEW c \in Calls, One(c)
    PROVE  One(c)'
<1>0. chan[c] \in Seq(Events) /\ Len(chan[c]) \in Nat
  <2>1. chan[c] \in Seq(Events)
    BY DEF StreamTypeOK
  <2> QED
    BY <2>1
<1>1. CASE chan'[c] = chan[c] /\ ~(InHand(c)' /\ ~InHand(c))
  <2>1. Taken(c)' => Taken(c)
    BY <1>1, TakenStep, FrontAnswers DEF Consumes, StreamTypeOK
  <2> QED
    BY <1>1, <2>1, OneFrame
<1>2. CASE Quiet
  BY <1>1, <1>2 DEF Quiet, InHand, Terminal
<1>3. CASE RouteFound
  <2>1. PICK p \in pending : dest' = p[2]
    BY <1>3 DEF RouteFound
  <2>2. chan' = chan
    BY <1>3 DEF RouteFound, caller
  <2>3. CASE p[2] # c
    BY <1>1, <2>1, <2>2, <2>3 DEF InHand
  <2>4. CASE p[2] = c
    <3>1. ~Answered(c) /\ ~Taken(c)
      BY <2>4, EntryIsOpen
    <3>2. ~Taken(c)'
      BY <2>2, <3>1, TakenStep, FrontAnswers DEF Consumes
    <3> QED
      BY <2>2, <3>1, <3>2 DEF One, Answered, Terminal
  <2> QED
    BY <2>3, <2>4
<1>4. CASE Deliver
  <2>1. /\ pc[Reader] = "deliver" /\ pc'[Reader] = "read"
        /\ dest \in Calls /\ frame \in Events /\ dest' = Nobody
        /\ chan'[dest] = Append(chan[dest], frame)
        /\ \A d \in Calls \ {dest} : chan'[d] = chan[d]
    BY <1>4 DEF Deliver, Goto, PcTypeOK, StreamTypeOK, Threads
  <2>2. ~InHand(c)'
    BY <2>1 DEF InHand
  <2>3. CASE dest # c
    BY <1>1, <2>1, <2>2, <2>3
  <2>4. CASE dest = c
    <3>1. /\ Len(chan'[c]) = Len(chan[c]) + 1
          /\ \A i \in 1..Len(chan[c]) : chan'[c][i] = chan[c][i]
          /\ chan'[c][Len(chan[c]) + 1] = frame
      BY <1>0, <2>1, <2>4, AppendParts
    <3>2. Taken(c)' => Taken(c)
      <4>1. dest' # dest
        BY <2>1, ThreadAssumption DEF Threads
      <4> QED
        BY <4>1, TakenStep DEF Consumes
    <3>3. CASE Terminal(frame)
      <4>1. InHand(c)
        BY <2>1, <2>4, <3>3 DEF InHand
      <4>2. /\ \A i \in 1..Len(chan[c]) : ~Terminal(chan[c][i])
            /\ ~Taken(c)'
        BY <3>2, <4>1 DEF One
      <4>3. \A i \in 1..Len(chan'[c]) : Terminal(chan'[c][i]) => i = Len(chan[c]) + 1
        BY <1>0, <3>1, <4>2
      <4> QED
        BY <2>2, <4>2, <4>3 DEF One, Terminal
    <3>4. CASE ~Terminal(frame)
      <4>1. \A i \in 1..Len(chan'[c]) : Terminal(chan'[c][i])
                => i \in 1..Len(chan[c]) /\ Terminal(chan[c][i])
        BY <1>0, <3>1, <3>4
      <4> QED
        BY <2>2, <3>2, <4>1 DEF One, Terminal
    <3> QED
      BY <3>3, <3>4
  <2> QED
    BY <2>3, <2>4
<1>5. ASSUME NEW d \in Calls, Consumes(d) PROVE One(c)'
  <2>1. InHand(c)' => InHand(c)
    BY <1>5 DEF Consumes, InHand, Terminal
  <2>2. CASE d # c
    <3>1. chan'[c] = chan[c]
      BY <1>5, <2>2 DEF Consumes, StreamTypeOK
    <3> QED
      BY <1>1, <2>1, <3>1
  <2>3. CASE d = c
    <3>1. /\ chan'[c] = Tail(chan[c]) /\ Head(chan[c]) = chan[c][1] /\ 1 \in 1..Len(chan[c])
          /\ \A i \in 1..Len(chan'[c]) :
                 i \in Nat /\ i + 1 \in 1..Len(chan[c]) /\ chan'[c][i] = chan[c][i + 1]
      <4>1. chan[c] # <<>> /\ chan'[c] = Tail(chan[c])
        BY <1>5, <2>3 DEF Consumes, StreamTypeOK
      <4>2. \A i \in 1..Len(Tail(chan[c])) : i \in Nat
        BY <1>0, <4>1, SeqParts
      <4> QED
        BY <1>0, <4>1, <4>2, SeqParts
    <3>2. ASSUME NEW i \in 1..Len(chan'[c]), NEW j \in 1..Len(chan'[c]),
                 Terminal(chan'[c][i]), Terminal(chan'[c][j])
          PROVE  i = j
      <4>1. i + 1 = j + 1
        BY <3>1, <3>2 DEF One
      <4> QED
        BY <3>1, <4>1
    <3>3. ASSUME NEW i \in 1..Len(chan'[c]), Terminal(chan'[c][i])
          PROVE  ~InHand(c)' /\ ~Taken(c)'
      <4>1. i + 1 \in 1..Len(chan[c]) /\ Terminal(chan[c][i + 1]) /\ i + 1 # 1
        BY <3>1, <3>3
      <4>2. ~InHand(c) /\ ~Taken(c) /\ ~Terminal(Head(chan[c]))
        BY <3>1, <4>1 DEF One
      <4> QED
        BY <2>1, <4>2, TakenStep
    <3>4. ASSUME InHand(c)', Taken(c)' PROVE FALSE
      <4>1. InHand(c) /\ ~Taken(c) /\ ~Terminal(Head(chan[c]))
        BY <2>1, <3>1, <3>4 DEF One
      <4> QED
        BY <3>4, <4>1, TakenStep
    <3> QED
      BY <3>2, <3>3, <3>4 DEF One, Terminal
  <2> QED
    BY <2>2, <2>3
<1>6. CASE Drains
  <2>1. InHand(c)' => InHand(c)
    BY <1>6 DEF Drains, InHand, Terminal
  <2>2. CASE \A p \in pending : p[2] # c
    <3>1. chan'[c] = chan[c]
      BY <1>6, <2>2, DrainChannels DEF Drains
    <3> QED
      BY <1>1, <2>1, <3>1
  <2>3. CASE \E p \in pending : p[2] = c
    <3>1. ~Answered(c) /\ ~Taken(c)
      BY <2>3, EntryIsOpen
    <3>2. ~InHand(c)' /\ ~Taken(c)' /\ \A i \in 1..Len(chan[c]) : ~Terminal(chan[c][i])
      BY <2>1, <3>1, TakenStep, FrontAnswers DEF Consumes, Answered, InHand
    <3>3. chan'[c] = Append(chan[c], Event("Failure", 0))
      BY <1>6, <2>3 DEF Drains, Drain
    <3>4. /\ Len(chan'[c]) = Len(chan[c]) + 1
          /\ \A i \in 1..Len(chan[c]) : chan'[c][i] = chan[c][i]
      <4>1. Event("Failure", 0) \in Events
        BY EventType DEF ErrorKinds
      <4> QED
        BY <1>0, <3>3, <4>1, AppendParts
    <3>5. \A i \in 1..Len(chan'[c]) : Terminal(chan'[c][i]) => i = Len(chan[c]) + 1
      BY <1>0, <3>2, <3>4
    <3> QED
      BY <3>2, <3>5 DEF One, Terminal
  <2> QED
    BY <2>2, <2>3
<1> QED
  BY <1>2, <1>3, <1>4, <1>5, <1>6, ChannelCases

-----------------------------------------------------------------------------
(* Nothing left running.                                                   *)

\* Where a thread that leaves WorkerInner::fail is, and where the others are.
LEMMA AfterFailMoves ==
    ASSUME PcTypeOK, NEW t \in Failers, AfterFail(t)
    PROVE  /\ \A u \in Threads \ {t} : pc'[u] = pc[u]
           /\ t = Reader => pc'[t] \in {"read", "done"}
BY AfterSendType DEF PcTypeOK, AfterFail, Goto, Threads, Failers

\* A stopper joins after finish_shutdown has set the final state, and
\* finish_shutdown takes the child's handle before that.
LEMMA AtStopStep ==
    ASSUME WorkerTypeOK, PcTypeOK, AtStop, Phases, [Next]_vars
    PROVE  AtStop'
<1> USE DEF WorkerTypeOK, PcTypeOK, Threads, Failers, States
<1>1. ASSUME NEW d \in Calls, CallRefused(d) PROVE AtStop'
  BY <1>1, ThreadAssumption
  DEF CallRefused, Goto, worker, caller, reading, process, AtStop
<1>2. ASSUME NEW d \in Calls, CallStart(d) PROVE AtStop'
  BY <1>2, ThreadAssumption
  DEF CallStart, Goto, worker, caller, reading, process, AtStop
<1>3. ASSUME NEW d \in Calls, Send(d) PROVE AtStop'
  BY <1>3, ThreadAssumption
  DEF Send, Goto, worker, caller, reading, process, AtStop
<1>4. ASSUME NEW d \in Calls, SendRefused(d) PROVE AtStop'
  BY <1>4, ThreadAssumption, AfterSendType, AfterSendCases
  DEF SendRefused, SendError, SentFrame, Goto, worker, caller, reading, process,
       AtStop
<1>5. ASSUME NEW d \in Calls, SendClosed(d) PROVE AtStop'
  BY <1>5, ThreadAssumption, AfterSendType, AfterSendCases
  DEF SendClosed, SendError, SentFrame, Goto, worker, caller, reading, process,
       AtStop
<1>6. ASSUME NEW d \in Calls, SendTooLarge(d) PROVE AtStop'
  BY <1>6, ThreadAssumption
  DEF SendTooLarge, Goto, worker, caller, reading, process, AtStop
<1>7. ASSUME NEW d \in Calls, SendLock(d) PROVE AtStop'
  BY <1>7, ThreadAssumption
  DEF SendLock, Goto, worker, caller, reading, process, AtStop
<1>8. ASSUME NEW d \in Calls, Write(d) PROVE AtStop'
  BY <1>8, ThreadAssumption, AfterSendType, AfterSendCases
  DEF Write, SentFrame, Goto, worker, caller, reading, process, AtStop
<1>9. ASSUME NEW d \in Calls, WriteFails(d) PROVE AtStop'
  BY <1>9, ThreadAssumption
  DEF WriteFails, Goto, worker, caller, reading, process, AtStop
<1>10. ASSUME NEW d \in Calls, Register(d) PROVE AtStop'
  BY <1>10, ThreadAssumption
  DEF Register, Goto, worker, caller, reading, process, AtStop
<1>11. ASSUME NEW d \in Calls, Unregister(d) PROVE AtStop'
  BY <1>11, ThreadAssumption
  DEF Unregister, Goto, worker, caller, reading, process, AtStop
<1>12. ASSUME NEW d \in Calls, ReceiveAnswer(d) PROVE AtStop'
  BY <1>12, ThreadAssumption
  DEF ReceiveAnswer, Receives, Goto, worker, caller, reading, process, AtStop
<1>13. ASSUME NEW d \in Calls, ReceiveCancel(d) PROVE AtStop'
  BY <1>13, ThreadAssumption
  DEF ReceiveCancel, Receives, Goto, worker, caller, reading, process, AtStop
<1>14. ASSUME NEW d \in Calls, ReceiveNotification(d) PROVE AtStop'
  BY <1>14, ThreadAssumption
  DEF ReceiveNotification, Receives, Goto, worker, caller, reading, process, AtStop
<1>15. ASSUME NEW d \in Calls, ReceiveRequest(d) PROVE AtStop'
  BY <1>15, ThreadAssumption
  DEF ReceiveRequest, Receives, Goto, worker, caller, reading, process, AtStop
<1>16. ASSUME NEW d \in Calls, Expire(d) PROVE AtStop'
  BY <1>16, ThreadAssumption
  DEF Expire, Goto, worker, caller, reading, process, AtStop
<1>17. ASSUME NEW t \in Failers, FailWins(t) PROVE AtStop'
  BY <1>17, ThreadAssumption
  DEF FailWins, Goto, worker, caller, reading, process, AtStop
<1>18. ASSUME NEW t \in Failers, FailLoses(t) PROVE AtStop'
  BY <1>18, AfterFailMoves, ThreadAssumption
  DEF FailLoses, worker, process, AtStop, Phases
<1>19. ASSUME NEW t \in Failers, FailClose(t) PROVE AtStop'
  BY <1>19, ThreadAssumption
  DEF FailClose, Goto, worker, caller, reading, process, AtStop
<1>20. ASSUME NEW t \in Failers, FailKill(t) PROVE AtStop'
  BY <1>20, ThreadAssumption
  DEF FailKill, Goto, worker, caller, reading, process, AtStop
<1>21. ASSUME NEW t \in Failers, FailDrain(t) PROVE AtStop'
  BY <1>21, AfterFailMoves, ThreadAssumption
  DEF FailDrain, Drain, worker, process, AtStop, Phases
<1>22. CASE RouteFound
  BY <1>22, ThreadAssumption
  DEF RouteFound, ReadFrame, Goto, worker, caller, reading, process, AtStop
<1>23. CASE RouteLate
  BY <1>23, ThreadAssumption
  DEF RouteLate, ReadFrame, Goto, worker, caller, reading, process, AtStop
<1>24. CASE Deliver
  BY <1>24, ThreadAssumption
  DEF Deliver, Goto, worker, caller, reading, process, AtStop
<1>25. CASE ReadShutdown
  BY <1>25, ThreadAssumption
  DEF ReadShutdown, ReadFrame, Goto, worker, caller, reading, process, AtStop
<1>26. CASE ReadError
  BY <1>26, ThreadAssumption
  DEF ReadError, ReadFrame, Goto, worker, caller, reading, process, AtStop
<1>27. CASE ReadEof
  BY <1>27, ThreadAssumption
  DEF ReadEof, Goto, worker, caller, reading, process, AtStop
<1>28. ASSUME NEW s \in Stoppers, StopBegin(s) PROVE AtStop'
  BY <1>28, ThreadAssumption
  DEF StopBegin, Goto, worker, caller, reading, process, AtStop
<1>29. ASSUME NEW s \in Stoppers, StopLate(s) PROVE AtStop'
  BY <1>29, ThreadAssumption
  DEF StopLate, Goto, worker, caller, reading, process, AtStop
<1>30. ASSUME NEW s \in Stoppers, StopClose(s) PROVE AtStop'
  BY <1>30, ThreadAssumption
  DEF StopClose, Goto, worker, caller, reading, process, AtStop
<1>31. ASSUME NEW s \in Stoppers, StopLock(s) PROVE AtStop'
  BY <1>31, ThreadAssumption
  DEF StopLock, Goto, worker, caller, reading, process, AtStop
<1>32. ASSUME NEW s \in Stoppers, StopBye(s) PROVE AtStop'
  BY <1>32, ThreadAssumption
  DEF StopBye, Goto, worker, caller, reading, process, AtStop
<1>33. ASSUME NEW s \in Stoppers, StopFinish(s) PROVE AtStop'
  BY <1>33, ThreadAssumption
  DEF StopFinish, Goto, worker, caller, reading, process, AtStop
<1>34. ASSUME NEW s \in Stoppers, StopTake(s) PROVE AtStop'
  BY <1>34, ThreadAssumption
  DEF StopTake, Goto, worker, caller, reading, process, AtStop
<1>35. ASSUME NEW s \in Stoppers, StopReap(s) PROVE AtStop'
  BY <1>35, ThreadAssumption
  DEF StopReap, Goto, worker, caller, reading, process, AtStop
<1>36. ASSUME NEW s \in Stoppers, StopMark(s) PROVE AtStop'
  BY <1>36, ThreadAssumption
  DEF StopMark, Goto, worker, caller, reading, process, AtStop
<1>37. ASSUME NEW s \in Stoppers, StopSweep(s) PROVE AtStop'
  BY <1>37, ThreadAssumption
  DEF StopSweep, Goto, worker, caller, reading, process, AtStop
<1>38. ASSUME NEW s \in Stoppers, StopJoin(s) PROVE AtStop'
  BY <1>38, ThreadAssumption
  DEF StopJoin, Goto, worker, caller, reading, process, AtStop
<1>39. ASSUME NEW s \in Stoppers, StopJoined(s) PROVE AtStop'
  BY <1>39, ThreadAssumption
  DEF StopJoined, Goto, worker, caller, reading, process, AtStop
<1>40. CASE ChildRead
  BY <1>40, ThreadAssumption
  DEF ChildRead, Goto, worker, caller, reading, process, AtStop
<1>41. CASE ChildEmit
  BY <1>41, ThreadAssumption
  DEF ChildEmit, Goto, worker, caller, reading, process, AtStop
<1>42. CASE ChildDetach
  BY <1>42, ThreadAssumption
  DEF ChildDetach, Goto, worker, caller, reading, process, AtStop
<1>43. CASE ChildExit
  BY <1>43, ThreadAssumption
  DEF ChildExit, Goto, worker, caller, reading, process, AtStop
<1>44. CASE UNCHANGED vars
  BY <1>44, ThreadAssumption DEF vars, worker, caller, reading, process, AtStop
<1> QED
  BY <1>1, <1>2, <1>3, <1>4, <1>5, <1>6, <1>7, <1>8, <1>9, <1>10, <1>11, <1>12,
       <1>13, <1>14, <1>15, <1>16, <1>17, <1>18, <1>19, <1>20, <1>21, <1>22, <1>23,
       <1>24, <1>25, <1>26, <1>27, <1>28, <1>29, <1>30, <1>31, <1>32, <1>33, <1>34,
       <1>35, <1>36, <1>37, <1>38, <1>39, <1>40, <1>41, <1>42, <1>43, <1>44
  DEF Next, CallStep, SendStep, FailStep, RequestStep, ReaderStep, StopStep, ChildStep,
      Finished, Failers

\* A stopper ends what it has taken: it kills the child whose handle it took,
\* closes the writer of a worker it stopped, and waits for the reader it joins.
LEMMA RetiredStep ==
    ASSUME WorkerTypeOK, PcTypeOK, AtStop, Phases, Retired, [Next]_vars
    PROVE  Retired'
<1> USE DEF WorkerTypeOK, PcTypeOK, Threads, Failers, States
<1>1. ASSUME NEW d \in Calls, CallRefused(d) PROVE Retired'
  BY <1>1, ThreadAssumption
  DEF CallRefused, Goto, worker, caller, reading, process, Retired
<1>2. ASSUME NEW d \in Calls, CallStart(d) PROVE Retired'
  BY <1>2, ThreadAssumption
  DEF CallStart, Goto, worker, caller, reading, process, Retired
<1>3. ASSUME NEW d \in Calls, Send(d) PROVE Retired'
  BY <1>3, ThreadAssumption
  DEF Send, Goto, worker, caller, reading, process, Retired
<1>4. ASSUME NEW d \in Calls, SendRefused(d) PROVE Retired'
  BY <1>4, ThreadAssumption, AfterSendType, AfterSendCases
  DEF SendRefused, SendError, SentFrame, Goto, worker, caller, reading, process,
       Retired
<1>5. ASSUME NEW d \in Calls, SendClosed(d) PROVE Retired'
  BY <1>5, ThreadAssumption, AfterSendType, AfterSendCases
  DEF SendClosed, SendError, SentFrame, Goto, worker, caller, reading, process,
       Retired
<1>6. ASSUME NEW d \in Calls, SendTooLarge(d) PROVE Retired'
  BY <1>6, ThreadAssumption
  DEF SendTooLarge, Goto, worker, caller, reading, process, Retired
<1>7. ASSUME NEW d \in Calls, SendLock(d) PROVE Retired'
  BY <1>7, ThreadAssumption
  DEF SendLock, Goto, worker, caller, reading, process, Retired
<1>8. ASSUME NEW d \in Calls, Write(d) PROVE Retired'
  BY <1>8, ThreadAssumption, AfterSendType, AfterSendCases
  DEF Write, SentFrame, Goto, worker, caller, reading, process, Retired
<1>9. ASSUME NEW d \in Calls, WriteFails(d) PROVE Retired'
  BY <1>9, ThreadAssumption
  DEF WriteFails, Goto, worker, caller, reading, process, Retired
<1>10. ASSUME NEW d \in Calls, Register(d) PROVE Retired'
  BY <1>10, ThreadAssumption
  DEF Register, Goto, worker, caller, reading, process, Retired
<1>11. ASSUME NEW d \in Calls, Unregister(d) PROVE Retired'
  BY <1>11, ThreadAssumption
  DEF Unregister, Goto, worker, caller, reading, process, Retired
<1>12. ASSUME NEW d \in Calls, ReceiveAnswer(d) PROVE Retired'
  BY <1>12, ThreadAssumption
  DEF ReceiveAnswer, Receives, Goto, worker, caller, reading, process, Retired
<1>13. ASSUME NEW d \in Calls, ReceiveCancel(d) PROVE Retired'
  BY <1>13, ThreadAssumption
  DEF ReceiveCancel, Receives, Goto, worker, caller, reading, process, Retired
<1>14. ASSUME NEW d \in Calls, ReceiveNotification(d) PROVE Retired'
  BY <1>14, ThreadAssumption
  DEF ReceiveNotification, Receives, Goto, worker, caller, reading, process, Retired
<1>15. ASSUME NEW d \in Calls, ReceiveRequest(d) PROVE Retired'
  BY <1>15, ThreadAssumption
  DEF ReceiveRequest, Receives, Goto, worker, caller, reading, process, Retired
<1>16. ASSUME NEW d \in Calls, Expire(d) PROVE Retired'
  BY <1>16, ThreadAssumption
  DEF Expire, Goto, worker, caller, reading, process, Retired
<1>17. ASSUME NEW t \in Failers, FailWins(t) PROVE Retired'
  BY <1>17, ThreadAssumption
  DEF FailWins, Goto, worker, caller, reading, process, Retired
<1>18. ASSUME NEW t \in Failers, FailLoses(t) PROVE Retired'
  BY <1>18, AfterFailMoves, ThreadAssumption
  DEF FailLoses, worker, process, Retired, Phases
<1>19. ASSUME NEW t \in Failers, FailClose(t) PROVE Retired'
  BY <1>19, ThreadAssumption
  DEF FailClose, Goto, worker, caller, reading, process, Retired
<1>20. ASSUME NEW t \in Failers, FailKill(t) PROVE Retired'
  BY <1>20, ThreadAssumption
  DEF FailKill, Goto, worker, caller, reading, process, Retired
<1>21. ASSUME NEW t \in Failers, FailDrain(t) PROVE Retired'
  BY <1>21, AfterFailMoves, ThreadAssumption
  DEF FailDrain, Drain, worker, process, Retired, Phases
<1>22. CASE RouteFound
  BY <1>22, ThreadAssumption
  DEF RouteFound, ReadFrame, Goto, worker, caller, reading, process, Retired
<1>23. CASE RouteLate
  BY <1>23, ThreadAssumption
  DEF RouteLate, ReadFrame, Goto, worker, caller, reading, process, Retired
<1>24. CASE Deliver
  BY <1>24, ThreadAssumption
  DEF Deliver, Goto, worker, caller, reading, process, Retired
<1>25. CASE ReadShutdown
  BY <1>25, ThreadAssumption
  DEF ReadShutdown, ReadFrame, Goto, worker, caller, reading, process, Retired
<1>26. CASE ReadError
  BY <1>26, ThreadAssumption
  DEF ReadError, ReadFrame, Goto, worker, caller, reading, process, Retired
<1>27. CASE ReadEof
  BY <1>27, ThreadAssumption
  DEF ReadEof, Goto, worker, caller, reading, process, Retired
<1>28. ASSUME NEW s \in Stoppers, StopBegin(s) PROVE Retired'
  BY <1>28, ThreadAssumption
  DEF StopBegin, Goto, worker, caller, reading, process, Retired
<1>29. ASSUME NEW s \in Stoppers, StopLate(s) PROVE Retired'
  BY <1>29, ThreadAssumption
  DEF StopLate, Goto, worker, caller, reading, process, Retired
<1>30. ASSUME NEW s \in Stoppers, StopClose(s) PROVE Retired'
  BY <1>30, ThreadAssumption
  DEF StopClose, Goto, worker, caller, reading, process, Retired
<1>31. ASSUME NEW s \in Stoppers, StopLock(s) PROVE Retired'
  BY <1>31, ThreadAssumption
  DEF StopLock, Goto, worker, caller, reading, process, Retired
<1>32. ASSUME NEW s \in Stoppers, StopBye(s) PROVE Retired'
  BY <1>32, ThreadAssumption
  DEF StopBye, Goto, worker, caller, reading, process, Retired
<1>33. ASSUME NEW s \in Stoppers, StopFinish(s) PROVE Retired'
  BY <1>33, ThreadAssumption
  DEF StopFinish, Goto, worker, caller, reading, process, Retired
<1>34. ASSUME NEW s \in Stoppers, StopTake(s) PROVE Retired'
  BY <1>34, ThreadAssumption
  DEF StopTake, Goto, worker, caller, reading, process, Retired
<1>35. ASSUME NEW s \in Stoppers, StopReap(s) PROVE Retired'
  BY <1>35, ThreadAssumption
  DEF StopReap, Goto, worker, caller, reading, process, Retired
<1>36. ASSUME NEW s \in Stoppers, StopMark(s) PROVE Retired'
  BY <1>36, ThreadAssumption
  DEF StopMark, Goto, worker, caller, reading, process, Retired, Phases
<1>37. ASSUME NEW s \in Stoppers, StopSweep(s) PROVE Retired'
  BY <1>37, ThreadAssumption
  DEF StopSweep, Goto, worker, caller, reading, process, Retired
<1>38. ASSUME NEW s \in Stoppers, StopJoin(s) PROVE Retired'
  BY <1>38, ThreadAssumption
  DEF StopJoin, Goto, worker, caller, reading, process, Retired
<1>39. ASSUME NEW s \in Stoppers, StopJoined(s) PROVE Retired'
  BY <1>39, ThreadAssumption
  DEF StopJoined, Goto, worker, caller, reading, process, Retired
<1>40. CASE ChildRead
  BY <1>40, ThreadAssumption
  DEF ChildRead, Goto, worker, caller, reading, process, Retired
<1>41. CASE ChildEmit
  BY <1>41, ThreadAssumption
  DEF ChildEmit, Goto, worker, caller, reading, process, Retired
<1>42. CASE ChildDetach
  BY <1>42, ThreadAssumption
  DEF ChildDetach, Goto, worker, caller, reading, process, Retired
<1>43. CASE ChildExit
  BY <1>43, ThreadAssumption
  DEF ChildExit, Goto, worker, caller, reading, process, Retired
<1>44. CASE UNCHANGED vars
  BY <1>44, ThreadAssumption DEF vars, worker, caller, reading, process, Retired
<1> QED
  BY <1>1, <1>2, <1>3, <1>4, <1>5, <1>6, <1>7, <1>8, <1>9, <1>10, <1>11, <1>12,
       <1>13, <1>14, <1>15, <1>16, <1>17, <1>18, <1>19, <1>20, <1>21, <1>22, <1>23,
       <1>24, <1>25, <1>26, <1>27, <1>28, <1>29, <1>30, <1>31, <1>32, <1>33, <1>34,
       <1>35, <1>36, <1>37, <1>38, <1>39, <1>40, <1>41, <1>42, <1>43, <1>44
  DEF Next, CallStep, SendStep, FailStep, RequestStep, ReaderStep, StopStep, ChildStep,
      Finished, Failers

-----------------------------------------------------------------------------
(* The theorems.                                                           *)

\* One is OneOutcome of one call.
LEMMA OneIsOneOutcome == (\A c \in Calls : One(c)) <=> OneOutcome
BY DEF OneOutcome, One, InHand, Taken

\* Both strengthenings and OneOutcome hold when a worker has been spawned.
LEMMA InitEndings ==
    Init => Settled /\ Untaken /\ (\A c \in Calls : One(c)) /\ AtStop /\ Retired
<1> SUFFICES ASSUME Init PROVE Settled /\ Untaken /\ (\A c \in Calls : One(c)) /\ AtStop /\ Retired
  OBVIOUS
<1>0. /\ \A c \in Calls : pc[c] = "idle" /\ chan[c] = <<>>
      /\ \A s \in Stoppers : pc[s] = "idle"
      /\ pc[Reader] = "read" /\ state = "running" /\ pending = {}
      /\ handle = "Some" /\ joinable = "Some"
  BY ThreadAssumption DEF Init, Threads
<1>1. Settled /\ Untaken /\ AtStop /\ Retired
  BY <1>0 DEF Settled, Untaken, AtStop, Retired
<1>2. ASSUME NEW c \in Calls PROVE One(c)
  <2>1. chan[c] = <<>> /\ ~InHand(c) /\ ~Taken(c)
    BY <1>0 DEF InHand, Taken
  <2> QED
    BY <2>1 DEF One
<1> QED
  BY <1>1, <1>2

\* A call of request_inner is sent at most one event that ends it, counting the
\* one it has returned, whatever the child answers and however route, fail and
\* finish_shutdown interleave.
THEOREM OneOutcomePerCall == Spec => []OneOutcome
<1> DEFINE Once == Settled /\ Untaken /\ \A c \in Calls : One(c)
<1>1. TypeOK /\ TypeOK' /\ IndInv /\ Once /\ [Next]_vars => Once'
  BY SettledStep, UntakenStep, OneStep DEF TypeOK, IndInv
<1>2. Init => Once
  BY InitEndings
<1>3. Once => OneOutcome
  BY OneIsOneOutcome
<1> HIDE DEF Once
<1> QED
  BY <1>1, <1>2, <1>3, TypeCorrect, Inductive, PTL DEF Spec

\* When every shutdown that has begun has returned, the process is dead, the
\* reader thread is over, the writer is closed and the pending map holds only
\* entries that their calls remove themselves.
THEOREM ShutdownIsComplete == Spec => []NothingLeftRunning
<1>1. TypeOK /\ IndInv /\ AtStop /\ Retired /\ [Next]_vars => AtStop' /\ Retired'
  BY AtStopStep, RetiredStep DEF TypeOK, IndInv
<1>2. TypeOK /\ IndInv /\ AtStop /\ Retired => NothingLeftRunning
  <2> SUFFICES ASSUME TypeOK, IndInv, AtStop, Retired,
                      NEW s \in Stoppers, pc[s] = "done",
                      \A t \in Stoppers : pc[t] \in {"idle", "done"}
               PROVE  /\ child = "dead" /\ pc[Reader] = "done" /\ writer = "None"
                      /\ \A p \in pending : pc[p[2]] \in {"send", "unregister"}
    BY DEF NothingLeftRunning
  <2>1. state = "stopped" /\ handle = "None" /\ joinable = "None"
    BY DEF AtStop, Retired
  <2>2. child = "dead" /\ pc[Reader] = "done" /\ writer = "None"
    BY <2>1 DEF Retired
  <2>3. ~DrainComing
    BY <2>1 DEF DrainComing
  <2>4. \A p \in pending : Removes(p[2])
    BY <2>1, <2>3 DEF IndInv, Drainable
  <2> QED
    BY <2>2, <2>4 DEF Removes
<1> QED
  BY <1>1, <1>2, InitEndings, TypeCorrect, Inductive, PTL DEF Spec
=============================================================================
