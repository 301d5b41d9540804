--------------------------- MODULE ExtensionWorker ---------------------------
(***************************************************************************)
(* One extension worker: a child process that Mago drives over pipes, the  *)
(* threads of the host that share it, and the protocol between them        *)
(* (crates/extension/src/worker.rs, with the frames of protocol.rs).       *)
(*                                                                         *)
(* The host side is multi-threaded: any number of calls (request_inner)    *)
(* share one writer mutex and one `pending` map, a reader thread routes    *)
(* what the child writes, and any number of stoppers run                   *)
(* Worker::shutdown.  A thread's program counter names its next step; a    *)
(* step is what the code does between two points where another thread can  *)
(* interfere.  The `pending`, `child` and `stderr` mutexes protect short   *)
(* sections and are part of one step each; the writer mutex is held across *)
(* a blocking write and is explicit.                                       *)
(*                                                                         *)
(* The child is arbitrary: it may answer with any id, twice, late or       *)
(* never, send garbage, stop reading, close its pipes, exit.               *)
(***************************************************************************)
EXTENDS Integers, Sequences

CONSTANTS
    Calls,        \* invocations of request_inner, one per call
    Handled,      \* the calls that install a handler for nested requests
    Stoppers,     \* invocations of Worker::shutdown
    Reader,       \* the stdout reader thread
    Nobody,       \* no thread
    PipeCapacity, \* frames the child's stdin pipe holds before a write blocks
    ChildFrames   \* bound: frames the child writes

Threads == Calls \cup Stoppers \cup {Reader}
Failers == Calls \cup {Reader}

ASSUME ThreadAssumption ==
    /\ Handled \subseteq Calls
    /\ Calls \cap Stoppers = {}
    /\ Reader \notin Calls \cup Stoppers
    /\ Nobody \notin Threads

ASSUME BoundAssumption ==
    /\ PipeCapacity \in Nat \ {0}
    /\ ChildFrames \in Nat

VARIABLES
    state,     \* WorkerInner::state
    nextId,    \* WorkerInner::next_request_id
    pending,   \* WorkerInner::pending, as pairs <<request id, call>>
    writer,    \* WorkerInner::writer: Some or None
    lockedBy,  \* the holder of the writer mutex
    handle,    \* WorkerInner::child: Some or None
    joinable,  \* Worker::reader_thread: Some or None
    pc,        \* the next step of each thread
    rid,       \* request_id of each call
    out,       \* the frame each call is sending
    chan,      \* the mpsc channel of each call
    result,    \* what each call returns
    dest,      \* the sender the reader has looked up
    frame,     \* the frame the reader is routing
    streaming, \* whether the reader has met the end of stdout
    prior,     \* the state begin_shutdown has replaced
    child,     \* the process
    inPipe,    \* frames in the child's stdin pipe
    stdout,    \* frames in the child's stdout pipe
    emitted    \* frames the child has written

worker  == <<state, nextId, pending, writer, lockedBy, handle, joinable>>
caller  == <<rid, out, chan, result>>
reading == <<dest, frame, streaming>>
process == <<child, inPipe, stdout, emitted>>
vars    == <<worker, pc, caller, reading, prior, process>>

States == {"running", "failed", "stopping", "stopped"}

\* Frames that answer a call, frames that belong to a call, frames that do not.
AnswerKinds == {"Response", "RemoteError"}
RoutedKinds == AnswerKinds \cup {"Request", "Notification", "Cancel"}
StreamKinds == {"Shutdown", "Garbage"}
ErrorKinds  == {"Failure", "Disconnected", "Protocol", "Timeout", "UnexpectedRequest"}
SendKinds   == {"Request", "Reply", "Reject", "Cancel"}

Event(k, i) == [kind |-> k, id |-> i]
Events      == [kind : RoutedKinds \cup StreamKinds \cup ErrorKinds, id : Nat]
NoEvent     == Event("Failure", 0)

\* A call that meets one of these in its channel returns.
Terminal(e) == e.kind \in AnswerKinds \cup {"Failure"}

CallSteps   == {"idle", "register", "send", "lock", "write", "fail", "close",
                "kill", "drain", "wait", "unregister", "done"}
ReaderSteps == {"read", "deliver", "fail", "close", "kill", "drain", "done"}
StopSteps   == {"idle", "closing", "bye", "finish", "poll", "reap", "mark",
                "sweep", "join", "joining", "done"}

Init ==
    /\ state = "running" /\ nextId = 1 /\ pending = {}
    /\ writer = "Some" /\ lockedBy = Nobody
    /\ handle = "Some" /\ joinable = "Some"
    /\ pc = [t \in Threads |-> IF t = Reader THEN "read" ELSE "idle"]
    /\ rid = [c \in Calls |-> 0]
    /\ out = [c \in Calls |-> "none"]
    /\ chan = [c \in Calls |-> <<>>]
    /\ result = [c \in Calls |-> NoEvent]
    /\ dest = Nobody /\ frame = NoEvent /\ streaming = "open"
    /\ prior = [s \in Stoppers |-> "running"]
    /\ child = "alive" /\ inPipe = 0 /\ stdout = <<>> /\ emitted = 0

Goto(t, step) == pc' = [pc EXCEPT ![t] = step]

-----------------------------------------------------------------------------
(* The pending map.                                                        *)

Insert(i, c) == {p \in pending : p[1] # i} \cup {<<i, c>>}
Remove(i)    == {p \in pending : p[1] # i}

\* std::mem::take on the map, then one Failure to every sender it held.  The
\* sends do not block and go to different channels: one step.
Drain ==
    /\ pending' = {}
    /\ chan' = [c \in Calls |-> IF \E p \in pending : p[2] = c
                                THEN Append(chan[c], Event("Failure", 0))
                                ELSE chan[c]]

-----------------------------------------------------------------------------
(* WorkerInner::send, run by a call for the frame out[c].                  *)

\* Mutant: the deadline returns without failing the worker.
AfterSendNoFail(c, sent) ==
    CASE out[c] = "Request" -> IF sent THEN "wait" ELSE "unregister"
      [] out[c] = "Reply"   -> IF sent THEN "wait" ELSE "done"
      [] out[c] = "Reject"  -> "unregister"
      [] OTHER              -> "done"

\* Where request_inner continues after a send, and with which result: only
\* the errors of an outer request and of a nested reply are returned.
AfterSend(c, sent) ==
    CASE out[c] = "Request" -> IF sent THEN "wait" ELSE "unregister"
      [] out[c] = "Reply"   -> IF sent THEN "wait" ELSE "done"
      [] out[c] = "Reject"  -> "unregister"
      [] OTHER              -> "fail"

SendError(c, k) ==
    result' = IF out[c] \in {"Request", "Reply"}
              THEN [result EXCEPT ![c] = Event(k, rid[c])] ELSE result

\* The deadline's cancel frame is followed by a fail of its own.
SentFrame(c) == out' = [out EXCEPT ![c] = IF @ = "Cancel" THEN "none" ELSE @]

\* The state check at the top of send.
Send(c) ==
    /\ pc[c] = "send" /\ state = "running"
    /\ Goto(c, "lock")
    /\ UNCHANGED <<worker, caller, reading, prior, process>>

SendRefused(c) ==
    /\ pc[c] = "send" /\ state # "running"
    /\ Goto(c, AfterSend(c, FALSE))
    /\ SendError(c, "Disconnected") /\ SentFrame(c)
    /\ UNCHANGED <<worker, rid, chan, reading, prior, process>>

\* The writer mutex is free, but the writer has been taken.
SendClosed(c) ==
    /\ pc[c] = "lock" /\ lockedBy = Nobody /\ writer = "None"
    /\ Goto(c, AfterSend(c, FALSE))
    /\ SendError(c, "Disconnected") /\ SentFrame(c)
    /\ UNCHANGED <<worker, rid, chan, reading, prior, process>>

\* write_to refuses a payload above the limit before it writes a byte; a
\* cancel frame has no payload.
SendTooLarge(c) ==
    /\ pc[c] = "lock" /\ lockedBy = Nobody /\ writer = "Some" /\ out[c] # "Cancel"
    /\ Goto(c, "fail")
    /\ UNCHANGED <<worker, caller, reading, prior, process>>

SendLock(c) ==
    /\ pc[c] = "lock" /\ lockedBy = Nobody /\ writer = "Some"
    /\ lockedBy' = c
    /\ Goto(c, "write")
    /\ UNCHANGED <<state, nextId, pending, writer, handle, joinable,
                   caller, reading, prior, process>>

\* The write blocks, with the mutex held, while the pipe is full.
Write(c) ==
    /\ pc[c] = "write" /\ child = "alive" /\ inPipe < PipeCapacity
    /\ inPipe' = inPipe + 1
    /\ lockedBy' = Nobody
    /\ Goto(c, AfterSend(c, TRUE)) /\ SentFrame(c)
    /\ UNCHANGED <<state, nextId, pending, writer, handle, joinable, rid, chan,
                   result, reading, prior, child, stdout, emitted>>

\* Mutant: the writer mutex is still held when fail is called.
WriteFailsLocked(c) ==
    /\ pc[c] = "write" /\ child # "alive"
    /\ Goto(c, "fail")
    /\ UNCHANGED <<worker, caller, reading, prior, process>>

\* Nobody reads the pipe any more: the write fails, the mutex is released and
\* the worker is failed.
WriteFails(c) ==
    /\ pc[c] = "write" /\ child # "alive"
    /\ lockedBy' = Nobody
    /\ Goto(c, "fail")
    /\ UNCHANGED <<state, nextId, pending, writer, handle, joinable,
                   caller, reading, prior, process>>

-----------------------------------------------------------------------------
(* WorkerInner::fail, run by a call after a failed write and after its     *)
(* deadline, and by the reader.                                            *)

AfterFail(t) ==
    IF t = Reader
    THEN /\ Goto(t, IF streaming = "open" THEN "read" ELSE "done")
         /\ UNCHANGED <<out, result>>
    ELSE IF out[t] = "none"
    THEN Goto(t, "done") /\ UNCHANGED <<out, result>>
    ELSE Goto(t, AfterSend(t, FALSE)) /\ SendError(t, "Protocol") /\ SentFrame(t)

FailWins(t) ==
    /\ pc[t] = "fail" /\ state = "running"
    /\ state' = "failed"
    /\ Goto(t, "close")
    /\ UNCHANGED <<nextId, pending, writer, lockedBy, handle, joinable,
                   caller, reading, prior, process>>

\* The compare_exchange fails: another thread has failed or stopped the worker.
FailLoses(t) ==
    /\ pc[t] = "fail" /\ state # "running"
    /\ AfterFail(t)
    /\ UNCHANGED <<worker, rid, chan, reading, prior, process>>

FailClose(t) ==
    /\ pc[t] = "close" /\ lockedBy = Nobody
    /\ writer' = "None"
    /\ Goto(t, "kill")
    /\ UNCHANGED <<state, nextId, pending, lockedBy, handle, joinable,
                   caller, reading, prior, process>>

\* A stopper may already own the child; then it does the killing.
FailKill(t) ==
    /\ pc[t] = "kill"
    /\ child' = IF handle = "Some" THEN "dead" ELSE child
    /\ Goto(t, "drain")
    /\ UNCHANGED <<worker, caller, reading, prior, inPipe, stdout, emitted>>

FailDrain(t) ==
    /\ pc[t] = "drain"
    /\ Drain /\ AfterFail(t)
    /\ UNCHANGED <<state, nextId, writer, lockedBy, handle, joinable, rid,
                   reading, prior, process>>

-----------------------------------------------------------------------------
(* Worker::request_inner.                                                  *)

CallRefused(c) ==
    /\ pc[c] = "idle" /\ state # "running"
    /\ result' = [result EXCEPT ![c] = Event("Disconnected", 0)]
    /\ Goto(c, "done")
    /\ UNCHANGED <<worker, rid, out, chan, reading, prior, process>>

\* Mutant: two calls read next_request_id before either increments it.
CallStartSameId(c) ==
    /\ pc[c] = "idle" /\ state = "running"
    /\ rid' = [rid EXCEPT ![c] = nextId]
    /\ \/ nextId' = nextId + 1
       \/ UNCHANGED nextId
    /\ Goto(c, "register")
    /\ UNCHANGED <<state, pending, writer, lockedBy, handle, joinable, out, chan,
                   result, reading, prior, process>>

\* next_request_id, after the is_running check.
CallStart(c) ==
    /\ pc[c] = "idle" /\ state = "running"
    /\ rid' = [rid EXCEPT ![c] = nextId]
    /\ nextId' = nextId + 1
    /\ Goto(c, "register")
    /\ UNCHANGED <<state, pending, writer, lockedBy, handle, joinable, out, chan,
                   result, reading, prior, process>>

Register(c) ==
    /\ pc[c] = "register"
    /\ pending' = Insert(rid[c], c)
    /\ out' = [out EXCEPT ![c] = "Request"]
    /\ Goto(c, "send")
    /\ UNCHANGED <<state, nextId, writer, lockedBy, handle, joinable, rid, chan,
                   result, reading, prior, process>>

\* Mutant: a cancelled call leaves its entry behind.
UnregisterKeeps(c) ==
    /\ pc[c] = "unregister"
    /\ Goto(c, "done")
    /\ UNCHANGED <<worker, caller, reading, prior, process>>

Unregister(c) ==
    /\ pc[c] = "unregister"
    /\ pending' = Remove(rid[c])
    /\ Goto(c, "done")
    /\ UNCHANGED <<state, nextId, writer, lockedBy, handle, joinable, caller,
                   reading, prior, process>>

\* recv_timeout returned an event.
Receives(c, kinds) ==
    /\ pc[c] = "wait" /\ chan[c] # <<>>
    /\ Head(chan[c]).kind \in kinds
    /\ chan' = [chan EXCEPT ![c] = Tail(@)]

ReceiveAnswer(c) ==
    /\ Receives(c, AnswerKinds \cup {"Failure"})
    /\ result' = [result EXCEPT ![c] = Head(chan[c])]
    /\ Goto(c, "done")
    /\ UNCHANGED <<worker, rid, out, reading, prior, process>>

ReceiveCancel(c) ==
    /\ Receives(c, {"Cancel"})
    /\ result' = [result EXCEPT ![c] = Head(chan[c])]
    /\ Goto(c, "unregister")
    /\ UNCHANGED <<worker, rid, out, reading, prior, process>>

ReceiveNotification(c) ==
    /\ Receives(c, {"Notification"})
    /\ UNCHANGED <<worker, pc, rid, out, result, reading, prior, process>>

\* A nested request: the handler's reply is sent; without a handler the call
\* sends an error and gives up.
ReceiveRequest(c) ==
    /\ Receives(c, {"Request"})
    /\ IF c \in Handled
       THEN out' = [out EXCEPT ![c] = "Reply"] /\ UNCHANGED result
       ELSE /\ out' = [out EXCEPT ![c] = "Reject"]
            /\ result' = [result EXCEPT ![c] = Event("UnexpectedRequest", rid[c])]
    /\ Goto(c, "send")
    /\ UNCHANGED <<worker, rid, reading, prior, process>>

\* The deadline: checked_sub before recv_timeout, so it may win over an event
\* that is already in the channel.  Worker::timeout removes the entry, sends a
\* cancel frame whatever becomes of it, and fails the worker.
Expire(c) ==
    /\ pc[c] = "wait"
    /\ pending' = Remove(rid[c])
    /\ out' = [out EXCEPT ![c] = "Cancel"]
    /\ result' = [result EXCEPT ![c] = Event("Timeout", rid[c])]
    /\ Goto(c, "send")
    /\ UNCHANGED <<state, nextId, writer, lockedBy, handle, joinable, rid, chan,
                   reading, prior, process>>

-----------------------------------------------------------------------------
(* read_worker_stream and WorkerInner::route.                              *)

ReadFrame(kinds) ==
    /\ pc[Reader] = "read" /\ stdout # <<>>
    /\ Head(stdout).kind \in kinds
    /\ stdout' = Tail(stdout)

\* Mutant: an answer is looked up and not removed.
RouteKeeps ==
    /\ ReadFrame(RoutedKinds)
    /\ \E p \in pending : p[1] = Head(stdout).id /\ dest' = p[2]
    /\ frame' = Head(stdout)
    /\ Goto(Reader, "deliver")
    /\ UNCHANGED <<worker, caller, streaming, prior, child, inPipe, emitted>>

\* The sender is looked up under the lock of `pending` and used after it.
RouteFound ==
    /\ ReadFrame(RoutedKinds)
    /\ \E p \in pending : p[1] = Head(stdout).id /\ dest' = p[2]
    /\ frame' = Head(stdout)
    /\ pending' = IF Head(stdout).kind \in AnswerKinds
                  THEN Remove(Head(stdout).id) ELSE pending
    /\ Goto(Reader, "deliver")
    /\ UNCHANGED <<state, nextId, writer, lockedBy, handle, joinable, caller,
                   streaming, prior, child, inPipe, emitted>>

\* Mutant: a late frame is delivered although nobody is registered for it.
RouteLateDelivers ==
    /\ ReadFrame(RoutedKinds)
    /\ \A p \in pending : p[1] # Head(stdout).id
    /\ frame' = Head(stdout)
    /\ Goto(Reader, "deliver")
    /\ UNCHANGED <<worker, caller, dest, streaming, prior, child, inPipe, emitted>>

\* No association (id zero), or no such request any more.
RouteLate ==
    /\ ReadFrame(RoutedKinds)
    /\ \A p \in pending : p[1] # Head(stdout).id
    /\ UNCHANGED <<worker, pc, caller, reading, prior, child, inPipe, emitted>>

Deliver ==
    /\ pc[Reader] = "deliver"
    /\ chan' = [chan EXCEPT ![dest] = Append(@, frame)]
    /\ dest' = Nobody /\ frame' = NoEvent
    /\ Goto(Reader, "read")
    /\ UNCHANGED <<worker, rid, out, result, streaming, prior, process>>

ReadShutdown ==
    /\ ReadFrame({"Shutdown"})
    /\ Goto(Reader, "fail")
    /\ UNCHANGED <<worker, caller, reading, prior, child, inPipe, emitted>>

\* A frame that cannot be decoded, or a truncated one, ends the reader.
ReadError ==
    /\ ReadFrame({"Garbage"})
    /\ streaming' = "ended"
    /\ Goto(Reader, "fail")
    /\ UNCHANGED <<worker, caller, dest, frame, prior, child, inPipe, emitted>>

\* The state check before fail is the one fail makes itself.
ReadEof ==
    /\ pc[Reader] = "read" /\ stdout = <<>> /\ child # "alive"
    /\ streaming' = "ended"
    /\ Goto(Reader, "fail")
    /\ UNCHANGED <<worker, caller, dest, frame, prior, process>>

-----------------------------------------------------------------------------
(* Worker::shutdown: begin_shutdown, finish_shutdown, join_threads.        *)

StopBegin(s) ==
    /\ pc[s] = "idle" /\ state \in {"running", "failed"}
    /\ prior' = [prior EXCEPT ![s] = state]
    /\ state' = "stopping"
    /\ Goto(s, "closing")
    /\ UNCHANGED <<nextId, pending, writer, lockedBy, handle, joinable, caller,
                   reading, process>>

StopLate(s) ==
    /\ pc[s] = "idle" /\ state \in {"stopping", "stopped"}
    /\ Goto(s, "finish")
    /\ UNCHANGED <<worker, caller, reading, prior, process>>

StopClose(s) ==
    /\ pc[s] = "closing" /\ lockedBy = Nobody /\ ~(prior[s] = "running" /\ writer = "Some")
    /\ writer' = "None"
    /\ Goto(s, "finish")
    /\ UNCHANGED <<state, nextId, pending, lockedBy, handle, joinable, caller,
                   reading, prior, process>>

StopLock(s) ==
    /\ pc[s] = "closing" /\ lockedBy = Nobody /\ prior[s] = "running" /\ writer = "Some"
    /\ writer' = "None"
    /\ lockedBy' = s
    /\ Goto(s, "bye")
    /\ UNCHANGED <<state, nextId, pending, handle, joinable, caller, reading,
                   prior, process>>

\* The shutdown frame, written under the writer mutex; an error is ignored.
StopBye(s) ==
    /\ pc[s] = "bye"
    /\ \/ child = "alive" /\ inPipe < PipeCapacity /\ inPipe' = inPipe + 1
       \/ child # "alive" /\ UNCHANGED inPipe
    /\ lockedBy' = Nobody
    /\ Goto(s, "finish")
    /\ UNCHANGED <<state, nextId, pending, writer, handle, joinable, caller,
                   reading, prior, child, stdout, emitted>>

StopFinish(s) ==
    /\ pc[s] = "finish"
    /\ Goto(s, IF state = "stopped" THEN "join" ELSE "poll")
    /\ UNCHANGED <<worker, caller, reading, prior, process>>

\* The poll ends when the child has exited, when its handle is gone, or when
\* the grace period is over: at any time.
StopTake(s) ==
    /\ pc[s] = "poll"
    /\ handle' = "None"
    /\ Goto(s, IF handle = "Some" THEN "reap" ELSE "mark")
    /\ UNCHANGED <<state, nextId, pending, writer, lockedBy, joinable, caller,
                   reading, prior, process>>

\* Mutant: the child is not killed when the grace period is over.
StopReapSpares(s) ==
    /\ pc[s] = "reap"
    /\ Goto(s, "mark")
    /\ UNCHANGED <<worker, caller, reading, prior, process>>

\* kill if it is still alive, then wait.
StopReap(s) ==
    /\ pc[s] = "reap"
    /\ child' = "dead"
    /\ Goto(s, "mark")
    /\ UNCHANGED <<worker, caller, reading, prior, inPipe, stdout, emitted>>

\* Mutant: the pending map is not drained after the process is gone.
StopMarkOnly(s) ==
    /\ pc[s] = "mark"
    /\ state' = "stopped"
    /\ Goto(s, "join")
    /\ UNCHANGED <<nextId, pending, writer, lockedBy, handle, joinable, caller,
                   reading, prior, process>>

StopMark(s) ==
    /\ pc[s] = "mark"
    /\ state' = "stopped"
    /\ Goto(s, "sweep")
    /\ UNCHANGED <<nextId, pending, writer, lockedBy, handle, joinable, caller,
                   reading, prior, process>>

StopSweep(s) ==
    /\ pc[s] = "sweep"
    /\ Drain
    /\ Goto(s, "join")
    /\ UNCHANGED <<state, nextId, writer, lockedBy, handle, joinable, rid, out,
                   result, reading, prior, process>>

\* Mutant: the reader thread is detached instead of joined.
StopDetach(s) ==
    /\ pc[s] = "join"
    /\ joinable' = "None"
    /\ Goto(s, "done")
    /\ UNCHANGED <<state, nextId, pending, writer, lockedBy, handle, caller,
                   reading, prior, process>>

\* Only one stopper finds the join handle.
StopJoin(s) ==
    /\ pc[s] = "join"
    /\ joinable' = "None"
    /\ Goto(s, IF joinable = "Some" THEN "joining" ELSE "done")
    /\ UNCHANGED <<state, nextId, pending, writer, lockedBy, handle, caller,
                   reading, prior, process>>

StopJoined(s) ==
    /\ pc[s] = "joining" /\ pc[Reader] = "done"
    /\ Goto(s, "done")
    /\ UNCHANGED <<worker, caller, reading, prior, process>>

-----------------------------------------------------------------------------
(* The child process.                                                      *)

ChildRead ==
    /\ child = "alive" /\ inPipe > 0
    /\ inPipe' = inPipe - 1
    /\ UNCHANGED <<worker, pc, caller, reading, prior, child, stdout, emitted>>

\* Any frame, with any id that has been issued, or zero.
ChildEmit ==
    /\ child = "alive" /\ emitted < ChildFrames
    /\ \/ \E k \in RoutedKinds, i \in 0..(nextId - 1) :
              stdout' = Append(stdout, Event(k, i))
       \/ \E k \in StreamKinds : stdout' = Append(stdout, Event(k, 0))
    /\ emitted' = emitted + 1
    /\ UNCHANGED <<worker, pc, caller, reading, prior, child, inPipe>>

\* It closes its ends of the pipes, and may run on.
ChildDetach ==
    /\ child = "alive"
    /\ child' = "detached"
    /\ UNCHANGED <<worker, pc, caller, reading, prior, inPipe, stdout, emitted>>

ChildExit ==
    /\ child \in {"alive", "detached"}
    /\ child' = "dead"
    /\ UNCHANGED <<worker, pc, caller, reading, prior, inPipe, stdout, emitted>>

-----------------------------------------------------------------------------

SendStep(c) == \/ Send(c) \/ SendRefused(c) \/ SendClosed(c) \/ SendTooLarge(c)
               \/ SendLock(c) \/ Write(c) \/ WriteFails(c)

FailStep(t) == FailWins(t) \/ FailLoses(t) \/ FailClose(t) \/ FailKill(t) \/ FailDrain(t)

RequestStep(c) == \/ Register(c) \/ Unregister(c) \/ ReceiveAnswer(c)
                  \/ ReceiveCancel(c) \/ ReceiveNotification(c)
                  \/ ReceiveRequest(c) \/ Expire(c)

CallStep(c) == SendStep(c) \/ FailStep(c) \/ RequestStep(c)

ReaderStep == \/ RouteFound \/ RouteLate \/ Deliver \/ ReadShutdown \/ ReadError
              \/ ReadEof \/ FailStep(Reader)

StopStep(s) == \/ StopClose(s) \/ StopLock(s) \/ StopBye(s) \/ StopFinish(s)
               \/ StopTake(s) \/ StopReap(s) \/ StopMark(s) \/ StopSweep(s)
               \/ StopJoin(s) \/ StopJoined(s)

ChildStep == ChildRead \/ ChildEmit \/ ChildDetach \/ ChildExit

\* Everyone has returned and the process is gone.
Finished ==
    /\ child = "dead" /\ \A t \in Threads : pc[t] = "done"
    /\ UNCHANGED vars

Next ==
    \/ \E c \in Calls : CallRefused(c) \/ CallStart(c) \/ CallStep(c)
    \/ ReaderStep
    \/ \E s \in Stoppers : StopBegin(s) \/ StopLate(s) \/ StopStep(s)
    \/ ChildStep
    \/ Finished

Spec == Init /\ [][Next]_vars

\* The operating system schedules every host thread, a call's deadline passes
\* and a stopper's grace period ends.  Nothing is assumed of the child, and
\* nobody has to start a call or a shutdown.
HostFairness ==
    /\ \A c \in Calls : WF_vars(CallStep(c))
    /\ \A s \in Stoppers : WF_vars(StopStep(s))
    /\ WF_vars(ReaderStep)

FairSpec == Spec /\ HostFairness
-----------------------------------------------------------------------------
(* Properties.                                                             *)

WorkerTypeOK ==
    /\ state \in States
    /\ writer \in {"Some", "None"}
    /\ lockedBy \in Threads \cup {Nobody}
    /\ handle \in {"Some", "None"}
    /\ joinable \in {"Some", "None"}
    /\ streaming \in {"open", "ended"}
    /\ prior \in [Stoppers -> States]
    /\ child \in {"alive", "detached", "dead"}
    /\ inPipe \in 0..PipeCapacity
    /\ emitted \in 0..ChildFrames

PcTypeOK ==
    /\ pc \in [Threads -> CallSteps \cup ReaderSteps \cup StopSteps]
    /\ \A c \in Calls : pc[c] \in CallSteps
    /\ \A s \in Stoppers : pc[s] \in StopSteps
    /\ pc[Reader] \in ReaderSteps

CallTypeOK ==
    /\ nextId \in Nat
    /\ pending \subseteq Nat \X Calls
    /\ rid \in [Calls -> Nat]
    /\ out \in [Calls -> SendKinds \cup {"none"}]

StreamTypeOK ==
    /\ stdout \in Seq(Events)
    /\ frame \in Events
    /\ dest \in Calls \cup {Nobody}
    /\ pc[Reader] = "deliver" => dest \in Calls
    /\ chan \in [Calls -> Seq(Events)]
    /\ result \in [Calls -> Events]

TypeOK == WorkerTypeOK /\ PcTypeOK /\ CallTypeOK /\ StreamTypeOK

\* Some thread still has to take the pending map and fail what is in it.
DrainComing ==
    \/ state = "failed"   /\ \E t \in Failers : pc[t] \in {"close", "kill", "drain"}
    \/ state = "stopping" /\ \E s \in Stoppers :
           pc[s] \in {"closing", "bye", "finish", "poll", "reap", "mark"}
    \/ state = "stopped"  /\ \E s \in Stoppers : pc[s] = "sweep"

Answered(c) ==
    \/ \E i \in 1..Len(chan[c]) : Terminal(chan[c][i])
    \/ pc[Reader] = "deliver" /\ dest = c /\ Terminal(frame)

\* A call that waits is never forgotten.  Either the event that ends its wait
\* is in its channel or in the reader's hands, or its sender is still in the
\* map while the worker runs or while a thread that will empty the map is on
\* its way.  So nobody waits for a worker that is gone until the deadline, and
\* the "response channel closed" arm of request_inner is dead code.
NoOrphanedCall ==
    \A c \in Calls : pc[c] = "wait" =>
        \/ Answered(c)
        \/ <<rid[c], c>> \in pending /\ (state = "running" \/ DrainComing)

\* The map does not leak: a call that has returned is not in it, except while
\* a drain is coming.  (A nested reply that cannot be sent returns without
\* removing its entry.)
NoStaleEntry ==
    \A p \in pending : pc[p[2]] = "done" => DrainComing

\* The answer, or the cancellation, a call returns is one that the child sent
\* for that very request and no other, whatever ids the child uses.
AnswersOwnRequest ==
    \A c \in Calls :
        pc[c] = "done" /\ result[c].kind \in AnswerKinds \cup {"Cancel"}
            => result[c].id = rid[c] /\ \A d \in Calls \ {c} : rid[d] # rid[c]

\* Two answers with one id, an answer racing the failure of the worker, two
\* threads that both empty the map: a call is sent at most one event that ends
\* it, counting what it has consumed.
OneOutcome ==
    \A c \in Calls :
        LET inChan == {i \in 1..Len(chan[c]) : Terminal(chan[c][i])}
            inHand == pc[Reader] = "deliver" /\ dest = c /\ Terminal(frame)
            taken  == pc[c] = "done" /\ Terminal(result[c])
        IN  /\ \A i, j \in inChan : i = j
            /\ inChan # {} => ~inHand /\ ~taken
            /\ inHand => ~taken

\* Every error but a remote one, a cancellation or a missing handler means that
\* the worker has left the running state for good: recover_if_needed of the
\* pool replaces a worker on that evidence.
ErrorsRetireWorker ==
    \A c \in Calls :
        pc[c] = "done" /\ result[c].kind \in ErrorKinds \ {"UnexpectedRequest"}
            => state # "running"

\* Once a stopper has returned and none is still at work, nothing is left of
\* the worker: no process, no reader thread, no open writer, no entry that
\* only a drain could remove.
NothingLeftRunning ==
    (\E s \in Stoppers : pc[s] = "done") /\ (\A s \in Stoppers : pc[s] \in {"idle", "done"})
        => /\ child = "dead" /\ pc[Reader] = "done" /\ writer = "None"
           /\ \A p \in pending : pc[p[2]] \in {"send", "unregister"}

\* The state only moves forward: running, failed, stopping, stopped.
Rank(s) == CASE s = "running" -> 0 [] s = "failed" -> 1
             [] s = "stopping" -> 2 [] OTHER -> 3
StateMovesForward == [][Rank(state) < Rank(state')]_state

\* Every call that has started returns, deadline included: a thread calls once, so from
\* some time on none is in the middle of its call.
CallsReturn == <>[](\A c \in Calls : pc[c] \in {"idle", "done"})

\* Every shutdown that has begun returns.
ShutdownReturns == <>[](\A s \in Stoppers : pc[s] \in {"idle", "done"})
-----------------------------------------------------------------------------
(* The inductive strengthening of NoOrphanedCall, NoStaleEntry,            *)
(* AnswersOwnRequest and ErrorsRetireWorker.                               *)

\* What the threads' positions say of the worker's state.
Phases ==
    /\ \A t \in Failers : pc[t] \in {"close", "kill", "drain"} => state # "running"
    /\ \A s \in Stoppers : pc[s] # "idle" => state \in {"stopping", "stopped"}
    /\ writer = "None" => state # "running"

\* Request ids are fresh, and an entry of the map is that of its call.
Identity ==
    /\ nextId >= 1
    /\ \A c \in Calls : rid[c] < nextId /\ (pc[c] \notin {"idle", "done"} => rid[c] # 0)
    /\ \A c, d \in Calls : c # d /\ rid[c] = rid[d] => rid[c] = 0
    /\ \A p \in pending : /\ p[1] = rid[p[2]] /\ p[1] # 0
                          /\ pc[p[2]] \notin {"idle", "register"}
                          /\ out[p[2]] \in {"Request", "Reply", "Reject"}

\* What reaches a call belongs to its request.
Mailboxes ==
    /\ \A c \in Calls : \A i \in 1..Len(chan[c]) :
          /\ chan[c][i].kind = "Failure" => state # "running"
          /\ chan[c][i].kind # "Failure" => chan[c][i].id = rid[c]
    /\ \A c \in Calls : pc[c] \in {"idle", "register"} => chan[c] = <<>>
    /\ pc[Reader] = "deliver" =>
          /\ frame.kind \in RoutedKinds /\ frame.id = rid[dest]
          /\ pc[dest] \notin {"idle", "register"}

Outcomes ==
    \A c \in Calls :
        /\ pc[c] \in {"idle", "register"} => result[c].kind = "Failure"
        /\ result[c].kind \in AnswerKinds \cup {"Cancel"} => result[c].id = rid[c] /\ rid[c] # 0
        /\ pc[c] = "wait" => out[c] \in {"Request", "Reply"}
        /\ out[c] = "Reject" => result[c].kind = "UnexpectedRequest"
        /\ /\ pc[c] \in {"unregister", "done"}
           /\ result[c].kind \in ErrorKinds \ {"UnexpectedRequest"}
           => state # "running"

\* A call that waits, or is about to, can still be reached by an answer, and
\* only by one.
Awaiting(c) ==
    pc[c] = "wait" \/ (out[c] \in {"Request", "Reply"} /\ pc[c] \in {"send", "lock", "write"})
Reachable ==
    \A c \in Calls :
        /\ Awaiting(c) => Answered(c) \/ <<rid[c], c>> \in pending
        /\ Answered(c) => <<rid[c], c>> \notin pending

\* Once the worker has left the running state, an entry that its call will not
\* remove by itself has a drain to come.
Removes(c) == pc[c] = "unregister" \/ (pc[c] = "send" /\ out[c] = "Request")
Drainable ==
    \A p \in pending :
        /\ state # "running" /\ ~Removes(p[2]) => DrainComing
        /\ pc[p[2]] = "done" => state # "running"

IndInv == Phases /\ Identity /\ Mailboxes /\ Outcomes /\ Reachable /\ Drainable
=============================================================================
