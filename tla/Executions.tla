---------------------------- MODULE Executions ----------------------------
(***************************************************************************)
(* Executions under one exec id: the daemon's event log with its bounded    *)
(* buffer, the command behind it, and the runner's exec proxy, which        *)
(* resumes a stream that drops (internal/daemon, runner/exec_proxy.go).     *)
(*                                                                         *)
(* An incarnation is one Execution: an id that was deleted or collected can *)
(* be posted again.  A stream is one POST through the proxy.  Output is     *)
(* abstracted to its event, a body to the events on the wire.               *)
(***************************************************************************)
EXTENDS Integers, Sequences, FiniteSets

CONSTANTS
    Streams,
    Caller,           \* the stream whose caller the contract is about
    Pipes,            \* the pipes read: stdout and stderr
    MaxIncarnations,  \* bound: executions created under the id
    MaxOutput,        \* bound: output events of one execution
    MaxEventBytes,    \* SANDBOX_EXEC_MAX_EVENT_BYTES
    OutputBytes,      \* size of an output event; the others count one
    MaxUint,          \* 2^64 - 1, the largest "after" a caller can ask for
    ExecMaxRetries,   \* execMaxRetries
    MaxFaults,        \* bound: connections that drop, daemons that are lost
    Nil

ASSUME ExecutionsAssumption ==
    /\ {MaxIncarnations, MaxOutput, MaxEventBytes, OutputBytes,
        ExecMaxRetries, MaxFaults} \subseteq Nat
    /\ Caller \in Streams
    /\ MaxUint \in Nat
    /\ MaxOutput + 2 < MaxUint
    /\ Nil \notin Int

VARIABLES
    \* ExecManager
    executions,  \* the incarnation registered under the id, or 0
    created,     \* incarnations so far
    \* Execution, per incarnation
    events, minSeq, nextSeq, completed,
    cancelled,   \* its context: deleted, or past its timeout
    command,     \* "none", "starting", "running", "exited", "done", "lost"
    readers,     \* the pipes still read
    \* the daemon's handler of a stream
    handler,     \* "none", "preflight", "follow", "wait", "closed"
    incarnation, \* the execution it follows, or 0
    after,       \* last sequence number it took, or Nil
    notify,      \* nextSeq when it took the notify channel
    wire,        \* events written and not yet read
    \* the proxy
    pc,          \* "idle", "stream", "backoff", "done", "left", "refused"
    attempt,     \* resumes so far
    lastSeq,     \* last sequence number it forwarded, or Nil
    seen,        \* what the caller received
    \* history and bounds
    log,         \* every event of an incarnation, trimmed or not
    removed,     \* incarnations taken out of the map
    faults

manager == <<executions, created, removed>>
buffer == <<events, minSeq, nextSeq, completed, log>>
process == <<cancelled, command, readers>>
serving == <<handler, incarnation, after, notify, wire>>
proxy == <<pc, attempt, lastSeq, seen>>
vars == <<manager, buffer, process, serving, proxy, faults>>

Incarnations == 1 .. MaxIncarnations
Seqs == 0 .. MaxOutput + 1
Afters == {Nil} \cup 0 .. MaxUint
Event == [of : Incarnations, seq : Seqs, type : {"started", "output", "exit", "error"}]

IsTerminal(type) == type \in {"exit", "error"}

-----------------------------------------------------------------------------
(* The buffer of one execution.                                            *)

\* Bytes of the events from position k on.
BytesFrom(evs, k) ==
    OutputBytes * Cardinality({j \in k .. Len(evs) : evs[j].type = "output"})
        + Cardinality({j \in k .. Len(evs) : evs[j].type # "output"})

\* append drops the first t events: the oldest ones while the buffer is over its
\* size, but never the last one.
Trims(evs, t) ==
    /\ \A k \in 1 .. t : BytesFrom(evs, k) > MaxEventBytes
    /\ t = Len(evs) - 1 \/ BytesFrom(evs, t + 1) <= MaxEventBytes

\* minSeq after append; it only moves when something was dropped.
MinSeqOf(evs, t, old) == IF t = 0 THEN old ELSE evs[t + 1].seq

\* Execution.append, with the broadcast: a follower waits on the channel it took,
\* so it wakes once nextSeq has moved.
AppendEvent(i, type) ==
    LET e == [of |-> i, seq |-> nextSeq[i], type |-> type]
        all == Append(events[i], e)
    IN /\ nextSeq' = [nextSeq EXCEPT ![i] = @ + 1]
       /\ \E t \in 0 .. Len(all) - 1 :
             /\ Trims(all, t)
             /\ events' = [events EXCEPT ![i] = SubSeq(all, t + 1, Len(all))]
             /\ minSeq' = [minSeq EXCEPT ![i] = MinSeqOf(all, t, @)]
       /\ completed' = [completed EXCEPT ![i] = @ \/ IsTerminal(type)]
       /\ log' = [log EXCEPT ![i] = Append(@, e)]

\* hasHistoryAfter: every event after a is retained.
HasHistoryAfter(i, a) ==
    IF a = Nil THEN minSeq[i] = 0
    ELSE IF a = MaxUint THEN TRUE
    ELSE a + 1 >= minSeq[i]

\* eventsAfter: the retained events numbered above a, found by position.
EventsAfter(i, a) ==
    LET start == IF a # Nil /\ a >= minSeq[i] THEN a - minSeq[i] + 1 ELSE 0
    IN IF a = MaxUint THEN <<>> ELSE SubSeq(events[i], start + 1, Len(events[i]))

\* Mutant: the preflight is trusted, whatever was trimmed since.
SnapshotUnchecked(i, a) == [ok |-> TRUE, events |-> EventsAfter(i, a)]

\* Snapshot: one read under the lock, refused if an event after a was trimmed.
Snapshot(i, a) ==
    [ok |-> HasHistoryAfter(i, a),
     events |-> IF HasHistoryAfter(i, a) THEN EventsAfter(i, a) ELSE <<>>]

\* The body of a GET without follow, whose preflight (HasHistory) has passed and whose
\* 200 is sent: a trim between the two reads leaves an error line, not a 410.  Every
\* execution begins with its whole history, so the preflight of a GET for any i and a
\* may have passed before this read.
ErrorLine == <<Nil>>
GetBody(i, a) == IF Snapshot(i, a).ok THEN Snapshot(i, a).events ELSE ErrorLine

-----------------------------------------------------------------------------
Init ==
    /\ executions = 0 /\ created = 0 /\ removed = {}
    /\ events = [i \in Incarnations |-> <<>>]
    /\ log = [i \in Incarnations |-> <<>>]
    /\ minSeq = [i \in Incarnations |-> 0]
    /\ nextSeq = [i \in Incarnations |-> 0]
    /\ completed = [i \in Incarnations |-> FALSE]
    /\ cancelled = [i \in Incarnations |-> FALSE]
    /\ command = [i \in Incarnations |-> "none"]
    /\ readers = [i \in Incarnations |-> {}]
    /\ handler = [s \in Streams |-> "none"]
    /\ incarnation = [s \in Streams |-> 0]
    /\ after = [s \in Streams |-> Nil]
    /\ notify = [s \in Streams |-> 0]
    /\ wire = [s \in Streams |-> <<>>]
    /\ pc = [s \in Streams |-> "idle"]
    /\ attempt = [s \in Streams |-> 0]
    /\ lastSeq = [s \in Streams |-> Nil]
    /\ seen = [s \in Streams |-> <<>>]
    /\ faults = MaxFaults

-----------------------------------------------------------------------------
(* ExecManager.                                                            *)

\* The handler of stream s begins on execution i, from sequence number a.
Serve(s, i, a) ==
    /\ handler' = [handler EXCEPT ![s] = "preflight"]
    /\ incarnation' = [incarnation EXCEPT ![s] = i]
    /\ after' = [after EXCEPT ![s] = a]
    /\ UNCHANGED <<notify, wire>>

\* A new execution, with its "started" event, whose command begins to run.
Create ==
    /\ created < MaxIncarnations
    /\ created' = created + 1
    /\ executions' = created + 1
    /\ command' = [command EXCEPT ![created + 1] = "starting"]
    /\ AppendEvent(created + 1, "started")
    /\ UNCHANGED <<removed, cancelled, readers>>

\* Mutant: every POST starts a command, even under an id that has one.
AlwaysCreate == Create

\* GetOrCreate: a registered execution is followed, otherwise one is made.
GetOrCreate ==
    IF executions = 0 THEN Create ELSE UNCHANGED <<manager, buffer, process>>

\* DELETE /executions/{exec_id}: cancels the command and forgets the execution.
Delete ==
    /\ executions # 0
    /\ cancelled' = [cancelled EXCEPT ![executions] = TRUE]
    /\ removed' = removed \cup {executions}
    /\ executions' = 0
    /\ UNCHANGED <<created, buffer, command, readers, serving, proxy, faults>>

\* gc: a completed execution past its retain period is forgotten.
Collect ==
    /\ executions # 0
    /\ completed[executions]
    /\ removed' = removed \cup {executions}
    /\ executions' = 0
    /\ UNCHANGED <<created, buffer, process, serving, proxy, faults>>

-----------------------------------------------------------------------------
(* HandleExec: the command, its two pipe readers and the kill goroutine.    *)

Start(i) ==
    /\ command[i] = "starting"
    /\ command' = [command EXCEPT ![i] = "running"]
    /\ readers' = [readers EXCEPT ![i] = Pipes]
    /\ UNCHANGED <<manager, buffer, cancelled, serving, proxy, faults>>

\* A command that cannot be started, or is cancelled before, ends with "error".
StartFails(i) ==
    /\ command[i] = "starting"
    /\ command' = [command EXCEPT ![i] = "done"]
    /\ AppendEvent(i, "error")
    /\ UNCHANGED <<manager, cancelled, readers, serving, proxy, faults>>

\* Bound: fewer than MaxOutput of the events so far are output; the others are
\* "started" and a terminal event.
OutputLeft(i) == nextSeq[i] <= (IF completed[i] THEN MaxOutput + 1 ELSE MaxOutput)

\* streamLines: one chunk of a pipe, even after the shell itself has exited.
Output(i) ==
    /\ readers[i] # {}
    /\ command[i] # "lost"
    /\ OutputLeft(i)
    /\ AppendEvent(i, "output")
    /\ UNCHANGED <<manager, process, serving, proxy, faults>>

\* A pipe ends, or is closed pipeDrainGrace after the shell was reaped.
ReaderDone(i, r) ==
    /\ r \in readers[i]
    /\ command[i] # "lost"
    /\ readers' = [readers EXCEPT ![i] = @ \ {r}]
    /\ UNCHANGED <<manager, buffer, cancelled, command, serving, proxy, faults>>

\* The context's deadline.
Timeout(i) ==
    /\ command[i] \in {"starting", "running"}
    /\ ~cancelled[i]
    /\ cancelled' = [cancelled EXCEPT ![i] = TRUE]
    /\ UNCHANGED <<manager, buffer, command, readers, serving, proxy, faults>>

\* The shell ends by itself, or its process group is killed.
Exit(i) ==
    /\ command[i] = "running"
    /\ command' = [command EXCEPT ![i] = "exited"]
    /\ UNCHANGED <<manager, buffer, cancelled, readers, serving, proxy, faults>>

\* Mutant: the exit event does not wait for the readers.
Reaped(i) == command[i] = "exited"

\* drainReaders has seen both readers end.
Drained(i) == command[i] = "exited" /\ readers[i] = {}

Finish(i) ==
    /\ Drained(i)
    /\ command' = [command EXCEPT ![i] = "done"]
    /\ AppendEvent(i, "exit")
    /\ UNCHANGED <<manager, cancelled, readers, serving, proxy, faults>>

-----------------------------------------------------------------------------
(* The daemon's handlers of POST and GET ?follow=true.                      *)

\* HasHistory before the header is sent.  Without it, POST passes 410 on to its
\* caller and a resume is tried again.
Preflight(s) ==
    /\ handler[s] = "preflight"
    /\ IF HasHistoryAfter(incarnation[s], after[s])
       THEN /\ handler' = [handler EXCEPT ![s] = "follow"]
            /\ UNCHANGED pc
       ELSE /\ handler' = [handler EXCEPT ![s] = "none"]
            /\ pc' = [pc EXCEPT ![s] = IF attempt[s] = 0 THEN "refused" ELSE "backoff"]
    /\ UNCHANGED <<manager, buffer, process, incarnation, after, notify, wire,
                   attempt, lastSeq, seen, faults>>

\* One round of Follow: under the lock, the batch, whether the execution is
\* over, and the channel to wait on.
Follow(s) ==
    LET i == incarnation[s]
        batch == EventsAfter(i, after[s])
    IN /\ handler[s] = "follow"
       /\ IF HasHistoryAfter(i, after[s])
          THEN /\ wire' = [wire EXCEPT ![s] = @ \o batch]
               /\ after' = [after EXCEPT ![s] =
                     IF batch = <<>> THEN @ ELSE events[i][Len(events[i])].seq]
               /\ notify' = [notify EXCEPT ![s] = nextSeq[i]]
               /\ handler' = [handler EXCEPT ![s] = IF completed[i] THEN "closed" ELSE "wait"]
          ELSE /\ handler' = [handler EXCEPT ![s] = "closed"]
               /\ UNCHANGED <<wire, after, notify>>
       /\ UNCHANGED <<manager, buffer, process, incarnation, proxy, faults>>

\* The channel Follow took has been closed by an append.
Wake(s) ==
    /\ handler[s] = "wait"
    /\ notify[s] # nextSeq[incarnation[s]]
    /\ handler' = [handler EXCEPT ![s] = "follow"]
    /\ UNCHANGED <<manager, buffer, process, incarnation, after, notify, wire,
                   proxy, faults>>

-----------------------------------------------------------------------------
(* ExecProxyHandler.                                                       *)

\* The first request, answered by the daemon's POST handler.
Post(s) ==
    /\ pc[s] = "idle"
    /\ pc' = [pc EXCEPT ![s] = "stream"]
    /\ GetOrCreate
    /\ Serve(s, executions', Nil)
    /\ UNCHANGED <<attempt, lastSeq, seen, faults>>

\* A POST of the same id by a caller whose stream is not followed here.
PostElsewhere ==
    /\ GetOrCreate
    /\ UNCHANGED <<serving, proxy, faults>>

\* Mutant: the resume does not say what was forwarded already.
ResumeFromStart(s) == Nil

\* The after= of a resume: absent until an event was forwarded.
ResumeAfter(s) == lastSeq[s]

RetriesExhausted(s) == attempt[s] = ExecMaxRetries

\* The next attempt after its backoff; 404 counts as one.
Resume(s) ==
    /\ pc[s] = "backoff"
    /\ IF RetriesExhausted(s)
       THEN /\ pc' = [pc EXCEPT ![s] = "done"]
            /\ UNCHANGED <<attempt, serving>>
       ELSE /\ attempt' = [attempt EXCEPT ![s] = @ + 1]
            /\ IF executions = 0
               THEN UNCHANGED <<pc, serving>>
               ELSE /\ pc' = [pc EXCEPT ![s] = "stream"]
                    /\ Serve(s, executions, ResumeAfter(s))
    /\ UNCHANGED <<manager, buffer, process, lastSeq, seen, faults>>

\* The call is over and its connection to the daemon closed.
Hangs(s, how) ==
    /\ pc' = [pc EXCEPT ![s] = how]
    /\ handler' = [handler EXCEPT ![s] = "none"]
    /\ wire' = [wire EXCEPT ![s] = <<>>]
    /\ UNCHANGED <<incarnation, after, notify>>

\* streamNDJSON: one line, whose number is noted before it is written.
Forward(s) ==
    /\ pc[s] = "stream"
    /\ wire[s] # <<>>
    /\ LET e == Head(wire[s]) IN
       /\ lastSeq' = [lastSeq EXCEPT ![s] = e.seq]
       /\ seen' = [seen EXCEPT ![s] = Append(@, e)]
       /\ IF IsTerminal(e.type)
          THEN Hangs(s, "done")
          ELSE /\ wire' = [wire EXCEPT ![s] = Tail(@)]
               /\ UNCHANGED <<handler, incarnation, after, notify, pc>>
    /\ UNCHANGED <<manager, buffer, process, attempt, faults>>

\* The body ends before a terminal event: a read error, which is retried
\* (shouldRetryStreamError).
EndOfBody(s) ==
    /\ pc[s] = "stream"
    /\ handler[s] = "closed"
    /\ wire[s] = <<>>
    /\ Hangs(s, "backoff")
    /\ UNCHANGED <<manager, buffer, process, attempt, lastSeq, seen, faults>>

\* Mutant: a broken connection is taken for the end of the execution.
CutForGood(s) == "done"

\* Where a lost connection leaves the call: POST is not repeated before the
\* daemon has answered.
Cut(s) ==
    IF handler[s] = "preflight" /\ attempt[s] = 0 THEN "refused" ELSE "backoff"

\* The connection to the daemon breaks, with what was on the wire.
Drop(s) ==
    /\ pc[s] = "stream"
    /\ faults > 0
    /\ faults' = faults - 1
    /\ Hangs(s, Cut(s))
    /\ UNCHANGED <<manager, buffer, process, attempt, lastSeq, seen>>

\* The caller goes away, or a write to it fails: no retry.
CallerLeaves(s) ==
    /\ pc[s] \in {"stream", "backoff"}
    /\ Hangs(s, "left")
    /\ UNCHANGED <<manager, buffer, process, attempt, lastSeq, seen, faults>>

\* The sandbox stops or crashes: its executions are gone with their processes.
DaemonLost ==
    /\ faults > 0
    /\ faults' = faults - 1
    /\ created > 0
    /\ removed' = removed \cup 1 .. created
    /\ executions' = 0
    /\ command' = [i \in Incarnations |-> IF i <= created THEN "lost" ELSE command[i]]
    /\ pc' = [s \in Streams |-> IF pc[s] = "stream" THEN Cut(s) ELSE pc[s]]
    /\ handler' = [s \in Streams |-> "none"]
    /\ wire' = [s \in Streams |-> <<>>]
    /\ UNCHANGED <<created, buffer, cancelled, readers, incarnation, after, notify,
                   attempt, lastSeq, seen>>

-----------------------------------------------------------------------------
HandleExec(i) ==
    \/ Start(i)
    \/ StartFails(i)
    \/ Finish(i)
    \/ \E r \in Pipes : ReaderDone(i, r)

Daemon(s) == Preflight(s) \/ Follow(s) \/ Wake(s)
Proxy(s) == Resume(s) \/ Forward(s) \/ EndOfBody(s)

Next ==
    \/ PostElsewhere
    \/ Delete
    \/ Collect
    \/ DaemonLost
    \/ \E i \in Incarnations : HandleExec(i) \/ Output(i) \/ Timeout(i) \/ Exit(i)
    \/ \E s \in Streams : Post(s) \/ Daemon(s) \/ Proxy(s) \/ Drop(s) \/ CallerLeaves(s)

Spec == Init /\ [][Next]_vars

\* Goroutines run and deadlines pass.  A killed shell is reaped, a pipe is
\* closed after its grace.  Nobody is obliged to post, to delete or to output.
FairSpec ==
    /\ Spec
    /\ \A i \in Incarnations :
          /\ WF_vars(HandleExec(i))
          /\ WF_vars(Timeout(i))
          /\ WF_vars(cancelled[i] /\ Exit(i))
          /\ \A r \in Pipes : WF_vars(command[i] = "exited" /\ ReaderDone(i, r))
    /\ \A s \in Streams : WF_vars(Daemon(s)) /\ WF_vars(Proxy(s))

-----------------------------------------------------------------------------
(* Properties.                                                             *)

\* Every variable has its type.
TypeOK ==
    /\ executions \in 0 .. MaxIncarnations /\ created \in 0 .. MaxIncarnations
    /\ removed \subseteq Incarnations
    /\ events \in [Incarnations -> Seq(Event)] /\ log \in [Incarnations -> Seq(Event)]
    /\ minSeq \in [Incarnations -> Seqs] /\ nextSeq \in [Incarnations -> 0 .. MaxOutput + 2]
    /\ completed \in [Incarnations -> BOOLEAN] /\ cancelled \in [Incarnations -> BOOLEAN]
    /\ command \in [Incarnations -> {"none", "starting", "running", "exited", "done", "lost"}]
    /\ readers \in [Incarnations -> SUBSET Pipes]
    /\ handler \in [Streams -> {"none", "preflight", "follow", "wait", "closed"}]
    /\ incarnation \in [Streams -> 0 .. MaxIncarnations]
    /\ after \in [Streams -> Seqs \cup {Nil}] /\ lastSeq \in [Streams -> Seqs \cup {Nil}]
    /\ notify \in [Streams -> 0 .. MaxOutput + 2]
    /\ wire \in [Streams -> Seq(Event)] /\ seen \in [Streams -> Seq(Event)]
    /\ pc \in [Streams -> {"idle", "stream", "backoff", "done", "left", "refused"}]
    /\ attempt \in [Streams -> 0 .. ExecMaxRetries]
    /\ faults \in 0 .. MaxFaults

\* The events of execution i that a reader of everything after a is due.
IsDue(i, a, k) == a = Nil \/ log[i][k].seq > a

\* Whatever number a GET asks to resume from, and whatever was trimmed since its
\* preflight, the body of its 200 is either exactly the events produced after that
\* number, or the error line alone, and that only if one of them really is gone.
\* It is never a stream with a gap or a repetition.
HistoryExact ==
    \A i \in 1 .. created, a \in Afters :
        \/ \E n \in 0 .. Len(log[i]) :
              /\ GetBody(i, a) = SubSeq(log[i], n + 1, Len(log[i]))
              /\ \A k \in 1 .. Len(log[i]) : k > n <=> IsDue(i, a, k)
        \/ /\ GetBody(i, a) = ErrorLine
           /\ \E k \in 1 .. Len(log[i]) :
                 IsDue(i, a, k) /\ \A j \in 1 .. Len(events[i]) : events[i][j] # log[i][k]

\* An execution ends once: nothing follows its exit or error event, not even the
\* output of a background child that still holds a pipe (drainReaders).
TerminalIsLast ==
    \A i \in Incarnations : \A k \in 1 .. Len(log[i]) - 1 : ~IsTerminal(log[i][k].type)

\* The id of a resume may name another command by then: deleted, collected or lost
\* with the sandbox, and posted again by somebody.  A caller is handed over to that
\* command only by a resume, only once its own is out of the map, and never back.
TakeoverAfterRemoval ==
    \A s \in Streams : \A j, k \in 1 .. Len(seen[s]) :
        j < k /\ seen[s][j].of # seen[s][k].of =>
            /\ attempt[s] > 0
            /\ seen[s][j].of \in removed
            /\ seen[s][j].of < seen[s][k].of

\* The proxy gives up on a caller that stays only when it has to: as long as no
\* more connections broke than it may retry, nothing was trimmed and the
\* execution is known, the body ends with the terminal event.
BodyIsComplete ==
    \A s \in Streams :
        /\ pc[s] = "done"
        /\ MaxFaults - faults <= ExecMaxRetries
        /\ removed = {}
        /\ minSeq[incarnation[s]] = 0
        => seen[s] # <<>> /\ IsTerminal(seen[s][Len(seen[s])].type)

\* The log a stream is attached to, as its caller may think of it.
AttachedLog(s) == IF incarnation[s] = 0 THEN <<>> ELSE log[incarnation[s]]
Status(s) == IF pc[s] = "idle" THEN "idle"
            ELSE IF pc[s] \in {"stream", "backoff"} THEN "open" ELSE "closed"

Stream == INSTANCE ExecStream WITH
    output <- AttachedLog(Caller), received <- seen[Caller], status <- Status(Caller)

\* Daemon, proxy and resumes together keep the promise of ExecStream to a caller,
\* whatever the other streams do: a gap-free prefix, and an end.
StreamContract == Stream!Spec

=============================================================================
