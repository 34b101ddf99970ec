-------------------------- MODULE ExecutionsProofs --------------------------
(***************************************************************************)
(* Theorems about module Executions: what an answer holds, how an execution *)
(* ends, and that daemon and proxy keep the promise of ExecStream.          *)
(***************************************************************************)
EXTENDS Executions, TLAPS

\* An id is free only once its execution was removed.
ManagerOK ==
    /\ executions <= created
    /\ removed = {} => executions = created /\ created <= 1

\* E is L without its first m elements.
SuffixOf(E, L, m) == Len(E) = Len(L) - m /\ \A k \in 1 .. Len(E) : E[k] = L[m + k]

\* The log is numbered without a gap; the buffer is what is left of it from minSeq on.
LogOK(i) ==
    /\ Len(log[i]) = nextSeq[i]
    /\ minSeq[i] < nextSeq[i] \/ (minSeq[i] = 0 /\ nextSeq[i] = 0)
    /\ SuffixOf(events[i], log[i], minSeq[i])
    /\ \A k \in 1 .. Len(log[i]) : log[i][k].of = i /\ log[i][k].seq = k - 1

\* Only the last event may be terminal.
EndOK(i) ==
    /\ \A k \in 1 .. Len(log[i]) - 1 : ~IsTerminal(log[i][k].type)
    /\ completed[i] <=> Len(log[i]) # 0 /\ IsTerminal(log[i][Len(log[i])].type)

\* One "started", the output, one terminal event.
CountOK(i) == Len(log[i]) <= MaxOutput + (IF completed[i] THEN 2 ELSE 1)

BufferOK(i) == LogOK(i) /\ EndOK(i) /\ CountOK(i)

\* After the terminal event nobody appends.
CommandOK(i) ==
    /\ completed[i] => command[i] \in {"done", "lost"}
    /\ command[i] \in {"none", "starting", "done"} => readers[i] = {}
    /\ command[i] = "none" <=> i > created
    /\ nextSeq[i] = 0 <=> i > created

\* The number before position p.
Before(p) == IF p = 0 THEN Nil ELSE p - 1

\* What was forwarded has the numbers from 0 on.
SeenOK(s) ==
    /\ \A k \in 1 .. Len(seen[s]) : seen[s][k].seq = k - 1 /\ seen[s][k].of \in 1 .. created
    /\ lastSeq[s] = Before(Len(seen[s]))

\* Where a stream stands: who works on it, and for which execution.
PhaseOK(s) ==
    /\ incarnation[s] <= created
    /\ pc[s] = "idle" <=> incarnation[s] = 0
    /\ pc[s] = "idle" => seen[s] = <<>> /\ attempt[s] = 0
    /\ pc[s] = "stream" <=> handler[s] # "none"
    /\ handler[s] \in {"none", "preflight"} => wire[s] = <<>>

\* What is on the wire follows in the log of the execution the stream is attached to.
WireOK(s) ==
    /\ pc[s] = "stream" => after[s] = Before(Len(seen[s]) + Len(wire[s]))
    /\ \A k \in 1 .. Len(wire[s]) :
          /\ Len(seen[s]) + k \in 1 .. Len(log[incarnation[s]])
          /\ wire[s][k] = log[incarnation[s]][Len(seen[s]) + k]

\* A caller that waits has not been told the end.
OpenOK(s) ==
    pc[s] \in {"stream", "backoff"} => \A k \in 1 .. Len(seen[s]) : ~IsTerminal(seen[s][k].type)

StreamOK(s) == SeenOK(s) /\ PhaseOK(s) /\ WireOK(s) /\ OpenOK(s)

\* Nothing was lost that the proxy cannot make good.
Whole(s) == incarnation[s] # 0 /\ removed = {} /\ minSeq[incarnation[s]] = 0

\* As long as the id has one execution, the caller saw a prefix of its log.
PrefixOK(s) ==
    incarnation[s] # 0 /\ removed = {} =>
        \A k \in 1 .. Len(seen[s]) : k \in 1 .. Len(log[incarnation[s]]) /\ seen[s][k] = log[incarnation[s]][k]

\* Every attempt was made for a connection that broke, and a body ends with the log.
RetryOK(s) ==
    Whole(s) =>
        /\ attempt[s] + (IF pc[s] = "backoff" THEN 1 ELSE 0) <= MaxFaults - faults
        /\ handler[s] = "closed" => /\ completed[incarnation[s]]
                                    /\ Len(seen[s]) + Len(wire[s]) = Len(log[incarnation[s]])
        /\ pc[s] = "done" => \/ ExecMaxRetries < MaxFaults - faults
                             \/ seen[s] # <<>> /\ IsTerminal(seen[s][Len(seen[s])].type)

ExecInv ==
    /\ TypeOK /\ ManagerOK
    /\ \A i \in Incarnations : BufferOK(i) /\ CommandOK(i)
    /\ \A s \in Streams : StreamOK(s) /\ PrefixOK(s) /\ RetryOK(s)

-----------------------------------------------------------------------------
\* Appending to a log and trimming its buffer.

LEMMA LastOrBefore == ASSUME NEW n \in Nat, NEW k \in 1 .. n + 1 PROVE k \in 1 .. n \/ k = n + 1
BY SMT

\* p is q with e behind it.
Longer(p, q, e) ==
    /\ p \in Seq(Event) /\ Len(p) = Len(q) + 1 /\ Len(q) \in Nat /\ p[Len(p)] = e
    /\ \A k \in 1 .. Len(q) : p[k] = q[k]

LEMMA AppendFacts == ASSUME NEW q \in Seq(Event), NEW e \in Event PROVE Longer(Append(q, e), q, e)
BY SMT DEF Longer

LEMMA SuffixFacts ==
    ASSUME NEW q \in Seq(Event), NEW t \in 0 .. Len(q)
    PROVE  /\ SubSeq(q, t + 1, Len(q)) \in Seq(Event)
           /\ SuffixOf(SubSeq(q, t + 1, Len(q)), q, t)
<1>1. SubSeq(q, t + 1, Len(q)) \in Seq(Event) /\ Len(SubSeq(q, t + 1, Len(q))) = Len(q) - t
    BY SMT
<1>2. \A k \in 1 .. Len(q) - t : SubSeq(q, t + 1, Len(q))[k] = q[t + k]
    BY SMT
<1>3. QED
    BY Zenon, <1>1, <1>2 DEF SuffixOf

\* The buffer E holds the events of the log L from position m + 1 on; e is appended to
\* both, and t events are dropped.
Trimming(L, E, m, e, t) ==
    /\ SubSeq(Append(E, e), t + 1, Len(Append(E, e))) \in Seq(Event)
    /\ SuffixOf(SubSeq(Append(E, e), t + 1, Len(Append(E, e))), Append(L, e), m + t)
    /\ Append(E, e)[t + 1] = Append(L, e)[m + t + 1]

LEMMA TrimLog ==
    ASSUME NEW L \in Seq(Event), NEW E \in Seq(Event), NEW m \in Nat, m <= Len(L), SuffixOf(E, L, m),
           NEW e \in Event, NEW t \in 0 .. Len(E)
    PROVE  Trimming(L, E, m, e, t)
<1>1. PICK A, L2 : A = Append(E, e) /\ L2 = Append(L, e)
    BY Zenon
<1>2. PICK B : B = SubSeq(A, t + 1, Len(A))
    BY Zenon
<1>3. /\ A \in Seq(Event) /\ Len(A) = Len(E) + 1 /\ A[Len(A)] = e /\ Len(E) \in Nat
      /\ \A k \in 1 .. Len(E) : A[k] = E[k]
    <2>1. Longer(A, E, e)
        BY Zenon, <1>1, AppendFacts
    <2>2. QED
        BY Zenon, <2>1 DEF Longer
<1>4. /\ L2 \in Seq(Event) /\ Len(L2) = Len(L) + 1 /\ L2[Len(L2)] = e /\ Len(L) \in Nat
      /\ \A k \in 1 .. Len(L) : L2[k] = L[k]
    <2>1. Longer(L2, L, e)
        BY Zenon, <1>1, AppendFacts
    <2>2. QED
        BY Zenon, <2>1 DEF Longer
<1>5. Len(E) = Len(L) - m /\ \A k \in 1 .. Len(E) : E[k] = L[m + k]
    BY Zenon DEF SuffixOf
<1>6. \A k \in 1 .. Len(A) : A[k] = L2[m + k]
    <2>1. \A k \in 1 .. Len(E) : m + k \in 1 .. Len(L)
        BY SMT, <1>3, <1>4, <1>5
    <2>2. \A k \in 1 .. Len(E) : A[k] = L2[m + k]
        BY Zenon, <1>3, <1>4, <1>5, <2>1
    <2>3. m + Len(A) = Len(L2)
        BY SMT, <1>3, <1>4, <1>5
    <2>4. \A k \in 1 .. Len(A) : k \in 1 .. Len(E) \/ k = Len(A)
        BY Zenon, <1>3, LastOrBefore
    <2>5. QED
        BY Zenon, <1>3, <1>4, <2>2, <2>3, <2>4
<1>7. t \in 0 .. Len(A)
    BY SMT, <1>3
<1>8. B \in Seq(Event) /\ Len(B) = Len(A) - t /\ \A k \in 1 .. Len(B) : B[k] = A[t + k]
    <2>1. B \in Seq(Event) /\ SuffixOf(B, A, t)
        BY Zenon, <1>2, <1>3, <1>7, SuffixFacts
    <2>2. QED
        BY Zenon, <2>1 DEF SuffixOf
<1>9. \A k \in 1 .. Len(B) : B[k] = L2[m + t + k]
    <2>1. \A k \in 1 .. Len(B) : t + k \in 1 .. Len(A) /\ m + (t + k) = m + t + k
        BY SMT, <1>3, <1>8
    <2>2. ASSUME NEW k \in 1 .. Len(B) PROVE B[k] = L2[m + t + k]
        <3>1. B[k] = A[t + k] /\ A[t + k] = L2[m + (t + k)]
            BY Zenon, <1>6, <1>8, <2>1
        <3>2. QED
            BY Zenon, <2>1, <3>1
    <2>3. QED
        BY Zenon, <2>2
<1>10. A[t + 1] = L2[m + t + 1]
    <2>1. t + 1 \in 1 .. Len(A) /\ m + (t + 1) = m + t + 1
        BY SMT, <1>3
    <2>2. A[t + 1] = L2[m + (t + 1)]
        BY Zenon, <1>6, <2>1
    <2>3. QED
        BY Zenon, <2>1, <2>2
<1>11. Len(B) = Len(L2) - (m + t)
    <2>1. /\ Len(A) = Len(E) + 1 /\ Len(E) \in Nat /\ Len(L2) = Len(L) + 1 /\ Len(L) \in Nat
          /\ Len(E) = Len(L) - m /\ Len(B) = Len(A) - t
        BY Zenon, <1>3, <1>4, <1>5, <1>8
    <2>2. t \in Int
        BY SMT
    <2>3. QED
        BY SMT, <2>1, <2>2
<1>12. B \in Seq(Event) /\ SuffixOf(B, L2, m + t)
    BY Zenon, <1>8, <1>9, <1>11 DEF SuffixOf
<1>13. QED
    BY Zenon, <1>1, <1>2, <1>10, <1>12 DEF Trimming

BufferTypes ==
    /\ events \in [Incarnations -> Seq(Event)] /\ log \in [Incarnations -> Seq(Event)]
    /\ minSeq \in [Incarnations -> Seqs] /\ nextSeq \in [Incarnations -> 0 .. MaxOutput + 2]
    /\ completed \in [Incarnations -> BOOLEAN]

Types == {"started", "output", "exit", "error"}
EventOf(i, type) == [of |-> i, seq |-> nextSeq[i], type |-> type]

LEMMA EventFields ==
    ASSUME NEW i \in Incarnations, NEW type \in Types, nextSeq[i] \in Seqs
    PROVE  /\ EventOf(i, type) \in Event
           /\ EventOf(i, type).of = i /\ EventOf(i, type).seq = nextSeq[i] /\ EventOf(i, type).type = type
BY Zenon DEF EventOf, Event, Types

LEMMA EventType == ASSUME NEW i, NEW type PROVE EventOf(i, type).type = type
BY Zenon DEF EventOf

LEMMA AppendEffect ==
    ASSUME BufferTypes, NEW i \in Incarnations, NEW type, AppendEvent(i, type)
    PROVE  /\ log'[i] = Append(log[i], EventOf(i, type)) /\ nextSeq'[i] = nextSeq[i] + 1
           /\ completed'[i] = (completed[i] \/ IsTerminal(type))
           /\ \E all : /\ all = Append(events[i], EventOf(i, type))
                       /\ \E t \in 0 .. Len(all) - 1 :
                             /\ events'[i] = SubSeq(all, t + 1, Len(all))
                             /\ minSeq'[i] = MinSeqOf(all, t, minSeq[i])
<1> DEFINE all == Append(events[i], EventOf(i, type))
<1>1. log'[i] = Append(log[i], EventOf(i, type)) /\ nextSeq'[i] = nextSeq[i] + 1
    BY Zenon DEF BufferTypes, AppendEvent, EventOf
<1>2. completed'[i] = (completed[i] \/ IsTerminal(type))
    BY Zenon DEF BufferTypes, AppendEvent
<1>3. PICK t \in 0 .. Len(all) - 1 :
          /\ events' = [events EXCEPT ![i] = SubSeq(all, t + 1, Len(all))]
          /\ minSeq' = [minSeq EXCEPT ![i] = MinSeqOf(all, t, minSeq[i])]
    BY Zenon DEF AppendEvent, EventOf
<1>4. /\ events'[i] = SubSeq(all, t + 1, Len(all))
      /\ minSeq'[i] = MinSeqOf(all, t, minSeq[i])
    BY Zenon, <1>3 DEF BufferTypes
<1>5. QED
    BY Zenon, <1>1, <1>2, <1>4

BufferSame(j) ==
    /\ log'[j] = log[j] /\ events'[j] = events[j] /\ minSeq'[j] = minSeq[j]
    /\ nextSeq'[j] = nextSeq[j] /\ completed'[j] = completed[j]

LEMMA AppendElsewhere ==
    ASSUME BufferTypes, NEW i \in Incarnations, NEW type, AppendEvent(i, type), NEW j \in Incarnations, j # i
    PROVE  BufferSame(j)
<1>1. log'[j] = log[j] /\ events'[j] = events[j]
    BY Zenon DEF BufferTypes, AppendEvent
<1>2. minSeq'[j] = minSeq[j] /\ nextSeq'[j] = nextSeq[j]
    BY Zenon DEF BufferTypes, AppendEvent
<1>3. completed'[j] = completed[j]
    BY Zenon DEF BufferTypes, AppendEvent
<1>4. QED
    BY Zenon, <1>1, <1>2, <1>3 DEF BufferSame

\* The buffer keeps the end of the log, however much is trimmed, and minSeq its place.
LEMMA AppendKeepsLog ==
    ASSUME BufferTypes, NEW i \in Incarnations, LogOK(i), nextSeq[i] \in Seqs,
           NEW type \in Types, AppendEvent(i, type)
    PROVE  /\ LogOK(i)' /\ Longer(log'[i], log[i], EventOf(i, type))
           /\ events'[i] \in Seq(Event) /\ minSeq'[i] \in Seqs /\ minSeq[i] <= minSeq'[i]
<1> DEFINE e == EventOf(i, type)
<1>1. e \in Event /\ e.of = i /\ e.seq = nextSeq[i]
    BY Zenon, EventFields
<1> HIDE DEF e
<1>2. /\ log[i] \in Seq(Event) /\ events[i] \in Seq(Event) /\ minSeq[i] \in Seqs /\ nextSeq[i] \in 0 .. MaxOutput + 2
    BY Zenon DEF BufferTypes
<1>3. /\ Len(log[i]) = nextSeq[i] /\ SuffixOf(events[i], log[i], minSeq[i])
      /\ minSeq[i] < nextSeq[i] \/ (minSeq[i] = 0 /\ nextSeq[i] = 0)
      /\ \A k \in 1 .. Len(log[i]) : log[i][k].of = i /\ log[i][k].seq = k - 1
    BY Zenon DEF LogOK
<1>4. PICK all : /\ all = Append(events[i], e)
                 /\ \E t \in 0 .. Len(all) - 1 :
                       /\ events'[i] = SubSeq(all, t + 1, Len(all))
                       /\ minSeq'[i] = MinSeqOf(all, t, minSeq[i])
    BY Zenon, AppendEffect DEF e
<1>5. log'[i] = Append(log[i], e) /\ nextSeq'[i] = nextSeq[i] + 1
    BY Zenon, AppendEffect DEF e
<1>6. Longer(log'[i], log[i], e) /\ Longer(all, events[i], e)
    BY Zenon, <1>1, <1>2, <1>4, <1>5, AppendFacts
<1>7. /\ Len(log'[i]) = Len(log[i]) + 1 /\ log'[i][Len(log'[i])] = e /\ Len(log[i]) \in Nat
      /\ \A k \in 1 .. Len(log[i]) : log'[i][k] = log[i][k]
    BY Zenon, <1>6 DEF Longer
<1>8. Len(all) = Len(events[i]) + 1 /\ Len(events[i]) \in Nat
    BY Zenon, <1>6 DEF Longer
<1>9. PICK t \in 0 .. Len(all) - 1 : /\ events'[i] = SubSeq(all, t + 1, Len(all))
                                     /\ minSeq'[i] = MinSeqOf(all, t, minSeq[i])
    BY Zenon, <1>4
<1>10. t \in 0 .. Len(events[i])
    <2>1. Len(all) - 1 = Len(events[i])
        BY SMT, <1>8
    <2>2. QED
        BY Zenon, <1>9, <2>1
<1>11. MaxOutput \in Nat
    BY Zenon, ExecutionsAssumption
<1>12. minSeq[i] \in Nat /\ minSeq[i] <= Len(log[i])
    BY SMT, <1>2, <1>3, <1>7, <1>11 DEF Seqs
<1>13. events'[i] \in Seq(Event) /\ SuffixOf(events'[i], log'[i], minSeq[i] + t)
       /\ all[t + 1] = log'[i][minSeq[i] + t + 1]
    <2>1. Trimming(log[i], events[i], minSeq[i], e, t)
        BY Zenon, <1>1, <1>2, <1>3, <1>10, <1>12, TrimLog
    <2>2. QED
        BY Zenon, <1>4, <1>5, <1>9, <2>1 DEF Trimming
<1>14. minSeq[i] + t + 1 \in 1 .. Len(log'[i]) /\ (minSeq[i] + t + 1) - 1 = minSeq[i] + t /\ minSeq[i] + 0 = minSeq[i]
       /\ minSeq[i] <= minSeq[i] + t
    <2>1. Len(events[i]) = Len(log[i]) - minSeq[i]
        BY Zenon, <1>3 DEF SuffixOf
    <2>2. Len(log'[i]) \in Nat /\ t \in Nat /\ t <= Len(events[i])
        BY SMT, <1>7, <1>8, <1>10
    <2>3. Len(log'[i]) = Len(log[i]) + 1 /\ Len(events[i]) \in Nat /\ Len(log[i]) \in Nat
        BY Zenon, <1>7, <1>8
    <2>4. QED
        BY SMTT(20), <1>12, <2>1, <2>2, <2>3
<1>15. \A k \in 1 .. Len(log'[i]) : log'[i][k].of = i /\ log'[i][k].seq = k - 1
    <2>1. \A k \in 1 .. Len(log'[i]) : k \in 1 .. Len(log[i]) \/ k = Len(log'[i])
        BY Zenon, <1>7, LastOrBefore
    <2>2. Len(log'[i]) - 1 = nextSeq[i]
        BY SMT, <1>3, <1>7
    <2>3. QED
        BY Zenon, <1>1, <1>3, <1>7, <2>1, <2>2
<1>16. minSeq'[i] = minSeq[i] + t
    <2>1. CASE t = 0
        BY Zenon, <1>4, <1>9, <1>14, <2>1 DEF MinSeqOf
    <2>2. CASE t # 0
        <3>1. minSeq'[i] = all[t + 1].seq
            BY Zenon, <1>4, <1>9, <2>2 DEF MinSeqOf
        <3>2. PICK k : k = minSeq[i] + t + 1
            BY Zenon
        <3>3. k \in 1 .. Len(log'[i]) /\ all[t + 1] = log'[i][k]
            BY Zenon, <1>13, <1>14, <3>2
        <3>4. log'[i][k].seq = k - 1
            BY Zenon, <1>15, <3>3
        <3>5. k - 1 = minSeq[i] + t
            BY Zenon, <1>14, <3>2
        <3>6. QED
            BY Zenon, <3>1, <3>3, <3>4, <3>5
    <2>3. QED
        BY Zenon, <2>1, <2>2
<1>17. Len(log'[i]) = nextSeq'[i] /\ minSeq'[i] < nextSeq'[i] /\ minSeq'[i] \in Seqs /\ minSeq[i] <= minSeq'[i]
    <2>1. /\ Len(log[i]) = nextSeq[i] /\ nextSeq'[i] = nextSeq[i] + 1
          /\ minSeq[i] \in Nat /\ minSeq[i] + t + 1 \in 1 .. Len(log'[i])
          /\ Len(log'[i]) = Len(log[i]) + 1
          /\ nextSeq[i] \in Seqs /\ minSeq'[i] = minSeq[i] + t /\ t \in 0 .. Len(events[i]) /\ minSeq[i] <= minSeq[i] + t
        BY Zenon, <1>3, <1>5, <1>7, <1>10, <1>12, <1>14, <1>16
    <2>2. t \in Nat
        BY SMT, <1>8, <1>10
    <2>3. QED
        BY SMTT(20), <1>11, <2>1, <2>2 DEF Seqs
<1>18. QED
    BY Zenon, <1>6, <1>13, <1>15, <1>16, <1>17 DEF LogOK, e

\* An execution that is not over has room for one more number.
LEMMA RoomLeft ==
    ASSUME BufferTypes, NEW i \in Incarnations, BufferOK(i), ~completed[i]
    PROVE  nextSeq[i] \in Seqs
<1>1. nextSeq[i] = Len(log[i]) /\ nextSeq[i] \in 0 .. MaxOutput + 2 /\ MaxOutput \in Nat
    BY Zenon, ExecutionsAssumption DEF BufferOK, LogOK, BufferTypes
<1>2. Len(log[i]) <= MaxOutput + 1
    BY Zenon DEF BufferOK, CountOK
<1>3. QED
    BY SMT, <1>1, <1>2 DEF Seqs

\* What an append may do to an execution: nothing that was produced changes, and an
\* execution that is over stays as it is.
Grows(j) ==
    /\ Len(log[j]) <= Len(log'[j])
    /\ \A k \in 1 .. Len(log[j]) : log'[j][k] = log[j][k]
    /\ minSeq[j] <= minSeq'[j]
    /\ completed[j] => completed'[j] /\ log'[j] = log[j]

LEMMA SameBuffer ==
    ASSUME NEW j \in Incarnations, BufferSame(j), BufferTypes, BufferOK(j)
    PROVE  BufferOK(j)' /\ Grows(j)
<1>1. /\ log'[j] = log[j] /\ events'[j] = events[j] /\ minSeq'[j] = minSeq[j]
      /\ nextSeq'[j] = nextSeq[j] /\ completed'[j] = completed[j]
    BY Zenon DEF BufferSame
<1>2. LogOK(j)'
    BY Zenon, <1>1 DEF BufferOK, LogOK
<1>3. EndOK(j)'
    BY Zenon, <1>1 DEF BufferOK, EndOK
<1>4. CountOK(j)'
    BY Zenon, <1>1 DEF BufferOK, CountOK
<1>5. Grows(j)
    <2>1. Len(log[j]) <= Len(log[j]) /\ minSeq[j] <= minSeq[j]
        <3>1. log[j] \in Seq(Event) /\ minSeq[j] \in Seqs
            BY Zenon DEF BufferTypes
        <3>2. MaxOutput \in Nat
            BY Zenon, ExecutionsAssumption
        <3>3. QED
            BY SMT, <3>1, <3>2 DEF Seqs
    <2>2. QED
        BY Zenon, <1>1, <2>1 DEF Grows
<1>6. QED
    BY Zenon, <1>2, <1>3, <1>4, <1>5 DEF BufferOK

LEMMA AppendKeepsEnd ==
    ASSUME NEW i, NEW e, Longer(log'[i], log[i], e), EndOK(i), ~completed[i],
           completed'[i] <=> IsTerminal(e.type)
    PROVE  EndOK(i)'
<1>1. /\ Len(log'[i]) = Len(log[i]) + 1 /\ Len(log[i]) \in Nat /\ log'[i][Len(log'[i])] = e
      /\ \A k \in 1 .. Len(log[i]) : log'[i][k] = log[i][k]
    BY Zenon DEF Longer
<1>2. \A k \in 1 .. Len(log[i]) : k \in 1 .. Len(log[i]) - 1 \/ (k = Len(log[i]) /\ Len(log[i]) # 0)
    BY SMT, <1>1
<1>3. \A k \in 1 .. Len(log[i]) : ~IsTerminal(log[i][k].type)
    BY Zenon, <1>2 DEF EndOK
<1>4. Len(log'[i]) - 1 = Len(log[i]) /\ Len(log'[i]) # 0
    BY SMT, <1>1
<1>5. \A k \in 1 .. Len(log'[i]) - 1 : ~IsTerminal(log'[i][k].type)
    BY Zenon, <1>1, <1>3, <1>4
<1>6. QED
    BY Zenon, <1>1, <1>4, <1>5 DEF EndOK

LEMMA AppendKeepsCount ==
    ASSUME NEW i, NEW e, Longer(log'[i], log[i], e), CountOK(i), ~completed[i],
           completed'[i] <=> IsTerminal(e.type),
           e.type = "output" => Len(log[i]) <= MaxOutput,
           e.type = "started" => Len(log[i]) = 0,
           e.type \in Types
    PROVE  CountOK(i)'
<1>1. Len(log'[i]) = Len(log[i]) + 1 /\ Len(log[i]) \in Nat /\ MaxOutput \in Nat
    BY Zenon, ExecutionsAssumption DEF Longer
<1>2. Len(log[i]) <= MaxOutput + 1
    BY Zenon DEF CountOK
<1>3. CASE IsTerminal(e.type)
    <2>1. Len(log'[i]) <= MaxOutput + 2
        BY SMT, <1>1, <1>2
    <2>2. QED
        BY Zenon, <1>3, <2>1 DEF CountOK
<1>4. CASE ~IsTerminal(e.type)
    <2>1. e.type = "output" \/ e.type = "started"
        BY Zenon, <1>4 DEF IsTerminal, Types
    <2>2. Len(log'[i]) <= MaxOutput + 1
        BY SMT, <1>1, <2>1
    <2>3. QED
        BY Zenon, <1>4, <2>2 DEF CountOK
<1>5. QED
    BY Zenon, <1>3, <1>4

LEMMA AppendTypes ==
    ASSUME BufferTypes, NEW i \in Incarnations, LogOK(i), nextSeq[i] \in Seqs, NEW type \in Types,
           AppendEvent(i, type)
    PROVE  BufferTypes'
<1>1. events'[i] \in Seq(Event) /\ minSeq'[i] \in Seqs /\ Longer(log'[i], log[i], EventOf(i, type))
    BY Zenon, AppendKeepsLog
<1>2. log'[i] \in Seq(Event)
    BY Zenon, <1>1 DEF Longer
<1>3. nextSeq'[i] \in 0 .. MaxOutput + 2
    <2>1. nextSeq'[i] = nextSeq[i] + 1 /\ MaxOutput \in Nat
        BY Zenon, AppendEffect, ExecutionsAssumption
    <2>2. QED
        BY SMT, <2>1 DEF Seqs
<1>4. events' \in [Incarnations -> Seq(Event)]
    <2>1. PICK q : events' = [events EXCEPT ![i] = q]
        BY Zenon DEF AppendEvent
    <2>2. q = events'[i] /\ events \in [Incarnations -> Seq(Event)]
        BY Zenon, <2>1 DEF BufferTypes
    <2>3. QED
        BY Zenon, <1>1, <2>1, <2>2
<1>5. log' \in [Incarnations -> Seq(Event)]
    <2>1. PICK q : log' = [log EXCEPT ![i] = q]
        BY Zenon DEF AppendEvent
    <2>2. q = log'[i] /\ log \in [Incarnations -> Seq(Event)]
        BY Zenon, <2>1 DEF BufferTypes
    <2>3. QED
        BY Zenon, <1>2, <2>1, <2>2
<1>6. minSeq' \in [Incarnations -> Seqs]
    <2>1. PICK q : minSeq' = [minSeq EXCEPT ![i] = q]
        BY Zenon DEF AppendEvent
    <2>2. q = minSeq'[i] /\ minSeq \in [Incarnations -> Seqs]
        BY Zenon, <2>1 DEF BufferTypes
    <2>3. QED
        BY Zenon, <1>1, <2>1, <2>2
<1>7. nextSeq' \in [Incarnations -> 0 .. MaxOutput + 2]
    <2>1. PICK q : nextSeq' = [nextSeq EXCEPT ![i] = q]
        BY Zenon DEF AppendEvent
    <2>2. q = nextSeq'[i] /\ nextSeq \in [Incarnations -> 0 .. MaxOutput + 2]
        BY Zenon, <2>1 DEF BufferTypes
    <2>3. QED
        BY Zenon, <1>3, <2>1, <2>2
<1>8. completed' \in [Incarnations -> BOOLEAN]
    <2>1. completed' = [completed EXCEPT ![i] = completed[i] \/ IsTerminal(type)]
        BY Zenon DEF AppendEvent
    <2>2. completed \in [Incarnations -> BOOLEAN] /\ (completed[i] \/ IsTerminal(type)) \in BOOLEAN
        BY Zenon DEF BufferTypes
    <2>3. QED
        BY Zenon, <2>1, <2>2
<1>9. QED
    BY Zenon, <1>4, <1>5, <1>6, <1>7, <1>8 DEF BufferTypes

\* An append leaves every execution in order.
LEMMA AppendKeeps ==
    ASSUME BufferTypes, \A j \in Incarnations : BufferOK(j),
           NEW i \in Incarnations, ~completed[i], NEW type \in Types, AppendEvent(i, type),
           type = "output" => nextSeq[i] <= MaxOutput,
           type = "started" => Len(log[i]) = 0
    PROVE  /\ BufferTypes' /\ \A j \in Incarnations : BufferOK(j)' /\ Grows(j)
           /\ completed'[i] <=> IsTerminal(type)
           /\ Longer(log'[i], log[i], EventOf(i, type))
           /\ nextSeq'[i] # 0
<1>1. nextSeq[i] \in Seqs
    BY Zenon, RoomLeft
<1>2. LogOK(i) /\ EndOK(i) /\ CountOK(i) /\ Len(log[i]) = nextSeq[i]
    BY Zenon DEF BufferOK, LogOK
<1>3. /\ LogOK(i)' /\ Longer(log'[i], log[i], EventOf(i, type)) /\ minSeq[i] <= minSeq'[i]
    BY Zenon, <1>1, <1>2, AppendKeepsLog
<1>4. EventOf(i, type).type = type
    BY Zenon, EventType
<1>5. completed'[i] <=> IsTerminal(type)
    <2>1. completed'[i] = (completed[i] \/ IsTerminal(type)) /\ completed[i] \in BOOLEAN
        BY Zenon, AppendEffect DEF BufferTypes
    <2>2. QED
        BY Zenon, <2>1 DEF IsTerminal
<1>6. EndOK(i)'
    BY Zenon, <1>2, <1>3, <1>4, <1>5, AppendKeepsEnd
<1>7. CountOK(i)'
    BY Zenon, <1>2, <1>3, <1>4, <1>5, AppendKeepsCount
<1>8. BufferTypes'
    BY Zenon, <1>1, <1>2, AppendTypes
<1>9. Grows(i)
    <2>1. Len(log'[i]) = Len(log[i]) + 1 /\ Len(log[i]) \in Nat /\ \A k \in 1 .. Len(log[i]) : log'[i][k] = log[i][k]
        BY Zenon, <1>3 DEF Longer
    <2>2. Len(log[i]) <= Len(log'[i])
        BY SMT, <2>1
    <2>3. QED
        BY Zenon, <1>3, <2>1, <2>2 DEF Grows
<1>10. \A j \in Incarnations : BufferOK(j)' /\ Grows(j)
    <2>1. ASSUME NEW j \in Incarnations, j # i PROVE BufferOK(j)' /\ Grows(j)
        BY Zenon, <2>1, AppendElsewhere, SameBuffer
    <2>2. BufferOK(i)'
        BY Zenon, <1>3, <1>6, <1>7 DEF BufferOK
    <2>3. QED
        BY Zenon, <1>9, <2>1, <2>2
<1>11. nextSeq'[i] # 0
    <2>1. nextSeq'[i] = nextSeq[i] + 1 /\ MaxOutput \in Nat
        BY Zenon, AppendEffect, ExecutionsAssumption
    <2>2. QED
        BY SMT, <1>1, <2>1 DEF Seqs
<1>12. QED
    BY Zenon, <1>3, <1>5, <1>8, <1>10, <1>11

-----------------------------------------------------------------------------
\* Streams that a step does not touch.

ManagerTypes ==
    /\ executions \in 0 .. MaxIncarnations /\ created \in 0 .. MaxIncarnations
    /\ removed \subseteq Incarnations /\ faults \in 0 .. MaxFaults
ProcessTypes ==
    /\ cancelled \in [Incarnations -> BOOLEAN]
    /\ command \in [Incarnations -> {"none", "starting", "running", "exited", "done", "lost"}]
    /\ readers \in [Incarnations -> SUBSET Pipes]
ServingTypes ==
    /\ handler \in [Streams -> {"none", "preflight", "follow", "wait", "closed"}]
    /\ incarnation \in [Streams -> 0 .. MaxIncarnations]
    /\ after \in [Streams -> Seqs \cup {Nil}] /\ notify \in [Streams -> 0 .. MaxOutput + 2]
    /\ wire \in [Streams -> Seq(Event)]
ProxyTypes ==
    /\ pc \in [Streams -> {"idle", "stream", "backoff", "done", "left", "refused"}]
    /\ attempt \in [Streams -> 0 .. ExecMaxRetries]
    /\ lastSeq \in [Streams -> Seqs \cup {Nil}] /\ seen \in [Streams -> Seq(Event)]

LEMMA TypesSplit ==
    TypeOK <=> ManagerTypes /\ BufferTypes /\ ProcessTypes /\ ServingTypes /\ ProxyTypes
BY Zenon DEF TypeOK, ManagerTypes, BufferTypes, ProcessTypes, ServingTypes, ProxyTypes

StreamSame(s) ==
    /\ handler'[s] = handler[s] /\ incarnation'[s] = incarnation[s] /\ after'[s] = after[s]
    /\ wire'[s] = wire[s] /\ pc'[s] = pc[s] /\ attempt'[s] = attempt[s]
    /\ lastSeq'[s] = lastSeq[s] /\ seen'[s] = seen[s]

\* What no step undoes.
Later ==
    /\ created <= created' /\ removed \subseteq removed' /\ faults' <= faults
    /\ \A j \in Incarnations : Grows(j)

LEMMA Numbers ==
    ASSUME TypeOK
    PROVE  /\ created \in Nat /\ executions \in Nat /\ faults \in Nat /\ faults <= MaxFaults /\ MaxFaults \in Nat
           /\ ExecMaxRetries \in Nat /\ MaxOutput \in Nat /\ MaxIncarnations \in Nat /\ created <= MaxIncarnations
           /\ \A i \in Incarnations : i \in Nat /\ i # 0 /\ Len(log[i]) \in Nat /\ minSeq[i] \in Nat /\ nextSeq[i] \in Nat
           /\ \A s \in Streams : /\ incarnation[s] \in Nat /\ (incarnation[s] # 0 => incarnation[s] \in Incarnations)
                                 /\ Len(seen[s]) \in Nat /\ Len(wire[s]) \in Nat /\ attempt[s] \in Nat
<1>1. MaxFaults \in Nat /\ ExecMaxRetries \in Nat /\ MaxOutput \in Nat /\ MaxIncarnations \in Nat
    BY Zenon, ExecutionsAssumption
<1>2. executions \in 0 .. MaxIncarnations /\ created \in 0 .. MaxIncarnations /\ faults \in 0 .. MaxFaults
    BY Zenon DEF TypeOK
<1>3. created \in Nat /\ executions \in Nat /\ faults \in Nat /\ faults <= MaxFaults /\ created <= MaxIncarnations
    BY SMT, <1>1, <1>2
<1>4. ASSUME NEW i \in Incarnations
      PROVE  i \in Nat /\ i # 0 /\ Len(log[i]) \in Nat /\ minSeq[i] \in Nat /\ nextSeq[i] \in Nat
    <2>1. log[i] \in Seq(Event) /\ minSeq[i] \in Seqs /\ nextSeq[i] \in 0 .. MaxOutput + 2
        BY Zenon, <1>4 DEF TypeOK
    <2>2. minSeq[i] \in Nat /\ nextSeq[i] \in Nat
        BY SMT, <1>1, <2>1 DEF Seqs
    <2>3. i \in Nat /\ i # 0
        BY SMT, <1>1, <1>4 DEF Incarnations
    <2>4. Len(log[i]) \in Nat
        BY SMT, <2>1
    <2>5. QED
        BY Zenon, <2>2, <2>3, <2>4
<1>5. ASSUME NEW s \in Streams
      PROVE  /\ incarnation[s] \in Nat /\ (incarnation[s] # 0 => incarnation[s] \in Incarnations)
             /\ Len(seen[s]) \in Nat /\ Len(wire[s]) \in Nat /\ attempt[s] \in Nat
    <2>1. /\ seen[s] \in Seq(Event) /\ wire[s] \in Seq(Event) /\ incarnation[s] \in 0 .. MaxIncarnations
          /\ attempt[s] \in 0 .. ExecMaxRetries
        BY Zenon, <1>5 DEF TypeOK
    <2>2. Len(seen[s]) \in Nat /\ Len(wire[s]) \in Nat
        BY SMT, <2>1
    <2>3. attempt[s] \in Nat
        BY SMT, <1>1, <2>1
    <2>4. incarnation[s] \in Nat /\ (incarnation[s] # 0 => incarnation[s] \in Incarnations)
        BY SMT, <1>1, <2>1 DEF Incarnations
    <2>5. QED
        BY Zenon, <2>2, <2>3, <2>4
<1>6. QED
    BY Zenon, <1>1, <1>3, <1>4, <1>5

LEMMA NumbersNext ==
    ASSUME TypeOK'
    PROVE  created' \in Nat /\ faults' \in Nat /\ \A i \in Incarnations : Len(log'[i]) \in Nat
<1>1. MaxFaults \in Nat /\ MaxIncarnations \in Nat
    BY Zenon, ExecutionsAssumption
<1>2. created' \in 0 .. MaxIncarnations /\ faults' \in 0 .. MaxFaults
    BY Zenon DEF TypeOK
<1>3. created' \in Nat /\ faults' \in Nat
    BY SMT, <1>1, <1>2
<1>4. ASSUME NEW i \in Incarnations PROVE Len(log'[i]) \in Nat
    <2>1. log'[i] \in Seq(Event)
        BY Zenon, <1>4 DEF TypeOK
    <2>2. QED
        BY SMT, <2>1
<1>5. QED
    BY Zenon, <1>3, <1>4

LEMMA StreamKept ==
    ASSUME TypeOK, TypeOK', Later, NEW s \in Streams, StreamSame(s), StreamOK(s)
    PROVE  StreamOK(s)'
<1>1. /\ handler'[s] = handler[s] /\ incarnation'[s] = incarnation[s] /\ after'[s] = after[s]
      /\ wire'[s] = wire[s] /\ pc'[s] = pc[s] /\ attempt'[s] = attempt[s]
      /\ lastSeq'[s] = lastSeq[s] /\ seen'[s] = seen[s]
    BY Zenon DEF StreamSame
<1>2. created <= created' /\ created \in Nat /\ incarnation[s] \in Nat /\ Len(wire[s]) \in Nat
    BY Zenon, Numbers DEF Later
<1>3. created' \in Nat
    BY Zenon, NumbersNext
<1>4. SeenOK(s)'
    <2>1. \A k \in 1 .. created : k \in 1 .. created'
        BY SMT, <1>2, <1>3
    <2>2. QED
        BY Zenon, <1>1, <2>1 DEF StreamOK, SeenOK
<1>5. PhaseOK(s)'
    <2>1. incarnation[s] <= created => incarnation[s] <= created'
        BY SMT, <1>2, <1>3
    <2>2. QED
        BY Zenon, <1>1, <2>1 DEF StreamOK, PhaseOK
<1>6. WireOK(s)'
    <2>1. after[s] = Before(Len(seen[s]) + Len(wire[s])) \/ pc[s] # "stream"
        BY Zenon DEF StreamOK, WireOK
    <2>2. CASE incarnation[s] = 0
        <3>1. wire[s] = <<>>
            BY Zenon, <2>2 DEF StreamOK, PhaseOK
        <3>2. Len(wire[s]) = 0
            BY SMT, <3>1
        <3>3. \A k : k \notin 1 .. 0
            BY SMT
        <3>4. QED
            BY Zenon, <1>1, <2>1, <3>2, <3>3 DEF WireOK
    <2>3. CASE incarnation[s] # 0
        <3>1. incarnation[s] \in Incarnations
            BY Zenon, <2>3, Numbers
        <3>2. PICK i : i = incarnation[s]
            BY Zenon
        <3>3. Len(log[i]) \in Nat /\ Len(log[i]) <= Len(log'[i]) /\ \A k \in 1 .. Len(log[i]) : log'[i][k] = log[i][k]
            BY Zenon, <3>1, <3>2, Numbers DEF Later, Grows
        <3>4. Len(log'[i]) \in Nat
            BY Zenon, <3>1, <3>2, NumbersNext
        <3>5. \A k \in 1 .. Len(log[i]) : k \in 1 .. Len(log'[i])
            BY SMT, <3>3, <3>4
        <3>6. \A k \in 1 .. Len(wire[s]) : Len(seen[s]) + k \in 1 .. Len(log[i]) /\ wire[s][k] = log[i][Len(seen[s]) + k]
            BY Zenon, <3>2 DEF StreamOK, WireOK
        <3>7. \A k \in 1 .. Len(wire[s]) : Len(seen[s]) + k \in 1 .. Len(log'[i]) /\ wire[s][k] = log'[i][Len(seen[s]) + k]
            BY Zenon, <3>3, <3>5, <3>6
        <3>8. QED
            BY Zenon, <1>1, <2>1, <3>2, <3>7 DEF WireOK
    <2>4. QED
        BY Zenon, <2>2, <2>3
<1>7. OpenOK(s)'
    BY Zenon, <1>1 DEF StreamOK, OpenOK
<1>8. QED
    BY Zenon, <1>4, <1>5, <1>6, <1>7 DEF StreamOK

LEMMA PrefixKept ==
    ASSUME TypeOK, TypeOK', Later, NEW s \in Streams, StreamSame(s), PrefixOK(s)
    PROVE  PrefixOK(s)'
<1>1. incarnation'[s] = incarnation[s] /\ seen'[s] = seen[s]
    BY Zenon DEF StreamSame
<1>2. SUFFICES ASSUME incarnation'[s] # 0, removed' = {}
      PROVE \A k \in 1 .. Len(seen'[s]) : k \in 1 .. Len(log'[incarnation'[s]]) /\ seen'[s][k] = log'[incarnation'[s]][k]
    BY Zenon DEF PrefixOK
<1>3. PICK i : i = incarnation[s]
    BY Zenon
<1>4. i \in Incarnations
    BY Zenon, <1>1, <1>2, <1>3, Numbers
<1>5. removed = {}
    BY Zenon, <1>2 DEF Later
<1>6. \A k \in 1 .. Len(seen[s]) : k \in 1 .. Len(log[i]) /\ seen[s][k] = log[i][k]
    BY Zenon, <1>1, <1>2, <1>3, <1>5 DEF PrefixOK
<1>7. Len(log[i]) \in Nat /\ Len(log[i]) <= Len(log'[i]) /\ \A k \in 1 .. Len(log[i]) : log'[i][k] = log[i][k]
    BY Zenon, <1>4, Numbers DEF Later, Grows
<1>8. Len(log'[i]) \in Nat
    BY Zenon, <1>4, NumbersNext
<1>9. \A k \in 1 .. Len(log[i]) : k \in 1 .. Len(log'[i])
    BY SMT, <1>7, <1>8
<1>10. QED
    BY Zenon, <1>1, <1>3, <1>6, <1>7, <1>9

LEMMA RetryKept ==
    ASSUME TypeOK, TypeOK', Later, NEW s \in Streams, StreamSame(s), RetryOK(s)
    PROVE  RetryOK(s)'
<1>1. /\ handler'[s] = handler[s] /\ incarnation'[s] = incarnation[s] /\ attempt'[s] = attempt[s]
      /\ wire'[s] = wire[s] /\ pc'[s] = pc[s] /\ seen'[s] = seen[s]
    BY Zenon DEF StreamSame
<1>2. SUFFICES ASSUME Whole(s)'
      PROVE  /\ attempt[s] + (IF pc[s] = "backoff" THEN 1 ELSE 0) <= MaxFaults - faults'
             /\ handler[s] = "closed" => /\ completed'[incarnation[s]]
                                         /\ Len(seen[s]) + Len(wire[s]) = Len(log'[incarnation[s]])
             /\ pc[s] = "done" => \/ ExecMaxRetries < MaxFaults - faults'
                                  \/ seen[s] # <<>> /\ IsTerminal(seen[s][Len(seen[s])].type)
    BY Zenon, <1>1 DEF RetryOK
<1>3. PICK i : i = incarnation[s]
    BY Zenon
<1>4. i \in Incarnations /\ i # 0 /\ minSeq'[i] = 0 /\ removed' = {}
    BY Zenon, <1>1, <1>2, <1>3, Numbers DEF Whole
<1>5. minSeq[i] <= minSeq'[i] /\ (completed[i] => completed'[i] /\ log'[i] = log[i]) /\ removed = {} /\ minSeq[i] \in Nat
    BY Zenon, <1>4, Numbers DEF Later, Grows
<1>6. minSeq[i] = 0
    BY SMT, <1>4, <1>5
<1>7. Whole(s)
    BY Zenon, <1>3, <1>4, <1>5, <1>6 DEF Whole
<1>8. PICK b : b = attempt[s] + (IF pc[s] = "backoff" THEN 1 ELSE 0)
    BY Zenon
<1>9. b <= MaxFaults - faults
    BY Zenon, <1>7, <1>8 DEF RetryOK
<1>10. b \in Nat
    <2>1. attempt[s] \in Nat
        BY Zenon, Numbers
    <2>2. attempt[s] + 1 \in Nat /\ attempt[s] + 0 \in Nat
        BY SMT, <2>1
    <2>3. QED
        BY Zenon, <1>8, <2>2
<1>11. faults \in Nat /\ faults' <= faults /\ MaxFaults \in Nat /\ ExecMaxRetries \in Nat
    BY Zenon, Numbers DEF Later
<1>12. faults' \in Nat
    BY Zenon, NumbersNext
<1>13. b <= MaxFaults - faults' /\ (ExecMaxRetries < MaxFaults - faults => ExecMaxRetries < MaxFaults - faults')
    <2>1. \A f, g \in Nat : g <= f => MaxFaults - f <= MaxFaults - g /\ MaxFaults - f \in Int /\ MaxFaults - g \in Int
        BY SMT, <1>11
    <2>2. PICK x, y : x = MaxFaults - faults /\ y = MaxFaults - faults'
        BY Zenon
    <2>3. x <= y /\ x \in Int /\ y \in Int
        BY Zenon, <1>11, <1>12, <2>1, <2>2
    <2>4. b <= y /\ (ExecMaxRetries < x => ExecMaxRetries < y)
        <3>1. b <= x
            BY Zenon, <1>9, <2>2
        <3>2. QED
            BY SMT, <1>10, <1>11, <2>3, <3>1
    <2>5. QED
        BY Zenon, <2>2, <2>4
<1>14. QED
    BY Zenon, <1>3, <1>5, <1>7, <1>8, <1>13 DEF RetryOK

-----------------------------------------------------------------------------
\* What a reader is given.

LEMMA EmptyTail == ASSUME NEW q \in Seq(Event), NEW t \in Nat, t >= Len(q) PROVE SubSeq(q, t + 1, Len(q)) = <<>>
BY SMT

LEMMA EmptyLength == Len(<<>>) = 0
BY SMT

LEMMA SuffixUnique ==
    ASSUME NEW D \in Seq(Event), NEW E \in Seq(Event), NEW q, NEW n, SuffixOf(D, q, n), SuffixOf(E, q, n)
    PROVE  D = E
<1>1. Len(D) = Len(E) /\ \A k \in 1 .. Len(D) : D[k] = E[k]
    BY Zenon DEF SuffixOf
<1>2. QED
    BY SMT, <1>1

BufferAt(i) ==
    /\ log[i] \in Seq(Event) /\ events[i] \in Seq(Event) /\ minSeq[i] \in Nat
    /\ Len(log[i]) \in Nat /\ Len(events[i]) \in Nat /\ minSeq[i] <= Len(log[i])

LEMMA BufferAtHolds == ASSUME TypeOK, NEW i \in Incarnations, LogOK(i) PROVE BufferAt(i)
<1>1. log[i] \in Seq(Event) /\ events[i] \in Seq(Event) /\ minSeq[i] \in Nat /\ Len(log[i]) \in Nat
    BY Zenon, Numbers DEF TypeOK
<1>2. Len(events[i]) \in Nat
    BY SMT, <1>1
<1>3. Len(log[i]) = nextSeq[i] /\ (minSeq[i] < nextSeq[i] \/ (minSeq[i] = 0 /\ nextSeq[i] = 0))
    BY Zenon DEF LogOK
<1>4. minSeq[i] <= Len(log[i])
    BY SMT, <1>1, <1>3
<1>5. QED
    BY Zenon, <1>1, <1>2, <1>4 DEF BufferAt

\* Where eventsAfter begins, for the number before position p.
LEMMA StartOf ==
    ASSUME NEW i \in Incarnations, BufferAt(i), NEW p \in Nat, HasHistoryAfter(i, Before(p)), Before(p) # MaxUint
    PROVE  /\ minSeq[i] <= p
           /\ EventsAfter(i, Before(p)) = SubSeq(events[i], (p - minSeq[i]) + 1, Len(events[i]))
<1>1. minSeq[i] \in Nat /\ Nil \notin Int
    BY Zenon, ExecutionsAssumption DEF BufferAt
<1> DEFINE a == Before(p)
           start == IF a # Nil /\ a >= minSeq[i] THEN a - minSeq[i] + 1 ELSE 0
<1>2. EventsAfter(i, a) = SubSeq(events[i], start + 1, Len(events[i]))
    BY Zenon DEF EventsAfter
<1>3. CASE p = 0
    <2>1. a = Nil /\ minSeq[i] = 0
        BY Zenon, <1>3 DEF Before, HasHistoryAfter
    <2>2. start = 0
        BY Zenon, <2>1
    <2>3. p - minSeq[i] = 0 /\ minSeq[i] <= p
        BY SMT, <1>3, <2>1
    <2>4. QED
        BY Zenon, <1>2, <2>2, <2>3
<1>4. CASE p # 0
    <2>1. a = p - 1
        BY Zenon, <1>4 DEF Before
    <2>2. p - 1 \in Int
        BY SMT
    <2>3. a # Nil /\ a # MaxUint
        BY Zenon, <1>1, <2>1, <2>2
    <2>4. a + 1 >= minSeq[i]
        BY Zenon, <2>3 DEF HasHistoryAfter
    <2>5. minSeq[i] <= p
        <3> HIDE DEF a
        <3>1. QED
            BY SMT, <1>1, <2>1, <2>4
    <2>6. start = p - minSeq[i]
        <3>1. CASE a >= minSeq[i]
            <4>1. start = a - minSeq[i] + 1
                BY Zenon, <2>3, <3>1
            <4> HIDE DEF a, start
            <4>2. QED
                BY SMT, <1>1, <2>1, <4>1
        <3>2. CASE ~(a >= minSeq[i])
            <4>1. start = 0
                BY Zenon, <3>2
            <4> HIDE DEF a, start
            <4>2. QED
                BY SMT, <1>1, <2>1, <2>4, <3>2, <4>1
        <3>3. QED
            BY Zenon, <3>1, <3>2
    <2>7. QED
        BY Zenon, <1>2, <2>5, <2>6
<1>5. QED
    BY Zenon, <1>3, <1>4

\* An answer for the number before position p is the log from there on, or nothing.
LEMMA EventsAfterFacts ==
    ASSUME NEW i \in Incarnations, BufferAt(i), LogOK(i), NEW p \in Nat,
           HasHistoryAfter(i, Before(p)), Before(p) # MaxUint
    PROVE  /\ EventsAfter(i, Before(p)) \in Seq(Event)
           /\ p <= Len(log[i]) => SuffixOf(EventsAfter(i, Before(p)), log[i], p)
           /\ p >= Len(log[i]) => EventsAfter(i, Before(p)) = <<>>
<1>1. PICK D : D = EventsAfter(i, Before(p))
    BY Zenon
<1>2. PICK t : t = p - minSeq[i]
    BY Zenon
<1>3. minSeq[i] <= p /\ D = SubSeq(events[i], t + 1, Len(events[i]))
    BY Zenon, <1>1, <1>2, StartOf
<1>4. /\ events[i] \in Seq(Event) /\ minSeq[i] \in Nat /\ Len(log[i]) \in Nat /\ Len(events[i]) \in Nat
      /\ minSeq[i] <= Len(log[i])
    BY Zenon DEF BufferAt
<1>5. Len(events[i]) = Len(log[i]) - minSeq[i] /\ \A k \in 1 .. Len(events[i]) : events[i][k] = log[i][minSeq[i] + k]
    BY Zenon DEF LogOK, SuffixOf
<1>6. t \in Nat /\ (p <= Len(log[i]) => t \in 0 .. Len(events[i])) /\ (p >= Len(log[i]) => t >= Len(events[i]))
    <2>1. PICK m, l, v : m = minSeq[i] /\ l = Len(log[i]) /\ v = Len(events[i])
        BY Zenon
    <2>2. m \in Nat /\ l \in Nat /\ v = l - m /\ t = p - m /\ m <= p /\ m <= l
        BY Zenon, <1>2, <1>3, <1>4, <1>5, <2>1
    <2>3. t \in Nat /\ (p <= l => t \in 0 .. v) /\ (p >= l => t >= v)
        BY SMT, <2>2
    <2>4. QED
        BY Zenon, <2>1, <2>3
<1>7. ASSUME p >= Len(log[i]) PROVE D = <<>>
    BY Zenon, <1>3, <1>4, <1>6, <1>7, EmptyTail
<1>8. ASSUME p <= Len(log[i]) PROVE D \in Seq(Event) /\ SuffixOf(D, log[i], p)
    <2>1. D \in Seq(Event) /\ SuffixOf(D, events[i], t)
        BY Zenon, <1>3, <1>4, <1>6, <1>8, SuffixFacts
    <2>2. Len(D) = Len(events[i]) - t /\ \A k \in 1 .. Len(D) : D[k] = events[i][t + k]
        BY Zenon, <2>1 DEF SuffixOf
    <2>3. Len(D) = Len(log[i]) - p
        <3>1. PICK m, l, v : m = minSeq[i] /\ l = Len(log[i]) /\ v = Len(events[i])
            BY Zenon
        <3>2. m \in Nat /\ l \in Nat /\ v = l - m /\ t = p - m /\ Len(D) = v - t
            BY Zenon, <1>2, <1>4, <1>5, <2>2, <3>1
        <3>3. v - t = l - p
            BY SMT, <3>2
        <3>4. QED
            BY Zenon, <3>1, <3>2, <3>3
    <2>4. \A k \in 1 .. Len(D) : t + k \in 1 .. Len(events[i]) /\ minSeq[i] + (t + k) = p + k
        <3>1. PICK m, d, v : m = minSeq[i] /\ d = Len(D) /\ v = Len(events[i])
            BY Zenon
        <3>2. m \in Nat /\ v \in Nat /\ d = v - t /\ t = p - m /\ t \in Nat
            BY Zenon, <1>2, <1>4, <1>6, <2>2, <3>1
        <3>3. \A k \in 1 .. d : t + k \in 1 .. v /\ m + (t + k) = p + k
            BY SMT, <3>2
        <3>4. QED
            BY Zenon, <3>1, <3>3
    <2>5. ASSUME NEW k \in 1 .. Len(D) PROVE D[k] = log[i][p + k]
        <3>1. D[k] = events[i][t + k] /\ events[i][t + k] = log[i][minSeq[i] + (t + k)]
            BY Zenon, <1>5, <2>2, <2>4
        <3>2. QED
            BY Zenon, <2>4, <3>1
    <2>6. QED
        BY Zenon, <2>1, <2>3, <2>5 DEF SuffixOf
<1>9. <<>> \in Seq(Event) /\ (p <= Len(log[i]) \/ p >= Len(log[i]))
    BY SMT, <1>4
<1>10. QED
    BY Zenon, <1>1, <1>7, <1>8, <1>9

LEMMA HistoryExactAt ==
    ASSUME TypeOK, NEW i \in Incarnations, BufferOK(i), NEW a \in Afters, HasHistoryAfter(i, a)
    PROVE  \E n \in 0 .. Len(log[i]) :
              /\ GetBody(i, a) = SubSeq(log[i], n + 1, Len(log[i]))
              /\ \A k \in 1 .. Len(log[i]) : k > n <=> IsDue(i, a, k)
<1> USE DEF IsDue
<1>1. LogOK(i)
    BY Zenon DEF BufferOK
<1>2. BufferAt(i) /\ log[i] \in Seq(Event) /\ Len(log[i]) \in Nat
    BY Zenon, <1>1, BufferAtHolds DEF BufferAt
<1>3. HasHistoryAfter(i, a) /\ GetBody(i, a) = EventsAfter(i, a)
    BY Zenon DEF Snapshot, GetBody
<1>4. \A k \in 1 .. Len(log[i]) : log[i][k].seq = k - 1
    BY Zenon, <1>1 DEF LogOK
<1>5. PICK l : l = Len(log[i])
    BY Zenon
<1>6. l \in Nat /\ l \in 0 .. l /\ l >= l
    BY SMT, <1>2, <1>5
<1>7. MaxOutput \in Nat /\ MaxUint \in Nat /\ MaxOutput + 2 < MaxUint /\ Nil \notin Int
    BY Zenon, ExecutionsAssumption
<1>8. l \in 0 .. MaxOutput + 2
    <2>1. l = nextSeq[i]
        BY Zenon, <1>1, <1>5 DEF LogOK
    <2>2. nextSeq[i] \in 0 .. MaxOutput + 2
        BY Zenon DEF TypeOK
    <2>3. QED
        BY Zenon, <2>1, <2>2
<1>9. CASE a = MaxUint
    <2>1. EventsAfter(i, a) = <<>> /\ SubSeq(log[i], l + 1, Len(log[i])) = <<>>
        BY Zenon, <1>2, <1>5, <1>6, <1>9, EmptyTail DEF EventsAfter
    <2>2. a # Nil
        BY SMT, <1>7, <1>9
    <2>3. \A k \in 1 .. l : ~(k > l) /\ ~(k - 1 > a)
        BY SMT, <1>6, <1>7, <1>8, <1>9
    <2>4. \A k \in 1 .. Len(log[i]) : k > l <=> a = Nil \/ log[i][k].seq > a
        BY Zenon, <1>4, <1>5, <2>2, <2>3
    <2>5. QED
        BY Zenon, <1>3, <1>5, <1>6, <2>1, <2>4
<1>10. CASE a # MaxUint
    <2>1. \E p \in Nat : a = Before(p) /\ \A k \in 1 .. l : k > p <=> a = Nil \/ k - 1 > a
        <3>1. CASE a = Nil
            <4>1. \A k \in 1 .. l : k > 0
                BY SMT, <1>6
            <4>2. 0 \in Nat
                BY SMT
            <4>3. QED
                BY Zenon, <3>1, <4>1, <4>2 DEF Before
        <3>2. CASE a # Nil
            <4>1. a \in 0 .. MaxUint
                BY Zenon, <3>2 DEF Afters
            <4>2. a + 1 \in Nat /\ a + 1 # 0 /\ (a + 1) - 1 = a /\ \A k \in 1 .. l : k > a + 1 <=> k - 1 > a
                BY SMT, <1>6, <1>7, <4>1
            <4>3. a = Before(a + 1)
                BY Zenon, <4>2 DEF Before
            <4>4. QED
                BY Zenon, <3>2, <4>2, <4>3
        <3>3. QED
            BY Zenon, <3>1, <3>2
    <2>2. PICK p \in Nat : a = Before(p) /\ \A k \in 1 .. l : k > p <=> a = Nil \/ k - 1 > a
        BY Zenon, <2>1
    <2>3. /\ EventsAfter(i, a) \in Seq(Event)
          /\ p <= l => SuffixOf(EventsAfter(i, a), log[i], p)
          /\ p >= l => EventsAfter(i, a) = <<>>
        BY Zenon, <1>1, <1>2, <1>3, <1>5, <1>10, <2>2, EventsAfterFacts
    <2>4. CASE p <= l
        <3>1. p \in 0 .. Len(log[i])
            BY SMT, <1>5, <1>6, <2>4
        <3>2. SubSeq(log[i], p + 1, Len(log[i])) \in Seq(Event) /\ SuffixOf(SubSeq(log[i], p + 1, Len(log[i])), log[i], p)
            BY Zenon, <1>2, <3>1, SuffixFacts
        <3>3. EventsAfter(i, a) = SubSeq(log[i], p + 1, Len(log[i]))
            BY Zenon, <2>3, <2>4, <3>2, SuffixUnique
        <3>4. \A k \in 1 .. Len(log[i]) : k > p <=> a = Nil \/ log[i][k].seq > a
            BY Zenon, <1>4, <1>5, <2>2
        <3>5. QED
            BY Zenon, <1>3, <3>1, <3>3, <3>4
    <2>5. CASE ~(p <= l)
        <3>1. p >= l /\ \A k \in 1 .. l : ~(k > l) /\ ~(k > p)
            BY SMT, <1>6, <2>5
        <3>2. EventsAfter(i, a) = <<>> /\ SubSeq(log[i], l + 1, Len(log[i])) = <<>>
            BY Zenon, <1>2, <1>5, <1>6, <2>3, <3>1, EmptyTail
        <3>3. \A k \in 1 .. Len(log[i]) : k > l <=> a = Nil \/ log[i][k].seq > a
            BY Zenon, <1>4, <1>5, <2>2, <3>1
        <3>4. QED
            BY Zenon, <1>3, <1>5, <1>6, <3>2, <3>3
    <2>6. QED
        BY Zenon, <2>4, <2>5
<1>11. QED
    BY Zenon, <1>9, <1>10

\* A reader is refused only if the first event it is due was trimmed.
LEMMA RefusedForCause ==
    ASSUME TypeOK, NEW i \in Incarnations, BufferOK(i), NEW a \in Afters, ~HasHistoryAfter(i, a)
    PROVE  \E k \in 1 .. Len(log[i]) :
              IsDue(i, a, k) /\ \A j \in 1 .. Len(events[i]) : events[i][j] # log[i][k]
<1>1. LogOK(i)
    BY Zenon DEF BufferOK
<1>2. PICK m, l : m = minSeq[i] /\ l = Len(log[i])
    BY Zenon
<1>3. m \in Nat /\ l \in Nat /\ m <= l /\ Len(events[i]) \in Nat
    BY Zenon, <1>1, <1>2, BufferAtHolds DEF BufferAt
<1>4. /\ Len(events[i]) = l - m /\ \A j \in 1 .. Len(events[i]) : events[i][j] = log[i][m + j]
      /\ \A k \in 1 .. l : log[i][k].seq = k - 1
    BY Zenon, <1>1, <1>2 DEF LogOK, SuffixOf
<1>5. PICK p : p = IF a = Nil THEN 0 ELSE a + 1
    BY Zenon
<1>6. p \in Nat /\ p < m /\ (a = Nil \/ p > a)
    <2>1. CASE a = Nil
        <3>1. p = 0 /\ m # 0
            BY Zenon, <1>2, <1>5, <2>1 DEF HasHistoryAfter
        <3>2. QED
            BY SMT, <1>3, <2>1, <3>1
    <2>2. CASE a # Nil
        <3>1. p = a + 1 /\ ~(a + 1 >= m) /\ a \in 0 .. MaxUint
            BY Zenon, <1>2, <1>5, <2>2 DEF HasHistoryAfter, Afters
        <3>2. MaxUint \in Nat
            BY Zenon, ExecutionsAssumption
        <3>3. QED
            BY SMT, <1>3, <3>1, <3>2
    <2>3. QED
        BY Zenon, <2>1, <2>2
<1>7. PICK k : k = p + 1
    BY Zenon
<1>8. /\ k \in 1 .. l /\ k - 1 = p
      /\ \A j \in 1 .. l - m : m + j \in 1 .. l /\ (m + j) - 1 # p
    BY SMT, <1>3, <1>6, <1>7
<1>9. log[i][k].seq = p /\ IsDue(i, a, k)
    BY Zenon, <1>4, <1>6, <1>8 DEF IsDue
<1>10. ASSUME NEW j \in 1 .. Len(events[i]) PROVE events[i][j] # log[i][k]
    <2>1. events[i][j] = log[i][m + j] /\ log[i][m + j].seq = (m + j) - 1 /\ (m + j) - 1 # p
        BY Zenon, <1>4, <1>8
    <2>2. QED
        BY Zenon, <1>9, <2>1
<1>11. QED
    BY Zenon, <1>2, <1>8, <1>9, <1>10

-----------------------------------------------------------------------------
\* Steps of one stream: the daemon's handler and the proxy.

OnlyStream(s) ==
    /\ UNCHANGED manager /\ UNCHANGED buffer /\ UNCHANGED process
    /\ faults' \in 0 .. MaxFaults /\ faults' <= faults
    /\ ServingTypes' /\ ProxyTypes'
    /\ \A u \in Streams : u # s => StreamSame(u)

LEMMA BufferUnchanged ==
    ASSUME ExecInv, UNCHANGED buffer
    PROVE  BufferTypes' /\ \A j \in Incarnations : BufferOK(j)' /\ Grows(j) /\ completed'[j] = completed[j] /\ nextSeq'[j] = nextSeq[j]
<1>1. BufferTypes /\ \A j \in Incarnations : BufferOK(j)
    BY Zenon, TypesSplit DEF ExecInv
<1>2. events' = events /\ minSeq' = minSeq /\ nextSeq' = nextSeq /\ completed' = completed /\ log' = log
    BY Zenon DEF buffer
<1>3. BufferTypes'
    BY Zenon, <1>1, <1>2 DEF BufferTypes
<1>4. ASSUME NEW j \in Incarnations PROVE BufferSame(j)
    BY Zenon, <1>2 DEF BufferSame
<1>5. QED
    BY Zenon, <1>1, <1>2, <1>3, <1>4, SameBuffer

LEMMA OnlyStreamTypes ==
    ASSUME ExecInv, NEW s, OnlyStream(s)
    PROVE  TypeOK' /\ Later /\ ManagerOK' /\ \A i \in Incarnations : BufferOK(i)' /\ CommandOK(i)'
<1>1. BufferTypes' /\ \A j \in Incarnations : BufferOK(j)' /\ Grows(j) /\ completed'[j] = completed[j] /\ nextSeq'[j] = nextSeq[j]
    BY Zenon, BufferUnchanged DEF OnlyStream
<1>2. /\ executions' = executions /\ created' = created /\ removed' = removed
      /\ cancelled' = cancelled /\ command' = command /\ readers' = readers
    BY Zenon DEF OnlyStream, manager, process
<1>3. TypeOK
    BY Zenon DEF ExecInv
<1>4. ManagerTypes'
    BY Zenon, <1>2, <1>3, TypesSplit DEF ManagerTypes, OnlyStream
<1>5. ProcessTypes'
    BY Zenon, <1>2, <1>3, TypesSplit DEF ProcessTypes
<1>6. TypeOK'
    BY Zenon, <1>1, <1>4, <1>5 DEF OnlyStream, TypeOK, ManagerTypes, BufferTypes, ProcessTypes, ServingTypes, ProxyTypes
<1>7. created <= created
    <2>1. created \in Nat
        BY Zenon, <1>3, Numbers
    <2>2. QED
        BY SMT, <2>1
<1>8. Later
    BY Zenon, <1>1, <1>2, <1>7 DEF Later, OnlyStream
<1>9. ManagerOK'
    BY Zenon, <1>2 DEF ExecInv, ManagerOK
<1>10. \A i \in Incarnations : CommandOK(i)'
    BY Zenon, <1>1, <1>2 DEF ExecInv, CommandOK
<1>11. QED
    BY Zenon, <1>1, <1>6, <1>8, <1>9, <1>10

LEMMA OnlyStreamKeeps ==
    ASSUME ExecInv, NEW s \in Streams, OnlyStream(s), StreamOK(s)', PrefixOK(s)', RetryOK(s)'
    PROVE  ExecInv'
<1>1. TypeOK /\ \A u \in Streams : StreamOK(u) /\ PrefixOK(u) /\ RetryOK(u)
    BY Zenon DEF ExecInv
<1>2. TypeOK' /\ Later /\ ManagerOK' /\ \A i \in Incarnations : BufferOK(i)' /\ CommandOK(i)'
    BY Zenon, OnlyStreamTypes
<1>3. ASSUME NEW u \in Streams, u # s PROVE StreamOK(u)' /\ PrefixOK(u)' /\ RetryOK(u)'
    <2>1. StreamSame(u)
        BY Zenon, <1>3 DEF OnlyStream
    <2>2. QED
        BY Zenon, <1>1, <1>2, <2>1, StreamKept, PrefixKept, RetryKept
<1>4. QED
    BY Zenon, <1>2, <1>3 DEF ExecInv

Fixed ==
    /\ created' = created /\ removed' = removed /\ executions' = executions /\ log' = log
    /\ minSeq' = minSeq /\ completed' = completed

LEMMA OnlyStreamFixed == ASSUME NEW s, OnlyStream(s) PROVE Fixed
BY Zenon DEF OnlyStream, Fixed, manager, buffer

LEMMA StreamTyped ==
    ASSUME ExecInv
    PROVE  ServingTypes /\ ProxyTypes /\ faults \in 0 .. MaxFaults /\ faults <= faults
<1>1. ServingTypes /\ ProxyTypes /\ faults \in 0 .. MaxFaults
    BY Zenon, TypesSplit DEF ExecInv, ManagerTypes
<1>2. faults \in Nat
    BY Zenon, Numbers DEF ExecInv
<1>3. faults <= faults
    BY SMT, <1>2
<1>4. QED
    BY Zenon, <1>1, <1>3

LEMMA PrefixSame ==
    ASSUME NEW s, Fixed, incarnation'[s] = incarnation[s], seen'[s] = seen[s], PrefixOK(s)
    PROVE  PrefixOK(s)'
BY Zenon DEF Fixed, PrefixOK

LEMMA WakeKeeps ==
    ASSUME ExecInv, NEW s \in Streams, Wake(s)
    PROVE  ExecInv'
<1>1. ServingTypes /\ ProxyTypes /\ faults \in 0 .. MaxFaults /\ faults <= faults
    BY Zenon, StreamTyped
<1>2. /\ handler[s] = "wait" /\ handler' = [handler EXCEPT ![s] = "follow"]
      /\ incarnation' = incarnation /\ after' = after /\ notify' = notify /\ wire' = wire
      /\ pc' = pc /\ attempt' = attempt /\ lastSeq' = lastSeq /\ seen' = seen /\ faults' = faults
      /\ UNCHANGED manager /\ UNCHANGED buffer /\ UNCHANGED process
    BY Zenon DEF Wake, proxy
<1>3. ServingTypes' /\ ProxyTypes'
    BY Zenon, <1>1, <1>2 DEF ServingTypes, ProxyTypes
<1>4. OnlyStream(s)
    BY Zenon, <1>1, <1>2, <1>3 DEF OnlyStream, StreamSame, ServingTypes
<1>5. handler'[s] = "follow"
    BY Zenon, <1>1, <1>2 DEF ServingTypes
<1>6. Fixed /\ StreamOK(s) /\ PrefixOK(s) /\ RetryOK(s)
    BY Zenon, <1>4, OnlyStreamFixed DEF ExecInv
<1>7. StreamOK(s)'
    BY Zenon, <1>2, <1>5, <1>6 DEF Fixed, StreamOK, SeenOK, PhaseOK, WireOK, OpenOK
<1>8. PrefixOK(s)'
    BY Zenon, <1>2, <1>6, PrefixSame
<1>9. RetryOK(s)'
    BY Zenon, <1>2, <1>5, <1>6 DEF Fixed, RetryOK, Whole
<1>10. QED
    BY Zenon, <1>4, <1>7, <1>8, <1>9, OnlyStreamKeeps

\* The call's connection to the daemon is gone; its caller has seen what it had seen.
HungUp(s, how) ==
    /\ Hangs(s, how) /\ attempt' = attempt /\ lastSeq' = lastSeq /\ seen' = seen
    /\ UNCHANGED manager /\ UNCHANGED buffer /\ UNCHANGED process
    /\ faults' \in 0 .. MaxFaults /\ faults' <= faults

LEMMA HungUpKeeps ==
    ASSUME ExecInv, NEW s \in Streams, NEW how, HungUp(s, how), pc[s] \in {"stream", "backoff"},
           how \in {"backoff", "refused", "left"},
           Whole(s) => attempt[s] + (IF how = "backoff" THEN 1 ELSE 0) <= MaxFaults - faults'
    PROVE  ExecInv'
<1>1. ServingTypes /\ ProxyTypes
    BY Zenon, StreamTyped
<1>2. /\ handler' = [handler EXCEPT ![s] = "none"] /\ wire' = [wire EXCEPT ![s] = <<>>] /\ pc' = [pc EXCEPT ![s] = how]
      /\ incarnation' = incarnation /\ after' = after /\ notify' = notify
      /\ attempt' = attempt /\ lastSeq' = lastSeq /\ seen' = seen
    BY Zenon DEF HungUp, Hangs
<1>3. ServingTypes' /\ ProxyTypes'
    <2>1. <<>> \in Seq(Event)
        BY SMT
    <2>2. ServingTypes'
        BY Zenon, <1>1, <1>2, <2>1 DEF ServingTypes
    <2>3. ProxyTypes'
        BY Zenon, <1>1, <1>2 DEF ProxyTypes
    <2>4. QED
        BY Zenon, <2>2, <2>3
<1>4. OnlyStream(s)
    <2>1. ASSUME NEW u \in Streams, u # s PROVE StreamSame(u)
        <3>1. handler'[u] = handler[u] /\ wire'[u] = wire[u] /\ pc'[u] = pc[u]
            BY Zenon, <1>1, <1>2, <2>1 DEF ServingTypes, ProxyTypes
        <3>2. QED
            BY Zenon, <1>2, <3>1 DEF StreamSame
    <2>2. QED
        BY Zenon, <1>3, <2>1 DEF OnlyStream, HungUp
<1>5. handler'[s] = "none" /\ wire'[s] = <<>> /\ pc'[s] = how
    BY Zenon, <1>1, <1>2 DEF ServingTypes, ProxyTypes
<1>6. Fixed /\ StreamOK(s) /\ PrefixOK(s) /\ RetryOK(s)
    BY Zenon, <1>4, OnlyStreamFixed DEF ExecInv
<1>7. StreamOK(s)'
    <2>1. SeenOK(s)'
        BY Zenon, <1>2, <1>6 DEF Fixed, StreamOK, SeenOK
    <2>2. PhaseOK(s)'
        BY Zenon, <1>2, <1>5, <1>6 DEF Fixed, StreamOK, PhaseOK
    <2>3. WireOK(s)'
        <3>1. \A k : k \notin 1 .. 0
            BY SMT
        <3>2. QED
            BY Zenon, <1>5, <3>1, EmptyLength DEF WireOK
    <2>4. OpenOK(s)'
        BY Zenon, <1>2, <1>6 DEF StreamOK, OpenOK
    <2>5. QED
        BY Zenon, <2>1, <2>2, <2>3, <2>4 DEF StreamOK
<1>8. PrefixOK(s)'
    BY Zenon, <1>2, <1>6, PrefixSame
<1>9. RetryOK(s)'
    <2>1. Whole(s)' => Whole(s)
        BY Zenon, <1>2, <1>6 DEF Fixed, Whole
    <2>2. how # "done" /\ handler'[s] # "closed"
        BY Zenon, <1>5
    <2>3. QED
        BY Zenon, <1>2, <1>5, <2>1, <2>2 DEF RetryOK
<1>10. QED
    BY Zenon, <1>4, <1>7, <1>8, <1>9, OnlyStreamKeeps

LEMMA CallerLeavesKeeps ==
    ASSUME ExecInv, NEW s \in Streams, CallerLeaves(s)
    PROVE  ExecInv'
<1>1. faults \in 0 .. MaxFaults /\ faults <= faults
    BY Zenon, StreamTyped
<1>2. HungUp(s, "left") /\ faults' = faults /\ pc[s] \in {"stream", "backoff"}
    BY Zenon, <1>1 DEF CallerLeaves, HungUp
<1>3. ASSUME Whole(s) PROVE attempt[s] + 0 <= MaxFaults - faults
    <2>1. PICK x : x = MaxFaults - faults
        BY Zenon
    <2>2. attempt[s] + 1 <= x \/ attempt[s] + 0 <= x
        BY Zenon, <1>3, <2>1 DEF ExecInv, RetryOK
    <2>3. attempt[s] \in Nat /\ MaxFaults \in Nat /\ faults \in Nat
        BY Zenon, Numbers DEF ExecInv
    <2>4. x \in Int
        BY SMT, <2>1, <2>3
    <2>5. attempt[s] + 0 <= x
        BY SMT, <2>2, <2>3, <2>4
    <2>6. QED
        BY Zenon, <2>1, <2>5
<1>4. QED
    BY Zenon, <1>2, <1>3, HungUpKeeps

LEMMA DropKeeps ==
    ASSUME ExecInv, NEW s \in Streams, Drop(s)
    PROVE  ExecInv'
<1>1. faults \in Nat /\ faults > 0 /\ faults' = faults - 1 /\ MaxFaults \in Nat /\ faults <= MaxFaults /\ attempt[s] \in Nat
    BY Zenon, Numbers DEF ExecInv, Drop
<1>2. faults' \in 0 .. MaxFaults /\ faults' <= faults /\ MaxFaults - faults' = (MaxFaults - faults) + 1
    BY SMT, <1>1
<1>3. HungUp(s, Cut(s)) /\ pc[s] = "stream"
    BY Zenon, <1>2 DEF Drop, HungUp
<1>4. Cut(s) \in {"backoff", "refused", "left"}
    BY Zenon DEF Cut
<1>5. ASSUME Whole(s) PROVE attempt[s] + (IF Cut(s) = "backoff" THEN 1 ELSE 0) <= MaxFaults - faults'
    <2>1. PICK x : x = MaxFaults - faults
        BY Zenon
    <2>2. attempt[s] + 0 <= x
        <3>1. pc[s] # "backoff"
            BY Zenon, <1>3
        <3>2. QED
            BY Zenon, <1>5, <2>1, <3>1 DEF ExecInv, RetryOK
    <2>3. x \in Int
        BY SMT, <1>1, <2>1
    <2>4. attempt[s] + 1 <= x + 1 /\ attempt[s] + 0 <= x + 1
        BY SMT, <1>1, <2>2, <2>3
    <2>5. MaxFaults - faults' = x + 1
        BY Zenon, <1>2, <2>1
    <2>6. QED
        BY Zenon, <2>4, <2>5
<1>6. QED
    BY Zenon, <1>3, <1>4, <1>5, HungUpKeeps

\* A body that ends early lost something: otherwise the caller had seen the end.
LEMMA EndOfBodyKeeps ==
    ASSUME ExecInv, NEW s \in Streams, EndOfBody(s)
    PROVE  ExecInv'
<1>1. faults \in 0 .. MaxFaults /\ faults <= faults
    BY Zenon, StreamTyped
<1>2. HungUp(s, "backoff") /\ faults' = faults /\ pc[s] = "stream" /\ handler[s] = "closed" /\ wire[s] = <<>>
    BY Zenon, <1>1 DEF EndOfBody, HungUp
<1>3. ~Whole(s)
    <2>1. SUFFICES ASSUME Whole(s) PROVE FALSE
        BY Zenon
    <2>2. PICK i : i = incarnation[s]
        BY Zenon
    <2>3. i # 0 /\ removed = {}
        BY Zenon, <2>1, <2>2 DEF Whole
    <2>4. i \in Incarnations /\ Len(seen[s]) \in Nat /\ Len(log[i]) \in Nat
        BY Zenon, <2>2, <2>3, Numbers DEF ExecInv
    <2>5. completed[i] /\ Len(seen[s]) + Len(wire[s]) = Len(log[i])
        BY Zenon, <1>2, <2>1, <2>2 DEF ExecInv, RetryOK
    <2>6. Len(log[i]) # 0 /\ IsTerminal(log[i][Len(log[i])].type)
        BY Zenon, <2>4, <2>5 DEF ExecInv, BufferOK, EndOK
    <2>7. Len(seen[s]) = Len(log[i])
        <3>1. Len(wire[s]) = 0
            BY Zenon, <1>2, EmptyLength
        <3>2. QED
            BY SMT, <2>4, <2>5, <3>1
    <2>8. Len(log[i]) \in 1 .. Len(seen[s])
        BY SMT, <2>4, <2>6, <2>7
    <2>9. seen[s][Len(log[i])] = log[i][Len(log[i])]
        BY Zenon, <2>2, <2>3, <2>8 DEF ExecInv, PrefixOK
    <2>10. ~IsTerminal(seen[s][Len(log[i])].type)
        BY Zenon, <1>2, <2>8 DEF ExecInv, StreamOK, OpenOK
    <2>11. QED
        BY Zenon, <2>6, <2>9, <2>10
<1>4. QED
    BY Zenon, <1>2, <1>3, HungUpKeeps

\* Nothing is missing from a buffer that was never trimmed.
LEMMA WholeHasHistory ==
    ASSUME TypeOK, NEW s \in Streams, Whole(s)
    PROVE  HasHistoryAfter(incarnation[s], after[s])
<1>1. minSeq[incarnation[s]] = 0
    BY Zenon DEF Whole
<1>2. after[s] \in Seqs \cup {Nil} /\ MaxOutput \in Nat
    BY Zenon, ExecutionsAssumption DEF TypeOK
<1>3. CASE after[s] = Nil
    BY Zenon, <1>1, <1>3 DEF HasHistoryAfter
<1>4. CASE after[s] # Nil
    <2>1. after[s] \in 0 .. MaxOutput + 1
        BY Zenon, <1>2, <1>4 DEF Seqs
    <2>2. after[s] + 1 >= 0
        BY SMT, <1>2, <2>1
    <2>3. QED
        BY Zenon, <1>1, <1>4, <2>2 DEF HasHistoryAfter
<1>5. QED
    BY Zenon, <1>3, <1>4

LEMMA PreflightKeeps ==
    ASSUME ExecInv, NEW s \in Streams, Preflight(s)
    PROVE  ExecInv'
<1>1. ServingTypes /\ ProxyTypes /\ faults \in 0 .. MaxFaults /\ faults <= faults
    BY Zenon, StreamTyped
<1>2. /\ handler[s] = "preflight"
      /\ incarnation' = incarnation /\ after' = after /\ notify' = notify /\ wire' = wire
      /\ attempt' = attempt /\ lastSeq' = lastSeq /\ seen' = seen /\ faults' = faults
      /\ UNCHANGED manager /\ UNCHANGED buffer /\ UNCHANGED process
    BY Zenon DEF Preflight
<1>3. TypeOK /\ StreamOK(s) /\ PrefixOK(s) /\ RetryOK(s)
    BY Zenon DEF ExecInv
<1>4. PICK h, c : /\ handler' = [handler EXCEPT ![s] = h] /\ pc' = [pc EXCEPT ![s] = c]
                  /\ \/ h = "follow" /\ c = "stream"
                     \/ h = "none" /\ c \in {"refused", "backoff"} /\ ~Whole(s)
    <2>1. CASE HasHistoryAfter(incarnation[s], after[s])
        <3>1. handler' = [handler EXCEPT ![s] = "follow"] /\ pc' = pc
            BY Zenon, <2>1 DEF Preflight
        <3>2. pc[s] = "stream"
            BY Zenon, <1>2, <1>3 DEF StreamOK, PhaseOK
        <3>3. pc' = [pc EXCEPT ![s] = "stream"]
            BY Zenon, <1>1, <3>1, <3>2 DEF ProxyTypes
        <3>4. QED
            BY Zenon, <3>1, <3>3
    <2>2. CASE ~HasHistoryAfter(incarnation[s], after[s])
        <3>1. ~Whole(s)
            BY Zenon, <1>3, <2>2, WholeHasHistory
        <3>2. PICK c : c = IF attempt[s] = 0 THEN "refused" ELSE "backoff"
            BY Zenon
        <3>3. c \in {"refused", "backoff"}
            BY Zenon, <3>2
        <3>4. handler' = [handler EXCEPT ![s] = "none"] /\ pc' = [pc EXCEPT ![s] = c]
            BY Zenon, <2>2, <3>2 DEF Preflight
        <3>5. QED
            BY Zenon, <3>1, <3>3, <3>4
    <2>3. QED
        BY Zenon, <2>1, <2>2
<1>5. ServingTypes' /\ ProxyTypes'
    BY Zenon, <1>1, <1>2, <1>4 DEF ServingTypes, ProxyTypes
<1>6. OnlyStream(s)
    <2>1. ASSUME NEW u \in Streams, u # s PROVE StreamSame(u)
        <3>1. handler'[u] = handler[u] /\ pc'[u] = pc[u]
            BY Zenon, <1>1, <1>4, <2>1 DEF ServingTypes, ProxyTypes
        <3>2. QED
            BY Zenon, <1>2, <3>1 DEF StreamSame
    <2>2. QED
        BY Zenon, <1>1, <1>2, <1>5, <2>1 DEF OnlyStream
<1>7. handler'[s] = h /\ pc'[s] = c /\ Fixed
    BY Zenon, <1>1, <1>4, <1>6, OnlyStreamFixed DEF ServingTypes, ProxyTypes
<1>8. pc[s] = "stream" /\ wire[s] = <<>>
    BY Zenon, <1>2, <1>3 DEF StreamOK, PhaseOK
<1>9. StreamOK(s)'
    <2>1. SeenOK(s)'
        BY Zenon, <1>2, <1>3, <1>7 DEF Fixed, StreamOK, SeenOK
    <2>2. PhaseOK(s)'
        BY Zenon, <1>2, <1>3, <1>4, <1>7, <1>8 DEF Fixed, StreamOK, PhaseOK
    <2>3. WireOK(s)'
        BY Zenon, <1>2, <1>3, <1>7, <1>8 DEF Fixed, StreamOK, WireOK
    <2>4. OpenOK(s)'
        BY Zenon, <1>2, <1>3, <1>8 DEF StreamOK, OpenOK
    <2>5. QED
        BY Zenon, <2>1, <2>2, <2>3, <2>4 DEF StreamOK
<1>10. PrefixOK(s)'
    BY Zenon, <1>2, <1>3, <1>7, PrefixSame
<1>11. RetryOK(s)'
    <2>1. Whole(s)' => Whole(s)
        BY Zenon, <1>2, <1>7 DEF Fixed, Whole
    <2>2. CASE Whole(s)
        <3>1. h = "follow" /\ c = "stream"
            BY Zenon, <1>4, <2>2
        <3>2. QED
            BY Zenon, <1>2, <1>3, <1>7, <1>8, <2>2, <3>1 DEF RetryOK
    <2>3. QED
        BY Zenon, <2>1, <2>2 DEF RetryOK
<1>12. QED
    BY Zenon, <1>6, <1>9, <1>10, <1>11, OnlyStreamKeeps

\* What a call waiting for its next attempt knows.
LEMMA BackoffFacts ==
    ASSUME ExecInv, NEW s \in Streams, pc[s] = "backoff"
    PROVE  /\ handler[s] = "none" /\ wire[s] = <<>> /\ incarnation[s] # 0 /\ attempt[s] \in Nat
           /\ Whole(s) => attempt[s] + 1 <= MaxFaults - faults
           /\ incarnation[s] <= created /\ incarnation[s] \in Nat /\ created \in Nat
           /\ removed = {} => executions = created /\ created <= 1
<1>1. StreamOK(s) /\ RetryOK(s) /\ ManagerOK /\ TypeOK
    BY Zenon DEF ExecInv
<1>2. handler[s] = "none" /\ incarnation[s] # 0 /\ incarnation[s] <= created
    BY Zenon, <1>1 DEF StreamOK, PhaseOK
<1>3. wire[s] = <<>>
    BY Zenon, <1>1, <1>2 DEF StreamOK, PhaseOK
<1>4. attempt[s] \in Nat /\ incarnation[s] \in Nat /\ created \in Nat
    BY Zenon, <1>1, Numbers
<1>5. Whole(s) => attempt[s] + 1 <= MaxFaults - faults
    BY Zenon, <1>1 DEF RetryOK
<1>6. QED
    BY Zenon, <1>1, <1>2, <1>3, <1>4, <1>5 DEF ManagerOK

LEMMA ResumeExhausted ==
    ASSUME ExecInv, NEW s \in Streams, Resume(s), RetriesExhausted(s)
    PROVE  ExecInv'
<1>1. ServingTypes /\ ProxyTypes /\ faults \in 0 .. MaxFaults /\ faults <= faults
    BY Zenon, StreamTyped
<1>2. /\ pc[s] = "backoff" /\ pc' = [pc EXCEPT ![s] = "done"]
      /\ handler' = handler /\ incarnation' = incarnation /\ after' = after /\ notify' = notify /\ wire' = wire
      /\ attempt' = attempt /\ lastSeq' = lastSeq /\ seen' = seen /\ faults' = faults
      /\ UNCHANGED manager /\ UNCHANGED buffer /\ UNCHANGED process
    BY Zenon DEF Resume, serving
<1>3. ServingTypes' /\ ProxyTypes'
    BY Zenon, <1>1, <1>2 DEF ServingTypes, ProxyTypes
<1>4. OnlyStream(s)
    BY Zenon, <1>1, <1>2, <1>3 DEF OnlyStream, StreamSame, ProxyTypes
<1>5. pc'[s] = "done" /\ Fixed
    BY Zenon, <1>1, <1>2, <1>4, OnlyStreamFixed DEF ProxyTypes
<1>6. StreamOK(s) /\ PrefixOK(s) /\ RetryOK(s)
    BY Zenon DEF ExecInv
<1>7. StreamOK(s)'
    BY Zenon, <1>2, <1>5, <1>6 DEF Fixed, StreamOK, SeenOK, PhaseOK, WireOK, OpenOK
<1>8. PrefixOK(s)'
    BY Zenon, <1>2, <1>5, <1>6, PrefixSame
<1>9. RetryOK(s)'
    <2>1. Whole(s)' => Whole(s)
        BY Zenon, <1>2, <1>5 DEF Fixed, Whole
    <2>2. CASE Whole(s)
        <3>1. handler[s] = "none" /\ attempt[s] \in Nat /\ attempt[s] + 1 <= MaxFaults - faults
            BY Zenon, <1>2, <2>2, BackoffFacts
        <3>2. MaxFaults \in Nat /\ faults \in Nat
            BY Zenon, Numbers DEF ExecInv
        <3>3. attempt[s] + 0 <= MaxFaults - faults /\ attempt[s] < MaxFaults - faults
            BY SMT, <3>1, <3>2
        <3>4. ExecMaxRetries < MaxFaults - faults
            BY Zenon, <3>3 DEF RetriesExhausted
        <3>5. QED
            BY Zenon, <1>2, <1>5, <3>1, <3>3, <3>4 DEF RetryOK
    <2>3. QED
        BY Zenon, <2>1, <2>2 DEF RetryOK
<1>10. QED
    BY Zenon, <1>4, <1>7, <1>8, <1>9, OnlyStreamKeeps

LEMMA AttemptTypes ==
    ASSUME ProxyTypes, NEW s \in Streams, ~RetriesExhausted(s)
    PROVE  attempt[s] + 1 \in 0 .. ExecMaxRetries
<1>1. attempt[s] \in 0 .. ExecMaxRetries /\ attempt[s] # ExecMaxRetries /\ ExecMaxRetries \in Nat
    BY Zenon, ExecutionsAssumption DEF ProxyTypes, RetriesExhausted
<1>2. QED
    BY SMT, <1>1

\* The id is not known: an execution was removed.
LEMMA ResumeMissing ==
    ASSUME ExecInv, NEW s \in Streams, Resume(s), ~RetriesExhausted(s), executions = 0
    PROVE  ExecInv'
<1>1. ServingTypes /\ ProxyTypes /\ faults \in 0 .. MaxFaults /\ faults <= faults
    BY Zenon, StreamTyped
<1>2. /\ pc[s] = "backoff" /\ attempt' = [attempt EXCEPT ![s] = attempt[s] + 1]
      /\ handler' = handler /\ incarnation' = incarnation /\ after' = after /\ notify' = notify /\ wire' = wire
      /\ pc' = pc /\ lastSeq' = lastSeq /\ seen' = seen /\ faults' = faults
      /\ UNCHANGED manager /\ UNCHANGED buffer /\ UNCHANGED process
    BY Zenon DEF Resume, serving
<1>3. ServingTypes' /\ ProxyTypes'
    BY Zenon, <1>1, <1>2, AttemptTypes DEF ServingTypes, ProxyTypes
<1>4. OnlyStream(s)
    BY Zenon, <1>1, <1>2, <1>3 DEF OnlyStream, StreamSame, ProxyTypes
<1>5. Fixed /\ StreamOK(s) /\ PrefixOK(s)
    BY Zenon, <1>4, OnlyStreamFixed DEF ExecInv
<1>6. ~Whole(s)
    <2>1. incarnation[s] # 0 /\ incarnation[s] <= created /\ incarnation[s] \in Nat /\ created \in Nat
          /\ (removed = {} => executions = created)
        BY Zenon, <1>2, BackoffFacts
    <2>2. created # 0
        BY SMT, <2>1
    <2>3. QED
        BY Zenon, <2>1, <2>2 DEF Whole
<1>7. StreamOK(s)'
    <2>1. SeenOK(s)' /\ WireOK(s)' /\ OpenOK(s)'
        BY Zenon, <1>2, <1>5 DEF Fixed, StreamOK, SeenOK, WireOK, OpenOK
    <2>2. PhaseOK(s)'
        BY Zenon, <1>2, <1>5 DEF Fixed, StreamOK, PhaseOK
    <2>3. QED
        BY Zenon, <2>1, <2>2 DEF StreamOK
<1>8. PrefixOK(s)'
    BY Zenon, <1>2, <1>5, PrefixSame
<1>9. RetryOK(s)'
    BY Zenon, <1>2, <1>5, <1>6 DEF Fixed, Whole, RetryOK
<1>10. QED
    BY Zenon, <1>4, <1>7, <1>8, <1>9, OnlyStreamKeeps

\* The next attempt is answered, perhaps for another execution than the last one.
LEMMA ResumeServed ==
    ASSUME ExecInv, NEW s \in Streams, Resume(s), ~RetriesExhausted(s), executions # 0
    PROVE  ExecInv'
<1>1. ServingTypes /\ ProxyTypes /\ faults \in 0 .. MaxFaults /\ faults <= faults
    BY Zenon, StreamTyped
<1>2. /\ pc[s] = "backoff" /\ attempt' = [attempt EXCEPT ![s] = attempt[s] + 1]
      /\ handler' = [handler EXCEPT ![s] = "preflight"] /\ incarnation' = [incarnation EXCEPT ![s] = executions]
      /\ after' = [after EXCEPT ![s] = lastSeq[s]] /\ pc' = [pc EXCEPT ![s] = "stream"]
      /\ notify' = notify /\ wire' = wire /\ lastSeq' = lastSeq /\ seen' = seen /\ faults' = faults
      /\ UNCHANGED manager /\ UNCHANGED buffer /\ UNCHANGED process
    BY Zenon DEF Resume, Serve, ResumeAfter
<1>3. ServingTypes'
    <2>1. executions \in 0 .. MaxIncarnations /\ lastSeq[s] \in Seqs \cup {Nil}
        BY Zenon DEF ExecInv, TypeOK
    <2>2. QED
        BY Zenon, <1>1, <1>2, <2>1 DEF ServingTypes
<1>4. ProxyTypes'
    BY Zenon, <1>1, <1>2, AttemptTypes DEF ProxyTypes
<1>5. OnlyStream(s)
    <2>1. ASSUME NEW u \in Streams, u # s PROVE StreamSame(u)
        <3>1. /\ handler'[u] = handler[u] /\ incarnation'[u] = incarnation[u] /\ after'[u] = after[u]
            BY Zenon, <1>1, <1>2, <2>1 DEF ServingTypes
        <3>2. /\ pc'[u] = pc[u] /\ attempt'[u] = attempt[u]
            BY Zenon, <1>1, <1>2, <2>1 DEF ProxyTypes
        <3>3. QED
            BY Zenon, <1>2, <3>1, <3>2 DEF StreamSame
    <2>2. QED
        BY Zenon, <1>1, <1>2, <1>3, <1>4, <2>1 DEF OnlyStream
<1>6. handler'[s] = "preflight" /\ incarnation'[s] = executions /\ after'[s] = lastSeq[s]
    BY Zenon, <1>1, <1>2 DEF ServingTypes
<1>7. pc'[s] = "stream" /\ attempt'[s] = attempt[s] + 1
    BY Zenon, <1>1, <1>2 DEF ProxyTypes
<1>8. Fixed /\ StreamOK(s) /\ PrefixOK(s) /\ RetryOK(s)
    BY Zenon, <1>5, OnlyStreamFixed DEF ExecInv
<1>9. /\ handler[s] = "none" /\ wire[s] = <<>> /\ incarnation[s] # 0 /\ attempt[s] \in Nat
      /\ incarnation[s] <= created /\ incarnation[s] \in Nat /\ created \in Nat
      /\ removed = {} => executions = created /\ created <= 1
      /\ Whole(s) => attempt[s] + 1 <= MaxFaults - faults
    BY Zenon, <1>2, BackoffFacts
<1>10. removed = {} => incarnation[s] = executions
    <2>1. ASSUME removed = {} PROVE incarnation[s] = created
        <3>1. created <= 1
            BY Zenon, <1>9, <2>1
        <3>2. QED
            BY SMT, <1>9, <3>1
    <2>2. QED
        BY Zenon, <1>9, <2>1
<1>11. StreamOK(s)'
    <2>1. SeenOK(s)' /\ OpenOK(s)'
        BY Zenon, <1>2, <1>8 DEF Fixed, StreamOK, SeenOK, OpenOK
    <2>2. PhaseOK(s)'
        <3>1. executions <= created
            BY Zenon DEF ExecInv, ManagerOK
        <3>2. QED
            BY Zenon, <1>2, <1>6, <1>7, <1>8, <1>9, <3>1 DEF Fixed, PhaseOK
    <2>3. WireOK(s)'
        <3>1. Len(wire'[s]) = 0 /\ Len(seen[s]) \in Nat
            BY Zenon, <1>2, <1>9, EmptyLength, Numbers DEF ExecInv
        <3>2. \A k : k \notin 1 .. 0
            BY SMT
        <3>3. Len(seen[s]) + 0 = Len(seen[s])
            BY SMT, <3>1
        <3>4. lastSeq[s] = Before(Len(seen[s]))
            BY Zenon, <1>8 DEF StreamOK, SeenOK
        <3>5. after'[s] = Before(Len(seen'[s]) + Len(wire'[s]))
            BY Zenon, <1>2, <1>6, <3>1, <3>3, <3>4
        <3>6. QED
            BY Zenon, <3>1, <3>2, <3>5 DEF WireOK
    <2>4. QED
        BY Zenon, <2>1, <2>2, <2>3 DEF StreamOK
<1>12. PrefixOK(s)'
    BY Zenon, <1>2, <1>6, <1>8, <1>9, <1>10 DEF Fixed, PrefixOK
<1>13. RetryOK(s)'
    <2>1. Whole(s)' => Whole(s)
        BY Zenon, <1>6, <1>8, <1>9, <1>10 DEF Fixed, Whole
    <2>2. CASE Whole(s)
        <3>1. attempt[s] + 1 <= MaxFaults - faults
            BY Zenon, <1>9, <2>2
        <3>2. (attempt[s] + 1) + 0 = attempt[s] + 1
            BY SMT, <1>9
        <3>3. attempt'[s] + 0 <= MaxFaults - faults'
            BY Zenon, <1>2, <1>7, <3>1, <3>2
        <3>4. QED
            BY Zenon, <1>6, <1>7, <3>3 DEF RetryOK
    <2>3. QED
        BY Zenon, <2>1, <2>2 DEF RetryOK
<1>14. QED
    BY Zenon, <1>5, <1>11, <1>12, <1>13, OnlyStreamKeeps

\* r is q without its first element, which is e.
HeadTail(q, e, r) ==
    /\ e = q[1] /\ Len(q) \in Nat /\ Len(q) >= 1 /\ r \in Seq(Event) /\ Len(r) = Len(q) - 1
    /\ \A k \in 1 .. Len(r) : r[k] = q[k + 1]

LEMMA HeadTailFacts ==
    ASSUME NEW q \in Seq(Event), q # <<>>
    PROVE  HeadTail(q, Head(q), Tail(q)) /\ Head(q) \in Event
<1>1. Head(q) = q[1] /\ Len(q) \in Nat /\ Len(q) >= 1 /\ Tail(q) \in Seq(Event) /\ Len(Tail(q)) = Len(q) - 1
    BY SMT
<1>2. \A k \in 1 .. Len(q) - 1 : Tail(q)[k] = q[k + 1]
    BY SMT
<1>3. Head(q) \in Event
    BY SMT
<1>4. QED
    BY Zenon, <1>1, <1>2, <1>3 DEF HeadTail

\* The next line is the event of the log that follows those forwarded already.
LEMMA NextLine ==
    ASSUME ExecInv, NEW s \in Streams, wire[s] # <<>>
    PROVE  /\ incarnation[s] \in Incarnations /\ incarnation[s] \in 1 .. created /\ Head(wire[s]) \in Event
           /\ Len(seen[s]) + 1 \in 1 .. Len(log[incarnation[s]])
           /\ Head(wire[s]) = log[incarnation[s]][Len(seen[s]) + 1]
           /\ Head(wire[s]).seq = Len(seen[s]) /\ Head(wire[s]).of = incarnation[s]
           /\ HeadTail(wire[s], Head(wire[s]), Tail(wire[s]))
<1>1. TypeOK /\ StreamOK(s)
    BY Zenon DEF ExecInv
<1>2. PICK i : i = incarnation[s]
    BY Zenon
<1>3. i # 0 /\ i <= created
    BY Zenon, <1>1, <1>2 DEF StreamOK, PhaseOK
<1>4. i \in Incarnations /\ i \in Nat /\ created \in Nat /\ Len(seen[s]) \in Nat
    BY Zenon, <1>1, <1>2, <1>3, Numbers
<1>5. i \in 1 .. created
    BY SMT, <1>3, <1>4
<1>6. wire[s] \in Seq(Event)
    BY Zenon, <1>1 DEF TypeOK
<1>7. HeadTail(wire[s], Head(wire[s]), Tail(wire[s])) /\ Head(wire[s]) \in Event
    BY Zenon, <1>6, HeadTailFacts
<1>8. Head(wire[s]) = wire[s][1] /\ Len(wire[s]) \in Nat /\ Len(wire[s]) >= 1
    BY Zenon, <1>7 DEF HeadTail
<1>9. 1 \in 1 .. Len(wire[s])
    BY SMT, <1>8
<1>10. Len(seen[s]) + 1 \in 1 .. Len(log[i]) /\ wire[s][1] = log[i][Len(seen[s]) + 1]
    BY Zenon, <1>1, <1>2, <1>9 DEF StreamOK, WireOK
<1>11. LogOK(i)
    BY Zenon, <1>4 DEF ExecInv, BufferOK
<1>12. PICK k : k = Len(seen[s]) + 1
    BY Zenon
<1>13. log[i][k].of = i /\ log[i][k].seq = k - 1
    BY Zenon, <1>10, <1>11, <1>12 DEF LogOK
<1>14. k - 1 = Len(seen[s])
    BY SMT, <1>4, <1>12
<1>15. QED
    BY Zenon, <1>2, <1>4, <1>5, <1>7, <1>8, <1>10, <1>12, <1>13, <1>14

\* The caller saw one more event.
LEMMA SeenGrows ==
    ASSUME ExecInv, NEW s \in Streams, wire[s] # <<>>, Fixed, incarnation'[s] = incarnation[s],
           lastSeq'[s] = Head(wire[s]).seq, seen'[s] = Append(seen[s], Head(wire[s]))
    PROVE  /\ SeenOK(s)' /\ PrefixOK(s)' /\ Longer(seen'[s], seen[s], Head(wire[s]))
<1>1. PICK e : e = Head(wire[s])
    BY Zenon
<1>2. PICK i : i = incarnation[s]
    BY Zenon
<1>3. /\ i \in Incarnations /\ i \in 1 .. created /\ e \in Event
      /\ Len(seen[s]) + 1 \in 1 .. Len(log[i]) /\ e = log[i][Len(seen[s]) + 1]
      /\ e.seq = Len(seen[s]) /\ e.of = i
    BY Zenon, <1>1, <1>2, NextLine
<1>4. seen[s] \in Seq(Event)
    BY Zenon DEF ExecInv, TypeOK
<1>5. Longer(seen'[s], seen[s], e)
    BY Zenon, <1>1, <1>3, <1>4, AppendFacts
<1>6. /\ Len(seen'[s]) = Len(seen[s]) + 1 /\ Len(seen[s]) \in Nat /\ seen'[s][Len(seen'[s])] = e
      /\ \A k \in 1 .. Len(seen[s]) : seen'[s][k] = seen[s][k]
    BY Zenon, <1>5 DEF Longer
<1>7. \A k \in 1 .. Len(seen'[s]) : k \in 1 .. Len(seen[s]) \/ k = Len(seen'[s])
    BY Zenon, <1>6, LastOrBefore
<1>8. Len(seen'[s]) # 0 /\ Len(seen'[s]) - 1 = Len(seen[s])
    BY SMT, <1>6
<1>9. SeenOK(s)'
    <2>1. \A k \in 1 .. Len(seen[s]) : seen[s][k].seq = k - 1 /\ seen[s][k].of \in 1 .. created
        BY Zenon DEF ExecInv, StreamOK, SeenOK
    <2>2. \A k \in 1 .. Len(seen'[s]) : seen'[s][k].seq = k - 1 /\ seen'[s][k].of \in 1 .. created
        BY Zenon, <1>3, <1>6, <1>7, <1>8, <2>1
    <2>3. lastSeq'[s] = Before(Len(seen'[s]))
        BY Zenon, <1>1, <1>3, <1>8 DEF Before
    <2>4. QED
        BY Zenon, <2>2, <2>3 DEF SeenOK, Fixed
<1>10. PrefixOK(s)'
    <2>1. SUFFICES ASSUME incarnation'[s] # 0, removed' = {}
          PROVE \A k \in 1 .. Len(seen'[s]) : k \in 1 .. Len(log'[incarnation'[s]]) /\ seen'[s][k] = log'[incarnation'[s]][k]
        BY Zenon DEF PrefixOK
    <2>2. \A k \in 1 .. Len(seen[s]) : k \in 1 .. Len(log[i]) /\ seen[s][k] = log[i][k]
        BY Zenon, <1>2, <2>1 DEF ExecInv, PrefixOK, Fixed
    <2>3. \A k \in 1 .. Len(seen'[s]) : k \in 1 .. Len(log[i]) /\ seen'[s][k] = log[i][k]
        BY Zenon, <1>3, <1>6, <1>7, <2>2
    <2>4. QED
        BY Zenon, <1>2, <2>3 DEF Fixed
<1>11. QED
    BY Zenon, <1>1, <1>5, <1>9, <1>10

LEMMA ForwardLast ==
    ASSUME ExecInv, NEW s \in Streams, Forward(s), IsTerminal(Head(wire[s]).type)
    PROVE  ExecInv'
<1>1. ServingTypes /\ ProxyTypes /\ faults \in 0 .. MaxFaults /\ faults <= faults
    BY Zenon, StreamTyped
<1>2. PICK e : e = Head(wire[s])
    BY Zenon
<1>3. /\ pc[s] = "stream" /\ wire[s] # <<>>
      /\ lastSeq' = [lastSeq EXCEPT ![s] = e.seq] /\ seen' = [seen EXCEPT ![s] = Append(seen[s], e)]
      /\ pc' = [pc EXCEPT ![s] = "done"] /\ handler' = [handler EXCEPT ![s] = "none"] /\ wire' = [wire EXCEPT ![s] = <<>>]
      /\ incarnation' = incarnation /\ after' = after /\ notify' = notify /\ attempt' = attempt /\ faults' = faults
      /\ UNCHANGED manager /\ UNCHANGED buffer /\ UNCHANGED process
    BY Zenon, <1>2 DEF Forward, Hangs
<1>4. lastSeq'[s] = e.seq /\ seen'[s] = Append(seen[s], e) /\ pc'[s] = "done"
    BY Zenon, <1>1, <1>3 DEF ProxyTypes
<1>5. handler'[s] = "none" /\ wire'[s] = <<>> /\ <<>> \in Seq(Event)
    <2>1. <<>> \in Seq(Event)
        BY SMT
    <2>2. QED
        BY Zenon, <1>1, <1>3, <2>1 DEF ServingTypes
<1>6. e \in Event /\ e.seq \in Seqs
    BY Zenon, <1>2, <1>3, NextLine DEF Event
<1>7. ServingTypes'
    BY Zenon, <1>1, <1>3, <1>5 DEF ServingTypes
<1>8. Fixed
    BY Zenon, <1>3 DEF Fixed, manager, buffer
<1>9. SeenOK(s)' /\ PrefixOK(s)' /\ Longer(seen'[s], seen[s], e)
    BY Zenon, <1>2, <1>3, <1>4, <1>8, SeenGrows
<1>10. /\ seen'[s] \in Seq(Event) /\ seen'[s][Len(seen'[s])] = e /\ Len(seen'[s]) = Len(seen[s]) + 1 /\ Len(seen[s]) \in Nat
    BY Zenon, <1>9 DEF Longer
<1>11. ProxyTypes'
    <2>1. seen' = [seen EXCEPT ![s] = seen'[s]]
        BY Zenon, <1>3, <1>4
    <2>2. seen' \in [Streams -> Seq(Event)] /\ lastSeq' \in [Streams -> Seqs \cup {Nil}]
        BY Zenon, <1>1, <1>3, <1>6, <1>10, <2>1 DEF ProxyTypes
    <2>3. QED
        BY Zenon, <1>1, <1>3, <2>2 DEF ProxyTypes
<1>12. OnlyStream(s)
    <2>1. ASSUME NEW u \in Streams, u # s PROVE StreamSame(u)
        <3>1. handler'[u] = handler[u] /\ wire'[u] = wire[u]
            BY Zenon, <1>1, <1>3, <2>1 DEF ServingTypes
        <3>2. pc'[u] = pc[u] /\ lastSeq'[u] = lastSeq[u] /\ seen'[u] = seen[u]
            BY Zenon, <1>1, <1>3, <2>1 DEF ProxyTypes
        <3>3. QED
            BY Zenon, <1>3, <3>1, <3>2 DEF StreamSame
    <2>2. QED
        BY Zenon, <1>1, <1>3, <1>7, <1>11, <2>1 DEF OnlyStream
<1>13. StreamOK(s) /\ RetryOK(s)
    BY Zenon DEF ExecInv
<1>14. StreamOK(s)'
    <2>1. PhaseOK(s)'
        BY Zenon, <1>3, <1>4, <1>5, <1>8, <1>13 DEF Fixed, StreamOK, PhaseOK
    <2>2. WireOK(s)'
        <3>1. \A k : k \notin 1 .. 0
            BY SMT
        <3>2. QED
            BY Zenon, <1>4, <1>5, <3>1, EmptyLength DEF WireOK
    <2>3. OpenOK(s)'
        BY Zenon, <1>4 DEF OpenOK
    <2>4. QED
        BY Zenon, <1>9, <2>1, <2>2, <2>3 DEF StreamOK
<1>15. RetryOK(s)'
    <2>1. Whole(s)' => Whole(s)
        BY Zenon, <1>3, <1>8 DEF Fixed, Whole
    <2>2. seen'[s] # <<>>
        <3>1. Len(seen'[s]) # 0
            BY SMT, <1>10
        <3>2. QED
            BY Zenon, <3>1, EmptyLength
    <2>3. seen'[s] # <<>> /\ IsTerminal(seen'[s][Len(seen'[s])].type)
        BY Zenon, <1>2, <1>10, <2>2
    <2>4. Whole(s) => attempt[s] + 0 <= MaxFaults - faults
        BY Zenon, <1>3, <1>13 DEF RetryOK
    <2>5. QED
        BY Zenon, <1>3, <1>4, <1>5, <2>1, <2>3, <2>4 DEF RetryOK
<1>16. QED
    BY Zenon, <1>9, <1>12, <1>14, <1>15, OnlyStreamKeeps

LEMMA ForwardMore ==
    ASSUME ExecInv, NEW s \in Streams, Forward(s), ~IsTerminal(Head(wire[s]).type)
    PROVE  ExecInv'
<1>1. ServingTypes /\ ProxyTypes /\ faults \in 0 .. MaxFaults /\ faults <= faults
    BY Zenon, StreamTyped
<1>2. PICK e, r : e = Head(wire[s]) /\ r = Tail(wire[s])
    BY Zenon
<1>3. /\ pc[s] = "stream" /\ wire[s] # <<>>
      /\ lastSeq' = [lastSeq EXCEPT ![s] = e.seq] /\ seen' = [seen EXCEPT ![s] = Append(seen[s], e)]
      /\ wire' = [wire EXCEPT ![s] = r] /\ pc' = pc /\ handler' = handler
      /\ incarnation' = incarnation /\ after' = after /\ notify' = notify /\ attempt' = attempt /\ faults' = faults
      /\ UNCHANGED manager /\ UNCHANGED buffer /\ UNCHANGED process
    BY Zenon, <1>2 DEF Forward
<1>4. lastSeq'[s] = e.seq /\ seen'[s] = Append(seen[s], e) /\ wire'[s] = r
    BY Zenon, <1>1, <1>3 DEF ServingTypes, ProxyTypes
<1>5. e \in Event /\ e.seq \in Seqs /\ HeadTail(wire[s], e, r)
    BY Zenon, <1>2, <1>3, NextLine DEF Event
<1>6. /\ Len(wire[s]) \in Nat /\ Len(wire[s]) >= 1 /\ r \in Seq(Event) /\ Len(r) = Len(wire[s]) - 1
      /\ \A k \in 1 .. Len(r) : r[k] = wire[s][k + 1]
    BY Zenon, <1>5 DEF HeadTail
<1>7. ServingTypes'
    BY Zenon, <1>1, <1>3, <1>6 DEF ServingTypes
<1>8. Fixed
    BY Zenon, <1>3 DEF Fixed, manager, buffer
<1>9. SeenOK(s)' /\ PrefixOK(s)' /\ Longer(seen'[s], seen[s], e)
    BY Zenon, <1>2, <1>3, <1>4, <1>8, SeenGrows
<1>10. /\ seen'[s] \in Seq(Event) /\ seen'[s][Len(seen'[s])] = e /\ Len(seen'[s]) = Len(seen[s]) + 1 /\ Len(seen[s]) \in Nat
       /\ \A k \in 1 .. Len(seen[s]) : seen'[s][k] = seen[s][k]
    BY Zenon, <1>9 DEF Longer
<1>11. ProxyTypes'
    <2>1. seen' = [seen EXCEPT ![s] = seen'[s]]
        BY Zenon, <1>3, <1>4
    <2>2. seen' \in [Streams -> Seq(Event)] /\ lastSeq' \in [Streams -> Seqs \cup {Nil}]
        BY Zenon, <1>1, <1>3, <1>5, <1>10, <2>1 DEF ProxyTypes
    <2>3. QED
        BY Zenon, <1>1, <1>3, <2>2 DEF ProxyTypes
<1>12. OnlyStream(s)
    <2>1. ASSUME NEW u \in Streams, u # s PROVE StreamSame(u)
        <3>1. wire'[u] = wire[u]
            BY Zenon, <1>1, <1>3, <2>1 DEF ServingTypes
        <3>2. lastSeq'[u] = lastSeq[u] /\ seen'[u] = seen[u]
            BY Zenon, <1>1, <1>3, <2>1 DEF ProxyTypes
        <3>3. QED
            BY Zenon, <1>3, <3>1, <3>2 DEF StreamSame
    <2>2. QED
        BY Zenon, <1>1, <1>3, <1>7, <1>11, <2>1 DEF OnlyStream
<1>13. StreamOK(s) /\ RetryOK(s)
    BY Zenon DEF ExecInv
<1>14. Len(seen'[s]) + Len(wire'[s]) = Len(seen[s]) + Len(wire[s])
    <2>1. PICK a, b, c : a = Len(seen[s]) /\ b = Len(wire[s]) /\ c = Len(r)
        BY Zenon
    <2>2. a \in Nat /\ b \in Nat /\ c = b - 1
        BY Zenon, <1>6, <1>10, <2>1
    <2>3. (a + 1) + c = a + b
        BY SMT, <2>2
    <2>4. QED
        BY Zenon, <1>4, <1>10, <2>1, <2>3
<1>15. StreamOK(s)'
    <2>1. PhaseOK(s)'
        <3>1. handler[s] \notin {"none", "preflight"} /\ pc[s] # "idle"
            BY Zenon, <1>3, <1>13 DEF StreamOK, PhaseOK
        <3>2. QED
            BY Zenon, <1>3, <1>8, <1>13, <3>1 DEF Fixed, StreamOK, PhaseOK
    <2>2. WireOK(s)'
        <3>1. after[s] = Before(Len(seen[s]) + Len(wire[s]))
            BY Zenon, <1>3, <1>13 DEF StreamOK, WireOK
        <3>2. after'[s] = Before(Len(seen'[s]) + Len(wire'[s]))
            BY Zenon, <1>3, <1>14, <3>1
        <3>3. PICK i : i = incarnation[s]
            BY Zenon
        <3>4. \A k \in 1 .. Len(wire[s]) : Len(seen[s]) + k \in 1 .. Len(log[i]) /\ wire[s][k] = log[i][Len(seen[s]) + k]
            BY Zenon, <1>13, <3>3 DEF StreamOK, WireOK
        <3>5. \A k \in 1 .. Len(r) : k + 1 \in 1 .. Len(wire[s]) /\ Len(seen[s]) + (k + 1) = Len(seen'[s]) + k
            <4>1. PICK a, b, c, d : a = Len(seen[s]) /\ b = Len(wire[s]) /\ c = Len(r) /\ d = Len(seen'[s])
                BY Zenon
            <4>2. a \in Nat /\ b \in Nat /\ c = b - 1 /\ d = a + 1
                BY Zenon, <1>6, <1>10, <4>1
            <4>3. \A k \in 1 .. c : k + 1 \in 1 .. b /\ a + (k + 1) = d + k
                BY SMT, <4>2
            <4>4. QED
                BY Zenon, <4>1, <4>3
        <3>6. ASSUME NEW k \in 1 .. Len(r)
              PROVE  Len(seen'[s]) + k \in 1 .. Len(log[i]) /\ r[k] = log[i][Len(seen'[s]) + k]
            <4>1. Len(seen[s]) + (k + 1) \in 1 .. Len(log[i]) /\ r[k] = log[i][Len(seen[s]) + (k + 1)]
                BY Zenon, <1>6, <3>4, <3>5, <3>6
            <4>2. QED
                BY Zenon, <3>5, <3>6, <4>1
        <3>7. QED
            BY Zenon, <1>3, <1>4, <1>8, <3>2, <3>3, <3>6 DEF WireOK, Fixed
    <2>3. OpenOK(s)'
        <3>1. \A k \in 1 .. Len(seen'[s]) : k \in 1 .. Len(seen[s]) \/ k = Len(seen'[s])
            BY Zenon, <1>10, LastOrBefore
        <3>2. \A k \in 1 .. Len(seen[s]) : ~IsTerminal(seen[s][k].type)
            BY Zenon, <1>3, <1>13 DEF StreamOK, OpenOK
        <3>3. QED
            BY Zenon, <1>2, <1>10, <3>1, <3>2 DEF OpenOK
    <2>4. QED
        BY Zenon, <1>9, <2>1, <2>2, <2>3 DEF StreamOK
<1>16. RetryOK(s)'
    <2>1. Whole(s)' => Whole(s)
        BY Zenon, <1>3, <1>8 DEF Fixed, Whole
    <2>2. Whole(s) => /\ attempt[s] + 0 <= MaxFaults - faults
                      /\ handler[s] = "closed" => /\ completed[incarnation[s]]
                                                  /\ Len(seen[s]) + Len(wire[s]) = Len(log[incarnation[s]])
        BY Zenon, <1>3, <1>13 DEF RetryOK
    <2>3. pc[s] # "done" /\ pc[s] # "backoff"
        BY Zenon, <1>3
    <2>4. QED
        BY Zenon, <1>3, <1>8, <1>14, <2>1, <2>2, <2>3 DEF RetryOK, Fixed
<1>17. QED
    BY Zenon, <1>9, <1>12, <1>15, <1>16, OnlyStreamKeeps

\* r is q behind p.
Joined(r, p, q) ==
    /\ r \in Seq(Event) /\ Len(r) = Len(p) + Len(q) /\ Len(p) \in Nat /\ Len(q) \in Nat
    /\ \A k \in 1 .. Len(p) : r[k] = p[k]
    /\ \A k \in 1 .. Len(q) : r[Len(p) + k] = q[k]

LEMMA JoinedFacts == ASSUME NEW p \in Seq(Event), NEW q \in Seq(Event) PROVE Joined(p \o q, p, q)
<1>1. p \o q \in Seq(Event) /\ Len(p \o q) = Len(p) + Len(q) /\ Len(p) \in Nat /\ Len(q) \in Nat
    BY SMT
<1>2. \A k \in 1 .. Len(p) : (p \o q)[k] = p[k]
    BY SMT
<1>3. \A k \in 1 .. Len(q) : (p \o q)[Len(p) + k] = q[k]
    BY SMT
<1>4. QED
    BY Zenon, <1>1, <1>2, <1>3 DEF Joined

Position(s) == Len(seen[s]) + Len(wire[s])

\* What the next round of Follow writes, if it may.
LEMMA FollowBatch ==
    ASSUME ExecInv, NEW s \in Streams, pc[s] = "stream", HasHistoryAfter(incarnation[s], after[s])
    PROVE  /\ incarnation[s] \in Incarnations /\ Position(s) \in Nat
           /\ EventsAfter(incarnation[s], after[s]) \in Seq(Event)
           /\ \/ /\ SuffixOf(EventsAfter(incarnation[s], after[s]), log[incarnation[s]], Position(s))
                 /\ Position(s) < Len(log[incarnation[s]])
              \/ /\ EventsAfter(incarnation[s], after[s]) = <<>>
                 /\ Position(s) >= Len(log[incarnation[s]])
<1>1. TypeOK /\ StreamOK(s)
    BY Zenon DEF ExecInv
<1>2. PICK i, p : i = incarnation[s] /\ p = Position(s)
    BY Zenon
<1>3. i \in Incarnations
    BY Zenon, <1>1, <1>2, Numbers DEF StreamOK, PhaseOK
<1>4. p \in Nat /\ Len(log[i]) \in Nat
    <2>1. Len(seen[s]) \in Nat /\ Len(wire[s]) \in Nat /\ Len(log[i]) \in Nat
        BY Zenon, <1>1, <1>3, Numbers
    <2>2. \A x, y \in Nat : x + y \in Nat
        BY SMT
    <2>3. QED
        BY Zenon, <1>2, <2>1, <2>2 DEF Position
<1>5. LogOK(i) /\ BufferAt(i)
    BY Zenon, <1>1, <1>3, BufferAtHolds DEF ExecInv, BufferOK
<1>6. after[s] = Before(p)
    BY Zenon, <1>1, <1>2 DEF StreamOK, WireOK, Position
<1>7. after[s] # MaxUint
    <2>1. after[s] \in Seqs \/ after[s] = Nil
        BY Zenon, <1>1 DEF TypeOK
    <2>2. MaxOutput \in Nat /\ MaxUint \in Nat /\ MaxOutput + 2 < MaxUint /\ Nil \notin Int
        BY Zenon, ExecutionsAssumption
    <2>3. MaxUint \in Int /\ MaxUint \notin Seqs
        BY SMT, <2>2 DEF Seqs
    <2>4. QED
        BY Zenon, <2>1, <2>2, <2>3
<1>8. /\ EventsAfter(i, after[s]) \in Seq(Event)
      /\ p <= Len(log[i]) => SuffixOf(EventsAfter(i, after[s]), log[i], p)
      /\ p >= Len(log[i]) => EventsAfter(i, after[s]) = <<>>
    BY Zenon, <1>2, <1>3, <1>4, <1>5, <1>6, <1>7, EventsAfterFacts
<1>9. (p < Len(log[i]) /\ p <= Len(log[i])) \/ p >= Len(log[i])
    BY SMT, <1>4
<1>10. QED
    BY Zenon, <1>2, <1>3, <1>4, <1>8, <1>9

\* The new contents of the wire, and the number of the last event on it.
LEMMA FollowWrites ==
    ASSUME ExecInv, NEW s \in Streams, pc[s] = "stream", HasHistoryAfter(incarnation[s], after[s]),
           NEW w, w = wire[s] \o EventsAfter(incarnation[s], after[s]),
           NEW a, a = IF EventsAfter(incarnation[s], after[s]) = <<>> THEN after[s]
                      ELSE events[incarnation[s]][Len(events[incarnation[s]])].seq
    PROVE  /\ w \in Seq(Event) /\ a \in Seqs \cup {Nil} /\ a = Before(Len(seen[s]) + Len(w))
           /\ Position(s) <= Len(log[incarnation[s]]) => Len(seen[s]) + Len(w) = Len(log[incarnation[s]])
           /\ \A k \in 1 .. Len(w) : /\ Len(seen[s]) + k \in 1 .. Len(log[incarnation[s]])
                                     /\ w[k] = log[incarnation[s]][Len(seen[s]) + k]
<1>1. PICK i, p, D : i = incarnation[s] /\ p = Position(s) /\ D = EventsAfter(i, after[s])
    BY Zenon
<1>2. TypeOK /\ StreamOK(s)
    BY Zenon DEF ExecInv
<1>3. i \in Incarnations /\ p \in Nat /\ D \in Seq(Event)
    BY Zenon, <1>1, FollowBatch
<1>4. \/ SuffixOf(D, log[i], p) /\ p < Len(log[i])
      \/ D = <<>> /\ p >= Len(log[i])
    BY Zenon, <1>1, FollowBatch
<1>5. wire[s] \in Seq(Event) /\ after[s] \in Seqs \cup {Nil}
    BY Zenon, <1>2 DEF TypeOK
<1>6. Joined(w, wire[s], D)
    BY Zenon, <1>1, <1>3, <1>5, JoinedFacts
<1>7. /\ w \in Seq(Event) /\ Len(w) = Len(wire[s]) + Len(D) /\ Len(wire[s]) \in Nat /\ Len(D) \in Nat
      /\ \A k \in 1 .. Len(wire[s]) : w[k] = wire[s][k]
      /\ \A k \in 1 .. Len(D) : w[Len(wire[s]) + k] = D[k]
    BY Zenon, <1>6 DEF Joined
<1>8. /\ after[s] = Before(p) /\ p = Len(seen[s]) + Len(wire[s])
      /\ \A k \in 1 .. Len(wire[s]) : /\ Len(seen[s]) + k \in 1 .. Len(log[i])
                                      /\ wire[s][k] = log[i][Len(seen[s]) + k]
    BY Zenon, <1>1, <1>2 DEF StreamOK, WireOK, Position
<1>9. Len(seen[s]) \in Nat /\ Len(log[i]) \in Nat
    BY Zenon, <1>2, <1>3, Numbers
<1>10. CASE D = <<>> /\ p >= Len(log[i])
    <2>1. a = after[s] /\ Len(D) = 0
        BY Zenon, <1>1, <1>10, EmptyLength
    <2>2. Len(w) = Len(wire[s])
        BY SMT, <1>7, <2>1
    <2>3. p <= Len(log[i]) => p = Len(log[i])
        BY SMT, <1>3, <1>9, <1>10
    <2>4. \A k \in 1 .. Len(w) : Len(seen[s]) + k \in 1 .. Len(log[i]) /\ w[k] = log[i][Len(seen[s]) + k]
        BY Zenon, <1>7, <1>8, <2>2
    <2>5. QED
        BY Zenon, <1>1, <1>5, <1>7, <1>8, <2>1, <2>2, <2>3, <2>4
<1>11. CASE SuffixOf(D, log[i], p) /\ p < Len(log[i])
    <2>1. Len(D) = Len(log[i]) - p /\ \A k \in 1 .. Len(D) : D[k] = log[i][p + k]
        BY Zenon, <1>11 DEF SuffixOf
    <2>2. PICK x, y, l, d : x = Len(seen[s]) /\ y = Len(wire[s]) /\ l = Len(log[i]) /\ d = Len(D)
        BY Zenon
    <2>3. x \in Nat /\ y \in Nat /\ l \in Nat /\ d = l - p /\ p = x + y /\ p < l /\ d \in Nat
        BY Zenon, <1>7, <1>8, <1>9, <1>11, <2>1, <2>2
    <2>4. d # 0 /\ x + (y + d) = l /\ l # 0 /\ \A k \in 1 .. d : x + (y + k) = p + k /\ p + k \in 1 .. l
        BY SMT, <2>3
    <2>5. Len(seen[s]) + Len(w) = Len(log[i])
        BY Zenon, <1>7, <2>2, <2>4
    <2>6. D # <<>>
        BY Zenon, <2>2, <2>4, EmptyLength
    <2>7. a = Len(log[i]) - 1 /\ a \in Seqs
        <3>1. LogOK(i) /\ BufferAt(i)
            BY Zenon, <1>2, <1>3, BufferAtHolds DEF ExecInv, BufferOK
        <3>2. Len(events[i]) \in Nat /\ minSeq[i] \in Nat /\ Len(log[i]) = nextSeq[i]
              /\ (minSeq[i] < nextSeq[i] \/ (minSeq[i] = 0 /\ nextSeq[i] = 0))
            BY Zenon, <3>1 DEF BufferAt, LogOK
        <3>3. Len(events[i]) = Len(log[i]) - minSeq[i] /\ \A k \in 1 .. Len(events[i]) : events[i][k] = log[i][minSeq[i] + k]
            BY Zenon, <3>1 DEF LogOK, SuffixOf
        <3>4. PICK v, m : v = Len(events[i]) /\ m = minSeq[i]
            BY Zenon
        <3>5. v \in Nat /\ m \in Nat /\ v = l - m /\ (m < l \/ (m = 0 /\ l = 0))
            BY Zenon, <2>2, <3>2, <3>3, <3>4
        <3>6. v \in 1 .. v /\ m + v = l /\ l \in 1 .. l
            BY SMT, <2>3, <2>4, <3>5
        <3>7. events[i][v] = log[i][m + v]
            BY Zenon, <3>3, <3>4, <3>6
        <3>8. log[i][l].seq = l - 1 /\ log[i][l] \in Event
            <4>1. log[i][l].seq = l - 1
                BY Zenon, <2>2, <3>1, <3>6 DEF LogOK
            <4>2. log[i] \in Seq(Event)
                BY Zenon, <3>1 DEF BufferAt
            <4>3. log[i][l] \in Event
                BY SMT, <2>2, <3>6, <4>2
            <4>4. QED
                BY Zenon, <4>1, <4>3
        <3>9. log[i][l].seq \in Seqs
            BY Zenon, <3>8 DEF Event
        <3>10. a = events[i][v].seq
            BY Zenon, <1>1, <2>6, <3>4
        <3>11. QED
            BY Zenon, <2>2, <3>6, <3>7, <3>8, <3>9, <3>10
    <2>8. a = Before(Len(seen[s]) + Len(w))
        BY Zenon, <2>2, <2>4, <2>5, <2>7 DEF Before
    <2>9. ASSUME NEW k \in 1 .. Len(w)
          PROVE  Len(seen[s]) + k \in 1 .. Len(log[i]) /\ w[k] = log[i][Len(seen[s]) + k]
        <3>1. k \in 1 .. Len(wire[s]) \/ \E j \in 1 .. Len(D) : k = Len(wire[s]) + j
            <4>1. k \in 1 .. y + d
                BY Zenon, <1>7, <2>2, <2>9
            <4>2. k \in 1 .. y \/ (k - y \in 1 .. d /\ k = y + (k - y))
                BY SMT, <2>3, <4>1
            <4>3. QED
                BY Zenon, <2>2, <4>2
        <3>2. CASE k \in 1 .. Len(wire[s])
            BY Zenon, <1>7, <1>8, <3>2
        <3>3. ASSUME NEW j \in 1 .. Len(D), k = Len(wire[s]) + j
              PROVE  Len(seen[s]) + k \in 1 .. Len(log[i]) /\ w[k] = log[i][Len(seen[s]) + k]
            <4>1. w[k] = log[i][p + j]
                BY Zenon, <1>7, <2>1, <3>3
            <4>2. Len(seen[s]) + k = p + j /\ p + j \in 1 .. Len(log[i])
                BY Zenon, <2>2, <2>4, <3>3
            <4>3. QED
                BY Zenon, <4>1, <4>2
        <3>4. QED
            BY Zenon, <3>1, <3>2, <3>3
    <2>10. QED
        BY Zenon, <1>1, <1>7, <2>5, <2>7, <2>8, <2>9
<1>12. QED
    BY Zenon, <1>4, <1>10, <1>11

LEMMA FollowKeeps ==
    ASSUME ExecInv, NEW s \in Streams, Follow(s)
    PROVE  ExecInv'
<1>1. ServingTypes /\ ProxyTypes /\ faults \in 0 .. MaxFaults /\ faults <= faults
    BY Zenon, StreamTyped
<1>2. /\ handler[s] = "follow" /\ incarnation' = incarnation
      /\ pc' = pc /\ attempt' = attempt /\ lastSeq' = lastSeq /\ seen' = seen /\ faults' = faults
      /\ UNCHANGED manager /\ UNCHANGED buffer /\ UNCHANGED process
    BY Zenon DEF Follow, proxy
<1>3. TypeOK /\ StreamOK(s) /\ PrefixOK(s) /\ RetryOK(s)
    BY Zenon DEF ExecInv
<1>4. pc[s] = "stream" /\ incarnation[s] \in Incarnations
    BY Zenon, <1>2, <1>3, Numbers DEF StreamOK, PhaseOK
<1>5. PICK i : i = incarnation[s]
    BY Zenon
<1>6. PICK h, w, a, n :
         /\ handler' = [handler EXCEPT ![s] = h] /\ wire' = [wire EXCEPT ![s] = w]
         /\ after' = [after EXCEPT ![s] = a] /\ notify' = [notify EXCEPT ![s] = n]
         /\ h \in {"wait", "closed"} /\ w \in Seq(Event) /\ a \in Seqs \cup {Nil} /\ n \in 0 .. MaxOutput + 2
         /\ a = Before(Len(seen[s]) + Len(w))
         /\ \A k \in 1 .. Len(w) : Len(seen[s]) + k \in 1 .. Len(log[i]) /\ w[k] = log[i][Len(seen[s]) + k]
         /\ Whole(s) /\ h = "closed" => /\ completed[i]
                                        /\ Position(s) <= Len(log[i]) => Len(seen[s]) + Len(w) = Len(log[i])
    <2>1. CASE HasHistoryAfter(incarnation[s], after[s])
        <3>1. PICK w, a : /\ w = wire[s] \o EventsAfter(incarnation[s], after[s])
                          /\ a = IF EventsAfter(incarnation[s], after[s]) = <<>> THEN after[s]
                                 ELSE events[incarnation[s]][Len(events[incarnation[s]])].seq
            BY Zenon
        <3>2. PICK h : h = IF completed[incarnation[s]] THEN "closed" ELSE "wait"
            BY Zenon
        <3>3. /\ handler' = [handler EXCEPT ![s] = h] /\ wire' = [wire EXCEPT ![s] = w]
              /\ after' = [after EXCEPT ![s] = a] /\ notify' = [notify EXCEPT ![s] = nextSeq[incarnation[s]]]
            BY Zenon, <2>1, <3>1, <3>2 DEF Follow
        <3>4. h \in {"wait", "closed"} /\ (h = "closed" => completed[i])
            BY Zenon, <1>5, <3>2
        <3>5. nextSeq[incarnation[s]] \in 0 .. MaxOutput + 2
            BY Zenon, <1>3, <1>4 DEF TypeOK
        <3>6. /\ w \in Seq(Event) /\ a \in Seqs \cup {Nil} /\ a = Before(Len(seen[s]) + Len(w))
              /\ Position(s) <= Len(log[i]) => Len(seen[s]) + Len(w) = Len(log[i])
              /\ \A k \in 1 .. Len(w) : Len(seen[s]) + k \in 1 .. Len(log[i]) /\ w[k] = log[i][Len(seen[s]) + k]
            BY Zenon, <1>4, <1>5, <2>1, <3>1, FollowWrites
        <3>7. QED
            BY Zenon, <3>3, <3>4, <3>5, <3>6
    <2>2. CASE ~HasHistoryAfter(incarnation[s], after[s])
        <3>1. handler' = [handler EXCEPT ![s] = "closed"] /\ wire' = wire /\ after' = after /\ notify' = notify
            BY Zenon, <2>2 DEF Follow
        <3>2. wire' = [wire EXCEPT ![s] = wire[s]] /\ after' = [after EXCEPT ![s] = after[s]]
              /\ notify' = [notify EXCEPT ![s] = notify[s]]
            BY Zenon, <1>1, <3>1 DEF ServingTypes
        <3>3. wire[s] \in Seq(Event) /\ after[s] \in Seqs \cup {Nil} /\ notify[s] \in 0 .. MaxOutput + 2
            BY Zenon, <1>1 DEF ServingTypes
        <3>4. /\ after[s] = Before(Len(seen[s]) + Len(wire[s]))
              /\ \A k \in 1 .. Len(wire[s]) : Len(seen[s]) + k \in 1 .. Len(log[i]) /\ wire[s][k] = log[i][Len(seen[s]) + k]
            BY Zenon, <1>3, <1>4, <1>5 DEF StreamOK, WireOK
        <3>5. ~Whole(s)
            BY Zenon, <1>3, <2>2, WholeHasHistory
        <3>6. QED
            BY Zenon, <3>1, <3>2, <3>3, <3>4, <3>5
    <2>3. QED
        BY Zenon, <2>1, <2>2
<1>7. ServingTypes'
    BY Zenon, <1>1, <1>2, <1>6 DEF ServingTypes
<1>8. ProxyTypes'
    BY Zenon, <1>1, <1>2 DEF ProxyTypes
<1>9. OnlyStream(s)
    <2>1. ASSUME NEW u \in Streams, u # s PROVE StreamSame(u)
        <3>1. handler'[u] = handler[u] /\ wire'[u] = wire[u] /\ after'[u] = after[u]
            BY Zenon, <1>1, <1>6, <2>1 DEF ServingTypes
        <3>2. QED
            BY Zenon, <1>2, <3>1 DEF StreamSame
    <2>2. QED
        BY Zenon, <1>1, <1>2, <1>7, <1>8, <2>1 DEF OnlyStream
<1>10. handler'[s] = h /\ wire'[s] = w /\ after'[s] = a /\ Fixed
    BY Zenon, <1>1, <1>6, <1>9, OnlyStreamFixed DEF ServingTypes
<1>11. StreamOK(s)'
    <2>1. SeenOK(s)' /\ OpenOK(s)'
        BY Zenon, <1>2, <1>3, <1>10 DEF Fixed, StreamOK, SeenOK, OpenOK
    <2>2. PhaseOK(s)'
        <3>1. h # "none" /\ h # "preflight"
            BY Zenon, <1>6
        <3>2. QED
            BY Zenon, <1>2, <1>3, <1>4, <1>10, <3>1 DEF Fixed, StreamOK, PhaseOK
    <2>3. WireOK(s)'
        <3>1. log' = log
            BY Zenon, <1>10 DEF Fixed
        <3>2. /\ a = Before(Len(seen[s]) + Len(w))
              /\ \A k \in 1 .. Len(w) : Len(seen[s]) + k \in 1 .. Len(log[i]) /\ w[k] = log[i][Len(seen[s]) + k]
            BY Zenon, <1>6
        <3>3. QED
            BY Zenon, <1>2, <1>5, <1>10, <3>1, <3>2 DEF WireOK
    <2>4. QED
        BY Zenon, <2>1, <2>2, <2>3 DEF StreamOK
<1>12. PrefixOK(s)'
    BY Zenon, <1>2, <1>3, <1>10, PrefixSame
<1>13. RetryOK(s)'
    <2>1. Whole(s)' => Whole(s)
        BY Zenon, <1>2, <1>10 DEF Fixed, Whole
    <2>2. CASE Whole(s)
        <3>1. attempt[s] + 0 <= MaxFaults - faults
            BY Zenon, <1>3, <1>4, <2>2 DEF RetryOK
        <3>2. Position(s) <= Len(log[i])
            <4>1. Len(seen[s]) \in Nat /\ Len(wire[s]) \in Nat /\ Len(log[i]) \in Nat
                BY Zenon, <1>3, <1>4, <1>5, Numbers
            <4>2. Len(wire[s]) # 0 => Len(wire[s]) \in 1 .. Len(wire[s])
                BY SMT, <4>1
            <4>3. Len(wire[s]) # 0 => Len(seen[s]) + Len(wire[s]) \in 1 .. Len(log[i])
                BY Zenon, <1>3, <1>5, <4>2 DEF StreamOK, WireOK
            <4>4. Len(seen[s]) # 0 => Len(seen[s]) \in 1 .. Len(seen[s])
                BY SMT, <4>1
            <4>5. Len(seen[s]) # 0 => Len(seen[s]) \in 1 .. Len(log[i])
                BY Zenon, <1>3, <1>5, <2>2, <4>4 DEF PrefixOK, Whole
            <4>6. \A x, y, l \in Nat : (y # 0 => x + y \in 1 .. l) /\ (x # 0 => x \in 1 .. l) => x + y <= l
                BY SMT
            <4>7. QED
                BY Zenon, <4>1, <4>3, <4>5, <4>6 DEF Position
        <3>3. h = "closed" => completed[i] /\ Len(seen[s]) + Len(w) = Len(log[i])
            BY Zenon, <1>6, <2>2, <3>2
        <3>4. pc[s] # "done" /\ pc[s] # "backoff"
            BY Zenon, <1>4
        <3>5. QED
            BY Zenon, <1>2, <1>5, <1>10, <3>1, <3>3, <3>4 DEF RetryOK, Fixed
    <2>3. QED
        BY Zenon, <2>1, <2>2 DEF RetryOK
<1>14. QED
    BY Zenon, <1>9, <1>11, <1>12, <1>13, OnlyStreamKeeps

-----------------------------------------------------------------------------
\* Steps of the manager and of the commands.

LEMMA OthersKeep ==
    ASSUME ExecInv, UNCHANGED serving, UNCHANGED proxy, ManagerTypes', BufferTypes', ProcessTypes', Later,
           ManagerOK', \A i \in Incarnations : BufferOK(i)' /\ CommandOK(i)'
    PROVE  ExecInv'
<1>1. TypeOK /\ \A s \in Streams : StreamOK(s) /\ PrefixOK(s) /\ RetryOK(s)
    BY Zenon DEF ExecInv
<1>2. /\ handler' = handler /\ incarnation' = incarnation /\ after' = after /\ notify' = notify /\ wire' = wire
      /\ pc' = pc /\ attempt' = attempt /\ lastSeq' = lastSeq /\ seen' = seen
    BY Zenon DEF serving, proxy
<1>3. ServingTypes' /\ ProxyTypes'
    BY Zenon, <1>1, <1>2, TypesSplit DEF ServingTypes, ProxyTypes
<1>4. TypeOK'
    BY Zenon, <1>3 DEF TypeOK, ManagerTypes, BufferTypes, ProcessTypes, ServingTypes, ProxyTypes
<1>5. ASSUME NEW s \in Streams PROVE StreamOK(s)' /\ PrefixOK(s)' /\ RetryOK(s)'
    <2>1. StreamSame(s)
        BY Zenon, <1>2 DEF StreamSame
    <2>2. QED
        BY Zenon, <1>1, <1>4, <1>5, <2>1, StreamKept, PrefixKept, RetryKept
<1>6. QED
    BY Zenon, <1>4, <1>5 DEF ExecInv

LEMMA ManagerUnchanged ==
    ASSUME ExecInv, UNCHANGED manager, faults' = faults
    PROVE  /\ ManagerTypes' /\ ManagerOK' /\ created' = created
           /\ created <= created' /\ removed \subseteq removed' /\ faults' <= faults
<1>1. executions' = executions /\ created' = created /\ removed' = removed
    BY Zenon DEF manager
<1>2. ManagerTypes /\ ManagerOK
    BY Zenon, TypesSplit DEF ExecInv
<1>3. ManagerTypes' /\ ManagerOK'
    BY Zenon, <1>1, <1>2 DEF ManagerTypes, ManagerOK
<1>4. created \in Nat /\ faults \in Nat
    BY Zenon, Numbers DEF ExecInv
<1>5. created <= created /\ faults <= faults
    BY SMT, <1>4
<1>6. QED
    BY Zenon, <1>1, <1>3, <1>5

LEMMA ProcessStepKeeps ==
    ASSUME ExecInv, UNCHANGED manager, UNCHANGED buffer, UNCHANGED serving, UNCHANGED proxy, faults' = faults,
           ProcessTypes', NEW i \in Incarnations,
           \A j \in Incarnations : j # i => command'[j] = command[j] /\ readers'[j] = readers[j],
           CommandOK(i)'
    PROVE  ExecInv'
<1>1. BufferTypes' /\ \A j \in Incarnations : BufferOK(j)' /\ Grows(j) /\ completed'[j] = completed[j] /\ nextSeq'[j] = nextSeq[j]
    BY Zenon, BufferUnchanged
<1>2. /\ ManagerTypes' /\ ManagerOK' /\ created' = created
      /\ created <= created' /\ removed \subseteq removed' /\ faults' <= faults
    BY Zenon, ManagerUnchanged
<1>3. Later
    BY Zenon, <1>1, <1>2 DEF Later
<1>4. ASSUME NEW j \in Incarnations, j # i PROVE CommandOK(j)'
    BY Zenon, <1>1, <1>2, <1>4 DEF ExecInv, CommandOK
<1>5. QED
    BY Zenon, <1>1, <1>2, <1>3, <1>4, OthersKeep

LEMMA ProcessTyped ==
    ASSUME ExecInv
    PROVE  ProcessTypes /\ \A i \in Incarnations : CommandOK(i)
BY Zenon, TypesSplit DEF ExecInv

LEMMA StartKeeps == ASSUME ExecInv, NEW i \in Incarnations, Start(i) PROVE ExecInv'
<1>1. ProcessTypes /\ CommandOK(i)
    BY Zenon, ProcessTyped
<1>2. /\ command[i] = "starting" /\ command' = [command EXCEPT ![i] = "running"] /\ readers' = [readers EXCEPT ![i] = Pipes]
      /\ cancelled' = cancelled /\ UNCHANGED manager /\ UNCHANGED buffer /\ UNCHANGED serving /\ UNCHANGED proxy /\ faults' = faults
    BY Zenon DEF Start
<1>3. ProcessTypes'
    BY Zenon, <1>1, <1>2 DEF ProcessTypes
<1>4. command'[i] = "running" /\ \A j \in Incarnations : j # i => command'[j] = command[j] /\ readers'[j] = readers[j]
    BY Zenon, <1>1, <1>2 DEF ProcessTypes
<1>5. completed' = completed /\ nextSeq' = nextSeq /\ created' = created
    BY Zenon, <1>2 DEF buffer, manager
<1>6. CommandOK(i)'
    BY Zenon, <1>1, <1>2, <1>4, <1>5 DEF CommandOK
<1>7. QED
    BY Zenon, <1>2, <1>3, <1>4, <1>6, ProcessStepKeeps

LEMMA ReaderDoneKeeps == ASSUME ExecInv, NEW i \in Incarnations, NEW r, ReaderDone(i, r) PROVE ExecInv'
<1>1. ProcessTypes /\ CommandOK(i)
    BY Zenon, ProcessTyped
<1>2. /\ r \in readers[i] /\ readers' = [readers EXCEPT ![i] = readers[i] \ {r}] /\ command' = command
      /\ cancelled' = cancelled /\ UNCHANGED manager /\ UNCHANGED buffer /\ UNCHANGED serving /\ UNCHANGED proxy /\ faults' = faults
    BY Zenon DEF ReaderDone
<1>3. ProcessTypes'
    <2>1. readers[i] \ {r} \in SUBSET Pipes
        BY Zenon, <1>1 DEF ProcessTypes
    <2>2. QED
        BY Zenon, <1>1, <1>2, <2>1 DEF ProcessTypes
<1>4. \A j \in Incarnations : j # i => command'[j] = command[j] /\ readers'[j] = readers[j]
    BY Zenon, <1>1, <1>2 DEF ProcessTypes
<1>5. completed' = completed /\ nextSeq' = nextSeq /\ created' = created
    BY Zenon, <1>2 DEF buffer, manager
<1>6. CommandOK(i)'
    BY Zenon, <1>1, <1>2, <1>5 DEF CommandOK
<1>7. QED
    BY Zenon, <1>2, <1>3, <1>4, <1>6, ProcessStepKeeps

LEMMA TimeoutKeeps == ASSUME ExecInv, NEW i \in Incarnations, Timeout(i) PROVE ExecInv'
<1>1. ProcessTypes /\ CommandOK(i)
    BY Zenon, ProcessTyped
<1>2. /\ cancelled' = [cancelled EXCEPT ![i] = TRUE] /\ command' = command /\ readers' = readers
      /\ UNCHANGED manager /\ UNCHANGED buffer /\ UNCHANGED serving /\ UNCHANGED proxy /\ faults' = faults
    BY Zenon DEF Timeout
<1>3. ProcessTypes'
    BY Zenon, <1>1, <1>2 DEF ProcessTypes
<1>4. completed' = completed /\ nextSeq' = nextSeq /\ created' = created
    BY Zenon, <1>2 DEF buffer, manager
<1>5. CommandOK(i)'
    BY Zenon, <1>1, <1>2, <1>4 DEF CommandOK
<1>6. QED
    BY Zenon, <1>2, <1>3, <1>5, ProcessStepKeeps

LEMMA ExitKeeps == ASSUME ExecInv, NEW i \in Incarnations, Exit(i) PROVE ExecInv'
<1>1. ProcessTypes /\ CommandOK(i)
    BY Zenon, ProcessTyped
<1>2. /\ command[i] = "running" /\ command' = [command EXCEPT ![i] = "exited"] /\ readers' = readers
      /\ cancelled' = cancelled /\ UNCHANGED manager /\ UNCHANGED buffer /\ UNCHANGED serving /\ UNCHANGED proxy /\ faults' = faults
    BY Zenon DEF Exit
<1>3. ProcessTypes'
    BY Zenon, <1>1, <1>2 DEF ProcessTypes
<1>4. command'[i] = "exited" /\ \A j \in Incarnations : j # i => command'[j] = command[j] /\ readers'[j] = readers[j]
    BY Zenon, <1>1, <1>2 DEF ProcessTypes
<1>5. completed' = completed /\ nextSeq' = nextSeq /\ created' = created
    BY Zenon, <1>2 DEF buffer, manager
<1>6. CommandOK(i)'
    BY Zenon, <1>1, <1>2, <1>4, <1>5 DEF CommandOK
<1>7. QED
    BY Zenon, <1>2, <1>3, <1>4, <1>6, ProcessStepKeeps

LEMMA AppendStepKeeps ==
    ASSUME ExecInv, UNCHANGED manager, UNCHANGED serving, UNCHANGED proxy, faults' = faults, ProcessTypes',
           NEW i \in Incarnations, NEW type \in Types, AppendEvent(i, type), ~completed[i], type # "started",
           type = "output" => nextSeq[i] <= MaxOutput,
           \A j \in Incarnations : j # i => command'[j] = command[j] /\ readers'[j] = readers[j],
           IsTerminal(type) => command'[i] = "done",
           command[i] # "none", command'[i] # "none",
           command'[i] \in {"starting", "done"} => readers'[i] = {}
    PROVE  ExecInv'
<1>1. BufferTypes /\ \A j \in Incarnations : BufferOK(j) /\ CommandOK(j)
    BY Zenon, TypesSplit DEF ExecInv
<1>2. /\ BufferTypes' /\ \A j \in Incarnations : BufferOK(j)' /\ Grows(j)
      /\ completed'[i] <=> IsTerminal(type)
      /\ nextSeq'[i] # 0
    BY Zenon, <1>1, AppendKeeps
<1>3. /\ ManagerTypes' /\ ManagerOK' /\ created' = created
      /\ created <= created' /\ removed \subseteq removed' /\ faults' <= faults
    BY Zenon, ManagerUnchanged
<1>4. Later
    BY Zenon, <1>2, <1>3 DEF Later
<1>5. ASSUME NEW j \in Incarnations, j # i PROVE CommandOK(j)'
    <2>1. completed'[j] = completed[j] /\ nextSeq'[j] = nextSeq[j]
        BY Zenon, <1>1, <1>5, AppendElsewhere DEF BufferSame
    <2>2. QED
        BY Zenon, <1>1, <1>3, <1>5, <2>1 DEF CommandOK
<1>6. CommandOK(i)'
    BY Zenon, <1>1, <1>2, <1>3 DEF CommandOK
<1>7. QED
    BY Zenon, <1>2, <1>3, <1>4, <1>5, <1>6, OthersKeep

LEMMA StartFailsKeeps == ASSUME ExecInv, NEW i \in Incarnations, StartFails(i) PROVE ExecInv'
<1>1. ProcessTypes /\ CommandOK(i)
    BY Zenon, ProcessTyped
<1>2. /\ command[i] = "starting" /\ command' = [command EXCEPT ![i] = "done"] /\ readers' = readers
      /\ AppendEvent(i, "error") /\ cancelled' = cancelled
      /\ UNCHANGED manager /\ UNCHANGED serving /\ UNCHANGED proxy /\ faults' = faults
    BY Zenon DEF StartFails
<1>3. ProcessTypes'
    BY Zenon, <1>1, <1>2 DEF ProcessTypes
<1>4. command'[i] = "done" /\ \A j \in Incarnations : j # i => command'[j] = command[j] /\ readers'[j] = readers[j]
    BY Zenon, <1>1, <1>2 DEF ProcessTypes
<1>5. ~completed[i] /\ readers[i] = {} /\ command[i] # "none"
    BY Zenon, <1>1, <1>2 DEF CommandOK
<1>6. "error" \in Types
    BY Zenon DEF Types
<1>7. QED
    BY Zenon, <1>2, <1>3, <1>4, <1>5, <1>6, AppendStepKeeps

LEMMA OutputKeeps == ASSUME ExecInv, NEW i \in Incarnations, Output(i) PROVE ExecInv'
<1>1. ProcessTypes /\ CommandOK(i)
    BY Zenon, ProcessTyped
<1>2. /\ readers[i] # {} /\ command[i] # "lost" /\ command' = command /\ readers' = readers /\ cancelled' = cancelled
      /\ AppendEvent(i, "output") /\ OutputLeft(i)
      /\ UNCHANGED manager /\ UNCHANGED serving /\ UNCHANGED proxy /\ faults' = faults
    BY Zenon DEF Output, process
<1>3. ProcessTypes'
    BY Zenon, <1>1, <1>2 DEF ProcessTypes
<1>4. ~completed[i] /\ command[i] \notin {"none", "starting", "done"}
    BY Zenon, <1>1, <1>2 DEF CommandOK
<1>5. "output" \in Types /\ ~IsTerminal("output")
    BY Zenon DEF Types, IsTerminal
<1>6. nextSeq[i] <= MaxOutput
    BY Zenon, <1>2, <1>4 DEF OutputLeft
<1>7. QED
    BY Zenon, <1>2, <1>3, <1>4, <1>5, <1>6, AppendStepKeeps

LEMMA FinishKeeps == ASSUME ExecInv, NEW i \in Incarnations, Finish(i) PROVE ExecInv'
<1>1. ProcessTypes /\ CommandOK(i)
    BY Zenon, ProcessTyped
<1>2. /\ command[i] = "exited" /\ readers[i] = {} /\ command' = [command EXCEPT ![i] = "done"] /\ readers' = readers
      /\ AppendEvent(i, "exit") /\ cancelled' = cancelled
      /\ UNCHANGED manager /\ UNCHANGED serving /\ UNCHANGED proxy /\ faults' = faults
    BY Zenon DEF Finish, Drained
<1>3. ProcessTypes'
    BY Zenon, <1>1, <1>2 DEF ProcessTypes
<1>4. command'[i] = "done" /\ \A j \in Incarnations : j # i => command'[j] = command[j] /\ readers'[j] = readers[j]
    BY Zenon, <1>1, <1>2 DEF ProcessTypes
<1>5. ~completed[i] /\ command[i] # "none"
    BY Zenon, <1>1, <1>2 DEF CommandOK
<1>6. "exit" \in Types
    BY Zenon DEF Types
<1>7. QED
    BY Zenon, <1>2, <1>3, <1>4, <1>5, <1>6, AppendStepKeeps

\* Everything about the manager and the executions that GetOrCreate keeps.
Managed ==
    /\ ManagerTypes' /\ BufferTypes' /\ ProcessTypes' /\ Later /\ ManagerOK'
    /\ \A i \in Incarnations : BufferOK(i)' /\ CommandOK(i)'

LEMMA CreateKeeps ==
    ASSUME ExecInv, executions = 0, Create, faults' = faults
    PROVE  Managed /\ executions' # 0
<1>1. BufferTypes /\ ProcessTypes /\ ManagerTypes /\ ManagerOK /\ \A j \in Incarnations : BufferOK(j) /\ CommandOK(j)
    BY Zenon, TypesSplit DEF ExecInv
<1>2. PICK i : i = created + 1
    BY Zenon
<1>3. /\ created < MaxIncarnations /\ created' = i /\ executions' = i /\ command' = [command EXCEPT ![i] = "starting"]
      /\ AppendEvent(i, "started") /\ removed' = removed /\ cancelled' = cancelled /\ readers' = readers
    BY Zenon, <1>2 DEF Create
<1>4. created \in Nat /\ faults \in Nat /\ MaxIncarnations \in Nat
    BY Zenon, Numbers DEF ExecInv
<1>5. /\ i \in Incarnations /\ i # 0 /\ i > created /\ created <= i /\ faults <= faults /\ i \in 0 .. MaxIncarnations /\ i <= i
      /\ ~(i > i) /\ created + 1 = i /\ (created = 0 => i <= 1)
    BY SMT, <1>2, <1>3, <1>4 DEF Incarnations
<1>6. command[i] = "none" /\ nextSeq[i] = 0 /\ readers[i] = {}
    BY Zenon, <1>1, <1>5 DEF CommandOK
<1>7. Len(log[i]) = 0 /\ ~completed[i]
    BY Zenon, <1>1, <1>5, <1>6 DEF BufferOK, LogOK, EndOK
<1>8. "started" \in Types /\ ~IsTerminal("started")
    BY Zenon DEF Types, IsTerminal
<1>9. /\ BufferTypes' /\ \A j \in Incarnations : BufferOK(j)' /\ Grows(j)
      /\ completed'[i] <=> IsTerminal("started")
      /\ nextSeq'[i] # 0
    BY Zenon, <1>1, <1>3, <1>5, <1>7, <1>8, AppendKeeps
<1>10. ManagerTypes'
    BY Zenon, <1>1, <1>3, <1>5 DEF ManagerTypes
<1>11. ProcessTypes'
    BY Zenon, <1>1, <1>3 DEF ProcessTypes
<1>12. ManagerOK'
    BY Zenon, <1>1, <1>3, <1>5 DEF ManagerOK
<1>13. Later
    BY Zenon, <1>3, <1>5, <1>9 DEF Later
<1>14. ASSUME NEW j \in Incarnations PROVE CommandOK(j)'
    <2>1. CASE j = i
        <3>1. command'[i] = "starting"
            BY Zenon, <1>1, <1>3, <1>5 DEF ProcessTypes
        <3>2. QED
            BY Zenon, <1>3, <1>5, <1>6, <1>8, <1>9, <2>1, <3>1 DEF CommandOK
    <2>2. CASE j # i
        <3>1. completed'[j] = completed[j] /\ nextSeq'[j] = nextSeq[j]
            BY Zenon, <1>1, <1>3, <1>5, <1>14, <2>2, AppendElsewhere DEF BufferSame
        <3>2. command'[j] = command[j] /\ readers'[j] = readers[j]
            BY Zenon, <1>1, <1>3, <1>5, <1>14, <2>2 DEF ProcessTypes
        <3>3. j \in Nat
            BY Zenon, <1>14, Numbers DEF ExecInv
        <3>4. j > created <=> j > i
            BY SMT, <1>2, <1>4, <2>2, <3>3
        <3>5. QED
            BY Zenon, <1>1, <1>3, <1>14, <3>1, <3>2, <3>4 DEF CommandOK
    <2>3. QED
        BY Zenon, <2>1, <2>2
<1>15. QED
    BY Zenon, <1>3, <1>5, <1>9, <1>10, <1>11, <1>12, <1>13, <1>14 DEF Managed

LEMMA GetOrCreateKeeps ==
    ASSUME ExecInv, GetOrCreate, faults' = faults
    PROVE  Managed /\ executions' # 0
<1>1. CASE executions = 0
    BY Zenon, <1>1, CreateKeeps DEF GetOrCreate
<1>2. CASE executions # 0
    <2>1. UNCHANGED manager /\ UNCHANGED buffer /\ UNCHANGED process
        BY Zenon, <1>2 DEF GetOrCreate
    <2>2. BufferTypes' /\ \A j \in Incarnations : BufferOK(j)' /\ Grows(j) /\ completed'[j] = completed[j] /\ nextSeq'[j] = nextSeq[j]
        BY Zenon, <2>1, BufferUnchanged
    <2>3. /\ ManagerTypes' /\ ManagerOK' /\ created' = created
          /\ created <= created' /\ removed \subseteq removed' /\ faults' <= faults
        BY Zenon, <2>1, ManagerUnchanged
    <2>4. ProcessTypes /\ \A i \in Incarnations : CommandOK(i)
        BY Zenon, ProcessTyped
    <2>5. command' = command /\ readers' = readers /\ cancelled' = cancelled /\ executions' = executions
        BY Zenon, <2>1 DEF process, manager
    <2>6. ProcessTypes'
        BY Zenon, <2>4, <2>5 DEF ProcessTypes
    <2>7. \A i \in Incarnations : CommandOK(i)'
        BY Zenon, <2>2, <2>3, <2>4, <2>5 DEF CommandOK
    <2>8. Later
        BY Zenon, <2>2, <2>3 DEF Later
    <2>9. QED
        BY Zenon, <1>2, <2>2, <2>3, <2>5, <2>6, <2>7, <2>8 DEF Managed
<1>3. QED
    BY Zenon, <1>1, <1>2

LEMMA PostElsewhereKeeps == ASSUME ExecInv, PostElsewhere PROVE ExecInv'
<1>1. GetOrCreate /\ UNCHANGED serving /\ UNCHANGED proxy /\ faults' = faults
    BY Zenon DEF PostElsewhere
<1>2. Managed
    BY Zenon, <1>1, GetOrCreateKeeps
<1>3. QED
    BY Zenon, <1>1, <1>2, OthersKeep DEF Managed

\* The id is free again: nothing else about the executions changes.
LEMMA ForgetKeeps ==
    ASSUME ExecInv, executions # 0, removed' = removed \cup {executions}, executions' = 0, created' = created,
           UNCHANGED buffer, UNCHANGED serving, UNCHANGED proxy, faults' = faults, ProcessTypes',
           command' = command, readers' = readers
    PROVE  ExecInv'
<1>1. BufferTypes' /\ \A j \in Incarnations : BufferOK(j)' /\ Grows(j) /\ completed'[j] = completed[j] /\ nextSeq'[j] = nextSeq[j]
    BY Zenon, BufferUnchanged
<1>2. ManagerTypes /\ \A i \in Incarnations : CommandOK(i)
    BY Zenon, TypesSplit DEF ExecInv
<1>3. created \in Nat /\ executions \in Nat /\ faults \in Nat /\ MaxIncarnations \in Nat
    BY Zenon, Numbers DEF ExecInv
<1>4. executions \in Incarnations /\ 0 \in 0 .. MaxIncarnations /\ 0 <= created /\ created <= created /\ faults <= faults
    <2>1. executions \in 0 .. MaxIncarnations
        BY Zenon, <1>2 DEF ManagerTypes
    <2>2. QED
        BY SMT, <1>3, <2>1 DEF Incarnations
<1>5. ManagerTypes'
    BY Zenon, <1>2, <1>4 DEF ManagerTypes
<1>6. ManagerOK'
    BY Zenon, <1>4 DEF ManagerOK
<1>7. Later
    BY Zenon, <1>1, <1>4 DEF Later
<1>8. \A i \in Incarnations : CommandOK(i)'
    BY Zenon, <1>1, <1>2 DEF CommandOK
<1>9. QED
    BY Zenon, <1>1, <1>5, <1>6, <1>7, <1>8, OthersKeep

LEMMA DeleteKeeps == ASSUME ExecInv, Delete PROVE ExecInv'
<1>1. ProcessTypes
    BY Zenon, ProcessTyped
<1>2. /\ executions # 0 /\ cancelled' = [cancelled EXCEPT ![executions] = TRUE]
      /\ removed' = removed \cup {executions} /\ executions' = 0 /\ created' = created
      /\ UNCHANGED buffer /\ UNCHANGED serving /\ UNCHANGED proxy /\ faults' = faults
      /\ command' = command /\ readers' = readers
    BY Zenon DEF Delete
<1>3. ProcessTypes'
    BY Zenon, <1>1, <1>2 DEF ProcessTypes
<1>4. QED
    BY Zenon, <1>2, <1>3, ForgetKeeps

LEMMA CollectKeeps == ASSUME ExecInv, Collect PROVE ExecInv'
<1>1. ProcessTypes
    BY Zenon, ProcessTyped
<1>2. /\ executions # 0 /\ removed' = removed \cup {executions} /\ executions' = 0 /\ created' = created
      /\ UNCHANGED buffer /\ UNCHANGED serving /\ UNCHANGED proxy /\ faults' = faults
      /\ command' = command /\ readers' = readers /\ cancelled' = cancelled
    BY Zenon DEF Collect, process
<1>3. ProcessTypes'
    BY Zenon, <1>1, <1>2 DEF ProcessTypes
<1>4. QED
    BY Zenon, <1>2, <1>3, ForgetKeeps

LEMMA DaemonLostKeeps == ASSUME ExecInv, DaemonLost PROVE ExecInv'
<1>1. TypeOK /\ BufferTypes /\ ProcessTypes /\ ManagerTypes /\ ServingTypes /\ ProxyTypes
    BY Zenon, TypesSplit DEF ExecInv
<1>2. /\ faults > 0 /\ faults' = faults - 1 /\ created > 0 /\ removed' = removed \cup 1 .. created /\ executions' = 0
      /\ command' = [i \in Incarnations |-> IF i <= created THEN "lost" ELSE command[i]]
      /\ pc' = [s \in Streams |-> IF pc[s] = "stream" THEN Cut(s) ELSE pc[s]]
      /\ handler' = [s \in Streams |-> "none"] /\ wire' = [s \in Streams |-> <<>>]
      /\ created' = created /\ UNCHANGED buffer /\ cancelled' = cancelled /\ readers' = readers
      /\ incarnation' = incarnation /\ after' = after /\ notify' = notify
      /\ attempt' = attempt /\ lastSeq' = lastSeq /\ seen' = seen
    BY Zenon DEF DaemonLost
<1>3. BufferTypes' /\ \A j \in Incarnations : BufferOK(j)' /\ Grows(j) /\ completed'[j] = completed[j] /\ nextSeq'[j] = nextSeq[j]
    BY Zenon, <1>2, BufferUnchanged
<1>4. created \in Nat /\ faults \in Nat /\ faults <= MaxFaults /\ MaxFaults \in Nat /\ MaxIncarnations \in Nat /\ created <= MaxIncarnations
    BY Zenon, <1>1, Numbers
<1>5. /\ faults' \in 0 .. MaxFaults /\ 0 \in 0 .. MaxIncarnations /\ 0 <= created /\ 1 \in 1 .. created
      /\ \A k \in 1 .. created : k \in Incarnations
    BY SMT, <1>2, <1>4 DEF Incarnations
<1>6. removed' # {}
    BY Zenon, <1>2, <1>5
<1>7. ManagerTypes'
    BY Zenon, <1>1, <1>2, <1>5 DEF ManagerTypes
<1>8. ManagerOK'
    BY Zenon, <1>2, <1>5, <1>6 DEF ManagerOK
<1>9. ProcessTypes'
    BY Zenon, <1>1, <1>2 DEF ProcessTypes
<1>10. ServingTypes'
    <2>1. <<>> \in Seq(Event)
        BY SMT
    <2>2. QED
        BY Zenon, <1>1, <1>2, <2>1 DEF ServingTypes
<1>11. \A s \in Streams : Cut(s) \in {"refused", "backoff"}
    BY Zenon DEF Cut
<1>12. ProxyTypes'
    BY Zenon, <1>1, <1>2, <1>11 DEF ProxyTypes
<1>13. TypeOK'
    BY Zenon, <1>3, <1>7, <1>9, <1>10, <1>12 DEF TypeOK, ManagerTypes, BufferTypes, ProcessTypes, ServingTypes, ProxyTypes
<1>14. ASSUME NEW i \in Incarnations PROVE CommandOK(i)'
    <2>1. CommandOK(i)
        BY Zenon, <1>14 DEF ExecInv
    <2>2. i \in Nat
        BY Zenon, <1>1, <1>14, Numbers
    <2>3. i <= created <=> ~(i > created)
        BY SMT, <1>4, <2>2
    <2>4. CASE i <= created
        <3>1. command'[i] = "lost"
            BY Zenon, <1>2, <1>14, <2>4
        <3>2. QED
            BY Zenon, <1>2, <1>3, <1>14, <2>1, <2>3, <2>4, <3>1 DEF CommandOK
    <2>5. CASE ~(i <= created)
        <3>1. command'[i] = command[i]
            BY Zenon, <1>2, <1>14, <2>5
        <3>2. QED
            BY Zenon, <1>2, <1>3, <1>14, <2>1, <3>1 DEF CommandOK
    <2>6. QED
        BY Zenon, <2>4, <2>5
<1>15. ASSUME NEW s \in Streams PROVE StreamOK(s)' /\ PrefixOK(s)' /\ RetryOK(s)'
    <2>1. StreamOK(s)
        BY Zenon, <1>15 DEF ExecInv
    <2>2. handler'[s] = "none" /\ wire'[s] = <<>> /\ pc'[s] = IF pc[s] = "stream" THEN Cut(s) ELSE pc[s]
        BY Zenon, <1>2, <1>15
    <2>3. SeenOK(s)'
        BY Zenon, <1>2, <2>1 DEF StreamOK, SeenOK
    <2>4. pc'[s] # "stream" /\ (pc'[s] = "idle" <=> pc[s] = "idle") /\ (pc'[s] = "backoff" => pc[s] \in {"stream", "backoff"})
        BY Zenon, <1>11, <1>15, <2>2
    <2>5. PhaseOK(s)'
        BY Zenon, <1>2, <2>1, <2>2, <2>4 DEF StreamOK, PhaseOK
    <2>6. WireOK(s)'
        <3>1. \A k : k \notin 1 .. 0
            BY SMT
        <3>2. QED
            BY Zenon, <2>2, <2>4, <3>1, EmptyLength DEF WireOK
    <2>7. OpenOK(s)'
        BY Zenon, <1>2, <2>1, <2>4 DEF StreamOK, OpenOK
    <2>8. PrefixOK(s)' /\ RetryOK(s)'
        BY Zenon, <1>6 DEF PrefixOK, RetryOK, Whole
    <2>9. QED
        BY Zenon, <2>3, <2>5, <2>6, <2>7, <2>8 DEF StreamOK
<1>16. QED
    BY Zenon, <1>3, <1>8, <1>13, <1>14, <1>15 DEF ExecInv

\* A call is accepted, on a new execution or one that has events already.
LEMMA PostKeeps == ASSUME ExecInv, NEW s \in Streams, Post(s) PROVE ExecInv'
<1>1. ServingTypes /\ ProxyTypes /\ TypeOK
    BY Zenon, StreamTyped DEF ExecInv
<1>2. PICK i : i = executions'
    BY Zenon
<1>3. /\ pc[s] = "idle" /\ pc' = [pc EXCEPT ![s] = "stream"] /\ GetOrCreate
      /\ handler' = [handler EXCEPT ![s] = "preflight"] /\ incarnation' = [incarnation EXCEPT ![s] = i]
      /\ after' = [after EXCEPT ![s] = Nil] /\ notify' = notify /\ wire' = wire
      /\ attempt' = attempt /\ lastSeq' = lastSeq /\ seen' = seen /\ faults' = faults
    BY Zenon, <1>2 DEF Post, Serve
<1>4. Managed /\ i # 0
    BY Zenon, <1>2, <1>3, GetOrCreateKeeps
<1>5. i \in 0 .. MaxIncarnations /\ i <= created'
    BY Zenon, <1>2, <1>4 DEF Managed, ManagerTypes, ManagerOK
<1>6. ServingTypes'
    BY Zenon, <1>1, <1>3, <1>5 DEF ServingTypes
<1>7. ProxyTypes'
    BY Zenon, <1>1, <1>3 DEF ProxyTypes
<1>8. TypeOK' /\ Later
    BY Zenon, <1>4, <1>6, <1>7 DEF Managed, TypeOK, ManagerTypes, BufferTypes, ProcessTypes, ServingTypes, ProxyTypes
<1>9. ASSUME NEW u \in Streams, u # s PROVE StreamOK(u)' /\ PrefixOK(u)' /\ RetryOK(u)'
    <2>1. handler'[u] = handler[u] /\ incarnation'[u] = incarnation[u] /\ after'[u] = after[u] /\ pc'[u] = pc[u]
        BY Zenon, <1>1, <1>3, <1>9 DEF ServingTypes, ProxyTypes
    <2>2. StreamSame(u)
        BY Zenon, <1>3, <2>1 DEF StreamSame
    <2>3. StreamOK(u) /\ PrefixOK(u) /\ RetryOK(u)
        BY Zenon, <1>9 DEF ExecInv
    <2>4. QED
        BY Zenon, <1>1, <1>8, <1>9, <2>2, <2>3, StreamKept, PrefixKept, RetryKept
<1>10. StreamOK(s)
    BY Zenon DEF ExecInv
<1>11. handler'[s] = "preflight" /\ incarnation'[s] = i /\ after'[s] = Nil /\ pc'[s] = "stream"
    BY Zenon, <1>1, <1>3 DEF ServingTypes, ProxyTypes
<1>12. seen'[s] = <<>> /\ attempt'[s] = 0 /\ wire'[s] = <<>> /\ lastSeq'[s] = Before(Len(seen'[s]))
    BY Zenon, <1>3, <1>10 DEF StreamOK, PhaseOK, SeenOK
<1>13. Len(seen'[s]) = 0 /\ Len(wire'[s]) = 0
    BY Zenon, <1>12, EmptyLength
<1>14. (\A k : k \notin 1 .. 0) /\ 0 + 0 = 0
    BY SMT
<1>15. StreamOK(s)'
    <2>1. SeenOK(s)' /\ OpenOK(s)'
        BY Zenon, <1>12, <1>13, <1>14 DEF SeenOK, OpenOK
    <2>2. PhaseOK(s)'
        BY Zenon, <1>4, <1>5, <1>11, <1>12 DEF PhaseOK
    <2>3. Before(Len(seen'[s]) + Len(wire'[s])) = Nil
        BY Zenon, <1>13, <1>14 DEF Before
    <2>4. WireOK(s)'
        BY Zenon, <1>11, <1>13, <1>14, <2>3 DEF WireOK
    <2>5. QED
        BY Zenon, <2>1, <2>2, <2>4 DEF StreamOK
<1>16. PrefixOK(s)'
    BY Zenon, <1>13, <1>14 DEF PrefixOK
<1>17. RetryOK(s)'
    <2>1. faults \in Nat /\ MaxFaults \in Nat /\ faults <= MaxFaults
        BY Zenon, <1>1, Numbers
    <2>2. 0 + 0 <= MaxFaults - faults
        BY SMT, <2>1
    <2>3. QED
        BY Zenon, <1>3, <1>11, <1>12, <2>2 DEF RetryOK
<1>18. QED
    BY Zenon, <1>4, <1>8, <1>9, <1>15, <1>16, <1>17 DEF ExecInv, Managed

LEMMA StutterKeeps == ASSUME ExecInv, UNCHANGED vars PROVE ExecInv'
<1>1. /\ UNCHANGED manager /\ UNCHANGED buffer /\ UNCHANGED process /\ UNCHANGED serving /\ UNCHANGED proxy
      /\ faults' = faults
    BY Zenon DEF vars
<1>2. BufferTypes' /\ \A j \in Incarnations : BufferOK(j)' /\ Grows(j) /\ completed'[j] = completed[j] /\ nextSeq'[j] = nextSeq[j]
    BY Zenon, <1>1, BufferUnchanged
<1>3. /\ ManagerTypes' /\ ManagerOK' /\ created' = created
      /\ created <= created' /\ removed \subseteq removed' /\ faults' <= faults
    BY Zenon, <1>1, ManagerUnchanged
<1>4. ProcessTypes /\ \A i \in Incarnations : CommandOK(i)
    BY Zenon, ProcessTyped
<1>5. command' = command /\ readers' = readers /\ cancelled' = cancelled
    BY Zenon, <1>1 DEF process
<1>6. ProcessTypes' /\ \A i \in Incarnations : CommandOK(i)'
    BY Zenon, <1>2, <1>3, <1>4, <1>5 DEF ProcessTypes, CommandOK
<1>7. QED
    BY Zenon, <1>1, <1>2, <1>3, <1>6, OthersKeep DEF Later

LEMMA ExecInvInductive == ASSUME ExecInv, [Next]_vars PROVE ExecInv'
<1>1. CASE PostElsewhere
    BY Zenon, <1>1, PostElsewhereKeeps
<1>2. CASE Delete
    BY Zenon, <1>2, DeleteKeeps
<1>3. CASE Collect
    BY Zenon, <1>3, CollectKeeps
<1>4. CASE DaemonLost
    BY Zenon, <1>4, DaemonLostKeeps
<1>5. ASSUME NEW i \in Incarnations, HandleExec(i) \/ Output(i) \/ Timeout(i) \/ Exit(i) PROVE ExecInv'
    <2>1. CASE HandleExec(i)
        BY Zenon, <1>5, <2>1, StartKeeps, StartFailsKeeps, FinishKeeps, ReaderDoneKeeps DEF HandleExec
    <2>2. QED
        BY Zenon, <1>5, <2>1, OutputKeeps, TimeoutKeeps, ExitKeeps
<1>6. ASSUME NEW s \in Streams, Post(s) \/ Daemon(s) \/ Proxy(s) \/ Drop(s) \/ CallerLeaves(s) PROVE ExecInv'
    <2>1. CASE Daemon(s)
        BY Zenon, <1>6, <2>1, PreflightKeeps, FollowKeeps, WakeKeeps DEF Daemon
    <2>2. CASE Resume(s)
        BY Zenon, <1>6, <2>2, ResumeExhausted, ResumeMissing, ResumeServed
    <2>3. CASE Forward(s)
        BY Zenon, <1>6, <2>3, ForwardLast, ForwardMore
    <2>4. CASE EndOfBody(s)
        BY Zenon, <1>6, <2>4, EndOfBodyKeeps
    <2>5. QED
        BY Zenon, <1>6, <2>1, <2>2, <2>3, <2>4, PostKeeps, DropKeeps, CallerLeavesKeeps DEF Proxy
<1>7. QED
    BY Zenon, <1>1, <1>2, <1>3, <1>4, <1>5, <1>6, StutterKeeps DEF Next

LEMMA ExecInitHolds == ASSUME Init PROVE ExecInv
<1>1. /\ executions = 0 /\ created = 0 /\ removed = {} /\ faults = MaxFaults
      /\ MaxFaults \in Nat /\ MaxIncarnations \in Nat /\ MaxOutput \in Nat /\ ExecMaxRetries \in Nat
    BY Zenon, ExecutionsAssumption DEF Init
<1>2. /\ 0 \in 0 .. MaxIncarnations /\ MaxFaults \in 0 .. MaxFaults /\ 0 \in Seqs /\ 0 \in 0 .. MaxOutput + 2
      /\ 0 \in 0 .. ExecMaxRetries /\ <<>> \in Seq(Event) /\ 0 <= 0 /\ 0 <= 1 /\ 0 <= MaxOutput /\ 0 + 0 <= MaxFaults - MaxFaults
      /\ 0 - 0 = 0 /\ 0 + 0 = 0 /\ 0 <= 0 + 1 /\ \A i \in Incarnations : i > 0
    BY SMT, <1>1 DEF Seqs, Incarnations
<1>3. \A k : k \notin 1 .. 0 /\ k \notin 1 .. (0 - 1)
    BY SMT
<1>4. TypeOK
    <2>1. /\ ManagerTypes /\ BufferTypes /\ ProcessTypes
        BY Zenon, <1>1, <1>2 DEF Init, ManagerTypes, BufferTypes, ProcessTypes
    <2>2. ServingTypes /\ ProxyTypes
        BY Zenon, <1>1, <1>2 DEF Init, ServingTypes, ProxyTypes
    <2>3. QED
        BY Zenon, <2>1, <2>2, TypesSplit
<1>5. ManagerOK
    BY Zenon, <1>1, <1>2 DEF ManagerOK
<1>6. ASSUME NEW i \in Incarnations PROVE BufferOK(i) /\ CommandOK(i)
    <2>1. /\ log[i] = <<>> /\ events[i] = <<>> /\ minSeq[i] = 0 /\ nextSeq[i] = 0 /\ completed[i] = FALSE
          /\ command[i] = "none" /\ readers[i] = {}
        BY Zenon, <1>6 DEF Init
    <2>2. Len(log[i]) = 0 /\ Len(events[i]) = 0
        BY Zenon, <2>1, EmptyLength
    <2>3. LogOK(i)
        BY Zenon, <1>2, <1>3, <2>1, <2>2 DEF LogOK, SuffixOf
    <2>4. EndOK(i)
        BY Zenon, <1>3, <2>1, <2>2 DEF EndOK
    <2>5. CountOK(i)
        <3>1. 0 <= MaxOutput + 1
            BY SMT, ExecutionsAssumption
        <3>2. QED
            BY Zenon, <2>1, <2>2, <3>1 DEF CountOK
    <2>6. CommandOK(i)
        BY Zenon, <1>1, <1>2, <1>6, <2>1 DEF CommandOK
    <2>7. QED
        BY Zenon, <2>3, <2>4, <2>5, <2>6 DEF BufferOK
<1>7. ASSUME NEW s \in Streams PROVE StreamOK(s) /\ PrefixOK(s) /\ RetryOK(s)
    <2>1. /\ handler[s] = "none" /\ incarnation[s] = 0 /\ wire[s] = <<>> /\ pc[s] = "idle"
          /\ attempt[s] = 0 /\ lastSeq[s] = Nil /\ seen[s] = <<>>
        BY Zenon, <1>7 DEF Init
    <2>2. Len(wire[s]) = 0 /\ Len(seen[s]) = 0
        BY Zenon, <2>1, EmptyLength
    <2>3. SeenOK(s)
        BY Zenon, <1>3, <2>1, <2>2 DEF SeenOK, Before
    <2>4. PhaseOK(s)
        BY Zenon, <1>1, <1>2, <2>1 DEF PhaseOK
    <2>5. WireOK(s) /\ OpenOK(s)
        BY Zenon, <1>3, <2>1, <2>2 DEF WireOK, OpenOK
    <2>6. PrefixOK(s) /\ RetryOK(s)
        BY Zenon, <2>1 DEF PrefixOK, RetryOK, Whole
    <2>7. QED
        BY Zenon, <2>3, <2>4, <2>5, <2>6 DEF StreamOK
<1>8. QED
    BY Zenon, <1>4, <1>5, <1>6, <1>7 DEF ExecInv

LEMMA ExecInvHolds == Spec => []ExecInv
<1>1. Init => ExecInv
    BY Zenon, ExecInitHolds
<1>2. ExecInv /\ [Next]_vars => ExecInv'
    BY Zenon, ExecInvInductive
<1>3. QED
    BY <1>1, <1>2, PTL DEF Spec

-----------------------------------------------------------------------------
\* The variables keep their types: sequence numbers stay within what the bounds allow,
\* attempts within execMaxRetries.
THEOREM TypeOKHolds == Spec => []TypeOK
<1>1. ExecInv => TypeOK
    BY Zenon DEF ExecInv
<1>2. QED
    BY <1>1, ExecInvHolds, PTL

\* Whatever number a GET resumes from and however much append trimmed since its
\* preflight, the body of the 200 is exactly the events produced after that number, or
\* the error line alone, and then one of those events really is gone.
THEOREM HistoryExactHolds == Spec => []HistoryExact
<1>1. ExecInv => HistoryExact
    <2>1. SUFFICES ASSUME ExecInv, NEW i \in 1 .. created, NEW a \in Afters
          PROVE \/ \E n \in 0 .. Len(log[i]) :
                      /\ GetBody(i, a) = SubSeq(log[i], n + 1, Len(log[i]))
                      /\ \A k \in 1 .. Len(log[i]) : k > n <=> IsDue(i, a, k)
                \/ /\ GetBody(i, a) = ErrorLine
                   /\ \E k \in 1 .. Len(log[i]) :
                         IsDue(i, a, k) /\ \A j \in 1 .. Len(events[i]) : events[i][j] # log[i][k]
        BY Zenon DEF HistoryExact
    <2>2. TypeOK /\ created \in Nat /\ created <= MaxIncarnations /\ MaxIncarnations \in Nat
        BY Zenon, <2>1, Numbers DEF ExecInv
    <2>3. i \in Incarnations
        BY SMT, <2>2 DEF Incarnations
    <2>4. BufferOK(i)
        BY Zenon, <2>1, <2>3 DEF ExecInv
    <2>5. CASE HasHistoryAfter(i, a)
        BY Zenon, <2>2, <2>3, <2>4, <2>5, HistoryExactAt
    <2>6. CASE ~HasHistoryAfter(i, a)
        <3>1. GetBody(i, a) = ErrorLine
            BY Zenon, <2>6 DEF GetBody, Snapshot
        <3>2. QED
            BY Zenon, <2>2, <2>3, <2>4, <2>6, <3>1, RefusedForCause
    <2>7. QED
        BY Zenon, <2>5, <2>6
<1>2. QED
    BY <1>1, ExecInvHolds, PTL

\* Nothing follows the exit or error event of an execution: HandleExec appends it only
\* after both pipe readers are done.
THEOREM TerminalIsLastHolds == Spec => []TerminalIsLast
<1>1. ExecInv => TerminalIsLast
    BY Zenon DEF ExecInv, BufferOK, EndOK, TerminalIsLast
<1>2. QED
    BY <1>1, ExecInvHolds, PTL

\* The manager knows one execution at most, the latest; all others were removed.
LatestInv ==
    /\ executions # 0 => executions = created
    /\ \A i \in 1 .. created : i # executions => i \in removed

\* A stream saw the execution it is attached to, and before that only removed ones.
Attached(s) ==
    \A k \in 1 .. Len(seen[s]) :
        /\ seen[s][k].of <= incarnation[s]
        /\ seen[s][k].of # incarnation[s] => attempt[s] > 0 /\ seen[s][k].of \in removed

\* What was seen later is not of an older execution.
Ordered(s) == \A j, k \in 1 .. Len(seen[s]) : j < k => seen[s][j].of <= seen[s][k].of

TakeoverInv == LatestInv /\ \A s \in Streams : Attached(s) /\ Ordered(s)

LEMMA LatestNext == ASSUME ExecInv, LatestInv, [Next]_vars PROVE LatestInv'
<1>1. created \in Nat /\ executions \in Nat
    BY Zenon, Numbers DEF ExecInv
<1>2. CASE executions = 0 /\ executions' = created + 1 /\ created' = created + 1 /\ removed' = removed
    <2>1. \A i \in 1 .. created + 1 : i \in 1 .. created \/ i = created + 1
        BY SMT, <1>1
    <2>2. \A i \in 1 .. created : i # 0
        BY SMT, <1>1
    <2>3. QED
        BY Zenon, <1>2, <2>1, <2>2 DEF LatestInv
<1>3. CASE UNCHANGED manager
    BY Zenon, <1>3 DEF LatestInv, manager
<1>4. CASE executions # 0 /\ executions' = 0 /\ created' = created /\ removed' = removed \cup {executions}
    BY Zenon, <1>4 DEF LatestInv
<1>5. CASE executions' = 0 /\ created' = created /\ removed' = removed \cup 1 .. created
    BY Zenon, <1>5 DEF LatestInv
<1>6. GetOrCreate => LatestInv'
    <2>1. ASSUME GetOrCreate, executions = 0 PROVE executions' = created + 1 /\ created' = created + 1 /\ removed' = removed
        BY Zenon, <2>1 DEF GetOrCreate, Create
    <2>2. ASSUME GetOrCreate, executions # 0 PROVE UNCHANGED manager
        BY Zenon, <2>2 DEF GetOrCreate
    <2>3. QED
        BY Zenon, <1>2, <1>3, <2>1, <2>2
<1>7. CASE PostElsewhere \/ \E s \in Streams : Post(s)
    BY Zenon, <1>6, <1>7 DEF PostElsewhere, Post
<1>8. CASE Delete \/ Collect
    BY Zenon, <1>4, <1>8 DEF Delete, Collect
<1>9. CASE DaemonLost
    BY Zenon, <1>5, <1>9 DEF DaemonLost
<1>10. ASSUME NEW i \in Incarnations, HandleExec(i) \/ Output(i) \/ Timeout(i) \/ Exit(i) PROVE UNCHANGED manager
    BY Zenon, <1>10 DEF HandleExec, Start, StartFails, Finish, ReaderDone, Output, Timeout, Exit
<1>11. ASSUME NEW s \in Streams, Daemon(s) \/ Proxy(s) \/ Drop(s) \/ CallerLeaves(s) PROVE UNCHANGED manager
    BY Zenon, <1>11 DEF Daemon, Preflight, Follow, Wake, Proxy, Resume, Forward, EndOfBody, Drop, CallerLeaves
<1>12. CASE UNCHANGED vars
    BY Zenon, <1>3, <1>12 DEF vars
<1>13. QED
    BY Zenon, <1>3, <1>7, <1>8, <1>9, <1>10, <1>11, <1>12 DEF Next

\* What a step may do to a stream: nothing of interest here, attach it for the first
\* time, resume it, or forward one event to its caller.
Untouched(s) ==
    seen'[s] = seen[s] /\ incarnation'[s] = incarnation[s] /\ attempt'[s] = attempt[s]
Begins(s) == seen'[s] = <<>>
Resumes(s) ==
    /\ seen'[s] = seen[s] /\ attempt'[s] = attempt[s] + 1 /\ incarnation[s] # 0
    /\ \/ incarnation'[s] = incarnation[s]
       \/ executions # 0 /\ incarnation'[s] = executions
Forwards(s) ==
    /\ incarnation'[s] = incarnation[s] /\ attempt'[s] = attempt[s]
    /\ \E e \in Event : e.of = incarnation[s] /\ seen'[s] = Append(seen[s], e)

LEMMA StreamMoves ==
    ASSUME ExecInv, [Next]_vars, NEW s \in Streams
    PROVE  removed \subseteq removed' /\ (Untouched(s) \/ Begins(s) \/ Resumes(s) \/ Forwards(s))
<1>1. /\ incarnation \in [Streams -> 0 .. MaxIncarnations] /\ seen \in [Streams -> Seq(Event)]
      /\ attempt \in [Streams -> 0 .. ExecMaxRetries]
    BY Zenon DEF ExecInv, TypeOK
<1>2. CASE seen' = seen /\ incarnation' = incarnation /\ attempt' = attempt /\ removed \subseteq removed'
    BY Zenon, <1>2 DEF Untouched
<1>3. CASE PostElsewhere
    <2>1. UNCHANGED serving /\ UNCHANGED proxy /\ removed' = removed
        BY Zenon, <1>3 DEF PostElsewhere, GetOrCreate, Create, manager
    <2>2. QED
        BY Zenon, <1>2, <2>1 DEF serving, proxy
<1>4. CASE Delete \/ Collect
    BY Zenon, <1>2, <1>4 DEF Delete, Collect, serving, proxy
<1>5. CASE DaemonLost
    BY Zenon, <1>2, <1>5 DEF DaemonLost
<1>6. ASSUME NEW i \in Incarnations, HandleExec(i) \/ Output(i) \/ Timeout(i) \/ Exit(i)
      PROVE  UNCHANGED serving /\ UNCHANGED proxy /\ UNCHANGED manager
    BY Zenon, <1>6 DEF HandleExec, Start, StartFails, Finish, ReaderDone, Output, Timeout, Exit
<1>7. CASE \E i \in Incarnations : HandleExec(i) \/ Output(i) \/ Timeout(i) \/ Exit(i)
    BY Zenon, <1>2, <1>6, <1>7 DEF serving, proxy, manager
<1>8. ASSUME NEW u \in Streams, Post(u)
      PROVE  removed \subseteq removed' /\ (Untouched(s) \/ Begins(s))
    <2>1. /\ seen' = seen /\ attempt' = attempt /\ removed' = removed /\ pc[u] = "idle"
          /\ incarnation' = [incarnation EXCEPT ![u] = executions']
        BY Zenon, <1>8 DEF Post, GetOrCreate, Create, Serve, manager
    <2>2. seen[u] = <<>>
        BY Zenon, <1>8, <2>1 DEF ExecInv, StreamOK, PhaseOK
    <2>3. QED
        BY Zenon, <1>1, <2>1, <2>2 DEF Untouched, Begins
<1>9. ASSUME NEW u \in Streams, Daemon(u) \/ EndOfBody(u) \/ Drop(u) \/ CallerLeaves(u)
      PROVE  seen' = seen /\ incarnation' = incarnation /\ attempt' = attempt /\ removed' = removed
    BY Zenon, <1>9 DEF Daemon, Preflight, Follow, Wake, EndOfBody, Drop, CallerLeaves, Hangs, proxy, manager
<1>10. ASSUME NEW u \in Streams, Resume(u)
       PROVE  removed \subseteq removed' /\ (Untouched(s) \/ Resumes(s))
    <2>1. seen' = seen /\ removed' = removed /\ pc[u] = "backoff"
        BY Zenon, <1>10 DEF Resume, manager
    <2>2. \/ attempt' = attempt /\ incarnation' = incarnation
          \/ /\ attempt' = [attempt EXCEPT ![u] = attempt[u] + 1]
             /\ \/ incarnation' = incarnation
                \/ executions # 0 /\ incarnation' = [incarnation EXCEPT ![u] = executions]
        BY Zenon, <1>10 DEF Resume, Serve, serving
    <2>3. incarnation[u] # 0
        BY Zenon, <1>10, <2>1 DEF ExecInv, StreamOK, PhaseOK
    <2>4. QED
        BY Zenon, <1>1, <2>1, <2>2, <2>3 DEF Untouched, Resumes
<1>11. ASSUME NEW u \in Streams, Forward(u)
       PROVE  removed \subseteq removed' /\ (Untouched(s) \/ Forwards(s))
    <2>1. /\ incarnation' = incarnation /\ attempt' = attempt /\ removed' = removed /\ wire[u] # <<>>
          /\ seen' = [seen EXCEPT ![u] = Append(seen[u], Head(wire[u]))]
        BY Zenon, <1>11 DEF Forward, Hangs, manager
    <2>2. Head(wire[u]) \in Event /\ Head(wire[u]).of = incarnation[u]
        BY Zenon, <1>11, <2>1, NextLine
    <2>3. QED
        BY Zenon, <1>1, <2>1, <2>2 DEF Untouched, Forwards
<1>12. CASE UNCHANGED vars
    BY Zenon, <1>2, <1>12 DEF vars, manager, serving, proxy
<1>13. QED
    BY Zenon, <1>2, <1>3, <1>4, <1>5, <1>7, <1>8, <1>9, <1>10, <1>11, <1>12 DEF Next, Proxy

LEMMA SeenTypes ==
    ASSUME ExecInv, NEW s \in Streams
    PROVE  /\ seen[s] \in Seq(Event) /\ Len(seen[s]) \in Nat /\ attempt[s] \in Nat
           /\ incarnation[s] \in Nat /\ incarnation[s] <= created /\ created \in Nat
           /\ \A k \in 1 .. Len(seen[s]) : seen[s][k].of \in Nat
<1>1. /\ seen[s] \in Seq(Event) /\ Len(seen[s]) \in Nat /\ attempt[s] \in Nat
      /\ incarnation[s] \in Nat /\ incarnation[s] <= created /\ created \in Nat
    BY Zenon, Numbers DEF ExecInv, TypeOK, StreamOK, PhaseOK
<1>2. \A x \in 1 .. created : x \in Nat
    BY SMT, <1>1
<1>3. QED
    BY Zenon, <1>1, <1>2 DEF ExecInv, StreamOK, SeenOK

LEMMA ResumesKeeps ==
    ASSUME ExecInv, LatestInv, NEW s \in Streams, Attached(s), Ordered(s), Resumes(s), removed \subseteq removed'
    PROVE  Attached(s)' /\ Ordered(s)'
<1>1. PICK c : c = incarnation[s]
    BY Zenon
<1>2. /\ attempt[s] \in Nat /\ c \in Nat /\ c # 0 /\ c <= created /\ created \in Nat
      /\ \A k \in 1 .. Len(seen[s]) : seen[s][k].of \in Nat
    BY Zenon, <1>1, SeenTypes DEF Resumes
<1>3. c \in 1 .. created /\ attempt[s] + 1 > 0
    BY SMT, <1>2
<1>4. seen'[s] = seen[s] /\ attempt'[s] = attempt[s] + 1
    BY Zenon DEF Resumes
<1>5. Ordered(s)'
    BY Zenon, <1>4 DEF Ordered
<1>6. CASE incarnation'[s] = c
    BY Zenon, <1>1, <1>3, <1>4, <1>5, <1>6 DEF Attached
<1>7. CASE executions # 0 /\ incarnation'[s] = executions /\ executions # c
    <2>1. executions = created /\ c \in removed
        BY Zenon, <1>3, <1>7 DEF LatestInv
    <2>2. ASSUME NEW k \in 1 .. Len(seen[s]) PROVE seen[s][k].of <= executions /\ seen[s][k].of \in removed
        <3>1. seen[s][k].of <= c /\ seen[s][k].of \in Nat /\ (seen[s][k].of # c => seen[s][k].of \in removed)
            BY Zenon, <1>1, <1>2, <2>2 DEF Attached
        <3>2. seen[s][k].of <= created
            BY SMT, <1>2, <3>1
        <3>3. QED
            BY Zenon, <2>1, <3>1, <3>2
    <2>3. QED
        BY Zenon, <1>3, <1>4, <1>5, <1>7, <2>2 DEF Attached
<1>8. QED
    BY Zenon, <1>1, <1>5, <1>6, <1>7 DEF Resumes

LEMMA ForwardsKeeps ==
    ASSUME ExecInv, NEW s \in Streams, Attached(s), Ordered(s), Forwards(s), removed \subseteq removed'
    PROVE  Attached(s)' /\ Ordered(s)'
<1>1. PICK e \in Event : e.of = incarnation[s] /\ seen'[s] = Append(seen[s], e)
    BY Zenon DEF Forwards
<1>2. PICK q, n : q = seen'[s] /\ n = Len(seen[s])
    BY Zenon
<1>3. seen[s] \in Seq(Event) /\ n \in Nat /\ incarnation[s] \in Nat /\ \A k \in 1 .. n : seen[s][k].of \in Nat
    BY Zenon, <1>2, SeenTypes
<1>4. Len(q) = n + 1 /\ q[n + 1] = e /\ \A k \in 1 .. n : q[k] = seen[s][k]
    <2>1. Longer(q, seen[s], e)
        BY Zenon, <1>1, <1>2, <1>3, AppendFacts
    <2>2. QED
        BY Zenon, <1>2, <2>1 DEF Longer
<1>5. /\ \A k \in 1 .. n + 1 : k \in 1 .. n \/ k = n + 1
      /\ \A j, k \in 1 .. n + 1 : j < k => j \in 1 .. n
      /\ incarnation[s] <= incarnation[s]
    BY SMT, <1>3
<1>6. incarnation'[s] = incarnation[s] /\ attempt'[s] = attempt[s]
    BY Zenon DEF Forwards
<1>7. ASSUME NEW k \in 1 .. n + 1
      PROVE  /\ q[k].of <= incarnation[s]
             /\ q[k].of # incarnation[s] => attempt[s] > 0 /\ q[k].of \in removed
    <2>1. CASE k \in 1 .. n
        <3>1. q[k] = seen[s][k] /\ k \in 1 .. Len(seen[s])
            BY Zenon, <1>2, <1>4, <2>1
        <3>2. QED
            BY Zenon, <3>1 DEF Attached
    <2>2. CASE k = n + 1
        <3>1. q[k].of = incarnation[s]
            BY Zenon, <1>1, <1>4, <2>2
        <3>2. QED
            BY Zenon, <1>5, <3>1
    <2>3. QED
        BY Zenon, <1>5, <1>7, <2>1, <2>2
<1>8. Attached(s)'
    BY Zenon, <1>2, <1>4, <1>6, <1>7 DEF Attached
<1>9. ASSUME NEW j \in 1 .. n + 1, NEW k \in 1 .. n + 1, j < k PROVE q[j].of <= q[k].of
    <2>1. j \in 1 .. n
        BY Zenon, <1>5, <1>9
    <2>2. CASE k \in 1 .. n
        BY Zenon, <1>2, <1>4, <1>9, <2>1, <2>2 DEF Ordered
    <2>3. CASE k = n + 1
        BY Zenon, <1>1, <1>4, <1>7, <2>3
    <2>4. QED
        BY Zenon, <1>5, <2>2, <2>3
<1>10. Ordered(s)'
    BY Zenon, <1>2, <1>4, <1>9 DEF Ordered
<1>11. QED
    BY Zenon, <1>8, <1>10

LEMMA TakeoverNext == ASSUME ExecInv, TakeoverInv, [Next]_vars PROVE TakeoverInv'
<1>1. LatestInv'
    BY Zenon, LatestNext DEF TakeoverInv
<1>2. ASSUME NEW s \in Streams PROVE Attached(s)' /\ Ordered(s)'
    <2>1. Attached(s) /\ Ordered(s) /\ LatestInv
        BY Zenon, <1>2 DEF TakeoverInv
    <2>2. removed \subseteq removed' /\ (Untouched(s) \/ Begins(s) \/ Resumes(s) \/ Forwards(s))
        BY Zenon, <1>2, StreamMoves
    <2>3. CASE Untouched(s)
        BY Zenon, <2>1, <2>2, <2>3 DEF Untouched, Attached, Ordered
    <2>4. CASE Begins(s)
        <3>1. Len(seen'[s]) = 0 /\ \A k : k \notin 1 .. 0
            BY SMT, <2>4 DEF Begins
        <3>2. QED
            BY Zenon, <3>1 DEF Attached, Ordered
    <2>5. QED
        BY Zenon, <1>2, <2>1, <2>2, <2>3, <2>4, ResumesKeeps, ForwardsKeeps
<1>3. QED
    BY Zenon, <1>1, <1>2 DEF TakeoverInv

LEMMA TakeoverInit == ASSUME Init PROVE TakeoverInv
<1>1. executions = 0 /\ created = 0 /\ \A s \in Streams : seen[s] = <<>>
    BY Zenon DEF Init
<1>2. \A k : k \notin 1 .. 0
    BY SMT
<1>3. QED
    BY Zenon, <1>1, <1>2, EmptyLength DEF TakeoverInv, LatestInv, Attached, Ordered

\* GetOrCreate knows one execution under an id at a time: a caller is handed over to
\* another command only by a resume of ExecProxyHandler, only after the one it saw was
\* deleted, collected or lost, and never back.
THEOREM TakeoverAfterRemovalHolds == Spec => []TakeoverAfterRemoval
<1>1. ExecInv /\ TakeoverInv => TakeoverAfterRemoval
    <2>1. SUFFICES ASSUME ExecInv, TakeoverInv, NEW s \in Streams, NEW j \in 1 .. Len(seen[s]),
                          NEW k \in 1 .. Len(seen[s]), j < k, seen[s][j].of # seen[s][k].of
          PROVE  attempt[s] > 0 /\ seen[s][j].of \in removed /\ seen[s][j].of < seen[s][k].of
        BY Zenon DEF TakeoverAfterRemoval
    <2>2. PICK x, y, c : x = seen[s][j].of /\ y = seen[s][k].of /\ c = incarnation[s]
        BY Zenon
    <2>3. x \in Nat /\ y \in Nat /\ c \in Nat
        BY Zenon, <2>1, <2>2, SeenTypes
    <2>4. x <= y /\ y <= c /\ (x # c => attempt[s] > 0 /\ x \in removed)
        BY Zenon, <2>1, <2>2 DEF TakeoverInv, Attached, Ordered
    <2>5. x # y
        BY Zenon, <2>1, <2>2
    <2>6. x < y /\ x # c
        BY SMT, <2>3, <2>4, <2>5
    <2>7. QED
        BY Zenon, <2>2, <2>4, <2>6
<1>2. Init => TakeoverInv
    BY Zenon, TakeoverInit
<1>3. ExecInv /\ TakeoverInv /\ [Next]_vars => TakeoverInv'
    BY Zenon, TakeoverNext
<1>4. QED
    BY <1>1, <1>2, <1>3, ExecInvHolds, PTL DEF Spec

\* ExecProxyHandler gives up on a caller that stays only when more connections broke
\* than execMaxRetries, the buffer was trimmed, or the execution was removed.
THEOREM BodyIsCompleteHolds == Spec => []BodyIsComplete
<1>1. ExecInv => BodyIsComplete
    <2>1. SUFFICES ASSUME ExecInv, NEW s \in Streams, pc[s] = "done", MaxFaults - faults <= ExecMaxRetries,
                          removed = {}, minSeq[incarnation[s]] = 0
          PROVE seen[s] # <<>> /\ IsTerminal(seen[s][Len(seen[s])].type)
        BY Zenon DEF BodyIsComplete
    <2>2. Whole(s)
        BY Zenon, <2>1 DEF ExecInv, StreamOK, PhaseOK, Whole
    <2>3. \/ ExecMaxRetries < MaxFaults - faults
          \/ seen[s] # <<>> /\ IsTerminal(seen[s][Len(seen[s])].type)
        BY Zenon, <2>1, <2>2 DEF ExecInv, RetryOK
    <2>4. MaxFaults \in Nat /\ faults \in Nat /\ ExecMaxRetries \in Nat
        BY Zenon, <2>1, Numbers DEF ExecInv
    <2>5. ~(ExecMaxRetries < MaxFaults - faults)
        BY SMT, <2>1, <2>4
    <2>6. QED
        BY Zenon, <2>3, <2>5
<1>2. QED
    BY <1>1, ExecInvHolds, PTL

-----------------------------------------------------------------------------
\* Daemon and proxy implement the safety part of ExecStream, step by step.

\* The caller sees the same log, body and status.
CallerSame ==
    /\ AttachedLog(Caller)' = AttachedLog(Caller)
    /\ seen'[Caller] = seen[Caller]
    /\ Status(Caller)' = Status(Caller)

StreamStep == [Stream!Next]_(Stream!vars)

LEMMA CallerStutters == ASSUME CallerSame PROVE StreamStep
BY Zenon DEF StreamStep, CallerSame, Stream!vars

LEMMA LogExtended ==
    ASSUME NEW L \in Seq(Event), NEW e
    PROVE  Len(Append(L, e)) = Len(L) + 1 /\ SubSeq(Append(L, e), 1, Len(L)) = L
<1>1. Len(Append(L, e)) = Len(L) + 1
    BY SMT
<1>2. SubSeq(Append(L, e), 1, Len(L)) = L
    BY SMT
<1>3. QED
    BY Zenon, <1>1, <1>2

\* A step that leaves the buffers alone, or appends one event to one of them.
Appends == (UNCHANGED buffer) \/ \E i \in Incarnations, type \in Types : AppendEvent(i, type)

\* Whoever else moves, the caller's log stays or has one event more.
LEMMA ElsewhereStep ==
    ASSUME ExecInv, Appends, incarnation'[Caller] = incarnation[Caller],
           seen'[Caller] = seen[Caller], pc'[Caller] = pc[Caller]
    PROVE  StreamStep
<1>1. Caller \in Streams /\ TypeOK
    BY Zenon, ExecutionsAssumption DEF ExecInv
<1>2. Status(Caller)' = Status(Caller)
    BY Zenon DEF Status
<1>3. CASE incarnation[Caller] = 0 \/ log'[incarnation[Caller]] = log[incarnation[Caller]]
    <2>1. AttachedLog(Caller)' = AttachedLog(Caller)
        BY Zenon, <1>3 DEF AttachedLog
    <2>2. QED
        BY Zenon, <1>2, <2>1, CallerStutters DEF CallerSame
<1>4. CASE incarnation[Caller] # 0 /\ log'[incarnation[Caller]] # log[incarnation[Caller]]
    <2>1. PICK j : j = incarnation[Caller]
        BY Zenon
    <2>2. j \in Incarnations /\ BufferTypes
        BY Zenon, <1>1, <1>4, <2>1, Numbers, TypesSplit
    <2>3. PICK i \in Incarnations, type \in Types : AppendEvent(i, type)
        BY Zenon, <1>4, <2>1 DEF Appends, buffer
    <2>4. i = j
        BY Zenon, <1>4, <2>1, <2>2, <2>3, AppendElsewhere DEF BufferSame
    <2>5. log'[j] = Append(log[j], EventOf(j, type)) /\ log[j] \in Seq(Event)
        BY Zenon, <2>2, <2>3, <2>4, AppendEffect DEF BufferTypes
    <2>6. Len(log'[j]) = Len(log[j]) + 1 /\ SubSeq(log'[j], 1, Len(log[j])) = log[j]
        BY Zenon, <2>5, LogExtended
    <2>7. AttachedLog(Caller) = log[j] /\ AttachedLog(Caller)' = log'[j]
        BY Zenon, <1>4, <2>1 DEF AttachedLog
    <2>8. Status(Caller) # "idle"
        BY Zenon, <1>1, <1>4 DEF ExecInv, StreamOK, PhaseOK, Status
    <2>9. Stream!Emit
        BY Zenon, <1>2, <2>6, <2>7, <2>8 DEF Stream!Emit
    <2>10. QED
        BY Zenon, <2>9 DEF StreamStep, Stream!Next
<1>5. QED
    BY Zenon, <1>3, <1>4

Waits == {"stream", "backoff"}
Ends == {"done", "left", "refused"}

\* The caller goes on waiting, or its body ends.
LEMMA WaitStep ==
    ASSUME UNCHANGED buffer, incarnation'[Caller] = incarnation[Caller], seen'[Caller] = seen[Caller],
           pc'[Caller] = pc[Caller] \/ (pc[Caller] \in Waits /\ pc'[Caller] \in Waits \cup Ends)
    PROVE  StreamStep
<1>1. AttachedLog(Caller)' = AttachedLog(Caller)
    BY Zenon DEF AttachedLog, buffer
<1>2. CASE Status(Caller)' = Status(Caller)
    BY Zenon, <1>1, <1>2, CallerStutters DEF CallerSame
<1>3. CASE Status(Caller)' # Status(Caller)
    <2>1. pc[Caller] \in Waits /\ pc'[Caller] \in Ends
        BY Zenon, <1>3 DEF Status, Waits
    <2>2. Status(Caller) = "open" /\ Status(Caller)' = "closed"
        BY Zenon, <2>1 DEF Status, Waits, Ends
    <2>3. Stream!Close
        BY Zenon, <1>1, <2>2 DEF Stream!Close
    <2>4. QED
        BY Zenon, <2>3 DEF StreamStep, Stream!Next
<1>4. QED
    BY Zenon, <1>2, <1>3

\* A step of another stream's handler or proxy.
LEMMA OtherStreamStep ==
    ASSUME ExecInv, Appends, NEW s \in Streams, s # Caller,
           \A t \in Streams \ {s} : incarnation'[t] = incarnation[t] /\ seen'[t] = seen[t] /\ pc'[t] = pc[t]
    PROVE  StreamStep
BY Zenon, ElsewhereStep, ExecutionsAssumption

\* Another execution under the id takes the place of the caller's.
LEMMA ResumeStep ==
    ASSUME ExecInv, Resume(Caller), ~RetriesExhausted(Caller), executions # 0
    PROVE  StreamStep
<1>1. Caller \in Streams /\ ServingTypes /\ ProxyTypes /\ TypeOK
    BY Zenon, ExecutionsAssumption, StreamTyped DEF ExecInv
<1>2. /\ pc[Caller] = "backoff" /\ incarnation' = [incarnation EXCEPT ![Caller] = executions]
      /\ pc' = [pc EXCEPT ![Caller] = "stream"] /\ seen' = seen /\ log' = log
    BY Zenon DEF Resume, Serve, buffer
<1>3. incarnation'[Caller] = executions /\ pc'[Caller] = "stream" /\ seen'[Caller] = seen[Caller]
    BY Zenon, <1>1, <1>2 DEF ServingTypes, ProxyTypes
<1>4. Status(Caller) = "open" /\ Status(Caller)' = "open"
    BY Zenon, <1>2, <1>3 DEF Status
<1>5. PICK i, j : i = incarnation[Caller] /\ j = executions
    BY Zenon
<1>6. i # 0 /\ i <= created /\ j # 0 /\ j <= created
    BY Zenon, <1>1, <1>2, <1>5 DEF ExecInv, StreamOK, PhaseOK, ManagerOK
<1>7. i \in Nat /\ j \in Nat /\ created \in Nat /\ created <= MaxIncarnations /\ MaxIncarnations \in Nat
    BY Zenon, <1>1, <1>5, Numbers
<1>8. i \in Incarnations /\ j \in Incarnations /\ ~(i > created) /\ ~(j > created)
    BY SMT, <1>6, <1>7 DEF Incarnations
<1>9. ASSUME NEW x \in Incarnations, ~(x > created) PROVE log[x] # <<>> /\ log[x][1].of = x
    <2>0. BufferOK(x) /\ CommandOK(x)
        BY Zenon, <1>9 DEF ExecInv
    <2>1. nextSeq[x] # 0 /\ Len(log[x]) = nextSeq[x] /\ \A k \in 1 .. Len(log[x]) : log[x][k].of = x
        BY Zenon, <1>9, <2>0 DEF CommandOK, BufferOK, LogOK
    <2>2. Len(log[x]) \in Nat /\ Len(log[x]) # 0
        BY Zenon, <1>1, <2>1, Numbers
    <2>3. 1 \in 1 .. Len(log[x])
        BY SMT, <2>2
    <2>4. QED
        BY Zenon, <2>1, <2>2, <2>3, EmptyLength
<1>10. AttachedLog(Caller) = log[i] /\ AttachedLog(Caller)' = log[j]
    BY Zenon, <1>2, <1>3, <1>5, <1>6 DEF AttachedLog
<1>11. CASE i = j
    BY Zenon, <1>3, <1>4, <1>10, <1>11, CallerStutters DEF CallerSame
<1>12. CASE i # j
    <2>1. log[i] # <<>> /\ log[j] # <<>> /\ log[i][1].of = i /\ log[j][1].of = j
        BY Zenon, <1>8, <1>9
    <2>2. /\ AttachedLog(Caller) # <<>> /\ AttachedLog(Caller)' # <<>>
          /\ AttachedLog(Caller)'[1].of # AttachedLog(Caller)[1].of
        BY Zenon, <1>10, <1>12, <2>1
    <2>3. Stream!Replace
        BY Zenon, <1>3, <1>4, <2>2 DEF Stream!Replace
    <2>4. QED
        BY Zenon, <2>3 DEF StreamStep, Stream!Next
<1>13. QED
    BY Zenon, <1>11, <1>12

\* A forwarded line is the next event of the log.
LEMMA ForwardStep ==
    ASSUME ExecInv, Forward(Caller)
    PROVE  StreamStep
<1>1. Caller \in Streams /\ ServingTypes /\ ProxyTypes
    BY Zenon, ExecutionsAssumption, StreamTyped
<1>2. PICK i, e : i = incarnation[Caller] /\ e = Head(wire[Caller])
    BY Zenon
<1>3. /\ pc[Caller] = "stream" /\ wire[Caller] # <<>> /\ log' = log
      /\ seen' = [seen EXCEPT ![Caller] = Append(seen[Caller], e)]
      /\ pc' = IF IsTerminal(e.type) THEN [pc EXCEPT ![Caller] = "done"] ELSE pc
      /\ incarnation' = incarnation
    BY Zenon, <1>2 DEF Forward, Hangs, buffer
<1>4. /\ i \in Incarnations /\ Len(seen[Caller]) + 1 \in 1 .. Len(log[i])
      /\ e = log[i][Len(seen[Caller]) + 1]
    BY Zenon, <1>1, <1>2, <1>3, NextLine
<1>5. i # 0 /\ Len(log[i]) \in Nat /\ Len(seen[Caller]) \in Nat
    BY Zenon, <1>1, <1>4, Numbers DEF ExecInv
<1>6. Len(seen[Caller]) < Len(log[i])
    BY SMT, <1>4, <1>5
<1>7. AttachedLog(Caller) = log[i] /\ AttachedLog(Caller)' = log[i]
    BY Zenon, <1>2, <1>3, <1>5 DEF AttachedLog
<1>8. seen'[Caller] = Append(seen[Caller], e)
    BY Zenon, <1>1, <1>3 DEF ProxyTypes
<1>9. pc'[Caller] = IF IsTerminal(e.type) THEN "done" ELSE "stream"
    BY Zenon, <1>1, <1>3 DEF ProxyTypes
<1>10. Status(Caller) = "open" /\ Status(Caller)' = IF Stream!Terminal(e) THEN "closed" ELSE "open"
    <2>1. Status(Caller) = "open" /\ (Stream!Terminal(e) <=> IsTerminal(e.type))
        BY Zenon, <1>3 DEF Status, IsTerminal, Stream!Terminal
    <2>2. CASE IsTerminal(e.type)
        <3>1. Status(Caller)' = "closed"
            BY Zenon, <1>9, <2>2 DEF Status
        <3>2. QED
            BY Zenon, <2>1, <2>2, <3>1
    <2>3. CASE ~IsTerminal(e.type)
        <3>1. Status(Caller)' = "open"
            BY Zenon, <1>9, <2>3 DEF Status
        <3>2. QED
            BY Zenon, <2>1, <2>3, <3>1
    <2>4. QED
        BY Zenon, <2>2, <2>3
<1>11. Stream!Deliver
    BY Zenon, <1>4, <1>6, <1>7, <1>8, <1>10 DEF Stream!Deliver
<1>12. QED
    BY Zenon, <1>11 DEF StreamStep, Stream!Next

LEMMA GetOrCreateAppends == ASSUME ExecInv, GetOrCreate PROVE Appends
<1>1. CASE executions # 0
    BY Zenon, <1>1 DEF GetOrCreate, Appends
<1>2. CASE executions = 0
    <2>1. created < MaxIncarnations /\ AppendEvent(created + 1, "started") /\ "started" \in Types
        BY Zenon, <1>2 DEF GetOrCreate, Create, Types
    <2>2. created \in Nat /\ MaxIncarnations \in Nat
        BY Zenon, Numbers DEF ExecInv
    <2>3. created + 1 \in Incarnations
        BY SMT, <2>1, <2>2 DEF Incarnations
    <2>4. QED
        BY Zenon, <2>1, <2>3 DEF Appends
<1>3. QED
    BY Zenon, <1>1, <1>2

\* The manager and the commands, which touch no stream.
LEMMA DaemonStep ==
    ASSUME ExecInv, Appends, UNCHANGED serving, UNCHANGED proxy
    PROVE  StreamStep
<1>1. incarnation' = incarnation /\ seen' = seen /\ pc' = pc
    BY Zenon DEF serving, proxy
<1>2. QED
    BY Zenon, <1>1, ElsewhereStep

LEMMA CommandStep ==
    ASSUME ExecInv, NEW i \in Incarnations, HandleExec(i) \/ Output(i) \/ Timeout(i) \/ Exit(i)
    PROVE  StreamStep
<1>1. "error" \in Types /\ "exit" \in Types /\ "output" \in Types
    BY Zenon DEF Types
<1>2. UNCHANGED serving /\ UNCHANGED proxy
    BY Zenon DEF HandleExec, Start, StartFails, Finish, ReaderDone, Output, Timeout, Exit
<1>3. Appends
    BY Zenon, <1>1 DEF HandleExec, Start, StartFails, Finish, ReaderDone, Output, Timeout, Exit, Appends
<1>4. QED
    BY Zenon, <1>2, <1>3, DaemonStep

LEMMA DaemonLostStep == ASSUME ExecInv, DaemonLost PROVE StreamStep
<1>1. Caller \in Streams
    BY Zenon, ExecutionsAssumption
<1>2. UNCHANGED buffer /\ incarnation' = incarnation /\ seen' = seen
      /\ pc'[Caller] = IF pc[Caller] = "stream" THEN Cut(Caller) ELSE pc[Caller]
    BY Zenon, <1>1 DEF DaemonLost
<1>3. Cut(Caller) \in Waits \cup Ends /\ "stream" \in Waits
    BY Zenon DEF Cut, Waits, Ends
<1>4. QED
    BY Zenon, <1>2, <1>3, WaitStep

\* What an action of stream s leaves alone.
LEMMA StreamFrame ==
    ASSUME ExecInv, NEW s \in Streams, Daemon(s) \/ Proxy(s) \/ Drop(s) \/ CallerLeaves(s)
    PROVE  /\ UNCHANGED buffer
           /\ \A t \in Streams \ {s} : incarnation'[t] = incarnation[t] /\ seen'[t] = seen[t] /\ pc'[t] = pc[t]
<1>1. incarnation \in [Streams -> 0 .. MaxIncarnations] /\ seen \in [Streams -> Seq(Event)]
      /\ pc \in [Streams -> {"idle", "stream", "backoff", "done", "left", "refused"}]
    BY Zenon DEF ExecInv, TypeOK
<1>2. CASE Daemon(s)
    <2>1. UNCHANGED buffer /\ incarnation' = incarnation /\ seen' = seen
        BY Zenon, <1>2 DEF Daemon, Preflight, Follow, Wake, proxy
    <2>2. pc' = pc \/ \E p : pc' = [pc EXCEPT ![s] = p]
        BY Zenon, <1>2 DEF Daemon, Preflight, Follow, Wake, proxy
    <2>3. QED
        BY Zenon, <1>1, <2>1, <2>2
<1>3. CASE Resume(s)
    <2>1. UNCHANGED buffer /\ seen' = seen
        BY Zenon, <1>3 DEF Resume
    <2>2. pc' = pc \/ \E p : pc' = [pc EXCEPT ![s] = p]
        BY Zenon, <1>3 DEF Resume
    <2>3. incarnation' = incarnation \/ incarnation' = [incarnation EXCEPT ![s] = executions]
        BY Zenon, <1>3 DEF Resume, Serve, serving
    <2>4. QED
        BY Zenon, <1>1, <2>1, <2>2, <2>3
<1>4. CASE Forward(s)
    <2>1. UNCHANGED buffer /\ incarnation' = incarnation
        BY Zenon, <1>4 DEF Forward, Hangs
    <2>2. \E q : seen' = [seen EXCEPT ![s] = q]
        BY Zenon, <1>4 DEF Forward
    <2>3. pc' = pc \/ \E p : pc' = [pc EXCEPT ![s] = p]
        BY Zenon, <1>4 DEF Forward, Hangs
    <2>4. QED
        BY Zenon, <1>1, <2>1, <2>2, <2>3
<1>5. CASE EndOfBody(s) \/ Drop(s) \/ CallerLeaves(s)
    <2>1. UNCHANGED buffer /\ incarnation' = incarnation /\ seen' = seen
        BY Zenon, <1>5 DEF EndOfBody, Drop, CallerLeaves, Hangs
    <2>2. \E p : pc' = [pc EXCEPT ![s] = p]
        BY Zenon, <1>5 DEF EndOfBody, Drop, CallerLeaves, Hangs
    <2>3. QED
        BY Zenon, <1>1, <2>1, <2>2
<1>6. QED
    BY Zenon, <1>2, <1>3, <1>4, <1>5 DEF Proxy

\* Steps of the caller's own handler and proxy that deliver nothing.
LEMMA CallerWaitStep ==
    ASSUME ExecInv,
           \/ Daemon(Caller) \/ EndOfBody(Caller) \/ Drop(Caller) \/ CallerLeaves(Caller)
           \/ (Resume(Caller) /\ (RetriesExhausted(Caller) \/ executions = 0))
    PROVE  StreamStep
<1>1. Caller \in Streams /\ pc \in [Streams -> {"idle", "stream", "backoff", "done", "left", "refused"}]
    BY Zenon, ExecutionsAssumption DEF ExecInv, TypeOK
<1>2. "stream" \in Waits /\ "backoff" \in Waits /\ {"backoff", "refused", "done", "left"} \subseteq Waits \cup Ends
    BY Zenon DEF Waits, Ends
<1>3. CASE Preflight(Caller)
    <2>1. pc[Caller] = "stream"
        BY Zenon, <1>1, <1>3 DEF ExecInv, StreamOK, PhaseOK, Preflight
    <2>2. UNCHANGED buffer /\ incarnation' = incarnation /\ seen' = seen
        BY Zenon, <1>3 DEF Preflight
    <2>3. pc'[Caller] = pc[Caller] \/ pc'[Caller] \in {"backoff", "refused", "done", "left"}
        BY Zenon, <1>1, <1>3 DEF Preflight
    <2>4. QED
        BY Zenon, <1>2, <2>1, <2>2, <2>3, WaitStep
<1>4. CASE Follow(Caller) \/ Wake(Caller)
    <2>1. UNCHANGED buffer /\ incarnation' = incarnation /\ seen' = seen /\ pc' = pc
        BY Zenon, <1>4 DEF Follow, Wake, proxy
    <2>2. QED
        BY Zenon, <2>1, WaitStep
<1>5. CASE EndOfBody(Caller) \/ Drop(Caller) \/ CallerLeaves(Caller)
    <2>1. UNCHANGED buffer /\ incarnation' = incarnation /\ seen' = seen /\ pc[Caller] \in {"stream", "backoff"}
        BY Zenon, <1>5 DEF EndOfBody, Drop, CallerLeaves, Hangs
    <2>2. pc'[Caller] \in {"backoff", "refused", "done", "left"}
        BY Zenon, <1>1, <1>5 DEF EndOfBody, Drop, CallerLeaves, Hangs, Cut
    <2>3. QED
        BY Zenon, <1>2, <2>1, <2>2, WaitStep
<1>6. CASE Resume(Caller) /\ (RetriesExhausted(Caller) \/ executions = 0)
    <2>1. UNCHANGED buffer /\ incarnation' = incarnation /\ seen' = seen /\ pc[Caller] = "backoff"
        BY Zenon, <1>6 DEF Resume, serving
    <2>2. pc'[Caller] = pc[Caller] \/ pc'[Caller] = "done"
        BY Zenon, <1>1, <1>6 DEF Resume
    <2>3. QED
        BY Zenon, <1>2, <2>1, <2>2, WaitStep
<1>7. QED
    BY Zenon, <1>3, <1>4, <1>5, <1>6 DEF Daemon

LEMMA PostStep == ASSUME ExecInv, NEW s \in Streams, Post(s) PROVE StreamStep
<1>1. Caller \in Streams /\ ServingTypes /\ ProxyTypes
    BY Zenon, ExecutionsAssumption, StreamTyped
<1>2. /\ pc[s] = "idle" /\ pc' = [pc EXCEPT ![s] = "stream"] /\ GetOrCreate /\ seen' = seen
      /\ \E i : incarnation' = [incarnation EXCEPT ![s] = i]
    BY Zenon DEF Post, Serve
<1>3. Appends
    BY Zenon, <1>2, GetOrCreateAppends
<1>4. CASE s = Caller
    <2>1. pc[Caller] = "idle" /\ pc'[Caller] = "stream" /\ seen'[Caller] = seen[Caller]
        BY Zenon, <1>1, <1>2, <1>4 DEF ProxyTypes
    <2>2. Status(Caller) = "idle" /\ Status(Caller)' = "open"
        BY Zenon, <2>1 DEF Status
    <2>3. Stream!Open
        BY Zenon, <2>1, <2>2 DEF Stream!Open
    <2>4. QED
        BY Zenon, <2>3 DEF StreamStep, Stream!Next
<1>5. CASE s # Caller
    <2>1. \A t \in Streams \ {s} : incarnation'[t] = incarnation[t] /\ seen'[t] = seen[t] /\ pc'[t] = pc[t]
        BY Zenon, <1>1, <1>2 DEF ServingTypes, ProxyTypes
    <2>2. QED
        BY Zenon, <1>3, <1>5, <2>1, OtherStreamStep
<1>6. QED
    BY Zenon, <1>4, <1>5

LEMMA StepImplements == ASSUME ExecInv, [Next]_vars PROVE [Stream!Next]_(Stream!vars)
<1>0. SUFFICES StreamStep
    BY Zenon DEF StreamStep
<1>1. CASE PostElsewhere
    <2>1. GetOrCreate /\ UNCHANGED serving /\ UNCHANGED proxy
        BY Zenon, <1>1 DEF PostElsewhere
    <2>2. QED
        BY Zenon, <2>1, GetOrCreateAppends, DaemonStep
<1>2. CASE Delete \/ Collect \/ UNCHANGED vars
    <2>1. UNCHANGED buffer /\ UNCHANGED serving /\ UNCHANGED proxy
        BY Zenon, <1>2 DEF Delete, Collect, vars
    <2>2. QED
        BY Zenon, <2>1, DaemonStep DEF Appends
<1>3. CASE DaemonLost
    BY Zenon, <1>3, DaemonLostStep
<1>4. ASSUME NEW i \in Incarnations, HandleExec(i) \/ Output(i) \/ Timeout(i) \/ Exit(i) PROVE StreamStep
    BY Zenon, <1>4, CommandStep
<1>5. ASSUME NEW s \in Streams, Daemon(s) \/ Proxy(s) \/ Drop(s) \/ CallerLeaves(s) PROVE StreamStep
    <2>1. CASE s # Caller
        <3>1. /\ UNCHANGED buffer
              /\ \A t \in Streams \ {s} : incarnation'[t] = incarnation[t] /\ seen'[t] = seen[t] /\ pc'[t] = pc[t]
            BY Zenon, <1>5, StreamFrame
        <3>2. QED
            BY Zenon, <1>5, <2>1, <3>1, OtherStreamStep DEF Appends
    <2>2. CASE s = Caller
        BY Zenon, <1>5, <2>2, CallerWaitStep, ResumeStep, ForwardStep DEF Proxy
    <2>3. QED
        BY Zenon, <2>1, <2>2
<1>6. QED
    BY Zenon, <1>1, <1>2, <1>3, <1>4, <1>5, PostStep DEF Next

LEMMA InitImplements == ASSUME Init PROVE Stream!Init
<1>1. Caller \in Streams
    BY Zenon, ExecutionsAssumption
<1>2. incarnation[Caller] = 0 /\ seen[Caller] = <<>> /\ pc[Caller] = "idle"
    BY Zenon, <1>1 DEF Init
<1>3. AttachedLog(Caller) = <<>> /\ Status(Caller) = "idle"
    BY Zenon, <1>2 DEF AttachedLog, Status
<1>4. QED
    BY Zenon, <1>2, <1>3 DEF Stream!Init

\* Daemon, proxy and resumes together implement the safety part of ExecStream for a
\* caller: it receives the events of its execution in order, without gap or repetition,
\* whatever the other streams do and whichever connections break.
THEOREM StreamSafetyHolds == Spec => Stream!Safety
<1>1. Init => Stream!Init
    BY Zenon, InitImplements
<1>2. ExecInv /\ [Next]_vars => [Stream!Next]_(Stream!vars)
    BY Zenon, StepImplements
<1>3. QED
    BY <1>1, <1>2, ExecInvHolds, PTL DEF Spec, Stream!Safety

=============================================================================
