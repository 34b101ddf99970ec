----------------------------- MODULE ExecStream -----------------------------
(***************************************************************************)
(* What POST /sandboxes/{id}/executions promises one caller: the events of  *)
(* the execution in the order of their numbers, none left out and none      *)
(* repeated, up to a terminal event or an early end of the body.  The      *)
(* caller never waits for ever.                                            *)
(***************************************************************************)
EXTENDS Integers, Sequences

VARIABLES
    output,     \* the events of the execution the caller is attached to
    received,   \* the events the caller has received
    status      \* "idle", "open", "closed"

vars == <<output, received, status>>

Terminal(e) == e.type \in {"exit", "error"}

Init == output = <<>> /\ received = <<>> /\ status = "idle"

\* The call is accepted, on a new execution or one that has events already.
Open == status = "idle" /\ status' = "open" /\ UNCHANGED received

\* The command goes on.
Emit ==
    /\ status # "idle"
    /\ Len(output') = Len(output) + 1
    /\ SubSeq(output', 1, Len(output)) = output
    /\ UNCHANGED <<received, status>>

\* The exec id was deleted or collected and posted again while the caller was
\* cut off: it is attached to another execution, and the numbers go on.
Replace ==
    /\ status = "open"
    /\ output # <<>> /\ output' # <<>>
    /\ output'[1].of # output[1].of
    /\ UNCHANGED <<received, status>>

Deliver ==
    /\ status = "open"
    /\ Len(received) < Len(output)
    /\ received' = Append(received, output[Len(received) + 1])
    /\ status' = IF Terminal(output[Len(received) + 1]) THEN "closed" ELSE "open"
    /\ UNCHANGED output

Close == status = "open" /\ status' = "closed" /\ UNCHANGED <<output, received>>

Next == Open \/ Emit \/ Replace \/ Deliver \/ Close

Safety == Init /\ [][Next]_vars

\* An open call ends, since its execution has a time limit.
CallsEnd == status = "open" ~> status = "closed"

Spec == Safety /\ CallsEnd

=============================================================================
