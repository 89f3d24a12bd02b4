------------------------------ MODULE FileList ------------------------------
(***************************************************************************)
(* What a DeltaSnapshot promises its callers, without locks, batches or    *)
(* kernel calls: the files of the snapshot are discovered one at a time in *)
(* the snapshot's order and never reassigned; the list is declared         *)
(* exhausted only once every file is known; a call is answered with the    *)
(* snapshot's answer and only from what is already known.                  *)
(***************************************************************************)
EXTENDS Naturals, Sequences

CONSTANTS
    Threads,
    Snapshot,     \* the files of the snapshot, in discovery order
    Calls,        \* the calls that return an answer
    Expected(_),  \* the answer the snapshot gives to a call
    NoAnswer      \* a thread holds no answer (none yet, or its call failed)

VARIABLES
    files,        \* the discovered prefix of Snapshot
    done,         \* the end of Snapshot has been seen
    answered      \* answered[t]: t's last answer, or NoAnswer

vars == <<files, done, answered>>

\* An answer to c needs no further discovery.
Known(c) ==
    IF c.op = "GetFile" THEN c.i < Len(files) \/ done ELSE done

Respond(t, c) ==
    answered' = [answered EXCEPT ![t] = [call |-> c, val |-> Expected(c)]]

Init ==
    /\ files = <<>>
    /\ done = FALSE
    /\ answered = [t \in Threads |-> NoAnswer]

\* The next file of the snapshot is discovered.
Discover ==
    /\ Len(files) < Len(Snapshot)
    /\ files' = Append(files, Snapshot[Len(files) + 1])
    /\ UNCHANGED <<done, answered>>

\* The end is seen; the call that saw it may answer in the same step.
Exhaust ==
    /\ files = Snapshot /\ ~done
    /\ done' = TRUE
    /\ UNCHANGED files
    /\ \/ UNCHANGED answered
       \/ \E t \in Threads, c \in Calls : Respond(t, c)

Answer(t, c) ==
    /\ Known(c)
    /\ Respond(t, c)
    /\ UNCHANGED <<files, done>>

\* A call failed, or a thread made a call with no list answer (Bind).
Clear(t) ==
    /\ answered' = [answered EXCEPT ![t] = NoAnswer]
    /\ UNCHANGED <<files, done>>

Next ==
    \/ Discover
    \/ Exhaust
    \/ \E t \in Threads : Clear(t) \/ \E c \in Calls : Answer(t, c)

Spec == Init /\ [][Next]_vars

=============================================================================
