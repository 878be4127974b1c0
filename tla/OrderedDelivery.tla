--------------------------- MODULE OrderedDelivery ---------------------------
(***************************************************************************)
(* What a run of the export pipeline promises, with no queue, no worker    *)
(* and no buffer: messages arrive one by one and are numbered, and each    *)
(* one is settled in the order of its number -- written to the output, or  *)
(* left out of it -- before the run may return.  A run may also end with   *)
(* an exception, and then nothing further is settled.                      *)
(***************************************************************************)
EXTENDS Integers, Sequences

CONSTANT MaxMessages    \* bound on the messages one source may yield

VARIABLES fetched,      \* messages numbered so far: 1 .. fetched
          settled,      \* messages decided so far:  1 .. settled
          written,      \* numbers written to the output, in output order
          status        \* "running", "returned" or "raised"

vars == <<fetched, settled, written, status>>

Init == /\ fetched = 0
        /\ settled = 0
        /\ written = <<>>
        /\ status = "running"

Fetch == /\ status = "running"
         /\ fetched < MaxMessages
         /\ fetched' = fetched + 1
         /\ UNCHANGED <<settled, written, status>>

\* The next message in order is written, or left out.
Settle == /\ status = "running"
          /\ settled < fetched
          /\ settled' = settled + 1
          /\ written' \in {written, Append(written, settled + 1)}
          /\ UNCHANGED <<fetched, status>>

Return == /\ status = "running"
          /\ settled = fetched
          /\ status' = "returned"
          /\ UNCHANGED <<fetched, settled, written>>

Raise == /\ status = "running"
         /\ status' = "raised"
         /\ UNCHANGED <<fetched, settled, written>>

Next == Fetch \/ Settle \/ Return \/ Raise

Spec == Init /\ [][Next]_vars
=============================================================================
