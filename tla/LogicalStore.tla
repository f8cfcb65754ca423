----------------------------- MODULE LogicalStore -----------------------------
(***************************************************************************)
(* What a flash translation layer promises to the block layer: an array of *)
(* sectors.  A request names a run of sectors.  A write request replaces   *)
(* them from the first one on, a run within one block at a time, all of    *)
(* that run or none of it; a read request delivers their present values in *)
(* order.  A request may end early; nothing else changes what is stored.   *)
(***************************************************************************)
EXTENDS Naturals, Sequences

CONSTANTS SectorCnt,   \* sectors of the device
          BlockSize,   \* sectors of a block, the unit of atomicity of a write
          Values,      \* what may be written to a sector
          BLANK        \* what a sector reads before its first write

VARIABLES store,       \* the sectors' values
          job,         \* the request in progress
          out          \* what the read in progress has delivered

Sectors == 0 .. SectorCnt - 1
NoJob   == [op |-> "none", at |-> 0, left |-> 0, val |-> BLANK]

Init == /\ store \in [Sectors -> Values \cup {BLANK}]
        /\ job = NoJob
        /\ out = <<>>

Start == /\ job = NoJob
         /\ job' = [op  |-> job'.op, at |-> job'.at, left |-> job'.left,
                    val |-> job'.val]
         /\ job'.op \in {"read", "write"}
         /\ job'.at \in Nat /\ job'.left \in Nat \ {0}
         /\ job'.op = "write" => job'.val \in Values
         /\ UNCHANGED <<store, out>>

\* The next n sectors of the job, all in one block of the device; the request
\* may end with them.
NextRun(n) == /\ n <= job.left
              /\ job.at + n <= SectorCnt
              /\ (job.at % BlockSize) + n <= BlockSize
              /\ job' \in {[job EXCEPT !.at = @ + n, !.left = @ - n], NoJob}

Write(n) == /\ job.op = "write"
            /\ NextRun(n)
            /\ store' = [s \in Sectors |-> IF s \in job.at .. job.at + n - 1
                                           THEN job.val ELSE store[s]]
            /\ out' = out

Read(n) == /\ job.op = "read"
           /\ NextRun(n)
           /\ out' = out \o [k \in 1 .. n |-> store[job.at + k - 1]]
           /\ store' = store

End == job' = NoJob /\ out' = <<>> /\ store' = store

Next == Start \/ End \/ \E n \in 1 .. BlockSize : Write(n) \/ Read(n)

Spec == Init /\ [][Next]_<<store, job, out>>

=============================================================================
