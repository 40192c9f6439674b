----------------------------- MODULE Destination -----------------------------
(***************************************************************************)
(* What _download promises about the file it replaces, without requests,   *)
(* chunks, temporary files or checks: each call puts a whole answer of its *)
(* own at the destination, in one step and at most once, and only a call   *)
(* that has done so returns.  One that fails says nothing of which side of *)
(* that step it failed on.  A power failure may bring back the last file   *)
(* that was durable.  AtomicDownload implements it.                        *)
(***************************************************************************)
CONSTANTS
    Call,   \* the calls with this destination
    Whole,  \* the files each call may put there
    Old     \* the file that was there before

VARIABLES
    target,     \* the file at the destination
    onDisk,     \* the file there after a power failure
    outcome     \* of each call: "idle", "running", "installed" once its file is
                \* at the destination, "returned", "failed"

vars == <<target, onDisk, outcome>>

Init ==
    /\ target = Old /\ onDisk = Old
    /\ outcome = [c \in Call |-> "idle"]

Start(c) ==
    /\ outcome[c] = "idle"
    /\ outcome' = [outcome EXCEPT ![c] = "running"]
    /\ UNCHANGED <<target, onDisk>>

\* The only step of a call that changes the destination.
Install(c) ==
    /\ outcome[c] = "running"
    /\ target' \in Whole[c] /\ onDisk' \in {onDisk, target'}
    /\ outcome' = [outcome EXCEPT ![c] = "installed"]

Return(c) ==
    /\ outcome[c] = "installed"
    /\ outcome' = [outcome EXCEPT ![c] = "returned"]
    /\ UNCHANGED <<target, onDisk>>

Fail(c) ==
    /\ outcome[c] \in {"idle", "running", "installed"}
    /\ outcome' = [outcome EXCEPT ![c] = "failed"]
    /\ UNCHANGED <<target, onDisk>>

PowerFailure ==
    /\ target' = onDisk
    /\ outcome' = [c \in Call |->
           IF outcome[c] \in {"running", "installed"} THEN "failed" ELSE outcome[c]]
    /\ UNCHANGED onDisk

Next == PowerFailure \/ \E c \in Call : Start(c) \/ Install(c) \/ Return(c) \/ Fail(c)

Spec == Init /\ [][Next]_vars
=============================================================================
