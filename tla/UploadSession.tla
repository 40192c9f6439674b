---------------------------- MODULE UploadSession ----------------------------
(***************************************************************************)
(* What upload_multipart promises about the storage session it opens,      *)
(* without workers, requests or retries: the parts collect in the session, *)
(* the caller decides at most once how it ends, the object appears only    *)
(* out of a full session that the caller decided to commit, and the call   *)
(* returns only when the object is there.  MultipartUpload implements it.  *)
(***************************************************************************)
CONSTANT Part   \* the part numbers

VARIABLES
    session,    \* of the storage service: "none", "open", "completed", "closed"
    held,       \* the parts the session holds
    decision,   \* the caller's: "none", "commit", "abort"
    outcome     \* of the call: "running", "returned", "raised"

vars == <<session, held, decision, outcome>>

Init ==
    /\ session = "none" /\ held = {}
    /\ decision = "none" /\ outcome = "running"

\* The session is opened; the call may never hear of it.
Open ==
    /\ session = "none" /\ outcome = "running"
    /\ session' = "open"
    /\ outcome' \in {"running", "raised"}
    /\ UNCHANGED <<held, decision>>

\* A part arrives, perhaps late and after the call ended, but into an open
\* session only.
Store(p) ==
    /\ session = "open"
    /\ held' = held \cup {p}
    /\ UNCHANGED <<session, decision, outcome>>

Decide(d) ==
    /\ decision = "none" /\ outcome = "running"
    /\ d = "commit" => held = Part
    /\ decision' = d
    /\ UNCHANGED <<session, held, outcome>>

\* The object appears, perhaps after the call gave up waiting for it.
Commit ==
    /\ session = "open" /\ decision = "commit" /\ held = Part
    /\ session' = "completed"
    /\ \/ outcome = "running" /\ outcome' \in {"returned", "raised"}
       \/ outcome = "raised" /\ UNCHANGED outcome
    /\ UNCHANGED <<held, decision>>

\* The session ends without an object: the abort request, or the storage
\* service's own cleanup at any time.
Close ==
    /\ session = "open"
    /\ session' = "closed"
    /\ outcome' \in {outcome, "raised"}
    /\ outcome = "returned" => outcome' = outcome
    /\ UNCHANGED <<held, decision>>

Raise ==
    /\ outcome = "running"
    /\ outcome' = "raised"
    /\ UNCHANGED <<session, held, decision>>

Next ==
    \/ Open \/ Commit \/ Close \/ Raise
    \/ \E p \in Part : Store(p)
    \/ \E d \in {"commit", "abort"} : Decide(d)

Spec == Init /\ [][Next]_vars
=============================================================================
