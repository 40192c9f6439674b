--------------------------- MODULE ExportDownload ---------------------------
(***************************************************************************)
(* download_project_export (client.py 1072-1100): create or reuse an       *)
(* export, wait for it and download its URL; and the same for a job's      *)
(* folder, where the caller waits (wait_for_job) and then downloads        *)
(* (1210-1219).  One call of AtomicDownload, Waiter, waits as StatusWait   *)
(* says before it downloads; the others download at once, to the same      *)
(* destination.                                                            *)
(***************************************************************************)
EXTENDS AtomicDownload, StatusWait

CONSTANT Waiter
ASSUME WaiterAssumption == Waiter \in Call

allVars == <<vars, waitVars>>

ExportInit == Init /\ WaitInit

\* create_project_export answers: with an export that is already completed, or
\* with one to wait for; or the POST fails.
CreateExport ==
    /\ kind = "export" /\ phase = "begin"
    /\ \/ status = "completed" /\ phase' = "done"
       \/ status # "completed" /\ phase' = "polling"
       \/ phase' = "raised"
    /\ UNCHANGED <<vars, kind, clock, mark, report, service>>

Waits ==
    /\ kind = "export" => phase # "begin"
    /\ WaitNext
    /\ UNCHANGED vars

Waited == pc[Waiter] = "idle" /\ phase = "done"

\* The times of the wait are over: they are set back so that states which
\* differ in nothing else are one.
Forget ==
    /\ clock' = 0 /\ mark' = 0 /\ report' = "none" /\ endedAt' = 0
    /\ UNCHANGED <<kind, phase, status>>

\* The completed export has a download_url, or none (missing_download_url).
StartExport ==
    /\ Waited /\ kind = "export"
    /\ Goto(Waiter, "storage") \/ Goto(Waiter, "raised")
    /\ UNCHANGED <<answer, got, disk, crashes>>
    /\ Forget

StartFolder == Waited /\ kind # "export" /\ Begin(Waiter) /\ Forget

\* KeyboardInterrupt while the call waits, or a crash.
WaitInterrupted ==
    /\ phase \in Waiting /\ phase' = "raised"
    /\ UNCHANGED <<vars, kind, clock, mark, report, service>>

MachineCrash ==
    /\ Crash
    /\ phase' = IF phase \in Waiting \/ Waited THEN "raised" ELSE phase
    /\ UNCHANGED <<kind, clock, mark, report, service>>

Downloads(c) ==
    /\ c # Waiter \/ pc[c] # "idle"
    /\ Step(c) \/ Interrupted(c)
    /\ UNCHANGED waitVars

Finished ==
    /\ pc[Waiter] \in Ended \/ phase \in {"raised", "timeout"}
    /\ \A c \in Call \ {Waiter} : pc[c] \in Ended
    /\ UNCHANGED allVars

ExportNext ==
    \/ CreateExport \/ Waits \/ StartExport \/ StartFolder \/ WaitInterrupted
    \/ MachineCrash \/ Finished
    \/ \E c \in Call : Downloads(c)

ExportSpec == ExportInit /\ [][ExportNext]_allVars

-----------------------------------------------------------------------------
\* Every variable of the waiting call and of the downloads has the shape the
\* code gives it.
ExportTypeOK == TypeOK /\ WaitTypeOK

\* client.py 1072-1100, README 191-192 "polls it, and downloads": the storage URL is
\* requested for a completed export only, and no wait that failed, ran out of
\* time or was interrupted reaches the destination.
OnlyFinishedDownloaded ==
    pc[Waiter] # "idle" =>
        /\ phase = "done"
        /\ kind = "export" => status = "completed"
=============================================================================
