----------------------------- MODULE StatusWait -----------------------------
(***************************************************************************)
(* wait_for_job (client.py 535-551) and wait_for_project_export            *)
(* (1048-1070): poll a status until it is one to stop on or the deadline   *)
(* has passed.  The wait begins at time 0.  Polls and sleeps take time,    *)
(* the code between them none.                                             *)
(*                                                                         *)
(* A definition marked "fault" is a wrong variant of the one that follows  *)
(* it; nothing uses it (README, "Faults").                                 *)
(***************************************************************************)
EXTENDS Naturals

CONSTANTS
    Timeout, Interval,  \* the arguments timeout and poll_interval
    MaxRequest          \* bound: the longest a poll takes, its retries included

ASSUME WaitAssumption == Timeout \in Nat /\ Interval \in Nat /\ MaxRequest \in Nat

VARIABLES
    kind,       \* what is waited for
    phase,      \* of the call
    clock,
    mark,       \* polling: when the poll began; sleeping: when the sleep ends
    report,     \* the status the service has put into the answer of the poll
    status,     \* the status the service has
    endedAt     \* when that became final (history)

waitVars == <<kind, phase, clock, mark, report, status, endedAt>>
service == <<status, endedAt>>

Final == {"completed", "failed", "canceled"}

\* The statuses a wait stops on: of wait_for_job by default, with
\* terminal_statuses=("completed",), and of wait_for_project_export.
StopsOn ==
    [job |-> Final, success |-> {"completed"}, export |-> {"completed", "failed"}]

Waiting == {"begin", "polling", "sleeping"}
WaitEnded == {"done", "raised", "timeout"}

WaitInit ==
    /\ kind \in DOMAIN StopsOn
    /\ phase = "begin" /\ clock = 0 /\ mark = 0 /\ report = "none"
    /\ status \in {"running"} \cup Final /\ endedAt = 0

-----------------------------------------------------------------------------
\* External: time, the work waited for, and the moment at which the service
\* reads its status for a poll; a poll that is sent again is read again.

Tick ==
    /\ \/ phase = "polling" /\ clock < mark + MaxRequest
       \/ phase = "sleeping" /\ clock < mark
    /\ clock' = clock + 1
    /\ UNCHANGED <<kind, phase, mark, report, service>>

Progress ==
    /\ phase \in Waiting /\ status = "running"
    /\ status' \in Final /\ endedAt' = clock
    /\ UNCHANGED <<kind, phase, clock, mark, report>>

Serve ==
    /\ phase = "polling" /\ report' = status
    /\ UNCHANGED <<kind, phase, clock, mark, service>>

-----------------------------------------------------------------------------
\* The deadline is set, the first poll sent.
BeginWait ==
    /\ phase = "begin" /\ phase' = "polling"
    /\ UNCHANGED <<kind, clock, mark, report, service>>

WakeAtInterval == clock + Interval                  \* fault
WakeAt ==
    IF kind # "export" /\ clock + Interval > Timeout THEN Timeout
                                                     ELSE clock + Interval

\* The answer of the poll arrives.
StopWithFailed ==                                   \* fault
    /\ phase = "polling" /\ report \in StopsOn[kind]
    /\ phase' = "done"
    /\ UNCHANGED <<kind, clock, mark, report, service>>
Stop ==
    /\ phase = "polling" /\ report \in StopsOn[kind]
    /\ phase' = IF kind = "export" /\ report = "failed" THEN "raised" ELSE "done"
    /\ UNCHANGED <<kind, clock, mark, report, service>>

TimeOutSleeping ==                                  \* fault
    /\ phase = "sleeping" /\ clock >= Timeout
    /\ phase' = "timeout"
    /\ UNCHANGED <<kind, clock, mark, report, service>>
TimeOut ==
    /\ phase = "polling" /\ report \notin StopsOn[kind] \cup {"none"}
    /\ clock >= Timeout
    /\ phase' = "timeout"
    /\ UNCHANGED <<kind, clock, mark, report, service>>

Sleep ==
    /\ phase = "polling" /\ report \notin StopsOn[kind] \cup {"none"}
    /\ clock < Timeout
    /\ phase' = "sleeping" /\ mark' = WakeAt
    /\ UNCHANGED <<kind, clock, report, service>>

\* time.sleep is over.
PollAgain ==
    /\ phase = "sleeping" /\ clock = mark
    /\ phase' = "polling" /\ report' = "none"
    /\ UNCHANGED <<kind, clock, mark, service>>

\* The request fails for good, or the answer is no object.
PollFails ==
    /\ phase = "polling" /\ phase' = "raised"
    /\ UNCHANGED <<kind, clock, mark, report, service>>

WaitStep == BeginWait \/ Stop \/ TimeOut \/ Sleep \/ PollAgain \/ PollFails
WaitNext == Tick \/ Progress \/ Serve \/ WaitStep
WaitSpec == WaitInit /\ [][WaitNext]_waitVars

-----------------------------------------------------------------------------
\* Every variable has the shape the code gives it; a sleep ends in the future.
WaitTypeOK ==
    /\ kind \in DOMAIN StopsOn
    /\ phase \in Waiting \cup WaitEnded
    /\ phase = "sleeping" => clock <= mark
    /\ clock \in Nat /\ mark \in Nat /\ endedAt \in Nat
    /\ report \in {"none", "running"} \cup Final
    /\ status \in {"running"} \cup Final

\* client.py 549-551, 1066-1070: a wait is over one request after its deadline;
\* that of an export, whose last sleep is not cut, up to one interval later.
OverrunBounded ==
    clock <= Timeout + MaxRequest + IF kind = "export" THEN Interval ELSE 0

\* client.py 546-551, 1059-1068: a TimeoutError is never raised for something
\* that was over for the length of a request before the deadline.
OverIsNoticed ==
    phase = "timeout" /\ status \in StopsOn[kind] => endedAt + MaxRequest >= Timeout
=============================================================================
