------------------------------- MODULE MCSync -------------------------------
(***************************************************************************)
(* A semaphore and a monitor in one run.  They share no state, so one of   *)
(* them is used only while the other is as it was at the start.            *)
(***************************************************************************)
EXTENDS SemLock

CONSTANTS CV

VARIABLES mvalue, mwait_queue, masleep, next_count, count, step, on

monvars == <<mvalue, mwait_queue, masleep, next_count, count, step, on>>

M == INSTANCE Monitor WITH
        value <- mvalue, wait_queue <- mwait_queue, asleep <- masleep

MCInit == Init /\ M!monitor_init

SemStep == M!monitor_init /\ Next /\ UNCHANGED monvars

MonitorStep == Init /\ M!Next /\ UNCHANGED vars

MCNext == SemStep \/ MonitorStep

\* A thread that holds the semaphore gives it back.
MCSpec ==
    /\ MCInit /\ [][MCNext]_<<vars, monvars>>
    /\ \A t \in Thread : WF_vars(Up(t))

\* "Only one process at a time may be be active in a monitor"; no signal is kept
\* for a thread that calls cond_wait later; and cond_wait and cond_signal always
\* pass the monitor on.
MonitorSafe == M!OneActive /\ M!NoStoredSignal /\ M!NeverLost

=============================================================================
