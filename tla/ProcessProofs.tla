--------------------------- MODULE ProcessProofs ---------------------------
(***************************************************************************)
(* Proofs of the safety invariants of Process, for every set of processes. *)
(*                                                                         *)
(* The inductive invariant joins the invariants of Process with Control,   *)
(* which ties the program counter of a process to its state.               *)
(***************************************************************************)
EXTENDS Process, FiniteSetTheorems, TLAPS

\* Every leaf has time enough on a busy machine.
USE SMTT(20), ZenonT(30), SMTT(60), SMTT(61)

\* Where each kind of process can be, and what that says of its state.
Control ==
    /\ pc[idleproc] = "idle" /\ state[idleproc] = "RUNNABLE"
    /\ pc[initproc] \in {"start", "wait", "asleep", "waited", "done"}
    /\ target[initproc] = ANY /\ parent[initproc] = idleproc
    /\ \A p \in User :
        /\ pc[p] \in {"user", "ret", "wait", "asleep", "waited", "sleep", "dead"}
        /\ parent[p] # idleproc
    /\ \A p \in Proc :
        /\ pc[p] = "dead" <=> state[p] \in {"FREE", "ZOMBIE"}
        /\ pc[p] \in {"asleep", "done"} => p = current
        /\ pc[p] = "asleep" => wait_state[p] = "WT_CHILD"
        /\ wait_state[p] = "WT_CHILD" => pc[p] \in {"asleep", "waited"}
        /\ wait_state[p] = "WT_TIMER" => pc[p] = "sleep"
        /\ state[p] = "FREE" => parent[p] = NONE
        /\ parent[p] # p

CoreInv ==
    /\ TypeOK
    /\ Control
    /\ SleepersWait
    /\ TimersMatchSleepers
    /\ RunQueueExact
    /\ ParentsAlive

\* rq is the exact run queue when the states are st and cur is running.
Exact(st, cur, rq) ==
    \A p \in Proc :
        rq[p] = IF st[p] = "RUNNABLE" /\ p \notin {idleproc, cur} THEN 1 ELSE 0

-----------------------------------------------------------------------------

\* schedule() keeps the run queue exact and leaves a runnable process running.
LEMMA ScheduleExact ==
    ASSUME TypeOK,
           NEW st \in [Proc -> States], NEW rq \in [Proc -> Nat],
           st[idleproc] = "RUNNABLE",
           Exact(st, current, rq),
           Schedule(st, rq)
    PROVE  /\ current' \in Proc
           /\ st[current'] = "RUNNABLE"
           /\ runq' \in [Proc -> Nat]
           /\ Exact(st, current', runq')
           /\ need_resched' = need_resched \ {current}
<1> DEFINE rq1 == IF st[current] = "RUNNABLE" THEN Enqueue(rq, {current}) ELSE rq
           ready == {p \in Proc : rq1[p] > 0}
<1>1. rq1 \in [Proc -> Nat]
  BY DEF Enqueue
<1>2. \A p \in Proc :
        rq1[p] = IF st[p] = "RUNNABLE" /\ p # idleproc THEN 1 ELSE 0
  BY DEF Enqueue, Exact, TypeOK
<1>3. CASE ready = {} /\ current' = idleproc /\ runq' = rq1
  BY <1>1, <1>2, <1>3, ProcAssumption, ZenonT(60) DEF Exact, Schedule
<1>4. CASE \E next \in ready :
             current' = next /\ runq' = [rq1 EXCEPT ![next] = @ - 1]
  <2>1. PICK next \in ready :
             current' = next /\ runq' = [rq1 EXCEPT ![next] = @ - 1]
    BY <1>4, ZenonT(60)
  <2>2. next \in Proc /\ st[next] = "RUNNABLE" /\ next # idleproc /\ rq1[next] = 1
    BY <1>2
  <2> HIDE DEF rq1, ready
  <2> QED
    BY <1>1, <1>2, <2>1, <2>2 DEF Exact, Schedule
<1> QED
  BY <1>3, <1>4, ZenonT(60) DEF Schedule

\* wakeup_proc on the processes of W keeps the run queue exact.
LEMMA WakeExact ==
    ASSUME TypeOK, RunQueueExact, state[idleproc] = "RUNNABLE", NEW W
    PROVE  /\ WakeState(state, W) \in [Proc -> States]
           /\ WakeWait(wait_state, W) \in [Proc -> WaitStates]
           /\ WakeQueue(runq, W) \in [Proc -> Nat]
           /\ Exact(WakeState(state, W), current, WakeQueue(runq, W))
<1>1. WakeState(state, W) \in [Proc -> States]
  BY DEF TypeOK, WakeState, States
<1>2. WakeWait(wait_state, W) \in [Proc -> WaitStates]
  BY DEF TypeOK, WakeWait, WaitStates
<1>3. WakeQueue(runq, W) \in [Proc -> Nat]
  BY DEF TypeOK, WakeQueue, Enqueue
<1>4. Exact(WakeState(state, W), current, WakeQueue(runq, W))
  <2> SUFFICES ASSUME NEW p \in Proc
               PROVE  WakeQueue(runq, W)[p] =
                        IF WakeState(state, W)[p] = "RUNNABLE"
                           /\ p \notin {idleproc, current}
                        THEN 1 ELSE 0
    BY DEF Exact
  <2>1. runq[p] = IF state[p] = "RUNNABLE" /\ p \notin {idleproc, current}
                  THEN 1 ELSE 0
    BY DEF RunQueueExact
  <2>2. CASE p \in Wakable(W)
    BY <2>1, <2>2 DEF WakeState, WakeQueue, Wakable, Enqueue
  <2>3. CASE p \notin Wakable(W)
    BY <2>1, <2>3 DEF WakeState, WakeQueue, Enqueue
  <2> QED
    BY <2>2, <2>3
<1> QED
  BY <1>1, <1>2, <1>3, <1>4

\* The invariant holds when the kernel starts.
LEMMA InitCore == Init => CoreInv
<1> SUFFICES ASSUME Init PROVE CoreInv
  OBVIOUS
<1>1. TypeOK
  <2>1. state \in [Proc -> States] /\ wait_state \in [Proc -> WaitStates]
    BY DEF Init, States, WaitStates
  <2>2. pc \in [Proc -> Labels]
    BY DEF Init, Labels
  <2>3. timer \in [Proc -> 0..MaxSleep] /\ runq \in [Proc -> Nat]
    BY ProcAssumption DEF Init
  <2>4. parent \in [Proc -> Proc \cup {NONE}] /\ target \in [Proc -> Proc \cup {ANY}]
    BY ProcAssumption DEF Init
  <2>5. /\ current \in Proc /\ exiting \subseteq Proc /\ need_resched \subseteq Proc
        /\ nr_process \in Int
    BY ProcAssumption DEF Init
  <2>6. panicked \in BOOLEAN
    BY ZenonT(60) DEF Init
  <2> QED
    BY <2>1, <2>2, <2>3, <2>4, <2>5, <2>6 DEF TypeOK
<1>2. Control /\ SleepersWait
  BY ProcAssumption DEF Init, Control, SleepersWait, User
<1>3. TimersMatchSleepers /\ RunQueueExact /\ ParentsAlive
  BY ProcAssumption DEF Init, TimersMatchSleepers, RunQueueExact, ParentsAlive, User
<1> QED
  BY <1>1, <1>2, <1>3 DEF CoreInv

\* A system call that only enters and leaves the kernel keeps the invariant.
LEMMA StepSysOther == CoreInv /\ SysOther => CoreInv'
  BY ProcAssumption
  DEF SysOther, InUserMode, At, Goto, CoreInv, TypeOK, Control, SleepersWait,
      TimersMatchSleepers, RunQueueExact, ParentsAlive, User, Labels

\* An undefined system call stops the kernel and keeps the invariant.
LEMMA StepSysUndefined == CoreInv /\ SysUndefined => CoreInv'
  BY DEF SysUndefined, CoreInv, TypeOK, Control, SleepersWait,
         TimersMatchSleepers, RunQueueExact, ParentsAlive

\* do_yield sets need_resched and keeps the invariant.
LEMMA StepSysYield == CoreInv /\ SysYield => CoreInv'
  BY ProcAssumption
  DEF SysYield, InUserMode, At, Goto, CoreInv, TypeOK, Control, SleepersWait,
      TimersMatchSleepers, RunQueueExact, ParentsAlive, User, Labels

\* The start of do_wait keeps the invariant.
LEMMA StepSysWait == CoreInv /\ SysWait => CoreInv'
  BY ProcAssumption
  DEF SysWait, InUserMode, At, Goto, CoreInv, TypeOK, Control, SleepersWait,
      TimersMatchSleepers, RunQueueExact, ParentsAlive, User, Labels

\* do_sleep unlinks its timer when it runs again; this keeps the invariant.
LEMMA StepSleepReturn == CoreInv /\ SleepReturn => CoreInv'
  BY ProcAssumption
  DEF SleepReturn, InUserMode, At, Goto, CoreInv, TypeOK, Control, SleepersWait,
      TimersMatchSleepers, RunQueueExact, ParentsAlive, User, Labels

\* do_wait without children returns; this keeps the invariant.
LEMMA StepWaitNoChild == CoreInv /\ WaitNoChild => CoreInv'
  BY ProcAssumption
  DEF WaitNoChild, InUserMode, At, Goto, CoreInv, TypeOK, Control, SleepersWait,
      TimersMatchSleepers, RunQueueExact, ParentsAlive, User, Labels

\* do_wait puts its caller to sleep with WT_CHILD; this keeps the invariant.
LEMMA StepWaitSleep == CoreInv /\ WaitSleep => CoreInv'
  BY ProcAssumption
  DEF WaitSleep, InUserMode, At, Goto, CoreInv, TypeOK, Control, SleepersWait,
      TimersMatchSleepers, RunQueueExact, ParentsAlive, User, Labels, States, WaitStates

\* do_fork of a child c of the running process keeps the invariant, whatever
\* the caller does next.
LEMMA StepFork ==
    ASSUME CoreInv, NEW child \in User, NEW label \in Labels,
           ForkChild(child, label),
           target' \in [Proc -> Proc \cup {ANY}], target'[initproc] = ANY,
           \/ current \in User /\ label = "ret"
           \/ current = initproc /\ label = "wait",
           state[current] = "RUNNABLE", pc[current] \in {"user", "start"}
    PROVE  CoreInv'
<1> USE ProcAssumption DEF CoreInv, ForkChild, User
<1>1. TypeOK'
  <2>1. state' \in [Proc -> States] /\ wait_state' \in [Proc -> WaitStates]
    BY DEF TypeOK, States, WaitStates
  <2>2. pc' \in [Proc -> Labels]
    BY DEF TypeOK, Labels
  <2>3. runq' \in [Proc -> Nat] /\ parent' \in [Proc -> Proc \cup {NONE}]
    BY DEF TypeOK, Enqueue
  <2>4. /\ current' \in Proc /\ timer' \in [Proc -> 0..MaxSleep]
        /\ exiting' \subseteq Proc /\ need_resched' \subseteq Proc
        /\ nr_process' \in Int /\ panicked' \in BOOLEAN
    BY DEF TypeOK
  <2> HIDE DEF ForkChild, CoreInv
  <2> QED
    BY <2>1, <2>2, <2>3, <2>4 DEF TypeOK
<1>2. Control'
  BY DEF TypeOK, Control
<1>3. SleepersWait' /\ TimersMatchSleepers'
  BY DEF TypeOK, SleepersWait, TimersMatchSleepers, Control
<1>4. RunQueueExact'
  BY DEF TypeOK, RunQueueExact, Enqueue
<1>5. ParentsAlive'
  BY DEF TypeOK, ParentsAlive, SleepersWait, Control
<1> QED
  BY <1>1, <1>2, <1>3, <1>4, <1>5

\* The fork system call keeps the invariant.
LEMMA StepSysFork == CoreInv /\ SysFork => CoreInv'
<1> SUFFICES ASSUME CoreInv, SysFork PROVE CoreInv'
  OBVIOUS
<1>1. current \in User /\ pc[current] = "user" /\ target' = target
  BY DEF SysFork, InUserMode, At
<1>2. state[current] = "RUNNABLE"
  BY <1>1 DEF CoreInv, TypeOK, Control, SleepersWait, States
<1>3. PICK child \in User : ForkChild(child, "ret")
  BY DEF SysFork
<1>4. target' \in [Proc -> Proc \cup {ANY}] /\ target'[initproc] = ANY
  BY <1>1 DEF CoreInv, TypeOK, Control
<1> QED
  BY <1>1, <1>2, <1>3, <1>4, StepFork DEF Labels

\* initproc forks the first user process; this keeps the invariant.
LEMMA StepInitStart == CoreInv /\ InitStart => CoreInv'
<1> SUFFICES ASSUME CoreInv, InitStart PROVE CoreInv'
  OBVIOUS
<1>1. current = initproc /\ pc[current] = "start"
  BY ProcAssumption DEF InitStart, At, CoreInv, Control, TypeOK, User
<1>2. state[current] = "RUNNABLE"
  BY <1>1 DEF CoreInv, TypeOK, Control, SleepersWait, States
<1>3. PICK child \in User : ForkChild(child, "wait")
  BY DEF InitStart
<1>4. target' \in [Proc -> Proc \cup {ANY}] /\ target'[initproc] = ANY
  BY ProcAssumption DEF InitStart, CoreInv, TypeOK
<1> QED
  BY <1>1, <1>2, <1>3, <1>4, StepFork DEF Labels

\* do_kill keeps the invariant, also when it wakes its target.
LEMMA StepSysKill == CoreInv /\ SysKill => CoreInv'
<1> SUFFICES ASSUME CoreInv, SysKill PROVE CoreInv'
  OBVIOUS
<1>1. PICK p \in Proc \ {idleproc} :
        /\ state[p] # "FREE" /\ p \notin exiting
        /\ exiting' = exiting \cup {p}
        /\ LET W == IF wait_state[p] # "none" THEN {p} ELSE {}
           IN  /\ state' = WakeState(state, W)
               /\ wait_state' = WakeWait(wait_state, W)
               /\ runq' = WakeQueue(runq, W)
  BY ZenonT(60) DEF SysKill
<1> DEFINE W == IF wait_state[p] # "none" THEN {p} ELSE {}
<1>2. /\ state' = WakeState(state, W)
      /\ wait_state' = WakeWait(wait_state, W)
      /\ runq' = WakeQueue(runq, W)
  BY <1>1
<1>3. /\ current \in User /\ pc[current] = "user"
      /\ pc' = [pc EXCEPT ![current] = "ret"]
      /\ UNCHANGED <<current, need_resched, parent, nr_process, target, timer,
                     panicked>>
  BY DEF SysKill, InUserMode, At, Goto
<1>4. \A q \in W : q \in Proc /\ state[q] = "SLEEPING"
  BY DEF CoreInv, SleepersWait
<1> HIDE DEF W
<1> USE DEF CoreInv
<1>5. /\ TypeOK' /\ Exact(state', current, runq')
  BY <1>1, <1>2, <1>3, WakeExact, ProcAssumption DEF Control, TypeOK, Labels
<1>6. \A q \in Proc : state'[q] = IF q \in W THEN "RUNNABLE" ELSE state[q]
  BY <1>2, <1>4 DEF WakeState, Wakable
<1>7. \A q \in Proc : wait_state'[q] = IF q \in W THEN "none" ELSE wait_state[q]
  BY <1>2, <1>4 DEF WakeWait, Wakable
<1>8. Control'
  BY <1>3, <1>4, <1>6, <1>7, ProcAssumption DEF Control, SleepersWait, TypeOK, User
<1>9. SleepersWait' /\ TimersMatchSleepers' /\ ParentsAlive'
  BY <1>3, <1>4, <1>6, <1>7, ProcAssumption
  DEF Control, SleepersWait, TypeOK, TimersMatchSleepers, ParentsAlive, User
<1> QED
  BY <1>3, <1>5, <1>8, <1>9 DEF Exact, RunQueueExact

\* A timer interrupt wakes the sleepers that run out and keeps the invariant.
LEMMA StepTick == CoreInv /\ Tick => CoreInv'
<1> SUFFICES ASSUME CoreInv, Tick PROVE CoreInv'
  OBVIOUS
<1>1. /\ current \in User => pc[current] = "user"
      /\ pc' = IF current \in User THEN [pc EXCEPT ![current] = "ret"] ELSE pc
      /\ UNCHANGED <<current, exiting, parent, nr_process, target, panicked>>
  BY ProcAssumption DEF Tick, InUserMode, At, Goto, User
<1>2. /\ state' = WakeState(state, Expired)
      /\ wait_state' = WakeWait(wait_state, Expired)
      /\ runq' = WakeQueue(runq, Expired)
      /\ timer' = CountDown
  BY DEF Tick
<1> USE DEF CoreInv
<1>3. TypeOK' /\ Exact(state', current, runq')
  <2>1. timer' \in [Proc -> 0..MaxSleep]
    BY <1>2, ProcAssumption DEF CountDown, TypeOK
  <2>2. pc' \in [Proc -> Labels]
    BY <1>1 DEF TypeOK, Labels
  <2>3. need_resched' \subseteq Proc
    BY DEF Tick, TypeOK
  <2> QED
    BY <1>1, <1>2, <2>1, <2>2, <2>3, WakeExact, ProcAssumption DEF Control, TypeOK
<1>4. \A q \in Proc : timer'[q] = IF timer[q] > 0 THEN timer[q] - 1 ELSE 0
  BY <1>2 DEF CountDown
<1>5. \A q \in Expired : q \in Proc /\ timer[q] = 1 /\ pc[q] = "sleep"
                         /\ state[q] \in {"SLEEPING", "RUNNABLE"}
  BY DEF Expired, TimersMatchSleepers
<1>6. \A q \in Proc : state'[q] = IF q \in Expired THEN "RUNNABLE" ELSE state[q]
  BY <1>2, <1>5 DEF WakeState, Wakable
<1>7. \A q \in Proc : wait_state'[q] = IF q \in Expired THEN "none" ELSE wait_state[q]
  BY <1>2, <1>5 DEF WakeWait, Wakable, SleepersWait
<1>8. Control'
  BY <1>1, <1>5, <1>6, <1>7, ProcAssumption DEF Control, TypeOK, User
<1>9. SleepersWait'
  BY <1>1, <1>5, <1>6, <1>7, ProcAssumption DEF SleepersWait, Control, TypeOK, User
<1>10. TimersMatchSleepers'
  BY <1>1, <1>4, <1>5, <1>6, <1>7, ProcAssumption
  DEF TimersMatchSleepers, Expired, Control, TypeOK, User
<1>11. ParentsAlive'
  BY <1>1, <1>5, <1>6 DEF ParentsAlive, TypeOK
<1> QED
  BY <1>1, <1>3, <1>8, <1>9, <1>10, <1>11 DEF Exact, RunQueueExact

\* do_sleep links a timer, sleeps and calls schedule(); this keeps the invariant.
LEMMA StepSysSleep == CoreInv /\ SysSleep => CoreInv'
<1> SUFFICES ASSUME CoreInv, SysSleep PROVE CoreInv'
  OBVIOUS
<1> USE DEF CoreInv
<1>1. /\ current \in User /\ pc[current] = "user"
      /\ pc' = [pc EXCEPT ![current] = "sleep"]
      /\ state' = [state EXCEPT ![current] = "SLEEPING"]
      /\ wait_state' = [wait_state EXCEPT ![current] = "WT_TIMER"]
      /\ UNCHANGED <<exiting, parent, nr_process, target, panicked>>
  BY DEF SysSleep, InUserMode, At, Goto
<1>2. PICK t \in 1..MaxSleep : timer' = [timer EXCEPT ![current] = t]
  BY ZenonT(60) DEF SysSleep
<1>3. state' \in [Proc -> States] /\ wait_state' \in [Proc -> WaitStates]
  BY <1>1 DEF TypeOK, States, WaitStates
<1>4. Exact(state', current, runq) /\ state'[idleproc] = "RUNNABLE"
  BY <1>1, ProcAssumption DEF RunQueueExact, Exact, TypeOK, Control, User
<1>5. /\ current' \in Proc
      /\ state'[current'] = "RUNNABLE"
      /\ runq' \in [Proc -> Nat]
      /\ Exact(state', current', runq')
      /\ need_resched' = need_resched \ {current}
  BY <1>3, <1>4, ScheduleExact, ZenonT(60) DEF SysSleep, TypeOK
<1>6. TypeOK'
  <2>1. pc' \in [Proc -> Labels] /\ timer' \in [Proc -> 0..MaxSleep]
    BY <1>1, <1>2, ProcAssumption DEF TypeOK, Labels
  <2> QED
    BY <1>1, <1>3, <1>5, <2>1 DEF TypeOK
<1>7. Control' /\ SleepersWait'
  BY <1>1, <1>5, ProcAssumption DEF Control, SleepersWait, TypeOK, User
<1>8. TimersMatchSleepers'
  BY <1>1, <1>2, ProcAssumption DEF TimersMatchSleepers, TypeOK, User
<1>9. ParentsAlive'
  BY <1>1 DEF ParentsAlive, TypeOK, Control
<1> QED
  BY <1>5, <1>6, <1>7, <1>8, <1>9 DEF Exact, RunQueueExact

\* schedule() called with the states as they are: cpu_idle, the trap epilogue,
\* do_wait.
LEMMA StepSchedule ==
    ASSUME CoreInv, Schedule(state, runq),
           NEW label \in Labels, pc' = [pc EXCEPT ![current] = label],
           \/ current = idleproc /\ label = "idle"
           \/ pc[current] = "ret" /\ label = "user"
           \/ pc[current] = "asleep" /\ label = "waited",
           UNCHANGED <<state, wait_state, exiting, parent, nr_process, target,
                       timer, panicked>>
    PROVE  CoreInv'
<1> USE DEF CoreInv
<1>1. Exact(state, current, runq) /\ state[idleproc] = "RUNNABLE"
  BY DEF RunQueueExact, Exact, Control
<1>2. /\ current' \in Proc
      /\ state[current'] = "RUNNABLE"
      /\ runq' \in [Proc -> Nat]
      /\ Exact(state, current', runq')
      /\ need_resched' = need_resched \ {current}
  BY <1>1, ScheduleExact DEF TypeOK
<1>3. TypeOK'
  BY <1>2, ZenonT(60) DEF TypeOK
<1>4. Control'
  BY <1>2, ProcAssumption DEF Control, SleepersWait, TypeOK, User
<1>5. SleepersWait' /\ TimersMatchSleepers' /\ ParentsAlive'
  BY <1>2, ProcAssumption
  DEF Control, SleepersWait, TimersMatchSleepers, ParentsAlive, TypeOK, User
<1> QED
  BY <1>2, <1>3, <1>4, <1>5 DEF Exact, RunQueueExact

\* The call of schedule() in do_wait keeps the invariant.
LEMMA StepWaitSchedule == CoreInv /\ WaitSchedule => CoreInv'
  BY StepSchedule DEF WaitSchedule, At, Goto, Labels

\* cpu_idle keeps the invariant.
LEMMA StepIdle == CoreInv /\ Idle => CoreInv'
<1> SUFFICES ASSUME CoreInv, Idle PROVE CoreInv'
  OBVIOUS
<1>1. current = idleproc /\ pc' = [pc EXCEPT ![current] = "idle"]
  BY ProcAssumption DEF Idle, At, CoreInv, Control, TypeOK, User
<1> QED
  BY <1>1, StepSchedule, ZenonT(60) DEF Idle, Labels

\* do_wait that finds a zombie removes it from the table; this keeps the
\* invariant.
LEMMA StepWaitFound == CoreInv /\ WaitFound => CoreInv'
<1> SUFFICES ASSUME CoreInv, WaitFound PROVE CoreInv'
  OBVIOUS
<1> USE DEF CoreInv
<1>1. PICK q \in Kids(current) :
        /\ state[q] = "ZOMBIE"
        /\ state' = [state EXCEPT ![q] = "FREE"]
        /\ parent' = [parent EXCEPT ![q] = NONE]
        /\ exiting' = exiting \ {q}
  BY ZenonT(60) DEF WaitFound
<1>2. q \in User /\ q # current /\ pc[q] = "dead"
  BY <1>1, ProcAssumption DEF Kids, Control, SleepersWait, User
<1>3. /\ pc[current] = "wait"
      /\ target' = [target EXCEPT ![current] = ANY]
      /\ nr_process' = nr_process - 1
      /\ UNCHANGED <<wait_state, timer, panicked>>
  BY DEF WaitFound, At
<1>4. state' \in [Proc -> States] /\ parent' \in [Proc -> Proc \cup {NONE}]
  BY <1>1, ZenonT(60) DEF TypeOK, States
<1>5. Exact(state', current, runq) /\ state'[idleproc] = "RUNNABLE"
  BY <1>1, <1>2, ProcAssumption DEF RunQueueExact, Exact, TypeOK, Control, User
<1>6. /\ current' \in Proc
      /\ state'[current'] = "RUNNABLE"
      /\ runq' \in [Proc -> Nat]
      /\ Exact(state', current', runq')
      /\ need_resched' \subseteq Proc
      /\ \/ current = initproc /\ pc' = pc
         \/ /\ current \in User /\ current' = current
            /\ pc' = [pc EXCEPT ![current] = "ret"]
  <2>1. CASE current = initproc /\ Schedule(state', runq) /\ UNCHANGED pc
    <3>1. runq \in [Proc -> Nat] /\ need_resched \subseteq Proc
      BY DEF TypeOK
    <3>2. /\ current' \in Proc
          /\ state'[current'] = "RUNNABLE"
          /\ runq' \in [Proc -> Nat]
          /\ Exact(state', current', runq')
          /\ need_resched' = need_resched \ {current}
      BY <1>4, <1>5, <2>1, <3>1, ScheduleExact
    <3> QED
      BY <2>1, <3>1, <3>2
  <2>2. CASE /\ current # initproc
             /\ pc' = [pc EXCEPT ![current] = "ret"]
             /\ UNCHANGED <<current, need_resched, runq>>
    <3>1. current \in User
      BY <1>3, <2>2 DEF Control, TypeOK, User
    <3>2. state[current] = "RUNNABLE" /\ state'[current] = "RUNNABLE"
      BY <1>1, <1>2, <1>3 DEF SleepersWait, Control, TypeOK, States
    <3> QED
      BY <1>5, <2>2, <3>1, <3>2 DEF TypeOK
  <2> QED
    BY <2>1, <2>2 DEF WaitFound, Goto
<1>7. TypeOK'
  <2>1. pc' \in [Proc -> Labels] /\ target' \in [Proc -> Proc \cup {ANY}]
    BY <1>3, <1>6 DEF TypeOK, Labels
  <2>2. exiting' \subseteq Proc
    BY <1>1 DEF TypeOK
  <2> QED
    BY <1>3, <1>4, <1>6, <2>1, <2>2 DEF TypeOK
<1>8. Control'
  BY <1>1, <1>2, <1>3, <1>6, ProcAssumption DEF Control, SleepersWait, TypeOK, User
<1>9. SleepersWait'
  BY <1>1, <1>2, <1>3, <1>6, ProcAssumption DEF Control, SleepersWait, TypeOK
<1>10. TimersMatchSleepers'
  BY <1>1, <1>2, <1>3, <1>6 DEF TimersMatchSleepers, TypeOK
<1>11. ParentsAlive'
  BY <1>1, <1>2, ProcAssumption DEF ParentsAlive, TypeOK, Kids
<1> QED
  BY <1>6, <1>7, <1>8, <1>9, <1>10, <1>11 DEF Exact, RunQueueExact

\* do_exit, by a process that is not asleep.
LEMMA StepExit ==
    ASSUME CoreInv, DoExit, state[current] = "RUNNABLE",
           current # idleproc, timer[current] = 0
    PROVE  CoreInv'
<1> USE DEF CoreInv
<1>1. CASE current = initproc
  BY <1>1 DEF DoExit, TypeOK, Control, SleepersWait, TimersMatchSleepers,
              RunQueueExact, ParentsAlive
<1>2. CASE current # initproc
  <2>1. /\ state' = [WakeState(state, ExitWakes) EXCEPT ![current] = "ZOMBIE"]
        /\ wait_state' = WakeWait(wait_state, ExitWakes)
        /\ parent' = Adopt
        /\ target' = [target EXCEPT ![current] = ANY]
        /\ pc' = [pc EXCEPT ![current] = "dead"]
        /\ Schedule(state', WakeQueue(runq, ExitWakes))
        /\ UNCHANGED <<exiting, nr_process, timer, panicked>>
    BY <1>2 DEF DoExit, Goto
  <2>2. \A p \in ExitWakes : p \in Proc /\ state[p] = "SLEEPING" /\ p # current
    BY DEF ExitWakes, SleepersWait, TypeOK
  <2>3. \A p \in Proc : state'[p] = IF p = current THEN "ZOMBIE"
                                    ELSE IF p \in ExitWakes THEN "RUNNABLE"
                                    ELSE state[p]
    BY <2>1, <2>2 DEF WakeState, Wakable
  <2>4. \A p \in Proc : wait_state'[p] = IF p \in ExitWakes THEN "none"
                                         ELSE wait_state[p]
    BY <2>1, <2>2 DEF WakeWait, Wakable
  <2>5. /\ WakeState(state, ExitWakes) \in [Proc -> States]
        /\ WakeWait(wait_state, ExitWakes) \in [Proc -> WaitStates]
        /\ WakeQueue(runq, ExitWakes) \in [Proc -> Nat]
        /\ Exact(WakeState(state, ExitWakes), current, WakeQueue(runq, ExitWakes))
    BY WakeExact DEF Control
  <2>6. state' \in [Proc -> States]
    BY <2>1, <2>5 DEF TypeOK, States
  <2>7. Exact(state', current, WakeQueue(runq, ExitWakes))
        /\ state'[idleproc] = "RUNNABLE"
    BY <2>1, <2>2, <2>3, <2>5, ProcAssumption DEF Exact, Control, TypeOK
  <2>8. /\ current' \in Proc
        /\ state'[current'] = "RUNNABLE"
        /\ runq' \in [Proc -> Nat]
        /\ Exact(state', current', runq')
        /\ need_resched' = need_resched \ {current}
    BY <2>1, <2>5, <2>6, <2>7, ScheduleExact, ZenonT(60)
  <2>9. TypeOK'
    <3>1. pc' \in [Proc -> Labels] /\ target' \in [Proc -> Proc \cup {ANY}]
      BY <2>1 DEF TypeOK, Labels
    <3>2. parent' \in [Proc -> Proc \cup {NONE}]
      BY <2>1, ProcAssumption DEF TypeOK, Adopt
    <3> QED
      BY <2>1, <2>5, <2>6, <2>8, <3>1, <3>2 DEF TypeOK
  <2>10. \A p \in Proc :
          parent'[p] = IF parent[p] = current THEN initproc ELSE parent[p]
    BY <2>1 DEF Adopt
  <2>11. Control'
    BY <1>2, <2>1, <2>2, <2>3, <2>4, <2>8, <2>10, ProcAssumption
    DEF Control, SleepersWait, TypeOK, User
  <2>12. SleepersWait' /\ TimersMatchSleepers'
    BY <1>2, <2>1, <2>2, <2>3, <2>4, <2>8, ProcAssumption
    DEF Control, SleepersWait, TimersMatchSleepers, TypeOK
  <2>13. ParentsAlive'
    BY <1>2, <2>2, <2>3, <2>10, ProcAssumption
    DEF ParentsAlive, Control, SleepersWait, TypeOK, States, User
  <2> QED
    BY <2>8, <2>9, <2>11, <2>12, <2>13 DEF Exact, RunQueueExact
<1> QED
  BY <1>1, <1>2

\* The exit system call keeps the invariant.
LEMMA StepSysExit == CoreInv /\ SysExit => CoreInv'
<1> SUFFICES ASSUME CoreInv, SysExit PROVE CoreInv'
  OBVIOUS
<1>1. current \in User /\ pc[current] = "user" /\ DoExit
  BY DEF SysExit, InUserMode, At
<1>2. state[current] = "RUNNABLE" /\ timer[current] = 0 /\ current # idleproc
  BY <1>1 DEF CoreInv, TypeOK, Control, SleepersWait, TimersMatchSleepers, States, User
<1> QED
  BY <1>1, <1>2, StepExit

\* The return of init_main keeps the invariant.
LEMMA StepInitDone == CoreInv /\ InitDone => CoreInv'
<1> SUFFICES ASSUME CoreInv, InitDone PROVE CoreInv'
  OBVIOUS
<1>1. pc[current] = "done" /\ DoExit
  BY DEF InitDone, At
<1>2. state[current] = "RUNNABLE" /\ timer[current] = 0 /\ current # idleproc
  BY <1>1 DEF CoreInv, TypeOK, Control, SleepersWait, TimersMatchSleepers, States
<1> QED
  BY <1>1, <1>2, StepExit

\* do_wait after schedule(), where a killed process exits, keeps the invariant.
LEMMA StepWaitResume == CoreInv /\ WaitResume => CoreInv'
<1> SUFFICES ASSUME CoreInv, WaitResume PROVE CoreInv'
  OBVIOUS
<1>1. pc[current] = "waited"
  BY DEF WaitResume, At
<1>2. state[current] = "RUNNABLE" /\ timer[current] = 0 /\ current # idleproc
  BY <1>1 DEF CoreInv, TypeOK, Control, SleepersWait, TimersMatchSleepers, States
<1>3. CASE DoExit
  BY <1>2, <1>3, StepExit
<1>4. CASE /\ Goto("wait")
           /\ UNCHANGED <<current, state, wait_state, exiting, need_resched,
                          runq, parent, nr_process, target, timer, panicked>>
  BY <1>1, <1>2, <1>4, ProcAssumption
  DEF Goto, CoreInv, TypeOK, Control, SleepersWait, TimersMatchSleepers,
      RunQueueExact, ParentsAlive, User, Labels
<1> QED
  BY <1>3, <1>4 DEF WaitResume

\* The epilogue of trap(), with do_exit or schedule(), keeps the invariant.
LEMMA StepTrapReturn == CoreInv /\ TrapReturn => CoreInv'
<1> SUFFICES ASSUME CoreInv, TrapReturn PROVE CoreInv'
  OBVIOUS
<1>1. pc[current] = "ret"
  BY DEF TrapReturn, At
<1>2. state[current] = "RUNNABLE" /\ timer[current] = 0 /\ current # idleproc
  BY <1>1 DEF CoreInv, TypeOK, Control, SleepersWait, TimersMatchSleepers, States
<1>3. CASE DoExit
  BY <1>2, <1>3, StepExit
<1>4. CASE /\ Goto("user")
           /\ Schedule(state, runq)
           /\ UNCHANGED <<state, wait_state, exiting, parent, nr_process,
                          target, timer, panicked>>
  BY <1>1, <1>4, StepSchedule DEF Goto, Labels
<1>5. CASE /\ Goto("user")
           /\ UNCHANGED <<current, need_resched, runq>>
           /\ UNCHANGED <<state, wait_state, exiting, parent, nr_process,
                          target, timer, panicked>>
  BY <1>1, <1>2, <1>5, ProcAssumption
  DEF Goto, CoreInv, TypeOK, Control, SleepersWait, TimersMatchSleepers,
      RunQueueExact, ParentsAlive, User, Labels
<1> QED
  BY <1>3, <1>4, <1>5 DEF TrapReturn

\* Every step of the kernel and of the user programs keeps the invariant.
THEOREM CoreStep == CoreInv /\ [Next]_vars => CoreInv'
<1> SUFFICES ASSUME CoreInv, [Next]_vars PROVE CoreInv'
  OBVIOUS
<1>1. CASE KernelStep
  BY <1>1, StepSleepReturn, StepWaitFound, StepWaitSleep, StepWaitSchedule,
     StepWaitNoChild, StepWaitResume, StepTrapReturn, StepIdle, StepInitStart,
     StepInitDone DEF KernelStep
<1>2. CASE UserStep
  BY <1>2, StepSysFork, StepSysOther, StepSysUndefined, StepSysExit, StepSysYield,
     StepSysKill, StepSysSleep, StepSysWait DEF UserStep
<1>3. CASE Tick
  BY <1>3, StepTick
<1>4. CASE UNCHANGED vars
  BY <1>4 DEF vars, CoreInv, TypeOK, Control, SleepersWait, TimersMatchSleepers,
              RunQueueExact, ParentsAlive
<1> QED
  BY <1>1, <1>2, <1>3, <1>4 DEF Next, Panicked

\* The inductive invariant holds in every reachable state.
THEOREM CoreCorrect == Spec => []CoreInv
  BY InitCore, CoreStep, PTL DEF Spec

\* Type correctness of the process table.
THEOREM ProcessTypeOK == Spec => []TypeOK
  BY CoreCorrect, PTL DEF CoreInv

\* The run queue is exact in every reachable state.
THEOREM ProcessRunQueueExact == Spec => []RunQueueExact
  BY CoreCorrect, PTL DEF CoreInv

\* do_exit hands every child to initproc, so no process is ever left with a
\* parent that is gone.
THEOREM ProcessParentsAlive == Spec => []ParentsAlive
  BY CoreCorrect, PTL DEF CoreInv

\* The timer of do_sleep is in the list only while its frame is alive, and a
\* process asleep in do_sleep has one.
THEOREM ProcessTimers == Spec => []TimersMatchSleepers
  BY CoreCorrect, PTL DEF CoreInv

\* A process sleeps exactly while it has a wait state, so wakeup_proc and
\* do_kill see every sleeper.
THEOREM ProcessSleepersWait == Spec => []SleepersWait
  BY CoreCorrect, PTL DEF CoreInv

-----------------------------------------------------------------------------
(* No lost wakeup. *)

\* How do_exit of a process other than initproc changes the process table.
LEMMA ExitEffect ==
    ASSUME CoreInv, DoExit, current # initproc
    PROVE  /\ \A p \in ExitWakes : p \in Proc /\ state[p] = "SLEEPING"
           /\ \A p \in Proc : state'[p] = IF p = current THEN "ZOMBIE"
                                          ELSE IF p \in ExitWakes THEN "RUNNABLE"
                                          ELSE state[p]
           /\ \A p \in Proc : wait_state'[p] = IF p \in ExitWakes THEN "none"
                                               ELSE wait_state[p]
           /\ \A p \in Proc :
                parent'[p] = IF parent[p] = current THEN initproc ELSE parent[p]
           /\ target' = [target EXCEPT ![current] = ANY]
           /\ pc' = [pc EXCEPT ![current] = "dead"]
           /\ UNCHANGED <<nr_process, panicked>>
<1> USE DEF CoreInv
<1>1. \A p \in ExitWakes : p \in Proc /\ state[p] = "SLEEPING"
  BY DEF ExitWakes, SleepersWait
<1>2. /\ state' = [WakeState(state, ExitWakes) EXCEPT ![current] = "ZOMBIE"]
      /\ wait_state' = WakeWait(wait_state, ExitWakes)
      /\ parent' = Adopt
      /\ target' = [target EXCEPT ![current] = ANY]
      /\ pc' = [pc EXCEPT ![current] = "dead"]
      /\ UNCHANGED <<nr_process, panicked>>
  BY DEF DoExit, Goto
<1>3. \A p \in Proc : state'[p] = IF p = current THEN "ZOMBIE"
                                  ELSE IF p \in ExitWakes THEN "RUNNABLE"
                                  ELSE state[p]
  BY <1>1, <1>2 DEF WakeState, Wakable
<1>4. \A p \in Proc : wait_state'[p] = IF p \in ExitWakes THEN "none"
                                       ELSE wait_state[p]
  BY <1>1, <1>2 DEF WakeWait, Wakable
<1> QED
  BY <1>1, <1>2, <1>3, <1>4, ZenonT(60) DEF Adopt

\* do_exit wakes the parent, and initproc for zombies it hands over, so that
\* nobody sleeps beside a zombie child.
LEMMA WakeupExit ==
    ASSUME CoreInv, NoLostWakeup, DoExit, state[current] = "RUNNABLE"
    PROVE  NoLostWakeup'
<1> USE DEF CoreInv
<1>1. CASE current = initproc
  BY <1>1 DEF DoExit, NoLostWakeup, Kids
<1>2. CASE current # initproc
  <2> SUFFICES ASSUME NEW p \in Proc, wait_state'[p] = "WT_CHILD"
               PROVE  Kids(p)' # {} /\ \A q \in Kids(p)' : state'[q] # "ZOMBIE"
    BY DEF NoLostWakeup
  <2>1. /\ p \notin ExitWakes
        /\ wait_state[p] = "WT_CHILD"
    BY <1>2, ExitEffect
  <2>2. p # current
    BY <2>1 DEF SleepersWait
  <2>3. target'[p] = target[p]
    BY <1>2, <2>2, ExitEffect DEF TypeOK
  <2>4. Kids(p) \subseteq Kids(p)'
    BY <1>2, <2>2, <2>3, ExitEffect DEF Kids
  <2>5. \A q \in Kids(p) : state[q] # "ZOMBIE"
    BY <2>1 DEF NoLostWakeup
  <2>6. parent[current] # p /\ (p = initproc =>
          \A q \in Proc : parent[q] = current => state[q] # "ZOMBIE")
    BY <2>1 DEF ExitWakes
  <2>7. ASSUME NEW q \in Kids(p)' PROVE state'[q] # "ZOMBIE"
    <3>1. q \in Proc /\ parent'[q] = p /\ target[p] \in {q, ANY}
      BY <2>3 DEF Kids
    <3>2. q # current
      BY <1>2, <2>6, <3>1, ExitEffect, ProcAssumption DEF ParentsAlive, Control
    <3>3. state[q] # "ZOMBIE"
      BY <1>2, <2>5, <2>6, <3>1, ExitEffect DEF Kids
    <3> QED
      BY <1>2, <3>1, <3>2, <3>3, ExitEffect
  <2> QED
    BY <2>1, <2>4, <2>7 DEF NoLostWakeup
<1> QED
  BY <1>1, <1>2

\* A step that only wakes processes, or does not touch the process tree.
LEMMA WakeupQuiet ==
    ASSUME CoreInv, NoLostWakeup,
           \A p \in Proc : wait_state'[p] = "WT_CHILD" =>
                wait_state[p] = "WT_CHILD" /\ target'[p] = target[p],
           parent' = parent,
           \A p \in Proc : state'[p] = "ZOMBIE" => state[p] = "ZOMBIE"
    PROVE  NoLostWakeup'
  BY DEF NoLostWakeup, Kids

\* A new child is no zombie: do_fork cannot make a sleeper miss one.
LEMMA WakeupFork ==
    ASSUME CoreInv, NoLostWakeup, NEW child \in User, NEW label,
           ForkChild(child, label), state[current] = "RUNNABLE",
           target' = target \/ target' = [target EXCEPT ![initproc] = ANY]
    PROVE  NoLostWakeup'
<1> USE DEF CoreInv
<1> SUFFICES ASSUME NEW p \in Proc, wait_state'[p] = "WT_CHILD"
             PROVE  Kids(p)' # {} /\ \A q \in Kids(p)' : state'[q] # "ZOMBIE"
  BY DEF NoLostWakeup
<1>1. wait_state[p] = "WT_CHILD" /\ p # child
  BY DEF ForkChild, TypeOK
<1>2. p # current
  BY <1>1 DEF SleepersWait
<1>3. target'[p] = target[p]
  BY DEF TypeOK, Control
<1>4. parent[child] = NONE /\ p # NONE /\ parent'[child] = current
  BY ProcAssumption DEF ForkChild, Control, User, TypeOK
<1>5. Kids(p)' = Kids(p) /\ child \notin Kids(p)
  BY <1>2, <1>3, <1>4 DEF Kids, ForkChild, TypeOK
<1> QED
  BY <1>1, <1>5 DEF NoLostWakeup, ForkChild, Kids, TypeOK

\* No step makes a process sleep in do_wait beside a zombie it waits for.
THEOREM WakeupStep == CoreInv /\ NoLostWakeup /\ [Next]_vars => NoLostWakeup'
<1> SUFFICES ASSUME CoreInv, NoLostWakeup, [Next]_vars PROVE NoLostWakeup'
  OBVIOUS
<1> USE DEF CoreInv
<1>1. CASE \/ SleepReturn \/ WaitSchedule \/ WaitNoChild \/ Idle
           \/ SysOther \/ SysUndefined \/ SysYield \/ SysSleep \/ SysWait
  <2>1. /\ parent' = parent
        /\ \A p \in Proc : state'[p] \in {state[p], "SLEEPING"}
    BY <1>1 DEF SleepReturn, WaitSchedule, WaitNoChild, Idle, SysOther, SysUndefined,
                SysYield, SysSleep, SysWait, TypeOK
  <2>2. \A p \in Proc : wait_state'[p] = "WT_CHILD" => wait_state[p] = "WT_CHILD"
    BY <1>1 DEF SleepReturn, WaitSchedule, WaitNoChild, Idle, SysOther, SysUndefined,
                SysYield, SysSleep, SysWait, TypeOK
  <2>3. \A p \in Proc : wait_state[p] = "WT_CHILD" => target'[p] = target[p]
    BY <1>1 DEF SleepReturn, WaitSchedule, WaitNoChild, Idle, SysOther, SysUndefined,
                SysYield, SysSleep, SysWait, InUserMode, At, TypeOK, Control
  <2> QED
    BY <2>1, <2>2, <2>3, WakeupQuiet
<1>2. CASE WaitSleep
  BY <1>2 DEF WaitSleep, At, NoLostWakeup, Kids, TypeOK
<1>3. CASE WaitFound
  <2>1. PICK q \in Kids(current) :
        /\ state[q] = "ZOMBIE"
        /\ state' = [state EXCEPT ![q] = "FREE"]
        /\ parent' = [parent EXCEPT ![q] = NONE]
    BY <1>3, ZenonT(60) DEF WaitFound
  <2>2. /\ target' = [target EXCEPT ![current] = ANY]
        /\ wait_state' = wait_state /\ pc[current] = "wait"
    BY <1>3 DEF WaitFound, At
  <2>3. wait_state[current] # "WT_CHILD"
    BY <2>2 DEF Control, TypeOK
  <2> QED
    BY <2>1, <2>2, <2>3, ProcAssumption DEF NoLostWakeup, Kids, TypeOK
<1>4. CASE SysKill \/ Tick
  <2>1. PICK W : state' = WakeState(state, W) /\ wait_state' = WakeWait(wait_state, W)
    BY <1>4, ZenonT(60) DEF SysKill, Tick
  <2>2. parent' = parent /\ target' = target
    BY <1>4 DEF SysKill, Tick
  <2> QED
    BY <2>1, <2>2, WakeupQuiet DEF WakeState, WakeWait
<1>5. CASE SysFork \/ InitStart
  <2>1. state[current] = "RUNNABLE"
    BY <1>5 DEF SysFork, InitStart, InUserMode, At, TypeOK, Control, SleepersWait, States
  <2> QED
    BY <1>5, <2>1, WakeupFork DEF SysFork, InitStart
<1>6. CASE WaitResume \/ TrapReturn \/ SysExit \/ InitDone
  <2>1. state[current] = "RUNNABLE"
    BY <1>6 DEF WaitResume, TrapReturn, SysExit, InitDone, InUserMode, At,
                TypeOK, Control, SleepersWait, States
  <2>2. CASE DoExit
    BY <2>1, <2>2, WakeupExit
  <2>3. CASE UNCHANGED <<state, wait_state, parent, target>>
    BY <2>3, WakeupQuiet
  <2> QED
    BY <1>6, <2>2, <2>3 DEF WaitResume, TrapReturn, SysExit, InitDone
<1>7. CASE UNCHANGED vars
  BY <1>7, WakeupQuiet DEF vars
<1> QED
  BY <1>1, <1>2, <1>3, <1>4, <1>5, <1>6, <1>7
  DEF Next, KernelStep, UserStep, Panicked

\* No process sleeps in do_wait while a child it waits for is a zombie.
THEOREM ProcessNoLostWakeup == Spec => []NoLostWakeup
<1>1. Init => NoLostWakeup
  BY DEF Init, NoLostWakeup
<1> QED
  BY <1>1, CoreCorrect, WakeupStep, PTL DEF Spec

-----------------------------------------------------------------------------
(* The asserts of init_main.                                                *)

Live == {p \in Proc : state[p] # "FREE"}

\* The parents of the user processes form no cycle: every set of them has a
\* member whose parent is outside.
Forest ==
    \A S \in SUBSET User :
        S # {} /\ S \subseteq Live => \E p \in S : parent[p] \notin S

CountInv ==
    /\ IsFiniteSet(Live)
    /\ nr_process = Cardinality(Live)
    /\ nr_process <= MAX_PROCESS

\* The effect of a step on the process tree.
LEMMA TreeStep ==
    ASSUME CoreInv, [Next]_vars
    PROVE  \/ /\ Live' = Live /\ nr_process' = nr_process
              /\ \A p \in Proc : parent'[p] \in {parent[p], initproc}
           \/ \E q \in Live \cap User :
              /\ Live' = Live \ {q} /\ nr_process' = nr_process - 1
              /\ \A p \in Live' : parent'[p] = parent[p]
           \/ \E q \in User \ Live :
              /\ Live' = Live \cup {q} /\ nr_process' = nr_process + 1
              /\ nr_process < MAX_PROCESS
              /\ parent'[q] \in Live
              /\ \A p \in Live : parent'[p] = parent[p]
<1> USE DEF CoreInv
<1>1. CASE \/ SleepReturn \/ WaitSchedule \/ WaitNoChild \/ Idle
           \/ SysOther \/ SysUndefined \/ SysYield \/ SysWait \/ UNCHANGED vars
  BY <1>1, ZenonT(60) DEF SleepReturn, WaitSchedule, WaitNoChild, Idle, SysOther, SysUndefined,
              SysYield, SysWait, vars, Live
<1>2. CASE WaitSleep \/ SysSleep
  <2>1. /\ state' = [state EXCEPT ![current] = "SLEEPING"]
        /\ UNCHANGED <<parent, nr_process>>
    BY <1>2 DEF WaitSleep, SysSleep
  <2>2. state[current] # "FREE"
    BY <1>2 DEF WaitSleep, SysSleep, InUserMode, At, Control, TypeOK
  <2> QED
    BY <2>1, <2>2 DEF Live, TypeOK
<1>3. CASE WaitFound
  <2>1. PICK q \in Kids(current) :
        /\ state[q] = "ZOMBIE"
        /\ state' = [state EXCEPT ![q] = "FREE"]
        /\ parent' = [parent EXCEPT ![q] = NONE]
    BY <1>3, ZenonT(60) DEF WaitFound
  <2>2. q \in User /\ q \in Live /\ nr_process' = nr_process - 1
    BY <1>3, <2>1, ProcAssumption DEF WaitFound, Kids, Control, User, Live
  <2>3. Live' = Live \ {q}
    BY <2>1, <2>2 DEF Live, TypeOK, User
  <2> QED
    BY <2>1, <2>2, <2>3 DEF TypeOK, Live
<1>4. CASE SysKill \/ Tick
  <2>1. PICK W : state' = WakeState(state, W) /\ W \cap {p \in Proc : state[p] = "FREE"} = {}
    <3>1. CASE SysKill
      BY <3>1 DEF SysKill
    <3>2. CASE Tick
      BY <3>2 DEF Tick, Expired, TimersMatchSleepers
    <3> QED
      BY <1>4, <3>1, <3>2
  <2>2. parent' = parent /\ nr_process' = nr_process
    BY <1>4 DEF SysKill, Tick
  <2> QED
    BY <2>1, <2>2 DEF WakeState, Wakable, Live
<1>5. CASE SysFork \/ InitStart
  <2>1. PICK child \in User, label \in Labels : ForkChild(child, label)
    BY <1>5 DEF SysFork, InitStart, Labels
  <2>2. state[current] # "FREE" /\ current \in Proc
    BY <1>5 DEF SysFork, InitStart, InUserMode, At, TypeOK, Control
  <2>3. child \in User \ Live /\ Live' = Live \cup {child} /\ parent'[child] = current
    BY <2>1 DEF ForkChild, Live, TypeOK, User
  <2> QED
    BY <2>1, <2>2, <2>3 DEF ForkChild, ForkRoom, TypeOK, Live
<1>6. CASE WaitResume \/ TrapReturn \/ SysExit \/ InitDone
  <2>1. state[current] # "FREE"
    BY <1>6 DEF WaitResume, TrapReturn, SysExit, InitDone, InUserMode, At,
                TypeOK, Control
  <2>2. CASE DoExit
    <3>1. CASE current = initproc
      BY <2>2, <3>1 DEF DoExit, Live
    <3>2. CASE current # initproc
      <4>1. Live' = Live
        BY <2>1, <2>2, <3>2, ExitEffect DEF Live
      <4> QED
        BY <2>2, <3>2, <4>1, ExitEffect
    <3> QED
      BY <3>1, <3>2
  <2>3. CASE UNCHANGED <<state, parent, nr_process>>
    BY <2>3 DEF Live
  <2> QED
    BY <1>6, <2>2, <2>3, ZenonT(60) DEF WaitResume, TrapReturn, SysExit, InitDone
<1> QED
  BY <1>1, <1>2, <1>3, <1>4, <1>5, <1>6
  DEF Next, KernelStep, UserStep, Panicked

\* The parent links stay a forest rooted at idleproc.
LEMMA ForestStep == CoreInv /\ Forest /\ [Next]_vars => Forest'
<1> SUFFICES ASSUME CoreInv, Forest, [Next]_vars,
                    NEW S \in SUBSET User, S # {}, S \subseteq Live'
             PROVE  \E p \in S : parent'[p] \notin S
  BY DEF Forest
<1>1. CASE /\ Live' = Live
           /\ \A p \in Proc : parent'[p] \in {parent[p], initproc}
  BY <1>1 DEF Forest, User
<1>2. ASSUME NEW q \in Live \cap User,
             Live' = Live \ {q}, \A p \in Live' : parent'[p] = parent[p]
      PROVE  \E p \in S : parent'[p] \notin S
  BY <1>2 DEF Forest
<1>3. ASSUME NEW q \in User \ Live,
             Live' = Live \cup {q}, parent'[q] \in Live,
             \A p \in Live : parent'[p] = parent[p]
      PROVE  \E p \in S : parent'[p] \notin S
  <2>1. CASE S = {q}
    BY <1>3, <2>1
  <2>2. CASE S # {q}
    <3>1. S \ {q} # {} /\ S \ {q} \in SUBSET User /\ S \ {q} \subseteq Live
      BY <1>3, <2>2
    <3>2. PICK p \in S \ {q} : parent[p] \notin S \ {q}
      BY <3>1, ZenonT(60) DEF Forest
    <3>3. parent[p] # q
      BY <3>1, <1>3 DEF CoreInv, ParentsAlive, Live, User
    <3> QED
      BY <1>3, <3>1, <3>2, <3>3
  <2> QED
    BY <2>1, <2>2
<1> QED
  BY <1>1, <1>2, <1>3, TreeStep

\* nr_process follows do_fork and the removal of a zombie in do_wait.
LEMMA CountStep == CoreInv /\ CountInv /\ [Next]_vars => CountInv'
<1> SUFFICES ASSUME CoreInv, CountInv, [Next]_vars PROVE CountInv'
  OBVIOUS
<1>1. CASE Live' = Live /\ nr_process' = nr_process
  BY <1>1 DEF CountInv
<1>2. ASSUME NEW q \in Live, Live' = Live \ {q}, nr_process' = nr_process - 1
      PROVE  CountInv'
  <2>1. IsFiniteSet(Live') /\ Cardinality(Live') = Cardinality(Live) - 1
    BY <1>2, FS_RemoveElement DEF CountInv
  <2>2. Cardinality(Live) \in Nat
    BY FS_CardinalityType DEF CountInv
  <2> QED
    BY <1>2, <2>1, <2>2, ProcAssumption DEF CountInv
<1>3. ASSUME NEW q, q \notin Live, Live' = Live \cup {q},
             nr_process' = nr_process + 1, nr_process < MAX_PROCESS
      PROVE  CountInv'
  <2>1. IsFiniteSet(Live') /\ Cardinality(Live') = Cardinality(Live) + 1
    BY <1>3, FS_AddElement DEF CountInv
  <2>2. Cardinality(Live) \in Nat
    BY FS_CardinalityType DEF CountInv
  <2> QED
    BY <1>3, <2>1, <2>2, ProcAssumption DEF CountInv
<1> QED
  BY <1>1, <1>2, <1>3, TreeStep

\* initproc returns from its loop only when no other process is left.
LEMMA QuitStep ==
    CoreInv /\ Forest /\ CountInv /\ AllQuit /\ [Next]_vars => AllQuit'
<1> SUFFICES ASSUME CoreInv, Forest, CountInv, AllQuit, [Next]_vars,
                    pc'[initproc] = "done"
             PROVE  nr_process' = 2 /\ \A p \in User : state'[p] = "FREE"
  BY DEF AllQuit
<1> USE DEF CoreInv
<1>1. CASE pc[initproc] = "done"
  <2>1. current = initproc /\ current \notin User /\ pc[current] = "done"
    BY <1>1, ProcAssumption DEF Control, User
  <2>2. CASE Tick
    <3>1. nr_process' = nr_process /\ state' = WakeState(state, Expired)
      BY <2>2, ZenonT(60) DEF Tick
    <3>2. \A p \in User : p \notin Expired
      BY <1>1 DEF AllQuit, Expired, TimersMatchSleepers, User
    <3> QED
      BY <1>1, <3>1, <3>2 DEF AllQuit, WakeState, Wakable, User
  <2>3. CASE InitDone \/ UNCHANGED vars
    BY <1>1, <2>1, <2>3 DEF InitDone, DoExit, vars, AllQuit
  <2> QED
    BY <2>1, <2>2, <2>3, ZenonT(60)
    DEF Next, KernelStep, UserStep, Panicked, SleepReturn, WaitFound, WaitSleep,
        WaitSchedule, WaitNoChild, WaitResume, TrapReturn, Idle, InitStart,
        SysFork, SysOther, SysUndefined, SysExit, SysYield, SysKill, SysSleep, SysWait,
        InUserMode, At
<1>2. CASE pc[initproc] # "done"
  <2>1. WaitNoChild /\ current = initproc
    <3>1. CASE \/ SleepReturn \/ WaitSchedule \/ Idle \/ WaitSleep
               \/ SysOther \/ SysUndefined \/ SysYield \/ SysWait \/ SysSleep \/ SysKill
               \/ UNCHANGED vars
      BY <1>2, <3>1, ProcAssumption DEF SleepReturn, WaitSchedule, Idle, WaitSleep, SysOther,
            SysUndefined, SysYield, SysWait, SysSleep, SysKill, Goto, vars, TypeOK
    <3>2. CASE SysFork \/ InitStart
      <4>1. PICK child \in User, label \in {"ret", "wait"} :
              pc' = [pc EXCEPT ![child] = "user", ![current] = label]
        BY <3>2, ZenonT(60) DEF SysFork, InitStart, ForkChild
      <4> QED
        BY <1>2, <4>1, ProcAssumption DEF TypeOK, User
    <3>3. CASE Tick
      BY <1>2, <3>3, ProcAssumption DEF Tick, Goto, TypeOK
    <3>4. CASE WaitFound
      BY <1>2, <3>4, ProcAssumption DEF WaitFound, Goto, TypeOK
    <3>5. CASE WaitResume \/ TrapReturn \/ SysExit \/ InitDone
      <4>1. CASE DoExit
        BY <1>2, <4>1, ProcAssumption DEF DoExit, Goto, TypeOK
      <4>2. CASE Goto("wait") \/ Goto("user")
        BY <1>2, <4>2, ProcAssumption DEF Goto, TypeOK
      <4> QED
        BY <3>5, <4>1, <4>2 DEF WaitResume, TrapReturn, SysExit, InitDone
    <3>6. CASE WaitNoChild
      BY <1>2, <3>6, ProcAssumption DEF WaitNoChild, Goto, TypeOK
    <3> QED
      BY <3>1, <3>2, <3>3, <3>4, <3>5, <3>6
      DEF Next, KernelStep, UserStep, Panicked
  <2>2. \A q \in Proc : parent[q] # initproc
    BY <2>1 DEF WaitNoChild, Kids, Control
  <2> DEFINE S == Live \cap User
  <2>3. ASSUME S # {} PROVE FALSE
    <3>1. PICK p \in S : parent[p] \notin S
      BY <2>3, ZenonT(60) DEF Forest
    <3>2. parent[p] \in Proc /\ parent[p] \in Live
      BY <3>1 DEF ParentsAlive, Live, User
    <3>3. parent[p] # idleproc
      BY <3>1 DEF Control
    <3> QED
      BY <2>2, <3>1, <3>2, <3>3 DEF User, Live
  <2>4. Live = {idleproc, initproc}
    BY <2>3, ProcAssumption DEF Live, User, Control, TypeOK
  <2>5. Cardinality(Live) = 2
    <3>1. IsFiniteSet({idleproc}) /\ Cardinality({idleproc}) = 1
      BY FS_Singleton, ZenonT(60)
    <3>2. Live = {idleproc} \cup {initproc} /\ initproc \notin {idleproc}
      BY <2>4, ProcAssumption
    <3>3. Cardinality({idleproc} \cup {initproc}) = Cardinality({idleproc}) + 1
      BY <3>1, <3>2, FS_AddElement
    <3> QED
      BY <3>1, <3>2, <3>3
  <2>6. nr_process' = nr_process /\ state' = state
    BY <2>1 DEF WaitNoChild
  <2> QED
    BY <2>3, <2>5, <2>6 DEF CountInv, Live, User
<1> QED
  BY <1>1, <1>2

\* The asserts at the end of init_main never fail, whatever the user programs
\* do and whenever the timer interrupts.
THEOREM ProcessAllQuit == Spec => []AllQuit
<1>1. Init => Forest /\ CountInv /\ AllQuit
  <2> SUFFICES ASSUME Init PROVE Forest /\ CountInv /\ AllQuit
    OBVIOUS
  <2>1. Live = {idleproc} \cup {initproc} /\ initproc \notin {idleproc}
    BY ProcAssumption DEF Init, Live, User
  <2>2. IsFiniteSet({idleproc}) /\ Cardinality({idleproc}) = 1
    BY FS_Singleton, ZenonT(60)
  <2>3. IsFiniteSet(Live) /\ Cardinality(Live) = 2
    BY <2>1, <2>2, FS_AddElement
  <2>4. Live \cap User = {}
    BY <2>1 DEF User
  <2>5. AllQuit
    BY ProcAssumption DEF Init, AllQuit
  <2> QED
    BY <2>3, <2>4, <2>5, ProcAssumption DEF Forest, CountInv, Init
<1> QED
  BY <1>1, CoreCorrect, ForestStep, CountStep, QuitStep, PTL DEF Spec

\* nr_process is the number of processes and never exceeds MAX_PROCESS.
THEOREM ProcessCountExact == Spec => []CountExact
<1>1. Init => CountInv
  <2> SUFFICES ASSUME Init PROVE CountInv
    OBVIOUS
  <2>1. Live = {idleproc} \cup {initproc} /\ initproc \notin {idleproc}
    BY ProcAssumption DEF Init, Live, User
  <2>2. IsFiniteSet({idleproc}) /\ Cardinality({idleproc}) = 1
    BY FS_Singleton, ZenonT(60)
  <2>3. IsFiniteSet(Live) /\ Cardinality(Live) = 2
    BY <2>1, <2>2, FS_AddElement
  <2> QED
    BY <2>3, ProcAssumption DEF CountInv, Init
<1>2. CountInv => CountExact
  BY DEF CountInv, CountExact, Live
<1> QED
  BY <1>1, <1>2, CoreCorrect, CountStep, PTL DEF Spec

=============================================================================
