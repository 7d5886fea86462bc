------------------------------ MODULE Process ------------------------------
(***************************************************************************)
(* The process life cycle of the kernel: fork, exit, wait, kill, sleep,    *)
(* yield, the timer interrupt, the trap epilogue and schedule()            *)
(* (kern/process/proc.c, kern/schedule/sched.c, kern/trap/trap.c).         *)
(*                                                                         *)
(* The machine has one processor.  A trap clears the interrupt-enable bit  *)
(* and nothing on the system-call path sets it again, so the code between  *)
(* two calls of schedule() is not interleaved with anything: each such     *)
(* stretch is one action.  The timer interrupt is taken in user mode, in   *)
(* the idle loop, and anywhere in the kernel thread initproc, which runs   *)
(* with interrupts enabled.                                                *)
(*                                                                         *)
(* A process is named by its slot in Proc; the slot stands for both the    *)
(* proc_struct and its pid.  Which runnable process pick_next chooses is   *)
(* left open here (module Stride models the choice), and a sleeper's timer *)
(* is its remaining ticks (module TimerList models the delta list).        *)
(***************************************************************************)
EXTENDS Integers, FiniteSets

CONSTANTS Proc,         \* proc_struct slots
          idleproc,     \* pid 0
          initproc,     \* pid 1
          ANY,          \* waitpid(0): any child
          NONE,         \* the NULL parent
          MAX_PROCESS,  \* limit on nr_process
          MaxSleep      \* bound on the argument of sleep()

ASSUME ProcAssumption ==
    /\ idleproc \in Proc /\ initproc \in Proc /\ idleproc # initproc
    /\ ANY \notin Proc /\ NONE \notin Proc
    /\ MAX_PROCESS \in Nat /\ MAX_PROCESS >= 2
    /\ MaxSleep \in Nat \ {0}

VARIABLES current,      \* the running process
          state,        \* proc->state; "FREE" is a slot that is not allocated
          wait_state,   \* proc->wait_state
          exiting,      \* processes whose flags hold PF_EXITING
          need_resched, \* processes whose need_resched is set
          runq,         \* how many times each process is in the run queue
          parent,       \* proc->parent
          nr_process,   \* number of processes
          pc,           \* where each process is, or will resume
          target,       \* the pid argument of a do_wait in progress, else ANY
          timer,        \* remaining ticks of the timer of do_sleep, 0 if none
          panicked      \* the kernel has panicked

vars == <<current, state, wait_state, exiting, need_resched, runq, parent,
          nr_process, pc, target, timer, panicked>>

User == Proc \ {idleproc, initproc}

States == {"FREE", "SLEEPING", "RUNNABLE", "ZOMBIE"}

\* The wait states of this module; all of them carry WT_INTERRUPTED.
WaitStates == {"none", "WT_CHILD", "WT_TIMER"}

(***************************************************************************)
(* Control points.                                                         *)
(*   user     in user mode                                                 *)
(*   ret      system call or interrupt done, at the epilogue of trap()     *)
(*   wait     at "repeat:" in do_wait                                      *)
(*   asleep   in do_wait, marked SLEEPING, about to call schedule()        *)
(*   waited   in do_wait, schedule() has returned                          *)
(*   sleep    in do_sleep, schedule() has returned                         *)
(*   idle     the loop of cpu_idle                                         *)
(*   start    initproc before it creates user_main                         *)
(*   done     initproc after its loop over do_wait                         *)
(*   dead     exited, or not allocated                                     *)
(***************************************************************************)
Labels == {"user", "ret", "wait", "asleep", "waited", "sleep", "idle",
           "start", "done", "dead"}

Init ==
    /\ current = idleproc
    /\ state = [p \in Proc |-> IF p \in User THEN "FREE" ELSE "RUNNABLE"]
    /\ wait_state = [p \in Proc |-> "none"]
    /\ exiting = {}
    /\ need_resched = {idleproc}
    /\ runq = [p \in Proc |-> IF p = initproc THEN 1 ELSE 0]
    /\ parent = [p \in Proc |-> IF p = initproc THEN idleproc ELSE NONE]
    /\ nr_process = 2
    /\ pc = [p \in Proc |-> IF p = idleproc THEN "idle"
                            ELSE IF p = initproc THEN "start" ELSE "dead"]
    /\ target = [p \in Proc |-> ANY]
    /\ timer = [p \in Proc |-> 0]
    /\ panicked = FALSE

-----------------------------------------------------------------------------
(* The scheduler. *)

\* sched_class_enqueue for each process of S: idleproc is never queued.
Enqueue(rq, S) ==
    [p \in Proc |-> IF p \in S /\ p # idleproc THEN rq[p] + 1 ELSE rq[p]]

\* Fault: a runnable process is queued again.
WakableAgain(W) == W

\* The processes of W that wakeup_proc changes: a runnable one is only warned
\* about.
Wakable(W) == {p \in W : state[p] # "RUNNABLE"}

\* What wakeup_proc does to the three fields, for each process of W.
WakeState(st, W) == [p \in Proc |-> IF p \in Wakable(W) THEN "RUNNABLE" ELSE st[p]]
WakeWait(ws, W) == [p \in Proc |-> IF p \in Wakable(W) THEN "none" ELSE ws[p]]
WakeQueue(rq, W) == Enqueue(rq, Wakable(W) \ {current})

\* schedule(), called when the states are st and the run queue is rq.
Schedule(st, rq) ==
    LET rq1 == IF st[current] = "RUNNABLE" THEN Enqueue(rq, {current}) ELSE rq
        ready == {p \in Proc : rq1[p] > 0}
    IN  /\ need_resched' = need_resched \ {current}
        /\ \/ /\ ready = {}
              /\ current' = idleproc
              /\ runq' = rq1
           \/ \E next \in ready :
              /\ current' = next
              /\ runq' = [rq1 EXCEPT ![next] = @ - 1]

-----------------------------------------------------------------------------
(* Control flow of the current process. *)

At(label) == ~panicked /\ pc[current] = label

Goto(label) == pc' = [pc EXCEPT ![current] = label]

InUserMode == At("user") /\ current \in User

\* Fault: one process too many.
ForkRoomOffByOne == nr_process <= MAX_PROCESS

\* The first early return of do_fork.
ForkRoom == nr_process < MAX_PROCESS

\* do_fork after its early returns: alloc_proc, the links, wakeup_proc(child).
\* The child starts in user mode, through forkret.
ForkChild(child, label) ==
    /\ ForkRoom
    /\ state[child] = "FREE"
    /\ state' = [state EXCEPT ![child] = "RUNNABLE"]
    /\ wait_state' = [wait_state EXCEPT ![child] = "none"]
    /\ exiting' = exiting \ {child}
    /\ need_resched' = need_resched \ {child}
    /\ runq' = Enqueue(runq, {child})
    /\ parent' = [parent EXCEPT ![child] = current]
    /\ nr_process' = nr_process + 1
    /\ pc' = [pc EXCEPT ![child] = "user", ![current] = label]
    /\ UNCHANGED <<current, timer, panicked>>

SysFork ==
    /\ InUserMode
    /\ \E child \in User : ForkChild(child, "ret")
    /\ UNCHANGED target

\* A system call that changes nothing here: getpid, a fork that fails, a kill
\* of a pid that does not exist or is already exiting, sleep(0), ...
SysOther ==
    /\ InUserMode
    /\ Goto("ret")
    /\ UNCHANGED <<current, state, wait_state, exiting, need_resched, runq,
                   parent, nr_process, target, timer, panicked>>

\* A number that is no system call: the kernel panics.
SysUndefined ==
    /\ InUserMode
    /\ panicked' = TRUE
    /\ UNCHANGED <<current, state, wait_state, exiting, need_resched, runq,
                   parent, nr_process, pc, target, timer>>

\* Fault: a parent that waits is not woken.
ExitWakesNobody == {}

\* Fault: an inherited zombie does not wake initproc.
ExitWakesParentOnly ==
    {p \in Proc : wait_state[p] = "WT_CHILD" /\ p = parent[current]}

\* The processes do_exit wakes: the parent, if it is in do_wait, and initproc,
\* if it is and inherits a zombie.
ExitWakes ==
    {p \in Proc :
        /\ wait_state[p] = "WT_CHILD"
        /\ \/ p = parent[current]
           \/ /\ p = initproc
              /\ \E q \in Proc : parent[q] = current /\ state[q] = "ZOMBIE"}

\* Fault: the children keep their parent.
AdoptNobody == parent

\* The parents after the children of current are handed to initproc.
Adopt == [q \in Proc |-> IF parent[q] = current THEN initproc ELSE parent[q]]

\* do_exit: become a zombie, wake the parent, hand the children to initproc,
\* schedule().  An exit of initproc is a panic.
DoExit ==
    \/ /\ current = initproc
       /\ panicked' = TRUE
       /\ UNCHANGED <<current, state, wait_state, exiting, need_resched, runq,
                      parent, nr_process, pc, target, timer>>
    \/ /\ current # initproc
       /\ state' = [WakeState(state, ExitWakes) EXCEPT ![current] = "ZOMBIE"]
       /\ wait_state' = WakeWait(wait_state, ExitWakes)
       /\ parent' = Adopt
       /\ target' = [target EXCEPT ![current] = ANY]
       /\ Goto("dead")
       /\ Schedule(state', WakeQueue(runq, ExitWakes))
       /\ UNCHANGED <<exiting, nr_process, timer, panicked>>

SysExit == InUserMode /\ DoExit

\* do_yield
SysYield ==
    /\ InUserMode
    /\ need_resched' = need_resched \cup {current}
    /\ Goto("ret")
    /\ UNCHANGED <<current, state, wait_state, exiting, runq, parent,
                   nr_process, target, timer, panicked>>

\* do_kill on a process that is not exiting yet.
SysKill ==
    /\ InUserMode
    /\ \E p \in Proc \ {idleproc} :
        /\ state[p] # "FREE" /\ p \notin exiting
        /\ exiting' = exiting \cup {p}
        /\ LET W == IF wait_state[p] # "none" THEN {p} ELSE {}
           IN  /\ state' = WakeState(state, W)
               /\ wait_state' = WakeWait(wait_state, W)
               /\ runq' = WakeQueue(runq, W)
    /\ Goto("ret")
    /\ UNCHANGED <<current, need_resched, parent, nr_process, target, timer,
                   panicked>>

-----------------------------------------------------------------------------
(* do_sleep. *)

SysSleep ==
    /\ InUserMode
    /\ \E t \in 1..MaxSleep : timer' = [timer EXCEPT ![current] = t]
    /\ state' = [state EXCEPT ![current] = "SLEEPING"]
    /\ wait_state' = [wait_state EXCEPT ![current] = "WT_TIMER"]
    /\ Goto("sleep")
    /\ Schedule(state', runq)
    /\ UNCHANGED <<exiting, parent, nr_process, target, panicked>>

\* Fault: the timer stays in the list.
SleepReturnArmed ==
    /\ At("sleep")
    /\ Goto("ret")
    /\ UNCHANGED <<current, state, wait_state, exiting, need_resched, runq,
                   parent, nr_process, target, timer, panicked>>

\* Back from schedule(): del_timer, return.
SleepReturn ==
    /\ At("sleep")
    /\ timer' = [timer EXCEPT ![current] = 0]
    /\ Goto("ret")
    /\ UNCHANGED <<current, state, wait_state, exiting, need_resched, runq,
                   parent, nr_process, target, panicked>>

-----------------------------------------------------------------------------
(* do_wait. *)

SysWait ==
    /\ InUserMode
    /\ \E t \in Proc \cup {ANY} : target' = [target EXCEPT ![current] = t]
    /\ Goto("wait")
    /\ UNCHANGED <<current, state, wait_state, exiting, need_resched, runq,
                   parent, nr_process, timer, panicked>>

\* The children process p waits for.
Kids(p) == {q \in Proc : parent[q] = p /\ target[p] \in {q, ANY}}

\* A zombie child: unhash, unlink, free it, and its flags with it.  initproc
\* calls schedule() after every child; a user process returns.
WaitFound ==
    /\ At("wait")
    /\ \E q \in Kids(current) :
        /\ state[q] = "ZOMBIE"
        /\ state' = [state EXCEPT ![q] = "FREE"]
        /\ parent' = [parent EXCEPT ![q] = NONE]
        /\ exiting' = exiting \ {q}
    /\ nr_process' = nr_process - 1
    /\ target' = [target EXCEPT ![current] = ANY]
    /\ \/ /\ current = initproc
          /\ Schedule(state', runq)
          /\ UNCHANGED pc
       \/ /\ current # initproc
          /\ Goto("ret")
          /\ UNCHANGED <<current, need_resched, runq>>
    /\ UNCHANGED <<wait_state, timer, panicked>>

\* Children, none of them a zombie: mark the process asleep.
WaitSleep ==
    /\ At("wait")
    /\ Kids(current) # {}
    /\ \A q \in Kids(current) : state[q] # "ZOMBIE"
    /\ state' = [state EXCEPT ![current] = "SLEEPING"]
    /\ wait_state' = [wait_state EXCEPT ![current] = "WT_CHILD"]
    /\ Goto("asleep")
    /\ UNCHANGED <<current, exiting, need_resched, runq, parent, nr_process,
                   target, timer, panicked>>

WaitSchedule ==
    /\ At("asleep")
    /\ Goto("waited")
    /\ Schedule(state, runq)
    /\ UNCHANGED <<state, wait_state, exiting, parent, nr_process, target,
                   timer, panicked>>

\* No child: -E_BAD_PROC.  This ends the loop of init_main.
WaitNoChild ==
    /\ At("wait")
    /\ Kids(current) = {}
    /\ Goto(IF current = initproc THEN "done" ELSE "ret")
    /\ target' = [target EXCEPT ![current] = ANY]
    /\ UNCHANGED <<current, state, wait_state, exiting, need_resched, runq,
                   parent, nr_process, timer, panicked>>

\* Fault: a killed process goes back to sleep.
WaitResumeUnkillable ==
    /\ At("waited")
    /\ Goto("wait")
    /\ UNCHANGED <<current, state, wait_state, exiting, need_resched, runq,
                   parent, nr_process, target, timer, panicked>>

\* schedule() has returned: leave if killed, scan the children again if not.
WaitResume ==
    /\ At("waited")
    /\ \/ current \in exiting /\ DoExit
       \/ /\ current \notin exiting
          /\ Goto("wait")
          /\ UNCHANGED <<current, state, wait_state, exiting, need_resched,
                         runq, parent, nr_process, target, timer, panicked>>

-----------------------------------------------------------------------------
(* Interrupts, the trap epilogue, and the two kernel threads. *)

\* Fault: a timer with one tick left is not seen to run out.
ExpiredLate == {p \in Proc : timer[p] = 2}

\* The owners of the timers that this tick brings to zero.
Expired == {p \in Proc : timer[p] = 1}

\* Fault: timers that are not in the list count down too.
CountDownAll == [p \in Proc |-> timer[p] - 1]

CountDown == [p \in Proc |-> IF timer[p] > 0 THEN timer[p] - 1 ELSE 0]

\* The timer interrupt: run_timer_list wakes the owners of the timers that run
\* out, proc_tick may use up the time slice of the current process.  A trap
\* from the kernel has no epilogue.
Tick ==
    /\ ~panicked
    /\ InUserMode \/ current \in {idleproc, initproc}
    /\ timer' = CountDown
    /\ state' = WakeState(state, Expired)
    /\ wait_state' = WakeWait(wait_state, Expired)
    /\ runq' = WakeQueue(runq, Expired)
    /\ \/ need_resched' = need_resched \cup {current}
       \/ current # idleproc /\ UNCHANGED need_resched
    /\ IF current \in User THEN Goto("ret") ELSE UNCHANGED pc
    /\ UNCHANGED <<current, exiting, parent, nr_process, target, panicked>>

\* The epilogue of trap() on the way to user mode.
TrapReturn ==
    /\ At("ret")
    /\ \/ current \in exiting /\ DoExit
       \/ /\ current \notin exiting
          /\ Goto("user")
          /\ IF current \in need_resched
             THEN Schedule(state, runq)
             ELSE UNCHANGED <<current, need_resched, runq>>
          /\ UNCHANGED <<state, wait_state, exiting, parent, nr_process,
                         target, timer, panicked>>

\* cpu_idle
Idle ==
    /\ At("idle")
    /\ idleproc \in need_resched
    /\ Schedule(state, runq)
    /\ UNCHANGED <<state, wait_state, exiting, parent, nr_process, pc, target,
                   timer, panicked>>

\* init_main creates user_main, then waits for all children in a loop.
InitStart ==
    /\ At("start")
    /\ \E child \in User : ForkChild(child, "wait")
    /\ target' = [target EXCEPT ![initproc] = ANY]

\* init_main returns: kernel_thread_entry calls do_exit, which panics.
InitDone == At("done") /\ DoExit

\* panic() never returns.
Panicked == panicked /\ UNCHANGED vars

KernelStep ==
    \/ SleepReturn \/ WaitFound \/ WaitSleep \/ WaitSchedule \/ WaitNoChild
    \/ WaitResume \/ TrapReturn \/ Idle \/ InitStart \/ InitDone

UserStep ==
    SysFork \/ SysOther \/ SysUndefined \/ SysExit \/ SysYield \/ SysKill \/ SysSleep \/ SysWait

Next == KernelStep \/ UserStep \/ Tick \/ Panicked

Spec == Init /\ [][Next]_vars

-----------------------------------------------------------------------------
(* Safety. *)

\* The process table has its type; in particular no timer goes below zero and
\* no process sits in the run queue a negative number of times.
TypeOK ==
    /\ current \in Proc
    /\ state \in [Proc -> States]
    /\ wait_state \in [Proc -> WaitStates]
    /\ exiting \subseteq Proc
    /\ need_resched \subseteq Proc
    /\ runq \in [Proc -> Nat]
    /\ parent \in [Proc -> Proc \cup {NONE}]
    /\ nr_process \in Int
    /\ pc \in [Proc -> Labels]
    /\ target \in [Proc -> Proc \cup {ANY}]
    /\ timer \in [Proc -> 0..MaxSleep]
    /\ panicked \in BOOLEAN

\* The run queue holds exactly the runnable processes that are not running,
\* each of them once: no wakeup_proc, timer expiry, kill or schedule() loses a
\* runnable process or inserts one twice into the skew heap.
RunQueueExact ==
    \A p \in Proc :
        runq[p] = IF state[p] = "RUNNABLE" /\ p \notin {idleproc, current}
                  THEN 1 ELSE 0

\* No lost wakeup in do_wait: a process that sleeps in do_wait has a child it
\* waits for, and none of those is a zombie.  do_exit of a child, or of a
\* process whose zombies initproc inherits, must have woken it.
NoLostWakeup ==
    \A p \in Proc :
        wait_state[p] = "WT_CHILD" =>
            /\ Kids(p) # {}
            /\ \A q \in Kids(p) : state[q] # "ZOMBIE"

\* Every process but idleproc has a parent that can still wait for it: do_exit
\* leaves no child behind with a parent that is a zombie or freed.
ParentsAlive ==
    \A p \in Proc \ {idleproc} :
        state[p] # "FREE" =>
            /\ parent[p] \in Proc
            /\ state[parent[p]] \in {"RUNNABLE", "SLEEPING"}

\* The timer list refers only to processes that are still inside do_sleep (the
\* timer is a local of that frame), and a process that sleeps there has its
\* timer in the list, so a tick will wake it.  The asserts of run_timer_list
\* and wakeup_proc on the owner of an expired timer follow.
TimersMatchSleepers ==
    \A p \in Proc :
        /\ timer[p] > 0 => pc[p] = "sleep" /\ state[p] \in {"SLEEPING", "RUNNABLE"}
        /\ wait_state[p] = "WT_TIMER" => timer[p] > 0

\* A process is asleep exactly while it has a wait state to be woken from, and
\* a zombie is never current, except that the process inside do_wait or
\* do_sleep has yet to call schedule().
SleepersWait ==
    /\ \A p \in Proc : state[p] = "SLEEPING" <=> wait_state[p] # "none"
    /\ state[current] # "ZOMBIE"
    /\ state[current] = "SLEEPING" => pc[current] = "asleep"

\* The asserts at the end of init_main: when its loop over do_wait ends, only
\* idleproc and initproc are left and nr_process is 2.
AllQuit ==
    pc[initproc] = "done" =>
        /\ nr_process = 2
        /\ \A p \in User : state[p] = "FREE"

\* nr_process counts the allocated processes and stays within MAX_PROCESS.
CountExact ==
    /\ nr_process = Cardinality({p \in Proc : state[p] # "FREE"})
    /\ nr_process <= MAX_PROCESS

-----------------------------------------------------------------------------
(* Liveness. *)

\* A tick that uses up the time slice of the running process.
SliceTick == Tick /\ current \in need_resched'

\* schedule() in kernel code chooses p.
Dispatch(p) == KernelStep /\ current # p /\ current' = p

(***************************************************************************)
(* Kernel code runs to its next schedule(); the timer interrupt is pending *)
(* until it is taken and every time slice runs out; pick_next serves every *)
(* process that keeps being runnable, because its stride stays while that  *)
(* of each process that runs grows.                                        *)
(***************************************************************************)
Fairness ==
    /\ WF_vars(KernelStep)
    /\ SF_vars(SliceTick)
    /\ \A p \in Proc : SF_vars(Dispatch(p))

FairSpec == Spec /\ Fairness

\* initproc reaps every zombie it is the parent of, those it inherits included,
\* unless the kernel panics first.
OrphansReaped ==
    \A p \in User :
        state[p] = "ZOMBIE" /\ parent[p] = initproc
            ~> state[p] = "FREE" \/ panicked

\* A process that calls do_sleep is woken.
SleepersWake ==
    \A p \in User : wait_state[p] = "WT_TIMER" ~> state[p] # "SLEEPING" \/ panicked

\* A process that do_kill takes out of do_wait or do_sleep exits (the tests
\* waitkill and sleepkill rely on it): del_timer, the check after schedule()
\* and the trap epilogue lead to do_exit.
KilledSleeperDies ==
    \A p \in User :
        p \in exiting /\ pc[p] \in {"waited", "sleep"} /\ state[p] = "RUNNABLE"
            ~> pc[p] = "dead" \/ panicked

\* "kill process with pid by set this process's flags with PF_EXITING": a
\* process that do_kill marks exits.  The code does not keep this.  A process
\* killed while it is in the run queue has passed the PF_EXITING test of its
\* trap; it goes back to user mode and may enter do_wait before its next trap.
\* It then sleeps with the flag set, and a second kill returns -E_KILLED
\* without waking it.
KilledDies ==
    \A p \in User : p \in exiting ~> pc[p] = "dead" \/ panicked

=============================================================================
