--------------------------- MODULE MonitorProofs ---------------------------
(***************************************************************************)
(* Mutual exclusion in the monitors of monitor.c, for any threads and any  *)
(* condition variables, however they enter, leave, wait and signal.        *)
(***************************************************************************)
EXTENDS Monitor, FiniteSetTheorems, TLAPS

\* Every leaf has a minute.
USE SMTT(30), ZenonT(30), SMTT(60), SMTT(61)

Steps == {"out", "in", "block", "rewake", "urgent", "signalled"}

Types ==
    /\ value \in [Sem -> Nat]
    /\ wait_queue \in [Sem -> Seq(Thread)]
    /\ asleep \subseteq Thread
    /\ step \in [Thread -> Steps]
    /\ on \in [Thread -> CV]

\* Where a thread that sleeps in down(s) goes on.
After(t, s) ==
    \/ s = mutex /\ step[t] = "in"
    \/ s = next /\ step[t] = "signalled"
    \/ s = cv(on[t]) /\ step[t] = "rewake"

\* A queue holds sleeping threads that go on from this semaphore, once each.
QueuesSleep ==
    \A s \in Sem : \A i \in 1 .. Len(wait_queue[s]) :
        /\ wait_queue[s][i] \in asleep
        /\ After(wait_queue[s][i], s)
        /\ \A j \in 1 .. Len(wait_queue[s]) : wait_queue[s][i] = wait_queue[s][j] => i = j

\* The monitor is one token: a thread has it, or one of the semaphores.
OneToken ==
    /\ OneActive
    /\ \A s \in Sem : value[s] > 0 => value[s] = 1 /\ Active = {}
    /\ \A s, r \in Sem : value[s] > 0 /\ value[r] > 0 => s = r

\* The inductive invariant.  A token that is handed to the head of a queue gives
\* one active thread only because that thread was asleep until then.
Inv == Types /\ QueuesSleep /\ OneToken

\* The semaphores of a monitor are different from each other.
LEMMA SemDistinct ==
    /\ mutex # next
    /\ \A c \in CV : cv(c) # mutex /\ cv(c) # next
    /\ \A c, d \in CV : cv(c) = cv(d) => c = d
    /\ mutex \in Sem /\ next \in Sem
    /\ \A c \in CV : cv(c) \in Sem
  BY DEF mutex, next, cv, Sem

\* monitor_init gives the token to the mutex.
LEMMA InitInv == ASSUME monitor_init PROVE Inv
<1> USE SemDistinct DEF monitor_init, S!sem_init
<1>1. Types
  BY DEF Types, Steps
<1>2. QueuesSleep
  BY DEF QueuesSleep
<1>3. Active = {}
  BY DEF Active
<1>4. OneToken
  BY <1>3 DEF OneToken, OneActive
<1> QED
  BY <1>1, <1>2, <1>4 DEF Inv

\* The active thread t gives the monitor up with up(s), in cond_wait, cond_signal
\* or at the end of its routine.
LEMMA UpStep ==
    ASSUME Inv, NEW t \in Active, NEW s \in Sem, S!up(s),
           NEW l \in {"out", "block", "urgent"}, step' = [step EXCEPT ![t] = l],
           NEW c \in CV, on' = [on EXCEPT ![t] = c]
    PROVE  Inv'
<1> USE DEF Inv
<1>1. t \in Thread /\ t \notin asleep
  BY DEF Active, S!Runs
<1>2. \A r \in Sem : value[r] = 0
  <2>1. \A r \in Sem : ~(value[r] > 0)
    BY ZenonT(60) DEF OneToken
  <2> QED
    BY <2>1 DEF Types
<1>0. \A u \in asleep, r \in Sem : After(u, r) => After(u, r)'
  BY <1>1 DEF After, Types
<1>3. \A u \in Thread : u # t /\ u \notin asleep => u \notin Active
  BY <1>1 DEF OneToken, OneActive
<1>4. CASE wait_queue[s] = <<>>
  <2>1. value' = [value EXCEPT ![s] = 1] /\ UNCHANGED <<wait_queue, asleep>>
    BY <1>2, <1>4 DEF S!up, Types
  <2>2. Types'
    BY <2>1, ZenonT(60) DEF Types, Steps
  <2>3. QueuesSleep'
    BY <1>0, <2>1 DEF QueuesSleep
  <2>4. Active' = {}
    BY <1>1, <1>3, <2>1 DEF Active, S!Runs, Types
  <2>5. OneToken'
    BY <1>2, <2>1, <2>4 DEF OneToken, OneActive, Types
  <2> QED
    BY <2>2, <2>3, <2>5
<1>5. CASE wait_queue[s] # <<>>
  <2> DEFINE h == Head(wait_queue[s])
             q == wait_queue[s]
  <2>1. /\ q \in Seq(Thread) /\ Len(q) > 0 /\ h = q[1]
        /\ Tail(q) \in Seq(Thread) /\ Len(Tail(q)) = Len(q) - 1
        /\ \A i \in 1 .. Len(Tail(q)) : Tail(q)[i] = q[i + 1]
    BY <1>5 DEF Types
  <2>2. h \in asleep /\ After(h, s) /\ h # t
    BY <1>1, <2>1 DEF QueuesSleep
  <2>3. /\ asleep' = asleep \ {h} /\ value' = value
        /\ wait_queue' = [wait_queue EXCEPT ![s] = Tail(q)]
    BY <1>5 DEF S!up
  <2>4. Types'
    BY <2>1, <2>3, ZenonT(60) DEF Types, Steps
  <2>5. \A r \in Sem \ {s} : \A i \in 1 .. Len(wait_queue[r]) : wait_queue[r][i] # h
    BY <2>2, SemDistinct, ZenonT(60) DEF QueuesSleep, After, Types
  <2>6. \A i \in 1 .. Len(Tail(q)) : Tail(q)[i] # h
    BY <2>1 DEF QueuesSleep
  <2>7. QueuesSleep'
    <3> SUFFICES ASSUME NEW r \in Sem, NEW i \in 1 .. Len(wait_queue'[r])
                 PROVE  /\ wait_queue'[r][i] \in asleep'
                        /\ After(wait_queue[r][i], r)'
                        /\ \A j \in 1 .. Len(wait_queue'[r]) :
                              wait_queue'[r][i] = wait_queue'[r][j] => i = j
      BY DEF QueuesSleep
    <3>1. CASE r # s
      <4>1. wait_queue'[r] = wait_queue[r]
        BY <2>3, <3>1 DEF Types
      <4> QED
        BY <1>0, <2>3, <2>5, <3>1, <4>1 DEF QueuesSleep
    <3>2. CASE r = s
      <4>1. wait_queue'[r] = Tail(q)
        BY <2>3, <3>2 DEF Types
      <4>2. wait_queue'[r][i] = q[i + 1] /\ i + 1 \in 1 .. Len(q) /\ q[i + 1] # h
        BY <2>1, <2>6, <4>1
      <4>3. q[i + 1] \in asleep /\ After(q[i + 1], s)
        BY <4>2 DEF QueuesSleep
      <4>4. wait_queue'[r][i] \in asleep' /\ After(wait_queue[r][i], r)'
        BY <1>0, <2>3, <3>2, <4>2, <4>3
      <4>5. \A j \in 1 .. Len(wait_queue'[r]) : wait_queue'[r][i] = wait_queue'[r][j] => i = j
        <5> SUFFICES ASSUME NEW j \in 1 .. Len(wait_queue'[r]),
                            wait_queue'[r][i] = wait_queue'[r][j]
                     PROVE  i = j
          OBVIOUS
        <5>1. wait_queue'[r][j] = q[j + 1] /\ j + 1 \in 1 .. Len(q)
          BY <2>1, <4>1
        <5>2. i + 1 = j + 1
          BY <4>2, <5>1, ZenonT(60) DEF QueuesSleep
        <5> QED
          BY <2>1, <4>1, <5>2
      <4> QED
        BY <4>4, <4>5
    <3> QED
      BY <3>1, <3>2
  <2>8. Active' \subseteq {h}
    BY <1>1, <1>3, <2>3 DEF Active, S!Runs, Types
  <2>9. OneToken'
    BY <1>2, <2>3, <2>8 DEF OneToken, OneActive
  <2> QED
    BY <2>4, <2>7, <2>9
<1> QED
  BY <1>4, <1>5

\* A thread outside asks for the monitor with down(s): it takes the token, or
\* sleeps in the queue.
LEMMA DownStep ==
    ASSUME Inv, NEW t \in Thread, t \notin asleep, t \notin Active, NEW s \in Sem, S!down(t, s),
           NEW l \in Steps, step' = [step EXCEPT ![t] = l], After(t, s)', on' = on
    PROVE  Inv'
<1> USE DEF Inv
<1>0. \A u \in asleep, r \in Sem : After(u, r) => After(u, r)'
  BY DEF After, Types
<1>1. \A r \in Sem : \A i \in 1 .. Len(wait_queue[r]) : wait_queue[r][i] # t
  BY DEF QueuesSleep
<1>2. CASE value[s] > 0
  <2>1. value' = [value EXCEPT ![s] = 0] /\ UNCHANGED <<wait_queue, asleep>>
    BY <1>2 DEF S!down, OneToken, Types
  <2>2. Types'
    BY <2>1 DEF Types
  <2>3. QueuesSleep'
    BY <1>0, <2>1 DEF QueuesSleep
  <2>4. Active' \subseteq {t}
    BY <1>2, <2>1 DEF OneToken, Active, S!Runs, Types
  <2>5. \A r \in Sem : value'[r] = 0
    BY <1>2, <2>1 DEF OneToken, Types
  <2> QED
    BY <2>2, <2>3, <2>4, <2>5 DEF OneToken, OneActive
<1>3. CASE ~(value[s] > 0)
  <2> DEFINE q == wait_queue[s]
  <2>1. /\ wait_queue' = [wait_queue EXCEPT ![s] = Append(q, t)]
        /\ asleep' = asleep \cup {t} /\ value' = value
    BY <1>3 DEF S!down
  <2>2. /\ q \in Seq(Thread) /\ Append(q, t) \in Seq(Thread) /\ Len(Append(q, t)) = Len(q) + 1
        /\ \A i \in 1 .. Len(q) : Append(q, t)[i] = q[i]
        /\ Append(q, t)[Len(q) + 1] = t
    BY DEF Types
  <2>3. Types'
    BY <2>1, <2>2 DEF Types
  <2>4. QueuesSleep'
    <3> SUFFICES ASSUME NEW r \in Sem, NEW i \in 1 .. Len(wait_queue'[r])
                 PROVE  /\ wait_queue'[r][i] \in asleep'
                        /\ After(wait_queue[r][i], r)'
                        /\ \A j \in 1 .. Len(wait_queue'[r]) :
                              wait_queue'[r][i] = wait_queue'[r][j] => i = j
      BY DEF QueuesSleep
    <3>1. CASE r # s
      <4>1. wait_queue'[r] = wait_queue[r]
        BY <2>1, <3>1 DEF Types
      <4> QED
        BY <1>0, <2>1, <4>1 DEF QueuesSleep
    <3>2. CASE r = s
      <4>1. wait_queue'[r] = Append(q, t)
        BY <2>1, <3>2 DEF Types
      <4>2. wait_queue'[r][i] \in asleep' /\ After(wait_queue[r][i], r)'
        BY <1>0, <2>1, <2>2, <3>2, <4>1 DEF QueuesSleep
      <4>3. \A j \in 1 .. Len(wait_queue'[r]) : wait_queue'[r][i] = wait_queue'[r][j] => i = j
        BY <1>1, <2>2, <4>1 DEF QueuesSleep
      <4> QED
        BY <4>2, <4>3
    <3> QED
      BY <3>1, <3>2
  <2>5. Active' = Active
    BY <2>1 DEF Active, S!Runs, Types
  <2>6. OneToken'
    BY <2>1, <2>5 DEF OneToken, OneActive
  <2> QED
    BY <2>3, <2>4, <2>6
<1> QED
  BY <1>2, <1>3

\* The end of cond_wait and of cond_signal: the thread keeps the monitor.
LEMMA KeepStep ==
    ASSUME Inv, NEW t \in Active, step' = [step EXCEPT ![t] = "in"],
           UNCHANGED <<value, wait_queue, asleep, on>>
    PROVE  Inv'
<1> USE DEF Inv
<1>1. t \in Thread /\ t \notin asleep
  BY DEF Active, S!Runs
<1>2. Types'
  BY ZenonT(60) DEF Types, Steps
<1>3. QueuesSleep'
  BY <1>1 DEF QueuesSleep, After, Types
<1>4. Active' = Active
  BY <1>1 DEF Active, S!Runs, Types
<1>5. OneToken'
  BY <1>4 DEF OneToken, OneActive
<1> QED
  BY <1>2, <1>3, <1>5

\* Every step of a thread in the monitor keeps the invariant.
LEMMA NextInv == ASSUME Inv, [Next]_monvars PROVE Inv'
<1> USE SemDistinct
<1>1. CASE UNCHANGED monvars
  BY <1>1 DEF monvars, Inv, Types, QueuesSleep, After, OneToken, OneActive, Active, S!Runs
<1>2. ASSUME NEW t \in Thread, Enter(t) PROVE Inv'
  BY <1>2, DownStep, ZenonT(60) DEF Enter, At, Goto, S!Runs, Active, Steps, After, Inv, Types
<1>3. ASSUME NEW t \in Thread, Leave(t) PROVE Inv'
  <2>1. t \in Active
    BY <1>3 DEF Leave, At, Active
  <2>2. on' = [on EXCEPT ![t] = on[t]] /\ on[t] \in CV
    BY <1>3 DEF Leave, Inv, Types
  <2> QED
    BY <1>3, <2>1, <2>2, UpStep, ZenonT(60) DEF Leave, PassOn, Goto
<1>4. ASSUME NEW t \in Thread, NEW c \in CV, cond_wait(t, c) PROVE Inv'
  <2>1. t \in Active
    BY <1>4 DEF cond_wait, At, Active
  <2> QED
    BY <1>4, <2>1, UpStep, ZenonT(60) DEF cond_wait, PassOn, Goto
<1>5. ASSUME NEW t \in Thread, NEW c \in CV, cond_signal(t, c) PROVE Inv'
  <2>1. t \in Active
    BY <1>5 DEF cond_signal, At, Active
  <2> QED
    BY <1>5, <2>1, UpStep, ZenonT(60) DEF cond_signal, Goto
<1>6. ASSUME NEW t \in Thread, Block(t) PROVE Inv'
  <2>1. on[t] \in CV /\ After(t, cv(on[t]))'
    BY <1>6 DEF Block, Goto, After, Inv, Types
  <2> QED
    BY <1>6, <2>1, DownStep, ZenonT(60) DEF Block, At, Goto, S!Runs, Active, Steps
<1>7. ASSUME NEW t \in Thread, Urgent(t) PROVE Inv'
  <2>1. After(t, next)'
    BY <1>7 DEF Urgent, Goto, After, Inv, Types
  <2> QED
    BY <1>7, <2>1, DownStep, ZenonT(60) DEF Urgent, At, Goto, S!Runs, Active, Steps
<1>8. ASSUME NEW t \in Thread, Rewake(t) \/ Signalled(t) PROVE Inv'
  BY <1>8, KeepStep DEF Rewake, Signalled, At, Goto, Active
<1> QED
  BY <1>1, <1>2, <1>3, <1>4, <1>5, <1>6, <1>7, <1>8 DEF Next, Continue

\* "Only one process at a time may be be active in a monitor": of the threads in
\* the routine, past down(cv.sem) in cond_wait or past down(next) in cond_signal,
\* at most one can run.
THEOREM MonitorOneActive == Spec => []OneActive
<1>1. monitor_init => Inv
  BY InitInv
<1>2. Inv /\ [Next]_monvars => Inv'
  BY NextInv
<1>3. Inv => OneActive
  BY DEF Inv, OneToken
<1> QED
  BY <1>1, <1>2, <1>3, PTL DEF Spec
-----------------------------------------------------------------------------
(* That the monitor is passed on needs the counts. *)

\* Threads that wait on next or will do so, and on the condition variable c.
Urgents == {t \in Thread : step[t] \in {"urgent", "signalled"}}
Waiters(c) == {t \in Thread : step[t] \in {"block", "rewake"} /\ on[t] = c}

CountsExact ==
    /\ IsFiniteSet(Urgents) /\ next_count = Cardinality(Urgents)
    /\ count \in [CV -> Int]
    /\ \A c \in CV : IsFiniteSet(Waiters(c)) /\ count[c] = Cardinality(Waiters(c))

Queued(t) == \E s \in Sem : \E i \in 1 .. Len(wait_queue[s]) : wait_queue[s][i] = t

\* A unit of a semaphore waits for nobody who sleeps, and there is a thread that
\* will come for it: on the mutex only when nobody waits on next.
Answered ==
    /\ \A t \in asleep : Queued(t)
    /\ \A s \in Sem : value[s] > 0 => wait_queue[s] = <<>>
    /\ Active # {} \/ \E s \in Sem : value[s] > 0
    /\ value[mutex] > 0 => Urgents = {}
    /\ value[next] > 0 => \E t \in Thread : step[t] = "urgent"
    /\ \A c \in CV : value[cv(c)] > 0 => \E t \in Thread : step[t] = "block" /\ on[t] = c

Full == Inv /\ CountsExact /\ Answered

\* monitor_init: nobody is counted.
LEMMA InitFull == ASSUME monitor_init PROVE Full
<1> USE SemDistinct DEF monitor_init, S!sem_init
<1>1. Urgents = {} /\ \A c \in CV : Waiters(c) = {}
  BY DEF Urgents, Waiters
<1>2. CountsExact
  <2>1. IsFiniteSet({}) /\ Cardinality({}) = 0
    BY FS_EmptySet
  <2>2. next_count = 0 /\ count \in [CV -> Int] /\ \A c \in CV : count[c] = 0
    OBVIOUS
  <2> QED
    BY <1>1, <2>1, <2>2, ZenonT(60) DEF CountsExact
<1>3. Answered
  BY <1>1 DEF Answered
<1> QED
  BY <1>2, <1>3, InitInv DEF Full

\* Steps that do not change who is counted.
LEMMA SameCounts ==
    ASSUME CountsExact, Urgents' = Urgents, \A c \in CV : Waiters(c)' = Waiters(c),
           UNCHANGED <<next_count, count>>
    PROVE  CountsExact'
  BY DEF CountsExact

\* cv.count and next_count are right after each step of a thread.
LEMMA CountStep ==
    ASSUME Types, CountsExact, NEW t \in Thread,
           \/ Enter(t) \/ Leave(t) \/ Continue(t)
           \/ \E c \in CV : cond_wait(t, c) \/ cond_signal(t, c)
    PROVE  CountsExact'
<1>1. CASE Enter(t) \/ Leave(t) \/ Block(t) \/ Urgent(t)
  <2>1. Urgents' = Urgents /\ \A c \in CV : Waiters(c)' = Waiters(c)
    BY <1>1 DEF Enter, Leave, Block, Urgent, At, Goto, Urgents, Waiters, Types, Steps
  <2> QED
    BY <1>1, <2>1, SameCounts DEF Enter, Leave, Block, Urgent
<1>2. ASSUME NEW c \in CV, cond_wait(t, c) PROVE CountsExact'
  <2>1. /\ Urgents' = Urgents /\ t \notin Waiters(c) /\ Waiters(c)' = Waiters(c) \cup {t}
        /\ \A d \in CV \ {c} : Waiters(d)' = Waiters(d)
    BY <1>2 DEF cond_wait, At, Goto, Urgents, Waiters, Types, Steps
  <2>2. /\ IsFiniteSet(Waiters(c) \cup {t})
        /\ Cardinality(Waiters(c) \cup {t}) = Cardinality(Waiters(c)) + 1
    BY <2>1, FS_AddElement DEF CountsExact
  <2> QED
    BY <1>2, <2>1, <2>2 DEF cond_wait, CountsExact
<1>3. ASSUME NEW c \in CV, cond_signal(t, c) PROVE CountsExact'
  <2>1. /\ t \notin Urgents /\ Urgents' = Urgents \cup {t}
        /\ \A d \in CV : Waiters(d)' = Waiters(d)
    BY <1>3 DEF cond_signal, At, Goto, Urgents, Waiters, Types, Steps
  <2>2. /\ IsFiniteSet(Urgents \cup {t})
        /\ Cardinality(Urgents \cup {t}) = Cardinality(Urgents) + 1
    BY <2>1, FS_AddElement DEF CountsExact
  <2> QED
    BY <1>3, <2>1, <2>2 DEF cond_signal, CountsExact
<1>4. CASE Rewake(t)
  <2> DEFINE c == on[t]
  <2>1. /\ c \in CV /\ Urgents' = Urgents /\ t \in Waiters(c) /\ Waiters(c)' = Waiters(c) \ {t}
        /\ \A d \in CV \ {c} : Waiters(d)' = Waiters(d)
    BY <1>4 DEF Rewake, At, Goto, Urgents, Waiters, Types, Steps
  <2>2. /\ IsFiniteSet(Waiters(c) \ {t})
        /\ Cardinality(Waiters(c) \ {t}) = Cardinality(Waiters(c)) - 1
    BY <2>1, FS_RemoveElement DEF CountsExact
  <2> QED
    BY <1>4, <2>1, <2>2 DEF Rewake, CountsExact
<1>5. CASE Signalled(t)
  <2>1. /\ t \in Urgents /\ Urgents' = Urgents \ {t}
        /\ \A d \in CV : Waiters(d)' = Waiters(d)
    BY <1>5 DEF Signalled, At, Goto, Urgents, Waiters, Types, Steps
  <2>2. IsFiniteSet(Urgents \ {t}) /\ Cardinality(Urgents \ {t}) = Cardinality(Urgents) - 1
    BY <2>1, FS_RemoveElement DEF CountsExact
  <2> QED
    BY <1>5, <2>1, <2>2 DEF Signalled, CountsExact
<1> QED
  BY <1>1, <1>2, <1>3, <1>4, <1>5 DEF Continue

\* up(s): the unit goes to the head of the queue, or stays for a thread that is
\* on its way, as next_count or cv.count says.
LEMMA UpAnswered ==
    ASSUME Full, NEW t \in Thread, At(t, "in"), NEW s \in Sem, S!up(s),
           NEW l \in {"out", "block", "urgent"}, step' = [step EXCEPT ![t] = l],
           NEW c \in CV, on' = [on EXCEPT ![t] = c],
           \/ s = next /\ next_count > 0
           \/ s = mutex /\ ~(next_count > 0) /\ l # "urgent"
           \/ s = cv(c) /\ count[c] > 0
    PROVE  Answered'
<1> USE DEF Full, Inv
<1>1. t \notin asleep /\ t \in Active
  BY DEF At, Active, S!Runs
<1>2. \A r \in Sem : value[r] = 0
  <2>1. \A r \in Sem : ~(value[r] > 0)
    BY <1>1, ZenonT(60) DEF OneToken
  <2> QED
    BY <2>1 DEF Types
<1>3. \A u \in Thread : u \notin asleep /\ u # t => u \notin Active
  BY <1>1 DEF OneToken, OneActive
<1>4. CASE wait_queue[s] = <<>>
  <2>1. value' = [value EXCEPT ![s] = 1] /\ UNCHANGED <<wait_queue, asleep>>
    BY <1>2, <1>4 DEF S!up, Types
  <2>2. \A r \in Sem : value'[r] > 0 <=> r = s
    BY <1>2, <2>1 DEF Types
  <2>3. (\A u \in asleep : Queued(u))'
    BY <2>1 DEF Answered, Queued
  <2>4. \A u \in asleep : ~After(u, s)
    <3> SUFFICES ASSUME NEW u \in asleep, After(u, s) PROVE FALSE
      OBVIOUS
    <3>1. PICK r \in Sem : \E i \in 1 .. Len(wait_queue[r]) : wait_queue[r][i] = u
      BY DEF Answered, Queued
    <3>2. After(u, r)
      BY <3>1 DEF QueuesSleep
    <3>3. r = s
      BY <3>2, SemDistinct DEF After, Types
    <3> QED
      BY <1>4, <3>1, <3>3
  <2>5. s = mutex => Urgents' = {}
    <3> SUFFICES ASSUME s = mutex PROVE Urgents' = {}
      OBVIOUS
    <3>1. ~(next_count > 0) /\ l # "urgent"
      BY SemDistinct
    <3>2. Urgents = {}
      BY <3>1, FS_CardinalityType, FS_EmptySet DEF CountsExact
    <3> QED
      BY <3>1, <3>2 DEF Urgents, Types
  <2>6. s = next => \E u \in Thread : step'[u] = "urgent"
    <3> SUFFICES ASSUME s = next PROVE \E u \in Thread : step'[u] = "urgent"
      OBVIOUS
    <3>1. next_count > 0
      BY SemDistinct
    <3>2. PICK u \in Urgents : TRUE
      BY <3>1, FS_EmptySet DEF CountsExact
    <3>3. u \in Thread /\ u # t
      BY DEF Urgents, At
    <3>4. step[u] # "signalled"
      BY <1>3, <2>4, <3>3 DEF After, Active, S!Runs
    <3> QED
      BY <3>3, <3>4 DEF Urgents, Types
  <2>7. \A d \in CV : s = cv(d) => \E u \in Thread : step'[u] = "block" /\ on'[u] = d
    <3> SUFFICES ASSUME NEW d \in CV, s = cv(d)
                 PROVE  \E u \in Thread : step'[u] = "block" /\ on'[u] = d
      OBVIOUS
    <3>1. d = c /\ count[d] > 0
      BY SemDistinct
    <3>2. PICK u \in Waiters(d) : TRUE
      BY <3>1, FS_EmptySet DEF CountsExact
    <3>3. u \in Thread /\ u # t /\ on[u] = d
      BY DEF Waiters, At
    <3>4. step[u] # "rewake"
      BY <1>3, <2>4, <3>3 DEF After, Active, S!Runs
    <3> QED
      BY <3>3, <3>4 DEF Waiters, Types
  <2> QED
    BY <1>4, <2>1, <2>2, <2>3, <2>5, <2>6, <2>7, SemDistinct DEF Answered
<1>5. CASE wait_queue[s] # <<>>
  <2> DEFINE q == wait_queue[s]
             h == Head(q)
  <2>1. /\ q \in Seq(Thread) /\ Len(q) > 0 /\ h = q[1]
        /\ Tail(q) \in Seq(Thread) /\ Len(Tail(q)) = Len(q) - 1
        /\ \A i \in 1 .. Len(Tail(q)) : Tail(q)[i] = q[i + 1]
    BY <1>5 DEF Types
  <2>2. /\ asleep' = asleep \ {h} /\ value' = value
        /\ wait_queue' = [wait_queue EXCEPT ![s] = Tail(q)]
    BY <1>5 DEF S!up
  <2>3. h \in Thread /\ h # t /\ After(h, s)
    BY <1>1, <2>1 DEF QueuesSleep
  <2>4. h \in Active'
    BY <2>2, <2>3 DEF Active, S!Runs, After, Types
  <2>5. \A u \in asleep' : Queued(u)'
    <3> SUFFICES ASSUME NEW u \in asleep' PROVE Queued(u)'
      OBVIOUS
    <3>1. PICK r \in Sem : \E i \in 1 .. Len(wait_queue[r]) : wait_queue[r][i] = u
      BY <2>2 DEF Answered, Queued
    <3>2. PICK i \in 1 .. Len(wait_queue[r]) : wait_queue[r][i] = u
      BY <3>1
    <3>3. CASE r # s
      <4>1. wait_queue'[r] = wait_queue[r]
        BY <2>2, <3>3 DEF Types
      <4> QED
        BY <3>2, <4>1 DEF Queued
    <3>4. CASE r = s
      <4>1. wait_queue'[s] = Tail(q)
        BY <2>2 DEF Types
      <4>2. i # 1
        BY <2>1, <2>2, <3>2, <3>4
      <4>3. i - 1 \in 1 .. Len(Tail(q)) /\ Tail(q)[i - 1] = u
        BY <2>1, <3>2, <3>4, <4>2
      <4> QED
        BY <4>1, <4>3, ZenonT(60) DEF Queued
    <3> QED
      BY <3>3, <3>4
  <2>6. \A r \in Sem : ~(value'[r] > 0)
    BY <1>2, <2>2
  <2> QED
    BY <2>4, <2>5, <2>6, SemDistinct DEF Answered
<1> QED
  BY <1>4, <1>5

\* down(s): the unit is taken by a thread it waited for, or the thread queues.
LEMMA DownAnswered ==
    ASSUME Full, NEW t \in Thread, t \notin asleep, NEW s \in Sem, S!down(t, s),
           \/ s = mutex /\ step[t] = "out" /\ step' = [step EXCEPT ![t] = "in"]
           \/ s = next /\ step[t] = "urgent" /\ step' = [step EXCEPT ![t] = "signalled"]
           \/ s = cv(on[t]) /\ step[t] = "block" /\ step' = [step EXCEPT ![t] = "rewake"],
           on' = on
    PROVE  Answered'
<1> USE DEF Full, Inv
<1>1. Urgents' = Urgents
  BY DEF Urgents, Types
<1>2. \A u \in Thread : u # t => step'[u] = step[u]
  BY DEF Types
<1>3. CASE value[s] > 0
  <2>1. value' = [value EXCEPT ![s] = 0] /\ UNCHANGED <<wait_queue, asleep>>
    BY <1>3 DEF S!down, OneToken, Types
  <2>2. \A r \in Sem : ~(value'[r] > 0)
    BY <1>3, <2>1 DEF OneToken, Types
  <2>3. t \in Active'
    BY <2>1 DEF Active, S!Runs, Types
  <2>4. (\A u \in asleep : Queued(u))'
    BY <2>1 DEF Answered, Queued
  <2> QED
    BY <2>2, <2>3, <2>4, SemDistinct DEF Answered
<1>4. CASE ~(value[s] > 0)
  <2> DEFINE q == wait_queue[s]
  <2>1. /\ wait_queue' = [wait_queue EXCEPT ![s] = Append(q, t)]
        /\ asleep' = asleep \cup {t} /\ value' = value
    BY <1>4 DEF S!down
  <2>2. /\ q \in Seq(Thread) /\ Len(Append(q, t)) = Len(q) + 1
        /\ \A i \in 1 .. Len(q) : Append(q, t)[i] = q[i]
        /\ Append(q, t)[Len(q) + 1] = t
    BY DEF Types
  <2>3. wait_queue'[s] = Append(q, t) /\ \A r \in Sem \ {s} : wait_queue'[r] = wait_queue[r]
    BY <2>1 DEF Types
  <2>4. Queued(t)'
    <3>1. Len(q) + 1 \in 1 .. Len(wait_queue'[s]) /\ wait_queue'[s][Len(q) + 1] = t
      BY <2>2, <2>3
    <3> QED
      BY <3>1 DEF Queued
  <2>5. \A u \in asleep : Queued(u)'
    <3> SUFFICES ASSUME NEW u \in asleep PROVE Queued(u)'
      OBVIOUS
    <3>1. PICK r \in Sem : \E i \in 1 .. Len(wait_queue[r]) : wait_queue[r][i] = u
      BY DEF Answered, Queued
    <3>2. PICK i \in 1 .. Len(wait_queue[r]) : wait_queue[r][i] = u
      BY <3>1
    <3>3. i \in 1 .. Len(wait_queue'[r]) /\ wait_queue'[r][i] = u
      BY <2>2, <2>3, <3>2
    <3> QED
      BY <3>3 DEF Queued
  <2>6. Active' = Active
    BY <2>1 DEF Active, S!Runs, Types
  <2>7. \A r \in Sem : value'[r] > 0 => wait_queue'[r] = <<>>
    BY <1>4, <2>1, <2>3 DEF Answered
  <2>8. value'[next] > 0 => \E u \in Thread : step'[u] = "urgent"
    BY <1>2, <1>4, <2>1 DEF Answered
  <2>9. \A c \in CV : value'[cv(c)] > 0 => \E u \in Thread : step'[u] = "block" /\ on'[u] = c
    BY <1>2, <1>4, <2>1 DEF Answered
  <2> QED
    BY <1>1, <2>1, <2>4, <2>5, <2>6, <2>7, <2>8, <2>9 DEF Answered
<1> QED
  BY <1>3, <1>4

\* Every step of a thread keeps the counts and the answers.
LEMMA NextFull == ASSUME Full, [Next]_monvars PROVE Full'
<1>1. Inv'
  BY NextInv DEF Full
<1>2. CASE UNCHANGED monvars
  <2>1. Urgents' = Urgents /\ Active' = Active /\ \A c \in CV : Waiters(c)' = Waiters(c)
    BY <1>2 DEF monvars, Urgents, Active, Waiters, S!Runs
  <2>2. CountsExact'
    BY <1>2, <2>1, SameCounts DEF monvars, Full
  <2>3. Answered'
    BY <1>2, <2>1 DEF monvars, Full, Answered, Queued
  <2> QED
    BY <1>1, <2>2, <2>3 DEF Full
<1>3. CASE Next
  <2>1. PICK t \in Thread :
            \/ Enter(t) \/ Leave(t) \/ Continue(t)
            \/ \E c \in CV : cond_wait(t, c) \/ cond_signal(t, c)
    BY <1>3 DEF Next
  <2>2. CountsExact'
    BY <2>1, CountStep DEF Full, Inv
  <2>3. ASSUME Enter(t) PROVE Answered'
    BY <2>3, SemDistinct, DownAnswered, ZenonT(60) DEF Enter, At, Goto, S!Runs
  <2>4. ASSUME Leave(t) PROVE Answered'
    <3>1. on' = [on EXCEPT ![t] = on[t]] /\ on[t] \in CV
      BY <2>4 DEF Leave, Full, Inv, Types
    <3> QED
      BY <2>4, <3>1, SemDistinct, UpAnswered, ZenonT(60) DEF Leave, PassOn, Goto
  <2>5. ASSUME NEW c \in CV, cond_wait(t, c) PROVE Answered'
    BY <2>5, SemDistinct, UpAnswered, ZenonT(60) DEF cond_wait, PassOn, Goto
  <2>6. ASSUME NEW c \in CV, cond_signal(t, c) PROVE Answered'
    BY <2>6, SemDistinct, UpAnswered, ZenonT(60) DEF cond_signal, Goto
  <2>7. ASSUME Block(t) PROVE Answered'
    <3>1. on[t] \in CV
      BY DEF Full, Inv, Types
    <3> QED
      BY <2>7, <3>1, SemDistinct, DownAnswered, ZenonT(60) DEF Block, At, Goto, S!Runs
  <2>8. ASSUME Urgent(t) PROVE Answered'
    BY <2>8, SemDistinct, DownAnswered, ZenonT(60) DEF Urgent, At, Goto, S!Runs
  <2>9. ASSUME Rewake(t) \/ Signalled(t) PROVE Answered'
    <3>1. /\ UNCHANGED <<value, wait_queue, asleep, on>>
          /\ step' = [step EXCEPT ![t] = "in"] /\ step[t] \notin {"urgent", "block"}
      BY <2>9 DEF Rewake, Signalled, At, Goto
    <3>2. Active' = Active /\ Urgents' \subseteq Urgents
      BY <2>9, <3>1 DEF Rewake, Signalled, At, Active, Urgents, S!Runs, Full, Inv, Types
    <3>3. \A u \in Thread : step[u] \in {"urgent", "block"} => step'[u] = step[u]
      BY <3>1 DEF Full, Inv, Types
    <3> QED
      BY <3>1, <3>2, <3>3 DEF Answered, Queued, Full
  <2>10. Answered'
    BY <2>1, <2>3, <2>4, <2>5, <2>6, <2>7, <2>8, <2>9 DEF Continue
  <2> QED
    BY <1>1, <2>2, <2>10 DEF Full
<1> QED
  BY <1>2, <1>3

\* While a thread sleeps on the mutex or on next, some thread inside can run: the
\* one that has the monitor, or the one the unit of a semaphore waits for.
LEMMA FullNeverLost == Full => NeverLost
<1> SUFFICES ASSUME Full, NEW t \in asleep, step[t] \in {"in", "signalled"}
             PROVE  \E u \in Thread : S!Runs(u) /\ step[u] # "out"
  BY DEF NeverLost
<1> USE DEF Full, Inv
<1>1. PICK r \in Sem : \E i \in 1 .. Len(wait_queue[r]) : wait_queue[r][i] = t
  BY DEF Answered, Queued
<1>2. After(t, r)
  BY <1>1 DEF QueuesSleep
<1>3. \A u \in Thread : step[u] \in {"urgent", "block"} => S!Runs(u)
  <2> SUFFICES ASSUME NEW u \in asleep PROVE step[u] \notin {"urgent", "block"}
    BY DEF S!Runs
  <2>1. PICK s \in Sem : \E i \in 1 .. Len(wait_queue[s]) : wait_queue[s][i] = u
    BY DEF Answered, Queued
  <2>2. After(u, s)
    BY <2>1 DEF QueuesSleep
  <2> QED
    BY <2>2 DEF After
<1>4. CASE Active # {}
  BY <1>4 DEF Active
<1>5. ASSUME NEW s \in Sem, value[s] > 0 PROVE \E u \in Thread : S!Runs(u) /\ step[u] # "out"
  <2>1. r # s
    BY <1>1, <1>5 DEF Answered
  <2>2. CASE s = mutex
    <3>1. t \in Urgents
      BY <1>2, <2>1, <2>2 DEF After, Urgents, Types
    <3> QED
      BY <1>5, <2>2, <3>1 DEF Answered
  <2>3. CASE s = next
    BY <1>3, <1>5, <2>3 DEF Answered
  <2>4. CASE \E c \in CV : s = cv(c)
    BY <1>3, <1>5, <2>4 DEF Answered
  <2> QED
    BY <2>2, <2>3, <2>4 DEF Sem
<1> QED
  BY <1>4, <1>5 DEF Answered

\* A unit of cv.sem is for a thread that waits already.
LEMMA FullNoStoredSignal == Full => NoStoredSignal
<1> SUFFICES ASSUME Full, NEW c \in CV
             PROVE  value[cv(c)] <= Cardinality({t \in Thread : step[t] = "block" /\ on[t] = c})
  BY DEF NoStoredSignal
<1> DEFINE B == {t \in Thread : step[t] = "block" /\ on[t] = c}
<1>1. IsFiniteSet(B)
  <2>1. B \subseteq Waiters(c)
    BY DEF Waiters
  <2> QED
    BY <2>1, FS_Subset DEF Full, CountsExact
<1>2. Cardinality(B) \in Nat /\ (Cardinality(B) = 0 => B = {})
  BY <1>1, FS_CardinalityType, FS_EmptySet
<1>3. value[cv(c)] \in Nat /\ (value[cv(c)] > 0 => value[cv(c)] = 1 /\ B # {})
  BY SemDistinct DEF Full, Inv, Types, OneToken, Answered
<1> QED
  BY <1>2, <1>3

\* cond_wait, cond_signal and the exit of a routine always pass the monitor on:
\* while a thread sleeps on the mutex or on next, some thread inside can run.
THEOREM MonitorNeverLost == Spec => []NeverLost
<1>1. monitor_init => Full
  BY InitFull
<1>2. Full /\ [Next]_monvars => Full'
  BY NextFull
<1> QED
  BY <1>1, <1>2, FullNeverLost, PTL DEF Spec

\* cond_signal reaches a thread that was in cond_wait when it was called: none is
\* kept in cv.sem for a later one.
THEOREM MonitorNoStoredSignal == Spec => []NoStoredSignal
<1>1. monitor_init => Full
  BY InitFull
<1>2. Full /\ [Next]_monvars => Full'
  BY NextFull
<1> QED
  BY <1>1, <1>2, FullNoStoredSignal, PTL DEF Spec

=============================================================================
