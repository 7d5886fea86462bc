-------------------------- MODULE CheckSyncProofs --------------------------
(***************************************************************************)
(* The philosophers of check_sync.c for any number of them and any number  *)
(* of meals: those with semaphores and those with a monitor share the      *)
(* forks as Dining says, and nobody is woken without forks.                *)
(***************************************************************************)
EXTENDS MCCheckSync, Sequences, FiniteSets, TLAPS

\* Every leaf has a minute.
USE SMTT(30), ZenonT(30), SMTT(60), SMTT(61)

Phil == Sema!Phil
States == {"THINKING", "HUNGRY", "EATING"}

-----------------------------------------------------------------------------
(* The philosophers with semaphores. *)

SemaSteps == {"think", "hungry", "try", "release", "block", "eat", "put", "left", "right",
              "leave", "quit"}

SemaTypes ==
    /\ value \in [Sema!Sem -> Nat]
    /\ wait_queue \in [Sema!Sem -> Seq(Phil)]
    /\ asleep \subseteq Phil
    /\ state \in [Phil -> States]
    /\ iter \in [Phil -> Nat \ {0}]
    /\ pc \in [Phil -> SemaSteps]

\* The queue of the mutex holds philosophers who sleep in one of the two downs of
\* the mutex, once each.
MutexQueue ==
    LET q == wait_queue[Sema!mutex]
    IN  \A k \in 1 .. Len(q) :
            /\ q[k] \in asleep /\ pc[q[k]] \in {"hungry", "put"}
            /\ \A l \in 1 .. Len(q) : q[k] = q[l] => k = l

\* What the semaphore s[i], its queue and the state of philosopher i are at each
\* statement: an up of s[i] is there or has been taken once i is EATING.
ForksFit(i) ==
    LET v == value[Sema!s(i)]
        blocked == pc[i] = "eat" /\ i \in asleep
    IN  /\ wait_queue[Sema!s(i)] = IF blocked THEN <<i>> ELSE <<>>
        /\ v = IF pc[i] \in {"try", "release", "block"} /\ state[i] = "EATING" THEN 1 ELSE 0
        /\ pc[i] \in {"think", "hungry", "left", "right", "leave", "quit"} => state[i] = "THINKING"
        /\ pc[i] \in {"try", "release", "block"} => state[i] # "THINKING"
        /\ pc[i] \in {"eat", "put"} => state[i] = IF blocked THEN "HUNGRY" ELSE "EATING"
        /\ pc[i] # "quit" => iter[i] <= TIMES

SemaInv == SemaTypes /\ MutexQueue /\ \A i \in Phil : ForksFit(i)

\* The semaphores are different from each other.
LEMMA SemaDistinct ==
    /\ Sema!mutex \in Sema!Sem
    /\ \A i \in Phil : Sema!s(i) \in Sema!Sem /\ Sema!s(i) # Sema!mutex
    /\ \A i, j \in Phil : Sema!s(i) = Sema!s(j) => i = j
    /\ \A x \in Sema!Sem : x = Sema!mutex \/ \E i \in Phil : x = Sema!s(i)
  BY DEF Phil, Sema!Sem, Sema!mutex, Sema!s

\* A neighbour is a philosopher.
LEMMA Neighbours ==
    ASSUME NEW i \in Phil
    PROVE  /\ Sema!LEFT(i) \in Phil /\ Sema!RIGHT(i) \in Phil
           /\ Condvar!LEFT(i) = Sema!LEFT(i) /\ Condvar!RIGHT(i) = Sema!RIGHT(i)
  BY CheckSyncAssumption DEF Phil, Sema!Phil, Sema!LEFT, Sema!RIGHT, Condvar!LEFT, Condvar!RIGHT

\* What a philosopher does elsewhere leaves k alone.
LEMMA ForksFrame ==
    ASSUME NEW k \in Phil, ForksFit(k),
           value'[Sema!s(k)] = value[Sema!s(k)], wait_queue'[Sema!s(k)] = wait_queue[Sema!s(k)],
           pc'[k] = pc[k], state'[k] = state[k], iter'[k] = iter[k],
           pc[k] = "eat" => (k \in asleep' <=> k \in asleep)
    PROVE  ForksFit(k)'
  BY DEF ForksFit

\* Everybody thinks at the start.
LEMMA SemaInit == ASSUME Sema!Init PROVE SemaInv
<1> USE SemaDistinct, CheckSyncAssumption DEF Sema!Init, Sema!S!sem_init
<1>1. SemaTypes
  BY DEF SemaTypes, States, SemaSteps, Phil
<1>2. MutexQueue
  BY DEF MutexQueue
<1>3. \A i \in Phil : ForksFit(i)
  BY DEF ForksFit, Phil
<1> QED
  BY <1>1, <1>2, <1>3 DEF SemaInv

\* The two downs of the mutex, at the start of phi_take_forks_sema and of
\* phi_put_forks_sema.
LEMMA MutexDown ==
    ASSUME SemaInv, NEW i \in Phil, NEW from, NEW to, Sema!Down(i, Sema!mutex, from, to),
           (from = "think" /\ to = "hungry") \/ (from = "eat" /\ to = "put")
    PROVE  SemaInv'
<1> USE SemaDistinct DEF SemaInv
<1> DEFINE m == Sema!mutex
           q == wait_queue[m]
<1>1. /\ pc[i] = from /\ pc' = [pc EXCEPT ![i] = to] /\ i \notin asleep /\ Sema!S!down(i, m)
      /\ UNCHANGED <<state, iter>>
  BY DEF Sema!Down, Sema!Goto, Sema!S!Runs
<1>2. /\ value' \in [Sema!Sem -> Nat]
      /\ \A x \in Sema!Sem : x # m => value'[x] = value[x] /\ wait_queue'[x] = wait_queue[x]
  <2>1. CASE value[m] > 0
    <3>1. value[m] - 1 \in Nat /\ value' = [value EXCEPT ![m] = value[m] - 1] /\ wait_queue' = wait_queue
      BY <1>1, <2>1 DEF Sema!S!down, SemaTypes
    <3> QED
      BY <3>1 DEF SemaTypes
  <2>2. CASE ~(value[m] > 0)
    BY <1>1, <2>2 DEF Sema!S!down, SemaTypes
  <2> QED
    BY <2>1, <2>2
<1>3. /\ q \in Seq(Phil) /\ Append(q, i) \in Seq(Phil) /\ Len(Append(q, i)) = Len(q) + 1
      /\ \A k \in 1 .. Len(q) : Append(q, i)[k] = q[k]
      /\ Append(q, i)[Len(q) + 1] = i
  BY DEF SemaTypes
<1>4. \/ wait_queue' = wait_queue /\ asleep' = asleep
      \/ wait_queue' = [wait_queue EXCEPT ![m] = Append(q, i)] /\ asleep' = asleep \cup {i}
  BY <1>1 DEF Sema!S!down
<1>5. SemaTypes'
  BY <1>1, <1>2, <1>3, <1>4, ZenonT(60) DEF SemaTypes, SemaSteps
<1>6. MutexQueue'
  <2>1. \A k \in 1 .. Len(q) : q[k] # i /\ q[k] \in Phil
    BY <1>1, <1>3 DEF MutexQueue
  <2>2. CASE wait_queue' = wait_queue /\ asleep' = asleep
    <3>1. \A k \in 1 .. Len(q) : pc'[q[k]] = pc[q[k]]
      BY <1>1, <2>1 DEF SemaTypes
    <3> QED
      BY <2>2, <3>1 DEF MutexQueue
  <2>3. CASE wait_queue' = [wait_queue EXCEPT ![m] = Append(q, i)] /\ asleep' = asleep \cup {i}
    <3>1. wait_queue'[m] = Append(q, i)
      BY <2>3 DEF SemaTypes
    <3>2. \A k \in 1 .. Len(q) : q[k] \in asleep' /\ pc'[q[k]] \in {"hungry", "put"}
      BY <1>1, <2>1, <2>3 DEF MutexQueue, SemaTypes
    <3>3. i \in asleep' /\ pc'[i] \in {"hungry", "put"}
      BY <1>1, <2>3 DEF SemaTypes
    <3>4. ASSUME NEW k \in 1 .. Len(q) + 1, NEW l \in 1 .. Len(q) + 1,
                 Append(q, i)[k] = Append(q, i)[l]
          PROVE  k = l
      BY <1>3, <2>1, <3>4 DEF MutexQueue
    <3> QED
      BY <1>3, <3>1, <3>2, <3>3, <3>4 DEF MutexQueue
  <2> QED
    BY <1>4, <2>2, <2>3
<1>7. ASSUME NEW k \in Phil PROVE ForksFit(k)'
  <2>1. CASE k = i
    <3>1. /\ pc'[i] = to /\ state'[i] = state[i] /\ iter'[i] = iter[i]
          /\ value'[Sema!s(i)] = value[Sema!s(i)] /\ wait_queue'[Sema!s(i)] = wait_queue[Sema!s(i)]
      BY <1>1, <1>2 DEF SemaTypes
    <3> QED
      BY <1>1, <2>1, <3>1 DEF ForksFit
  <2>2. CASE k # i
    <3>1. /\ pc'[k] = pc[k] /\ state'[k] = state[k] /\ iter'[k] = iter[k]
          /\ k \in asleep' <=> k \in asleep
      BY <1>1, <1>4, <2>2 DEF SemaTypes
    <3> QED
      BY <1>2, <3>1, ForksFrame, ZenonT(60)
  <2> QED
    BY <2>1, <2>2
<1> QED
  BY <1>5, <1>6, <1>7

\* up(mutex) wakes the head of the queue of the mutex or nobody, and leaves the
\* other semaphores alone.
LEMMA MutexUp ==
    ASSUME SemaInv, NEW i \in Phil, i \notin asleep, Sema!S!up(Sema!mutex),
           NEW to \in SemaSteps, pc' = [pc EXCEPT ![i] = to], pc[i] # "eat"
    PROVE  /\ value' \in [Sema!Sem -> Nat] /\ wait_queue' \in [Sema!Sem -> Seq(Phil)]
           /\ asleep' \subseteq asleep
           /\ \A k \in asleep : pc[k] = "eat" => k \in asleep'
           /\ MutexQueue'
           /\ \A k \in Phil : /\ value'[Sema!s(k)] = value[Sema!s(k)]
                              /\ wait_queue'[Sema!s(k)] = wait_queue[Sema!s(k)]
<1> USE SemaDistinct DEF SemaInv
<1> DEFINE m == Sema!mutex
           q == wait_queue[m]
<1>1. q \in Seq(Phil) /\ \A k \in 1 .. Len(q) : q[k] # i /\ q[k] \in Phil
  BY DEF MutexQueue, SemaTypes
<1>2. \A k \in 1 .. Len(q) : pc'[q[k]] = pc[q[k]]
  BY <1>1 DEF SemaTypes
<1>3. CASE q = <<>>
  <2>1. /\ value[m] + 1 \in Nat /\ value' = [value EXCEPT ![m] = value[m] + 1]
        /\ wait_queue' = wait_queue /\ asleep' = asleep
    BY <1>3 DEF Sema!S!up, SemaTypes
  <2>2. MutexQueue'
    BY <1>3, <2>1 DEF MutexQueue
  <2> QED
    BY <2>1, <2>2 DEF SemaTypes
<1>4. CASE q # <<>>
  <2>1. /\ asleep' = asleep \ {Head(q)} /\ value' = value
        /\ wait_queue' = [wait_queue EXCEPT ![m] = Tail(q)]
    BY <1>4 DEF Sema!S!up
  <2>2. /\ Len(q) > 0 /\ Head(q) = q[1] /\ Tail(q) \in Seq(Phil) /\ Len(Tail(q)) = Len(q) - 1
        /\ \A k \in 1 .. Len(Tail(q)) : Tail(q)[k] = q[k + 1]
    BY <1>1, <1>4
  <2>3. wait_queue'[m] = Tail(q)
    BY <2>1 DEF SemaTypes
  <2>4. ASSUME NEW k \in 1 .. Len(Tail(q))
        PROVE  /\ Tail(q)[k] \in asleep' /\ pc'[Tail(q)[k]] \in {"hungry", "put"}
               /\ \A l \in 1 .. Len(Tail(q)) : Tail(q)[k] = Tail(q)[l] => k = l
    <3>1. Tail(q)[k] = q[k + 1] /\ k + 1 \in 1 .. Len(q) /\ q[k + 1] # q[1]
      BY <2>2 DEF MutexQueue
    <3>2. q[k + 1] \in asleep' /\ pc'[q[k + 1]] \in {"hungry", "put"}
      BY <1>2, <2>1, <2>2, <3>1 DEF MutexQueue
    <3>3. ASSUME NEW l \in 1 .. Len(Tail(q)), Tail(q)[k] = Tail(q)[l] PROVE k = l
      <4>1. l + 1 \in 1 .. Len(q) /\ Tail(q)[l] = q[l + 1]
        BY <2>2
      <4>2. k + 1 = l + 1
        BY <3>1, <3>3, <4>1 DEF MutexQueue
      <4> QED
        BY <2>2, <4>2
    <3> QED
      BY <3>1, <3>2, <3>3
  <2>5. MutexQueue'
    BY <2>3, <2>4 DEF MutexQueue
  <2>6. pc[Head(q)] # "eat"
    BY <2>2 DEF MutexQueue
  <2>7. \A k \in Phil : wait_queue'[Sema!s(k)] = wait_queue[Sema!s(k)]
    BY <2>1 DEF SemaTypes
  <2> QED
    BY <2>1, <2>2, <2>5, <2>6, <2>7 DEF SemaTypes
<1> QED
  BY <1>3, <1>4

\* The end of phi_take_forks_sema before down(s[i]).
LEMMA ReleaseStep ==
    ASSUME SemaInv, NEW i \in Phil, Sema!Up(i, Sema!mutex, "release", "block")
    PROVE  SemaInv'
<1>1. /\ i \notin asleep /\ pc[i] = "release" /\ pc' = [pc EXCEPT ![i] = "block"]
      /\ Sema!S!up(Sema!mutex) /\ UNCHANGED <<state, iter>>
  BY DEF Sema!Up, Sema!Goto, Sema!S!Runs
<1>2. /\ value' \in [Sema!Sem -> Nat] /\ wait_queue' \in [Sema!Sem -> Seq(Phil)]
      /\ asleep' \subseteq asleep
      /\ \A k \in asleep : pc[k] = "eat" => k \in asleep'
      /\ MutexQueue'
      /\ \A k \in Phil : /\ value'[Sema!s(k)] = value[Sema!s(k)]
                         /\ wait_queue'[Sema!s(k)] = wait_queue[Sema!s(k)]
  BY <1>1, MutexUp, ZenonT(60) DEF SemaSteps
<1>3. SemaTypes'
  BY <1>1, <1>2 DEF SemaInv, SemaTypes, SemaSteps
<1>4. ASSUME NEW k \in Phil PROVE ForksFit(k)'
  <2>1. CASE k = i
    <3>1. pc'[i] = "block" /\ state'[i] = state[i] /\ iter'[i] = iter[i] /\ i \notin asleep'
      BY <1>1, <1>2 DEF SemaInv, SemaTypes
    <3> QED
      BY <1>1, <1>2, <2>1, <3>1, ZenonT(60) DEF SemaInv, ForksFit
  <2>2. CASE k # i
    <3>1. pc'[k] = pc[k] /\ state'[k] = state[k] /\ iter'[k] = iter[k]
      BY <1>1, <2>2 DEF SemaInv, SemaTypes
    <3> QED
      BY <1>2, <3>1, ForksFrame, ZenonT(60) DEF SemaInv
  <2> QED
    BY <2>1, <2>2
<1> QED
  BY <1>2, <1>3, <1>4 DEF SemaInv

\* The end of phi_put_forks_sema and the test of the loop.
LEMMA EndStep ==
    ASSUME SemaInv, NEW i \in Phil, Sema!EndIteration(i)
    PROVE  SemaInv'
<1> DEFINE to == IF iter[i] < TIMES THEN "think" ELSE "quit"
<1>1. /\ i \notin asleep /\ pc[i] = "leave" /\ pc' = [pc EXCEPT ![i] = to]
      /\ Sema!S!up(Sema!mutex) /\ state' = state /\ iter' = [iter EXCEPT ![i] = @ + 1]
  BY DEF Sema!EndIteration, Sema!Goto, Sema!S!Runs
<1>2. /\ value' \in [Sema!Sem -> Nat] /\ wait_queue' \in [Sema!Sem -> Seq(Phil)]
      /\ asleep' \subseteq asleep
      /\ \A k \in asleep : pc[k] = "eat" => k \in asleep'
      /\ MutexQueue'
      /\ \A k \in Phil : /\ value'[Sema!s(k)] = value[Sema!s(k)]
                         /\ wait_queue'[Sema!s(k)] = wait_queue[Sema!s(k)]
  BY <1>1, MutexUp, ZenonT(60) DEF SemaSteps
<1>3. SemaTypes'
  BY <1>1, <1>2 DEF SemaInv, SemaTypes, SemaSteps
<1>4. ASSUME NEW k \in Phil PROVE ForksFit(k)'
  <2>1. CASE k = i
    <3>1. /\ pc'[i] = to /\ state'[i] = state[i] /\ iter'[i] = iter[i] + 1 /\ i \notin asleep'
          /\ iter[i] \in Nat
      BY <1>1, <1>2 DEF SemaInv, SemaTypes
    <3>2. state[i] = "THINKING" /\ value[Sema!s(i)] = 0 /\ wait_queue[Sema!s(i)] = <<>>
      BY <1>1, ZenonT(60) DEF SemaInv, ForksFit
    <3>3. to \in {"think", "quit"} /\ (to # "quit" => iter[i] + 1 <= TIMES)
      BY <3>1, CheckSyncAssumption
    <3> HIDE DEF to
    <3> QED
      BY <1>2, <2>1, <3>1, <3>2, <3>3 DEF ForksFit
  <2>2. CASE k # i
    <3>1. pc'[k] = pc[k] /\ state'[k] = state[k] /\ iter'[k] = iter[k]
      BY <1>1, <2>2 DEF SemaInv, SemaTypes
    <3> QED
      BY <1>2, <3>1, ForksFrame, ZenonT(60) DEF SemaInv
  <2> QED
    BY <2>1, <2>2
<1> QED
  BY <1>2, <1>3, <1>4 DEF SemaInv

\* down(s[i]) at the end of phi_take_forks_sema: philosopher i has been made EATING
\* and takes the unit, or waits for it alone in the queue.
LEMMA TakeStep ==
    ASSUME SemaInv, NEW i \in Phil, Sema!Down(i, Sema!s(i), "block", "eat")
    PROVE  SemaInv'
<1> USE SemaDistinct DEF SemaInv
<1> DEFINE x == Sema!s(i)
<1>1. /\ i \notin asleep /\ pc[i] = "block" /\ pc' = [pc EXCEPT ![i] = "eat"]
      /\ Sema!S!down(i, x) /\ UNCHANGED <<state, iter>>
  BY DEF Sema!Down, Sema!Goto, Sema!S!Runs
<1>2. /\ wait_queue[x] = <<>> /\ iter[i] <= TIMES
      /\ \/ value[x] = 1 /\ state[i] = "EATING"
         \/ value[x] = 0 /\ state[i] = "HUNGRY"
  BY <1>1, ZenonT(60) DEF ForksFit, SemaTypes, States
<1>3. /\ asleep' = IF state[i] = "EATING" THEN asleep ELSE asleep \cup {i}
      /\ value' = [value EXCEPT ![x] = 0]
      /\ wait_queue' = [wait_queue EXCEPT ![x] = IF state[i] = "EATING" THEN <<>> ELSE <<i>>]
  <2>1. CASE state[i] = "EATING"
    <3>1. value[x] > 0 /\ value[x] - 1 = 0
      BY <1>2, <2>1
    <3>2. value' = [value EXCEPT ![x] = 0] /\ wait_queue' = wait_queue /\ asleep' = asleep
      BY <1>1, <3>1 DEF Sema!S!down
    <3> QED
      BY <1>2, <2>1, <3>2 DEF SemaTypes
  <2>2. CASE state[i] # "EATING"
    <3>1. ~(value[x] > 0) /\ value[x] = 0
      BY <1>2, <2>2
    <3>2. /\ value' = value /\ wait_queue' = [wait_queue EXCEPT ![x] = Append(<<>>, i)]
          /\ asleep' = asleep \cup {i}
      BY <1>1, <1>2, <3>1 DEF Sema!S!down
    <3>3. Append(<<>>, i) = <<i>>
      OBVIOUS
    <3> QED
      BY <2>2, <3>1, <3>2, <3>3 DEF SemaTypes
  <2> QED
    BY <2>1, <2>2
<1>4. SemaTypes'
  <2>1. <<>> \in Seq(Phil) /\ <<i>> \in Seq(Phil)
    OBVIOUS
  <2> QED
    BY <1>1, <1>3, <2>1 DEF SemaTypes, SemaSteps
<1>5. MutexQueue'
  <2>1. wait_queue'[Sema!mutex] = wait_queue[Sema!mutex]
    BY <1>3 DEF SemaTypes
  <2>2. \A k \in 1 .. Len(wait_queue[Sema!mutex]) :
            LET j == wait_queue[Sema!mutex][k] IN j \in asleep' /\ pc'[j] = pc[j]
    BY <1>1, <1>3 DEF MutexQueue, SemaTypes
  <2> QED
    BY <2>1, <2>2 DEF MutexQueue
<1>6. ASSUME NEW k \in Phil PROVE ForksFit(k)'
  <2>1. CASE k = i
    <3>1. /\ pc'[i] = "eat" /\ state'[i] = state[i] /\ iter'[i] = iter[i] /\ value'[x] = 0
          /\ wait_queue'[x] = IF state[i] = "EATING" THEN <<>> ELSE <<i>>
          /\ i \in asleep' <=> state[i] # "EATING"
      BY <1>1, <1>3 DEF SemaTypes
    <3> QED
      BY <1>2, <2>1, <3>1 DEF ForksFit
  <2>2. CASE k # i
    <3>1. /\ pc'[k] = pc[k] /\ state'[k] = state[k] /\ iter'[k] = iter[k]
          /\ value'[Sema!s(k)] = value[Sema!s(k)] /\ wait_queue'[Sema!s(k)] = wait_queue[Sema!s(k)]
          /\ k \in asleep' <=> k \in asleep
      BY <1>1, <1>3, <2>2 DEF SemaTypes
    <3> QED
      BY <3>1, ForksFrame, ZenonT(60)
  <2> QED
    BY <2>1, <2>2
<1> QED
  BY <1>4, <1>5, <1>6

\* state_sema[i] = HUNGRY and state_sema[i] = THINKING.
LEMMA AssignStep ==
    ASSUME SemaInv, NEW i \in Phil,
           \/ Sema!Assign(i, "HUNGRY", "hungry", "try")
           \/ Sema!Assign(i, "THINKING", "put", "left")
    PROVE  SemaInv'
<1> USE SemaDistinct DEF SemaInv
<1>1. /\ i \notin asleep /\ UNCHANGED <<value, wait_queue, asleep, iter>>
      /\ \/ pc[i] = "hungry" /\ pc' = [pc EXCEPT ![i] = "try"] /\ state' = [state EXCEPT ![i] = "HUNGRY"]
         \/ pc[i] = "put" /\ pc' = [pc EXCEPT ![i] = "left"] /\ state' = [state EXCEPT ![i] = "THINKING"]
  BY DEF Sema!Assign, Sema!Goto, Sema!S!Runs
<1>2. SemaTypes'
  BY <1>1, ZenonT(60) DEF SemaTypes, SemaSteps, States
<1>3. MutexQueue'
  BY <1>1, ZenonT(60) DEF MutexQueue, SemaTypes
<1>4. ASSUME NEW k \in Phil PROVE ForksFit(k)'
  <2>1. CASE k = i
    BY <1>1, <2>1, ZenonT(60) DEF ForksFit, SemaTypes
  <2>2. CASE k # i
    <3>1. pc'[k] = pc[k] /\ state'[k] = state[k]
      BY <1>1, <2>2 DEF SemaTypes
    <3> QED
      BY <1>1, <3>1, ForksFrame, ZenonT(60)
  <2> QED
    BY <2>1, <2>2
<1> QED
  BY <1>2, <1>3, <1>4

\* phi_test_sema(j), called by philosopher i: the unit of s[j] is kept for a
\* philosopher on the way to down(s[j]), and wakes one who sleeps in it.
LEMMA TestStep ==
    ASSUME SemaInv, NEW i \in Phil, NEW j \in Phil, NEW from, NEW to, Sema!Test(i, j, from, to),
           \/ from = "try" /\ to = "release"
           \/ from = "left" /\ to = "right"
           \/ from = "right" /\ to = "leave"
    PROVE  SemaInv'
<1> USE SemaDistinct DEF SemaInv
<1> DEFINE x == Sema!s(j)
           m == Sema!mutex
<1>1. /\ i \notin asleep /\ pc[i] = from /\ pc' = [pc EXCEPT ![i] = to] /\ UNCHANGED iter
      /\ Sema!phi_test_sema(j)
  BY DEF Sema!Test, Sema!Goto, Sema!S!Runs
<1>2. to \in SemaSteps
  BY DEF SemaSteps
<1>3. ASSUME wait_queue'[m] = wait_queue[m],
             \A k \in asleep : pc[k] \in {"hungry", "put"} => k \in asleep'
      PROVE  MutexQueue'
  <2>1. \A k \in 1 .. Len(wait_queue[m]) :
            LET h == wait_queue[m][k] IN h \in asleep' /\ pc'[h] = pc[h]
    BY <1>1, <1>3 DEF MutexQueue, SemaTypes
  <2> QED
    BY <1>3, <2>1 DEF MutexQueue
<1>4. ASSUME NEW k \in Phil, k # j,
             /\ value'[Sema!s(k)] = value[Sema!s(k)] /\ wait_queue'[Sema!s(k)] = wait_queue[Sema!s(k)]
             /\ state'[k] = state[k] /\ (k \in asleep' <=> k \in asleep)
      PROVE  ForksFit(k)'
  <2>1. ForksFit(k) /\ iter'[k] = iter[k]
    BY <1>1
  <2>2. CASE k = i
    <3>1. pc[k] = from /\ pc'[k] = to
      BY <1>1, <2>2 DEF SemaTypes
    <3> QED
      BY <1>4, <2>1, <3>1 DEF ForksFit
  <2>3. CASE k # i
    <3>1. pc'[k] = pc[k]
      BY <1>1, <2>3 DEF SemaTypes
    <3> QED
      BY <1>4, <2>1, <3>1, ForksFrame, ZenonT(60)
  <2> QED
    BY <2>2, <2>3
<1>5. CASE ~Sema!CanEat(j)
  <2>1. UNCHANGED <<value, wait_queue, asleep, state>>
    BY <1>1, <1>5 DEF Sema!phi_test_sema
  <2>2. SemaTypes'
    BY <1>1, <1>2, <2>1 DEF SemaTypes
  <2>3. MutexQueue'
    BY <1>3, <2>1
  <2>4. ForksFit(j)'
    <3>1. CASE j = i
      <4>1. pc[j] = from /\ pc'[j] = to /\ ForksFit(j)
        BY <1>1, <3>1 DEF SemaTypes
      <4> QED
        BY <1>1, <2>1, <4>1 DEF ForksFit
    <3>2. CASE j # i
      <4>1. pc'[j] = pc[j]
        BY <1>1, <3>2 DEF SemaTypes
      <4> QED
        BY <1>1, <2>1, <4>1, ForksFrame, ZenonT(60)
    <3> QED
      BY <3>1, <3>2
  <2> QED
    BY <1>4, <2>1, <2>2, <2>3, <2>4
<1>6. CASE Sema!CanEat(j)
  <2>1. /\ state[j] = "HUNGRY" /\ state' = [state EXCEPT ![j] = "EATING"]
        /\ Sema!S!up(x) /\ ForksFit(j)
    BY <1>1, <1>6 DEF Sema!phi_test_sema, Sema!CanEat
  <2>2. pc[j] \in SemaSteps
    BY DEF SemaTypes
  <2>3. /\ value[x] = 0 /\ iter[j] <= TIMES
        /\ \/ pc[j] \in {"try", "release", "block"} /\ wait_queue[x] = <<>>
           \/ pc[j] = "eat" /\ j \in asleep /\ wait_queue[x] = <<j>>
    BY <2>1, <2>2 DEF ForksFit, SemaSteps
  <2>4. /\ wait_queue' = [wait_queue EXCEPT ![x] = <<>>]
        /\ \/ pc[j] \in {"try", "release", "block"} /\ value' = [value EXCEPT ![x] = 1] /\ asleep' = asleep
           \/ pc[j] = "eat" /\ j # i /\ value' = value /\ asleep' = asleep \ {j}
    <3>1. CASE wait_queue[x] = <<>>
      BY <2>1, <2>3, <3>1 DEF Sema!S!up, SemaTypes
    <3>2. CASE pc[j] = "eat" /\ j \in asleep /\ wait_queue[x] = <<j>>
      <4>1. wait_queue[x] # <<>> /\ Head(wait_queue[x]) = j /\ Tail(wait_queue[x]) = <<>>
        BY <3>2
      <4> QED
        BY <1>1, <2>1, <3>2, <4>1 DEF Sema!S!up
    <3> QED
      BY <2>3, <3>1, <3>2
  <2>5. SemaTypes'
    <3>1. <<>> \in Seq(Phil)
      OBVIOUS
    <3>2. value' \in [Sema!Sem -> Nat] /\ asleep' \subseteq Phil
      <4>1. asleep \subseteq Phil /\ value \in [Sema!Sem -> Nat]
        BY DEF SemaTypes
      <4>2. asleep' \subseteq asleep /\ (value' = value \/ value' = [value EXCEPT ![x] = 1])
        BY <2>4, ZenonT(60)
      <4> QED
        BY <4>1, <4>2
    <3>3. wait_queue' \in [Sema!Sem -> Seq(Phil)]
      BY <2>4, <3>1 DEF SemaTypes
    <3> QED
      BY <1>1, <1>2, <2>1, <3>2, <3>3 DEF SemaTypes, States
  <2>6. MutexQueue'
    <3>1. wait_queue'[m] = wait_queue[m]
      BY <2>4 DEF SemaTypes
    <3> QED
      BY <1>3, <2>4, <3>1
  <2>7. ForksFit(j)'
    <3>1. /\ state'[j] = "EATING" /\ wait_queue'[x] = <<>> /\ iter'[j] = iter[j]
          /\ pc'[j] = IF j = i THEN to ELSE pc[j]
      BY <1>1, <2>1, <2>4 DEF SemaTypes
    <3>2. CASE pc[j] = "eat" /\ j # i /\ value' = value /\ asleep' = asleep \ {j}
      BY <2>3, <3>1, <3>2 DEF ForksFit
    <3>3. CASE pc[j] \in {"try", "release", "block"} /\ value' = [value EXCEPT ![x] = 1] /\ asleep' = asleep
      <4>1. value'[x] = 1 /\ pc'[j] \in {"try", "release", "block"}
        BY <1>1, <3>1, <3>3 DEF SemaTypes
      <4> QED
        BY <2>3, <3>1, <4>1 DEF ForksFit
    <3> QED
      BY <2>4, <3>2, <3>3
  <2>8. ASSUME NEW k \in Phil, k # j PROVE ForksFit(k)'
    <3>1. /\ value'[Sema!s(k)] = value[Sema!s(k)] /\ wait_queue'[Sema!s(k)] = wait_queue[Sema!s(k)]
          /\ state'[k] = state[k] /\ (k \in asleep' <=> k \in asleep)
      BY <2>1, <2>4, <2>8 DEF SemaTypes
    <3> QED
      BY <1>4, <2>8, <3>1
  <2> QED
    BY <2>5, <2>6, <2>7, <2>8
<1> QED
  BY <1>5, <1>6

\* Every step of a philosopher keeps the invariant.
LEMMA SemaNext ==
    ASSUME SemaInv, NEW i \in Phil, Sema!philosopher_using_semaphore(i)
    PROVE  SemaInv'
<1>1. CASE Sema!phi_take_forks_sema(i)
  BY <1>1, MutexDown, AssignStep, TestStep, ReleaseStep, TakeStep DEF Sema!phi_take_forks_sema
<1>2. CASE Sema!phi_put_forks_sema(i)
  BY <1>2, MutexDown, AssignStep, TestStep, Neighbours DEF Sema!phi_put_forks_sema
<1>3. CASE Sema!EndIteration(i)
  BY <1>3, EndStep
<1> QED
  BY <1>1, <1>2, <1>3 DEF Sema!philosopher_using_semaphore

\* The invariant holds in every state of check_sync.
LEMMA SemaCorrect == Spec => []SemaInv
<1>1. Init => SemaInv
  BY SemaInit DEF Init
<1>2. SemaInv /\ [Next]_vars => SemaInv'
  <2> SUFFICES ASSUME SemaInv, [Next]_vars PROVE SemaInv'
    OBVIOUS
  <2>1. ASSUME UNCHANGED semavars PROVE SemaInv'
    BY <2>1 DEF semavars, SemaInv, SemaTypes, MutexQueue, ForksFit
  <2>2. ASSUME NEW i \in Phil, SemaStep(i) PROVE SemaInv'
    BY <2>2, SemaNext DEF SemaStep
  <2>3. ASSUME NEW i \in Phil, CondvarStep(i) PROVE SemaInv'
    BY <2>1, <2>3 DEF CondvarStep
  <2> QED
    BY <2>1, <2>2, <2>3 DEF Next, vars, Phil
<1> QED
  BY <1>1, <1>2, PTL DEF Spec

\* What Dining sees of the philosophers with semaphores.
SemaEating == {i \in Phil : state[i] = "EATING"}
SemaMeals == [i \in Phil |-> iter[i] - (IF pc[i] \in {"left", "right", "leave"} THEN 0 ELSE 1)]

\* A step that changes neither the states, the meals nor the side of the meal a
\* philosopher is on is a stuttering step of Dining.
LEMMA SemaStutter ==
    ASSUME SemaTypes, NEW i \in Phil, NEW from, NEW to,
           pc[i] = from, pc' = [pc EXCEPT ![i] = to],
           from \in {"left", "right", "leave"} <=> to \in {"left", "right", "leave"},
           state' = state, iter' = iter
    PROVE  UNCHANGED <<SemaEating, SemaMeals>>
<1>1. \A k \in Phil : pc'[k] \in {"left", "right", "leave"} <=> pc[k] \in {"left", "right", "leave"}
  BY DEF SemaTypes
<1> QED
  BY <1>1 DEF SemaEating, SemaMeals

\* A philosopher is made EATING by Sit, returns the forks by Rise, and does nothing
\* else that Dining sees.
LEMMA SemaRefines ==
    ASSUME SemaInv, NEW i \in Phil, Sema!philosopher_using_semaphore(i)
    PROVE  [Sema!D!Next]_<<SemaEating, SemaMeals>>
<1> USE DEF SemaInv
<1>1. ASSUME NEW x, NEW from, NEW to, Sema!Down(i, x, from, to) \/ Sema!Up(i, x, from, to),
             from \notin {"left", "right", "leave"}, to \notin {"left", "right", "leave"}
      PROVE  UNCHANGED <<SemaEating, SemaMeals>>
  BY <1>1, SemaStutter DEF Sema!Down, Sema!Up, Sema!Goto
<1>2. CASE Sema!Assign(i, "HUNGRY", "hungry", "try")
  <2>1. /\ pc[i] = "hungry" /\ pc' = [pc EXCEPT ![i] = "try"] /\ iter' = iter
        /\ state[i] = "THINKING" /\ state' = [state EXCEPT ![i] = "HUNGRY"]
    BY <1>2, ZenonT(60) DEF Sema!Assign, Sema!Goto, ForksFit
  <2>2. SemaEating' = SemaEating
    BY <2>1 DEF SemaEating, SemaTypes
  <2>3. SemaMeals' = SemaMeals
    BY <2>1 DEF SemaMeals, SemaTypes
  <2> QED
    BY <2>2, <2>3
<1>3. CASE Sema!Assign(i, "THINKING", "put", "left")
  <2>0. state[i] = IF pc[i] = "eat" /\ i \in asleep THEN "HUNGRY" ELSE "EATING"
    BY <1>3, ZenonT(60) DEF Sema!Assign, Sema!Goto, ForksFit
  <2>1. /\ pc[i] = "put" /\ pc' = [pc EXCEPT ![i] = "left"] /\ iter' = iter
        /\ state[i] = "EATING" /\ state' = [state EXCEPT ![i] = "THINKING"]
    BY <1>3, <2>0 DEF Sema!Assign, Sema!Goto
  <2>2. i \in SemaEating /\ SemaEating' = SemaEating \ {i}
    BY <2>1 DEF SemaEating, SemaTypes
  <2>3. SemaMeals' = [SemaMeals EXCEPT ![i] = @ + 1]
    <3>1. /\ pc'[i] = "left" /\ iter'[i] = iter[i] /\ iter[i] \in Nat /\ iter[i] - 1 + 1 = iter[i]
          /\ \A k \in Phil : k # i => pc'[k] = pc[k] /\ iter'[k] = iter[k]
      BY <2>1 DEF SemaTypes
    <3>2. /\ SemaMeals'[i] = iter[i] /\ SemaMeals[i] = iter[i] - 1
          /\ \A k \in Phil : k # i => SemaMeals'[k] = SemaMeals[k]
      BY <2>1, <3>1 DEF SemaMeals
    <3>3. /\ SemaMeals = [k \in Phil |-> SemaMeals[k]]
          /\ SemaMeals' = [k \in Phil |-> SemaMeals'[k]]
      BY DEF SemaMeals
    <3> HIDE DEF SemaMeals
    <3> QED
      BY <3>1, <3>2, <3>3
  <2> QED
    BY <2>2, <2>3, ZenonT(60) DEF Sema!D!Next, Sema!D!Rise, SemaEating, SemaMeals, Phil, Sema!D!Phil, Sema!Phil
<1>4. ASSUME NEW j \in Phil, NEW from, NEW to, Sema!Test(i, j, from, to),
             \/ from = "try" /\ to = "release"
             \/ from = "left" /\ to = "right"
             \/ from = "right" /\ to = "leave"
      PROVE  [Sema!D!Next]_<<SemaEating, SemaMeals>>
  <2>1. pc[i] = from /\ pc' = [pc EXCEPT ![i] = to] /\ iter' = iter /\ Sema!phi_test_sema(j)
    BY <1>4 DEF Sema!Test, Sema!Goto
  <2>2. SemaMeals' = SemaMeals
    BY <1>4, <2>1 DEF SemaMeals, SemaTypes
  <2>3. CASE ~Sema!CanEat(j)
    <3>1. state' = state
      BY <2>1, <2>3 DEF Sema!phi_test_sema
    <3> QED
      BY <2>2, <3>1 DEF SemaEating
  <2>4. CASE Sema!CanEat(j)
    <3>1. /\ state[j] = "HUNGRY" /\ state' = [state EXCEPT ![j] = "EATING"]
          /\ state[Sema!LEFT(j)] # "EATING" /\ state[Sema!RIGHT(j)] # "EATING"
      BY <2>1, <2>4 DEF Sema!phi_test_sema, Sema!CanEat
    <3>2. pc[j] \notin {"left", "right", "leave", "quit"} /\ iter[j] <= TIMES
      BY <3>1, ZenonT(60) DEF ForksFit
    <3>3. SemaMeals[j] < TIMES
      BY <3>2, CheckSyncAssumption DEF SemaMeals, SemaTypes
    <3>4. /\ j \notin SemaEating /\ SemaEating' = SemaEating \cup {j}
          /\ {Sema!LEFT(j), Sema!RIGHT(j)} \cap SemaEating = {}
      BY <3>1 DEF SemaEating, SemaTypes
    <3>5. Sema!D!LEFT(j) = Sema!LEFT(j) /\ Sema!D!RIGHT(j) = Sema!RIGHT(j)
      BY DEF Sema!D!LEFT, Sema!LEFT, Sema!D!RIGHT, Sema!RIGHT
    <3>6. Sema!D!Sit(j)
      BY <2>2, <3>3, <3>4, <3>5 DEF Sema!D!Sit, SemaEating, SemaMeals, Phil
    <3> QED
      BY <3>6 DEF Sema!D!Next, Phil, Sema!D!Phil, Sema!Phil
  <2> QED
    BY <2>3, <2>4
<1>5. CASE Sema!EndIteration(i)
  <2>1. /\ pc[i] = "leave" /\ state' = state /\ iter' = [iter EXCEPT ![i] = @ + 1]
        /\ pc' = [pc EXCEPT ![i] = IF iter[i] < TIMES THEN "think" ELSE "quit"]
    BY <1>5 DEF Sema!EndIteration, Sema!Goto
  <2>2. SemaMeals' = SemaMeals
    BY <2>1 DEF SemaMeals, SemaTypes
  <2> QED
    BY <2>1, <2>2 DEF SemaEating
<1>6. CASE Sema!phi_take_forks_sema(i)
  BY <1>1, <1>2, <1>4, <1>6 DEF Sema!phi_take_forks_sema
<1>7. CASE Sema!phi_put_forks_sema(i)
  BY <1>1, <1>3, <1>4, <1>7, Neighbours DEF Sema!phi_put_forks_sema
<1> QED
  BY <1>5, <1>6, <1>7 DEF Sema!philosopher_using_semaphore

\* The philosophers of philosopher_using_semaphore share the forks with their
\* neighbours and eat TIMES times each, however many they are.
THEOREM CheckSyncSemaDining == Spec => SemaDining
<1>1. Init => Sema!D!Init
  <2> SUFFICES ASSUME Init PROVE Sema!D!Init
    OBVIOUS
  <2>1. \A i \in Phil : state[i] = "THINKING" /\ iter[i] = 1 /\ pc[i] = "think"
    BY DEF Init, Sema!Init, Phil
  <2> QED
    BY <2>1 DEF Sema!D!Init, Sema!D!Phil, Sema!Phil, Phil
<1>2. SemaInv /\ [Next]_vars => [Sema!D!Next]_<<SemaEating, SemaMeals>>
  <2> SUFFICES ASSUME SemaInv, [Next]_vars PROVE [Sema!D!Next]_<<SemaEating, SemaMeals>>
    OBVIOUS
  <2>1. ASSUME UNCHANGED semavars PROVE UNCHANGED <<SemaEating, SemaMeals>>
    BY <2>1 DEF semavars, SemaEating, SemaMeals
  <2>2. ASSUME NEW i \in Phil, SemaStep(i) PROVE [Sema!D!Next]_<<SemaEating, SemaMeals>>
    BY <2>2, SemaRefines DEF SemaStep
  <2>3. ASSUME NEW i \in Phil, CondvarStep(i) PROVE UNCHANGED <<SemaEating, SemaMeals>>
    BY <2>1, <2>3 DEF CondvarStep
  <2> QED
    BY <2>1, <2>2, <2>3 DEF Next, vars, Phil
<1> QED
  BY <1>1, <1>2, SemaCorrect, PTL
  DEF Spec, SemaDining, Sema!ImplementsDining, Sema!D!Spec, SemaEating, SemaMeals, Phil

-----------------------------------------------------------------------------
(* The philosophers with a monitor, given what the monitor guarantees:     *)
(* MonTypes and SignalsMeant.                                               *)


CondSteps == {"think", "hungry", "try", "wait", "release", "eat", "put", "left", "right",
              "leave", "quit"}

MonTypes ==
    /\ mvalue \in [Condvar!M!Sem -> Nat]
    /\ mwait_queue \in [Condvar!M!Sem -> Seq(Phil)]
    /\ masleep \subseteq Phil
    /\ step \in [Phil -> {"out", "in", "block", "rewake", "urgent", "signalled"}]
    /\ on \in [Phil -> Phil]

PhilTypes ==
    /\ mstate \in [Phil -> States]
    /\ miter \in [Phil -> Nat \ {0}]
    /\ mpc \in [Phil -> CondSteps]

\* Whoever an up wakes in cond_wait waits on that semaphore, and a signal that is
\* kept is for a philosopher who is about to wait.
SignalsMeant ==
    /\ \A x \in Condvar!M!Sem :
          mwait_queue[x] # <<>> =>
              LET h == Head(mwait_queue[x])
              IN  h \in masleep /\ (step[h] = "rewake" => x = Condvar!M!cv(on[h]))
    /\ \A c \in Phil :
          mvalue[Condvar!M!cv(c)] > 0 => \E t \in Phil : step[t] = "block" /\ on[t] = c

\* Where philosopher t is in the monitor at each statement, and t's state there: a
\* signal of the condition variable t, kept or received, means t is EATING.
CondFit(t) ==
    /\ mpc[t] \in {"think", "hungry", "left", "right", "leave", "quit"} => mstate[t] = "THINKING"
    /\ mpc[t] \in {"try", "wait", "release"} => mstate[t] # "THINKING"
    /\ mpc[t] \in {"eat", "put"} => mstate[t] = "EATING"
    /\ mpc[t] \in {"think", "eat", "quit"} => step[t] = "out"
    /\ mpc[t] \in {"hungry", "try", "put", "left"} => step[t] = "in"
    /\ mpc[t] \in {"wait", "right", "leave"} => step[t] \in {"in", "urgent", "signalled"}
    /\ mpc[t] = "release" => step[t] \in {"in", "block", "rewake"}
    /\ step[t] \in {"block", "rewake"} => on[t] = t
    /\ mpc[t] = "release" /\ step[t] = "in" => mstate[t] = "EATING"
    /\ step[t] = "rewake" /\ t \notin masleep => mstate[t] = "EATING"
    /\ mvalue[Condvar!M!cv(t)] > 0 => mstate[t] = "EATING"
    /\ mpc[t] # "quit" => miter[t] <= TIMES

CondInv == MonTypes /\ SignalsMeant /\ PhilTypes /\ \A t \in Phil : CondFit(t)

\* The semaphores of the monitor are different from each other.
LEMMA CondDistinct ==
    /\ Condvar!M!mutex \in Condvar!M!Sem /\ Condvar!M!next \in Condvar!M!Sem
    /\ \A c \in Phil : /\ Condvar!M!cv(c) \in Condvar!M!Sem
                       /\ Condvar!M!cv(c) # Condvar!M!mutex /\ Condvar!M!cv(c) # Condvar!M!next
    /\ \A c, d \in Phil : Condvar!M!cv(c) = Condvar!M!cv(d) => c = d
  BY DEF Condvar!M!mutex, Condvar!M!next, Condvar!M!cv, Condvar!M!Sem, Condvar!Phil, Phil, Sema!Phil

\* A philosopher who is not about to wait has no signal kept.
LEMMA NoneKept ==
    ASSUME CondInv, NEW t \in Phil, step[t] # "block"
    PROVE  ~(mvalue[Condvar!M!cv(t)] > 0)
<1> SUFFICES ASSUME mvalue[Condvar!M!cv(t)] > 0 PROVE FALSE
  OBVIOUS
<1>1. PICK u \in Phil : step[u] = "block" /\ on[u] = t
  BY DEF CondInv, SignalsMeant
<1>2. on[u] = u
  BY <1>1 DEF CondInv, CondFit
<1> QED
  BY <1>1, <1>2

\* What a philosopher does elsewhere leaves k alone.
LEMMA CondFrame ==
    ASSUME NEW k \in Phil, CondFit(k),
           mpc'[k] = mpc[k], mstate'[k] = mstate[k], miter'[k] = miter[k],
           step'[k] = step[k], on'[k] = on[k],
           mvalue'[Condvar!M!cv(k)] > 0 => mvalue[Condvar!M!cv(k)] > 0,
           step[k] = "rewake" => (k \in masleep => k \in masleep')
    PROVE  CondFit(k)'
  BY DEF CondFit

\* The monitor is passed on to somebody who is not in cond_wait.
LEMMA PassedOn ==
    ASSUME CondInv, Condvar!M!PassOn
    PROVE  /\ \A k \in Phil : mvalue'[Condvar!M!cv(k)] = mvalue[Condvar!M!cv(k)]
           /\ \A k \in masleep : step[k] = "rewake" => k \in masleep'
<1>1. PICK x \in {Condvar!M!mutex, Condvar!M!next} : Condvar!M!S!up(x)
  BY DEF Condvar!M!PassOn
<1>2. \A k \in Phil : Condvar!M!cv(k) # x /\ x \in Condvar!M!Sem
  BY <1>1, CondDistinct
<1>3. CASE mwait_queue[x] = <<>>
  <2>1. mvalue' = [mvalue EXCEPT ![x] = @ + 1] /\ masleep' = masleep
    BY <1>1, <1>3 DEF Condvar!M!S!up
  <2> QED
    BY <1>2, <2>1, CondDistinct DEF CondInv, MonTypes, PhilTypes
<1>4. CASE mwait_queue[x] # <<>>
  <2>1. mvalue' = mvalue /\ masleep' = masleep \ {Head(mwait_queue[x])}
    BY <1>1, <1>4 DEF Condvar!M!S!up
  <2>2. x \in Condvar!M!Sem
    BY <1>1, CondDistinct
  <2>3. Head(mwait_queue[x]) \in Phil /\ on[Head(mwait_queue[x])] \in Phil
    BY <1>4, <2>2 DEF CondInv, MonTypes, PhilTypes
  <2>4. step[Head(mwait_queue[x])] # "rewake"
    BY <1>2, <1>4, <2>2, <2>3 DEF CondInv, SignalsMeant
  <2> QED
    BY <2>1, <2>4
<1> QED
  BY <1>3, <1>4

\* down(mt.mutex) at the start of the two routines.
LEMMA CondEnterStep ==
    ASSUME CondInv, NEW i \in Phil, NEW from, NEW to, Condvar!Enter(i, from, to),
           (from = "think" /\ to = "hungry") \/ (from = "eat" /\ to = "put")
    PROVE  PhilTypes' /\ \A k \in Phil : CondFit(k)'
<1>1. /\ Condvar!M!Enter(i) /\ mpc[i] = from /\ mpc' = [mpc EXCEPT ![i] = to]
      /\ UNCHANGED <<mstate, miter>>
  BY DEF Condvar!Enter, Condvar!Goto
<1>2. /\ step[i] = "out" /\ step' = [step EXCEPT ![i] = "in"] /\ on' = on
      /\ Condvar!M!S!down(i, Condvar!M!mutex)
  BY <1>1 DEF Condvar!M!Enter, Condvar!M!At, Condvar!M!Goto
<1>3. /\ \A k \in Phil : mvalue'[Condvar!M!cv(k)] = mvalue[Condvar!M!cv(k)]
      /\ masleep \subseteq masleep'
  BY <1>2, CondDistinct DEF Condvar!M!S!down, CondInv, MonTypes, PhilTypes
<1>4. ASSUME NEW k \in Phil PROVE CondFit(k)'
  <2>0. CondFit(k)
    BY DEF CondInv
  <2>1. CASE k = i
    <3>1. mpc'[i] = to /\ step'[i] = "in" /\ mstate'[i] = mstate[i] /\ miter'[i] = miter[i]
      BY <1>1, <1>2 DEF CondInv, MonTypes, PhilTypes
    <3> QED
      BY <1>1, <1>3, <2>0, <2>1, <3>1 DEF CondFit
  <2>2. CASE k # i
    <3>1. mpc'[k] = mpc[k] /\ step'[k] = step[k] /\ on'[k] = on[k] /\ mstate'[k] = mstate[k] /\ miter'[k] = miter[k]
      BY <1>1, <1>2, <2>2 DEF CondInv, MonTypes, PhilTypes
    <3> QED
      BY <1>3, <2>0, <3>1, CondFrame
  <2> QED
    BY <2>1, <2>2
<1>5. mpc' \in [Phil -> CondSteps]
  BY <1>1 DEF CondInv, MonTypes, PhilTypes, CondSteps
<1> QED
  BY <1>1, <1>4, <1>5 DEF CondInv, PhilTypes

\* state_condvar[i] = HUNGRY and state_condvar[i] = THINKING.
LEMMA CondAssignStep ==
    ASSUME CondInv, NEW i \in Phil,
           \/ Condvar!Assign(i, "HUNGRY", "hungry", "try")
           \/ Condvar!Assign(i, "THINKING", "put", "left")
    PROVE  PhilTypes' /\ \A k \in Phil : CondFit(k)'
<1>1. /\ step[i] = "in" /\ UNCHANGED Condvar!monvars /\ miter' = miter
      /\ \/ mpc[i] = "hungry" /\ mpc' = [mpc EXCEPT ![i] = "try"] /\ mstate' = [mstate EXCEPT ![i] = "HUNGRY"]
         \/ mpc[i] = "put" /\ mpc' = [mpc EXCEPT ![i] = "left"] /\ mstate' = [mstate EXCEPT ![i] = "THINKING"]
  BY DEF Condvar!Assign, Condvar!Goto, Condvar!M!At
<1>2. step' = step /\ on' = on /\ mvalue' = mvalue /\ masleep' = masleep
  BY <1>1 DEF Condvar!monvars
<1>3. ASSUME NEW k \in Phil PROVE CondFit(k)'
  <2>0. CondFit(k)
    BY DEF CondInv
  <2>1. CASE k = i
    <3>1. ~(mvalue[Condvar!M!cv(i)] > 0)
      BY <1>1, NoneKept
    <3>2. \/ mpc[i] = "hungry" /\ mpc'[i] = "try" /\ mstate'[i] = "HUNGRY"
          \/ mpc[i] = "put" /\ mpc'[i] = "left" /\ mstate'[i] = "THINKING"
      BY <1>1 DEF CondInv, MonTypes, PhilTypes
    <3> QED
      BY <1>1, <1>2, <2>0, <2>1, <3>1, <3>2 DEF CondFit
  <2>2. CASE k # i
    <3>1. mpc'[k] = mpc[k] /\ mstate'[k] = mstate[k]
      BY <1>1, <2>2 DEF CondInv, MonTypes, PhilTypes
    <3> QED
      BY <1>1, <1>2, <2>0, <3>1, CondFrame
  <2> QED
    BY <2>1, <2>2
<1>4. mstate' \in [Phil -> States] /\ miter' \in [Phil -> Nat \ {0}] /\ mpc' \in [Phil -> CondSteps]
  BY <1>1, ZenonT(60) DEF CondInv, MonTypes, PhilTypes, CondSteps, States
<1> QED
  BY <1>3, <1>4 DEF PhilTypes

\* The end of the two routines: philosopher i passes the monitor on and is out.
LEMMA CondLeaveStep ==
    ASSUME CondInv, NEW i \in Phil,
           \/ Condvar!Goto(i, "release", "eat") /\ Condvar!M!Leave(i) /\ UNCHANGED <<mstate, miter>>
           \/ Condvar!EndIteration(i)
    PROVE  PhilTypes' /\ \A k \in Phil : CondFit(k)'
<1>1. /\ Condvar!M!Leave(i) /\ mstate' = mstate
      /\ \/ mpc[i] = "release" /\ mpc' = [mpc EXCEPT ![i] = "eat"] /\ miter' = miter
         \/ /\ mpc[i] = "leave" /\ miter' = [miter EXCEPT ![i] = @ + 1]
            /\ mpc' = [mpc EXCEPT ![i] = IF miter[i] < TIMES THEN "think" ELSE "quit"]
  BY DEF Condvar!EndIteration, Condvar!Goto
<1>2. step[i] = "in" /\ step' = [step EXCEPT ![i] = "out"] /\ on' = on /\ Condvar!M!PassOn
  BY <1>1 DEF Condvar!M!Leave, Condvar!M!At, Condvar!M!Goto
<1>3. /\ \A k \in Phil : mvalue'[Condvar!M!cv(k)] = mvalue[Condvar!M!cv(k)]
      /\ \A k \in masleep : step[k] = "rewake" => k \in masleep'
  BY <1>2, PassedOn
<1>4. ASSUME NEW k \in Phil PROVE CondFit(k)'
  <2>0. CondFit(k)
    BY DEF CondInv
  <2>1. CASE k = i
    <3>1. step'[i] = "out" /\ mstate'[i] = mstate[i] /\ miter[i] \in Nat
      BY <1>1, <1>2 DEF CondInv, MonTypes, PhilTypes
    <3>2. \/ mpc[i] = "release" /\ mpc'[i] = "eat" /\ miter'[i] = miter[i]
          \/ /\ mpc[i] = "leave" /\ miter'[i] = miter[i] + 1
             /\ mpc'[i] \in {"think", "quit"} /\ (mpc'[i] # "quit" => miter[i] + 1 <= TIMES)
      BY <1>1, <3>1, CheckSyncAssumption DEF CondInv, MonTypes, PhilTypes
    <3> QED
      BY <1>2, <1>3, <2>0, <2>1, <3>1, <3>2 DEF CondFit
  <2>2. CASE k # i
    <3>1. mpc'[k] = mpc[k] /\ step'[k] = step[k] /\ on'[k] = on[k] /\ mstate'[k] = mstate[k] /\ miter'[k] = miter[k]
      BY <1>1, <1>2, <2>2 DEF CondInv, MonTypes, PhilTypes
    <3> QED
      BY <1>3, <2>0, <3>1, CondFrame
  <2> QED
    BY <2>1, <2>2
<1>5. mpc' \in [Phil -> CondSteps] /\ miter' \in [Phil -> Nat \ {0}] /\ mstate' \in [Phil -> States]
  <2>1. mpc \in [Phil -> CondSteps] /\ miter \in [Phil -> Nat \ {0}] /\ mstate \in [Phil -> States]
    BY DEF CondInv, MonTypes, PhilTypes
  <2>2. PICK l \in CondSteps : mpc' = [mpc EXCEPT ![i] = l]
    BY <1>1 DEF CondSteps
  <2>3. miter[i] + 1 \in Nat \ {0}
    BY <2>1
  <2> QED
    BY <1>1, <2>1, <2>2, <2>3
<1> QED
  BY <1>4, <1>5 DEF PhilTypes

\* phi_take_forks_condvar waits only while HUNGRY, and is EATING otherwise.
LEMMA CondWaitStep ==
    ASSUME CondInv, NEW i \in Phil, Condvar!WaitForForks(i)
    PROVE  PhilTypes' /\ \A k \in Phil : CondFit(k)'
<1>1. /\ step[i] = "in" /\ mpc[i] = "wait" /\ mpc' = [mpc EXCEPT ![i] = "release"]
      /\ mstate' = mstate /\ miter' = miter
      /\ IF mstate[i] = "HUNGRY" THEN Condvar!M!cond_wait(i, i) ELSE UNCHANGED Condvar!monvars
  BY DEF Condvar!WaitForForks, Condvar!Goto, Condvar!M!At
<1>2. /\ \A k \in Phil : mvalue'[Condvar!M!cv(k)] = mvalue[Condvar!M!cv(k)]
      /\ \A k \in masleep : step[k] = "rewake" => k \in masleep'
      /\ \/ /\ step' = [step EXCEPT ![i] = "block"] /\ on' = [on EXCEPT ![i] = i]
         \/ mstate[i] # "HUNGRY" /\ step' = step /\ on' = on
  <2>1. CASE mstate[i] = "HUNGRY"
    <3>1. Condvar!M!PassOn /\ step' = [step EXCEPT ![i] = "block"] /\ on' = [on EXCEPT ![i] = i]
      BY <1>1, <2>1 DEF Condvar!M!cond_wait, Condvar!M!Goto
    <3> QED
      BY <3>1, PassedOn
  <2>2. CASE mstate[i] # "HUNGRY"
    BY <1>1, <2>2 DEF Condvar!monvars
  <2> QED
    BY <2>1, <2>2
<1>3. ASSUME NEW k \in Phil PROVE CondFit(k)'
  <2>0. CondFit(k)
    BY DEF CondInv
  <2>1. CASE k = i
    <3>1. /\ mstate[i] \in States /\ mpc'[i] = "release" /\ mstate'[i] = mstate[i] /\ miter'[i] = miter[i]
          /\ \/ step'[i] = "block" /\ on'[i] = i
             \/ mstate[i] # "HUNGRY" /\ step'[i] = "in"
      BY <1>1, <1>2 DEF CondInv, MonTypes, PhilTypes
    <3> QED
      BY <1>1, <1>2, <2>0, <2>1, <3>1 DEF CondFit, States
  <2>2. CASE k # i
    <3>1. mpc'[k] = mpc[k] /\ step'[k] = step[k] /\ on'[k] = on[k] /\ mstate'[k] = mstate[k] /\ miter'[k] = miter[k]
      BY <1>1, <1>2, <2>2 DEF CondInv, MonTypes, PhilTypes
    <3> QED
      BY <1>2, <2>0, <3>1, CondFrame
  <2> QED
    BY <2>1, <2>2
<1>4. mpc' \in [Phil -> CondSteps] /\ miter' \in [Phil -> Nat \ {0}] /\ mstate' \in [Phil -> States]
  BY <1>1 DEF CondInv, MonTypes, PhilTypes, CondSteps
<1> QED
  BY <1>3, <1>4 DEF PhilTypes

\* The steps inside cond_wait and cond_signal: whoever comes out of down(cv.sem) has
\* been made EATING.
LEMMA CondContinueStep ==
    ASSUME CondInv, NEW i \in Phil, Condvar!InMonitor(i)
    PROVE  PhilTypes' /\ \A k \in Phil : CondFit(k)'
<1>1. Condvar!M!Continue(i) /\ UNCHANGED <<mstate, miter, mpc>>
  BY DEF Condvar!InMonitor
<1>2. ASSUME NEW l, step' = [step EXCEPT ![i] = l], on' = on, CondFit(i)',
             \A k \in Phil : mvalue'[Condvar!M!cv(k)] > 0 => mvalue[Condvar!M!cv(k)] > 0,
             masleep \subseteq masleep'
      PROVE  \A k \in Phil : CondFit(k)'
  <2> SUFFICES ASSUME NEW k \in Phil, k # i PROVE CondFit(k)'
    BY <1>2
  <2>1. CondFit(k) /\ step'[k] = step[k] /\ mpc'[k] = mpc[k] /\ mstate'[k] = mstate[k] /\ miter'[k] = miter[k]
    BY <1>1, <1>2 DEF CondInv, MonTypes, PhilTypes
  <2> QED
    BY <1>2, <2>1, CondFrame
<1>3. CondFit(i) /\ mpc'[i] = mpc[i] /\ mstate'[i] = mstate[i] /\ miter'[i] = miter[i]
  BY <1>1 DEF CondInv
<1>4. ASSUME Condvar!M!Block(i) PROVE \A k \in Phil : CondFit(k)'
  <2>1. /\ step[i] = "block" /\ step' = [step EXCEPT ![i] = "rewake"] /\ on' = on
        /\ Condvar!M!S!down(i, Condvar!M!cv(on[i]))
    BY <1>4 DEF Condvar!M!Block, Condvar!M!At, Condvar!M!Goto
  <2>2. on[i] = i /\ mpc[i] = "release"
    <3>1. mpc[i] \in CondSteps
      BY DEF CondInv, MonTypes, PhilTypes
    <3> QED
      BY <1>3, <2>1, <3>1 DEF CondFit, CondSteps
  <2> DEFINE x == Condvar!M!cv(i)
  <2>3. x \in Condvar!M!Sem /\ Condvar!M!S!down(i, x)
    BY <2>1, <2>2, CondDistinct
  <2>4. CASE mvalue[x] > 0
    <3>1. /\ mvalue' = [mvalue EXCEPT ![x] = @ - 1] /\ masleep' = masleep
          /\ mstate[i] = "EATING"
      BY <1>3, <2>3, <2>4 DEF Condvar!M!S!down, CondFit
    <3>2. \A k \in Phil : mvalue'[Condvar!M!cv(k)] > 0 => mvalue[Condvar!M!cv(k)] > 0
      <4> SUFFICES ASSUME NEW k \in Phil PROVE mvalue'[Condvar!M!cv(k)] > 0 => mvalue[Condvar!M!cv(k)] > 0
        OBVIOUS
      <4>1. CASE k = i
        BY <2>4, <4>1
      <4>2. CASE k # i
        <5>1. Condvar!M!cv(k) # x /\ Condvar!M!cv(k) \in Condvar!M!Sem
          BY <4>2, CondDistinct
        <5> QED
          BY <3>1, <5>1 DEF CondInv, MonTypes, PhilTypes
      <4> QED
        BY <4>1, <4>2
    <3>3. step'[i] = "rewake"
      BY <2>1 DEF CondInv, MonTypes, PhilTypes
    <3>4. CondFit(i)'
      BY <1>3, <2>1, <2>2, <3>1, <3>3 DEF CondFit
    <3> QED
      BY <1>2, <2>1, <3>1, <3>2, <3>4, ZenonT(60)
  <2>5. CASE ~(mvalue[x] > 0)
    <3>1. mvalue' = mvalue /\ masleep' = masleep \cup {i}
      BY <2>3, <2>5 DEF Condvar!M!S!down
    <3>2. step'[i] = "rewake"
      BY <2>1 DEF CondInv, MonTypes, PhilTypes
    <3>3. CondFit(i)'
      BY <1>3, <2>1, <2>2, <2>5, <3>1, <3>2 DEF CondFit
    <3> QED
      BY <1>2, <2>1, <3>1, <3>3, ZenonT(60)
  <2> QED
    BY <2>4, <2>5
<1>5. ASSUME Condvar!M!Rewake(i) PROVE \A k \in Phil : CondFit(k)'
  <2>1. /\ step[i] = "rewake" /\ i \notin masleep /\ step' = [step EXCEPT ![i] = "in"]
        /\ UNCHANGED <<on, mvalue, masleep>>
    BY <1>5 DEF Condvar!M!Rewake, Condvar!M!At, Condvar!M!Goto, Condvar!M!S!Runs
  <2>2. step'[i] = "in" /\ mpc[i] \in CondSteps
    BY <2>1 DEF CondInv, MonTypes, PhilTypes
  <2>3. CondFit(i)'
    BY <1>3, <2>1, <2>2 DEF CondFit, CondSteps
  <2> QED
    BY <1>2, <2>1, <2>3, ZenonT(60)
<1>6. ASSUME Condvar!M!Urgent(i) PROVE \A k \in Phil : CondFit(k)'
  <2>1. /\ step[i] = "urgent" /\ step' = [step EXCEPT ![i] = "signalled"] /\ on' = on
        /\ Condvar!M!S!down(i, Condvar!M!next)
    BY <1>6 DEF Condvar!M!Urgent, Condvar!M!At, Condvar!M!Goto
  <2>2. /\ \A k \in Phil : mvalue'[Condvar!M!cv(k)] = mvalue[Condvar!M!cv(k)]
        /\ masleep \subseteq masleep' /\ step'[i] = "signalled"
    BY <2>1, CondDistinct DEF Condvar!M!S!down, CondInv, MonTypes, PhilTypes
  <2>3. CondFit(i)'
    BY <1>3, <2>1, <2>2 DEF CondFit
  <2> QED
    BY <1>2, <2>1, <2>2, <2>3, ZenonT(60)
<1>7. ASSUME Condvar!M!Signalled(i) PROVE \A k \in Phil : CondFit(k)'
  <2>1. /\ step[i] = "signalled" /\ step' = [step EXCEPT ![i] = "in"]
        /\ UNCHANGED <<on, mvalue, masleep>>
    BY <1>7 DEF Condvar!M!Signalled, Condvar!M!At, Condvar!M!Goto
  <2>2. step'[i] = "in" /\ mpc[i] \in CondSteps
    BY <2>1 DEF CondInv, MonTypes, PhilTypes
  <2>3. CondFit(i)'
    BY <1>3, <2>1, <2>2 DEF CondFit, CondSteps
  <2> QED
    BY <1>2, <2>1, <2>3, ZenonT(60)
<1>8. \A k \in Phil : CondFit(k)'
  BY <1>1, <1>4, <1>5, <1>6, <1>7 DEF Condvar!M!Continue
<1>9. mpc' \in [Phil -> CondSteps] /\ miter' \in [Phil -> Nat \ {0}] /\ mstate' \in [Phil -> States]
  BY <1>1 DEF CondInv, MonTypes, PhilTypes
<1> QED
  BY <1>8, <1>9 DEF PhilTypes

\* phi_test_condvar(j), called by philosopher i: whoever it signals has become
\* EATING in the same step.
LEMMA CondTestStep ==
    ASSUME CondInv, NEW i \in Phil, NEW j \in Phil, NEW from, NEW to, Condvar!Test(i, j, from, to),
           \/ from = "try" /\ to = "wait"
           \/ from = "left" /\ to = "right"
           \/ from = "right" /\ to = "leave"
    PROVE  PhilTypes' /\ \A k \in Phil : CondFit(k)'
<1> DEFINE x == Condvar!M!cv(j)
<1>1. /\ step[i] = "in" /\ mpc[i] = from /\ mpc' = [mpc EXCEPT ![i] = to] /\ miter' = miter
      /\ Condvar!phi_test_condvar(i, j)
  BY DEF Condvar!Test, Condvar!Goto, Condvar!M!At
<1>2. \/ mstate' = mstate /\ UNCHANGED Condvar!monvars
      \/ /\ mstate[j] = "HUNGRY" /\ mstate' = [mstate EXCEPT ![j] = "EATING"]
         /\ UNCHANGED Condvar!monvars \/ Condvar!M!cond_signal(i, j)
  BY <1>1 DEF Condvar!phi_test_condvar, Condvar!Signal, Condvar!CanEat
<1>3. ASSUME Condvar!M!cond_signal(i, j)
      PROVE  /\ step' = [step EXCEPT ![i] = "urgent"] /\ on' = [on EXCEPT ![i] = j]
             /\ \A k \in Phil : k # j => mvalue'[Condvar!M!cv(k)] = mvalue[Condvar!M!cv(k)]
             /\ \A k \in masleep : k # j /\ step[k] = "rewake" => k \in masleep'
  <2>1. /\ step' = [step EXCEPT ![i] = "urgent"] /\ on' = [on EXCEPT ![i] = j]
        /\ Condvar!M!S!up(x) /\ x \in Condvar!M!Sem
    BY <1>3, CondDistinct DEF Condvar!M!cond_signal, Condvar!M!Goto
  <2>2. \A k \in Phil : k # j => Condvar!M!cv(k) # x /\ Condvar!M!cv(k) \in Condvar!M!Sem
    BY CondDistinct
  <2>3. CASE mwait_queue[x] = <<>>
    <3>1. mvalue' = [mvalue EXCEPT ![x] = @ + 1] /\ masleep' = masleep
      BY <2>1, <2>3 DEF Condvar!M!S!up
    <3> QED
      BY <2>1, <2>2, <3>1 DEF CondInv, MonTypes, PhilTypes
  <2>4. CASE mwait_queue[x] # <<>>
    <3>1. mvalue' = mvalue /\ masleep' = masleep \ {Head(mwait_queue[x])}
      BY <2>1, <2>4 DEF Condvar!M!S!up
    <3>2. Head(mwait_queue[x]) \in Phil /\ on[Head(mwait_queue[x])] \in Phil
      BY <2>1, <2>4 DEF CondInv, MonTypes, PhilTypes
    <3>3. step[Head(mwait_queue[x])] = "rewake" => Head(mwait_queue[x]) = j
      <4> SUFFICES ASSUME step[Head(mwait_queue[x])] = "rewake" PROVE Head(mwait_queue[x]) = j
        OBVIOUS
      <4>1. x = Condvar!M!cv(on[Head(mwait_queue[x])])
        BY <2>1, <2>4 DEF CondInv, SignalsMeant
      <4>2. on[Head(mwait_queue[x])] = j
        BY <3>2, <4>1, CondDistinct
      <4>3. on[Head(mwait_queue[x])] = Head(mwait_queue[x])
        BY <3>2 DEF CondInv, CondFit
      <4> QED
        BY <4>2, <4>3
    <3> QED
      BY <2>1, <3>1, <3>3
  <2> QED
    BY <2>3, <2>4
<1>4. /\ \A k \in Phil : k # j => mvalue'[Condvar!M!cv(k)] = mvalue[Condvar!M!cv(k)]
      /\ \A k \in masleep : k # j /\ step[k] = "rewake" => k \in masleep'
      /\ \A k \in Phil : k # i => step'[k] = step[k] /\ on'[k] = on[k]
      /\ step'[i] \in {"in", "urgent"}
      /\ \A k \in Phil : k # j => mstate'[k] = mstate[k]
  <2>1. CASE UNCHANGED Condvar!monvars
    BY <1>1, <1>2, <2>1 DEF Condvar!monvars, CondInv, MonTypes, PhilTypes
  <2>2. CASE mstate[j] = "HUNGRY" /\ mstate' = [mstate EXCEPT ![j] = "EATING"] /\ Condvar!M!cond_signal(i, j)
    BY <1>3, <2>2 DEF CondInv, MonTypes, PhilTypes
  <2> QED
    BY <1>2, <2>1, <2>2
<1>5. mpc'[i] = to /\ (\A k \in Phil : k # i => mpc'[k] = mpc[k]) /\ \A k \in Phil : miter'[k] = miter[k]
  BY <1>1 DEF CondInv, MonTypes, PhilTypes
<1>6. ASSUME NEW k \in Phil PROVE CondFit(k)'
  <2>0. CondFit(k)
    BY DEF CondInv
  <2>1. CASE k = i /\ k # j
    BY <1>1, <1>4, <1>5, <2>0, <2>1 DEF CondFit
  <2>2. CASE k # i /\ k # j
    BY <1>4, <1>5, <2>0, <2>2, CondFrame
  <2>3. CASE k = j /\ mstate' = mstate /\ UNCHANGED Condvar!monvars
    <3>1. mvalue' = mvalue /\ masleep' = masleep /\ step' = step /\ on' = on
      BY <2>3 DEF Condvar!monvars
    <3>2. CASE k = i
      BY <1>1, <1>5, <2>0, <2>3, <3>1, <3>2 DEF CondFit
    <3>3. CASE k # i
      BY <1>5, <2>0, <2>3, <3>1, <3>3, CondFrame, ZenonT(60)
    <3> QED
      BY <3>2, <3>3
  <2>4. CASE k = j /\ mstate[j] = "HUNGRY" /\ mstate' = [mstate EXCEPT ![j] = "EATING"]
    <3>1. mstate'[k] = "EATING"
      BY <2>4 DEF CondInv, MonTypes, PhilTypes
    <3>2. CASE k = i
      BY <1>1, <1>4, <1>5, <2>0, <2>4, <3>1, <3>2 DEF CondFit
    <3>3. CASE k # i
      BY <1>4, <1>5, <2>0, <2>4, <3>1, <3>3 DEF CondFit
    <3> QED
      BY <3>2, <3>3
  <2> QED
    BY <1>2, <2>1, <2>2, <2>3, <2>4
<1>7. mpc' \in [Phil -> CondSteps] /\ miter' \in [Phil -> Nat \ {0}] /\ mstate' \in [Phil -> States]
  BY <1>1, <1>2, ZenonT(60) DEF CondInv, MonTypes, PhilTypes, CondSteps, States
<1> QED
  BY <1>6, <1>7 DEF PhilTypes

\* Every step of a philosopher keeps the invariant.
LEMMA CondNext ==
    ASSUME CondInv, NEW i \in Phil, Condvar!philosopher_using_condvar(i)
    PROVE  PhilTypes' /\ \A k \in Phil : CondFit(k)'
<1>1. CASE Condvar!phi_take_forks_condvar(i)
  BY <1>1, CondEnterStep, CondAssignStep, CondTestStep, CondWaitStep, CondLeaveStep
  DEF Condvar!phi_take_forks_condvar
<1>2. CASE Condvar!phi_put_forks_condvar(i)
  BY <1>2, CondEnterStep, CondAssignStep, CondTestStep, Neighbours DEF Condvar!phi_put_forks_condvar
<1>3. CASE Condvar!EndIteration(i) \/ Condvar!InMonitor(i)
  BY <1>3, CondLeaveStep, CondContinueStep
<1> QED
  BY <1>1, <1>2, <1>3 DEF Condvar!philosopher_using_condvar

\* What Dining sees of the philosophers with a monitor.
CondEating == {i \in Phil : mstate[i] = "EATING"}
CondMeals == [i \in Phil |-> miter[i] - (IF mpc[i] \in {"left", "right", "leave"} THEN 0 ELSE 1)]

\* A step that changes neither the states, the meals nor the side of the meal a
\* philosopher is on is a stuttering step of Dining.
LEMMA CondStutter ==
    ASSUME PhilTypes, NEW i \in Phil, NEW from, NEW to,
           mpc[i] = from, mpc' = [mpc EXCEPT ![i] = to],
           from \in {"left", "right", "leave"} <=> to \in {"left", "right", "leave"},
           mstate' = mstate, miter' = miter
    PROVE  UNCHANGED <<CondEating, CondMeals>>
<1>1. \A k \in Phil : mpc'[k] \in {"left", "right", "leave"} <=> mpc[k] \in {"left", "right", "leave"}
  BY DEF MonTypes, PhilTypes
<1> QED
  BY <1>1 DEF CondEating, CondMeals

\* A philosopher is made EATING by Sit, returns the forks by Rise, and does nothing
\* else that Dining sees.
LEMMA CondRefines ==
    ASSUME CondInv, NEW i \in Phil, Condvar!philosopher_using_condvar(i)
    PROVE  [Condvar!D!Next]_<<CondEating, CondMeals>>
<1> USE DEF CondInv
<1>1. ASSUME NEW from, NEW to, Condvar!Goto(i, from, to), UNCHANGED <<mstate, miter>>,
             from \notin {"left", "right", "leave"}, to \notin {"left", "right", "leave"}
      PROVE  UNCHANGED <<CondEating, CondMeals>>
  BY <1>1, CondStutter, ZenonT(60) DEF Condvar!Goto
<1>2. CASE Condvar!Assign(i, "HUNGRY", "hungry", "try")
  <2>1. /\ mpc[i] = "hungry" /\ mpc' = [mpc EXCEPT ![i] = "try"] /\ miter' = miter
        /\ mstate[i] = "THINKING" /\ mstate' = [mstate EXCEPT ![i] = "HUNGRY"]
    BY <1>2 DEF Condvar!Assign, Condvar!Goto, CondFit
  <2>2. CondEating' = CondEating
    BY <2>1 DEF CondEating, MonTypes, PhilTypes
  <2>3. CondMeals' = CondMeals
    BY <2>1 DEF CondMeals, MonTypes, PhilTypes
  <2> QED
    BY <2>2, <2>3
<1>3. CASE Condvar!Assign(i, "THINKING", "put", "left")
  <2>1. /\ mpc[i] = "put" /\ mpc' = [mpc EXCEPT ![i] = "left"] /\ miter' = miter
        /\ mstate[i] = "EATING" /\ mstate' = [mstate EXCEPT ![i] = "THINKING"]
    BY <1>3 DEF Condvar!Assign, Condvar!Goto, CondFit
  <2>2. i \in CondEating /\ CondEating' = CondEating \ {i}
    BY <2>1 DEF CondEating, MonTypes, PhilTypes
  <2>3. CondMeals' = [CondMeals EXCEPT ![i] = @ + 1]
    <3>1. /\ mpc'[i] = "left" /\ miter'[i] = miter[i] /\ miter[i] \in Nat /\ miter[i] - 1 + 1 = miter[i]
          /\ \A k \in Phil : k # i => mpc'[k] = mpc[k] /\ miter'[k] = miter[k]
      BY <2>1 DEF MonTypes, PhilTypes
    <3>2. /\ CondMeals'[i] = miter[i] /\ CondMeals[i] = miter[i] - 1
          /\ \A k \in Phil : k # i => CondMeals'[k] = CondMeals[k]
      BY <2>1, <3>1 DEF CondMeals
    <3>3. /\ CondMeals = [k \in Phil |-> CondMeals[k]]
          /\ CondMeals' = [k \in Phil |-> CondMeals'[k]]
      BY DEF CondMeals
    <3> HIDE DEF CondMeals
    <3> QED
      BY <3>1, <3>2, <3>3
  <2> QED
    BY <2>2, <2>3, ZenonT(60)
    DEF Condvar!D!Next, Condvar!D!Rise, CondEating, CondMeals, Phil, Sema!Phil, Condvar!D!Phil, Condvar!Phil
<1>4. ASSUME NEW j \in Phil, NEW from, NEW to, Condvar!Test(i, j, from, to),
             \/ from = "try" /\ to = "wait"
             \/ from = "left" /\ to = "right"
             \/ from = "right" /\ to = "leave"
      PROVE  [Condvar!D!Next]_<<CondEating, CondMeals>>
  <2>1. mpc[i] = from /\ mpc' = [mpc EXCEPT ![i] = to] /\ miter' = miter /\ Condvar!phi_test_condvar(i, j)
    BY <1>4 DEF Condvar!Test, Condvar!Goto
  <2>2. CondMeals' = CondMeals
    BY <1>4, <2>1 DEF CondMeals, MonTypes, PhilTypes
  <2>3. CASE ~Condvar!CanEat(j)
    <3>1. mstate' = mstate
      BY <2>1, <2>3 DEF Condvar!phi_test_condvar
    <3> QED
      BY <2>2, <3>1 DEF CondEating
  <2>4. CASE Condvar!CanEat(j)
    <3>1. /\ mstate[j] = "HUNGRY" /\ mstate' = [mstate EXCEPT ![j] = "EATING"]
          /\ mstate[Condvar!LEFT(j)] # "EATING" /\ mstate[Condvar!RIGHT(j)] # "EATING"
      BY <2>1, <2>4 DEF Condvar!phi_test_condvar, Condvar!CanEat
    <3>2. mpc[j] \notin {"left", "right", "leave", "quit"} /\ miter[j] <= TIMES
      BY <3>1 DEF CondFit
    <3>3. CondMeals[j] < TIMES
      BY <3>2, CheckSyncAssumption DEF CondMeals, MonTypes, PhilTypes
    <3>4. /\ j \notin CondEating /\ CondEating' = CondEating \cup {j}
          /\ {Condvar!LEFT(j), Condvar!RIGHT(j)} \cap CondEating = {}
      BY <3>1 DEF CondEating, MonTypes, PhilTypes
    <3>5. Condvar!D!LEFT(j) = Condvar!LEFT(j) /\ Condvar!D!RIGHT(j) = Condvar!RIGHT(j)
      BY DEF Condvar!D!LEFT, Condvar!LEFT, Condvar!D!RIGHT, Condvar!RIGHT
    <3>6. Condvar!D!Sit(j)
      BY <2>2, <3>3, <3>4, <3>5 DEF Condvar!D!Sit, CondEating, CondMeals, Phil, Sema!Phil, Condvar!Phil
    <3> QED
      BY <3>6 DEF Condvar!D!Next, Phil, Sema!Phil, Condvar!D!Phil
  <2> QED
    BY <2>3, <2>4
<1>5. CASE Condvar!EndIteration(i)
  <2>1. /\ mpc[i] = "leave" /\ mstate' = mstate /\ miter' = [miter EXCEPT ![i] = @ + 1]
        /\ mpc' = [mpc EXCEPT ![i] = IF miter[i] < TIMES THEN "think" ELSE "quit"]
    BY <1>5 DEF Condvar!EndIteration, Condvar!Goto
  <2>2. CondMeals' = CondMeals
    BY <2>1 DEF CondMeals, MonTypes, PhilTypes
  <2> QED
    BY <2>1, <2>2 DEF CondEating
<1>6. CASE Condvar!InMonitor(i)
  BY <1>6 DEF Condvar!InMonitor, CondEating, CondMeals
<1>7. CASE Condvar!phi_take_forks_condvar(i)
  BY <1>1, <1>2, <1>4, <1>7 DEF Condvar!phi_take_forks_condvar, Condvar!Enter, Condvar!WaitForForks
<1>8. CASE Condvar!phi_put_forks_condvar(i)
  BY <1>1, <1>3, <1>4, <1>8, Neighbours DEF Condvar!phi_put_forks_condvar, Condvar!Enter
<1> QED
  BY <1>5, <1>6, <1>7, <1>8 DEF Condvar!philosopher_using_condvar

-----------------------------------------------------------------------------
(* The monitor gives that guarantee: the philosophers use it as             *)
(* MonitorProofs says, with a condition variable each.                      *)

MP == INSTANCE MonitorProofs WITH
        Thread <- Phil, CV <- Phil,
        value <- mvalue, wait_queue <- mwait_queue, asleep <- masleep

\* A step of the monitor inside a step of philosopher i.
MonitorStep(i) ==
    \/ Condvar!M!Enter(i) \/ Condvar!M!Leave(i) \/ Condvar!M!Continue(i)
    \/ \E c \in Phil : Condvar!M!cond_wait(i, c) \/ Condvar!M!cond_signal(i, c)
    \/ UNCHANGED Condvar!monvars


\* What a philosopher does to the monitor.
LEMMA InMonitorStep ==
    ASSUME NEW i \in Phil, Condvar!philosopher_using_condvar(i)
    PROVE  MonitorStep(i)
<1> USE DEF MonitorStep
<1>1. ASSUME NEW j \in Phil, NEW from, NEW to, Condvar!Test(i, j, from, to) PROVE MonitorStep(i)
  BY <1>1 DEF Condvar!Test, Condvar!phi_test_condvar, Condvar!Signal
<1>2. CASE Condvar!phi_take_forks_condvar(i)
  BY <1>1, <1>2
  DEF Condvar!phi_take_forks_condvar, Condvar!Enter, Condvar!Assign, Condvar!WaitForForks
<1>3. CASE Condvar!phi_put_forks_condvar(i)
  BY <1>1, <1>3, Neighbours DEF Condvar!phi_put_forks_condvar, Condvar!Enter, Condvar!Assign
<1>4. CASE Condvar!EndIteration(i) \/ Condvar!InMonitor(i)
  BY <1>4 DEF Condvar!EndIteration, Condvar!InMonitor
<1> QED
  BY <1>2, <1>3, <1>4 DEF Condvar!philosopher_using_condvar

\* The philosophers use the monitor as MonitorProofs assumes.
LEMMA MonitorKept == ASSUME MP!Full, NEW i \in Phil, MonitorStep(i) PROVE MP!Full'
<1> USE DEF Condvar!M!mutex, MP!mutex, Condvar!M!next, MP!next, Condvar!M!cv, MP!cv,
            Condvar!M!At, MP!At, Condvar!M!Goto, MP!Goto, Condvar!M!S!Runs, MP!S!Runs,
            Condvar!M!S!up, MP!S!up, Condvar!M!S!down, MP!S!down,
            Condvar!M!PassOn, MP!PassOn
<1>1. CASE Condvar!M!Enter(i)
  <2>1. MP!Enter(i)
    BY <1>1 DEF Condvar!M!Enter, MP!Enter
  <2> QED
    BY <2>1, MP!NextFull DEF MP!Next
<1>2. CASE Condvar!M!Leave(i)
  <2>1. MP!Leave(i)
    BY <1>2 DEF Condvar!M!Leave, MP!Leave
  <2> QED
    BY <2>1, MP!NextFull DEF MP!Next
<1>3. CASE Condvar!M!Continue(i)
  <2>1. MP!Continue(i)
    BY <1>3 DEF Condvar!M!Continue, MP!Continue, Condvar!M!Block, MP!Block, Condvar!M!Rewake,
                MP!Rewake, Condvar!M!Urgent, MP!Urgent, Condvar!M!Signalled, MP!Signalled
  <2> QED
    BY <2>1, MP!NextFull DEF MP!Next
<1>4. ASSUME NEW c \in Phil, Condvar!M!cond_wait(i, c) \/ Condvar!M!cond_signal(i, c)
      PROVE  MP!Full'
  <2>1. MP!cond_wait(i, c) \/ MP!cond_signal(i, c)
    BY <1>4 DEF Condvar!M!cond_wait, MP!cond_wait, Condvar!M!cond_signal, MP!cond_signal
  <2> QED
    BY <2>1, MP!NextFull DEF MP!Next
<1>5. CASE UNCHANGED Condvar!monvars
  <2>1. UNCHANGED MP!monvars
    BY <1>5 DEF Condvar!monvars, MP!monvars
  <2> QED
    BY <2>1, MP!NextFull
<1> QED
  BY <1>1, <1>2, <1>3, <1>4, <1>5 DEF MonitorStep

\* The monitor and the philosophers name its semaphores alike.
LEMMA SameSem ==
    /\ Condvar!M!Sem = MP!Sem /\ \A c : Condvar!M!cv(c) = MP!cv(c)
    /\ Condvar!M!mutex = MP!mutex /\ Condvar!M!next = MP!next
  BY DEF Condvar!M!mutex, MP!mutex, Condvar!M!next, MP!next, Condvar!M!cv, MP!cv,
         Condvar!M!Sem, MP!Sem, Condvar!Phil, Phil, Sema!Phil

\* The invariant of the monitor is what the philosophers rely on.
LEMMA MonitorPromise == MP!Full => MonTypes /\ SignalsMeant
<1> SUFFICES ASSUME MP!Full PROVE MonTypes /\ SignalsMeant
  OBVIOUS
<1>1. MP!Types /\ MP!QueuesSleep /\ MP!Answered
  BY DEF MP!Full, MP!Inv
<1>2. ASSUME NEW x \in MP!Sem, mwait_queue[x] # <<>>
      PROVE  LET h == Head(mwait_queue[x])
             IN  h \in masleep /\ (step[h] = "rewake" => x = MP!cv(on[h]))
  <2>1. mwait_queue[x] \in Seq(Phil)
    BY <1>1 DEF MP!Types
  <2>2. 1 \in 1 .. Len(mwait_queue[x]) /\ Head(mwait_queue[x]) = mwait_queue[x][1]
    BY <1>2, <2>1
  <2>3. mwait_queue[x][1] \in masleep /\ MP!After(mwait_queue[x][1], x)
    BY <1>1, <2>2 DEF MP!QueuesSleep
  <2> QED
    BY <2>2, <2>3 DEF MP!After
<1>3. \A c \in Phil : mvalue[MP!cv(c)] > 0 => \E t \in Phil : step[t] = "block" /\ on[t] = c
  BY <1>1 DEF MP!Answered
<1>4. MonTypes
  BY <1>1, SameSem DEF MonTypes, MP!Types, MP!Steps
<1> QED
  BY <1>2, <1>3, <1>4, SameSem DEF SignalsMeant

\* Everybody thinks at the start.
LEMMA CondInit == ASSUME Condvar!Init PROVE MP!Full /\ PhilTypes /\ \A k \in Phil : CondFit(k)
<1>1. Condvar!M!monitor_init /\ on = [i \in Phil |-> 0]
      /\ \A i \in Phil : mstate[i] = "THINKING" /\ miter[i] = 1 /\ mpc[i] = "think"
  BY DEF Condvar!Init, Phil, Sema!Phil, Condvar!Phil
<1>2. MP!monitor_init
  <2>1. 0 \in Phil
    BY CheckSyncAssumption DEF Phil, Sema!Phil
  <2> QED
    BY <1>1, <2>1, SameSem DEF Condvar!M!monitor_init, MP!monitor_init, Condvar!M!S!sem_init,
          MP!S!sem_init, Phil, Sema!Phil, Condvar!Phil
<1>3. MP!Full
  BY <1>2, MP!InitFull
<1>4. PhilTypes
  BY DEF Condvar!Init, Phil, Sema!Phil, Condvar!Phil, States, CondSteps, PhilTypes
<1>5. \A k \in Phil : CondFit(k)
  <2>1. \A t \in Phil : step[t] = "out" /\ mvalue[Condvar!M!cv(t)] = 0
    BY <1>1, CondDistinct DEF Condvar!M!monitor_init, Condvar!M!S!sem_init, Phil, Sema!Phil, Condvar!Phil
  <2> QED
    BY <1>1, <2>1, CheckSyncAssumption DEF CondFit
<1> QED
  BY <1>3, <1>4, <1>5

\* The invariant holds in every state of check_sync.
LEMMA CondCorrect == Spec => []CondInv
<1> DEFINE I == MP!Full /\ PhilTypes /\ \A k \in Phil : CondFit(k)
<1>1. Init => I
  BY CondInit DEF Init
<1>2. I => CondInv
  BY MonitorPromise DEF CondInv
<1>3. I /\ [Next]_vars => I'
  <2> SUFFICES ASSUME I, [Next]_vars PROVE I'
    OBVIOUS
  <2>1. ASSUME UNCHANGED condvars PROVE I'
    <3>1. 0 \in Phil /\ MonitorStep(0)
      BY <2>1, CheckSyncAssumption DEF condvars, MonitorStep, Condvar!monvars, Phil, Sema!Phil
    <3>2. MP!Full'
      BY <3>1, MonitorKept
    <3>3. PhilTypes' /\ \A k \in Phil : CondFit(k)'
      BY <2>1 DEF condvars, PhilTypes, CondFit
    <3> QED
      BY <3>2, <3>3
  <2>2. ASSUME NEW i \in Phil, SemaStep(i) PROVE I'
    BY <2>1, <2>2 DEF SemaStep
  <2>3. ASSUME NEW i \in Phil, CondvarStep(i) PROVE I'
    <3>1. Condvar!philosopher_using_condvar(i)
      BY <2>3 DEF CondvarStep
    <3>2. MP!Full'
      BY <3>1, InMonitorStep, MonitorKept
    <3>3. PhilTypes' /\ \A k \in Phil : CondFit(k)'
      BY <1>2, <3>1, CondNext
    <3> QED
      BY <3>2, <3>3
  <2> QED
    BY <2>1, <2>2, <2>3 DEF Next, vars, Phil
<1> QED
  BY <1>1, <1>2, <1>3, PTL DEF Spec

\* The philosophers of philosopher_using_condvar share the forks with their
\* neighbours and eat TIMES times each, however many they are.
THEOREM CheckSyncCondvarDining == Spec => CondvarDining
<1>1. Init => Condvar!D!Init
  <2> SUFFICES ASSUME Init PROVE Condvar!D!Init
    OBVIOUS
  <2>1. \A i \in Condvar!Phil : mstate[i] = "THINKING" /\ miter[i] = 1 /\ mpc[i] = "think"
    BY DEF Init, Condvar!Init
  <2> QED
    BY <2>1 DEF Condvar!D!Init, Condvar!D!Phil, Condvar!Phil
<1>2. CondInv /\ [Next]_vars => [Condvar!D!Next]_<<CondEating, CondMeals>>
  <2> SUFFICES ASSUME CondInv, [Next]_vars PROVE [Condvar!D!Next]_<<CondEating, CondMeals>>
    OBVIOUS
  <2>1. ASSUME UNCHANGED condvars PROVE UNCHANGED <<CondEating, CondMeals>>
    BY <2>1 DEF condvars, CondEating, CondMeals
  <2>2. ASSUME NEW i \in Phil, CondvarStep(i) PROVE [Condvar!D!Next]_<<CondEating, CondMeals>>
    BY <2>2, CondRefines DEF CondvarStep
  <2>3. ASSUME NEW i \in Phil, SemaStep(i) PROVE UNCHANGED <<CondEating, CondMeals>>
    BY <2>1, <2>3 DEF SemaStep
  <2> QED
    BY <2>1, <2>2, <2>3 DEF Next, vars, Phil
<1>3. Phil = Condvar!Phil
  BY DEF Phil, Sema!Phil, Condvar!Phil
<1> QED
  BY <1>1, <1>2, <1>3, CondCorrect, PTL
  DEF Spec, CondvarDining, Condvar!ImplementsDining, Condvar!D!Spec, CondEating, CondMeals,
      Phil, Sema!Phil, Condvar!Phil

-----------------------------------------------------------------------------

\* phi_take_forks_sema and phi_take_forks_condvar return only to a philosopher who
\* has the forks, although neither tests the state again after it has slept.
THEOREM CheckSyncWokenEats == Spec => []WokenEats
<1>1. SemaInv => Sema!EatsWithForks
  BY ZenonT(60) DEF SemaInv, ForksFit, Sema!EatsWithForks, Sema!S!Runs, Phil
<1>2. CondInv => Condvar!WokenEats
  BY DEF CondInv, CondFit, Condvar!WokenEats, Condvar!M!At, Phil, Sema!Phil, Condvar!Phil
<1> QED
  BY <1>1, <1>2, SemaCorrect, CondCorrect, PTL DEF WokenEats

=============================================================================
