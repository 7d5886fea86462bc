----------------------------- MODULE PipeProofs -----------------------------
(***************************************************************************)
(* The pipes of pipe.c for any number of processes, any size of the ring   *)
(* and any length of a call: indices, wait queues and wakeups.             *)
(***************************************************************************)
EXTENDS Pipe, SequenceTheorems, TLAPS

\* Every leaf has time enough on a busy machine.
USE SMTT(20), ZenonT(30), SMTT(60), SMTT(61)

\* The inductive invariant.  A wakeup is not lost because wakeup_queue reaches
\* every sleeper of the other side, and that holds only while each sleeper is in
\* the queue of its own call.
Inv == TypeOK /\ QueuesLive /\ NoLostWakeup

\* The indices of pipe.c stay inside the ring.
LEMMA NextIndex ==
    ASSUME PipeAssumption, NEW i \in Index
    PROVE  (i + 1) % PIPE_BUFFER_SIZE \in Index
  BY DEF PipeAssumption, Index

\* pipe_create_inode establishes the invariant.
LEMMA InitInv == ASSUME PipeAssumption, Init PROVE Inv
<1>1. TypeOK
  BY DEF PipeAssumption, Init, pipe_create_inode, TypeOK, Index
<1>2. QueuesLive /\ NoLostWakeup
  BY DEF Init, pipe_create_inode, QueuesLive, NoLostWakeup
<1> QED
  BY <1>1, <1>2 DEF Inv

\* A call, a return, a kill and an exit leave the ring and the queues alone.
LEMMA CallStep ==
    ASSUME PipeAssumption, Inv, NEW p \in Proc,
           Call(p, "read") \/ Call(p, "write") \/ Return(p) \/ do_kill(p) \/ Exit(p)
    PROVE  Inv'
<1> USE DEF Inv, bufvars
<1>1. TypeOK'
  BY DEF PipeAssumption, TypeOK, Index, Call, Return, do_kill, Exit
<1>2. QueuesLive'
  BY DEF PipeAssumption, TypeOK, QueuesLive, Call, Return, do_kill, Exit
<1>3. NoLostWakeup'
  BY DEF TypeOK, QueuesLive, NoLostWakeup, pipe_empty, pipe_full, Call, Return, do_kill, Exit
<1> QED
  BY <1>1, <1>2, <1>3

\* A process that runs again takes its wait_t out of the queues first.
LEMMA AwakeStep ==
    ASSUME PipeAssumption, Inv, NEW p \in Proc, Awake(p)
    PROVE  Inv'
<1> USE DEF Inv, Awake, bufvars
<1>1. TypeOK'
  BY DEF PipeAssumption, TypeOK
<1>2. QueuesLive'
  BY DEF PipeAssumption, TypeOK, QueuesLive
<1>3. NoLostWakeup'
  BY DEF TypeOK, QueuesLive, NoLostWakeup, pipe_empty, pipe_full
<1> QED
  BY <1>1, <1>2, <1>3

\* wait_current_set: the process is in the queue of its call before it sleeps.
LEMMA WaitStep ==
    ASSUME PipeAssumption, Inv, NEW p \in Proc, pipe_read_wait(p) \/ pipe_write_wait(p)
    PROVE  Inv'
<1> USE DEF Inv, pipe_read_wait, pipe_write_wait, Sleep, bufvars
<1>1. TypeOK'
  BY DEF PipeAssumption, TypeOK
<1>2. QueuesLive'
  BY DEF PipeAssumption, TypeOK, QueuesLive
<1>3. NoLostWakeup'
  BY DEF TypeOK, QueuesLive, NoLostWakeup, pipe_empty, pipe_full
<1> QED
  BY <1>1, <1>2, <1>3

\* A byte is read: no reader slept, since there was one, and every writer is woken.
LEMMA ReadStep ==
    ASSUME PipeAssumption, Inv, NEW p \in Proc, pipe_read_byte(p)
    PROVE  Inv'
<1> USE DEF Inv, pipe_read_byte, WakeQueue, Wake
<1>1. TypeOK'
  <2>1. p_head' \in Index
    BY NextIndex DEF TypeOK
  <2>2. left' \in [Proc -> 0..MaxLen]
    BY DEF PipeAssumption, TypeOK
  <2> QED
    BY <2>1, <2>2 DEF TypeOK
<1>2. QueuesLive'
  BY DEF TypeOK, QueuesLive
<1>3. \A q \in asleep' : pc[q] # "read" /\ pc[q] # "write"
  BY DEF QueuesLive, NoLostWakeup
<1> QED
  BY <1>1, <1>2, <1>3 DEF NoLostWakeup

\* A byte is written: no writer slept, since there was room, and every reader is
\* woken.
LEMMA WriteStep ==
    ASSUME PipeAssumption, Inv, NEW p \in Proc, pipe_write_byte(p)
    PROVE  Inv'
<1> USE DEF Inv, pipe_write_byte, WakeQueue, Wake
<1>1. TypeOK'
  <2>1. p_tail' \in Index
    BY NextIndex DEF TypeOK
  <2>2. left' \in [Proc -> 0..MaxLen]
    BY DEF PipeAssumption, TypeOK
  <2> QED
    BY <2>1, <2>2 DEF TypeOK
<1>2. QueuesLive'
  BY DEF TypeOK, QueuesLive
<1>3. \A q \in asleep' : pc[q] # "read" /\ pc[q] # "write"
  BY DEF QueuesLive, NoLostWakeup
<1> QED
  BY <1>1, <1>2, <1>3 DEF NoLostWakeup

\* Every step of every process keeps the invariant.
LEMMA NextInv == ASSUME PipeAssumption, Inv, [Next]_vars PROVE Inv'
<1>1. CASE UNCHANGED vars
  BY <1>1 DEF Inv, vars, TypeOK, QueuesLive, NoLostWakeup, pipe_empty, pipe_full
<1>2. CASE Next
  <2>1. PICK p \in Proc :
            Run(p) \/ Call(p, "read") \/ Call(p, "write") \/ do_kill(p) \/ Exit(p)
    BY <1>2 DEF Next
  <2>2. CASE Awake(p)
    BY <2>2, AwakeStep
  <2>3. CASE pipe_read_wait(p) \/ pipe_write_wait(p)
    BY <2>3, WaitStep
  <2>4. CASE pipe_read_byte(p)
    BY <2>4, ReadStep
  <2>5. CASE pipe_write_byte(p)
    BY <2>5, WriteStep
  <2>6. CASE Call(p, "read") \/ Call(p, "write") \/ Return(p) \/ do_kill(p) \/ Exit(p)
    BY <2>6, CallStep
  <2> QED
    BY <2>1, <2>2, <2>3, <2>4, <2>5, <2>6 DEF Run
<1> QED
  BY <1>1, <1>2

\* The invariant of pipe_read and pipe_write in every behaviour.
LEMMA PipeInv == ASSUME PipeAssumption PROVE Spec => []Inv
<1>1. Init => Inv
  BY InitInv
<1>2. Inv /\ [Next]_vars => Inv'
  BY NextInv
<1> QED
  BY <1>1, <1>2, PTL DEF Spec

\* pipe_read and pipe_write keep the indices inside the ring, and a call never
\* moves more bytes than it was asked for.
THEOREM PipeTypeOK == ASSUME PipeAssumption PROVE Spec => []TypeOK
<1>1. Inv => TypeOK
  BY DEF Inv
<1> QED
  BY <1>1, PipeInv, PTL

\* A wait_t on the stack of pipe_read or pipe_write is in a queue only while the
\* call sleeps, and every sleeper is in a queue, also when it is killed.
THEOREM PipeQueuesLive == ASSUME PipeAssumption PROVE Spec => []QueuesLive
<1>1. Inv => QueuesLive
  BY DEF Inv
<1> QED
  BY <1>1, PipeInv, PTL

\* Nobody sleeps in pipe_read beside a byte, or in pipe_write beside a free slot.
THEOREM PipeNoLostWakeup == ASSUME PipeAssumption PROVE Spec => []NoLostWakeup
<1>1. Inv => NoLostWakeup
  BY DEF Inv
<1> QED
  BY <1>1, PipeInv, PTL

-----------------------------------------------------------------------------
(* The ring is a bounded first-in first-out buffer. *)

\* An index taken round the ring, and what that is near the ring.
Wrap(k) == k % PIPE_BUFFER_SIZE

LEMMA Wrapped ==
    ASSUME PipeAssumption, NEW k \in Int, -PIPE_BUFFER_SIZE < k, k < 2 * PIPE_BUFFER_SIZE
    PROVE  /\ k < 0 => Wrap(k) = k + PIPE_BUFFER_SIZE
           /\ 0 <= k /\ k < PIPE_BUFFER_SIZE => Wrap(k) = k
           /\ PIPE_BUFFER_SIZE <= k => Wrap(k) = k - PIPE_BUFFER_SIZE
<1> USE DEF PipeAssumption, Wrap
<1>1. CASE k < 0
  BY <1>1, Z3
<1>2. CASE 0 <= k /\ k < PIPE_BUFFER_SIZE
  BY <1>2, Z3
<1>3. CASE PIPE_BUFFER_SIZE <= k
  BY <1>3, Z3
<1> QED
  BY <1>1, <1>2, <1>3

\* The bytes between two indices of the ring.
Size(h, t) == Wrap(t - h)
Ring(h, t, buf) == [i \in 1 .. Size(h, t) |-> buf[Wrap(h + i - 1)]]

\* They are a sequence, shorter than the ring.
LEMMA RingType ==
    ASSUME PipeAssumption, NEW h \in Index, NEW t \in Index, NEW buf \in [Index -> Byte]
    PROVE  /\ Ring(h, t, buf) \in Seq(Byte)
           /\ Len(Ring(h, t, buf)) = Size(h, t)
           /\ Size(h, t) = IF h <= t THEN t - h ELSE t - h + PIPE_BUFFER_SIZE
           /\ \A i \in 1 .. Size(h, t) :
                /\ Wrap(h + i - 1) = IF h + i - 1 < PIPE_BUFFER_SIZE THEN h + i - 1
                                     ELSE h + i - 1 - PIPE_BUFFER_SIZE
                /\ Wrap(h + i - 1) \in Index
                /\ Ring(h, t, buf)[i] = buf[Wrap(h + i - 1)]
<1>1. Size(h, t) = IF h <= t THEN t - h ELSE t - h + PIPE_BUFFER_SIZE
  <2>1. t - h \in Int /\ -PIPE_BUFFER_SIZE < t - h /\ t - h < PIPE_BUFFER_SIZE
    BY DEF Index, PipeAssumption
  <2> QED
    BY <2>1, Wrapped DEF Size, Index, PipeAssumption
<1>2. ASSUME NEW i \in 1 .. Size(h, t)
      PROVE  /\ Wrap(h + i - 1) = IF h + i - 1 < PIPE_BUFFER_SIZE THEN h + i - 1
                                  ELSE h + i - 1 - PIPE_BUFFER_SIZE
             /\ Wrap(h + i - 1) \in Index
  <2>1. h + i - 1 \in Int /\ 0 <= h + i - 1 /\ h + i - 1 < 2 * PIPE_BUFFER_SIZE - 1
    BY <1>1 DEF Index, PipeAssumption
  <2> QED
    BY <2>1, Wrapped DEF Index, PipeAssumption
<1>3. \A i \in 1 .. Size(h, t) : buf[Wrap(h + i - 1)] \in Byte
  BY <1>2
<1>4. Size(h, t) \in Nat
  BY <1>1 DEF Index, PipeAssumption
<1>5. /\ Ring(h, t, buf) \in [1 .. Size(h, t) -> Byte]
      /\ \A i \in 1 .. Size(h, t) : Ring(h, t, buf)[i] = buf[Wrap(h + i - 1)]
  BY <1>3 DEF Ring
<1>6. Ring(h, t, buf) \in Seq(Byte) /\ Len(Ring(h, t, buf)) = Size(h, t)
  BY <1>4, <1>5
<1> QED
  BY <1>1, <1>2, <1>5, <1>6, ZenonT(60)

\* pipe_write: a byte stored at the tail goes behind the others, and it has room
\* when the pipe is not full.
LEMMA RingPut ==
    ASSUME PipeAssumption, NEW h \in Index, NEW t \in Index, NEW buf \in [Index -> Byte],
           NEW b \in Byte, h # Wrap(t + 1)
    PROVE  /\ Ring(h, Wrap(t + 1), [buf EXCEPT ![t] = b]) = Append(Ring(h, t, buf), b)
           /\ Len(Ring(h, t, buf)) < PIPE_BUFFER_SIZE - 1
<1> DEFINE u == Wrap(t + 1)
           c == [buf EXCEPT ![t] = b]
           old == Ring(h, t, buf)
           new == Ring(h, u, c)
<1>1. u = (IF t + 1 < PIPE_BUFFER_SIZE THEN t + 1 ELSE 0) /\ u \in Index
  BY Wrapped DEF Index, PipeAssumption
<1>2. c \in [Index -> Byte] /\ c[t] = b /\ \A k \in Index : k # t => c[k] = buf[k]
  OBVIOUS
<1> HIDE DEF c, u
<1>3. /\ old \in Seq(Byte)
      /\ Len(old) = Size(h, t)
      /\ Size(h, t) = IF h <= t THEN t - h ELSE t - h + PIPE_BUFFER_SIZE
      /\ \A i \in 1 .. Size(h, t) :
            /\ Wrap(h + i - 1) = IF h + i - 1 < PIPE_BUFFER_SIZE THEN h + i - 1
                                 ELSE h + i - 1 - PIPE_BUFFER_SIZE
            /\ Wrap(h + i - 1) \in Index
            /\ old[i] = buf[Wrap(h + i - 1)]
  BY RingType, ZenonT(60)
<1>4. /\ new \in Seq(Byte)
      /\ Len(new) = Size(h, u)
      /\ Size(h, u) = IF h <= u THEN u - h ELSE u - h + PIPE_BUFFER_SIZE
      /\ \A i \in 1 .. Size(h, u) :
            /\ Wrap(h + i - 1) = IF h + i - 1 < PIPE_BUFFER_SIZE THEN h + i - 1
                                 ELSE h + i - 1 - PIPE_BUFFER_SIZE
            /\ Wrap(h + i - 1) \in Index
            /\ new[i] = c[Wrap(h + i - 1)]
  <2>1. u \in Index /\ c \in [Index -> Byte]
    BY <1>1, <1>2, ZenonT(60)
  <2> QED
    BY <2>1, RingType, ZenonT(60)
<1> HIDE DEF old, new
<1>5. Len(new) = Len(old) + 1 /\ Len(old) < PIPE_BUFFER_SIZE - 1 /\ Len(old) \in Nat
  <2>1. /\ Len(old) = IF h <= t THEN t - h ELSE t - h + PIPE_BUFFER_SIZE
        /\ Len(new) = IF h <= u THEN u - h ELSE u - h + PIPE_BUFFER_SIZE
        /\ h # u
    BY <1>3, <1>4 DEF u
  <2> QED
    BY <1>1, <2>1 DEF Index, PipeAssumption
<1>6. ASSUME NEW i \in 1 .. Len(new) PROVE new[i] = Append(old, b)[i]
  <2>1. CASE i = Len(old) + 1
    <3>1. Wrap(h + i - 1) = t
      <4>1. Wrap(h + i - 1) = IF h + i - 1 < PIPE_BUFFER_SIZE THEN h + i - 1
                              ELSE h + i - 1 - PIPE_BUFFER_SIZE
        BY <1>4
      <4>2. Len(old) = IF h <= t THEN t - h ELSE t - h + PIPE_BUFFER_SIZE
        BY <1>3
      <4> QED
        BY <4>1, <4>2, <2>1 DEF Index, PipeAssumption
    <3>2. new[i] = b
      BY <1>2, <1>4, <3>1
    <3> QED
      BY <1>3, <2>1, <3>2
  <2>2. CASE i \in 1 .. Len(old)
    <3>1. Wrap(h + i - 1) # t /\ Wrap(h + i - 1) \in Index
      BY <1>3, <2>2 DEF Index, PipeAssumption
    <3>2. new[i] = old[i]
      BY <1>2, <1>3, <1>4, <2>2, <3>1
    <3> QED
      BY <1>3, <2>2, <3>2
  <2> QED
    BY <1>5, <2>1, <2>2
<1>7. Append(old, b) \in Seq(Byte) /\ Len(Append(old, b)) = Len(new)
  BY <1>3, <1>5
<1>8. new = Append(old, b)
  BY <1>4, <1>6, <1>7, SeqEqual
<1> QED
  BY <1>5, <1>8 DEF c, u, old, new

\* pipe_read: the byte at the head is the first one, and the others stay.
LEMMA RingGet ==
    ASSUME PipeAssumption, NEW h \in Index, NEW t \in Index, NEW buf \in [Index -> Byte],
           h # t
    PROVE  /\ Ring(h, t, buf) # <<>>
           /\ Head(Ring(h, t, buf)) = buf[h]
           /\ Ring(Wrap(h + 1), t, buf) = Tail(Ring(h, t, buf))
<1> DEFINE g == Wrap(h + 1)
           old == Ring(h, t, buf)
           new == Ring(g, t, buf)
<1>1. g = (IF h + 1 < PIPE_BUFFER_SIZE THEN h + 1 ELSE 0) /\ g \in Index
  BY Wrapped DEF Index, PipeAssumption
<1> HIDE DEF g
<1>2. /\ old \in Seq(Byte)
      /\ Len(old) = Size(h, t)
      /\ Size(h, t) = IF h <= t THEN t - h ELSE t - h + PIPE_BUFFER_SIZE
      /\ \A i \in 1 .. Size(h, t) :
            /\ Wrap(h + i - 1) = IF h + i - 1 < PIPE_BUFFER_SIZE THEN h + i - 1
                                 ELSE h + i - 1 - PIPE_BUFFER_SIZE
            /\ Wrap(h + i - 1) \in Index
            /\ old[i] = buf[Wrap(h + i - 1)]
  BY RingType, ZenonT(60)
<1>3. /\ new \in Seq(Byte)
      /\ Len(new) = Size(g, t)
      /\ Size(g, t) = IF g <= t THEN t - g ELSE t - g + PIPE_BUFFER_SIZE
      /\ \A i \in 1 .. Size(g, t) :
            /\ Wrap(g + i - 1) = IF g + i - 1 < PIPE_BUFFER_SIZE THEN g + i - 1
                                 ELSE g + i - 1 - PIPE_BUFFER_SIZE
            /\ Wrap(g + i - 1) \in Index
            /\ new[i] = buf[Wrap(g + i - 1)]
  <2>1. g \in Index
    BY <1>1, ZenonT(60)
  <2> QED
    BY <2>1, RingType, ZenonT(60)
<1> HIDE DEF old, new
<1>4. Len(new) = Len(old) - 1 /\ Len(old) > 0 /\ Len(old) \in Nat
  <2>1. /\ Len(old) = IF h <= t THEN t - h ELSE t - h + PIPE_BUFFER_SIZE
        /\ Len(new) = IF g <= t THEN t - g ELSE t - g + PIPE_BUFFER_SIZE
    BY <1>2, <1>3
  <2> QED
    BY <1>1, <2>1 DEF Index, PipeAssumption
<1>5. old # <<>> /\ Head(old) = buf[h]
  <2>1. 1 \in 1 .. Size(h, t) /\ Wrap(h + 1 - 1) = h
    BY <1>2, <1>4 DEF Index, PipeAssumption
  <2>2. old[1] = buf[h]
    BY <1>2, <2>1
  <2> QED
    BY <1>2, <1>4, <2>2
<1>6. /\ Tail(old) \in Seq(Byte) /\ Len(Tail(old)) = Len(new)
      /\ \A i \in 1 .. Len(new) : Tail(old)[i] = old[i + 1]
  BY <1>2, <1>4, <1>5
<1>7. ASSUME NEW i \in 1 .. Len(new) PROVE new[i] = Tail(old)[i]
  <2>1. i + 1 \in 1 .. Size(h, t) /\ i \in 1 .. Size(g, t)
    BY <1>2, <1>3, <1>4
  <2>2. Wrap(h + (i + 1) - 1) = Wrap(g + i - 1)
    <3>1. Wrap(g + i - 1) = IF g + i - 1 < PIPE_BUFFER_SIZE THEN g + i - 1
                            ELSE g + i - 1 - PIPE_BUFFER_SIZE
      BY <1>3, <2>1
    <3>2. Wrap(h + (i + 1) - 1) = IF h + (i + 1) - 1 < PIPE_BUFFER_SIZE THEN h + (i + 1) - 1
                                  ELSE h + (i + 1) - 1 - PIPE_BUFFER_SIZE
      BY <1>2, <2>1
    <3>3. Len(old) = IF h <= t THEN t - h ELSE t - h + PIPE_BUFFER_SIZE
      BY <1>2
    <3> QED
      BY <1>1, <1>4, <3>1, <3>2, <3>3 DEF Index, PipeAssumption
  <2>3. old[i + 1] = buf[Wrap(h + (i + 1) - 1)] /\ new[i] = buf[Wrap(g + i - 1)]
    BY <1>2, <1>3, <2>1
  <2> QED
    BY <1>6, <2>2, <2>3
<1>8. new = Tail(old)
  BY <1>3, <1>6, <1>7, SeqEqual
<1> QED
  BY <1>5, <1>8 DEF g, old, new

\* The contents of a pipe, before and after a step, are those of its ring.
LEMMA ContentsRing ==
    /\ Contents = Ring(p_head, p_tail, p_buffer)
    /\ Contents' = Ring(p_head', p_tail', p_buffer')
  BY DEF Contents, Ring, Size, Wrap

\* The new pipe is an empty queue.
LEMMA InitFifo == ASSUME PipeAssumption, Init PROVE F!Init
<1>1. Contents = <<>>
  <2>1. Size(p_head, p_tail) = 0
    BY Wrapped DEF Init, pipe_create_inode, Size, PipeAssumption
  <2> QED
    BY <2>1, ContentsRing DEF Ring
<1>2. got \in Byte
  BY DEF Init, pipe_create_inode, PipeAssumption, Index
<1> QED
  BY <1>1, <1>2 DEF F!Init

\* A step of a process puts a byte, gets one, or leaves the queue as it is.
LEMMA NextFifo == ASSUME PipeAssumption, Inv, [Next]_vars PROVE [F!Next]_F!vars
<1>1. ASSUME UNCHANGED bufvars PROVE UNCHANGED F!vars
  BY <1>1, ContentsRing DEF F!vars, bufvars
<1>2. ASSUME NEW p \in Proc, pipe_read_byte(p) PROVE F!Get
  <2>1. /\ p_head \in Index /\ p_tail \in Index /\ p_buffer \in [Index -> Byte]
        /\ p_head # p_tail
    BY <1>2 DEF Inv, TypeOK, pipe_read_byte, pipe_empty
  <2>2. p_head' = Wrap(p_head + 1) /\ p_tail' = p_tail /\ p_buffer' = p_buffer
        /\ got' = p_buffer[p_head]
    BY <1>2 DEF pipe_read_byte, Wrap
  <2>3. Contents # <<>> /\ Head(Contents) = p_buffer[p_head] /\ Contents' = Tail(Contents)
    BY <2>1, <2>2, RingGet, ContentsRing
  <2> QED
    BY <2>2, <2>3 DEF F!Get
<1>3. ASSUME NEW p \in Proc, pipe_write_byte(p) PROVE F!Put
  <2>1. /\ p_head \in Index /\ p_tail \in Index /\ p_buffer \in [Index -> Byte]
        /\ p_head # Wrap(p_tail + 1)
    BY <1>3 DEF Inv, TypeOK, pipe_write_byte, pipe_full, Wrap
  <2>2. PICK b \in Byte : p_buffer' = [p_buffer EXCEPT ![p_tail] = b]
    BY <1>3 DEF pipe_write_byte
  <2>3. p_tail' = Wrap(p_tail + 1) /\ p_head' = p_head /\ got' = got
    BY <1>3 DEF pipe_write_byte, Wrap
  <2>4. Contents' = Append(Contents, b) /\ Len(Contents) < PIPE_BUFFER_SIZE - 1
    BY <2>1, <2>2, <2>3, RingPut, ContentsRing
  <2> QED
    BY <2>3, <2>4 DEF F!Put
<1>4. CASE UNCHANGED vars
  BY <1>1, <1>4 DEF vars, bufvars
<1>5. ASSUME NEW p \in Proc,
             \/ Return(p) \/ Awake(p) \/ pipe_read_wait(p) \/ pipe_write_wait(p)
             \/ Call(p, "read") \/ Call(p, "write") \/ do_kill(p) \/ Exit(p)
      PROVE  UNCHANGED bufvars
  BY <1>5 DEF Return, Awake, pipe_read_wait, pipe_write_wait, Call, do_kill, Exit
<1> QED
  BY <1>1, <1>2, <1>3, <1>4, <1>5 DEF Next, Run, F!Next

\* pipe_read and pipe_write implement a first-in first-out queue of
\* PIPE_BUFFER_SIZE - 1 bytes, for a ring of any size and any readers and writers.
THEOREM PipeFifo == ASSUME PipeAssumption PROVE Spec => ImplementsFifo
<1>1. Init => F!Init
  BY InitFifo
<1>2. Inv /\ [Next]_vars => [F!Next]_F!vars
  BY NextFifo
<1> QED
  BY <1>1, <1>2, PipeInv, PTL DEF Spec, ImplementsFifo, F!Spec

=============================================================================
