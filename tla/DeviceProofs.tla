---------------------------- MODULE DeviceProofs ---------------------------
(***************************************************************************)
(* The keyboard buffer of dev_stdin.c for any number of readers, a ring of *)
(* any size, reads of any length and any number of characters; and the VFS *)
(* that finds the devices, from boot on, for any number of processes.      *)
(***************************************************************************)
EXTENDS StdinRing, FiniteSetTheorems, SequenceTheorems, TLAPS

\* Every leaf has time enough on a busy machine.
USE SMTT(20), ZenonT(30), SMTT(60), SMTT(61)

-----------------------------------------------------------------------------
(* Positions of the ring: p_rpos and p_wpos count up for ever and are taken  *)
(* modulo STDIN_BUFSIZE.                                                     *)

Slot(k) == k % STDIN_BUFSIZE

\* A position has a place in the buffer.
LEMMA SlotType == ASSUME StdinAssumption, NEW k \in Nat PROVE Slot(k) \in Index
  BY Z3 DEF Slot, Index, StdinAssumption

\* A multiple of the size that is less than the size apart from 0 is 0.
LEMMA NoMultiple ==
    ASSUME StdinAssumption, NEW d \in Int,
           -STDIN_BUFSIZE < STDIN_BUFSIZE * d, STDIN_BUFSIZE * d < STDIN_BUFSIZE
    PROVE  d = 0
<1> USE DEF StdinAssumption
<1>1. CASE d >= 1
  <2>1. STDIN_BUFSIZE * d >= STDIN_BUFSIZE
    BY <1>1, Z3
  <2> QED
    BY <2>1
<1>2. CASE d <= -1
  <2>1. STDIN_BUFSIZE * d <= -STDIN_BUFSIZE
    BY <1>2, Z3
  <2> QED
    BY <2>1
<1> QED
  BY <1>1, <1>2

\* What the remainder is.
LEMMA SlotDivides ==
    ASSUME StdinAssumption, NEW k \in Nat
    PROVE  \E q \in Int : k = STDIN_BUFSIZE * q + Slot(k)
<1>1. k \div STDIN_BUFSIZE \in Int /\ k = STDIN_BUFSIZE * (k \div STDIN_BUFSIZE) + Slot(k)
  BY Z3 DEF Slot, StdinAssumption
<1> QED
  BY <1>1

\* Positions less than STDIN_BUFSIZE apart have different places.
LEMMA SlotApart ==
    ASSUME StdinAssumption, NEW a \in Nat, NEW b \in Nat, a < b, b < a + STDIN_BUFSIZE
    PROVE  Slot(a) # Slot(b)
<1> SUFFICES ASSUME Slot(a) = Slot(b) PROVE FALSE
  OBVIOUS
<1>1. PICK p \in Int : a = STDIN_BUFSIZE * p + Slot(a)
  BY SlotDivides
<1>2. PICK q \in Int : b = STDIN_BUFSIZE * q + Slot(b)
  BY SlotDivides
<1>3. Slot(a) \in Nat
  BY SlotType DEF Index, StdinAssumption
<1>4. b - a = STDIN_BUFSIZE * (q - p)
  BY <1>1, <1>2, <1>3, Z3 DEF StdinAssumption
<1>5. q - p = 0
  BY <1>4, NoMultiple DEF StdinAssumption
<1> QED
  BY <1>4, <1>5 DEF StdinAssumption

\* Positions STDIN_BUFSIZE apart have the same.
LEMMA SlotAgain ==
    ASSUME StdinAssumption, NEW k \in Nat
    PROVE  Slot(k + STDIN_BUFSIZE) = Slot(k)
<1> DEFINE l == k + STDIN_BUFSIZE
<1>1. PICK p \in Int : k = STDIN_BUFSIZE * p + Slot(k)
  BY SlotDivides
<1>2. l \in Nat
  BY DEF StdinAssumption
<1>3. PICK q \in Int : l = STDIN_BUFSIZE * q + Slot(l)
  BY <1>2, SlotDivides
<1>4. Slot(k) \in 0 .. STDIN_BUFSIZE - 1 /\ Slot(l) \in 0 .. STDIN_BUFSIZE - 1
  BY <1>2, SlotType DEF Index
<1>5. Slot(k) - Slot(l) = STDIN_BUFSIZE * (q - p - 1)
  BY <1>1, <1>3, <1>4, Z3 DEF StdinAssumption
<1>6. q - p - 1 = 0
  <2>1. q - p - 1 \in Int
    OBVIOUS
  <2>2. -STDIN_BUFSIZE < Slot(k) - Slot(l) /\ Slot(k) - Slot(l) < STDIN_BUFSIZE
    BY <1>4 DEF StdinAssumption
  <2> QED
    BY <1>5, <2>1, <2>2, NoMultiple
<1> QED
  BY <1>4, <1>5, <1>6 DEF StdinAssumption

-----------------------------------------------------------------------------
(* The characters read and the ones in the ring, in one sequence. *)

\* Characters are numbered as they are typed; the empty buffer has zeros.
Char == Nat

\* A function on the first numbers is a sequence.
LEMMA FunctionSequence ==
    ASSUME NEW n \in Nat, NEW s \in [1 .. n -> Char]
    PROVE  s \in Seq(Char) /\ Len(s) = n
  OBVIOUS

Waiting(r, w, buf) == [i \in 1 .. w - r |-> buf[Slot(r + i - 1)]]
All(g, r, w, buf) == g \o Waiting(r, w, buf)

\* What stands where in it.
LEMMA AllType ==
    ASSUME StdinAssumption, NEW g \in Seq(Char), NEW r \in Nat, NEW w \in Nat, r <= w,
           NEW buf \in [Index -> Char]
    PROVE  /\ All(g, r, w, buf) \in Seq(Char)
           /\ Len(All(g, r, w, buf)) = Len(g) + (w - r)
           /\ \A i \in 1 .. Len(g) : All(g, r, w, buf)[i] = g[i]
           /\ \A i \in 1 .. w - r : All(g, r, w, buf)[Len(g) + i] = buf[Slot(r + i - 1)]
<1> DEFINE s == Waiting(r, w, buf)
<1>1. \A i \in 1 .. w - r : Slot(r + i - 1) \in Index
  <2> SUFFICES ASSUME NEW i \in 1 .. w - r PROVE Slot(r + i - 1) \in Index
    BY ZenonT(60)
  <2>1. r + i - 1 \in Nat
    OBVIOUS
  <2> QED
    BY <2>1, SlotType
<1>2. /\ s \in [1 .. w - r -> Char]
      /\ \A i \in 1 .. w - r : s[i] = buf[Slot(r + i - 1)]
  BY <1>1, ZenonT(60) DEF Waiting
<1> HIDE DEF s
<1>3. s \in Seq(Char) /\ Len(s) = w - r
  <2>1. w - r \in Nat
    OBVIOUS
  <2> QED
    BY <1>2, <2>1, FunctionSequence, ZenonT(60)
<1>4. /\ g \o s \in Seq(Char) /\ Len(g \o s) = Len(g) + (w - r)
      /\ \A i \in 1 .. Len(g) : (g \o s)[i] = g[i]
      /\ \A i \in 1 .. w - r : (g \o s)[Len(g) + i] = s[i]
  <2>1. /\ g \o s \in Seq(Char) /\ Len(g \o s) = Len(g) + Len(s)
        /\ \A i \in 1 .. Len(g) + Len(s) :
              (g \o s)[i] = IF i <= Len(g) THEN g[i] ELSE s[i - Len(g)]
    BY <1>3, ConcatProperties, ZenonT(60)
  <2>2. Len(g) \in Nat /\ Len(s) = w - r
    BY <1>3
  <2>3. \A i \in 1 .. Len(g) : i \in 1 .. Len(g) + Len(s) /\ i <= Len(g)
    BY <2>2
  <2>4. \A i \in 1 .. w - r : /\ Len(g) + i \in 1 .. Len(g) + Len(s)
                              /\ ~(Len(g) + i <= Len(g)) /\ (Len(g) + i) - Len(g) = i
    BY <2>2
  <2> QED
    BY <2>1, <2>2, <2>3, <2>4, ZenonT(60)
<1> QED
  BY <1>2, <1>4 DEF All, s

\* dev_stdin_read takes from the front of the ring what it gives to the reader: the
\* characters stay in order.
LEMMA AllFetch ==
    ASSUME StdinAssumption, NEW g \in Seq(Char), NEW r \in Nat, NEW w \in Nat, r <= w,
           NEW buf \in [Index -> Char], NEW n \in 0 .. w - r
    PROVE  /\ g \o Waiting(r, r + n, buf) \in Seq(Char)
           /\ All(g \o Waiting(r, r + n, buf), r + n, w, buf) = All(g, r, w, buf)
<1> DEFINE h == g \o Waiting(r, r + n, buf)
           old == All(g, r, w, buf)
           new == All(h, r + n, w, buf)
<1>1. r + n \in Nat /\ r <= r + n /\ r + n <= w /\ (r + n) - r = n
  OBVIOUS
<1>2. /\ h \in Seq(Char)
      /\ Len(h) = Len(g) + n
      /\ \A i \in 1 .. Len(g) : h[i] = g[i]
      /\ \A i \in 1 .. n : h[Len(g) + i] = buf[Slot(r + i - 1)]
  <2>1. h = All(g, r, r + n, buf)
    BY DEF All
  <2> HIDE DEF h
  <2>2. /\ All(g, r, r + n, buf) \in Seq(Char)
        /\ Len(All(g, r, r + n, buf)) = Len(g) + ((r + n) - r)
        /\ \A i \in 1 .. Len(g) : All(g, r, r + n, buf)[i] = g[i]
        /\ \A i \in 1 .. (r + n) - r :
              All(g, r, r + n, buf)[Len(g) + i] = buf[Slot(r + i - 1)]
    BY <1>1, AllType, ZenonT(60)
  <2> QED
    BY <1>1, <2>1, <2>2, ZenonT(60)
<1>3. /\ old \in Seq(Char)
      /\ Len(old) = Len(g) + (w - r)
      /\ \A i \in 1 .. Len(g) : old[i] = g[i]
      /\ \A i \in 1 .. w - r : old[Len(g) + i] = buf[Slot(r + i - 1)]
  BY AllType, ZenonT(60)
<1> HIDE DEF h, old
<1>4. /\ new \in Seq(Char)
      /\ Len(new) = Len(h) + (w - (r + n))
      /\ \A i \in 1 .. Len(h) : new[i] = h[i]
      /\ \A i \in 1 .. w - (r + n) : new[Len(h) + i] = buf[Slot(r + n + i - 1)]
  <2>1. h \in Seq(Char) /\ r + n \in Nat /\ r + n <= w
    BY <1>1, <1>2, ZenonT(60)
  <2> QED
    BY <2>1, AllType, ZenonT(120)
<1> HIDE DEF new
<1>5. Len(new) = Len(old) /\ Len(g) \in Nat
  BY <1>2, <1>3, <1>4
<1>6. ASSUME NEW i \in 1 .. Len(old) PROVE new[i] = old[i]
  <2>1. CASE i \in 1 .. Len(g)
    BY <1>2, <1>3, <1>4, <2>1
  <2>2. CASE i \in Len(g) + 1 .. Len(h)
    <3>1. PICK j \in 1 .. n : i = Len(g) + j
      <4>1. i - Len(g) \in 1 .. n /\ i = Len(g) + (i - Len(g))
        BY <1>2, <1>5, <2>2
      <4> QED
        BY <4>1
    <3>2. i \in 1 .. Len(h) /\ j \in 1 .. w - r
      BY <1>2, <1>5, <2>2
    <3> QED
      BY <1>2, <1>3, <1>4, <3>1, <3>2
  <2>3. CASE i \in Len(h) + 1 .. Len(old)
    <3>1. PICK j \in 1 .. w - (r + n) : i = Len(h) + j
      <4>1. i - Len(h) \in 1 .. w - (r + n) /\ i = Len(h) + (i - Len(h))
        <5>1. Len(h) = Len(g) + n /\ Len(old) = Len(g) + (w - r)
          BY <1>2, <1>3
        <5> QED
          BY <1>5, <2>3, <5>1
      <4> QED
        BY <4>1
    <3>2. n + j \in 1 .. w - r /\ i = Len(g) + (n + j) /\ r + (n + j) - 1 = r + n + j - 1
      BY <1>2, <1>5, <3>1
    <3> QED
      BY <1>3, <1>4, <3>1, <3>2, ZenonT(60)
  <2> QED
    BY <1>2, <1>5, <2>1, <2>2, <2>3
<1>7. new = old
  BY <1>3, <1>4, <1>5, <1>6, SeqEqual
<1> QED
  BY <1>2, <1>7 DEF h, old, new

\* dev_stdin_write with room: the character goes behind the others.
LEMMA AllPut ==
    ASSUME StdinAssumption, NEW g \in Seq(Char), NEW r \in Nat, NEW w \in Nat, r <= w,
           w - r < STDIN_BUFSIZE, NEW buf \in [Index -> Char], NEW c \in Char
    PROVE  All(g, r, w + 1, [buf EXCEPT ![Slot(w)] = c]) = Append(All(g, r, w, buf), c)
<1> DEFINE b == [buf EXCEPT ![Slot(w)] = c]
           old == All(g, r, w, buf)
           new == All(g, r, w + 1, b)
<1>1. Slot(w) \in Index
  BY SlotType
<1>2. b \in [Index -> Char] /\ b[Slot(w)] = c /\ \A k \in Index : k # Slot(w) => b[k] = buf[k]
  BY <1>1
<1> HIDE DEF b
<1>3. /\ old \in Seq(Char)
      /\ Len(old) = Len(g) + (w - r)
      /\ \A i \in 1 .. Len(g) : old[i] = g[i]
      /\ \A i \in 1 .. w - r : old[Len(g) + i] = buf[Slot(r + i - 1)]
  BY AllType, ZenonT(60)
<1>4. /\ new \in Seq(Char)
      /\ Len(new) = Len(g) + ((w + 1) - r)
      /\ \A i \in 1 .. Len(g) : new[i] = g[i]
      /\ \A i \in 1 .. (w + 1) - r : new[Len(g) + i] = b[Slot(r + i - 1)]
  <2> DEFINE v == w + 1
  <2>1. v \in Nat /\ r <= v
    OBVIOUS
  <2>2. b \in [Index -> Char]
    BY <1>2, ZenonT(60)
  <2> HIDE DEF v
  <2>3. /\ All(g, r, v, b) \in Seq(Char)
        /\ Len(All(g, r, v, b)) = Len(g) + (v - r)
        /\ \A i \in 1 .. Len(g) : All(g, r, v, b)[i] = g[i]
        /\ \A i \in 1 .. v - r : All(g, r, v, b)[Len(g) + i] = b[Slot(r + i - 1)]
    BY <2>1, <2>2, AllType, ZenonT(60)
  <2> QED
    BY <2>3, ZenonT(60) DEF v
<1> HIDE DEF old, new
<1>5. Len(new) = Len(old) + 1 /\ Len(g) \in Nat
  BY <1>3, <1>4
<1>6. ASSUME NEW i \in 1 .. Len(new) PROVE new[i] = Append(old, c)[i]
  <2>1. CASE i \in 1 .. Len(g)
    BY <1>3, <1>4, <1>5, <2>1
  <2>2. CASE i \in Len(g) + 1 .. Len(old)
    <3>1. PICK j \in 1 .. w - r : i = Len(g) + j
      <4>1. i - Len(g) \in 1 .. w - r /\ i = Len(g) + (i - Len(g))
        BY <1>3, <1>5, <2>2
      <4> QED
        BY <4>1
    <3>2. Slot(r + j - 1) # Slot(w) /\ Slot(r + j - 1) \in Index
      <4>1. r + j - 1 \in Nat /\ r + j - 1 < w /\ w < (r + j - 1) + STDIN_BUFSIZE
        BY DEF StdinAssumption
      <4> QED
        BY <4>1, SlotApart, SlotType
    <3>3. j \in 1 .. (w + 1) - r
      OBVIOUS
    <3>4. new[i] = old[i]
      BY <1>2, <1>3, <1>4, <3>1, <3>2, <3>3, ZenonT(60)
    <3> QED
      BY <1>3, <1>5, <2>2, <3>4
  <2>3. CASE i = Len(old) + 1
    <3>1. w - r + 1 \in 1 .. (w + 1) - r /\ i = Len(g) + (w - r + 1) /\ r + (w - r + 1) - 1 = w
      BY <1>3, <1>5, <2>3
    <3>2. new[i] = c
      BY <1>2, <1>4, <3>1, ZenonT(60)
    <3>3. Append(old, c)[Len(old) + 1] = c
      BY <1>3
    <3> QED
      BY <2>3, <3>2, <3>3, ZenonT(60)
  <2> QED
    BY <1>3, <1>5, <2>1, <2>2, <2>3
<1>7. Append(old, c) \in Seq(Char) /\ Len(Append(old, c)) = Len(new)
  BY <1>3, <1>5
<1>8. new = Append(old, c)
  BY <1>4, <1>6, <1>7, SeqEqual
<1> QED
  BY <1>8, ZenonT(60) DEF b, old, new

\* dev_stdin_write without room: the oldest character in the ring is overwritten.
LEMMA AllOver ==
    ASSUME StdinAssumption, NEW g \in Seq(Char), NEW r \in Nat, NEW w \in Nat,
           w - r = STDIN_BUFSIZE, NEW buf \in [Index -> Char], NEW b \in [Index -> Char],
           \A k \in Index : k # Slot(w) => b[k] = buf[k]
    PROVE  /\ Len(All(g, r, w, b)) = Len(All(g, r, w, buf))
           /\ \A i \in 1 .. Len(All(g, r, w, buf)) :
                All(g, r, w, b)[i] = IF i = Len(g) + 1 THEN b[Slot(w)] ELSE All(g, r, w, buf)[i]
<1> DEFINE old == All(g, r, w, buf)
           new == All(g, r, w, b)
<1>1. Slot(w) = Slot(r) /\ Slot(r) \in Index /\ r <= w
  <2>1. w = r + STDIN_BUFSIZE
    BY DEF StdinAssumption
  <2> QED
    BY <2>1, SlotAgain, SlotType DEF StdinAssumption
<1>2. /\ old \in Seq(Char)
      /\ Len(old) = Len(g) + (w - r)
      /\ \A i \in 1 .. Len(g) : old[i] = g[i]
      /\ \A i \in 1 .. w - r : old[Len(g) + i] = buf[Slot(r + i - 1)]
  BY <1>1, AllType, ZenonT(60)
<1>3. /\ new \in Seq(Char)
      /\ Len(new) = Len(g) + (w - r)
      /\ \A i \in 1 .. Len(g) : new[i] = g[i]
      /\ \A i \in 1 .. w - r : new[Len(g) + i] = b[Slot(r + i - 1)]
  BY <1>1, AllType, ZenonT(60)
<1> HIDE DEF old, new
<1>4. Len(new) = Len(old) /\ Len(g) \in Nat
  BY <1>2, <1>3
<1>5. ASSUME NEW i \in 1 .. Len(old)
      PROVE  new[i] = IF i = Len(g) + 1 THEN b[Slot(w)] ELSE old[i]
  <2>1. CASE i \in 1 .. Len(g)
    BY <1>2, <1>3, <1>4, <2>1
  <2>2. CASE i = Len(g) + 1
    <3>1. 1 \in 1 .. w - r /\ r + 1 - 1 = r
      BY DEF StdinAssumption
    <3>2. new[i] = b[Slot(w)]
      BY <1>1, <1>3, <2>2, <3>1
    <3> QED
      BY <2>2, <3>2
  <2>3. CASE i \in Len(g) + 2 .. Len(old)
    <3>1. PICK j \in 2 .. w - r : i = Len(g) + j
      <4>1. i - Len(g) \in 2 .. w - r /\ i = Len(g) + (i - Len(g))
        BY <1>2, <1>4, <2>3
      <4> QED
        BY <4>1, ZenonT(60)
    <3>2. Slot(r + j - 1) # Slot(w) /\ Slot(r + j - 1) \in Index /\ j \in 1 .. w - r
      <4>1. r + j - 1 \in Nat /\ r < r + j - 1 /\ r + j - 1 < r + STDIN_BUFSIZE
        BY DEF StdinAssumption
      <4> QED
        BY <1>1, <4>1, SlotApart, SlotType
    <3>3. new[i] = old[i]
      BY <1>2, <1>3, <3>1, <3>2, ZenonT(60)
    <3> QED
      BY <1>4, <2>3, <3>3
  <2> QED
    BY <1>2, <1>4, <2>1, <2>2, <2>3
<1> QED
  BY <1>4, <1>5 DEF old, new

-----------------------------------------------------------------------------
(* The inductive invariant. *)

Chars == All(got, p_rpos, p_wpos, buffer)

Reading == [at : {"idle", "asleep", "ready"}, left : Nat, flags : {"", "WT_KBD", "WT_INTERRUPTED"}]

Types ==
    /\ buffer \in [Index -> Char] /\ got \in Seq(Char)
    /\ p_rpos \in Nat /\ p_wpos \in Nat /\ typed \in Nat
    /\ reader \in [Reader -> Reading] /\ wait_queue \subseteq Reader

Bounded == p_rpos <= p_wpos /\ p_wpos - p_rpos <= STDIN_BUFSIZE

Sleepers == \A r \in Reader : reader[r].at = "asleep" => p_rpos = p_wpos /\ r \in wait_queue

\* No character is there twice, and none that has not been typed.
Distinct ==
    /\ \A i, j \in 1 .. Len(Chars) : Chars[i] = Chars[j] => i = j
    /\ \A i \in 1 .. Len(Chars) : Chars[i] <= typed

InOrder == ~dropped => Len(Chars) = typed /\ \A i \in 1 .. typed : Chars[i] = i

Inv == Types /\ Bounded /\ Sleepers /\ Distinct /\ InOrder

\* A reader outside dev_stdin_read is not asleep in it.
LEMMA IdleReading == Idle \in Reading /\ Idle.at = "idle"
  BY DEF Idle, Reading

\* The device starts with an empty ring and nobody waiting.
LEMMA InitInv == ASSUME StdinAssumption, Init PROVE Inv
<1>1. Types
  <2>1. reader \in [Reader -> Reading]
    BY IdleReading DEF Init
  <2>2. buffer \in [Index -> Char] /\ got \in Seq(Char)
    BY DEF Init, Char
  <2> QED
    BY <2>1, <2>2 DEF Init, Types
<1>2. Bounded /\ Sleepers
  BY IdleReading DEF Init, Bounded, Sleepers, StdinAssumption
<1>3. Len(Chars) = 0
  <2>1. Len(Chars) = Len(got) + (p_wpos - p_rpos)
    BY <1>1, <1>2, AllType DEF Types, Bounded, Chars
  <2> QED
    BY <2>1 DEF Init
<1>4. Distinct /\ InOrder
  BY <1>3 DEF Distinct, InOrder, Init
<1> QED
  BY <1>1, <1>2, <1>4 DEF Inv

\* A step that keeps the characters and does not type one.
LEMMA SameChars ==
    ASSUME Distinct, InOrder, Chars' = Chars, typed' = typed, dropped' = dropped
    PROVE  Distinct' /\ InOrder'
  BY DEF Distinct, InOrder

\* dev_stdin_write: the character comes last, or in the place of the oldest one in
\* the ring, and every reader that waits is woken.
LEMMA WriteInv == ASSUME StdinAssumption, Inv, dev_stdin_write PROVE Inv'
<1> USE DEF Inv
<1> DEFINE c == typed + 1
<1>1. c \in Char /\ typed' = c /\ typed \in Nat
  BY DEF dev_stdin_write, Types, Char
<1>2. Slot(p_wpos) \in Index
  BY SlotType DEF Types
<1>3. buffer' = [buffer EXCEPT ![Slot(p_wpos)] = c] /\ got' = got /\ p_rpos' = p_rpos
  BY DEF dev_stdin_write, Slot
<1>4. \/ /\ p_wpos - p_rpos < STDIN_BUFSIZE /\ p_wpos' = p_wpos + 1 /\ (dropped => dropped')
      \/ /\ p_wpos - p_rpos = STDIN_BUFSIZE /\ p_wpos' = p_wpos /\ dropped'
  <2>1. CASE p_wpos - p_rpos < STDIN_BUFSIZE
    BY <2>1, ZenonT(60) DEF dev_stdin_write, Types
  <2>2. CASE ~(p_wpos - p_rpos < STDIN_BUFSIZE)
    <3>1. p_wpos' = p_wpos /\ dropped'
      BY <2>2, ZenonT(60) DEF dev_stdin_write
    <3> QED
      BY <2>2, <3>1 DEF Types, Bounded, StdinAssumption
  <2> QED
    BY <2>1, <2>2
<1>5. /\ wait_queue' = {}
      /\ reader' = [r \in Reader |-> IF r \in wait_queue
                                     THEN [reader[r] EXCEPT !.at = "ready", !.flags = "WT_KBD"]
                                     ELSE reader[r]]
  BY ZenonT(60) DEF dev_stdin_write, wakeup_queue
<1> HIDE DEF c
<1>6. Types'
  <2>1. buffer' \in [Index -> Char]
    BY <1>1, <1>2, <1>3 DEF Types
  <2>2. reader' \in [Reader -> Reading]
    BY <1>5, ZenonT(60) DEF Types, Reading
  <2>3. p_wpos' \in Nat /\ typed' \in Nat
    BY <1>1, <1>4 DEF Types, c
  <2> QED
    BY <1>3, <1>5, <2>1, <2>2, <2>3, ZenonT(60) DEF Types
<1>7. Bounded'
  BY <1>3, <1>4 DEF Bounded, Types, StdinAssumption
<1>8. Sleepers'
  BY <1>5, ZenonT(60) DEF Sleepers, Types, Reading
<1>9. Chars \in Seq(Char) /\ Len(Chars) = Len(got) + (p_wpos - p_rpos)
  BY AllType, ZenonT(60) DEF Types, Bounded, Chars
<1>10. CASE p_wpos - p_rpos < STDIN_BUFSIZE /\ p_wpos' = p_wpos + 1 /\ (dropped => dropped')
  <2>1. Chars' = Append(Chars, c)
    BY <1>1, <1>3, <1>10, AllPut, ZenonT(60) DEF Types, Bounded, Chars
  <2>2. /\ Len(Chars') = Len(Chars) + 1 /\ Chars'[Len(Chars) + 1] = c /\ Len(Chars) \in Nat
        /\ \A i \in 1 .. Len(Chars) : Chars'[i] = Chars[i]
    BY <1>1, <1>9, <2>1
  <2>3. Distinct'
    <3>1. \A i \in 1 .. Len(Chars) : Chars[i] \in Nat /\ Chars[i] <= typed /\ Chars[i] # c
      BY <1>1, <1>9 DEF Distinct, Char, c
    <3>2. \A i \in 1 .. Len(Chars') : Chars'[i] <= typed'
      BY <1>1, <2>2, <3>1 DEF c
    <3>3. \A i, j \in 1 .. Len(Chars') : Chars'[i] = Chars'[j] => i = j
      BY <2>2, <3>1 DEF Distinct
    <3> QED
      BY <3>2, <3>3 DEF Distinct
  <2>4. InOrder'
    BY <1>1, <1>10, <2>2 DEF InOrder, c
  <2> QED
    BY <1>6, <1>7, <1>8, <2>3, <2>4
<1>11. CASE p_wpos - p_rpos = STDIN_BUFSIZE /\ p_wpos' = p_wpos /\ dropped'
  <2>1. /\ got \in Seq(Char) /\ p_rpos \in Nat /\ p_wpos \in Nat
        /\ p_wpos - p_rpos = STDIN_BUFSIZE
        /\ buffer \in [Index -> Char] /\ buffer' \in [Index -> Char]
        /\ buffer'[Slot(p_wpos)] = c
        /\ \A k \in Index : k # Slot(p_wpos) => buffer'[k] = buffer[k]
    BY <1>1, <1>2, <1>3, <1>6, <1>11 DEF Types
  <2>2. /\ Len(Chars') = Len(Chars)
        /\ \A i \in 1 .. Len(Chars) : Chars'[i] = IF i = Len(got) + 1 THEN c ELSE Chars[i]
    <3>1. Chars' = All(got, p_rpos, p_wpos, buffer')
      BY <1>3, <1>11 DEF Chars
    <3> QED
      BY <2>1, <3>1, AllOver DEF Chars
  <2>3. Distinct'
    <3>1. \A i \in 1 .. Len(Chars) : Chars[i] \in Nat /\ Chars[i] <= typed /\ Chars[i] # c
      BY <1>1, <1>9 DEF Distinct, Char, c
    <3>2. \A i \in 1 .. Len(Chars') : Chars'[i] <= typed'
      BY <1>1, <2>2, <3>1 DEF c
    <3>3. \A i, j \in 1 .. Len(Chars') : Chars'[i] = Chars'[j] => i = j
      BY <2>2, <3>1 DEF Distinct
    <3> QED
      BY <3>2, <3>3 DEF Distinct
  <2>4. InOrder'
    BY <1>11 DEF InOrder
  <2> QED
    BY <1>6, <1>7, <1>8, <2>3, <2>4
<1> QED
  BY <1>4, <1>10, <1>11

\* dev_stdin_read up to its end or its sleep: the characters move from the ring to
\* the reader, and it sleeps only when the ring is empty.
LEMMA FetchInv ==
    ASSUME StdinAssumption, Inv, NEW r \in Reader, NEW left \in Nat, Fetch(r, left)
    PROVE  Inv'
<1> USE DEF Inv
<1> DEFINE n == least(left, p_wpos - p_rpos)
<1>1. n \in 0 .. p_wpos - p_rpos /\ n <= left /\ (n # left => n = p_wpos - p_rpos)
  BY DEF least, Types, Bounded
<1>2. /\ got' = got \o Waiting(p_rpos, p_rpos + n, buffer)
      /\ p_rpos' = p_rpos + n /\ p_wpos' = p_wpos /\ buffer' = buffer
      /\ typed' = typed /\ dropped' = dropped
  <2>1. (p_rpos + n) - p_rpos = n
    BY <1>1 DEF Types
  <2>2. Waiting(p_rpos, p_rpos + n, buffer)
          = [i \in 1 .. n |-> buffer[(p_rpos + i - 1) % STDIN_BUFSIZE]]
    BY <2>1 DEF Waiting, Slot
  <2> QED
    BY <2>2, ZenonT(60) DEF Fetch
<1>3. \/ n = left /\ reader' = [reader EXCEPT ![r] = Idle] /\ wait_queue' = wait_queue \ {r}
      \/ /\ n # left
         /\ reader' = [reader EXCEPT ![r] = [at |-> "asleep", left |-> left - n,
                                             flags |-> "WT_INTERRUPTED"]]
         /\ wait_queue' = wait_queue \cup {r}
  BY DEF Fetch
<1> HIDE DEF n
<1>4. got' \in Seq(Char) /\ Chars' = Chars
  BY <1>1, <1>2, AllFetch, ZenonT(60) DEF Types, Bounded, Chars
<1>5. Types'
  <2>1. reader' \in [Reader -> Reading]
    <3>1. n # left => [at |-> "asleep", left |-> left - n, flags |-> "WT_INTERRUPTED"] \in Reading
      <4>1. left - n \in Nat
        BY <1>1 DEF Types, Bounded
      <4> QED
        BY <4>1 DEF Reading
    <3> QED
      BY <1>3, <3>1, IdleReading DEF Types
  <2>2. wait_queue' \subseteq Reader /\ p_rpos' \in Nat
    BY <1>1, <1>2, <1>3 DEF Types
  <2> QED
    BY <1>2, <1>4, <2>1, <2>2 DEF Types
<1>6. Bounded'
  BY <1>1, <1>2 DEF Bounded, Types, StdinAssumption
<1>7. Sleepers'
  <2>1. CASE n = left
    <3>1. \A q \in Reader : reader'[q].at = "asleep"
                              => q # r /\ reader[q].at = "asleep" /\ q \in wait_queue'
      BY <1>3, <2>1, IdleReading DEF Types, Sleepers
    <3>2. p_rpos = p_wpos => p_rpos' = p_wpos'
      BY <1>1, <1>2 DEF Types
    <3> QED
      BY <3>1, <3>2 DEF Sleepers
  <2>2. CASE n # left
    <3>1. p_rpos' = p_wpos'
      BY <1>1, <1>2, <2>2 DEF Types
    <3>2. \A q \in Reader : reader'[q].at = "asleep" => q \in wait_queue'
      BY <1>3, <2>2 DEF Types, Sleepers
    <3> QED
      BY <3>1, <3>2 DEF Sleepers
  <2> QED
    BY <2>1, <2>2
<1> QED
  BY <1>2, <1>4, <1>5, <1>6, <1>7, SameChars

\* A kill, a read that a kill interrupted, and no step at all leave the ring alone.
LEMMA KeepInv ==
    ASSUME StdinAssumption, Inv,
           UNCHANGED <<buffer, p_rpos, p_wpos, typed, dropped, got>>,
           Types', Sleepers'
    PROVE  Inv'
<1>1. Bounded'
  BY DEF Inv, Bounded
<1>2. Chars' = Chars
  BY DEF Chars
<1> QED
  BY <1>1, <1>2, SameChars DEF Inv

\* Every step of the interrupt handler and of a reader keeps the invariant.
LEMMA NextInv == ASSUME StdinAssumption, Inv, [Next]_vars PROVE Inv'
<1>1. CASE UNCHANGED vars
  <2>1. Types' /\ Sleepers'
    BY <1>1 DEF vars, Inv, Types, Sleepers
  <2> QED
    BY <1>1, <2>1, KeepInv DEF vars
<1>2. ASSUME NEW r \in Reader, NEW len \in Lengths, dev_stdin_read(r, len) PROVE Inv'
  BY <1>2, FetchInv, ZenonT(60) DEF dev_stdin_read, StdinAssumption
<1>3. ASSUME NEW r \in Reader, Resume(r) PROVE Inv'
  <2>1. CASE reader[r].flags = "WT_KBD"
    <3>1. reader[r].left \in Nat
      BY ZenonT(60) DEF Inv, Types, Reading
    <3> QED
      BY <1>3, <2>1, <3>1, FetchInv DEF Resume
  <2>2. CASE reader[r].flags # "WT_KBD"
    <3>1. Types' /\ Sleepers'
      <4>1. reader' = [reader EXCEPT ![r] = Idle] /\ wait_queue' = wait_queue \ {r}
            /\ UNCHANGED <<buffer, p_rpos, p_wpos, typed, dropped, got>>
        BY <1>3, <2>2 DEF Resume
      <4> QED
        BY <4>1, IdleReading DEF Inv, Types, Sleepers
    <3> QED
      BY <1>3, <2>2, <3>1, KeepInv DEF Resume
  <2> QED
    BY <2>1, <2>2
<1>4. ASSUME NEW r \in Reader, do_kill(r) PROVE Inv'
  <2>1. Types' /\ Sleepers'
    BY <1>4, ZenonT(60) DEF do_kill, Inv, Types, Sleepers, Reading
  <2> QED
    BY <1>4, <2>1, KeepInv DEF do_kill
<1> QED
  BY <1>1, <1>2, <1>3, <1>4, WriteInv DEF Next

\* The invariant says what a user of the keyboard relies on.
LEMMA InvExact == ASSUME StdinAssumption, Inv PROVE KeyboardExact
<1> USE DEF Inv
<1>1. p_wpos - p_rpos \in 0 .. STDIN_BUFSIZE
  BY DEF Types, Bounded, StdinAssumption
<1>2. got \o Unread = Chars
  BY DEF Chars, All, Waiting, Slot, Unread
<1>3. Chars \in Seq(Char)
  BY AllType DEF Types, Bounded, Chars
<1>4. IsInjective(Chars)
  BY <1>3 DEF Distinct, IsInjective
<1>5. ~dropped => Chars = [i \in 1 .. typed |-> i]
  BY <1>3 DEF InOrder, Types
<1> QED
  BY <1>1, <1>2, <1>4, <1>5 DEF KeyboardExact, Sleepers

\* dev_stdin_write and dev_stdin_read lose, repeat and reorder nothing as long as the
\* ring has room, repeat nothing ever, and never leave a reader asleep beside a
\* character, whatever the size of the ring and however many readers and kills.
THEOREM StdinKeyboardExact == ASSUME StdinAssumption PROVE Spec => []KeyboardExact
<1>1. Init => Inv
  BY InitInv
<1>2. Inv /\ [Next]_vars => Inv'
  BY NextInv
<1>3. Inv => KeyboardExact
  BY InvExact
<1> QED
  BY <1>1, <1>2, <1>3, PTL DEF Spec

-----------------------------------------------------------------------------
(* Lookups and references (VfsBoot). *)

CONSTANT MaxProc

VARIABLES boot, vdev, vfs

B == INSTANCE VfsBoot WITH pc <- boot, x <- vfs

Procs == 1 .. MaxProc
Maybe == B!Node \cup {B!NoNode}

\* The counts, directories and results that VfsBoot's functions map to the next.
BootWorld ==
    [ref : [B!Node -> Int], bootfs : Maybe, pwd : [Procs -> Maybe],
     live : SUBSET Procs, held : Maybe, got : Maybe]

One(b) == IF b THEN 1 ELSE 0

\* What a lookup from y does: it ends in n and has taken a reference to n only, and
\* none when there is no n.
Took(y, z, n) ==
    /\ z \in BootWorld
    /\ z.bootfs = y.bootfs /\ z.pwd = y.pwd /\ z.live = y.live /\ z.held = y.held
    /\ z.got = n
    /\ \A m \in B!Node : z.ref[m] = y.ref[m] + (IF m = n THEN 1 ELSE 0)

\* A failed lookup takes nothing.
LEMMA TookNone ==
    ASSUME NEW y \in BootWorld
    PROVE  Took(y, B!Got(y, B!NoNode), B!NoNode)
  BY DEF Took, B!Got, BootWorld, Maybe, B!Node, B!NoNode

\* vop_ref_inc of what was found.
LEMMA TookOne ==
    ASSUME NEW y \in BootWorld, NEW n \in B!Node
    PROVE  Took(y, B!Got(B!ref_inc(y, n), n), n)
<1> DEFINE z == B!Got(B!ref_inc(y, n), n)
<1>1. z \in BootWorld
  <2>1. B!ref_inc(y, n) \in BootWorld
    BY DEF B!ref_inc, BootWorld
  <2> QED
    BY <2>1 DEF B!Got, BootWorld, Maybe
<1>2. z.bootfs = y.bootfs /\ z.pwd = y.pwd /\ z.live = y.live /\ z.held = y.held /\ z.got = n
  BY DEF B!Got, B!ref_inc, BootWorld, Maybe
<1>3. \A m \in B!Node : z.ref[m] = y.ref[m] + (IF m = n THEN 1 ELSE 0)
  BY DEF B!Got, B!ref_inc, BootWorld
<1> QED
  BY <1>1, <1>2, <1>3 DEF Took

\* vfs_get_curdir takes the directory of the process.
LEMMA TookCurdir ==
    ASSUME NEW y \in BootWorld, NEW p \in Procs
    PROVE  Took(y, B!vfs_get_curdir(y, p), y.pwd[p]) /\ y.pwd[p] \in Maybe
<1>1. y.pwd[p] \in Maybe
  BY DEF BootWorld
<1> QED
  BY <1>1, TookNone, TookOne DEF B!vfs_get_curdir, Maybe

\* vfs_get_bootfs takes the boot file system.
LEMMA TookBootfs ==
    ASSUME NEW y \in BootWorld
    PROVE  Took(y, B!vfs_get_bootfs(y), y.bootfs) /\ y.bootfs \in Maybe
<1>1. y.bootfs \in Maybe
  BY DEF BootWorld
<1> QED
  BY <1>1, TookNone, TookOne DEF B!vfs_get_bootfs, Maybe

\* ":name": the reference to the working directory is dropped again.
LEMMA TookColon ==
    ASSUME NEW y \in BootWorld, NEW z, NEW n \in Maybe, Took(y, z, n)
    PROVE  Took(y, B!ColonRoot(z), IF n = B!NoNode THEN B!NoNode ELSE "root")
<1>1. CASE n = B!NoNode
  BY <1>1 DEF Took, B!ColonRoot
<1>2. CASE n \in B!Node
  <2>1. n # B!NoNode /\ z.got = n /\ z \in BootWorld /\ "root" \in B!Node
    BY <1>2 DEF B!Node, B!NoNode, Took
  <2> DEFINE u == B!sfs_get_root(z)
  <2>2. Took(z, u, "root")
    BY <2>1, TookOne DEF B!sfs_get_root
  <2> HIDE DEF u
  <2>3. B!ColonRoot(z) = [u EXCEPT !.ref[n] = @ - 1]
    BY <2>1 DEF B!ColonRoot, B!ref_dec, u
  <2> DEFINE v == [u EXCEPT !.ref[n] = @ - 1]
  <2>4. /\ v \in BootWorld
        /\ v.bootfs = u.bootfs /\ v.pwd = u.pwd /\ v.live = u.live /\ v.held = u.held
        /\ v.got = u.got
        /\ \A m \in B!Node : v.ref[m] = u.ref[m] - (IF m = n THEN 1 ELSE 0)
    BY <1>2, <2>2 DEF Took, BootWorld
  <2> HIDE DEF v
  <2>5. \A m \in B!Node : y.ref[m] \in Int /\ z.ref[m] \in Int /\ u.ref[m] \in Int
    BY <2>1, <2>2 DEF Took, BootWorld
  <2>6. Took(y, v, "root")
    BY <2>2, <2>4, <2>5 DEF Took
  <2> QED
    BY <2>1, <2>3, <2>6 DEF v
<1> QED
  BY <1>1, <1>2 DEF Maybe

\* Below the directory or device where a path starts, what is found has the
\* reference and the start has not.
Under(n, rest) ==
    IF n = B!NoNode \/ rest = "" THEN n
    ELSE IF n = "root" /\ rest = "file" THEN "file" ELSE B!NoNode

\* vfs_lookup's search of the directory and its vop_ref_dec of the start.
LEMMA TookBelow ==
    ASSUME NEW y \in BootWorld, NEW z, NEW n \in Maybe, Took(y, z, n), NEW rest
    PROVE  Took(y, B!Below(z, rest), Under(n, rest))
<1>1. CASE n = B!NoNode \/ rest = ""
  BY <1>1, ZenonT(60) DEF Took, B!Below, Under
<1>2. CASE ~(n = B!NoNode \/ rest = "")
  <2>1. z.got = n /\ z \in BootWorld /\ "file" \in B!Node /\ n \in B!Node
    BY <1>2, ZenonT(60) DEF B!Node, Took, Maybe
  <2> DEFINE u == B!vop_lookup(z, n, rest)
             k == Under(n, rest)
  <2>2. Took(z, u, k)
    BY <1>2, <2>1, TookOne, TookNone, ZenonT(60) DEF B!vop_lookup, Under
  <2> HIDE DEF u
  <2>3. B!Below(z, rest) = [u EXCEPT !.ref[n] = @ - 1]
    BY <1>2, <2>1, ZenonT(60) DEF B!Below, B!ref_dec, u
  <2> HIDE DEF k
  <2> DEFINE v == [u EXCEPT !.ref[n] = @ - 1]
  <2>4. /\ v \in BootWorld
        /\ v.bootfs = u.bootfs /\ v.pwd = u.pwd /\ v.live = u.live /\ v.held = u.held
        /\ v.got = u.got
        /\ \A m \in B!Node : v.ref[m] = u.ref[m] - (IF m = n THEN 1 ELSE 0)
    BY <2>1, <2>2 DEF Took, BootWorld
  <2> HIDE DEF v
  <2>5. \A m \in B!Node : y.ref[m] \in Int /\ z.ref[m] \in Int /\ u.ref[m] \in Int
    BY <2>1, <2>2 DEF Took, BootWorld
  <2>6. Took(y, v, k)
    BY <2>2, <2>4, <2>5 DEF Took
  <2> QED
    BY <2>3, <2>6 DEF v, k
<1> QED
  BY <1>1, <1>2, ZenonT(60)

\* vdev_list after boot: disk0 with its file system, stdout, stdin.
Mounted ==
    /\ DOMAIN vdev = 1 .. 3
    /\ vdev[1].name = "disk0" /\ vdev[1].mountable /\ vdev[1].fs
    /\ vdev[2].name = "stdout" /\ ~vdev[2].mountable /\ ~vdev[2].fs
    /\ vdev[3].name = "stdin" /\ ~vdev[3].mountable /\ ~vdev[3].fs

\* vfs_get_root of a device: its file system, or the device itself.
RootOf(name) ==
    CASE name = "disk0" -> "root" [] name = "stdin" -> "stdin" [] OTHER -> B!NoNode

\* vfs_get_root takes no more than it returns, on every branch.
LEMMA TookRoot ==
    ASSUME NEW y \in BootWorld, Mounted, NEW name \in {"stdin", "disk0", "none"}
    PROVE  Took(y, B!vfs_get_root(y, name), RootOf(name)) /\ RootOf(name) \in Maybe
<1> USE DEF Mounted
<1>1. CASE name = "none"
  <2>1. B!Entries(name) = {}
    BY <1>1 DEF B!Entries
  <2> QED
    BY <1>1, <2>1, TookNone DEF B!vfs_get_root, RootOf, Maybe
<1>2. CASE name = "stdin"
  <2>1. B!Entries(name) = {3}
    BY <1>2 DEF B!Entries
  <2>2. B!Min({3}) = 3
    BY DEF B!Min
  <2>3. B!Entries(name) # {} /\ B!Min(B!Entries(name)) = 3 /\ name \in B!Node
    BY <1>2, <2>1, <2>2 DEF B!Node
  <2>4. B!vfs_get_root(y, name) = B!Got(B!ref_inc(y, name), name)
    BY <2>3 DEF B!vfs_get_root
  <2> QED
    BY <1>2, <2>3, <2>4, TookOne DEF RootOf, Maybe
<1>3. CASE name = "disk0"
  <2>1. B!Entries(name) = {1}
    BY <1>3 DEF B!Entries
  <2>2. B!Min({1}) = 1
    BY DEF B!Min
  <2>3. B!Entries(name) # {} /\ B!Min(B!Entries(name)) = 1 /\ "root" \in B!Node
    BY <1>3, <2>1, <2>2 DEF B!Node
  <2>4. B!vfs_get_root(y, name) = B!Got(B!ref_inc(y, "root"), "root")
    BY <2>3 DEF B!vfs_get_root, B!sfs_get_root
  <2> QED
    BY <1>3, <2>3, <2>4, TookOne DEF RootOf, Maybe
<1> QED
  BY <1>1, <1>2, <1>3

\* Where a path starts for process p.
Start(y, p, path) ==
    CASE path.form = "relative" -> y.pwd[p]
      [] path.form = "device" -> RootOf(path.dev)
      [] path.form = "boot" -> y.bootfs
      [] path.form = "colon" -> IF y.pwd[p] = B!NoNode THEN B!NoNode ELSE "root"

\* vfs_lookup takes one reference, to the inode it returns, on every path.
LEMMA TookLookup ==
    ASSUME NEW y \in BootWorld, Mounted, NEW p \in Procs, NEW path \in B!Path
    PROVE  Took(y, B!vfs_lookup(y, p, path), Under(Start(y, p, path), path.rest))
<1>1. path.form \in B!Form /\ path.dev \in {"stdin", "disk0", "none"}
  BY ZenonT(60) DEF B!Path
<1>2. Took(y, B!get_device(y, p, path), Start(y, p, path)) /\ Start(y, p, path) \in Maybe
  <2>1. CASE path.form = "relative"
    BY <2>1, TookCurdir DEF B!get_device, Start
  <2>2. CASE path.form = "device"
    BY <1>1, <2>2, TookRoot DEF B!get_device, Start
  <2>3. CASE path.form = "boot"
    BY <2>3, TookBootfs DEF B!get_device, Start
  <2>4. CASE path.form = "colon"
    <3>1. Took(y, B!vfs_get_curdir(y, p), y.pwd[p]) /\ y.pwd[p] \in Maybe
      BY TookCurdir
    <3>2. Took(y, B!ColonRoot(B!vfs_get_curdir(y, p)),
               IF y.pwd[p] = B!NoNode THEN B!NoNode ELSE "root")
      BY <3>1, TookColon
    <3>3. (IF y.pwd[p] = B!NoNode THEN B!NoNode ELSE "root") \in Maybe
      BY DEF Maybe, B!Node
    <3> QED
      BY <2>4, <3>2, <3>3 DEF B!get_device, Start
  <2> QED
    BY <1>1, <2>1, <2>2, <2>3, <2>4 DEF B!Form
<1> QED
  BY <1>2, TookBelow DEF B!vfs_lookup

-----------------------------------------------------------------------------
(* From boot on: the device table, and who owns the references. *)

DevEntry == [name : B!Node, mountable : BOOLEAN, fs : BOOLEAN]

Listed(n) == \E i \in DOMAIN vdev : vdev[i].name = n

\* vdev_list at each step of boot.
Devices ==
    /\ vdev \in Seq(DevEntry)
    /\ boot = "vfs_init" => Len(vdev) = 0
    /\ boot = "stdout" => Len(vdev) = 1 /\ vdev[1] = [name |-> "stdin", mountable |-> FALSE, fs |-> FALSE]
    /\ boot = "disk0" =>
         /\ Len(vdev) = 2
         /\ vdev[1] = [name |-> "stdout", mountable |-> FALSE, fs |-> FALSE]
         /\ vdev[2] = [name |-> "stdin", mountable |-> FALSE, fs |-> FALSE]
    /\ boot = "sfs_init" =>
         /\ Len(vdev) = 3
         /\ vdev[1] = [name |-> "disk0", mountable |-> TRUE, fs |-> FALSE]
         /\ vdev[2] = [name |-> "stdout", mountable |-> FALSE, fs |-> FALSE]
         /\ vdev[3] = [name |-> "stdin", mountable |-> FALSE, fs |-> FALSE]
    /\ boot \in {"init_main", "run"} => Mounted

\* Before init_main nobody has a directory; afterwards every live process has the
\* root, and so has the boot file system.
Directories ==
    /\ boot \in {"vfs_init", "stdout", "disk0", "sfs_init", "init_main", "run"}
    /\ boot # "run" => /\ vfs.bootfs = B!NoNode /\ vfs.held = B!NoNode /\ vfs.live = {1}
                       /\ \A p \in Procs : vfs.pwd[p] = B!NoNode
    /\ boot = "run" => /\ vfs.bootfs = "root"
                       /\ \A p \in Procs : vfs.pwd[p] \in {"root", B!NoNode}
                       /\ \A p \in vfs.live : vfs.pwd[p] = "root"

\* The files_structs in the root: those of the live processes, and those that do_exit
\* left behind.
Holders == {p \in Procs : vfs.pwd[p] = "root"}

Owned ==
    \A n \in B!Node :
        vfs.ref[n] = One(Listed(n)) + One(vfs.bootfs = n) + One(vfs.held = n)
                       + (IF boot = "run" /\ n = "root" THEN Cardinality(Holders) ELSE 0)

BootInv == vfs \in BootWorld /\ vfs.got = B!NoNode /\ Devices /\ Directories /\ Owned

\* A set of processes is finite.
LEMMA LiveFinite ==
    ASSUME B!BootAssumption, NEW T \in SUBSET Procs
    PROVE  IsFiniteSet(T) /\ Cardinality(T) \in Nat
<1>1. IsFiniteSet(Procs)
  BY FS_Interval DEF Procs, B!BootAssumption
<1> QED
  BY <1>1, FS_Subset, FS_CardinalityType

\* vfs_init.
LEMMA BootInit == ASSUME B!BootAssumption, B!Init PROVE BootInv
<1> USE DEF B!Init
<1>1. vfs \in BootWorld /\ vfs.got = B!NoNode
  BY DEF BootWorld, Maybe, Procs, B!BootAssumption
<1>2. Devices /\ Directories
  BY DEF Devices, Directories, Procs
<1>3. Owned
  BY DEF Owned, Listed, One, B!Node, B!NoNode
<1> QED
  BY <1>1, <1>2, <1>3 DEF BootInv

\* vfs_add_dev puts a device in front of the list, and takes the reference for it.
LEMMA AddStep ==
    ASSUME BootInv, NEW name \in B!Node, NEW mountable \in BOOLEAN,
           B!add_dev(name, mountable), boot # "run", boot' # "run"
    PROVE  /\ vdev' \in Seq(DevEntry) /\ Len(vdev') = Len(vdev) + 1
           /\ vdev'[1] = [name |-> name, mountable |-> mountable, fs |-> FALSE]
           /\ \A i \in 1 .. Len(vdev) : vdev'[i + 1] = vdev[i]
           /\ vfs' \in BootWorld /\ vfs'.got = B!NoNode /\ Owned'
           /\ vfs'.bootfs = vfs.bootfs /\ vfs'.held = vfs.held /\ vfs'.live = vfs.live
           /\ vfs'.pwd = vfs.pwd
<1> DEFINE e == [name |-> name, mountable |-> mountable, fs |-> FALSE]
<1>1. e \in DevEntry /\ vdev \in Seq(DevEntry) /\ e.name = name
  <2>1. e \in DevEntry
    BY DEF DevEntry
  <2> QED
    BY <2>1 DEF BootInv, Devices
<1>2. vdev' = <<e>> \o vdev
  BY DEF B!add_dev
<1> HIDE DEF e
<1>3. /\ vdev' \in Seq(DevEntry) /\ Len(vdev') = Len(vdev) + 1
      /\ vdev'[1] = e /\ \A i \in 1 .. Len(vdev) : vdev'[i + 1] = vdev[i]
  BY <1>1, <1>2
<1>4. /\ vfs' \in BootWorld /\ vfs'.got = B!NoNode
      /\ vfs'.bootfs = vfs.bootfs /\ vfs'.held = vfs.held /\ vfs'.live = vfs.live
      /\ vfs'.pwd = vfs.pwd
      /\ \A m \in B!Node : vfs'.ref[m] = vfs.ref[m] + One(m = name)
  <2> DEFINE y == B!ref_inc(vfs, name)
  <2>1. /\ y \in BootWorld
        /\ y.bootfs = vfs.bootfs /\ y.held = vfs.held /\ y.live = vfs.live /\ y.pwd = vfs.pwd
        /\ \A m \in B!Node : y.ref[m] = vfs.ref[m] + One(m = name)
    BY DEF B!ref_inc, BootWorld, BootInv, One
  <2>2. vfs' = [y EXCEPT !.got = B!NoNode]
    BY DEF B!add_dev, B!Becomes
  <2> HIDE DEF y
  <2> QED
    BY <2>1, <2>2 DEF BootWorld, Maybe
<1>5. ~Listed(name)
  BY DEF B!add_dev, B!check_devname_conflict, B!Entries, Listed
<1>6. \A m : Listed(m)' <=> Listed(m) \/ m = name
  <2>1. DOMAIN vdev = 1 .. Len(vdev) /\ DOMAIN vdev' = 1 .. Len(vdev) + 1 /\ Len(vdev) \in Nat
    BY <1>1, <1>3
  <2>2. \A j \in 2 .. Len(vdev) + 1 : vdev'[j] = vdev[j - 1] /\ j - 1 \in 1 .. Len(vdev)
    BY <1>3, <2>1
  <2> TAKE m
  <2>3. ASSUME NEW i \in DOMAIN vdev', vdev'[i].name = m PROVE Listed(m) \/ m = name
    <3>1. CASE i = 1
      BY <1>1, <1>3, <2>3, <3>1
    <3>2. CASE i # 1
      BY <2>1, <2>2, <2>3, <3>2 DEF Listed
    <3> QED
      BY <3>1, <3>2
  <2>4. ASSUME NEW i \in DOMAIN vdev, vdev[i].name = m PROVE Listed(m)'
    <3>1. i + 1 \in DOMAIN vdev' /\ vdev'[i + 1].name = m
      BY <1>3, <2>1, <2>4
    <3> QED
      BY <3>1 DEF Listed
  <2>5. ASSUME m = name PROVE Listed(m)'
    <3>1. 1 \in DOMAIN vdev' /\ vdev'[1].name = m
      BY <1>1, <1>3, <2>1, <2>5
    <3> QED
      BY <3>1 DEF Listed
  <2> QED
    BY <2>3, <2>4, <2>5 DEF Listed
<1>7. Owned'
  BY <1>4, <1>5, <1>6 DEF Owned, BootInv, One, BootWorld
<1> QED
  BY <1>3, <1>4, <1>7 DEF e

\* dev_init_stdin, dev_init_stdout and dev_init_disk0.
LEMMA DevStep ==
    ASSUME BootInv, B!dev_init_stdin \/ B!dev_init_stdout \/ B!dev_init_disk0
    PROVE  BootInv'
<1>1. ASSUME NEW name \in B!Node, NEW mountable \in BOOLEAN, B!add_dev(name, mountable),
             boot # "run", boot' \in {"stdout", "disk0", "sfs_init"}
      PROVE  /\ vdev' \in Seq(DevEntry) /\ Len(vdev') = Len(vdev) + 1
             /\ vdev'[1] = [name |-> name, mountable |-> mountable, fs |-> FALSE]
             /\ \A i \in 1 .. Len(vdev) : vdev'[i + 1] = vdev[i]
             /\ vfs' \in BootWorld /\ vfs'.got = B!NoNode /\ Owned' /\ Directories'
  <2>1. boot' # "run"
    BY <1>1
  <2> QED
    BY <1>1, <2>1, AddStep DEF BootInv, Directories
<1>2. CASE B!dev_init_stdin
  <2>1. boot = "vfs_init" /\ boot' = "stdout" /\ B!add_dev("stdin", FALSE) /\ "stdin" \in B!Node
    BY <1>2, ZenonT(60) DEF B!dev_init_stdin, B!Node
  <2>2. /\ vdev' \in Seq(DevEntry) /\ Len(vdev') = Len(vdev) + 1
        /\ vdev'[1] = [name |-> "stdin", mountable |-> FALSE, fs |-> FALSE]
        /\ vfs' \in BootWorld /\ vfs'.got = B!NoNode /\ Owned' /\ Directories'
    BY <1>1, <2>1, ZenonT(60)
  <2>3. Devices'
    BY <2>1, <2>2 DEF BootInv, Devices
  <2> QED
    BY <2>2, <2>3 DEF BootInv
<1>3. CASE B!dev_init_stdout
  <2>1. boot = "stdout" /\ boot' = "disk0" /\ B!add_dev("stdout", FALSE) /\ "stdout" \in B!Node
    BY <1>3, ZenonT(60) DEF B!dev_init_stdout, B!Node
  <2>2. /\ vdev' \in Seq(DevEntry) /\ Len(vdev') = Len(vdev) + 1
        /\ vdev'[1] = [name |-> "stdout", mountable |-> FALSE, fs |-> FALSE]
        /\ \A i \in 1 .. Len(vdev) : vdev'[i + 1] = vdev[i]
        /\ vfs' \in BootWorld /\ vfs'.got = B!NoNode /\ Owned' /\ Directories'
    BY <1>1, <2>1, ZenonT(60)
  <2>3. Len(vdev') = 2 /\ vdev'[2] = vdev[1]
    <3>1. Len(vdev) = 1 /\ 1 \in 1 .. 1 /\ 1 + 1 = 2
      BY <2>1 DEF BootInv, Devices
    <3> QED
      BY <2>2, <3>1
  <2>4. Devices'
    BY <2>1, <2>2, <2>3 DEF BootInv, Devices
  <2> QED
    BY <2>2, <2>4 DEF BootInv
<1>4. CASE B!dev_init_disk0
  <2>1. boot = "disk0" /\ boot' = "sfs_init" /\ B!add_dev("disk0", TRUE) /\ "disk0" \in B!Node
    BY <1>4, ZenonT(60) DEF B!dev_init_disk0, B!Node
  <2>2. /\ vdev' \in Seq(DevEntry) /\ Len(vdev') = Len(vdev) + 1
        /\ vdev'[1] = [name |-> "disk0", mountable |-> TRUE, fs |-> FALSE]
        /\ \A i \in 1 .. Len(vdev) : vdev'[i + 1] = vdev[i]
        /\ vfs' \in BootWorld /\ vfs'.got = B!NoNode /\ Owned' /\ Directories'
    BY <1>1, <2>1, ZenonT(60)
  <2>3. Len(vdev') = 3 /\ vdev'[2] = vdev[1] /\ vdev'[3] = vdev[2]
    <3>1. Len(vdev) = 2 /\ 1 \in 1 .. 2 /\ 2 \in 1 .. 2 /\ 1 + 1 = 2 /\ 2 + 1 = 3
      BY <2>1 DEF BootInv, Devices
    <3> QED
      BY <2>2, <3>1
  <2>4. Devices'
    BY <2>1, <2>2, <2>3 DEF BootInv, Devices
  <2> QED
    BY <2>2, <2>4 DEF BootInv
<1> QED
  BY <1>2, <1>3, <1>4

\* vfs_mount of SFS on disk0.
LEMMA MountStep == ASSUME BootInv, B!sfs_mount PROVE BootInv'
<1> USE DEF BootInv
<1>1. boot = "sfs_init" /\ boot' = "init_main" /\ vfs' = vfs
  BY DEF B!sfs_mount
<1>2. /\ Len(vdev) = 3 /\ DOMAIN vdev = 1 .. 3 /\ vdev \in Seq(DevEntry)
      /\ vdev[1] = [name |-> "disk0", mountable |-> TRUE, fs |-> FALSE]
      /\ vdev[2] = [name |-> "stdout", mountable |-> FALSE, fs |-> FALSE]
      /\ vdev[3] = [name |-> "stdin", mountable |-> FALSE, fs |-> FALSE]
  BY <1>1 DEF Devices
<1>3. vdev' = [i \in 1 .. 3 |->
                 IF vdev[i].name = "disk0" /\ vdev[i].mountable /\ ~vdev[i].fs
                 THEN [vdev[i] EXCEPT !.fs = TRUE] ELSE vdev[i]]
  BY <1>2 DEF B!sfs_mount
<1>4. /\ DOMAIN vdev' = 1 .. 3 /\ vdev'[2] = vdev[2] /\ vdev'[3] = vdev[3]
      /\ vdev'[1] = [vdev[1] EXCEPT !.fs = TRUE]
  <2>1. /\ vdev[1].name = "disk0" /\ vdev[1].mountable /\ ~vdev[1].fs
        /\ vdev[2].name # "disk0" /\ vdev[3].name # "disk0"
        /\ 1 \in 1 .. 3 /\ 2 \in 1 .. 3 /\ 3 \in 1 .. 3
    BY <1>2
  <2> QED
    BY <1>3, <2>1
<1>5. Mounted'
  BY <1>2, <1>4 DEF Mounted
<1>6. vdev' \in Seq(DevEntry)
  <2>1. vdev[1] \in DevEntry /\ vdev[2] \in DevEntry /\ vdev[3] \in DevEntry
    <3>1. 1 \in 1 .. Len(vdev) /\ 2 \in 1 .. Len(vdev) /\ 3 \in 1 .. Len(vdev)
      BY <1>2
    <3> QED
      BY <1>2, <3>1, ElementOfSeq, ZenonT(60)
  <2>2. [vdev[1] EXCEPT !.fs = TRUE] \in DevEntry
    BY <2>1, ZenonT(60) DEF DevEntry
  <2>3. \A i \in 1 .. 3 : vdev'[i] \in DevEntry
    <3>1. \A i \in 1 .. 3 : i = 1 \/ i = 2 \/ i = 3
      OBVIOUS
    <3> QED
      BY <1>4, <2>1, <2>2, <3>1, ZenonT(60)
  <2>4. vdev' \in [1 .. 3 -> DevEntry]
    BY <1>3, <2>3
  <2>5. 3 \in Nat
    OBVIOUS
  <2> HIDE DEF DevEntry
  <2> QED
    BY <2>4, <2>5, SeqDef, ZenonT(60)
<1>7. Devices'
  BY <1>1, <1>5, <1>6 DEF Devices
<1>8. Directories'
  BY <1>1 DEF Directories
<1>9. \A m : Listed(m)' <=> Listed(m)
  <2>1. \A i \in 1 .. 3 : vdev'[i].name = vdev[i].name
    BY <1>2, <1>4
  <2> QED
    BY <1>2, <1>4, <2>1 DEF Listed
<1>10. Owned'
  BY <1>1, <1>9 DEF Owned, One
<1> QED
  BY <1>1, <1>7, <1>8, <1>10

\* z is y but for the count of n, which is k more.
Counted(y, z, n, k) ==
    /\ z \in BootWorld
    /\ z.bootfs = y.bootfs /\ z.pwd = y.pwd /\ z.live = y.live /\ z.held = y.held
    /\ z.got = y.got
    /\ \A m \in B!Node : z.ref[m] = y.ref[m] + (IF m = n THEN k ELSE 0)

\* vop_ref_inc changes one count and nothing else.
LEMMA RefInc ==
    ASSUME NEW y \in BootWorld, NEW n \in B!Node
    PROVE  Counted(y, B!ref_inc(y, n), n, 1)
  BY DEF B!ref_inc, BootWorld, Counted

\* So does vop_ref_dec.
LEMMA RefDec ==
    ASSUME NEW y \in BootWorld, NEW n \in B!Node
    PROVE  Counted(y, B!ref_dec(y, n), n, -1)
  BY DEF B!ref_dec, BootWorld, Counted

\* z is y with initproc in the root, and the reference of its directory.
InRoot(y, z) ==
    /\ z \in BootWorld
    /\ z.bootfs = y.bootfs /\ z.live = y.live /\ z.held = y.held
    /\ z.pwd = [y.pwd EXCEPT ![1] = "root"]
    /\ \A m \in B!Node : z.ref[m] = y.ref[m] + (IF m = "root" THEN 1 ELSE 0)

\* vfs_chdir's counts: the lookup takes a reference, vfs_set_curdir takes one, and
\* the first is dropped.
LEMMA ChdirCounts ==
    ASSUME NEW y \in BootWorld, NEW y1, NEW y2, NEW y3, NEW y4,
           Took(y, y1, "root"), Counted(y1, y2, "root", 1),
           y3.bootfs = y2.bootfs, y3.live = y2.live, y3.held = y2.held,
           y3.pwd = [y2.pwd EXCEPT ![1] = "root"], y3.ref = y2.ref,
           Counted(y3, y4, "root", -1)
    PROVE  InRoot(y, y4)
<1>1. \A m \in B!Node : y.ref[m] \in Int /\ y1.ref[m] \in Int /\ y2.ref[m] \in Int
  BY DEF BootWorld, Took, Counted
<1>2. \A m \in B!Node : y4.ref[m] = y.ref[m] + (IF m = "root" THEN 1 ELSE 0)
  <2>1. /\ \A m \in B!Node : y1.ref[m] = y.ref[m] + (IF m = "root" THEN 1 ELSE 0)
        /\ \A m \in B!Node : y2.ref[m] = y1.ref[m] + (IF m = "root" THEN 1 ELSE 0)
        /\ \A m \in B!Node : y4.ref[m] = y2.ref[m] + (IF m = "root" THEN -1 ELSE 0)
    BY ZenonT(60) DEF Took, Counted
  <2> SUFFICES ASSUME NEW m \in B!Node
               PROVE  y4.ref[m] = y.ref[m] + (IF m = "root" THEN 1 ELSE 0)
    OBVIOUS
  <2>2. CASE m = "root"
    <3>1. y1.ref[m] = y.ref[m] + 1 /\ y2.ref[m] = y1.ref[m] + 1 /\ y4.ref[m] = y2.ref[m] + (-1)
      BY <2>1, <2>2
    <3>2. y.ref[m] \in Int /\ y1.ref[m] \in Int /\ y2.ref[m] \in Int
      BY <1>1
    <3>3. y4.ref[m] = y.ref[m] + 1
      BY <3>1, <3>2
    <3> QED
      BY <2>2, <3>3
  <2>3. CASE m # "root"
    <3>1. y1.ref[m] = y.ref[m] + 0 /\ y2.ref[m] = y1.ref[m] + 0 /\ y4.ref[m] = y2.ref[m] + 0
      BY <2>1, <2>3
    <3>2. y.ref[m] \in Int /\ y1.ref[m] \in Int /\ y2.ref[m] \in Int
      BY <1>1
    <3>3. y4.ref[m] = y.ref[m] + 0
      BY <3>1, <3>2
    <3> QED
      BY <2>3, <3>3
  <2> QED
    BY <2>2, <2>3
<1>3. /\ y4 \in BootWorld /\ y4.bootfs = y.bootfs /\ y4.live = y.live /\ y4.held = y.held
       /\ y4.pwd = [y.pwd EXCEPT ![1] = "root"]
  <2>1. y1.bootfs = y.bootfs /\ y1.live = y.live /\ y1.held = y.held /\ y1.pwd = y.pwd
    BY ZenonT(60) DEF Took
  <2>2. y2.bootfs = y1.bootfs /\ y2.live = y1.live /\ y2.held = y1.held /\ y2.pwd = y1.pwd
    BY ZenonT(60) DEF Counted
  <2>3. /\ y4 \in BootWorld /\ y4.bootfs = y3.bootfs /\ y4.live = y3.live /\ y4.held = y3.held
        /\ y4.pwd = y3.pwd
    BY ZenonT(60) DEF Counted
  <2> QED
    BY <2>1, <2>2, <2>3
<1> QED
  BY <1>2, <1>3, ZenonT(60) DEF InRoot

\* vfs_chdir of the first process to the root of disk0: one reference stays, that of
\* its working directory.
LEMMA ChdirRoot ==
    ASSUME NEW y \in BootWorld, Mounted, 1 \in Procs, y.pwd[1] = B!NoNode,
           NEW path \in B!Path, path.form = "device", path.dev = "disk0", path.rest = ""
    PROVE  InRoot(y, B!vfs_chdir(y, 1, path))
<1> DEFINE z == B!vfs_chdir(y, 1, path)
           y1 == B!vfs_lookup(y, 1, path)
           y2 == B!ref_inc(y1, "root")
           y3 == [y2 EXCEPT !.pwd[1] = "root"]
           y4 == B!ref_dec(y3, "root")
<1>1. "root" # B!NoNode /\ "root" \in B!Node /\ "root" \in Maybe
  BY ZenonT(60) DEF B!Node, B!NoNode, Maybe
<1>2. Took(y, y1, "root")
  <2>1. Start(y, 1, path) = "root"
    BY ZenonT(60) DEF Start, RootOf
  <2>2. Under("root", "") = "root"
    BY <1>1, ZenonT(60) DEF Under
  <2> QED
    BY <2>1, <2>2, TookLookup, ZenonT(60)
<1>3. z = y4
  <2>1. y1.got = "root" /\ y1.pwd[1] = B!NoNode
    BY <1>2, ZenonT(60) DEF Took
  <2>2. B!vfs_set_curdir(y1, 1, "root") = y3
    BY <1>1, <2>1, ZenonT(60) DEF B!vfs_set_curdir
  <2> QED
    BY <1>1, <2>1, <2>2, ZenonT(60) DEF B!vfs_chdir
<1> HIDE DEF y1
<1>4. y1 \in BootWorld
  BY <1>2, ZenonT(60) DEF Took
<1>5. Counted(y1, y2, "root", 1)
  BY <1>1, <1>4, RefInc, ZenonT(60)
<1> HIDE DEF y2
<1>6. y2 \in BootWorld /\ y2.pwd \in [Procs -> Maybe]
  BY <1>5, ZenonT(60) DEF Counted, BootWorld
<1>7. /\ y3 \in BootWorld /\ y3.bootfs = y2.bootfs /\ y3.live = y2.live /\ y3.held = y2.held
      /\ y3.pwd = [y2.pwd EXCEPT ![1] = "root"] /\ y3.ref = y2.ref
  BY <1>1, <1>6, ZenonT(60) DEF BootWorld
<1> HIDE DEF y3
<1>8. Counted(y3, y4, "root", -1)
  BY <1>1, <1>7, RefDec, ZenonT(60)
<1> HIDE DEF y4, z
<1>9. InRoot(y, y4)
  BY <1>2, <1>5, <1>7, <1>8, ChdirCounts, ZenonT(60)
<1> QED
  BY <1>3, <1>9, ZenonT(60) DEF z

\* init_main: vfs_set_bootfs leaves one reference for the directory of initproc and
\* one for the boot file system.
LEMMA MainStep == ASSUME B!BootAssumption, BootInv, B!init_main PROVE BootInv'
<1> USE DEF BootInv
<1> DEFINE path == [form |-> "device", dev |-> "disk0", rest |-> ""]
           z == B!vfs_chdir(vfs, 1, path)
           u == B!vfs_get_curdir(z, 1)
           v == [u EXCEPT !.bootfs = "root"]
<1>1. boot = "init_main" /\ boot' = "run" /\ vdev' = vdev /\ Mounted /\ 1 \in Procs
  BY DEF B!init_main, Devices, Procs, B!BootAssumption
<1>2. /\ vfs.bootfs = B!NoNode /\ vfs.held = B!NoNode /\ vfs.live = {1}
      /\ \A p \in Procs : vfs.pwd[p] = B!NoNode
  BY <1>1 DEF Directories
<1>3. path \in B!Path
  BY DEF B!Path, B!Form
<1>4. vfs' = [B!vfs_set_bootfs(vfs, 1, "disk0") EXCEPT !.got = B!NoNode]
  BY DEF B!init_main, B!Becomes
<1>5. B!vfs_set_bootfs(vfs, 1, "disk0") = IF u.got = B!NoNode THEN u ELSE B!change_bootfs(u, u.got)
  BY DEF B!vfs_set_bootfs
<1>6. /\ z \in BootWorld
      /\ z.bootfs = vfs.bootfs /\ z.live = vfs.live /\ z.held = vfs.held
      /\ z.pwd = [vfs.pwd EXCEPT ![1] = "root"]
      /\ \A m \in B!Node : z.ref[m] = vfs.ref[m] + (IF m = "root" THEN 1 ELSE 0)
  <2>1. path.form = "device" /\ path.dev = "disk0" /\ path.rest = "" /\ vfs.pwd[1] = B!NoNode
    BY <1>1, <1>2
  <2> HIDE DEF path
  <2>2. InRoot(vfs, z)
    BY <1>1, <1>3, <2>1, ChdirRoot, ZenonT(60)
  <2> QED
    BY <2>2, ZenonT(60) DEF InRoot
<1> HIDE DEF path, z
<1>7. vfs.pwd \in [Procs -> Maybe] /\ z.pwd[1] = "root"
  BY <1>1, <1>6 DEF BootWorld
<1>8. Took(z, u, "root")
  BY <1>1, <1>6, <1>7, TookCurdir
<1> HIDE DEF u
<1>9. B!vfs_set_bootfs(vfs, 1, "disk0") = v
  <2>1. u.got = "root" /\ u.bootfs = B!NoNode /\ "root" # B!NoNode
    BY <1>2, <1>6, <1>8 DEF Took, B!NoNode
  <2> QED
    BY <1>5, <2>1 DEF B!change_bootfs
<1>10. /\ v \in BootWorld /\ v.bootfs = "root" /\ v.live = {1} /\ v.held = B!NoNode
       /\ v.pwd = [vfs.pwd EXCEPT ![1] = "root"]
       /\ \A m \in B!Node : v.ref[m] = u.ref[m]
  <2>1. u \in BootWorld /\ "root" \in Maybe
    BY <1>8 DEF Took, Maybe, B!Node
  <2> QED
    BY <1>2, <1>6, <1>8, <2>1 DEF Took, BootWorld
<1>11. \A m \in B!Node : v.ref[m] = vfs.ref[m] + One(m = "root") + One(m = "root")
  BY <1>6, <1>8, <1>10 DEF Took, BootWorld, One
<1> HIDE DEF v
<1>12. /\ vfs' \in BootWorld /\ vfs'.got = B!NoNode
       /\ vfs'.bootfs = "root" /\ vfs'.live = {1} /\ vfs'.held = B!NoNode
       /\ vfs'.pwd = [vfs.pwd EXCEPT ![1] = "root"] /\ vfs'.ref = v.ref
  BY <1>4, <1>9, <1>10 DEF BootWorld, Maybe
<1>13. Devices'
  BY <1>1 DEF Devices, Mounted
<1>14. Directories'
  BY <1>1, <1>2, <1>7, <1>12 DEF Directories
<1>15. Owned'
  <2>1. \A m \in B!Node : Listed(m)' <=> Listed(m)
    BY <1>1 DEF Listed
  <2>2. Cardinality(Holders') = 1
    <3>1. Holders' = {1}
      BY <1>1, <1>2, <1>7, <1>12, ZenonT(60) DEF Holders, Procs, B!NoNode
    <3>2. Cardinality({1}) = 1
      BY FS_Singleton
    <3> QED
      BY <3>1, <3>2
  <2>3. \A m \in B!Node : /\ (vfs.bootfs = m) = FALSE /\ (vfs.held = m) = FALSE
                          /\ (vfs'.held = m) = FALSE
    BY <1>2, <1>12 DEF B!Node, B!NoNode
  <2> QED
    BY <1>1, <1>11, <1>12, <2>1, <2>2, <2>3 DEF Owned, One
<1> QED
  BY <1>12, <1>13, <1>14, <1>15

\* A step of a running system that keeps the device table.
Running == boot = "run" /\ boot' = "run" /\ vdev' = vdev

\* do_fork: the child has the parent's directory and a reference to it.
LEMMA ForkStep ==
    ASSUME B!BootAssumption, BootInv, NEW p \in Procs, NEW q \in Procs, B!do_fork(p, q)
    PROVE  BootInv'
<1> DEFINE y == B!ref_inc(vfs, "root")
<1>1. Running /\ p \in vfs.live /\ vfs.pwd[q] = B!NoNode /\ vfs.held = B!NoNode
  BY DEF B!do_fork, Running
<1>2. vfs.pwd[p] = "root" /\ "root" \in B!Node /\ "root" \in Maybe
  BY <1>1 DEF BootInv, Directories, Running, B!Node, Maybe
<1>3. vfs' = [[y EXCEPT !.pwd[q] = "root", !.live = @ \cup {q}] EXCEPT !.got = B!NoNode]
  BY <1>2 DEF B!do_fork, B!Becomes
<1>4. Counted(vfs, y, "root", 1)
  BY <1>2, RefInc DEF BootInv
<1> HIDE DEF y
<1>5. /\ vfs' \in BootWorld /\ vfs'.got = B!NoNode /\ vfs'.bootfs = y.bootfs /\ vfs'.held = y.held
      /\ vfs'.pwd = [y.pwd EXCEPT ![q] = "root"] /\ vfs'.live = y.live \cup {q}
      /\ vfs'.ref = y.ref
  <2>1. y \in BootWorld /\ B!NoNode \in Maybe
    BY <1>4 DEF Counted, Maybe
  <2> DEFINE z == [y EXCEPT !.pwd[q] = "root", !.live = @ \cup {q}]
  <2>2. /\ z \in BootWorld /\ z.bootfs = y.bootfs /\ z.held = y.held
        /\ z.pwd = [y.pwd EXCEPT ![q] = "root"] /\ z.live = y.live \cup {q} /\ z.ref = y.ref
    BY <1>2, <2>1, ZenonT(60) DEF BootWorld
  <2>3. vfs' = [z EXCEPT !.got = B!NoNode]
    BY <1>3
  <2> HIDE DEF z
  <2> QED
    BY <2>1, <2>2, <2>3 DEF BootWorld
<1>6. /\ y.bootfs = vfs.bootfs /\ y.pwd = vfs.pwd /\ y.live = vfs.live /\ y.held = vfs.held
      /\ \A m \in B!Node : y.ref[m] = vfs.ref[m] + (IF m = "root" THEN 1 ELSE 0)
  BY <1>4, ZenonT(60) DEF Counted
<1>7. Devices'
  BY <1>1 DEF BootInv, Devices, Mounted, Running
<1>8. Directories'
  <2>1. vfs.pwd \in [Procs -> Maybe]
    BY DEF BootInv, BootWorld
  <2> QED
    BY <1>1, <1>5, <1>6, <2>1 DEF BootInv, Directories, Running
<1>9. Owned'
  <2>1. \A m \in B!Node : Listed(m)' <=> Listed(m)
    BY <1>1 DEF Listed, Running
  <2>2. q \notin Holders /\ Holders' = Holders \cup {q} /\ Holders \in SUBSET Procs
    BY <1>1, <1>5, <1>6 DEF BootInv, BootWorld, Holders, B!NoNode
  <2>3. Cardinality(Holders') = Cardinality(Holders) + 1 /\ Cardinality(Holders) \in Nat
    <3>1. IsFiniteSet(Holders) /\ Cardinality(Holders) \in Nat
      BY <2>2, LiveFinite
    <3> QED
      BY <2>2, <3>1, FS_AddElement, ZenonT(60)
  <2> QED
    BY <1>1, <1>5, <1>6, <2>1, <2>3 DEF BootInv, Owned, One, Running, BootWorld
<1> QED
  BY <1>5, <1>7, <1>8, <1>9 DEF BootInv


\* do_exit with put_files: files_destroy drops the directory and its reference.
LEMMA ExitStep ==
    ASSUME B!BootAssumption, BootInv, NEW p \in Procs, B!do_exit(p, TRUE)
    PROVE  BootInv'
<1> DEFINE y == B!ref_dec(vfs, "root")
<1>1. Running /\ p \in vfs.live /\ vfs.held = B!NoNode
  BY DEF B!do_exit, Running
<1>2. vfs.pwd[p] = "root" /\ "root" \in B!Node /\ B!NoNode \in Maybe
  BY <1>1 DEF BootInv, Directories, Running, B!Node, Maybe
<1>3. vfs' = [[y EXCEPT !.pwd[p] = B!NoNode, !.live = @ \ {p}] EXCEPT !.got = B!NoNode]
  BY <1>2 DEF B!do_exit, B!Becomes
<1>4. Counted(vfs, y, "root", -1)
  BY <1>2, RefDec DEF BootInv
<1> HIDE DEF y
<1>5. /\ vfs' \in BootWorld /\ vfs'.got = B!NoNode /\ vfs'.bootfs = y.bootfs /\ vfs'.held = y.held
      /\ vfs'.pwd = [y.pwd EXCEPT ![p] = B!NoNode] /\ vfs'.live = y.live \ {p}
      /\ vfs'.ref = y.ref
  <2>1. y \in BootWorld
    BY <1>4 DEF Counted
  <2> DEFINE z == [y EXCEPT !.pwd[p] = B!NoNode, !.live = @ \ {p}]
  <2>2. /\ z \in BootWorld /\ z.bootfs = y.bootfs /\ z.held = y.held
        /\ z.pwd = [y.pwd EXCEPT ![p] = B!NoNode] /\ z.live = y.live \ {p} /\ z.ref = y.ref
    BY <1>2, <2>1, ZenonT(60) DEF BootWorld
  <2>3. vfs' = [z EXCEPT !.got = B!NoNode]
    BY <1>3
  <2> HIDE DEF z
  <2> QED
    BY <1>2, <2>2, <2>3 DEF BootWorld
<1>6. /\ y.bootfs = vfs.bootfs /\ y.pwd = vfs.pwd /\ y.live = vfs.live /\ y.held = vfs.held
      /\ \A m \in B!Node : y.ref[m] = vfs.ref[m] + (IF m = "root" THEN -1 ELSE 0)
  BY <1>4, ZenonT(60) DEF Counted
<1>7. Devices'
  BY <1>1 DEF BootInv, Devices, Mounted, Running
<1>8. Directories'
  <2>1. vfs.pwd \in [Procs -> Maybe]
    BY DEF BootInv, BootWorld
  <2> QED
    BY <1>1, <1>5, <1>6, <2>1 DEF BootInv, Directories, Running
<1>9. Owned'
  <2>1. \A m \in B!Node : Listed(m)' <=> Listed(m)
    BY <1>1 DEF Listed, Running
  <2>2. p \in Holders /\ Holders' = Holders \ {p} /\ Holders \in SUBSET Procs
    BY <1>2, <1>5, <1>6 DEF BootInv, BootWorld, Holders, B!NoNode
  <2>3. Cardinality(Holders') = Cardinality(Holders) - 1 /\ Cardinality(Holders) \in Nat
    <3>1. IsFiniteSet(Holders) /\ Cardinality(Holders) \in Nat
      BY <2>2, LiveFinite
    <3> QED
      BY <2>2, <3>1, FS_RemoveElement, ZenonT(60)
  <2> QED
    BY <1>1, <1>5, <1>6, <2>1, <2>3 DEF BootInv, Owned, One, Running, BootWorld
<1> QED
  BY <1>5, <1>7, <1>8, <1>9 DEF BootInv

\* Steps that leave directories alone and start no process: what they must say of the
\* counts is who holds one more.
LEMMA HeldStep ==
    ASSUME B!BootAssumption, BootInv, Running,
           vfs' \in BootWorld, vfs'.got = B!NoNode, vfs'.bootfs = vfs.bootfs,
           vfs'.pwd = vfs.pwd, vfs'.live \subseteq vfs.live,
           \A m \in B!Node : vfs'.ref[m] + One(vfs.held = m) = vfs.ref[m] + One(vfs'.held = m)
    PROVE  BootInv'
<1>1. Devices'
  BY DEF BootInv, Devices, Mounted, Running
<1>2. Directories'
  BY DEF BootInv, Directories, Running
<1>3. Owned'
  <2> SUFFICES ASSUME NEW m \in B!Node
               PROVE  vfs'.ref[m] = One(Listed(m)') + One(vfs'.bootfs = m) + One(vfs'.held = m)
                          + (IF boot' = "run" /\ m = "root" THEN Cardinality(Holders') ELSE 0)
    BY DEF Owned
  <2> DEFINE n == IF boot = "run" /\ m = "root" THEN Cardinality(Holders) ELSE 0
             n1 == IF boot' = "run" /\ m = "root" THEN Cardinality(Holders') ELSE 0
             l == One(Listed(m))
             s == One(vfs.bootfs = m)
             h == One(vfs.held = m)
             h1 == One(vfs'.held = m)
  <2>1. One(Listed(m)') = l
    BY DEF Listed, Running
  <2>2. One(vfs'.bootfs = m) = s /\ n1 = n
    BY DEF Running, Holders
  <2>3. vfs.ref[m] = l + s + h + n /\ vfs'.ref[m] + h = vfs.ref[m] + h1
    BY DEF BootInv, Owned
  <2>4. n \in Int
    BY LiveFinite, Holders \in SUBSET Procs DEF Holders
  <2>5. l \in Int /\ s \in Int /\ h \in Int /\ h1 \in Int /\ vfs.ref[m] \in Int /\ vfs'.ref[m] \in Int
    BY DEF One, BootInv, BootWorld
  <2> HIDE DEF l, s, h, h1, n, n1
  <2>6. vfs'.ref[m] = l + s + h1 + n
    BY <2>3, <2>4, <2>5
  <2> QED
    BY <2>1, <2>2, <2>6 DEF h1, n1
<1> QED
  BY <1>1, <1>2, <1>3 DEF BootInv


\* do_exit without put_files: the directory stays, and the reference to it.
LEMMA ExitKeeps ==
    ASSUME B!BootAssumption, BootInv, NEW p \in Procs, B!do_exit(p, FALSE)
    PROVE  BootInv'
<1>1. Running /\ vfs \in BootWorld
  BY DEF B!do_exit, Running, BootInv
<1>2. vfs' = [[vfs EXCEPT !.live = @ \ {p}] EXCEPT !.got = B!NoNode]
  BY DEF B!do_exit, B!Becomes
<1>3. /\ vfs' \in BootWorld /\ vfs'.got = B!NoNode /\ vfs'.bootfs = vfs.bootfs
      /\ vfs'.pwd = vfs.pwd /\ vfs'.live = vfs.live \ {p} /\ vfs'.held = vfs.held
      /\ vfs'.ref = vfs.ref
  BY <1>1, <1>2, ZenonT(60) DEF BootWorld, Maybe
<1>4. \A m \in B!Node : vfs'.ref[m] + One(vfs.held = m) = vfs.ref[m] + One(vfs'.held = m)
  BY <1>3
<1> QED
  BY <1>1, <1>3, <1>4, HeldStep

\* A call that looks up a path holds what it found, and the reference to it.
LEMMA LookupStep ==
    ASSUME B!BootAssumption, BootInv, NEW p \in Procs, NEW path \in B!Path, B!Lookup(p, path)
    PROVE  BootInv'
<1> DEFINE y == B!vfs_lookup(vfs, p, path)
           n == Under(Start(vfs, p, path), path.rest)
<1>1. Running /\ vfs.held = B!NoNode /\ Mounted /\ vfs \in BootWorld
  BY DEF B!Lookup, Running, BootInv, Devices
<1>2. vfs' = [y EXCEPT !.held = y.got, !.got = B!NoNode]
  BY DEF B!Lookup
<1>3. Took(vfs, y, n)
  BY <1>1, TookLookup
<1> HIDE DEF y, n
<1>4. /\ vfs' \in BootWorld /\ vfs'.got = B!NoNode /\ vfs'.bootfs = y.bootfs
      /\ vfs'.pwd = y.pwd /\ vfs'.live = y.live /\ vfs'.held = y.got /\ vfs'.ref = y.ref
  <2>1. y \in BootWorld /\ y.got \in Maybe /\ B!NoNode \in Maybe
    BY <1>3 DEF Took, BootWorld, Maybe
  <2> QED
    BY <1>2, <2>1, ZenonT(60) DEF BootWorld
<1>5. /\ y.bootfs = vfs.bootfs /\ y.pwd = vfs.pwd /\ y.live = vfs.live /\ y.got = n
      /\ \A m \in B!Node : y.ref[m] = vfs.ref[m] + (IF m = n THEN 1 ELSE 0)
  BY <1>3, ZenonT(60) DEF Took
<1>6. \A m \in B!Node : vfs'.ref[m] + One(vfs.held = m) = vfs.ref[m] + One(vfs'.held = m)
  <2>1. \A m \in B!Node : vfs.held # m /\ vfs.ref[m] \in Int /\ vfs'.ref[m] \in Int
    BY <1>1, <1>4 DEF BootWorld, B!Node, B!NoNode
  <2> QED
    BY <1>4, <1>5, <2>1 DEF One
<1> QED
  BY <1>1, <1>4, <1>5, <1>6, HeldStep

\* The end of the call drops it.
LEMMA DoneStep ==
    ASSUME B!BootAssumption, BootInv, B!Done
    PROVE  BootInv'
<1> DEFINE y == B!ref_dec(vfs, vfs.held)
<1>1. Running /\ vfs.held \in B!Node /\ vfs \in BootWorld
  BY DEF B!Done, Running, BootInv, Directories, BootWorld, Maybe
<1>2. vfs' = [[y EXCEPT !.held = B!NoNode] EXCEPT !.got = B!NoNode]
  BY DEF B!Done, B!Becomes
<1>3. Counted(vfs, y, vfs.held, -1)
  BY <1>1, RefDec
<1> HIDE DEF y
<1>4. /\ vfs' \in BootWorld /\ vfs'.got = B!NoNode /\ vfs'.bootfs = y.bootfs
      /\ vfs'.pwd = y.pwd /\ vfs'.live = y.live /\ vfs'.held = B!NoNode /\ vfs'.ref = y.ref
  <2>1. y \in BootWorld /\ B!NoNode \in Maybe
    BY <1>3 DEF Counted, Maybe
  <2> QED
    BY <1>2, <2>1, ZenonT(60) DEF BootWorld
<1>5. /\ y.bootfs = vfs.bootfs /\ y.pwd = vfs.pwd /\ y.live = vfs.live
      /\ \A m \in B!Node : y.ref[m] = vfs.ref[m] + (IF m = vfs.held THEN -1 ELSE 0)
  BY <1>3, ZenonT(60) DEF Counted
<1>6. \A m \in B!Node : vfs'.ref[m] + One(vfs.held = m) = vfs.ref[m] + One(vfs'.held = m)
  <2>1. \A m \in B!Node : vfs'.held # m /\ vfs.ref[m] \in Int /\ vfs'.ref[m] \in Int
    BY <1>1, <1>4 DEF BootWorld, B!Node, B!NoNode
  <2> QED
    BY <1>4, <1>5, <2>1 DEF One
<1> QED
  BY <1>1, <1>4, <1>5, <1>6, HeldStep

\* sysfile_getcwd gives back the reference it took.
LEMMA GetcwdStep ==
    ASSUME B!BootAssumption, BootInv, NEW p \in Procs, B!sysfile_getcwd(p)
    PROVE  BootInv'
<1> DEFINE y == B!vfs_get_curdir(vfs, p)
           z == B!ref_dec(y, "root")
<1>1. Running /\ p \in vfs.live /\ vfs \in BootWorld
  BY DEF B!sysfile_getcwd, Running, BootInv
<1>2. vfs.pwd[p] = "root" /\ "root" \in B!Node /\ "root" # B!NoNode
  BY <1>1 DEF BootInv, Directories, Running, B!Node, B!NoNode
<1>3. Took(vfs, y, "root")
  BY <1>1, <1>2, TookCurdir
<1>4. y.got = "root" /\ y \in BootWorld
  BY <1>3 DEF Took
<1>5. vfs' = [z EXCEPT !.got = B!NoNode]
  BY <1>2, <1>4 DEF B!sysfile_getcwd, B!Becomes, B!vfs_getcwd
<1> HIDE DEF y
<1>6. Counted(y, z, "root", -1)
  BY <1>2, <1>4, RefDec
<1> HIDE DEF z
<1>7. /\ vfs' \in BootWorld /\ vfs'.got = B!NoNode /\ vfs'.bootfs = z.bootfs
      /\ vfs'.pwd = z.pwd /\ vfs'.live = z.live /\ vfs'.held = z.held /\ vfs'.ref = z.ref
  <2>1. z \in BootWorld /\ B!NoNode \in Maybe
    BY <1>6 DEF Counted, Maybe
  <2> QED
    BY <1>5, <2>1 DEF BootWorld
<1>8. /\ z.bootfs = vfs.bootfs /\ z.pwd = vfs.pwd /\ z.live = vfs.live /\ z.held = vfs.held
      /\ \A m \in B!Node : y.ref[m] = vfs.ref[m] + (IF m = "root" THEN 1 ELSE 0)
      /\ \A m \in B!Node : z.ref[m] = y.ref[m] + (IF m = "root" THEN -1 ELSE 0)
  BY <1>3, <1>6, ZenonT(60) DEF Took, Counted
<1>9. \A m \in B!Node : vfs'.ref[m] + One(vfs.held = m) = vfs.ref[m] + One(vfs'.held = m)
  <2>1. \A m \in B!Node : vfs.ref[m] \in Int /\ y.ref[m] \in Int
    BY <1>1, <1>4 DEF BootWorld
  <2> QED
    BY <1>7, <1>8, <2>1 DEF One
<1> QED
  BY <1>1, <1>7, <1>8, <1>9, HeldStep

\* Every step of the VFS keeps its invariant.
LEMMA BootNext ==
    ASSUME B!BootAssumption, BootInv, [B!Next]_(B!vars)
    PROVE  BootInv'
<1>1. CASE B!dev_init_stdin \/ B!dev_init_stdout \/ B!dev_init_disk0
  BY <1>1, DevStep
<1>2. CASE B!sfs_mount
  BY <1>2, MountStep
<1>3. CASE B!init_main
  BY <1>3, MainStep
<1>4. CASE \E p, q \in Procs : B!do_fork(p, q)
  BY <1>4, ForkStep
<1>5. CASE \E p \in Procs, mm \in BOOLEAN : B!do_exit(p, mm)
  <2>1. PICK p \in Procs, mm \in BOOLEAN : B!do_exit(p, mm)
    BY <1>5
  <2>2. CASE mm = TRUE
    <3>1. B!do_exit(p, TRUE)
      BY <2>1, <2>2, ZenonT(60)
    <3> QED
      BY <3>1, ExitStep, ZenonT(60)
  <2>3. CASE mm = FALSE
    <3>1. B!do_exit(p, FALSE)
      BY <2>1, <2>3, ZenonT(60)
    <3> QED
      BY <3>1, ExitKeeps, ZenonT(60)
  <2> QED
    BY <2>1, <2>2, <2>3, ZenonT(60)
<1>6. CASE \E p \in Procs : \E path \in B!Path : B!Lookup(p, path)
  BY <1>6, LookupStep
<1>7. CASE \E p \in Procs : B!sysfile_getcwd(p)
  BY <1>7, GetcwdStep
<1>8. CASE B!Done
  BY <1>8, DoneStep
<1>9. CASE UNCHANGED B!vars
  <2>1. boot' = boot /\ vdev' = vdev /\ vfs' = vfs
    BY <1>9 DEF B!vars
  <2>2. Devices'
    BY <2>1 DEF BootInv, Devices, Mounted
  <2>3. Directories'
    BY <2>1 DEF BootInv, Directories
  <2>4. \A n \in B!Node : Listed(n)' <=> Listed(n)
    BY <2>1 DEF Listed
  <2>5. Owned'
    BY <2>1, <2>4 DEF BootInv, Owned, One, Holders
  <2> QED
    BY <2>1, <2>2, <2>3, <2>5 DEF BootInv
<1> QED
  BY <1>1, <1>2, <1>3, <1>4, <1>5, <1>6, <1>7, <1>8, <1>9 DEF B!Next, Procs


\* The counts of the inodes are those of their holders.
LEMMA BootOwned == ASSUME B!BootAssumption, BootInv PROVE B!RefsOwned
<1>1. \A T : B!Cardinality(T) = Cardinality(T)
  BY ZenonT(60) DEF B!Cardinality, Cardinality
<1>2. vfs \in BootWorld /\ vfs.live \subseteq Procs /\ vfs.live \in SUBSET Procs
  BY DEF BootInv, BootWorld
<1>3. ASSUME NEW n \in B!Node
      PROVE  vfs.ref[n] = B!Count(\E i \in DOMAIN vdev : vdev[i].name = n) + B!Count(vfs.bootfs = n)
                            + B!Cardinality({p \in 1 .. MaxProc : vfs.pwd[p] = n})
                            + B!Count(vfs.held = n)
  <2> DEFINE T == {p \in 1 .. MaxProc : vfs.pwd[p] = n}
             c == IF boot = "run" /\ n = "root" THEN Cardinality(Holders) ELSE 0
             l == One(Listed(n))
             s == One(vfs.bootfs = n)
             h == One(vfs.held = n)
  <2>1. n # B!NoNode
    BY DEF B!Node, B!NoNode
  <2>2. Cardinality(T) = c
    <3>1. CASE boot = "run" /\ n = "root"
      <4>1. T = Holders
        BY <3>1 DEF Holders, Procs
      <4> QED
        BY <3>1, <4>1
    <3>2. CASE ~(boot = "run" /\ n = "root")
      <4>1. T = {}
        BY <2>1, <3>2 DEF BootInv, Directories, Procs
      <4> QED
        BY <3>2, <4>1, FS_EmptySet
    <3> QED
      BY <3>1, <3>2
  <2>3. B!Cardinality(T) = c
    BY <1>1, <2>2
  <2>4. /\ B!Count(\E i \in DOMAIN vdev : vdev[i].name = n) = l
        /\ B!Count(vfs.bootfs = n) = s /\ B!Count(vfs.held = n) = h
    BY DEF B!Count, One, Listed
  <2>5. vfs.ref[n] = l + s + h + c
    BY DEF BootInv, Owned
  <2>6. c \in Int
    BY LiveFinite, Holders \in SUBSET Procs DEF Holders
  <2>7. l \in Int /\ s \in Int /\ h \in Int
    BY DEF One
  <2> HIDE DEF T, c, l, s, h
  <2>8. vfs.ref[n] = l + s + c + h
    BY <2>5, <2>6, <2>7
  <2> QED
    BY <2>3, <2>4, <2>8, ZenonT(60) DEF T
<1>4. boot = "run" => vfs.bootfs = "root" /\ \A p \in vfs.live : vfs.pwd[p] = "root"
  BY <1>2 DEF BootInv, Directories
<1> QED
  BY <1>3, <1>4, ZenonT(60) DEF B!RefsOwned

\* A path leads where its form says.
LEMMA BootLookups == ASSUME B!BootAssumption, BootInv PROVE B!LookupsRight
<1> SUFFICES ASSUME boot = "run", NEW p \in vfs.live, NEW path \in B!Path
             PROVE  B!vfs_lookup(vfs, p, path).got =
                        IF path.form = "device" /\ path.dev # "disk0"
                        THEN IF path.dev = "stdin" /\ path.rest = "" THEN "stdin" ELSE B!NoNode
                        ELSE CASE path.rest = "" -> "root"
                               [] path.rest = "file" -> "file"
                               [] path.rest = "missing" -> B!NoNode
  BY ZenonT(60) DEF B!LookupsRight
<1>1. vfs \in BootWorld /\ Mounted /\ p \in Procs /\ vfs.pwd[p] = "root" /\ vfs.bootfs = "root"
  BY DEF BootInv, BootWorld, Devices, Directories
<1>2. B!vfs_lookup(vfs, p, path).got = Under(Start(vfs, p, path), path.rest)
  BY <1>1, TookLookup DEF Took
<1>3. /\ path.form \in {"relative", "boot", "colon", "device"}
      /\ path.dev \in {"stdin", "disk0", "none"} /\ path.rest \in {"", "file", "missing"}
  BY ZenonT(60) DEF B!Path, B!Form
<1>4. Start(vfs, p, path) = IF path.form = "device" THEN RootOf(path.dev) ELSE "root"
  BY <1>1, <1>3, ZenonT(60) DEF Start, B!NoNode
<1> DEFINE n == Under(Start(vfs, p, path), path.rest)
<1>5. CASE path.form # "device"
  <2>1. n = Under("root", path.rest)
    BY <1>4, <1>5
  <2> QED
    BY <1>2, <1>3, <1>5, <2>1, ZenonT(60) DEF Under, B!NoNode
<1>6. CASE path.form = "device" /\ path.dev = "none"
  <2>1. n = B!NoNode
    BY <1>4, <1>6 DEF Under, RootOf, B!NoNode
  <2> QED
    BY <1>2, <1>3, <1>6, <2>1, ZenonT(60)
<1>7. CASE path.form = "device" /\ path.dev = "stdin"
  <2>1. n = Under("stdin", path.rest)
    BY <1>4, <1>7 DEF RootOf
  <2> QED
    BY <1>2, <1>3, <1>7, <2>1, ZenonT(60) DEF Under, B!NoNode
<1>8. CASE path.form = "device" /\ path.dev = "disk0"
  <2>1. n = Under("root", path.rest)
    BY <1>4, <1>8 DEF RootOf
  <2> QED
    BY <1>2, <1>3, <1>8, <2>1, ZenonT(60) DEF Under, B!NoNode
<1> QED
  BY <1>3, <1>5, <1>6, <1>7, <1>8, ZenonT(60)

\* From boot on, however many processes fork, exit, look up paths and ask for their
\* directory: every reference has its owner and every path leads where it says.
THEOREM BootExact == ASSUME B!BootAssumption PROVE B!Spec => [](B!RefsOwned /\ B!LookupsRight)
<1>1. B!Init => BootInv
  BY BootInit
<1>2. BootInv /\ [B!Next]_(B!vars) => BootInv'
  BY BootNext
<1>3. BootInv => B!RefsOwned /\ B!LookupsRight
  BY BootOwned, BootLookups
<1> QED
  BY <1>1, <1>2, <1>3, PTL DEF B!Spec

=============================================================================
