---------------------------- MODULE StrideProofs ----------------------------
(* Proofs about the stride scheduler, for any number of processes. *)
EXTENDS StrideQueue, TLAPS

\* Every leaf has time enough on a busy machine.
USE SMTT(20), ZenonT(30), SMTT(60), SMTT(61)

\* The strides of runnable processes lie in a window of BIG_STRIDE that starts
\* at b and may wrap round.
Window(b) == \A p \in Waiting : Minus(stride[p], b) <= BIG_STRIDE

Inv ==
    /\ TypeOK
    /\ current \notin pool
    /\ \E b \in 0..(Modulus - 1) : Window(b)

\* The comparison is right inside a window: it says which stride is the closer
\* to the start.
LEMMA CompareInWindow ==
    ASSUME NEW b \in 0..(Modulus - 1), NEW x \in 0..(Modulus - 1),
           NEW y \in 0..(Modulus - 1),
           Minus(x, b) <= BIG_STRIDE, Minus(y, b) <= BIG_STRIDE
    PROVE  AtMost(x, y) <=> Minus(x, b) <= Minus(y, b)
  BY StrideAssumption DEF AtMost, Minus

\* At the start there is no runnable process.
LEMMA InitInv == Init => Inv
<1> SUFFICES ASSUME Init PROVE Inv
  OBVIOUS
<1>1. TypeOK
  BY StrideAssumption DEF Init, TypeOK
<1>2. 0 \in 0..(Modulus - 1) /\ Window(0)
  BY StrideAssumption DEF Init, Window, Waiting
<1> QED
  BY <1>1, <1>2 DEF Inv, Init

\* A process that arrives while all strides are 0 stays in the window that
\* starts there.
LEMMA ArriveStep ==
    ASSUME Inv, NEW p \in Proc, Arrive(p)
    PROVE  Inv'
<1>1. TypeOK'
  BY DEF Inv, TypeOK, Arrive
<1>2. (current \notin pool)'
  BY StrideAssumption DEF Inv, TypeOK, Arrive, Waiting
<1>3. 0 \in 0..(Modulus - 1) /\ Window(0)'
  BY StrideAssumption DEF Inv, TypeOK, Arrive, Window, Waiting, Minus
<1> QED
  BY <1>1, <1>2, <1>3 DEF Inv

\* schedule() moves the window to the stride of the process it picks.
LEMMA RunStep ==
    ASSUME Inv, NEW p \in Proc, NEW pass \in 1..BIG_STRIDE, Run(p, pass)
    PROVE  Inv'
<1>1. PICK b \in 0..(Modulus - 1) : Window(b)
  BY DEF Inv
<1>2. Waiting \subseteq Proc /\ p \in Waiting /\ Waiting' = Waiting
  BY StrideAssumption DEF Inv, TypeOK, Run, Waiting
<1>3. stride[p] \in 0..(Modulus - 1)
  BY DEF Inv, TypeOK
<1>4. Plus(stride[p], pass) \in 0..(Modulus - 1)
  BY <1>3, StrideAssumption DEF Plus
<1>5. TypeOK'
  BY <1>2, <1>4 DEF Inv, TypeOK, Run
<1>6. (current \notin pool)'
  BY DEF Run
<1>7. ASSUME NEW q \in Waiting
      PROVE  Minus(stride'[q], stride[p]) <= BIG_STRIDE
  <2>1. stride[q] \in 0..(Modulus - 1)
    BY <1>2 DEF Inv, TypeOK
  <2>2. Minus(stride[p], b) <= BIG_STRIDE /\ Minus(stride[q], b) <= BIG_STRIDE
    BY <1>1, <1>2 DEF Window
  <2>3. AtMost(stride[p], stride[q])
    BY DEF Run
  <2>4. Minus(stride[p], b) <= Minus(stride[q], b)
    BY <1>3, <2>1, <2>2, <2>3, CompareInWindow
  <2>5. CASE q = p
    <3>1. stride'[q] = Plus(stride[p], pass)
      BY <2>5 DEF Run, Inv, TypeOK
    <3> QED
      BY <3>1, <1>3, StrideAssumption DEF Plus, Minus
  <2>6. CASE q # p
    <3>1. stride'[q] = stride[q]
      BY <2>6, <1>2 DEF Run, Inv, TypeOK
    <3> QED
      BY <3>1, <1>3, <2>1, <2>2, <2>4, StrideAssumption DEF Minus
  <2> QED
    BY <2>5, <2>6
<1>8. PICK c \in 0..(Modulus - 1) : c = stride[p]
  BY <1>3
<1>9. Window(c)'
  BY <1>2, <1>7, <1>8 DEF Window
<1> QED
  BY <1>5, <1>6, <1>9 DEF Inv

\* The invariant holds in every reachable state.
THEOREM InvCorrect == Spec => []Inv
<1>1. Inv /\ [Next]_qvars => Inv'
  <2> SUFFICES ASSUME Inv, [Next]_qvars PROVE Inv'
    OBVIOUS
  <2>1. CASE UNCHANGED qvars
    BY <2>1 DEF qvars, Inv, TypeOK, Window, Waiting
  <2> QED
    BY <2>1, ArriveStep, RunStep DEF Next
<1> QED
  BY InitInv, <1>1, PTL DEF Spec

\* Strides stay unsigned integers.
THEOREM StrideTypeOK == Spec => []TypeOK
  BY InvCorrect, PTL DEF Inv

\* The strides of runnable processes never drift more than BIG_STRIDE apart.
THEOREM StrideSpread == Spec => []Spread
<1>1. Inv => Spread
  <2> SUFFICES ASSUME Inv, NEW p \in Waiting, NEW q \in Waiting
               PROVE  \/ Minus(stride[p], stride[q]) <= BIG_STRIDE
                      \/ Minus(stride[q], stride[p]) <= BIG_STRIDE
    BY DEF Spread
  <2>1. PICK b \in 0..(Modulus - 1) : Window(b)
    BY DEF Inv
  <2>2. stride[p] \in 0..(Modulus - 1) /\ stride[q] \in 0..(Modulus - 1)
    BY DEF Inv, TypeOK, Waiting
  <2> QED
    BY <2>1, <2>2, StrideAssumption DEF Window, Minus
<1> QED
  BY InvCorrect, <1>1, PTL

\* proc_stride_comp_f is a total order on the runnable processes, although it
\* compares integers that wrap round.
THEOREM StrideOrdered == Spec => []Ordered
<1>1. Inv => Ordered
  <2> SUFFICES ASSUME Inv PROVE Ordered
    OBVIOUS
  <2>1. PICK b \in 0..(Modulus - 1) : Window(b)
    BY DEF Inv
  <2>2. ASSUME NEW p \in Waiting
        PROVE  /\ stride[p] \in 0..(Modulus - 1)
               /\ Minus(stride[p], b) <= BIG_STRIDE
               /\ Minus(stride[p], b) \in Int
    BY <2>1, StrideAssumption DEF Inv, TypeOK, Waiting, Window, Minus
  <2>3. \A p, q \in Waiting :
            AtMost(stride[p], stride[q]) <=> Minus(stride[p], b) <= Minus(stride[q], b)
    BY <2>2, CompareInWindow
  <2> QED
    BY <2>2, <2>3 DEF Ordered
<1> QED
  BY InvCorrect, <1>1, PTL

=============================================================================
