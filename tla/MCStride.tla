------------------------------ MODULE MCStride ------------------------------
(* Stride with interchangeable processes. *)
EXTENDS Stride, TLC

Symmetry == Permutations(Proc)

\* The pool is a heap of exactly the runnable processes with parent pointers that
\* agree, and their strides lie within BIG_STRIDE of each other, so that
\* proc_stride_comp_f orders them although they wrap round.
PoolSound == PoolExact /\ Spread

=============================================================================
