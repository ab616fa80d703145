----------------------------- MODULE MCSession -----------------------------
(* Sessions, their forks and the forks of these; ids are interchangeable.  *)
(* Lines that change nothing (a name taken away where there is none, a     *)
(* lane moved where it stands) only take numbers: they come early.         *)
EXTENDS SessionFork, TLC

Symmetry == Permutations(Ids)

Idles == st' = [st EXCEPT !.sequence = @ + 1]

SessionNext == (Next /\ (Idles => st.sequence <= 1)) \/ \E o \in ForkOptions : Fork(o)

SessionSpec == Init /\ [][SessionNext]_vars
=============================================================================
