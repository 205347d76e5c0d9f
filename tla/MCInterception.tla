--------------------------- MODULE MCInterception ---------------------------
(***************************************************************************)
(* A small instance of Interception: one daemon that is started four       *)
(* times, and two tasks that ask for leaves of two hosts while it runs.    *)
(***************************************************************************)
EXTENDS Interception, TLC

CONSTANTS d1, k1, k2, k3, k4, t1, t2

OneDaemon == {d1}
FourKeys  == {k1, k2, k3, k4}
TwoTasks  == {t1, t2}

KeysAndTasks == Permutations(FourKeys) \cup Permutations(TwoTasks)
=============================================================================
