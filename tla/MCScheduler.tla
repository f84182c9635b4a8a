----------------------------- MODULE MCScheduler -----------------------------
(* Three changes of three flags, two of them in one environment; or two    *)
(* changes of two flags, in two environments or in one.                    *)
EXTENDS Scheduler, TLC
CONSTANTS c1, c2, c3, f1, f2, f3, e1, e2

FlagOfThree == c1 :> f1 @@ c2 :> f2 @@ c3 :> f3
AtThree == c1 :> 0 @@ c2 :> 1 @@ c3 :> 1
FlagOfTwo == c1 :> f1 @@ c2 :> f2
AtTwo == c1 :> 0 @@ c2 :> 1
HomeOfThree == f1 :> e1 @@ f2 :> e2 @@ f3 :> e1
Apart == f1 :> e1 @@ f2 :> e2
Together == f1 :> e1 @@ f2 :> e1
=============================================================================
