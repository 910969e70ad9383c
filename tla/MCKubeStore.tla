---------------------------- MODULE MCKubeStore ----------------------------
(***************************************************************************)
(* Two objects.  FixedMacs: each has an address of its own and keeps it.   *)
(* FreeMacs: operators may give the first one the address of the other, or *)
(* one that does not parse.                                                *)
(***************************************************************************)
EXTENDS KubeStore, TLC

CONSTANTS o1, o2, m1, m2, bad

Names == <<o1, o2>>

FixedMacs == o1 :> {m1} @@ o2 :> {m2}
FreeMacs == o1 :> {m1, m2, bad} @@ o2 :> {m2}
=============================================================================
