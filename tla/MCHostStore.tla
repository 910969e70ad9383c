---------------------------- MODULE MCHostStore ----------------------------
(***************************************************************************)
(* Files of none, one and two entries, one of them with an address that    *)
(* is listed twice.                                                        *)
(***************************************************************************)
EXTENDS HostStore

CONSTANT m1

Entry(m, r) == [mac |-> m, rec |-> r]

Files ==
  {<<>>,
   <<Entry(m1, "online")>>,
   <<Entry(m1, "online"), Entry(m1, "parked")>>}
=============================================================================
