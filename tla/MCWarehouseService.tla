------------------------- MODULE MCWarehouseService -------------------------
(***************************************************************************)
(* Bounded instances of WarehouseService for TLC.                          *)
(***************************************************************************)
EXTENDS WarehouseService, TLC

CONSTANTS manager, viewer

MCUsers == {manager, viewer}
MCOneUser == {manager}
MCWriters == {manager}

\* Requests are interchangeable.
MCSymmetry == Permutations(Requests)
=============================================================================
