--------------------------- MODULE MCLiveDelivery ---------------------------
(***************************************************************************)
(* LiveDelivery for TLC.  The sockets are interchangeable, since nothing   *)
(* of the module tells one from another; only MCLiveSessions.cfg, which    *)
(* has two and checks no liveness, makes use of it.                        *)
(***************************************************************************)
EXTENDS LiveDelivery, TLC

SocketSymmetry == Permutations(Sockets)
=============================================================================
