------------------------ MODULE MCIdentityLifecycle ------------------------
(***************************************************************************)
(* Instances of IdentityLifecycle: identities are interchangeable, and     *)
(* looks are told apart (NoneNear) or not (AllNear).                       *)
(***************************************************************************)
EXTENDS IdentityLifecycle, TLC

IdSymmetry == Permutations(Ids)

NoneNear == {}

AllNear == Looks \X Looks
=============================================================================
