----------------------------- MODULE MCLongPoll -----------------------------
(***************************************************************************)
(* Small instances of LongPoll for TLC.                                     *)
(***************************************************************************)
EXTENDS LongPoll, TLC

CONSTANTS u1, u2, p1, p2, l1, w1, w2

OwnUser == p1 :> u1 @@ p2 :> u2
OneUser == p1 :> u1
OneUserTwice == p1 :> u1 @@ p2 :> u1
EitherUser == {{u1}, {u2}}
OnlyFirst == {{u1}}
RemoteSymmetry == Permutations(RemoteWriters)
=============================================================================
