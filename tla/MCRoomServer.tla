----------------------------- MODULE MCRoomServer -----------------------------
(* Small instances of RoomServer for TLC: see the README for the bounds. *)
EXTENDS RoomServer, TLC

\* Requests and users are interchangeable; only safety runs use it, and the
\* users only while each has the same standing in xbtusers.
RequestSymmetry == Permutations(Reqs) \cup Permutations(Users)
=============================================================================
