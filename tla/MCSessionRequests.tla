-------------------------- MODULE MCSessionRequests --------------------------
(***************************************************************************)
(* Instances of SessionRequests for TLC: requests and sessions are         *)
(* interchangeable.                                                        *)
(***************************************************************************)
EXTENDS SessionRequests, TLC

Interchangeable == Permutations(Request) \cup Permutations(Session)

NoDeletes == AllKinds \ {"delete"}
MessagesOnly == {"create", "send", "stream"}
=============================================================================
