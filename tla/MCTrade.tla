------------------------------- MODULE MCTrade -------------------------------
(***************************************************************************)
(* Instances of Trade for TLC.  MCTrade.cfg: two users with two slots each *)
(* and an item to move between them, two letters that may overlap, and a   *)
(* connection that closes; the sum of the users' money wraps.              *)
(* MCTradeThree.cfg: three users with a slot each, which may be full, and  *)
(* two connections that close; no letters, which touch no info.            *)
(* MCTradeLock.cfg: two users with a slot each, and a letter.              *)
(***************************************************************************)
EXTENDS Trade, TLC

MCSymmetry == Permutations(User) \cup Permutations(Position) \cup Permutations(Item)
=============================================================================
