-------------------------- MODULE MCEffectJournal --------------------------
(***************************************************************************)
(* The shared journal for TLC: two tabs, and an origin that holds nothing,  *)
(* or a journal that is whole, torn, corrupt or longer than the bound.      *)
(***************************************************************************)
EXTENDS EffectJournal

CONSTANTS one, two

MCInitialBytes ==
  {Clean(<<>>), Clean(<<one>>), Clean([i \in 1 .. MaxRecords + 1 |-> one]),
   [events |-> <<one>>, tail |-> "torn"],
   [events |-> <<two>>, tail |-> "corrupt"]}
=============================================================================
