--------------------------- MODULE IoCoordinator ---------------------------
(***************************************************************************)
(* The request ids of crates/runtime-ports: what `IoCoordinator` promises   *)
(* its owner is that an answer is consumed once, by the request it is for.  *)
(* The code keeps two lanes, transport and storage, which share the id      *)
(* counter; every owner in the repository uses one lane, the one kept here. *)
(***************************************************************************)
EXTENDS Optional, Naturals

CONSTANT
  MaxRequestId \* stands for u64::MAX, the id that is never handed out

ASSUME RequestIdAssumption == MaxRequestId \in Nat \ {0}

Requests(kinds) == [id : 1 .. MaxRequestId, kind : kinds]

Coordinators(kinds) ==
  [nextId : 1 .. MaxRequestId, awaited : Requests(kinds) \cup {None}]

NewCoordinator == [nextId |-> 1, awaited |-> None]

(* One request at a time, and `checked_add` must succeed. *)
CanBegin(c) == c.awaited = None /\ c.nextId < MaxRequestId

Begin(c, kind) ==
  [nextId |-> c.nextId + 1, awaited |-> [id |-> c.nextId, kind |-> kind]]

(* Mutant: any answer of the right kind is taken for the awaited one. *)
AnswersKindOnly(c, a) == c.awaited # None /\ c.awaited.kind = a.kind

(* `accept` refuses every other answer and changes nothing then. *)
Answers(c, a) ==
  /\ c.awaited # None
  /\ c.awaited.id = a.id
  /\ c.awaited.kind = a.kind

Consumed(c) == [c EXCEPT !.awaited = None]
=============================================================================
