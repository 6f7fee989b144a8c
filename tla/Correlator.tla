----------------------------- MODULE Correlator -----------------------------
(***************************************************************************)
(* `Correlator` of crates/protocol-msp: command numbers of the requests     *)
(* that wait for a reply, oldest first, and of the last one answered.       *)
(***************************************************************************)
EXTENDS Optional, Sequences, SequencesExt

NewCorrelator == [outstanding |-> <<>>, last |-> None]

OnRequest(c, command) == [c EXCEPT !.outstanding = Append(@, command)]

ReplyClass(c, command) ==
  IF c.outstanding # <<>> /\ Head(c.outstanding) = command THEN "Expected"
  ELSE IF command \in ToSet(c.outstanding) THEN "OutOfOrder"
  ELSE IF c.last = command THEN "Duplicate" ELSE "Unsolicited"

(* Only an expected reply changes what is outstanding. *)
OnReply(c, command) ==
  IF ReplyClass(c, command) = "Expected"
    THEN [outstanding |-> Tail(c.outstanding), last |-> command]
    ELSE c
=============================================================================
