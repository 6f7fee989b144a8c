----------------------------- MODULE SharedLog -----------------------------
(***************************************************************************)
(* What journal storage promises clients that share one journal: a log that *)
(* only grows, to which a client adds only what follows a log it has seen   *)
(* to the end, and of which every client sees a prefix.  A record is known  *)
(* by the client that wrote it.                                             *)
(***************************************************************************)
EXTENDS Naturals, Sequences, SequencesExt

CONSTANTS Clients, None

VARIABLES
  log,   \* the records
  view   \* what each client knows of it; None before it has read it

logVars == <<log, view>>

LogInit == log \in Seq(Clients) /\ view = [c \in Clients |-> None]

(* The client reads the log, or has read it some time ago. *)
Learn(c) ==
  /\ view[c] = None
  /\ \E n \in 0 .. Len(log) : view' = [view EXCEPT ![c] = SubSeq(log, 1, n)]
  /\ UNCHANGED log

Write(c) ==
  /\ view[c] = log
  /\ log' = Append(log, c)
  /\ UNCHANGED view

(* The client hears of a write of its own. *)
Hear(c) ==
  /\ view[c] # None
  /\ IsPrefix(Append(view[c], c), log)
  /\ view' = [view EXCEPT ![c] = Append(@, c)]
  /\ UNCHANGED log

Forget(c) ==
  /\ view' = [view EXCEPT ![c] = None]
  /\ UNCHANGED log

LogNext == \E c \in Clients : Learn(c) \/ Write(c) \/ Hear(c) \/ Forget(c)

LogSpec == LogInit /\ [][LogNext]_logVars
=============================================================================
