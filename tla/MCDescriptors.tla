---------------------------- MODULE MCDescriptors ----------------------------
(* Descriptors with the bounds of its run.                                  *)
EXTENDS Descriptors

Plain == [role |-> "client", protocol |-> "tcp", local |-> FALSE, device |-> FALSE, cport |-> FALSE,
          tuned |-> FALSE, file |-> FALSE, endsAgain |-> FALSE]

\* Every option at least once on each side that knows it, and both protocols.
MCTests ==
  {[Plain EXCEPT !.protocol = p, !.local = l, !.cport = TRUE, !.file = ~l, !.endsAgain = l] :
     p \in {"tcp", "udp"}, l \in BOOLEAN}
  \cup {[Plain EXCEPT !.role = "server", !.protocol = p, !.tuned = t] :
          p \in {"tcp", "udp"}, t \in BOOLEAN}
  \cup {[Plain EXCEPT !.role = r, !.local = TRUE, !.device = TRUE] : r \in Roles}
=============================================================================
