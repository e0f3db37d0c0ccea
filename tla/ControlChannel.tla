---------------------------- MODULE ControlChannel ----------------------------
(***************************************************************************)
(* The control connection as bytes: states, JSON messages and integers are *)
(* written in one piece and read in any pieces, by Nread with its timeout, *)
(* and iperf_sync_close_socket drains it before the socket is closed.      *)
(*                                                                         *)
(* A byte is <<the message it belongs to, its place there>>.  JSON_write   *)
(* sends the length first.  TCP keeps order and loses nothing, but a       *)
(* socket closed with bytes unread, or written to after it was closed,     *)
(* resets the connection, and then the other side may not get the rest.    *)
(***************************************************************************)
EXTENDS Integers, Sequences, SequencesExt

CONSTANTS
  LengthSize, BodySize, IntSize  \* bytes of a length, a JSON text, an integer

ASSUME SizesAssumption == {LengthSize, BodySize, IntSize} \subseteq Nat \ {0}

Sides == {"client", "server"}
Peer(s) == IF s = "client" THEN "server" ELSE "client"

VARIABLES
  wire,   \* per side: the bytes it has not read yet
  shut,   \* sides that will not write any more (SHUT_WR)
  closed, \* sides that have closed their socket
  reset,  \* sides that have got, or will get, a reset
  got,    \* per side: what the Nread that is under way has
  ended,  \* per side: "no", or why it has returned early: "short" (timeout, end) or "error"
  late,   \* history: a side was too late for an Nread of the other, or the path broke
  sent,   \* history: per side: the messages written,
  heard   \* history: and those read

channelVars == <<wire, shut, closed, reset, got, ended, late, sent, heard>>
readVars == <<got, ended, late>>

Bytes(name, n) == [k \in 1..n |-> <<name, k>>]

Control(st) == Bytes(st, 1)
Json(name) == Bytes("length", LengthSize) \o Bytes(name, BodySize)
Integer(name) == Bytes(name, IntSize)

ChannelInit ==
  /\ wire = [s \in Sides |-> <<>>]
  /\ shut = {} /\ closed = {} /\ reset = {}
  /\ got = [s \in Sides |-> <<>>]
  /\ ended = [s \in Sides |-> "no"]
  /\ late = FALSE
  /\ sent = [s \in Sides |-> <<>>]
  /\ heard = [s \in Sides |-> <<>>]
-----------------------------------------------------------------------------
\* Nwrite: a reset is seen by the first write after it.
CanWrite(s) == s \notin reset

Writes(s, names, bytes) ==
  /\ CanWrite(s)
  /\ sent' = [sent EXCEPT ![s] = @ \o names]
  /\ IF Peer(s) \in closed
       THEN reset' = reset \cup {s} /\ wire' = wire
       ELSE reset' = reset /\ wire' = [wire EXCEPT ![Peer(s)] = @ \o bytes]

\* One turn of Nread, which wants size bytes.
Receives(s, size) ==
  /\ ended[s] = "no" /\ Len(got[s]) < size
  /\ \E n \in 1..size - Len(got[s]) :
       /\ n <= Len(wire[s])
       /\ got' = [got EXCEPT ![s] = @ \o SubSeq(wire[s], 1, n)]
       /\ wire' = [wire EXCEPT ![s] = SubSeq(@, n + 1, Len(@))]
  /\ UNCHANGED <<shut, closed, reset, ended, late, sent, heard>>

\* It returns early: at the end of the stream, when its time is over, at a reset.
AtEnd(s) == wire[s] = <<>> /\ Peer(s) \in shut

ReturnsEarly(s, size) ==
  /\ ended[s] = "no" /\ Len(got[s]) < size
  /\ \/ ended' = [ended EXCEPT ![s] = "short"] /\ late' = (late \/ ~AtEnd(s))
     \/ s \in reset /\ ended' = [ended EXCEPT ![s] = "error"] /\ UNCHANGED late
  /\ UNCHANGED <<wire, shut, closed, reset, got, sent, heard>>

Returned(s, size) == ended[s] # "no" \/ Len(got[s]) = size

\* What the caller does with it, who then has no read under way.
ReadIsOver(s) == got' = [got EXCEPT ![s] = <<>>] /\ ended' = [ended EXCEPT ![s] = "no"] /\ late' = late

AnyLength(s, bytes) == ended[s] # "error" /\ Len(got[s]) >= LengthSize \* mutant

\* JSON_read accepts only as many bytes as the length has announced.
Whole(s, bytes) == ended[s] = "no" /\ got[s] = bytes

Hears(s, names) == heard' = [heard EXCEPT ![s] = @ \o names]
-----------------------------------------------------------------------------
\* iperf_sync_close_socket: no more writing, reading until nothing comes, close.
Shuts(s) == shut' = shut \cup {s}

Drains(s) ==
  /\ wire[s] # <<>>
  /\ wire' = [wire EXCEPT ![s] = <<>>]
  /\ UNCHANGED <<shut, closed, reset, readVars, sent, heard>>

AtOnce(s) == TRUE \* mutant

\* The last Nread of the loop has got nothing.
Drained(s) == wire[s] = <<>>

\* close(2), whatever has not been read.
ClosesSocket(s) ==
  /\ closed' = closed \cup {s} /\ shut' = shut \cup {s}
  /\ reset' = IF wire[s] # <<>> THEN reset \cup {Peer(s)} ELSE reset
  /\ wire' = [wire EXCEPT ![s] = <<>>]
  /\ UNCHANGED <<got, ended, sent, heard>>

Closes(s) ==
  /\ Drained(s)
  /\ late' = (late \/ (wire[s] = <<>> /\ ~AtEnd(s) /\ s \notin reset))
  /\ ClosesSocket(s)
=============================================================================
