----------------------------- MODULE MCUdpStream -----------------------------
(* UdpStream with the bounds of its run.                                    *)
EXTENDS UdpStream

\* Three packets are enough for a gap that is repaired and one that is not.
MCTests == [reverse : BOOLEAN, omit : {FALSE}, packets : {3}]
             \cup [reverse : BOOLEAN, omit : {TRUE}, packets : {1}]
=============================================================================
