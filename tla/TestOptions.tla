----------------------------- MODULE TestOptions -----------------------------
(***************************************************************************)
(* How a test gets its settings: the setters the apps call, the command    *)
(* line of iperf_parse_arguments and the checks behind its loop, and the   *)
(* parameters a client sends and a server adopts or refuses.               *)
(*                                                                         *)
(* An option is its name, a number and the suffix of its unit.  Strings    *)
(* (host, title, ...) and the options that only shape the output are left  *)
(* out, and so is what this build does not contain (SSL, SCTP, congestion, *)
(* affinity), except that it refuses the options for it.                   *)
(***************************************************************************)
EXTENDS Integers, Sequences

CONSTANT SizeValues  \* how many values a size has: 2^64 for iperf_size_t

ASSUME SizeAssumption == SizeValues \in Nat \ {0}

\* The function f, and g where f is not defined.
Beside(f, g) == [x \in DOMAIN f \cup DOMAIN g |-> IF x \in DOMAIN f THEN f[x] ELSE g[x]]

Option(opt, n) == [opt |-> opt, n |-> n, suffix |-> "", second |-> 0]

MinInt == -2147483647 - 1
MaxTime == 86400
MaxOmit == 600
MaxInterval == 60
MaxBurst == 1000
MaxStreams == 128
MaxMss == 32 * 1024 - 1
MaxTcpBuffer == 512 * 1024 * 1024
MaxBlock == 1024 * 1024
MinUdpBlock == 16
MaxUdpBlock == 65535 - 8 - 20
UdpRate == 1024 * 1024
DefaultTcpBlock == 128 * 1024
DefaultUdpBlock == 1460
-----------------------------------------------------------------------------
(* A test: what iperf_new_test and iperf_defaults make of it, and the local   *)
(* flags of iperf_parse_arguments.                                            *)

Numeric == [omit |-> 0, duration |-> 10, bytes |-> 0, blocks |-> 0, streams |-> 1, blksize |-> 0,
            rate |-> 0, burst |-> 0, window |-> 0, mss |-> 0, tos |-> 0,
            gsoSize |-> 0, gsoBuffer |-> MaxUdpBlock, interval |-> 1, port |-> 5201, bindPort |-> 0,
            limit |-> 0, limitInterval |-> 5, limitWindow |-> 0, maxDuration |-> 0,
            idleTimeout |-> 0, rcvTimeout |-> 120000, pacing |-> 1000, connectTimeout |-> -1]

Switched == [nodelay |-> FALSE, gso |-> FALSE, gro |-> FALSE, zerocopy |-> FALSE,
             repeating |-> FALSE, serverOutput |-> FALSE, counters64 |-> FALSE, skipRxCopy |-> FALSE,
             oneOff |-> FALSE, daemon |-> FALSE, file |-> FALSE, reverse |-> FALSE, bidirectional |-> FALSE]

Flags == [ok |-> TRUE, server |-> FALSE, client |-> FALSE, rateGiven |-> FALSE, timeGiven |-> FALSE]

Kinds == [role |-> "none", mode |-> "receiver", protocol |-> "tcp"]

Defaults == Beside(Beside(Numeric, Switched), Beside(Flags, Kinds))

Refused(t) == [t EXCEPT !.ok = FALSE]

\* An option for one side only.
For(side, t) ==
  CASE side = "client" -> [t EXCEPT !.client = TRUE]
    [] side = "server" -> [t EXCEPT !.server = TRUE]
    [] OTHER           -> t
-----------------------------------------------------------------------------
(* The setters.  Most store their value, unchecked; those of role and direction *)
(* derive the mode.                                                         *)

Set(t, field, value) == [t EXCEPT ![field] = value]

Straight(role) == IF role = "client" THEN "sender" ELSE "receiver"
Against(role) == IF role = "client" THEN "receiver" ELSE "sender"

ForgetsReverse(t, role) == \* mutant
  [t EXCEPT !.role = role, !.mode = IF t.bidirectional THEN "both" ELSE Straight(role)]

\* iperf_set_test_role: a reverse test is not bidirectional.
SetRole(t, role) ==
  [t EXCEPT !.role = role,
            !.mode = IF t.reverse THEN Against(role)
                     ELSE IF t.bidirectional THEN "both" ELSE Straight(role)]

\* iperf_set_test_reverse, which leaves the mode alone as long as there is no role.
SetReverse(t, reverse) ==
  [t EXCEPT !.reverse = reverse,
            !.mode = IF t.role = "none" THEN @
                     ELSE IF reverse THEN Against(t.role) ELSE Straight(t.role)]

\* iperf_set_test_bidirectional(1).
SetBidirectional(t) == [t EXCEPT !.bidirectional = TRUE, !.mode = "both"]

\* prepare_test of the JNI bridge, configure of the iOS runtime: a TCP test after iperf_defaults.
Prepared(role, streams) ==
  LET common == Set(SetRole(Set(Defaults, "blksize", DefaultTcpBlock), role), "interval", 1)
      timed == Set(Set(common, "duration", 10), "streams", streams)
  IN IF role = "server" THEN Set(common, "oneOff", FALSE)
     ELSE IF streams \in 1..MaxStreams THEN SetReverse(Set(timed, "connectTimeout", 3000), FALSE)
     ELSE Refused(Defaults)
-----------------------------------------------------------------------------
(* The options, in the order of the source.                                *)

Bounded(field, min, max, side) == [field |-> field, min |-> min, max |-> max, side |-> side]

ReportNumbers ==
  [o \in {"-p", "-i"} |->
     IF o = "-p" THEN Bounded("port", 1, 65535, "any") ELSE Bounded("interval", 0, MaxInterval, "any")]

\* Of -P and -M only the upper bound is checked.
TestNumbers ==
  [o \in {"-t", "-P"} |->
     IF o = "-t" THEN Bounded("duration", 0, MaxTime, "client") ELSE Bounded("streams", MinInt, MaxStreams, "client")]

SocketNumbers ==
  [o \in {"--cport", "-M", "-S"} |->
     CASE o = "--cport" -> Bounded("bindPort", 1, 65535, "any")
       [] o = "-M"      -> Bounded("mss", MinInt, MaxMss, "client")
       [] o = "-S"      -> Bounded("tos", 0, 255, "client")]

TimeNumbers ==
  [o \in {"-O", "--idle-timeout", "--server-max-duration", "--rcv-timeout"} |->
     CASE o = "-O"                    -> Bounded("omit", 0, MaxOmit, "client")
       [] o = "--idle-timeout"        -> Bounded("idleTimeout", 1, MaxTime, "server")
       [] o = "--server-max-duration" -> Bounded("maxDuration", 0, MaxTime, "server")
       [] o = "--rcv-timeout"         -> Bounded("rcvTimeout", 100, MaxTime * 1000, "any")]

Numbers == Beside(Beside(ReportNumbers, TestNumbers), Beside(SocketNumbers, TimeNumbers))

TakesNumber(t, o) ==
  LET b == Numbers[o.opt]
      set == For(b.side, [t EXCEPT ![b.field] = o.n])
  IN IF o.n \notin b.min..b.max THEN Refused(t)
     ELSE IF o.opt = "-t" THEN [set EXCEPT !.timeGiven = TRUE] ELSE set

Switch(field, side) == [field |-> field, side |-> side]

ServerSwitches ==
  [o \in {"-D", "-1"} |-> IF o = "-D" THEN Switch("daemon", "server") ELSE Switch("oneOff", "server")]

TransferSwitches ==
  [o \in {"-N", "-Z", "--repeating-payload", "-F"} |->
     CASE o = "-N"                  -> Switch("nodelay", "client")
       [] o = "-Z"                  -> Switch("zerocopy", "client")
       [] o = "--repeating-payload" -> Switch("repeating", "client")
       [] o = "-F"                  -> Switch("file", "any")]

ResultSwitches ==
  [o \in {"--get-server-output", "--udp-counters-64bit", "--skip-rx-copy"} |->
     CASE o = "--get-server-output"    -> Switch("serverOutput", "client")
       [] o = "--udp-counters-64bit"   -> Switch("counters64", "client")
       [] o = "--skip-rx-copy"         -> Switch("skipRxCopy", "client")]

Switches == Beside(ServerSwitches, Beside(TransferSwitches, ResultSwitches))

TakesSwitch(t, o) == For(Switches[o.opt].side, [t EXCEPT ![Switches[o.opt].field] = TRUE])

\* units.c: sizes count in powers of 1024, rates in powers of 1000.
UnitSuffixes == {"", "K", "M"}

Unit(o, k) ==
  CASE o.suffix = "K" -> o.n * k
    [] o.suffix = "M" -> o.n * k * k
    [] OTHER          -> o.n

UnitSize(o) == Unit(o, 1024)
UnitRate(o) == Unit(o, 1000)

Sizes ==
  [o \in {"-n", "-k", "-l", "-w", "--pacing-timer", "--connect-timeout"} |->
     CASE o = "-n"                -> "bytes"
       [] o = "-k"                -> "blocks"
       [] o = "-l"                -> "blksize"
       [] o = "-w"                -> "window"
       [] o = "--pacing-timer"    -> "pacing"
       [] o = "--connect-timeout" -> "connectTimeout"]

\* Of -w, too, only the upper bound is checked.
TakesSize(t, o) ==
  IF o.suffix \notin UnitSuffixes \/ (o.opt = "-w" /\ UnitSize(o) > MaxTcpBuffer)
    THEN Refused(t)
    ELSE For("client", [t EXCEPT ![Sizes[o.opt]] = UnitSize(o)])

\* -b rate/burst; --server-bitrate-limit rate/interval.
TakesRate(t, o) ==
  IF o.suffix \notin UnitSuffixes \/ o.second \notin 0..MaxBurst
    THEN Refused(t)
    ELSE For("client", [t EXCEPT !.rate = UnitRate(o), !.rateGiven = TRUE,
                                 !.burst = IF o.second = 0 THEN @ ELSE o.second])

TakesLimit(t, o) ==
  IF o.suffix \notin UnitSuffixes \/ o.second \notin 0..MaxInterval
    THEN Refused(t)
    ELSE For("server", [t EXCEPT !.limit = UnitRate(o),
                                 !.limitInterval = IF o.second = 0 THEN @ ELSE o.second])

Roles == [o \in {"-s", "-c"} |-> IF o = "-s" THEN "server" ELSE "client"]

TakesRole(t, o) ==
  IF t.role \notin {"none", Roles[o.opt]} THEN Refused(t) ELSE SetRole(t, Roles[o.opt])

TakesDirection(t, o) ==
  IF o.opt = "-R"
    THEN IF t.bidirectional THEN Refused(t) ELSE For("client", SetReverse(t, TRUE))
    ELSE IF t.reverse THEN Refused(t) ELSE For("client", SetBidirectional(t))

\* parse_qos of a number.
TakesDscp(t, o) ==
  IF o.n \in 0..63 THEN For("client", [t EXCEPT !.tos = o.n * 4]) ELSE Refused(t)

Unsupported == {"--sctp", "-L", "-A", "-C", "--fq-rate", "--no-fq-socket-pacing"}

\* Options whose number is stored as an unsigned one.
Unsigned == (DOMAIN Sizes \ {"-w"}) \cup {"-b", "--server-bitrate-limit"}

\* The options of the table longopts that are modelled.
Opts == DOMAIN Numbers \cup DOMAIN Switches \cup DOMAIN Sizes \cup DOMAIN Roles \cup Unsupported
          \cup {"-R", "--bidir", "-b", "--server-bitrate-limit", "--dscp", "-u", "--gsro"}

Takes(t, o) ==
  CASE o.opt \in DOMAIN Numbers     -> TakesNumber(t, o)
    [] o.opt \in DOMAIN Switches    -> TakesSwitch(t, o)
    [] o.opt \in DOMAIN Sizes       -> TakesSize(t, o)
    [] o.opt \in DOMAIN Roles       -> TakesRole(t, o)
    [] o.opt \in {"-R", "--bidir"}  -> TakesDirection(t, o)
    [] o.opt = "-b"                 -> TakesRate(t, o)
    [] o.opt = "--server-bitrate-limit" -> TakesLimit(t, o)
    [] o.opt = "--dscp"             -> TakesDscp(t, o)
    [] o.opt = "-u"                 -> For("client", [t EXCEPT !.protocol = "udp"])
    [] o.opt = "--gsro"             -> [t EXCEPT !.gso = TRUE, !.gro = TRUE]
    [] o.opt \in Unsupported        -> Refused(t)
-----------------------------------------------------------------------------
(* What is checked and derived behind the loop.                            *)

RolesFit(t) ==
  /\ t.role = "client" => ~t.server
  /\ t.role = "server" => ~t.client /\ ~t.gso
  /\ t.role # "none"

BlockFits(t) ==
  IF t.protocol = "udp" THEN t.blksize = 0 \/ t.blksize \in MinUdpBlock..MaxUdpBlock
                        ELSE t.blksize <= MaxBlock

\* -t, -n and -k exclude each other (IEENDCONDITIONS); a file counts as -n.
EndsFit(t) == ~(t.timeGiven /\ (t.bytes # 0 \/ t.blocks # 0)) /\ ~(t.bytes # 0 /\ t.blocks # 0)

\* A datagram size of the segmentation offload, and a buffer that is a multiple of it.
GsoFields(t) ==
  IF ~t.gso \/ t.protocol # "udp" THEN t
  ELSE IF t.blksize = 0 THEN [t EXCEPT !.gsoSize = DefaultUdpBlock]
  ELSE [t EXCEPT !.gsoSize = t.blksize, !.gsoBuffer = (@ \div t.blksize) * t.blksize]

WithSizes(t) ==
  GsoFields([t EXCEPT !.blksize = IF @ = 0 /\ t.protocol = "tcp" THEN DefaultTcpBlock ELSE @,
                      !.rate = IF t.rateGiven THEN @ ELSE IF t.protocol = "udp" THEN UdpRate ELSE 0])

WithEnd(t, fileBytes) ==
  LET sized == IF t.bytes = 0 /\ t.blocks = 0 /\ ~t.timeGiven /\ t.file /\ t.role = "client"
                 THEN [t EXCEPT !.bytes = fileBytes] ELSE t
  IN IF (sized.bytes # 0 \/ sized.blocks # 0) /\ ~t.timeGiven THEN [sized EXCEPT !.duration = 0] ELSE sized

\* The limit's average is over a whole number of intervals.
WithWindow(t) ==
  [t EXCEPT !.limitWindow =
     IF t.limitInterval = 0 THEN @
     ELSE IF t.limitInterval <= t.interval \/ t.interval = 0 THEN 1
     ELSE (2 * t.limitInterval + t.interval) \div (2 * t.interval)]

\* iperf_parse_arguments of options in this order, for a file of that size.
Checked(t, fileBytes) ==
  LET end == WithEnd(WithSizes(t), fileBytes)
  IN IF t.ok /\ RolesFit(t) /\ ~(t.file /\ t.protocol = "udp") /\ BlockFits(t) /\ EndsFit(end)
       THEN WithWindow(end) ELSE Refused(t)
-----------------------------------------------------------------------------
(* The parameters.                                                         *)

\* iperf_connect: an unset datagram size comes from the control connection's MSS (0 when it
\* is not known).
WithMss(t, mss) ==
  IF t.protocol # "udp" THEN t
  ELSE GsoFields([t EXCEPT !.blksize = IF @ # 0 THEN @ ELSE IF mss # 0 THEN mss ELSE DefaultUdpBlock])

\* What send_parameters always sends, and what only when it is set.
Always == {"protocol", "omit", "duration", "bytes", "blocks", "streams"}
WhenUdp == {"gso", "gro", "gsoSize", "gsoBuffer"}
WhenSet == {"mss", "window", "blksize", "rate", "pacing", "burst", "tos"}
WhenOn == {"nodelay", "reverse", "bidirectional", "serverOutput", "counters64", "repeating",
           "zerocopy", "skipRxCopy"}

\* send_parameters.
Sent(t) ==
  Always \cup (IF t.protocol = "udp" THEN WhenUdp ELSE {})
    \cup {f \in WhenSet : t[f] # 0} \cup {f \in WhenOn : t[f]}

Parameters(t) == [f \in Sent(t) |-> t[f]]

KeepsMode(t, p) == \* mutant
  [f \in DOMAIN t |-> IF f \in DOMAIN p THEN p[f] ELSE t[f]]

\* get_parameters, as far as it stores: what is not there keeps its value, and direction
\* goes through the setters.
Adopted(t, p) ==
  LET zeroed == [t EXCEPT !.bytes = 0, !.blocks = 0]
      stored == [f \in DOMAIN t |-> IF f \in DOMAIN p THEN p[f] ELSE zeroed[f]]
      reversed == IF stored.reverse THEN SetReverse(stored, TRUE) ELSE stored
  IN IF stored.bidirectional THEN SetBidirectional(reversed) ELSE reversed

\* The rate of all streams together, as a size: it wraps around.
Requested(t) == (t.streams * t.rate * (IF t.mode = "both" THEN 2 ELSE 1)) % SizeValues

\* Why get_parameters refuses what it has stored; the later reason wins.
Refusal(t) ==
  IF t.limit # 0 /\ Requested(t) > t.limit THEN "IETOTALRATE"
  ELSE IF t.maxDuration > 0 /\ (t.duration + t.omit > t.maxDuration \/ t.duration = 0)
    THEN "IEMAXSERVERTESTDURATIONEXCEEDED"
  ELSE IF t.file /\ t.protocol = "udp" THEN "IEUDPFILETRANSFER"
  ELSE "none"
=============================================================================
