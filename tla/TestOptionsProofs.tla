--------------------------- MODULE TestOptionsProofs ---------------------------
(***************************************************************************)
(* Proofs about TestOptions: what an option, the checks behind the loop of *)
(* iperf_parse_arguments and the adoption of a client's parameters keep.   *)
(***************************************************************************)
EXTENDS TestOptions, FiniteSetsExt, FiniteSetTheorems, WellFoundedInduction, TLAPS

Fields ==
  {"omit", "duration", "bytes", "blocks", "streams", "blksize", "rate", "burst", "window", "mss", "tos",
   "gsoSize", "gsoBuffer", "interval", "port", "bindPort", "limit", "limitInterval", "limitWindow",
   "maxDuration", "idleTimeout", "rcvTimeout", "pacing", "connectTimeout", "nodelay", "gso", "gro",
   "zerocopy", "repeating", "serverOutput", "counters64", "skipRxCopy", "oneOff", "daemon", "file",
   "reverse", "bidirectional", "ok", "server", "client", "rateGiven", "timeGiven", "role", "mode", "protocol"}

Counts == {"duration", "bytes", "blocks", "blksize", "rate", "limit", "maxDuration"}

Toggles == WhenOn \cup {"gso", "file", "ok", "server", "client", "rateGiven", "timeGiven"}

Typed(t) ==
  /\ DOMAIN t = Fields
  /\ t.streams \in Int /\ t.streams <= MaxStreams /\ t.omit \in 0..MaxOmit
  /\ \A f \in Counts : t[f] \in Nat
  /\ \A f \in Toggles : t[f] \in BOOLEAN
  /\ t.protocol \in {"tcp", "udp"} /\ t.role \in {"none", "client", "server"}

\* The mode is that of role and direction.
Directed(t) ==
  /\ ~(t.reverse /\ t.bidirectional)
  /\ t.role # "none" =>
       t.mode = IF t.reverse THEN Against(t.role) ELSE IF t.bidirectional THEN "both" ELSE Straight(t.role)

\* What only options of a client set.
ClientOnly == {"protocol", "omit", "duration", "bytes", "blocks", "streams", "mss", "window", "rate", "burst",
               "tos", "rateGiven", "timeGiven"} \cup WhenOn

ClientMarked(t) == ~t.client => \A f \in ClientOnly : t[f] = Defaults[f]

\* Only -t sets the time.
Timed(t, options) ==
  /\ t.timeGiven => \E o \in options : o.opt = "-t"
  /\ ~t.timeGiven => t.duration = 10

Parsing(t, options) == Typed(t) /\ Directed(t) /\ ClientMarked(t) /\ Timed(t, options)

\* The option that sets a field; -S and --dscp both set the type of service.
SetBy ==
  [port |-> "-p", interval |-> "-i", duration |-> "-t", timeGiven |-> "-t", streams |-> "-P",
   bindPort |-> "--cport", mss |-> "-M", tos |-> "-S", omit |-> "-O", idleTimeout |-> "--idle-timeout",
   maxDuration |-> "--server-max-duration", rcvTimeout |-> "--rcv-timeout", daemon |-> "-D",
   oneOff |-> "-1", nodelay |-> "-N", zerocopy |-> "-Z", repeating |-> "--repeating-payload",
   file |-> "-F", serverOutput |-> "--get-server-output", counters64 |-> "--udp-counters-64bit",
   skipRxCopy |-> "--skip-rx-copy", bytes |-> "-n", blocks |-> "-k", blksize |-> "-l", window |-> "-w",
   pacing |-> "--pacing-timer", connectTimeout |-> "--connect-timeout", rate |-> "-b",
   rateGiven |-> "-b", burst |-> "-b", limit |-> "--server-bitrate-limit",
   limitInterval |-> "--server-bitrate-limit", protocol |-> "-u", gso |-> "--gsro", gro |-> "--gsro"]

Group(opt) == IF opt = "--dscp" THEN "-S" ELSE opt

AnOption(o) == o.opt \in Opts /\ o.n \in Int /\ o.second \in Int /\ (o.opt \in Unsigned => o.n >= 0)
-----------------------------------------------------------------------------
LEMMA DefaultsAre ==
  /\ DOMAIN Defaults = Fields
  /\ Defaults.streams = 1 /\ Defaults.omit = 0 /\ Defaults.duration = 10 /\ Defaults.bytes = 0 /\ Defaults.blocks = 0
  /\ Defaults.blksize = 0 /\ Defaults.rate = 0 /\ Defaults.maxDuration = 0 /\ Defaults.mss = 0 /\ Defaults.window = 0
  /\ Defaults.burst = 0 /\ Defaults.tos = 0 /\ Defaults.limit = 0
  /\ Defaults.protocol = "tcp" /\ Defaults.role = "none" /\ Defaults.mode = "receiver" /\ Defaults.ok = TRUE
  /\ \A f \in Toggles \ {"ok"} : Defaults[f] = FALSE
<1>1. /\ DOMAIN Numeric =
           {"omit", "duration", "bytes", "blocks", "streams", "blksize", "rate", "burst", "window", "mss", "tos",
            "gsoSize", "gsoBuffer", "interval", "port", "bindPort", "limit", "limitInterval", "limitWindow",
            "maxDuration", "idleTimeout", "rcvTimeout", "pacing", "connectTimeout"}
      /\ Numeric.streams = 1 /\ Numeric.omit = 0 /\ Numeric.duration = 10 /\ Numeric.bytes = 0 /\ Numeric.blocks = 0
      /\ Numeric.blksize = 0 /\ Numeric.rate = 0 /\ Numeric.maxDuration = 0 /\ Numeric.mss = 0 /\ Numeric.window = 0
      /\ Numeric.burst = 0 /\ Numeric.tos = 0 /\ Numeric.limit = 0
  BY DEF Numeric
<1>2. /\ DOMAIN Switched =
           {"nodelay", "gso", "gro", "zerocopy", "repeating", "serverOutput", "counters64", "skipRxCopy",
            "oneOff", "daemon", "file", "reverse", "bidirectional"}
      /\ \A f \in DOMAIN Switched : Switched[f] = FALSE
  BY DEF Switched
<1>3. /\ DOMAIN Flags = {"ok", "server", "client", "rateGiven", "timeGiven"}
      /\ Flags.ok = TRUE /\ \A f \in DOMAIN Flags \ {"ok"} : Flags[f] = FALSE
  BY DEF Flags
<1>4. /\ DOMAIN Kinds = {"role", "mode", "protocol"}
      /\ Kinds.role = "none" /\ Kinds.mode = "receiver" /\ Kinds.protocol = "tcp"
  BY DEF Kinds
<1> DEFINE a == Beside(Numeric, Switched)  b == Beside(Flags, Kinds)
<1>5. /\ DOMAIN a = DOMAIN Numeric \cup DOMAIN Switched
      /\ \A f \in DOMAIN Numeric : a[f] = Numeric[f]
      /\ \A f \in DOMAIN Switched : a[f] = Switched[f]
  BY <1>1, <1>2 DEF Beside
<1>6. /\ DOMAIN b = DOMAIN Flags \cup DOMAIN Kinds
      /\ \A f \in DOMAIN Flags : b[f] = Flags[f]
      /\ \A f \in DOMAIN Kinds : b[f] = Kinds[f]
  BY <1>3, <1>4 DEF Beside
<1> HIDE DEF a, b
<1>7. /\ DOMAIN Defaults = DOMAIN a \cup DOMAIN b
      /\ \A f \in DOMAIN a : Defaults[f] = a[f]
      /\ \A f \in DOMAIN b : f \notin DOMAIN a => Defaults[f] = b[f]
  BY DEF Beside, Defaults, a, b
<1>8. DOMAIN Defaults = Fields BY <1>1, <1>2, <1>3, <1>4, <1>5, <1>6, <1>7 DEF Fields
<1>9. \A f \in DOMAIN Numeric : Defaults[f] = Numeric[f] BY <1>5, <1>7
<1>10. \A f \in DOMAIN Switched : Defaults[f] = FALSE BY <1>2, <1>5, <1>7
<1>11. /\ \A f \in DOMAIN Flags : Defaults[f] = Flags[f]
       /\ \A f \in DOMAIN Kinds : Defaults[f] = Kinds[f]
  BY <1>1, <1>2, <1>3, <1>4, <1>5, <1>6, <1>7
<1>12. \A f \in Toggles \ {"ok"} : f \in DOMAIN Switched \/ f \in DOMAIN Flags \ {"ok"}
  BY <1>2, <1>3 DEF Toggles, WhenOn
<1>13. \A f \in Toggles \ {"ok"} : Defaults[f] = FALSE BY <1>3, <1>10, <1>11, <1>12
<1> QED BY <1>1, <1>3, <1>4, <1>8, <1>9, <1>11, <1>13

LEMMA NumbersAre ==
  ASSUME NEW o \in DOMAIN Numbers
  PROVE  /\ Numbers[o].field \in Fields \ (Toggles \cup {"role", "mode", "protocol", "limit"})
         /\ Numbers[o].field \in ClientOnly => Numbers[o].side = "client"
         /\ Numbers[o].field = "streams" => Numbers[o].min = MinInt /\ Numbers[o].max = MaxStreams
         /\ Numbers[o].field = "omit" => Numbers[o].min = 0 /\ Numbers[o].max = MaxOmit
         /\ Numbers[o].field \in Counts => Numbers[o].min = 0 /\ Numbers[o].max = MaxTime
         /\ Numbers[o].field = "duration" <=> o = "-t"
         /\ Numbers[o].side \in {"any", "client", "server"}
         /\ Numbers[o].field \in DOMAIN SetBy /\ SetBy[Numbers[o].field] = Group(o)
         /\ o \in {"-p", "-i", "-t", "-P", "--cport", "-M", "-S", "-O", "--idle-timeout", "--server-max-duration",
                   "--rcv-timeout"}
<1>1. /\ DOMAIN ReportNumbers = {"-p", "-i"} /\ DOMAIN TestNumbers = {"-t", "-P"}
      /\ DOMAIN SocketNumbers = {"--cport", "-M", "-S"}
      /\ DOMAIN TimeNumbers = {"-O", "--idle-timeout", "--server-max-duration", "--rcv-timeout"}
  BY DEF ReportNumbers, TestNumbers, SocketNumbers, TimeNumbers
<1> DEFINE a == Beside(ReportNumbers, TestNumbers)  b == Beside(SocketNumbers, TimeNumbers)
<1>2. /\ DOMAIN a = {"-p", "-i", "-t", "-P"}
      /\ \A x \in {"-p", "-i"} : a[x] = ReportNumbers[x]
      /\ \A x \in {"-t", "-P"} : a[x] = TestNumbers[x]
  BY <1>1 DEF Beside
<1>3. /\ DOMAIN b = {"--cport", "-M", "-S", "-O", "--idle-timeout", "--server-max-duration", "--rcv-timeout"}
      /\ \A x \in DOMAIN SocketNumbers : b[x] = SocketNumbers[x]
      /\ \A x \in DOMAIN TimeNumbers : b[x] = TimeNumbers[x]
  BY <1>1 DEF Beside
<1> HIDE DEF a, b
<1>4. /\ DOMAIN Numbers = DOMAIN a \cup DOMAIN b
      /\ \A x \in DOMAIN a : Numbers[x] = a[x]
      /\ \A x \in DOMAIN b : Numbers[x] = b[x]
  BY <1>2, <1>3 DEF Beside, Numbers, a, b
<1>5. CASE o \in {"-p", "-i"}
  <2>1. Numbers[o] = ReportNumbers[o] BY <1>2, <1>4, <1>5
  <2> QED BY <1>5, <2>1 DEF ReportNumbers, Bounded, Fields, Toggles, ClientOnly, Counts, WhenOn, SetBy, Group
<1>6. CASE o \in {"-t", "-P"}
  <2>1. Numbers[o] = TestNumbers[o] BY <1>2, <1>4, <1>6
  <2> QED BY <1>6, <2>1 DEF TestNumbers, Bounded, Fields, Toggles, ClientOnly, Counts, WhenOn, SetBy, Group
<1>7. CASE o \in {"--cport", "-M", "-S"}
  <2>1. Numbers[o] = SocketNumbers[o] BY <1>1, <1>3, <1>4, <1>7
  <2> QED BY <1>7, <2>1 DEF SocketNumbers, Bounded, Fields, Toggles, ClientOnly, Counts, WhenOn, SetBy, Group
<1>8. CASE o \in {"-O", "--idle-timeout", "--server-max-duration", "--rcv-timeout"}
  <2>1. Numbers[o] = TimeNumbers[o] BY <1>1, <1>3, <1>4, <1>8
  <2> QED BY <1>8, <2>1 DEF TimeNumbers, Bounded, Fields, Toggles, ClientOnly, Counts, WhenOn, SetBy, Group
<1> QED BY <1>2, <1>3, <1>4, <1>5, <1>6, <1>7, <1>8

LEMMA SwitchesAre ==
  ASSUME NEW o \in DOMAIN Switches
  PROVE  /\ Switches[o].field \in (WhenOn \ {"reverse", "bidirectional"}) \cup {"daemon", "oneOff", "file"}
         /\ Switches[o].field \in WhenOn => Switches[o].side = "client"
         /\ Switches[o].side \in {"any", "client", "server"}
         /\ Switches[o].field \in DOMAIN SetBy /\ SetBy[Switches[o].field] = Group(o)
         /\ o \in {"-D", "-1", "-N", "-Z", "--repeating-payload", "-F", "--get-server-output", "--udp-counters-64bit",
                   "--skip-rx-copy"}
<1>1. /\ DOMAIN ServerSwitches = {"-D", "-1"} /\ DOMAIN TransferSwitches = {"-N", "-Z", "--repeating-payload", "-F"}
      /\ DOMAIN ResultSwitches = {"--get-server-output", "--udp-counters-64bit", "--skip-rx-copy"}
  BY DEF ServerSwitches, TransferSwitches, ResultSwitches
<1> DEFINE b == Beside(TransferSwitches, ResultSwitches)
<1>2. /\ DOMAIN b = DOMAIN TransferSwitches \cup DOMAIN ResultSwitches
      /\ \A x \in DOMAIN TransferSwitches : b[x] = TransferSwitches[x]
      /\ \A x \in DOMAIN ResultSwitches : b[x] = ResultSwitches[x]
  BY <1>1 DEF Beside
<1> HIDE DEF b
<1>3. /\ DOMAIN Switches = DOMAIN ServerSwitches \cup DOMAIN b
      /\ \A x \in DOMAIN ServerSwitches : Switches[x] = ServerSwitches[x]
      /\ \A x \in DOMAIN b : Switches[x] = b[x]
  BY <1>1, <1>2 DEF Beside, Switches, b
<1>4. CASE o \in DOMAIN ServerSwitches
  <2>1. Switches[o] = ServerSwitches[o] BY <1>3, <1>4
  <2> QED BY <1>1, <1>4, <2>1 DEF ServerSwitches, Switch, WhenOn, SetBy, Group
<1>5. CASE o \in DOMAIN TransferSwitches
  <2>1. Switches[o] = TransferSwitches[o] BY <1>2, <1>3, <1>5
  <2>2. \/ o = "-N" /\ Switches[o] = Switch("nodelay", "client")
        \/ o = "-Z" /\ Switches[o] = Switch("zerocopy", "client")
        \/ o = "--repeating-payload" /\ Switches[o] = Switch("repeating", "client")
        \/ o = "-F" /\ Switches[o] = Switch("file", "any")
    BY <1>1, <1>5, <2>1 DEF TransferSwitches
  <2> QED BY <2>2 DEF Switch, WhenOn, SetBy, Group
<1>6. CASE o \in DOMAIN ResultSwitches
  <2>1. Switches[o] = ResultSwitches[o] BY <1>2, <1>3, <1>6
  <2> QED BY <1>1, <1>6, <2>1 DEF ResultSwitches, Switch, WhenOn, SetBy, Group
<1> QED BY <1>2, <1>3, <1>4, <1>5, <1>6
-----------------------------------------------------------------------------
(* One option after another.                                               *)

\* A field that is set, and nothing else.
LEMMA SetKeeps ==
  ASSUME NEW t, NEW options, Parsing(t, options),
         NEW x \in Fields \ {"role", "mode", "reverse", "bidirectional", "timeGiven", "duration", "ok", "client", "server"}, NEW v,
         NEW side \in {"any", "client", "server"}, x \in ClientOnly => side = "client",
         x = "streams" => v \in Int /\ v <= MaxStreams, x = "omit" => v \in 0..MaxOmit,
         x \in Counts => v \in Nat, x \in Toggles => v \in BOOLEAN, x = "protocol" => v \in {"tcp", "udp"},
         NEW u, u = For(side, [t EXCEPT ![x] = v])
  PROVE  Parsing(u, options) /\ u.role = t.role /\ u.ok = t.ok /\ (side = "client" => u.client)
<1>1. DOMAIN t = Fields BY DEF Parsing, Typed
<1> DEFINE w == [t EXCEPT ![x] = v]
<1>2. DOMAIN w = Fields /\ w[x] = v /\ \A f \in Fields : f # x => w[f] = t[f] BY <1>1
<1> HIDE DEF w
<1>3. /\ DOMAIN u = Fields /\ u[x] = v /\ \A f \in Fields : f \notin {x, "client", "server"} => u[f] = t[f]
      /\ side # "client" => u.client = t.client
      /\ side = "client" => u.client
      /\ u.client \in BOOLEAN /\ u.server \in BOOLEAN
  <2>1. w.client = t.client /\ t.client \in BOOLEAN /\ (w.server = t.server \/ w.server = v) /\ (w.server \in BOOLEAN)
    <3>1. "client" \in Fields /\ "server" \in Fields /\ "client" \in Toggles /\ "server" \in Toggles
      BY DEF Fields, Toggles
    <3>2. t.client \in BOOLEAN /\ t.server \in BOOLEAN BY <3>1 DEF Parsing, Typed
    <3> QED BY <1>2, <3>1, <3>2
  <2>2. "client" \in Fields /\ "server" \in Fields BY DEF Fields
  <2>3. x # "server" => w.server = t.server BY <1>2, <2>2
  <2>4. u = For(side, w) BY DEF w
  <2>5. CASE side = "any" BY <1>2, <2>1, <2>2, <2>4, <2>5 DEF For
  <2>6. CASE side = "client" BY <1>2, <2>1, <2>2, <2>4, <2>6 DEF For
  <2>7. CASE side = "server" BY <1>2, <2>1, <2>2, <2>4, <2>7 DEF For
  <2> QED BY <2>5, <2>6, <2>7
<1>4. Typed(u)
  <2>1. {"streams", "omit", "protocol", "role"} \cup Counts \cup Toggles \subseteq Fields
    BY DEF Fields, Counts, Toggles, WhenOn
  <2>2. \A f \in Counts : f \notin {"client", "server"} BY DEF Counts
  <2>3. \A f \in Counts : u[f] \in Nat
    <3>1. ASSUME NEW f \in Counts PROVE u[f] \in Nat
      <4>1. t[f] \in Nat BY DEF Parsing, Typed
      <4> QED BY <1>3, <2>1, <2>2, <4>1
    <3> QED BY <3>1
  <2>4. ASSUME NEW f \in Toggles PROVE u[f] \in BOOLEAN
    <3>1. t[f] \in BOOLEAN BY DEF Parsing, Typed
    <3> QED BY <1>3, <2>1, <3>1
  <2> QED BY <1>3, <2>1, <2>3, <2>4 DEF Parsing, Typed
<1>5. /\ u.role = t.role /\ u.mode = t.mode /\ u.reverse = t.reverse /\ u.bidirectional = t.bidirectional
      /\ u.ok = t.ok /\ u.timeGiven = t.timeGiven /\ u.duration = t.duration
  BY <1>3 DEF Fields
<1>6. Directed(u) BY <1>5 DEF Parsing, Directed
<1>7. Timed(u, options) BY <1>5 DEF Parsing, Timed
<1>8. ClientMarked(u)
  <2>1. ASSUME ~u.client, NEW f \in ClientOnly PROVE u[f] = Defaults[f]
    <3>1. side # "client" /\ ~t.client /\ f # x BY <1>3, <2>1
    <3>2. f \in Fields \ {"client", "server"} BY DEF ClientOnly, WhenOn, Fields
    <3> QED BY <1>3, <3>1, <3>2 DEF Parsing, ClientMarked
  <2> QED BY <2>1 DEF ClientMarked
<1> QED BY <1>3, <1>4, <1>5, <1>6, <1>7, <1>8 DEF Parsing

\* An option is refused, or the test goes on to fit.
GoesWell(t, o, u, options) ==
  \/ u = Refused(t)
  \/ /\ Parsing(u, options) /\ u.ok = t.ok
     /\ o.opt \notin DOMAIN Roles => u.role = t.role

LEMMA TakesNumberKeeps ==
  ASSUME NEW t, NEW options, Parsing(t, options), NEW o \in options, AnOption(o), o.opt \in DOMAIN Numbers
  PROVE  GoesWell(t, o, TakesNumber(t, o), options)
<1> DEFINE b == Numbers[o.opt]  u == For(b.side, [t EXCEPT ![b.field] = o.n])
<1>1. /\ b.field \in Fields \ (Toggles \cup {"role", "mode", "protocol", "limit"})
      /\ b.field \in ClientOnly => b.side = "client"
      /\ b.field = "streams" => b.min = MinInt /\ b.max = MaxStreams
      /\ b.field = "omit" => b.min = 0 /\ b.max = MaxOmit
      /\ b.field \in Counts => b.min = 0 /\ b.max = MaxTime
      /\ b.field = "duration" <=> o.opt = "-t"
      /\ b.side \in {"any", "client", "server"}
  BY NumbersAre
<1>2. TakesNumber(t, o) = IF o.n \notin b.min..b.max THEN Refused(t)
                          ELSE IF o.opt = "-t" THEN [u EXCEPT !.timeGiven = TRUE] ELSE u
  BY DEF TakesNumber
<1>3. CASE o.n \notin b.min..b.max BY <1>2, <1>3 DEF GoesWell
<1>4. CASE o.n \in b.min..b.max /\ o.opt # "-t"
  <2>1. b.field \in Fields \ {"role", "mode", "reverse", "bidirectional", "timeGiven", "duration", "ok", "client", "server"}
    BY <1>1, <1>4 DEF Toggles, WhenOn
  <2>2. b.field \notin Toggles /\ b.field # "protocol" BY <1>1
  <2>3. b.field \in Counts => o.n \in Nat BY <1>1, <1>4 DEF MaxTime
  <2> HIDE DEF b
  <2>4. Parsing(u, options) /\ u.role = t.role /\ u.ok = t.ok BY <1>1, <1>4, <2>1, <2>2, <2>3, SetKeeps
  <2> QED BY <1>2, <1>4, <2>4 DEF GoesWell
<1>5. CASE o.n \in b.min..b.max /\ o.opt = "-t"
  <2>1. b.field = "duration" /\ b.side = "client" /\ o.n \in Nat
    <3>1. "duration" \in ClientOnly /\ "duration" \in Counts BY DEF ClientOnly, Counts
    <3> QED BY <1>1, <1>5, <3>1 DEF MaxTime
  <2> DEFINE w == [u EXCEPT !.timeGiven = TRUE]
  <2>2. DOMAIN t = Fields BY DEF Parsing, Typed
  <2> HIDE DEF b
  <2>3. /\ DOMAIN w = Fields /\ w.duration = o.n /\ w.client = TRUE /\ w.timeGiven = TRUE
        /\ \A f \in Fields \ {"duration", "client", "timeGiven"} : w[f] = t[f]
    <3>1. u = [[t EXCEPT !["duration"] = o.n] EXCEPT !.client = TRUE] BY <2>1 DEF For
    <3>2. {"duration", "client", "timeGiven"} \subseteq Fields BY DEF Fields
    <3>3. /\ DOMAIN u = Fields /\ u.duration = o.n /\ u.client = TRUE
          /\ \A f \in Fields \ {"duration", "client"} : u[f] = t[f]
      BY <2>2, <3>1, <3>2
    <3> HIDE DEF u
    <3> QED BY <3>2, <3>3
  <2> HIDE DEF w, u
  <2>4. Typed(w)
    <3>1. {"streams", "omit", "protocol", "role"} \cup Counts \cup Toggles \subseteq Fields
      BY DEF Fields, Counts, Toggles, WhenOn
    <3>2. ASSUME NEW f \in Counts PROVE w[f] \in Nat
      <4>1. t[f] \in Nat BY DEF Parsing, Typed
      <4>2. f \notin {"client", "timeGiven"} BY DEF Counts
      <4> QED BY <2>1, <2>3, <3>1, <4>1, <4>2
    <3>3. ASSUME NEW f \in Toggles PROVE w[f] \in BOOLEAN
      <4>1. t[f] \in BOOLEAN /\ f # "duration" BY DEF Parsing, Typed, Toggles, WhenOn
      <4> QED BY <2>3, <3>1, <4>1
    <3> QED BY <2>3, <3>1, <3>2, <3>3 DEF Parsing, Typed
  <2>5. /\ w.role = t.role /\ w.mode = t.mode /\ w.reverse = t.reverse /\ w.bidirectional = t.bidirectional
        /\ w.ok = t.ok
    BY <2>3 DEF Fields
  <2>6. Directed(w) /\ ClientMarked(w) /\ Timed(w, options) BY <1>5, <2>3, <2>5 DEF Parsing, Directed, ClientMarked, Timed
  <2> QED BY <1>2, <1>5, <2>4, <2>5, <2>6 DEF GoesWell, Parsing, w
<1> QED BY <1>3, <1>4, <1>5

LEMMA TakesSwitchKeeps ==
  ASSUME NEW t, NEW options, Parsing(t, options), NEW o \in options, AnOption(o), o.opt \in DOMAIN Switches
  PROVE  GoesWell(t, o, TakesSwitch(t, o), options)
<1> DEFINE b == Switches[o.opt]  u == For(b.side, [t EXCEPT ![b.field] = TRUE])
<1>1. /\ b.field \in (WhenOn \ {"reverse", "bidirectional"}) \cup {"daemon", "oneOff", "file"}
      /\ b.field \in WhenOn => b.side = "client"
      /\ b.side \in {"any", "client", "server"}
  BY SwitchesAre
<1>2. TakesSwitch(t, o) = u BY DEF TakesSwitch
<1>3. /\ b.field \in Fields \ {"role", "mode", "reverse", "bidirectional", "timeGiven", "duration", "ok", "client",
                               "server", "streams", "omit", "protocol"}
      /\ b.field \in ClientOnly => b.side = "client"
      /\ b.field \notin Counts
  BY <1>1 DEF WhenOn, Fields, ClientOnly, Counts
<1> DEFINE x == b.field  side == b.side  v == TRUE
<1>4. Parsing(u, options) /\ u.role = t.role /\ u.ok = t.ok
  <2>1. /\ x \in Fields \ {"role", "mode", "reverse", "bidirectional", "timeGiven", "duration", "ok", "client",
                           "server", "streams", "omit", "protocol"}
        /\ x \in ClientOnly => side = "client"
        /\ x \notin Counts /\ side \in {"any", "client", "server"} /\ u = For(side, [t EXCEPT ![x] = v])
        /\ v \in BOOLEAN
    BY <1>1, <1>3
  <2> HIDE DEF x, side, u, v
  <2> QED BY <2>1, SetKeeps
<1> QED BY <1>2, <1>4 DEF GoesWell

LEMMA UnitIs ==
  ASSUME NEW o, o.n \in Int
  PROVE  /\ UnitSize(o) \in Int /\ UnitRate(o) \in Int
         /\ o.n >= 0 => UnitSize(o) \in Nat /\ UnitRate(o) \in Nat
<1>1. ASSUME NEW k \in Nat PROVE o.n * k \in Int /\ (o.n * k) * k \in Int OBVIOUS
<1>2. ASSUME NEW k \in Nat, o.n >= 0 PROVE o.n * k \in Nat /\ (o.n * k) * k \in Nat
  <2> DEFINE m == o.n * k
  <2>1. o.n \in Nat BY <1>2
  <2>2. m \in Nat BY <2>1
  <2> HIDE DEF m
  <2>3. m * k \in Nat BY <2>2
  <2> QED BY <2>2, <2>3 DEF m
<1>3. \A k : Unit(o, k) \in {o.n, o.n * k, (o.n * k) * k} BY DEF Unit
<1>4. ASSUME NEW k \in Nat PROVE Unit(o, k) \in Int /\ (o.n >= 0 => Unit(o, k) \in Nat)
  <2>1. o.n >= 0 => o.n \in Nat OBVIOUS
  <2>2. CASE Unit(o, k) = o.n BY <2>1, <2>2
  <2>3. CASE Unit(o, k) = o.n * k BY <1>1, <1>2, <2>3
  <2>4. CASE Unit(o, k) = (o.n * k) * k BY <1>1, <1>2, <2>4
  <2> QED BY <1>3, <2>2, <2>3, <2>4
<1> QED BY <1>4 DEF UnitSize, UnitRate

\* Sizes, all but the -w of a client, and rates are not negative.
LEMMA UnsignedAre ==
  ASSUME NEW o, AnOption(o)
  PROVE  /\ o.opt \in DOMAIN Sizes /\ Sizes[o.opt] \in Counts => UnitSize(o) \in Nat
         /\ o.opt \in {"-b", "--server-bitrate-limit"} => UnitRate(o) \in Nat
<1>1. ASSUME o.opt \in DOMAIN Sizes, Sizes[o.opt] \in Counts PROVE o.opt \in Unsigned
  <2>1. Sizes["-w"] = "window" /\ "window" \notin Counts BY DEF Sizes, Counts
  <2> QED BY <1>1, <2>1 DEF Unsigned
<1>2. o.opt \in {"-b", "--server-bitrate-limit"} => o.opt \in Unsigned BY DEF Unsigned
<1> QED BY <1>1, <1>2, UnitIs DEF AnOption

LEMMA TakesSizeKeeps ==
  ASSUME NEW t, NEW options, Parsing(t, options), NEW o \in options, AnOption(o), o.opt \in DOMAIN Sizes
  PROVE  GoesWell(t, o, TakesSize(t, o), options)
<1> DEFINE x == Sizes[o.opt]  v == UnitSize(o)  u == For("client", [t EXCEPT ![x] = v])
<1>1. x \in {"bytes", "blocks", "blksize", "window", "pacing", "connectTimeout"} BY DEF Sizes
<1>3. TakesSize(t, o) = Refused(t) \/ TakesSize(t, o) = u BY DEF TakesSize
<1>4. Parsing(u, options) /\ u.role = t.role /\ u.ok = t.ok
  <2>1. x \in Counts => v \in Nat BY UnsignedAre
  <2>2. /\ x \in Fields \ {"role", "mode", "reverse", "bidirectional", "timeGiven", "duration", "ok", "client",
                           "server", "streams", "omit", "protocol"}
        /\ x \notin Toggles
    BY <1>1 DEF Fields, Toggles, WhenOn
  <2> HIDE DEF x, v
  <2> QED BY <2>1, <2>2, SetKeeps
<1> QED BY <1>3, <1>4 DEF GoesWell

\* The rate, with its burst, and the limit, with its interval.
LEMMA TakesRateKeeps ==
  ASSUME NEW t, NEW options, Parsing(t, options), NEW o \in options, AnOption(o)
  PROVE  /\ o.opt = "-b" => GoesWell(t, o, TakesRate(t, o), options)
         /\ o.opt = "--server-bitrate-limit" => GoesWell(t, o, TakesLimit(t, o), options)
<1> DEFINE v == UnitRate(o)
<1>1. o.opt \in {"-b", "--server-bitrate-limit"} => v \in Nat BY UnsignedAre
<1>2. ASSUME NEW x \in {"burst", "limitInterval", "rate", "rateGiven", "limit"}, NEW y, NEW w, Parsing(w, options),
             x \in {"rate", "limit"} => y \in Nat, x = "rateGiven" => y \in BOOLEAN,
             NEW z, z = For(IF x \in {"limit", "limitInterval"} THEN "server" ELSE "client", [w EXCEPT ![x] = y])
      PROVE  Parsing(z, options) /\ z.role = w.role /\ z.ok = w.ok
  <2> DEFINE side == IF x \in {"limit", "limitInterval"} THEN "server" ELSE "client"
  <2>1. /\ x \in Fields \ {"role", "mode", "reverse", "bidirectional", "timeGiven", "duration", "ok", "client",
                           "server", "streams", "omit", "protocol"}
        /\ x \in Counts => x \in {"rate", "limit"}
        /\ x \in Toggles => x = "rateGiven"
        /\ x \in ClientOnly => side = "client"
        /\ side \in {"any", "client", "server"}
    BY DEF Fields, Counts, Toggles, WhenOn, ClientOnly
  <2> HIDE DEF side
  <2>2. z = For(side, [w EXCEPT ![x] = y]) BY <1>2 DEF side
  <2> QED BY <1>2, <2>1, <2>2, SetKeeps
<1>3. DOMAIN t = Fields BY DEF Parsing, Typed
<1>4. ASSUME o.opt = "-b" PROVE GoesWell(t, o, TakesRate(t, o), options)
  <2> DEFINE c == IF o.second = 0 THEN t.burst ELSE o.second
             a1 == For("client", [t EXCEPT !["rate"] = v])
             a2 == For("client", [a1 EXCEPT !["rateGiven"] = TRUE])
             a3 == For("client", [a2 EXCEPT !["burst"] = c])
  <2>1. TakesRate(t, o) = Refused(t)
          \/ TakesRate(t, o) = For("client", [t EXCEPT !.rate = v, !.rateGiven = TRUE, !.burst = c])
    BY <1>3 DEF TakesRate, Fields
  <2>2. Parsing(a3, options) /\ a3.role = t.role /\ a3.ok = t.ok
    <3>1. Parsing(a1, options) /\ a1.role = t.role /\ a1.ok = t.ok BY <1>1, <1>2, <1>4
    <3> HIDE DEF a1
    <3> DEFINE x == "rateGiven"  yes == TRUE
    <3>2. Parsing(a2, options) /\ a2.role = a1.role /\ a2.ok = a1.ok
      <4>1. /\ a2 = For(IF x \in {"limit", "limitInterval"} THEN "server" ELSE "client", [a1 EXCEPT ![x] = yes])
            /\ x \in {"burst", "limitInterval", "rate", "rateGiven", "limit"} /\ yes \in BOOLEAN /\ x \notin {"rate", "limit"}
        OBVIOUS
      <4> HIDE DEF a2, x, yes
      <4> QED BY <1>2, <3>1, <4>1
    <3> HIDE DEF a2
    <3>3. Parsing(a3, options) /\ a3.role = a2.role /\ a3.ok = a2.ok BY <1>2, <3>2
    <3> QED BY <3>1, <3>2, <3>3
  <2>3. For("client", [t EXCEPT !.rate = v, !.rateGiven = TRUE, !.burst = c]) = a3
    <3> HIDE DEF c, v
    <3> QED BY <1>3 DEF For, Fields
  <2> QED BY <2>1, <2>2, <2>3 DEF GoesWell
<1>5. ASSUME o.opt = "--server-bitrate-limit" PROVE GoesWell(t, o, TakesLimit(t, o), options)
  <2> DEFINE c == IF o.second = 0 THEN t.limitInterval ELSE o.second
             a1 == For("server", [t EXCEPT !["limit"] = v])
             a2 == For("server", [a1 EXCEPT !["limitInterval"] = c])
  <2>1. TakesLimit(t, o) = Refused(t)
          \/ TakesLimit(t, o) = For("server", [t EXCEPT !.limit = v, !.limitInterval = c])
    BY <1>3 DEF TakesLimit, Fields
  <2>2. Parsing(a2, options) /\ a2.role = t.role /\ a2.ok = t.ok
    <3>4. v \in Nat BY <1>1, <1>5
    <3> HIDE DEF c, v
    <3>1. Parsing(a1, options) /\ a1.role = t.role /\ a1.ok = t.ok BY <1>2, <3>4
    <3> HIDE DEF a1
    <3> DEFINE x == "limitInterval"
    <3>2. x \in {"burst", "limitInterval", "rate", "rateGiven", "limit"} /\ x \in {"limit", "limitInterval"} OBVIOUS
    <3>3. Parsing(a2, options) /\ a2.role = a1.role /\ a2.ok = a1.ok
      <4>1. a2 = For(IF x \in {"limit", "limitInterval"} THEN "server" ELSE "client", [a1 EXCEPT ![x] = c]) BY <3>2
      <4> HIDE DEF a2
      <4>2. x \notin {"rate", "limit"} /\ x # "rateGiven" OBVIOUS
      <4> HIDE DEF x
      <4> QED BY <1>2, <3>1, <3>2, <4>1, <4>2
    <3> QED BY <3>1, <3>3
  <2>3. For("server", [t EXCEPT !.limit = v, !.limitInterval = c]) = a2
    <3> HIDE DEF c, v
    <3> QED BY <1>3 DEF For, Fields
  <2> QED BY <2>1, <2>2, <2>3 DEF GoesWell
<1> QED BY <1>4, <1>5

\* Role and direction.
LEMMA Turned ==
  ASSUME NEW t, NEW options, Parsing(t, options), NEW u, DOMAIN u = Fields,
         \A f \in Fields \ {"role", "mode", "reverse", "bidirectional", "client"} : u[f] = t[f],
         u.role \in {"none", "client", "server"}, u.reverse \in BOOLEAN, u.bidirectional \in BOOLEAN,
         u.client \in BOOLEAN,
         ~u.client => ~t.client /\ u.reverse = t.reverse /\ u.bidirectional = t.bidirectional,
         Directed(u)
  PROVE  Parsing(u, options) /\ u.ok = t.ok
<1>1. {"streams", "omit", "protocol", "role"} \cup Counts \cup Toggles \subseteq Fields
  BY DEF Fields, Counts, Toggles, WhenOn
<1>2. Typed(u)
  <2>1. ASSUME NEW f \in Counts PROVE u[f] \in Nat
    <3>1. t[f] \in Nat /\ f \notin {"role", "mode", "reverse", "bidirectional", "client"}
      BY DEF Parsing, Typed, Counts
    <3> QED BY <1>1, <3>1
  <2>2. ASSUME NEW f \in Toggles PROVE u[f] \in BOOLEAN
    <3>1. t[f] \in BOOLEAN /\ f \notin {"role", "mode"} BY DEF Parsing, Typed, Toggles, WhenOn
    <3> QED BY <1>1, <3>1
  <2>3. u.streams = t.streams /\ u.omit = t.omit /\ u.protocol = t.protocol BY <1>1
  <2>4. /\ t.streams \in Int /\ t.streams <= MaxStreams /\ t.omit \in 0..MaxOmit /\ t.protocol \in {"tcp", "udp"}
    BY DEF Parsing, Typed
  <2> QED BY <2>1, <2>2, <2>3, <2>4 DEF Typed
<1>3. u.ok = t.ok /\ u.timeGiven = t.timeGiven /\ u.duration = t.duration BY DEF Fields
<1>4. Timed(u, options) BY <1>3 DEF Parsing, Timed
<1>5. ClientMarked(u)
  <2>1. ASSUME ~u.client, NEW f \in ClientOnly PROVE u[f] = t[f]
    <3>1. f \in Fields \ {"role", "mode", "client"} BY DEF ClientOnly, WhenOn, Fields
    <3> QED BY <2>1, <3>1
  <2> QED BY <2>1 DEF ClientMarked, Parsing
<1> QED BY <1>2, <1>3, <1>4, <1>5 DEF Parsing

LEMMA TakesDirectionKeeps ==
  ASSUME NEW t, NEW options, Parsing(t, options), NEW o \in options, AnOption(o), o.opt \in {"-R", "--bidir"}
  PROVE  GoesWell(t, o, TakesDirection(t, o), options)
<1>1. /\ DOMAIN t = Fields /\ t.client \in BOOLEAN /\ t.reverse \in BOOLEAN /\ t.bidirectional \in BOOLEAN
      /\ t.role \in {"none", "client", "server"} /\ Directed(t)
  BY DEF Parsing, Typed, Toggles, WhenOn
<1>2. {"role", "mode", "reverse", "bidirectional", "client"} \subseteq Fields BY DEF Fields
<1>3. CASE o.opt = "-R" /\ t.bidirectional BY <1>3 DEF TakesDirection, GoesWell
<1>4. CASE o.opt = "--bidir" /\ t.reverse BY <1>4 DEF TakesDirection, GoesWell
<1>5. CASE o.opt = "-R" /\ ~t.bidirectional
  <2> DEFINE u == For("client", SetReverse(t, TRUE))
  <2>1. /\ DOMAIN u = Fields
        /\ \A f \in Fields \ {"role", "mode", "reverse", "bidirectional", "client"} : u[f] = t[f]
        /\ u.role = t.role /\ u.client = TRUE /\ u.reverse = TRUE /\ u.bidirectional = t.bidirectional
        /\ u.mode = IF t.role = "none" THEN t.mode ELSE Against(t.role)
    BY <1>1, <1>2 DEF For, SetReverse
  <2> HIDE DEF u
  <2>2. Directed(u) BY <1>5, <2>1 DEF Directed
  <2>3. Parsing(u, options) /\ u.ok = t.ok BY <1>1, <2>1, <2>2, Turned
  <2>4. TakesDirection(t, o) = u BY <1>5 DEF TakesDirection, u
  <2> QED BY <2>1, <2>3, <2>4 DEF GoesWell
<1>6. CASE o.opt = "--bidir" /\ ~t.reverse
  <2> DEFINE u == For("client", SetBidirectional(t))
  <2>1. /\ DOMAIN u = Fields
        /\ \A f \in Fields \ {"role", "mode", "reverse", "bidirectional", "client"} : u[f] = t[f]
        /\ u.role = t.role /\ u.client = TRUE /\ u.reverse = t.reverse /\ u.bidirectional = TRUE
        /\ u.mode = "both"
    BY <1>1, <1>2 DEF For, SetBidirectional
  <2> HIDE DEF u
  <2>2. Directed(u) BY <1>6, <2>1 DEF Directed
  <2>3. Parsing(u, options) /\ u.ok = t.ok BY <1>1, <2>1, <2>2, Turned
  <2>4. TakesDirection(t, o) = u BY <1>6 DEF TakesDirection, u
  <2> QED BY <2>1, <2>3, <2>4 DEF GoesWell
<1> QED BY <1>3, <1>4, <1>5, <1>6

\* A role is taken once.
LEMMA TakesRoleKeeps ==
  ASSUME NEW t, NEW options, Parsing(t, options), NEW o, o.opt \in DOMAIN Roles, NEW u, u = TakesRole(t, o)
  PROVE  /\ u = Refused(t) \/ (Parsing(u, options) /\ u.ok = t.ok /\ u.role = Roles[o.opt])
         /\ t.role \notin {"none", Roles[o.opt]} => u = Refused(t)
         /\ Roles[o.opt] \in {"client", "server"}
<1>1. /\ DOMAIN t = Fields /\ t.client \in BOOLEAN /\ t.reverse \in BOOLEAN /\ t.bidirectional \in BOOLEAN
      /\ t.role \in {"none", "client", "server"} /\ Directed(t)
  BY DEF Parsing, Typed, Toggles, WhenOn
<1>2. {"role", "mode", "reverse", "bidirectional", "client"} \subseteq Fields BY DEF Fields
<1> DEFINE r == Roles[o.opt]
<1>3. r \in {"client", "server"} BY DEF Roles
<1> HIDE DEF r
<1>4. u = IF t.role \notin {"none", r} THEN Refused(t) ELSE SetRole(t, r) BY DEF TakesRole, r
<1>5. CASE t.role \in {"none", r}
  <2>1. u = SetRole(t, r) BY <1>4, <1>5
  <2>2. /\ DOMAIN u = Fields
        /\ \A f \in Fields \ {"role", "mode", "reverse", "bidirectional", "client"} : u[f] = t[f]
        /\ u.role = r /\ u.client = t.client /\ u.reverse = t.reverse /\ u.bidirectional = t.bidirectional
        /\ u.mode = IF t.reverse THEN Against(r) ELSE IF t.bidirectional THEN "both" ELSE Straight(r)
    BY <1>1, <1>2, <2>1 DEF SetRole
  <2>3. Directed(u) BY <1>1, <2>2 DEF Directed
  <2>4. Parsing(u, options) /\ u.ok = t.ok BY <1>1, <1>3, <2>2, <2>3, Turned
  <2> QED BY <1>3, <1>5, <2>2, <2>4 DEF r
<1>6. CASE t.role \notin {"none", r} BY <1>3, <1>4, <1>6 DEF r
<1> QED BY <1>5, <1>6

LEMMA TakesOthersKeeps ==
  ASSUME NEW t, NEW options, Parsing(t, options), NEW o \in options, AnOption(o)
  PROVE  /\ o.opt = "--dscp" => GoesWell(t, o, TakesDscp(t, o), options)
         /\ o.opt = "-u" => GoesWell(t, o, For("client", [t EXCEPT !.protocol = "udp"]), options)
         /\ o.opt = "--gsro" => GoesWell(t, o, [t EXCEPT !.gso = TRUE, !.gro = TRUE], options)
<1>1. ASSUME NEW x \in {"tos", "protocol", "gso", "gro"}, NEW y, NEW w, Parsing(w, options),
             x = "protocol" => y = "udp", x = "gso" => y \in BOOLEAN,
             NEW side \in {"any", "client"}, x \in {"tos", "protocol"} => side = "client",
             NEW z, z = For(side, [w EXCEPT ![x] = y])
      PROVE  Parsing(z, options) /\ z.role = w.role /\ z.ok = w.ok
  <2>1. /\ x \in Fields \ {"role", "mode", "reverse", "bidirectional", "timeGiven", "duration", "ok", "client",
                           "server", "streams", "omit"}
        /\ x \notin Counts
        /\ x \in Toggles => x = "gso"
        /\ x \in ClientOnly => x \in {"tos", "protocol"}
    BY DEF Fields, Counts, Toggles, WhenOn, ClientOnly
  <2> QED BY <1>1, <2>1, SetKeeps
<1>2. DOMAIN t = Fields BY DEF Parsing, Typed
<1>3. ASSUME o.opt = "--dscp" PROVE GoesWell(t, o, TakesDscp(t, o), options)
  <2> DEFINE x == "tos"  y == o.n * 4  side == "client"  z == For(side, [t EXCEPT ![x] = y])
  <2>1. TakesDscp(t, o) = Refused(t) \/ TakesDscp(t, o) = z BY DEF TakesDscp
  <2>2. x = "tos" /\ side = "client" OBVIOUS
  <2>3. Parsing(z, options) /\ z.role = t.role /\ z.ok = t.ok
    <3>1. x \in {"tos", "protocol", "gso", "gro"} /\ side \in {"any", "client"} /\ x # "protocol" /\ x # "gso"
      BY <2>2
    <3>2. z = For(side, [t EXCEPT ![x] = y]) OBVIOUS
    <3> HIDE DEF x, y, side, z
    <3> QED BY <1>1, <2>2, <3>1, <3>2
  <2> QED BY <2>1, <2>3 DEF GoesWell
<1>4. ASSUME o.opt = "-u" PROVE GoesWell(t, o, For("client", [t EXCEPT !.protocol = "udp"]), options)
  <2> DEFINE x == "protocol"  y == "udp"  side == "client"  z == For(side, [t EXCEPT ![x] = y])
  <2>2. x = "protocol" /\ side = "client" /\ y = "udp" OBVIOUS
  <2>3. Parsing(z, options) /\ z.role = t.role /\ z.ok = t.ok
    <3>1. x \in {"tos", "protocol", "gso", "gro"} /\ side \in {"any", "client"} /\ x # "gso" BY <2>2
    <3>2. z = For(side, [t EXCEPT ![x] = y]) OBVIOUS
    <3> HIDE DEF x, y, side, z
    <3> QED BY <1>1, <2>2, <3>1, <3>2
  <2> QED BY <2>3 DEF GoesWell
<1>5. ASSUME o.opt = "--gsro" PROVE GoesWell(t, o, [t EXCEPT !.gso = TRUE, !.gro = TRUE], options)
  <2> DEFINE x == "gso"  y == TRUE  side == "any"  z == For(side, [t EXCEPT ![x] = y])
             x2 == "gro"  z2 == For(side, [z EXCEPT ![x2] = y])
  <2>1. /\ x = "gso" /\ side = "any" /\ y \in BOOLEAN /\ x2 = "gro" /\ x2 # "protocol" /\ x # "protocol" /\ x2 # "gso"
    OBVIOUS
  <2>2. [t EXCEPT !.gso = TRUE, !.gro = TRUE] = z2 BY <1>2 DEF For, Fields
  <2>3. z = For(side, [t EXCEPT ![x] = y]) /\ z2 = For(side, [z EXCEPT ![x2] = y]) OBVIOUS
  <2>4. /\ x \in {"tos", "protocol", "gso", "gro"} /\ side \in {"any", "client"} /\ x \notin {"tos", "protocol"}
        /\ x2 \in {"tos", "protocol", "gso", "gro"} /\ x2 \notin {"tos", "protocol"}
    BY <2>1
  <2>5. Parsing(z, options) /\ z.role = t.role /\ z.ok = t.ok
    <3> HIDE DEF x, y, side, z
    <3> QED BY <1>1, <2>1, <2>3, <2>4
  <2>6. Parsing(z2, options) /\ z2.role = z.role /\ z2.ok = z.ok
    <3>1. /\ Parsing(z, options) /\ z2 = For(side, [z EXCEPT ![x2] = y]) /\ side \in {"any", "client"}
          /\ x2 \in {"tos", "protocol", "gso", "gro"} /\ x2 \notin {"tos", "protocol"} /\ x2 # "gso"
          /\ x2 # "protocol"
      BY <2>1, <2>3, <2>4, <2>5
    <3> HIDE DEF x, y, side, z, x2, z2
    <3> QED BY <1>1, <3>1
  <2> QED BY <2>2, <2>5, <2>6 DEF GoesWell
<1> QED BY <1>3, <1>4, <1>5

\* Which of the cases of the switch an option is.
LEMMA TakesIs ==
  ASSUME NEW t, NEW o, AnOption(o)
  PROVE  /\ o.opt \in DOMAIN Numbers => Takes(t, o) = TakesNumber(t, o)
         /\ o.opt \in DOMAIN Switches => Takes(t, o) = TakesSwitch(t, o)
         /\ o.opt \in DOMAIN Sizes => Takes(t, o) = TakesSize(t, o)
         /\ o.opt \in DOMAIN Roles => Takes(t, o) = TakesRole(t, o)
         /\ o.opt \in {"-R", "--bidir"} => Takes(t, o) = TakesDirection(t, o)
         /\ o.opt = "-b" => Takes(t, o) = TakesRate(t, o)
         /\ o.opt = "--server-bitrate-limit" => Takes(t, o) = TakesLimit(t, o)
         /\ o.opt = "--dscp" => Takes(t, o) = TakesDscp(t, o)
         /\ o.opt = "-u" => Takes(t, o) = For("client", [t EXCEPT !.protocol = "udp"])
         /\ o.opt = "--gsro" => Takes(t, o) = [t EXCEPT !.gso = TRUE, !.gro = TRUE]
         /\ o.opt \in Unsupported => Takes(t, o) = Refused(t)
         /\ \/ o.opt \in DOMAIN Numbers \cup DOMAIN Switches \cup DOMAIN Sizes \cup DOMAIN Roles \cup Unsupported
            \/ o.opt \in {"-R", "--bidir", "-b", "--server-bitrate-limit", "--dscp", "-u", "--gsro"}
<1> DEFINE n == {"-p", "-i", "-t", "-P", "--cport", "-M", "-S", "-O", "--idle-timeout", "--server-max-duration",
                 "--rcv-timeout"}
           w == {"-D", "-1", "-N", "-Z", "--repeating-payload", "-F", "--get-server-output", "--udp-counters-64bit",
                 "--skip-rx-copy"}
           z == {"-n", "-k", "-l", "-w", "--pacing-timer", "--connect-timeout"}
           other == {"-b", "--server-bitrate-limit", "--dscp", "-u", "--gsro"}
<1>1. DOMAIN Numbers \subseteq n /\ DOMAIN Switches \subseteq w /\ DOMAIN Sizes = z /\ DOMAIN Roles = {"-s", "-c"}
  BY NumbersAre, SwitchesAre DEF Sizes, Roles
<1>2. /\ \A x \in w : x \notin n
      /\ \A x \in z : x \notin n /\ x \notin w
      /\ \A x \in {"-s", "-c"} : x \notin n /\ x \notin w /\ x \notin z
      /\ \A x \in {"-R", "--bidir"} : x \notin n /\ x \notin w /\ x \notin z /\ x \notin {"-s", "-c"}
      /\ \A x \in other : x \notin n /\ x \notin w /\ x \notin z /\ x \notin {"-s", "-c"} /\ x \notin {"-R", "--bidir"}
      /\ \A x \in Unsupported : /\ x \notin n /\ x \notin w /\ x \notin z /\ x \notin {"-s", "-c"}
                                /\ x \notin {"-R", "--bidir"} /\ x \notin other
  BY DEF Unsupported
<1>3. other = {"-b", "--server-bitrate-limit", "--dscp", "-u", "--gsro"} OBVIOUS
<1> HIDE DEF n, w, z, other
<1> DEFINE isNumber == o.opt \in DOMAIN Numbers  isSwitch == o.opt \in DOMAIN Switches
           isSize == o.opt \in DOMAIN Sizes  isRole == o.opt \in DOMAIN Roles
           turns == o.opt \in {"-R", "--bidir"}  isOther == o.opt \in other  isRefused == o.opt \in Unsupported
<1>4. /\ isNumber => ~isSwitch /\ ~isSize /\ ~isRole /\ ~turns /\ ~isOther /\ ~isRefused
      /\ isSwitch => ~isSize /\ ~isRole /\ ~turns /\ ~isOther /\ ~isRefused
      /\ isSize => ~isRole /\ ~turns /\ ~isOther /\ ~isRefused
      /\ isRole => ~turns /\ ~isOther /\ ~isRefused
      /\ turns => ~isOther /\ ~isRefused
      /\ isOther => ~isRefused
  BY <1>1, <1>2
<1>5. isOther <=> \/ o.opt = "-b" \/ o.opt = "--server-bitrate-limit" \/ o.opt = "--dscp" \/ o.opt = "-u"
                  \/ o.opt = "--gsro"
  BY <1>3
<1>6. Takes(t, o) =
         CASE isNumber -> TakesNumber(t, o)
           [] isSwitch -> TakesSwitch(t, o)
           [] isSize   -> TakesSize(t, o)
           [] isRole   -> TakesRole(t, o)
           [] turns    -> TakesDirection(t, o)
           [] o.opt = "-b" -> TakesRate(t, o)
           [] o.opt = "--server-bitrate-limit" -> TakesLimit(t, o)
           [] o.opt = "--dscp" -> TakesDscp(t, o)
           [] o.opt = "-u" -> For("client", [t EXCEPT !.protocol = "udp"])
           [] o.opt = "--gsro" -> [t EXCEPT !.gso = TRUE, !.gro = TRUE]
           [] isRefused -> Refused(t)
  BY DEF Takes
<1>7. o.opt \in Opts BY DEF AnOption
<1>8. isNumber \/ isSwitch \/ isSize \/ isRole \/ turns \/ isOther \/ isRefused
  BY <1>3, <1>7 DEF Opts
<1> HIDE DEF isNumber, isSwitch, isSize, isRole, turns, isOther, isRefused
<1>9. /\ isNumber => Takes(t, o) = TakesNumber(t, o)
      /\ isSwitch => Takes(t, o) = TakesSwitch(t, o)
      /\ isSize => Takes(t, o) = TakesSize(t, o)
      /\ isRole => Takes(t, o) = TakesRole(t, o)
      /\ turns => Takes(t, o) = TakesDirection(t, o)
      /\ isRefused => Takes(t, o) = Refused(t)
  BY <1>4, <1>5, <1>6
<1>10. isOther => /\ o.opt = "-b" => Takes(t, o) = TakesRate(t, o)
                  /\ o.opt = "--server-bitrate-limit" => Takes(t, o) = TakesLimit(t, o)
                  /\ o.opt = "--dscp" => Takes(t, o) = TakesDscp(t, o)
                  /\ o.opt = "-u" => Takes(t, o) = For("client", [t EXCEPT !.protocol = "udp"])
                  /\ o.opt = "--gsro" => Takes(t, o) = [t EXCEPT !.gso = TRUE, !.gro = TRUE]
  BY <1>4, <1>5, <1>6
<1> QED BY <1>5, <1>8, <1>9, <1>10 DEF isNumber, isSwitch, isSize, isRole, turns, isOther, isRefused

\* One round of the loop.
LEMMA TakesKeeps ==
  ASSUME NEW t, NEW options, Parsing(t, options), NEW o \in options, AnOption(o)
  PROVE  /\ GoesWell(t, o, Takes(t, o), options)
         /\ o.opt \in DOMAIN Roles => Takes(t, o) = TakesRole(t, o)
<1> DEFINE u == Takes(t, o)
<1>1. ASSUME o.opt \in DOMAIN Numbers PROVE GoesWell(t, o, u, options)
  <2>1. u = TakesNumber(t, o) BY <1>1, TakesIs
  <2> QED BY <1>1, <2>1, TakesNumberKeeps
<1>2. ASSUME o.opt \in DOMAIN Switches PROVE GoesWell(t, o, u, options)
  <2>1. u = TakesSwitch(t, o) BY <1>2, TakesIs
  <2> QED BY <1>2, <2>1, TakesSwitchKeeps
<1>3. ASSUME o.opt \in DOMAIN Sizes PROVE GoesWell(t, o, u, options)
  <2>1. u = TakesSize(t, o) BY <1>3, TakesIs
  <2> QED BY <1>3, <2>1, TakesSizeKeeps
<1>4. ASSUME o.opt \in DOMAIN Roles PROVE GoesWell(t, o, u, options)
  <2>1. u = TakesRole(t, o) BY <1>4, TakesIs
  <2>2. u = Refused(t) \/ (Parsing(u, options) /\ u.ok = t.ok) BY <1>4, <2>1, TakesRoleKeeps
  <2> QED BY <1>4, <2>2 DEF GoesWell
<1>5. ASSUME o.opt \in {"-R", "--bidir"} PROVE GoesWell(t, o, u, options)
  <2>1. u = TakesDirection(t, o) BY <1>5, TakesIs
  <2> QED BY <1>5, <2>1, TakesDirectionKeeps
<1>6. ASSUME o.opt \in {"-b", "--server-bitrate-limit"} PROVE GoesWell(t, o, u, options)
  <2>1. /\ o.opt = "-b" => u = TakesRate(t, o)
        /\ o.opt = "--server-bitrate-limit" => u = TakesLimit(t, o)
    BY TakesIs
  <2> QED BY <1>6, <2>1, TakesRateKeeps
<1>7. ASSUME o.opt \in {"--dscp", "-u", "--gsro"} PROVE GoesWell(t, o, u, options)
  <2>1. CASE o.opt = "--dscp"
    <3>1. u = TakesDscp(t, o) BY <2>1, TakesIs
    <3>2. GoesWell(t, o, TakesDscp(t, o), options) BY <2>1, TakesOthersKeeps
    <3> QED BY <3>1, <3>2
  <2>2. CASE o.opt = "-u"
    <3>1. u = For("client", [t EXCEPT !.protocol = "udp"]) BY <2>2, TakesIs
    <3>2. GoesWell(t, o, For("client", [t EXCEPT !.protocol = "udp"]), options) BY <2>2, TakesOthersKeeps
    <3> QED BY <3>1, <3>2
  <2>3. CASE o.opt = "--gsro"
    <3> DEFINE v == [t EXCEPT !.gso = TRUE, !.gro = TRUE]
    <3>1. u = v BY <2>3, TakesIs
    <3>2. GoesWell(t, o, v, options) BY <2>3, TakesOthersKeeps
    <3> HIDE DEF u, v
    <3> QED BY <3>1, <3>2
  <2> QED BY <1>7, <2>1, <2>2, <2>3
<1>8. ASSUME o.opt \in Unsupported PROVE GoesWell(t, o, u, options)
  <2>1. u = Refused(t) BY <1>8, TakesIs
  <2> QED BY <2>1 DEF GoesWell
<1>9. GoesWell(t, o, u, options)
  <2> HIDE DEF u
  <2> QED BY <1>1, <1>2, <1>3, <1>4, <1>5, <1>6, <1>7, <1>8, TakesIs
<1> QED BY <1>9, TakesIs
-----------------------------------------------------------------------------
(* What the checks behind the loop and the setters of an app leave.         *)

\* The test ends by at most one of time, bytes and blocks; only -t 0 has no end.
Ended(t, options) ==
  /\ ~(t.bytes # 0 /\ t.blocks # 0)
  /\ t.duration # 0 => t.bytes = 0 /\ t.blocks = 0
  /\ t.duration = 0 /\ t.bytes = 0 /\ t.blocks = 0 => \E o \in options : o.opt = "-t"

ClientReady(t, options) ==
  /\ Typed(t) /\ Directed(t) /\ Ended(t, options)
  /\ t.role = "client" /\ (t.protocol = "tcp" => t.blksize # 0)

\* What a server has not set it can only learn from its client.
ServerReady(t) ==
  /\ Typed(t) /\ Directed(t) /\ t.role = "server"
  /\ \A f \in {"mss", "window", "rate", "burst", "tos"} : t[f] = 0
  /\ \A f \in WhenOn : t[f] = FALSE

LEMMA RefusedIs ==
  ASSUME NEW t, Typed(t)
  PROVE  Typed(Refused(t)) /\ Refused(t).ok = FALSE
<1>1. {"streams", "omit", "protocol", "role"} \cup Counts \cup Toggles \subseteq Fields
  BY DEF Fields, Counts, Toggles, WhenOn
<1> DEFINE u == Refused(t)
<1>2. DOMAIN t = Fields BY DEF Typed
<1>3. "ok" \in Fields BY DEF Fields
<1>4. DOMAIN u = Fields /\ u.ok = FALSE /\ \A f \in Fields \ {"ok"} : u[f] = t[f] BY <1>2, <1>3 DEF Refused
<1> HIDE DEF u
<1>5. \A f \in Counts : u[f] \in Nat
  <2>1. \A f \in Counts : f \in Fields \ {"ok"} BY <1>1 DEF Counts
  <2> QED BY <1>4, <2>1 DEF Typed
<1>6. \A f \in Toggles : u[f] \in BOOLEAN BY <1>1, <1>4 DEF Typed
<1>7. u.streams = t.streams /\ u.omit = t.omit /\ u.protocol = t.protocol /\ u.role = t.role BY <1>1, <1>4
<1> QED BY <1>4, <1>5, <1>6, <1>7 DEF Typed, u

LEMMA GsoKeeps ==
  ASSUME NEW t, DOMAIN t = Fields
  PROVE  /\ DOMAIN GsoFields(t) = Fields
         /\ \A f \in Fields \ {"gsoSize", "gsoBuffer"} : GsoFields(t)[f] = t[f]
BY DEF GsoFields, Fields

\* What is derived is sizes, rate and end.
Derived == {"blksize", "rate", "gsoSize", "gsoBuffer", "bytes", "duration", "limitWindow"}

LEMMA DerivedKeeps ==
  ASSUME NEW t, Typed(t), NEW u, DOMAIN u = Fields, \A f \in Fields \ Derived : u[f] = t[f],
         u.blksize \in Nat, u.rate \in Nat, u.bytes \in Nat, u.duration \in Nat
  PROVE  Typed(u) /\ (Directed(t) => Directed(u)) /\ u.role = t.role /\ u.ok = t.ok
<1>1. {"streams", "omit", "protocol", "role"} \cup Counts \cup Toggles \subseteq Fields
  BY DEF Fields, Counts, Toggles, WhenOn
<1>2. ASSUME NEW f \in Counts PROVE u[f] \in Nat
  <2>1. f \in {"blksize", "rate", "bytes", "duration"} \/ f \in Fields \ Derived BY <1>1 DEF Counts, Derived
  <2> QED BY <2>1 DEF Typed
<1>3. ASSUME NEW f \in Toggles PROVE u[f] \in BOOLEAN
  <2>1. f \in Fields \ Derived BY <1>1 DEF Toggles, WhenOn, Derived
  <2> QED BY <2>1 DEF Typed
<1>4. /\ u.streams = t.streams /\ u.omit = t.omit /\ u.protocol = t.protocol /\ u.role = t.role /\ u.ok = t.ok
      /\ u.mode = t.mode /\ u.reverse = t.reverse /\ u.bidirectional = t.bidirectional
  <2>1. {"streams", "omit", "protocol", "role", "ok", "mode", "reverse", "bidirectional"} \subseteq Fields \ Derived
    BY DEF Fields, Derived
  <2> QED BY <2>1
<1> QED BY <1>2, <1>3, <1>4 DEF Typed, Directed

LEMMA SizesAre ==
  ASSUME NEW t, Typed(t)
  PROVE  LET u == WithSizes(t)
         IN /\ DOMAIN u = Fields
            /\ \A f \in Fields \ {"blksize", "rate", "gsoSize", "gsoBuffer"} : u[f] = t[f]
            /\ u.blksize = IF t.blksize = 0 /\ t.protocol = "tcp" THEN DefaultTcpBlock ELSE t.blksize
            /\ u.rate = IF t.rateGiven THEN t.rate ELSE IF t.protocol = "udp" THEN UdpRate ELSE 0
            /\ u.blksize \in Nat /\ u.rate \in Nat
<1> DEFINE b == IF t.blksize = 0 /\ t.protocol = "tcp" THEN DefaultTcpBlock ELSE t.blksize
           r == IF t.rateGiven THEN t.rate ELSE IF t.protocol = "udp" THEN UdpRate ELSE 0
           w == [t EXCEPT !.blksize = b, !.rate = r]
<1>1. DOMAIN t = Fields /\ t.blksize \in Nat /\ t.rate \in Nat BY DEF Typed, Counts
<1>2. b \in Nat /\ r \in Nat BY <1>1 DEF DefaultTcpBlock, UdpRate
<1> HIDE DEF b, r
<1>3. /\ DOMAIN w = Fields /\ w.blksize = b /\ w.rate = r
      /\ \A f \in Fields \ {"blksize", "rate"} : w[f] = t[f]
  BY <1>1 DEF Fields
<1>4. WithSizes(t) = GsoFields(w) BY <1>1 DEF WithSizes, b, r, Fields
<1> HIDE DEF w
<1> DEFINE u == GsoFields(w)
<1>5. DOMAIN u = Fields /\ \A f \in Fields \ {"gsoSize", "gsoBuffer"} : u[f] = w[f] BY <1>3, GsoKeeps
<1> HIDE DEF u
<1>6. "blksize" \in Fields \ {"gsoSize", "gsoBuffer"} /\ "rate" \in Fields \ {"gsoSize", "gsoBuffer"} BY DEF Fields
<1>7. /\ DOMAIN u = Fields /\ u.blksize = b /\ u.rate = r
      /\ \A f \in Fields \ {"blksize", "rate", "gsoSize", "gsoBuffer"} : u[f] = t[f]
  BY <1>3, <1>5, <1>6
<1> QED BY <1>2, <1>4, <1>7 DEF u, b, r

LEMMA EndIs ==
  ASSUME NEW t, Typed(t), NEW n \in Nat
  PROVE  LET u == WithEnd(t, n)
         IN /\ DOMAIN u = Fields /\ \A f \in Fields \ {"bytes", "duration"} : u[f] = t[f]
            /\ u.bytes \in Nat /\ u.duration \in Nat
            /\ t.role # "client" => u.bytes = t.bytes
            /\ u.duration = IF (u.bytes # 0 \/ u.blocks # 0) /\ ~u.timeGiven THEN 0 ELSE t.duration
<1>1. DOMAIN t = Fields /\ t.bytes \in Nat /\ t.duration \in Nat BY DEF Typed, Counts
<1> DEFINE w == IF t.bytes = 0 /\ t.blocks = 0 /\ ~t.timeGiven /\ t.file /\ t.role = "client"
                  THEN [t EXCEPT !.bytes = n] ELSE t
<1>2. /\ DOMAIN w = Fields /\ w.bytes \in Nat /\ \A f \in Fields \ {"bytes"} : w[f] = t[f]
      /\ t.role # "client" => w.bytes = t.bytes
  BY <1>1 DEF Fields
<1>3. WithEnd(t, n) = IF (w.bytes # 0 \/ w.blocks # 0) /\ ~t.timeGiven THEN [w EXCEPT !.duration = 0] ELSE w
  BY DEF WithEnd
<1> HIDE DEF w
<1> DEFINE u == WithEnd(t, n)
<1>4. /\ DOMAIN u = Fields /\ \A f \in Fields \ {"duration"} : u[f] = w[f]
      /\ u.duration = IF (w.bytes # 0 \/ w.blocks # 0) /\ ~t.timeGiven THEN 0 ELSE w.duration
  BY <1>2, <1>3 DEF Fields
<1> HIDE DEF u
<1>5. /\ u.bytes = w.bytes /\ u.blocks = w.blocks /\ w.blocks = t.blocks /\ u.timeGiven = t.timeGiven
      /\ w.duration = t.duration /\ \A f \in Fields \ {"bytes", "duration"} : u[f] = t[f]
  <2>1. {"bytes", "blocks", "timeGiven"} \subseteq Fields \ {"duration"} /\ "duration" \in Fields \ {"bytes"}
        /\ "blocks" \in Fields \ {"bytes"} /\ "timeGiven" \in Fields \ {"bytes", "duration"}
    BY DEF Fields
  <2> QED BY <1>2, <1>4, <2>1
<1> QED BY <1>1, <1>2, <1>4, <1>5 DEF u

\* iperf_parse_arguments either refuses, or leaves a test that is ready.
LEMMA CheckedIs ==
  ASSUME NEW t, Typed(t), NEW n \in Nat, NEW options, t.ok => Parsing(t, options), NEW u, u = Checked(t, n)
  PROVE  /\ Typed(u)
         /\ u.ok => /\ t.ok /\ u.role = t.role
                    /\ t.role = "client" => ClientReady(u, options)
                    /\ t.role = "server" => ServerReady(u)
<1> DEFINE w == WithSizes(t)  e == WithEnd(w, n)  v == WithWindow(e)
           fits == t.ok /\ RolesFit(t) /\ ~(t.file /\ t.protocol = "udp") /\ BlockFits(t) /\ EndsFit(e)
<1>1. u = IF fits THEN v ELSE Refused(t) BY DEF Checked
<1>2. DOMAIN t = Fields /\ t.duration \in Nat /\ t.bytes \in Nat BY DEF Typed, Counts
<1>3. /\ DOMAIN w = Fields
      /\ \A f \in Fields \ {"blksize", "rate", "gsoSize", "gsoBuffer"} : w[f] = t[f]
      /\ w.blksize = IF t.blksize = 0 /\ t.protocol = "tcp" THEN DefaultTcpBlock ELSE t.blksize
      /\ w.rate = IF t.rateGiven THEN t.rate ELSE IF t.protocol = "udp" THEN UdpRate ELSE 0
      /\ w.blksize \in Nat /\ w.rate \in Nat
  BY SizesAre
<1> HIDE DEF w
<1>4. /\ w.bytes = t.bytes /\ w.duration = t.duration /\ w.role = t.role
      /\ \A f \in Fields \ Derived : w[f] = t[f]
  BY <1>3 DEF Derived, Fields
<1>5. Typed(w) BY <1>2, <1>3, <1>4, DerivedKeeps
<1>6. /\ DOMAIN e = Fields /\ \A f \in Fields \ {"bytes", "duration"} : e[f] = w[f]
      /\ e.bytes \in Nat /\ e.duration \in Nat
      /\ w.role # "client" => e.bytes = w.bytes
      /\ e.duration = IF (e.bytes # 0 \/ e.blocks # 0) /\ ~e.timeGiven THEN 0 ELSE w.duration
  BY <1>5, EndIs
<1> HIDE DEF e
<1>7. DOMAIN v = Fields /\ \A f \in Fields \ {"limitWindow"} : v[f] = e[f] BY <1>6 DEF WithWindow
<1> HIDE DEF v
<1>8. /\ \A f \in Fields \ Derived : v[f] = t[f]
      /\ v.blksize = w.blksize /\ v.rate = w.rate /\ v.bytes = e.bytes /\ v.duration = e.duration
  <2>1. {"blksize", "rate", "bytes", "duration"} \subseteq Fields \ {"limitWindow"}
        /\ {"blksize", "rate"} \subseteq Fields \ {"bytes", "duration"}
        /\ \A f \in Fields \ Derived : f \in Fields \ {"limitWindow"} /\ f \in Fields \ {"bytes", "duration"}
    BY DEF Fields, Derived
  <2> QED BY <1>4, <1>6, <1>7, <2>1
<1>9. Typed(v) /\ (Directed(t) => Directed(v)) /\ v.role = t.role /\ v.ok = t.ok
  BY <1>3, <1>6, <1>7, <1>8, DerivedKeeps
<1>10. CASE ~fits
  <2>1. u = Refused(t) BY <1>1, <1>10
  <2> QED BY <2>1, RefusedIs
<1>11. CASE fits
  <2>1. u = v BY <1>1, <1>11
  <2>2. Parsing(t, options) /\ t.ok /\ RolesFit(t) /\ EndsFit(e) BY <1>11
  <2>3. ASSUME t.role = "client" PROVE ClientReady(v, options)
    <3>1. /\ v.blocks = e.blocks /\ e.timeGiven = t.timeGiven /\ v.protocol = t.protocol
      <4>1. "blocks" \in Fields \ {"limitWindow"} /\ "protocol" \in Fields \ Derived
            /\ "timeGiven" \in Fields \ {"bytes", "duration"}
            /\ "timeGiven" \in Fields \ {"blksize", "rate", "gsoSize", "gsoBuffer"}
        BY DEF Fields, Derived
      <4> QED BY <1>3, <1>6, <1>7, <1>8, <4>1
    <3>2. Ended(v, options)
      <4>1. ~(e.timeGiven /\ (e.bytes # 0 \/ e.blocks # 0)) /\ ~(e.bytes # 0 /\ e.blocks # 0)
        BY <2>2 DEF EndsFit
      <4>2. /\ t.timeGiven => \E o \in options : o.opt = "-t"
            /\ ~t.timeGiven => t.duration = 10
        BY <2>2 DEF Parsing, Timed
      <4> QED BY <1>4, <1>6, <1>8, <3>1, <4>1, <4>2 DEF Ended
    <3>3. t.protocol = "tcp" => v.blksize # 0 BY <1>3, <1>8 DEF DefaultTcpBlock
    <3>4. Directed(v) BY <1>9, <2>2 DEF Parsing
    <3> QED BY <1>9, <2>3, <3>1, <3>2, <3>3, <3>4 DEF ClientReady
  <2>4. ASSUME t.role = "server" PROVE ServerReady(v)
    <3>1. ~t.client BY <2>2, <2>4 DEF RolesFit
    <3>2. \A f \in ClientOnly : t[f] = Defaults[f] BY <2>2, <3>1 DEF Parsing, ClientMarked
    <3>3. /\ t.mss = 0 /\ t.window = 0 /\ t.rate = 0 /\ t.burst = 0 /\ t.tos = 0 /\ t.protocol = "tcp"
          /\ t.rateGiven = FALSE /\ \A f \in WhenOn : t[f] = FALSE
      <4>1. {"mss", "window", "rate", "burst", "tos", "protocol", "rateGiven"} \subseteq ClientOnly
            /\ WhenOn \subseteq ClientOnly
        BY DEF ClientOnly
      <4>2. "rateGiven" \in Toggles \ {"ok"} /\ \A f \in WhenOn : f \in Toggles \ {"ok"} BY DEF Toggles, WhenOn
      <4> QED BY <3>2, <4>1, <4>2, DefaultsAre
    <3>4. v.rate = 0 BY <1>3, <1>8, <3>3
    <3>5. /\ \A f \in {"mss", "window", "burst", "tos"} : v[f] = t[f]
          /\ \A f \in WhenOn : v[f] = t[f]
      <4>1. {"mss", "window", "burst", "tos"} \subseteq Fields \ Derived /\ WhenOn \subseteq Fields \ Derived
        BY DEF Fields, Derived, WhenOn
      <4> QED BY <1>8, <4>1
    <3>6. Directed(v) BY <1>9, <2>2 DEF Parsing
    <3> QED BY <1>9, <2>4, <3>3, <3>4, <3>5, <3>6 DEF ServerReady
  <2> QED BY <1>9, <2>1, <2>2, <2>3, <2>4
<1> QED BY <1>10, <1>11

\* Before the loop a test is the default one.
LEMMA DefaultsReady == ASSUME NEW options PROVE Parsing(Defaults, options) /\ Defaults.ok /\ Defaults.role = "none"
<1>1. /\ \A f \in Counts : Defaults[f] \in Nat
      /\ \A f \in Toggles : Defaults[f] \in BOOLEAN
  <2>1. \A f \in Counts : Defaults[f] = 0 \/ Defaults[f] = 10 BY DefaultsAre DEF Counts
  <2>2. \A f \in Toggles : Defaults[f] = FALSE \/ Defaults[f] = TRUE
    <3>1. \A f \in Toggles : f \in Toggles \ {"ok"} \/ f = "ok" OBVIOUS
    <3> QED BY <3>1, DefaultsAre
  <2>3. \A f \in Counts : Defaults[f] \in Nat BY <2>1
  <2>4. \A f \in Toggles : Defaults[f] \in BOOLEAN BY <2>2, Zenon
  <2> QED BY <2>3, <2>4
<1>2. Typed(Defaults) BY <1>1, DefaultsAre DEF Typed, MaxStreams, MaxOmit
<1>3. Defaults.reverse = FALSE /\ Defaults.timeGiven = FALSE /\ Defaults.client = FALSE
  BY DefaultsAre DEF Toggles, WhenOn
<1>4. Directed(Defaults) /\ ClientMarked(Defaults) /\ Timed(Defaults, options)
  BY <1>3, DefaultsAre DEF Directed, ClientMarked, Timed
<1> QED BY <1>2, <1>4, DefaultsAre DEF Parsing

\* What an app prepares.
LEMMA PreparedIs ==
  ASSUME NEW n \in Int, NEW options
  PROVE  /\ Typed(Prepared("client", n)) /\ Typed(Prepared("server", n))
         /\ Prepared("client", n).ok => ClientReady(Prepared("client", n), options)
         /\ ServerReady(Prepared("server", n))
<1>1. ASSUME NEW role \in {"client", "server"}, NEW t, DOMAIN t = Fields, t.role = role,
             \A f \in Fields \ {"blksize", "role", "mode", "interval", "duration", "streams", "connectTimeout",
                                "oneOff", "reverse"} : t[f] = Defaults[f],
             t.blksize = DefaultTcpBlock, t.duration = 10, t.reverse = FALSE, t.streams \in Int, t.streams <= MaxStreams,
             t.mode = Straight(role)
      PROVE  /\ Typed(t) /\ Directed(t) /\ t.duration = 10 /\ t.bytes = 0 /\ t.blocks = 0 /\ t.blksize # 0
             /\ \A f \in {"mss", "window", "rate", "burst", "tos"} : t[f] = 0
             /\ \A f \in WhenOn : t[f] = FALSE
  <2> DEFINE changed == {"blksize", "role", "mode", "interval", "duration", "streams", "connectTimeout", "oneOff",
                         "reverse"}
  <2>1. /\ {"omit", "bytes", "blocks", "rate", "limit", "maxDuration", "protocol", "mss", "window", "burst", "tos",
            "bidirectional"} \subseteq Fields \ changed
        /\ \A f \in Toggles : f = "reverse" \/ f \in Fields \ changed
        /\ \A f \in WhenOn : f \in Toggles \ {"ok"}
        /\ \A f \in Counts : f \in {"duration", "blksize"} \/ f \in {"bytes", "blocks", "rate", "limit", "maxDuration"}
    BY DEF Fields, Toggles, WhenOn, Counts
  <2> HIDE DEF changed
  <2>2. \A f \in Fields \ changed : t[f] = Defaults[f] BY <1>1 DEF changed
  <2>3. DefaultTcpBlock \in Nat \ {0} BY DEF DefaultTcpBlock
  <2>4. \A f \in Counts : t[f] \in Nat
    <3>1. \A f \in {"bytes", "blocks", "rate", "limit", "maxDuration"} : t[f] = 0
      BY <2>1, <2>2, DefaultsAre
    <3> QED BY <1>1, <2>1, <2>3, <3>1
  <2>5. /\ \A f \in Toggles : t[f] \in BOOLEAN
        /\ \A f \in WhenOn : t[f] = FALSE
    <3>1. ASSUME NEW f \in Toggles PROVE t[f] \in BOOLEAN /\ (f # "ok" => t[f] = FALSE)
      <4>1. Defaults[f] \in BOOLEAN /\ (f # "ok" => Defaults[f] = FALSE) BY DefaultsAre
      <4>2. f = "reverse" \/ t[f] = Defaults[f] BY <2>1, <2>2
      <4> QED BY <1>1, <4>1, <4>2
    <3> QED BY <2>1, <3>1
  <2>6. \A f \in {"omit", "bytes", "blocks", "mss", "window", "rate", "burst", "tos"} : t[f] = 0
    BY <2>1, <2>2, DefaultsAre
  <2>7. t.protocol = "tcp" /\ t.bidirectional = FALSE
    <3>1. "bidirectional" \in WhenOn BY DEF WhenOn
    <3> QED BY <2>1, <2>2, <2>5, <3>1, DefaultsAre
  <2>8. Typed(t) BY <1>1, <2>4, <2>5, <2>6, <2>7 DEF Typed, MaxOmit
  <2>9. Directed(t) BY <1>1, <2>7 DEF Directed
  <2> QED BY <1>1, <2>3, <2>5, <2>6, <2>8, <2>9
<1>2. DOMAIN Defaults = Fields /\ Defaults.reverse = FALSE /\ Defaults.bidirectional = FALSE
      /\ Defaults.streams = 1 /\ Defaults.duration = 10
  BY DefaultsAre DEF Toggles, WhenOn
<1>3. ServerReady(Prepared("server", n))
  <2> DEFINE t == Prepared("server", n)
  <2>1. t = [[SetRole([Defaults EXCEPT !["blksize"] = DefaultTcpBlock], "server") EXCEPT !["interval"] = 1]
               EXCEPT !["oneOff"] = FALSE]
    BY DEF Prepared, Set
  <2>2. /\ DOMAIN t = Fields /\ t.role = "server" /\ t.blksize = DefaultTcpBlock
        /\ \A f \in Fields \ {"blksize", "role", "mode", "interval", "oneOff"} : t[f] = Defaults[f]
        /\ t.mode = Straight("server")
    <3> DEFINE a == [Defaults EXCEPT !["blksize"] = DefaultTcpBlock]
               b == SetRole(a, "server")
    <3>1. {"blksize", "role", "mode", "interval", "oneOff", "reverse", "bidirectional"} \subseteq Fields BY DEF Fields
    <3>2. /\ DOMAIN a = Fields /\ a.blksize = DefaultTcpBlock /\ a.reverse = FALSE /\ a.bidirectional = FALSE
          /\ \A f \in Fields \ {"blksize"} : a[f] = Defaults[f]
      BY <1>2, <3>1
    <3>3. t = [[b EXCEPT !["interval"] = 1] EXCEPT !["oneOff"] = FALSE] BY <2>1
    <3> HIDE DEF a
    <3>4. b = [a EXCEPT !.role = "server", !.mode = Straight("server")] BY <3>2 DEF SetRole
    <3> HIDE DEF b
    <3>5. /\ DOMAIN b = Fields /\ b.role = "server" /\ b.blksize = DefaultTcpBlock
          /\ \A f \in Fields \ {"blksize", "role", "mode"} : b[f] = Defaults[f]
          /\ b.mode = Straight("server")
      BY <3>1, <3>2, <3>4
    <3> HIDE DEF t
    <3> QED BY <3>1, <3>3, <3>5
  <2> HIDE DEF t
  <2>3. t.reverse = FALSE /\ t.duration = 10 /\ t.streams \in Int /\ t.streams <= MaxStreams BY <1>2, <2>2 DEF Fields, MaxStreams
  <2>4. \A f \in Fields \ {"blksize", "role", "mode", "interval", "duration", "streams", "connectTimeout",
                           "oneOff", "reverse"} : t[f] = Defaults[f]
    BY <2>2
  <2>5. t.role \in {"client", "server"} /\ t.mode = Straight(t.role) BY <2>2
  <2>6. /\ Typed(t) /\ Directed(t) /\ \A f \in {"mss", "window", "rate", "burst", "tos"} : t[f] = 0
        /\ \A f \in WhenOn : t[f] = FALSE
    BY <1>1, <2>2, <2>3, <2>4, <2>5
  <2> QED BY <2>2, <2>6 DEF ServerReady, t
<1>4. CASE n \in 1..MaxStreams
  <2> DEFINE t == Prepared("client", n)
             a == SetRole([Defaults EXCEPT !["blksize"] = DefaultTcpBlock], "client")
             b == [[[a EXCEPT !["interval"] = 1] EXCEPT !["duration"] = 10] EXCEPT !["streams"] = n]
  <2>1. t = SetReverse([b EXCEPT !["connectTimeout"] = 3000], FALSE)
    BY <1>4 DEF Prepared, Set
  <2>2. /\ DOMAIN a = Fields /\ a.role = "client" /\ a.blksize = DefaultTcpBlock
        /\ \A f \in Fields \ {"blksize", "role", "mode"} : a[f] = Defaults[f]
    BY <1>2 DEF SetRole, Fields
  <2> HIDE DEF a
  <2>3. /\ DOMAIN b = Fields /\ b.duration = 10 /\ b.streams = n
        /\ \A f \in Fields \ {"interval", "duration", "streams"} : b[f] = a[f]
    BY <2>2 DEF Fields
  <2> HIDE DEF b
  <2>4. b.role = "client" /\ b.blksize = DefaultTcpBlock BY <2>2, <2>3 DEF Fields
  <2>5. /\ DOMAIN t = Fields /\ t.role = "client" /\ t.blksize = DefaultTcpBlock /\ t.duration = 10
        /\ t.streams = n /\ t.reverse = FALSE
        /\ \A f \in Fields \ {"connectTimeout", "reverse", "mode"} : t[f] = b[f]
        /\ t.mode = Straight("client")
    <3> HIDE DEF t
    <3> DEFINE c == [b EXCEPT !["connectTimeout"] = 3000]
    <3>1. /\ DOMAIN c = Fields /\ \A f \in Fields \ {"connectTimeout"} : c[f] = b[f]
      BY <2>3
    <3>2. c.role = "client" /\ c.blksize = DefaultTcpBlock /\ c.duration = 10 /\ c.streams = n
      BY <2>3, <2>4, <3>1 DEF Fields
    <3>3. t = SetReverse(c, FALSE) BY <2>1
    <3> HIDE DEF c
    <3>4. t = [c EXCEPT !.reverse = FALSE, !.mode = Straight("client")] BY <3>2, <3>3 DEF SetReverse
    <3>5. /\ DOMAIN t = Fields /\ t.reverse = FALSE /\ t.mode = Straight("client")
          /\ \A f \in Fields \ {"reverse", "mode"} : t[f] = c[f]
      BY <3>1, <3>4 DEF Fields
    <3> QED BY <3>1, <3>2, <3>5 DEF Fields
  <2> HIDE DEF t
  <2>6. \A f \in Fields \ {"blksize", "role", "mode", "interval", "duration", "streams", "connectTimeout",
                           "oneOff", "reverse"} : t[f] = Defaults[f]
    BY <2>2, <2>3, <2>5
  <2>7. t.streams \in Int /\ t.streams <= MaxStreams BY <1>4, <2>5 DEF MaxStreams
  <2>8. t.role \in {"client", "server"} /\ t.mode = Straight(t.role) BY <2>5
  <2>9. Typed(t) /\ Directed(t) /\ t.duration = 10 /\ t.bytes = 0 /\ t.blocks = 0 /\ t.blksize # 0
    BY <1>1, <2>5, <2>6, <2>7, <2>8
  <2>10. ClientReady(t, options) BY <2>5, <2>9 DEF ClientReady, Ended
  <2> QED BY <1>3, <2>10 DEF ClientReady, ServerReady, t
<1>5. CASE n \notin 1..MaxStreams
  <2>1. Prepared("client", n) = Refused(Defaults)
    <3> DEFINE one == SetReverse(Set(Set(Set(Set(SetRole(Set(Defaults, "blksize", DefaultTcpBlock), "client"),
                                                 "interval", 1), "duration", 10), "streams", n),
                                     "connectTimeout", 3000), FALSE)
    <3>1. Prepared("client", n) = IF n \in 1..MaxStreams THEN one ELSE Refused(Defaults) BY DEF Prepared
    <3> HIDE DEF one
    <3> QED BY <1>5, <3>1
  <2>2. Typed(Defaults) BY DefaultsReady DEF Parsing
  <2> QED BY <1>3, <2>1, <2>2, RefusedIs DEF ServerReady
<1> QED BY <1>4, <1>5

\* When the control connection is up every client knows its block size.
LEMMA MssKeeps ==
  ASSUME NEW t, NEW options, ClientReady(t, options), NEW mss \in Nat, NEW u, u = WithMss(t, mss)
  PROVE  ClientReady(u, options) /\ u.blksize # 0 /\ u.ok = t.ok
<1>1. DOMAIN t = Fields /\ t.blksize \in Nat /\ t.rate \in Nat /\ t.bytes \in Nat /\ t.duration \in Nat
      /\ t.protocol \in {"tcp", "udp"}
  BY DEF ClientReady, Typed, Counts
<1>2. CASE t.protocol # "udp"
  <2>1. u = t BY <1>2 DEF WithMss
  <2> QED BY <1>1, <1>2, <2>1 DEF ClientReady
<1>3. CASE t.protocol = "udp"
  <2> DEFINE b == IF t.blksize # 0 THEN t.blksize ELSE IF mss # 0 THEN mss ELSE DefaultUdpBlock
             w == [t EXCEPT !.blksize = b]
  <2>1. b \in Nat /\ b # 0 BY <1>1 DEF DefaultUdpBlock
  <2>2. u = GsoFields(w) BY <1>3 DEF WithMss
  <2> HIDE DEF b
  <2>3. DOMAIN w = Fields /\ w.blksize = b /\ \A f \in Fields \ {"blksize"} : w[f] = t[f] BY <1>1 DEF Fields
  <2> HIDE DEF w
  <2>4. DOMAIN u = Fields /\ \A f \in Fields \ {"gsoSize", "gsoBuffer"} : u[f] = w[f] BY <2>2, <2>3, GsoKeeps
  <2>5. /\ u.blksize = b /\ u.rate = t.rate /\ u.bytes = t.bytes /\ u.duration = t.duration
        /\ u.blocks = t.blocks /\ u.protocol = t.protocol
    <3>1. /\ {"blksize", "rate", "bytes", "duration", "blocks", "protocol"} \subseteq Fields \ {"gsoSize", "gsoBuffer"}
          /\ {"rate", "bytes", "duration", "blocks", "protocol"} \subseteq Fields \ {"blksize"}
      BY DEF Fields
    <3> QED BY <2>3, <2>4, <3>1
  <2>6. \A f \in Fields \ Derived : u[f] = t[f]
    <3>1. \A f \in Fields \ Derived : f \in Fields \ {"gsoSize", "gsoBuffer"} /\ f \in Fields \ {"blksize"} BY DEF Derived
    <3> QED BY <2>3, <2>4, <3>1
  <2>7. Typed(u) /\ (Directed(t) => Directed(u)) /\ u.role = t.role /\ u.ok = t.ok
    BY <1>1, <2>1, <2>4, <2>5, <2>6, DerivedKeeps DEF ClientReady
  <2> QED BY <2>1, <2>5, <2>7 DEF ClientReady, Ended
<1> QED BY <1>2, <1>3
-----------------------------------------------------------------------------
(* The parameters.                                                         *)

\* What both sides have to agree on.
Common == Always \cup (WhenSet \ {"pacing"}) \cup WhenOn

LEMMA Remains == ASSUME NEW m \in Nat \ {0}, NEW a \in 0..m - 1 PROVE a % m = a OBVIOUS

\* The server runs the test of its client, whatever it was set up with, and within its bounds.
LEMMA AdoptedIs ==
  ASSUME NEW s, NEW c, NEW options, ServerReady(s), ClientReady(c, options), c.blksize # 0,
         NEW t, t = Adopted(s, Parameters(c))
  PROVE  /\ Typed(t) /\ Ended(t, options)
         /\ \A f \in Common : c[f] = t[f]
         /\ c.protocol = "udp" => c.gso = t.gso /\ c.gsoSize = t.gsoSize
         /\ <<c.mode, t.mode>> \in {<<"sender", "receiver">>, <<"receiver", "sender">>, <<"both", "both">>}
         /\ Refusal(t) = "none" =>
              /\ t.maxDuration # 0 => t.duration # 0 /\ t.duration + t.omit <= t.maxDuration
              /\ t.limit # 0 => \A total \in 0..SizeValues - 1 :
                   total = t.rate * t.streams * (IF t.bidirectional THEN 2 ELSE 1) => total <= t.limit
<1> DEFINE p == Parameters(c)
           zeroed == [s EXCEPT !.bytes = 0, !.blocks = 0]
           stored == [f \in DOMAIN s |-> IF f \in DOMAIN p THEN p[f] ELSE zeroed[f]]
           reversed == IF stored.reverse THEN SetReverse(stored, TRUE) ELSE stored
<1>1. DOMAIN s = Fields /\ DOMAIN c = Fields BY DEF ServerReady, ClientReady, Typed
<1>2. /\ DOMAIN p = Sent(c) /\ \A f \in Sent(c) : p[f] = c[f] BY DEF Parameters
<1>3. /\ DOMAIN zeroed = Fields /\ \A f \in Fields \ {"bytes", "blocks"} : zeroed[f] = s[f]
  BY <1>1
<1>4. t = IF stored.bidirectional THEN SetBidirectional(reversed) ELSE reversed BY DEF Adopted
<1> HIDE DEF p, zeroed
<1>5. DOMAIN stored = Fields /\ \A f \in Fields : stored[f] = IF f \in Sent(c) THEN c[f] ELSE zeroed[f]
  BY <1>1, <1>2
<1> HIDE DEF stored
<1>6. /\ Always \subseteq Sent(c)
      /\ \A f \in WhenSet : c[f] # 0 => f \in Sent(c)
      /\ \A f \in WhenOn : c[f] = TRUE => f \in Sent(c)
      /\ c.protocol = "udp" => WhenUdp \subseteq Sent(c)
      /\ Sent(c) \subseteq Always \cup WhenUdp \cup WhenSet \cup WhenOn
  BY DEF Sent
<1>7. /\ Always \cup WhenUdp \cup WhenSet \cup WhenOn \subseteq Fields
      /\ \A f \in {"role", "mode", "ok", "file", "limit", "maxDuration", "server", "client", "rateGiven", "timeGiven"} :
           f \in Fields \ {"bytes", "blocks"} /\ f \notin Always \cup WhenUdp \cup WhenSet \cup WhenOn
  BY DEF Fields, Always, WhenUdp, WhenSet, WhenOn
<1>8. \A f \in Always : stored[f] = c[f] BY <1>5, <1>6, <1>7
<1>9. ASSUME NEW f \in WhenSet \ {"pacing"} PROVE stored[f] = c[f]
  <2>1. f \in Fields BY <1>7
  <2>2. CASE c[f] # 0 BY <1>5, <1>6, <2>1, <2>2
  <2>3. CASE c[f] = 0
    <3>1. f \in {"mss", "window", "rate", "burst", "tos"} /\ f \notin {"bytes", "blocks"} BY <2>3 DEF WhenSet
    <3>2. zeroed[f] = 0 BY <1>3, <2>1, <3>1 DEF ServerReady
    <3> QED BY <1>5, <2>1, <2>3, <3>2
  <2> QED BY <2>2, <2>3
<1>10. ASSUME NEW f \in WhenOn PROVE stored[f] = c[f] /\ stored[f] \in BOOLEAN
  <2>1. f \in Fields \ {"bytes", "blocks"} BY <1>7 DEF WhenOn
  <2>2. c[f] \in BOOLEAN BY DEF ClientReady, Typed, Toggles
  <2>3. zeroed[f] = FALSE BY <1>3, <2>1 DEF ServerReady
  <2>4. CASE c[f] = TRUE BY <1>5, <1>6, <2>1, <2>2, <2>4
  <2>5. CASE c[f] = FALSE BY <1>5, <2>1, <2>2, <2>3, <2>5
  <2> QED BY <2>2, <2>4, <2>5
<1>11. \A f \in Common : stored[f] = c[f]
  BY <1>8, <1>9, <1>10 DEF Common
<1>12. \A f \in {"role", "mode", "ok", "file", "limit", "maxDuration", "server", "client", "rateGiven", "timeGiven"} :
         stored[f] = s[f]
  BY <1>3, <1>5, <1>6, <1>7
<1>13. /\ stored.reverse = c.reverse /\ stored.bidirectional = c.bidirectional
       /\ stored.reverse \in BOOLEAN /\ stored.bidirectional \in BOOLEAN
       /\ ~(c.reverse /\ c.bidirectional)
       /\ stored.role = "server" /\ stored.mode = s.mode /\ s.reverse = FALSE /\ s.bidirectional = FALSE
       /\ s.mode = Straight("server")
  <2>1. "reverse" \in WhenOn /\ "bidirectional" \in WhenOn BY DEF WhenOn
  <2>2. s.role = "server" /\ Directed(s) /\ Directed(c) /\ s.reverse = FALSE /\ s.bidirectional = FALSE
    BY <2>1 DEF ServerReady, ClientReady
  <2>3. s.mode = Straight("server") BY <2>2 DEF Directed
  <2>4. ~(c.reverse /\ c.bidirectional) BY <2>2 DEF Directed
  <2> QED BY <1>10, <1>12, <2>1, <2>2, <2>3, <2>4
<1>14. /\ DOMAIN t = Fields /\ \A f \in Fields \ {"mode"} : t[f] = stored[f]
       /\ t.mode = IF c.bidirectional THEN "both" ELSE IF c.reverse THEN "sender" ELSE "receiver"
  <2>1. CASE stored.reverse
    <3>1. reversed = SetReverse(stored, TRUE) /\ t = reversed BY <1>4, <1>13, <2>1
    <3>2. reversed = [stored EXCEPT !.reverse = TRUE, !.mode = Against("server")]
      BY <1>13, <3>1 DEF SetReverse
    <3>3. "reverse" \in Fields /\ "mode" \in Fields BY DEF Fields
    <3>4. Against("server") = "sender" BY DEF Against
    <3> HIDE DEF reversed
    <3> QED BY <1>5, <1>13, <2>1, <3>1, <3>2, <3>3, <3>4
  <2>2. CASE ~stored.reverse /\ stored.bidirectional
    <3>1. reversed = stored /\ t = SetBidirectional(stored) BY <1>4, <2>2
    <3>2. t = [stored EXCEPT !.bidirectional = TRUE, !.mode = "both"] BY <3>1 DEF SetBidirectional
    <3>3. "bidirectional" \in Fields /\ "mode" \in Fields BY DEF Fields
    <3> QED BY <1>5, <1>13, <2>2, <3>2, <3>3
  <2>3. CASE ~stored.reverse /\ ~stored.bidirectional
    <3>1. t = stored BY <1>4, <2>3
    <3>2. t.mode = "receiver" BY <1>13, <3>1 DEF Straight
    <3> QED BY <1>5, <1>13, <2>3, <3>1, <3>2
  <2> QED BY <1>13, <2>1, <2>2, <2>3
<1>15. \A f \in Common : c[f] = t[f]
  <2>1. \A f \in Common : f \in Fields \ {"mode"} BY <1>7 DEF Common, Always, WhenSet, WhenOn
  <2> QED BY <1>11, <1>14, <2>1
<1>16. c.protocol = "udp" => c.gso = t.gso /\ c.gsoSize = t.gsoSize
  <2>1. {"gso", "gsoSize"} \subseteq WhenUdp /\ {"gso", "gsoSize"} \subseteq Fields \ {"mode"} BY DEF WhenUdp, Fields
  <2> QED BY <1>5, <1>6, <1>14, <2>1
<1>17. <<c.mode, t.mode>> \in {<<"sender", "receiver">>, <<"receiver", "sender">>, <<"both", "both">>}
  <2>1. c.reverse \in BOOLEAN /\ c.bidirectional \in BOOLEAN BY <1>13
  <2>2. c.mode = IF c.reverse THEN Against("client") ELSE IF c.bidirectional THEN "both" ELSE Straight("client")
    BY DEF ClientReady, Directed
  <2>3. Against("client") = "receiver" /\ Straight("client") = "sender" BY DEF Against, Straight
  <2> QED BY <1>13, <1>14, <2>1, <2>2, <2>3
<1>18. Typed(t)
  <2>1. {"streams", "omit", "protocol", "role"} \cup Counts \cup Toggles \subseteq Fields \ {"mode"}
    BY DEF Fields, Counts, Toggles, WhenOn
  <2>2. ASSUME NEW f \in Counts PROVE t[f] \in Nat
    <3>1. f \in Common \/ f \in {"limit", "maxDuration"} BY DEF Counts, Common, Always, WhenSet
    <3>2. c[f] \in Nat /\ s[f] \in Nat BY DEF ClientReady, ServerReady, Typed
    <3> QED BY <1>12, <1>14, <1>15, <2>1, <3>1, <3>2
  <2>3. ASSUME NEW f \in Toggles PROVE t[f] \in BOOLEAN
    <3>1. \/ f \in Common \/ f = "gso"
          \/ f \in {"ok", "file", "server", "client", "rateGiven", "timeGiven"}
      BY DEF Toggles, Common
    <3>2. c[f] \in BOOLEAN /\ s[f] \in BOOLEAN BY DEF ClientReady, ServerReady, Typed
    <3>3. f = "gso" => zeroed[f] = s[f] BY <1>3, <2>1
    <3> QED BY <1>5, <1>12, <1>14, <1>15, <2>1, <3>1, <3>2, <3>3
  <2>4. t.streams = c.streams /\ t.omit = c.omit /\ t.protocol = c.protocol /\ t.role = s.role
    <3>1. {"streams", "omit", "protocol"} \subseteq Common BY DEF Common, Always
    <3> QED BY <1>12, <1>14, <1>15, <2>1, <3>1
  <2>5. /\ c.streams \in Int /\ c.streams <= MaxStreams /\ c.omit \in 0..MaxOmit /\ c.protocol \in {"tcp", "udp"}
        /\ s.role \in {"none", "client", "server"}
    BY DEF ClientReady, ServerReady, Typed
  <2> QED BY <1>14, <2>2, <2>3, <2>4, <2>5 DEF Typed
<1>19. Ended(t, options)
  <2>1. {"bytes", "blocks", "duration"} \subseteq Common BY DEF Common, Always
  <2>2. t.bytes = c.bytes /\ t.blocks = c.blocks /\ t.duration = c.duration BY <1>15, <2>1
  <2> QED BY <2>2 DEF ClientReady, Ended
<1>20. ASSUME Refusal(t) = "none"
       PROVE  /\ t.maxDuration # 0 => t.duration # 0 /\ t.duration + t.omit <= t.maxDuration
              /\ t.limit # 0 => \A total \in 0..SizeValues - 1 :
                   total = t.rate * t.streams * (IF t.bidirectional THEN 2 ELSE 1) => total <= t.limit
  <2>1. /\ t.maxDuration \in Nat /\ t.duration \in Nat /\ t.omit \in Nat /\ t.limit \in Nat
        /\ t.rate \in Nat /\ t.streams \in Int
    BY <1>18 DEF Typed, Counts, MaxOmit
  <2>2. /\ ~(t.limit # 0 /\ Requested(t) > t.limit)
        /\ ~(t.maxDuration > 0 /\ (t.duration + t.omit > t.maxDuration \/ t.duration = 0))
    BY <1>20 DEF Refusal
  <2>3. t.mode = "both" <=> t.bidirectional
    <3>1. "bidirectional" \in Fields \ {"mode"} BY DEF Fields
    <3> QED BY <1>13, <1>14, <3>1
  <2> DEFINE k == IF t.bidirectional THEN 2 ELSE 1
  <2>4. Requested(t) = (t.streams * t.rate * k) % SizeValues BY <2>3 DEF Requested
  <2>5. t.streams * t.rate = t.rate * t.streams BY <2>1
  <2> HIDE DEF k
  <2>6. Requested(t) = (t.rate * t.streams * k) % SizeValues BY <2>4, <2>5
  <2>7. ASSUME NEW total \in 0..SizeValues - 1, total = t.rate * t.streams * k, t.limit # 0
        PROVE  total <= t.limit
    <3>1. Requested(t) = total % SizeValues BY <2>6, <2>7
    <3>2. total % SizeValues = total BY SizeAssumption, Remains
    <3> QED BY <2>1, <2>2, <2>7, <3>1, <3>2, SizeAssumption
  <2> QED BY <2>1, <2>2, <2>7 DEF k
<1> QED BY <1>15, <1>16, <1>17, <1>18, <1>19, <1>20
-----------------------------------------------------------------------------
(* The order of the options.                                               *)

\* What every option of a side sets, and what the options of role and direction look at.
Marks == {"client", "server"}
Turn == {"role", "mode", "reverse", "bidirectional"}
Turning == {"-s", "-c", "-R", "--bidir"}

\* The test t with the fields of e.
Altered(t, e) == [f \in DOMAIN t |-> IF f \in DOMAIN e THEN e[f] ELSE t[f]]

\* The fields an option may set: its own, and the marks of a side.
Sets(opt, e) ==
  /\ DOMAIN e \subseteq Marks \cup {f \in DOMAIN SetBy : SetBy[f] = Group(opt)}
  /\ \A f \in DOMAIN e \cap Marks : e[f] = TRUE

\* What a plain option does does not depend on the test.
Plain(o, bad, e) ==
  /\ Sets(o.opt, e) /\ bad \in BOOLEAN
  /\ \A t : DOMAIN t = Fields => Takes(t, o) = IF bad THEN Refused(t) ELSE Altered(t, e)

\* The marks, role and direction, and ok are not set by an option of their own.
LEMMA SetByIs ==
  /\ DOMAIN SetBy \subseteq Fields \ (Marks \cup Turn \cup {"ok"})
  /\ Marks \cup Turn \cup {"ok"} \subseteq Fields /\ "ok" \notin Marks \cup Turn /\ Marks \cap Turn = {}
BY DEF SetBy, Fields, Marks, Turn

\* A field, and the mark of a side.
LEMMA MarkedIs ==
  ASSUME NEW e, DOMAIN e \subseteq DOMAIN SetBy, NEW side \in {"any", "client", "server"}
  PROVE  \E d : /\ DOMAIN d \subseteq Marks \cup DOMAIN e /\ \A f \in DOMAIN d \cap Marks : d[f] = TRUE
                /\ \A t : DOMAIN t = Fields => For(side, Altered(t, e)) = Altered(t, d)
<1> DEFINE m == IF side = "any" THEN {} ELSE {side}
           d == [f \in DOMAIN e \cup m |-> IF f \in m THEN TRUE ELSE e[f]]
<1>1. DOMAIN e \cap Marks = {} /\ m \subseteq Marks /\ Marks \subseteq Fields BY SetByIs DEF Marks
<1>2. ASSUME NEW t, DOMAIN t = Fields PROVE For(side, Altered(t, e)) = Altered(t, d)
  <2> DEFINE u == Altered(t, e)
  <2>1. DOMAIN u = Fields /\ \A f \in Fields : u[f] = IF f \in DOMAIN e THEN e[f] ELSE t[f] BY <1>2 DEF Altered
  <2>2. Altered(t, d) = [f \in Fields |-> IF f \in m THEN TRUE ELSE u[f]]
    BY <1>1, <1>2, <2>1 DEF Altered
  <2> HIDE DEF u
  <2>3. CASE side = "any"
    <3>1. For(side, u) = u BY <2>3 DEF For
    <3>2. [f \in Fields |-> IF f \in m THEN TRUE ELSE u[f]] = [f \in Fields |-> u[f]] BY <2>3
    <3>3. u = [f \in Fields |-> u[f]] BY <2>1 DEF u, Altered
    <3> QED BY <2>2, <3>1, <3>2, <3>3 DEF u
  <2>4. CASE side = "client"
    <3>1. For(side, u) = [u EXCEPT !.client = TRUE] BY <2>4 DEF For
    <3>2. [u EXCEPT !.client = TRUE] = [f \in Fields |-> IF f = "client" THEN TRUE ELSE u[f]]
      BY <2>1, <1>1 DEF Marks
    <3> QED BY <2>2, <2>4, <3>1, <3>2 DEF u
  <2>5. CASE side = "server"
    <3>1. For(side, u) = [u EXCEPT !.server = TRUE] BY <2>5 DEF For
    <3>2. [u EXCEPT !.server = TRUE] = [f \in Fields |-> IF f = "server" THEN TRUE ELSE u[f]]
      BY <2>1, <1>1 DEF Marks
    <3> QED BY <2>2, <2>5, <3>1, <3>2 DEF u
  <2> QED BY <2>3, <2>4, <2>5
<1>3. DOMAIN d \subseteq Marks \cup DOMAIN e /\ \A f \in DOMAIN d \cap Marks : d[f] = TRUE BY <1>1
<1> HIDE DEF d
<1> QED BY <1>2, <1>3

\* Plain is what is refused whatever the test, or sets the same fields in every test.
LEMMA RefusesIs ==
  ASSUME NEW o, \A t : DOMAIN t = Fields => Takes(t, o) = Refused(t)
  PROVE  \E bad, e : Plain(o, bad, e)
<1> DEFINE e == [f \in {} |-> TRUE]
<1>1. Sets(o.opt, e) BY DEF Sets
<1> HIDE DEF e
<1>2. Plain(o, TRUE, e) BY <1>1 DEF Plain
<1> QED BY <1>2

\* What sets the same fields in every test is plain,
LEMMA SetsIs ==
  ASSUME NEW o, NEW e, Sets(o.opt, e), \A t : DOMAIN t = Fields => Takes(t, o) = Altered(t, e)
  PROVE  \E bad, d : Plain(o, bad, d)
<1>1. Plain(o, FALSE, e) BY DEF Plain
<1> QED BY <1>1

\* Several fields at once.
LEMMA FieldsAre ==
  ASSUME NEW o, NEW d, DOMAIN d \subseteq {f \in DOMAIN SetBy : SetBy[f] = Group(o.opt)},
         NEW side \in {"any", "client", "server"},
         \A t : DOMAIN t = Fields => Takes(t, o) = For(side, Altered(t, d))
  PROVE  \E bad, e : Plain(o, bad, e)
<1>1. PICK e : /\ DOMAIN e \subseteq Marks \cup DOMAIN d /\ \A f \in DOMAIN e \cap Marks : e[f] = TRUE
               /\ \A t : DOMAIN t = Fields => For(side, Altered(t, d)) = Altered(t, e)
  BY MarkedIs
<1>2. Sets(o.opt, e) BY <1>1 DEF Sets
<1> QED BY <1>1, <1>2, SetsIs

\* One field.
LEMMA FieldIs ==
  ASSUME NEW x \in Fields, NEW d, DOMAIN d = {x}
  PROVE  \A t : DOMAIN t = Fields => [t EXCEPT ![x] = d[x]] = Altered(t, d)
BY DEF Altered

\* and so are the options with a number (-t also notes that the time is given),
LEMMA NumberIsPlain ==
  ASSUME NEW o, AnOption(o), o.opt \in DOMAIN Numbers
  PROVE  \E bad, e : Plain(o, bad, e)
<1> DEFINE b == Numbers[o.opt]  x == b.field  v == o.n  side == b.side
<1>1. /\ x \in DOMAIN SetBy /\ SetBy[x] = Group(o.opt) /\ side \in {"any", "client", "server"}
      /\ x = "duration" <=> o.opt = "-t"
  BY NumbersAre
<1>2. \A t : Takes(t, o) = TakesNumber(t, o) BY TakesIs
<1> DEFINE c == [f \in {x} |-> v]
<1>6. \A t : DOMAIN t = Fields => [t EXCEPT ![x] = v] = Altered(t, c)
  <2>1. x \in Fields /\ DOMAIN c = {x} /\ c[x] = v BY <1>1, SetByIs
  <2> HIDE DEF c, x, v
  <2> QED BY <2>1, FieldIs
<1>7. DOMAIN c \subseteq {f \in DOMAIN SetBy : SetBy[f] = Group(o.opt)} BY <1>1
<1>3. CASE o.n \notin b.min..b.max
  <2>1. \A t : DOMAIN t = Fields => Takes(t, o) = Refused(t) BY <1>2, <1>3 DEF TakesNumber
  <2> QED BY <2>1, RefusesIs
<1>4. CASE o.n \in b.min..b.max /\ o.opt # "-t"
  <2>1. \A t : Takes(t, o) = For(side, [t EXCEPT ![x] = v]) BY <1>2, <1>4 DEF TakesNumber
  <2>2. \A t : DOMAIN t = Fields => Takes(t, o) = For(side, Altered(t, c)) BY <1>6, <2>1
  <2> HIDE DEF x, v, side, c
  <2> QED BY <1>1, <1>7, <2>2, FieldsAre
<1>5. CASE o.n \in b.min..b.max /\ o.opt = "-t"
  <2>1. \A t : Takes(t, o) = [For(side, [t EXCEPT ![x] = v]) EXCEPT !.timeGiven = TRUE]
    BY <1>2, <1>5 DEF TakesNumber
  <2> HIDE DEF x, v, side, c
  <2>a. PICK e : /\ DOMAIN e \subseteq Marks \cup DOMAIN c /\ \A f \in DOMAIN e \cap Marks : e[f] = TRUE
                 /\ \A t : DOMAIN t = Fields => For(side, Altered(t, c)) = Altered(t, e)
    BY <1>1, <1>7, MarkedIs
  <2>2. Sets(o.opt, e) /\ \A t : DOMAIN t = Fields => For(side, [t EXCEPT ![x] = v]) = Altered(t, e)
    BY <1>6, <1>7, <2>a DEF Sets
  <2> DEFINE d == [f \in DOMAIN e \cup {"timeGiven"} |-> IF f = "timeGiven" THEN TRUE ELSE e[f]]
  <2>3. "timeGiven" \in DOMAIN SetBy /\ SetBy["timeGiven"] = Group(o.opt) BY <1>5 DEF SetBy, Group
  <2>4. "timeGiven" \in Fields /\ "timeGiven" \notin Marks BY <2>3, SetByIs
  <2>5. Sets(o.opt, d) BY <2>2, <2>3, <2>4 DEF Sets
  <2>6. \A t : DOMAIN t = Fields => [Altered(t, e) EXCEPT !.timeGiven = TRUE] = Altered(t, d)
    <3> TAKE t
    <3> HAVE DOMAIN t = Fields
    <3> DEFINE u == Altered(t, e)
    <3>1. DOMAIN u = Fields /\ \A f \in Fields : u[f] = IF f \in DOMAIN e THEN e[f] ELSE t[f] BY DEF Altered
    <3>2. Altered(t, d) = [f \in Fields |-> IF f = "timeGiven" THEN TRUE ELSE u[f]] BY <2>4, <3>1 DEF Altered
    <3> HIDE DEF u
    <3>3. [u EXCEPT !.timeGiven = TRUE] = [f \in Fields |-> IF f = "timeGiven" THEN TRUE ELSE u[f]]
      BY <2>4, <3>1
    <3> QED BY <3>2, <3>3 DEF u
  <2> HIDE DEF d
  <2>7. \A t : DOMAIN t = Fields => Takes(t, o) = Altered(t, d)
    <3> TAKE t
    <3> HAVE DOMAIN t = Fields
    <3>1. Takes(t, o) = [Altered(t, e) EXCEPT !.timeGiven = TRUE] BY <2>1, <2>2
    <3> QED BY <3>1, <2>6
  <2> QED BY <2>5, <2>7, SetsIs
<1> QED BY <1>3, <1>4, <1>5

\* those without one,
LEMMA SwitchIsPlain ==
  ASSUME NEW o, AnOption(o), o.opt \in DOMAIN Switches
  PROVE  \E bad, e : Plain(o, bad, e)
<1> DEFINE x == Switches[o.opt].field  side == Switches[o.opt].side
<1>1. /\ x \in DOMAIN SetBy /\ SetBy[x] = Group(o.opt) /\ side \in {"any", "client", "server"}
  BY SwitchesAre
<1>2. \A t : Takes(t, o) = For(side, [t EXCEPT ![x] = TRUE]) BY TakesIs DEF TakesSwitch
<1> DEFINE c == [f \in {x} |-> TRUE]
<1>3. \A t : DOMAIN t = Fields => [t EXCEPT ![x] = TRUE] = Altered(t, c)
  <2>1. x \in Fields /\ DOMAIN c = {x} /\ c[x] = TRUE BY <1>1, SetByIs
  <2> HIDE DEF c, x
  <2>2. \A t : DOMAIN t = Fields => [t EXCEPT ![x] = c[x]] = Altered(t, c) BY <2>1, FieldIs
  <2> QED BY <2>1, <2>2
<1>4. DOMAIN c \subseteq {f \in DOMAIN SetBy : SetBy[f] = Group(o.opt)} BY <1>1
<1>5. \A t : DOMAIN t = Fields => Takes(t, o) = For(side, Altered(t, c)) BY <1>2, <1>3
<1> HIDE DEF x, side, c
<1> QED BY <1>1, <1>4, <1>5, FieldsAre

\* those with a size,
LEMMA SizeIsPlain ==
  ASSUME NEW o, AnOption(o), o.opt \in DOMAIN Sizes
  PROVE  \E bad, e : Plain(o, bad, e)
<1> DEFINE x == Sizes[o.opt]  n == UnitSize(o)
<1>1. x \in DOMAIN SetBy /\ SetBy[x] = Group(o.opt) BY DEF Sizes, SetBy, Group
<1>2. \A t : Takes(t, o) = TakesSize(t, o) BY TakesIs
<1> DEFINE bad == o.suffix \notin UnitSuffixes \/ (o.opt = "-w" /\ n > MaxTcpBuffer)
<1>3. CASE bad
  <2>1. \A t : DOMAIN t = Fields => Takes(t, o) = Refused(t) BY <1>2, <1>3 DEF TakesSize
  <2> QED BY <2>1, RefusesIs
<1>4. CASE ~bad
  <2>1. \A t : Takes(t, o) = For("client", [t EXCEPT ![x] = n]) BY <1>2, <1>4 DEF TakesSize
  <2> DEFINE c == [f \in {x} |-> n]
  <2>2. \A t : DOMAIN t = Fields => [t EXCEPT ![x] = n] = Altered(t, c)
    <3>1. x \in Fields /\ DOMAIN c = {x} /\ c[x] = n BY <1>1, SetByIs
    <3> HIDE DEF c, x, n
    <3> QED BY <3>1, FieldIs
  <2>3. DOMAIN c \subseteq {f \in DOMAIN SetBy : SetBy[f] = Group(o.opt)} BY <1>1
  <2>4. \A t : DOMAIN t = Fields => Takes(t, o) = For("client", Altered(t, c)) BY <2>1, <2>2
  <2> HIDE DEF x, n, c
  <2> QED BY <2>3, <2>4, FieldsAre
<1> QED BY <1>3, <1>4

\* a rate and what is behind its slash, which is left alone when it is 0,
LEMMA RateIsPlain ==
  ASSUME NEW o, AnOption(o), o.opt \in {"-b", "--server-bitrate-limit"}
  PROVE  \E bad, e : Plain(o, bad, e)
<1> DEFINE n == UnitRate(o)
           most == IF o.opt = "-b" THEN MaxBurst ELSE MaxInterval
           second == IF o.opt = "-b" THEN "burst" ELSE "limitInterval"
           set == IF o.opt = "-b" THEN {"rate", "rateGiven"} ELSE {"limit"}
           more == IF o.second = 0 THEN {} ELSE {second}
           d == [f \in set \cup more |-> IF f = second THEN o.second ELSE IF f = "rateGiven" THEN TRUE ELSE n]
<1>1. \A t : /\ o.opt = "-b" => Takes(t, o) = TakesRate(t, o)
             /\ o.opt = "--server-bitrate-limit" => Takes(t, o) = TakesLimit(t, o)
  BY TakesIs
<1>2. CASE o.suffix \notin UnitSuffixes \/ o.second \notin 0..most
  <2>1. \A t : DOMAIN t = Fields => Takes(t, o) = Refused(t) BY <1>1, <1>2 DEF TakesRate, TakesLimit
  <2> QED BY <2>1, RefusesIs
<1>3. CASE ~(o.suffix \notin UnitSuffixes \/ o.second \notin 0..most)
  <2>1. set \cup more \subseteq {f \in DOMAIN SetBy : SetBy[f] = Group(o.opt)} BY DEF SetBy, Group
  <2>2. set \cup more \subseteq Fields BY <2>1, SetByIs
  <2>3. CASE o.opt = "-b"
    <3>1. \A t : Takes(t, o) =
                   For("client", [t EXCEPT !.rate = n, !.rateGiven = TRUE, !.burst = IF o.second = 0 THEN @ ELSE o.second])
      BY <1>1, <1>3, <2>3 DEF TakesRate
    <3>2. ASSUME NEW t, DOMAIN t = Fields
          PROVE  [t EXCEPT !.rate = n, !.rateGiven = TRUE, !.burst = IF o.second = 0 THEN @ ELSE o.second] = Altered(t, d)
      <4> HIDE DEF n
      <4>1. "rate" \in Fields /\ "rateGiven" \in Fields /\ "burst" \in Fields BY DEF Fields
      <4>2. CASE o.second = 0 BY <2>3, <3>2, <4>1, <4>2 DEF Altered
      <4>3. CASE o.second # 0 BY <2>3, <3>2, <4>1, <4>3 DEF Altered
      <4> QED BY <4>2, <4>3
    <3> HIDE DEF d, set, more, n
    <3>3. \A t : DOMAIN t = Fields => Takes(t, o) = For("client", Altered(t, d)) BY <3>1, <3>2
    <3>4. DOMAIN d \subseteq {f \in DOMAIN SetBy : SetBy[f] = Group(o.opt)} BY <2>1 DEF d
    <3> QED BY <3>3, <3>4, FieldsAre
  <2>4. CASE o.opt = "--server-bitrate-limit"
    <3>1. \A t : Takes(t, o) =
                   For("server", [t EXCEPT !.limit = n, !.limitInterval = IF o.second = 0 THEN @ ELSE o.second])
      BY <1>1, <1>3, <2>4 DEF TakesLimit
    <3>2. ASSUME NEW t, DOMAIN t = Fields
          PROVE  [t EXCEPT !.limit = n, !.limitInterval = IF o.second = 0 THEN @ ELSE o.second] = Altered(t, d)
      <4> HIDE DEF n
      <4>1. "limit" \in Fields /\ "limitInterval" \in Fields BY DEF Fields
      <4>2. CASE o.second = 0 BY <2>4, <3>2, <4>1, <4>2 DEF Altered
      <4>3. CASE o.second # 0 BY <2>4, <3>2, <4>1, <4>3 DEF Altered
      <4> QED BY <4>2, <4>3
    <3> HIDE DEF d, set, more, n
    <3>3. \A t : DOMAIN t = Fields => Takes(t, o) = For("server", Altered(t, d)) BY <3>1, <3>2
    <3>4. DOMAIN d \subseteq {f \in DOMAIN SetBy : SetBy[f] = Group(o.opt)} BY <2>1 DEF d
    <3> QED BY <3>3, <3>4, FieldsAre
  <2> QED BY <2>3, <2>4
<1> QED BY <1>2, <1>3

\* and the rest, --dscp with -S among them for what they set.
LEMMA OthersArePlain ==
  ASSUME NEW o, AnOption(o), o.opt \in {"--dscp", "-u", "--gsro"} \cup Unsupported
  PROVE  \E bad, e : Plain(o, bad, e)
<1>1. CASE o.opt = "--dscp"
  <2>1. \A t : Takes(t, o) = TakesDscp(t, o) BY <1>1, TakesIs
  <2>2. CASE o.n \in 0..63
    <3>1. \A t : Takes(t, o) = For("client", [t EXCEPT !["tos"] = o.n * 4]) BY <2>1, <2>2 DEF TakesDscp
    <3>2. "tos" \in DOMAIN SetBy /\ SetBy["tos"] = Group(o.opt) BY <1>1 DEF SetBy, Group
    <3> DEFINE c == [f \in {"tos"} |-> o.n * 4]
    <3>3. \A t : DOMAIN t = Fields => [t EXCEPT !["tos"] = o.n * 4] = Altered(t, c)
      <4>1. "tos" \in Fields BY DEF Fields
      <4> QED BY <4>1 DEF Altered
    <3>4. DOMAIN c \subseteq {f \in DOMAIN SetBy : SetBy[f] = Group(o.opt)} BY <3>2
    <3>5. \A t : DOMAIN t = Fields => Takes(t, o) = For("client", Altered(t, c)) BY <3>1, <3>3
    <3> HIDE DEF c
    <3> QED BY <3>4, <3>5, FieldsAre
  <2>3. CASE o.n \notin 0..63
    <3>1. \A t : DOMAIN t = Fields => Takes(t, o) = Refused(t) BY <2>1, <2>3 DEF TakesDscp
    <3> QED BY <3>1, RefusesIs
  <2> QED BY <2>2, <2>3
<1>2. CASE o.opt = "-u"
  <2>1. \A t : Takes(t, o) = For("client", [t EXCEPT !["protocol"] = "udp"]) BY <1>2, TakesIs
  <2>2. "protocol" \in DOMAIN SetBy /\ SetBy["protocol"] = Group(o.opt) BY <1>2 DEF SetBy, Group
  <2> DEFINE c == [f \in {"protocol"} |-> "udp"]
  <2>3. \A t : DOMAIN t = Fields => [t EXCEPT !["protocol"] = "udp"] = Altered(t, c)
    <3>1. "protocol" \in Fields BY DEF Fields
    <3> QED BY <3>1 DEF Altered
  <2>4. DOMAIN c \subseteq {f \in DOMAIN SetBy : SetBy[f] = Group(o.opt)} BY <2>2
  <2>5. \A t : DOMAIN t = Fields => Takes(t, o) = For("client", Altered(t, c)) BY <2>1, <2>3
  <2> HIDE DEF c
  <2> QED BY <2>4, <2>5, FieldsAre
<1>3. CASE o.opt = "--gsro"
  <2> DEFINE d == [f \in {"gso", "gro"} |-> TRUE]
  <2>1. \A t : Takes(t, o) = [t EXCEPT !.gso = TRUE, !.gro = TRUE] BY <1>3, TakesIs
  <2>2. "gso" \in Fields /\ "gro" \in Fields BY DEF Fields
  <2>3. \A t : DOMAIN t = Fields => [t EXCEPT !.gso = TRUE, !.gro = TRUE] = Altered(t, d) BY <2>2 DEF Altered
  <2>4. DOMAIN d \subseteq {f \in DOMAIN SetBy : SetBy[f] = Group(o.opt)} BY <1>3 DEF SetBy, Group
  <2>5. \A t : For("any", t) = t BY DEF For
  <2> HIDE DEF d
  <2>6. \A t : DOMAIN t = Fields => Takes(t, o) = For("any", Altered(t, d)) BY <2>1, <2>3, <2>5
  <2> QED BY <2>4, <2>6, FieldsAre
<1>4. CASE o.opt \in Unsupported
  <2>1. \A t : DOMAIN t = Fields => Takes(t, o) = Refused(t) BY <1>4, TakesIs
  <2> QED BY <2>1, RefusesIs
<1> QED BY <1>1, <1>2, <1>3, <1>4

\* All but -s, -c, -R and --bidir are plain.
LEMMA PlainIs ==
  ASSUME NEW o, AnOption(o), o.opt \notin Turning
  PROVE  \E bad, e : Plain(o, bad, e)
<1>1. DOMAIN Roles = {"-s", "-c"} BY DEF Roles
<1>2. o.opt \notin DOMAIN Roles /\ o.opt \notin {"-R", "--bidir"} BY <1>1 DEF Turning
<1>3. \/ o.opt \in DOMAIN Numbers \/ o.opt \in DOMAIN Switches \/ o.opt \in DOMAIN Sizes
      \/ o.opt \in {"-b", "--server-bitrate-limit"} \/ o.opt \in {"--dscp", "-u", "--gsro"} \cup Unsupported
  BY <1>2, TakesIs
<1> QED BY <1>3, NumberIsPlain, SwitchIsPlain, SizeIsPlain, RateIsPlain, OthersArePlain

\* What an option does: whether it is refused, and what it sets, role and direction apart.
IsBad(o) == IF o.opt \in Turning THEN FALSE ELSE CHOOSE bad : \E e : Plain(o, bad, e)

Effect(o) ==
  IF o.opt \in {"-R", "--bidir"} THEN [f \in {"client"} |-> TRUE]
  ELSE IF o.opt \in {"-s", "-c"} THEN [f \in {} |-> TRUE]
  ELSE CHOOSE e : Plain(o, IsBad(o), e)

Step(t, o) == IF t.ok THEN Takes(t, o) ELSE t

Names(T) == {o.opt : o \in T}

\* Nothing in T is refused, be it for what else is in T.
Good(T) ==
  /\ \A o \in T : ~IsBad(o)
  /\ ~({"-s", "-c"} \subseteq Names(T)) /\ ~({"-R", "--bidir"} \subseteq Names(T))

RoleOf(T) == IF "-s" \in Names(T) THEN "server" ELSE IF "-c" \in Names(T) THEN "client" ELSE "none"

ModeOf(T) ==
  IF "-R" \in Names(T) THEN (IF RoleOf(T) = "none" THEN "receiver" ELSE Against(RoleOf(T)))
  ELSE IF "--bidir" \in Names(T) THEN "both"
  ELSE IF RoleOf(T) = "none" THEN "receiver" ELSE Straight(RoleOf(T))

Given(x, T) == IF x \in Names(T) THEN TRUE ELSE FALSE

\* What a test holds of the options T, in whatever order they were taken.
Holds(T, t) ==
  /\ t.role = RoleOf(T) /\ t.mode = ModeOf(T)
  /\ t.reverse = Given("-R", T) /\ t.bidirectional = Given("--bidir", T)
  /\ \A o \in T : \A f \in DOMAIN Effect(o) : t[f] = Effect(o)[f]
  /\ \A f \in Fields \ (Turn \cup {"ok"}) : (\A o \in T : f \notin DOMAIN Effect(o)) => t[f] = Defaults[f]

IsOf(T, t) ==
  /\ t = [f \in Fields |-> t[f]] /\ t.ok \in BOOLEAN
  /\ t.ok <=> Good(T)
  /\ t.ok => Holds(T, t)

Alike(t, u) == t.ok = u.ok /\ (t.ok => t = u)

\* The options of a line: one of each, and one type of service.
OneOfEach(S) ==
  /\ \A o \in S : AnOption(o)
  /\ \A o, p \in S : Group(o.opt) = Group(p.opt) => o = p

\* What is chosen above is what the options do.
LEMMA EffectIs ==
  ASSUME NEW o, AnOption(o)
  PROVE  /\ IsBad(o) \in BOOLEAN /\ Sets(o.opt, Effect(o))
         /\ o.opt \notin Turning => Plain(o, IsBad(o), Effect(o))
         /\ o.opt \in Turning => ~IsBad(o)
         /\ o.opt \in {"-R", "--bidir"} => DOMAIN Effect(o) = {"client"} /\ Effect(o)["client"] = TRUE
         /\ o.opt \in {"-s", "-c"} => DOMAIN Effect(o) = {}
<1>1. CASE o.opt \in Turning
  <2>1. o.opt \in {"-R", "--bidir"} => DOMAIN Effect(o) = {"client"} /\ Effect(o)["client"] = TRUE BY DEF Effect
  <2>2. o.opt \in {"-s", "-c"} => DOMAIN Effect(o) = {} /\ o.opt \notin {"-R", "--bidir"} BY DEF Effect
  <2>3. ~IsBad(o) /\ IsBad(o) = FALSE BY <1>1 DEF IsBad
  <2>4. Sets(o.opt, Effect(o)) BY <1>1, <2>1, <2>2 DEF Sets, Turning, Marks
  <2> QED BY <1>1, <2>1, <2>2, <2>3, <2>4
<1>2. CASE o.opt \notin Turning
  <2>1. o.opt \notin {"-R", "--bidir"} /\ o.opt \notin {"-s", "-c"} BY <1>2 DEF Turning
  <2>2. \E bad : \E e : Plain(o, bad, e) BY <1>2, PlainIs
  <2>3. IsBad(o) = CHOOSE bad : \E e : Plain(o, bad, e) BY <1>2 DEF IsBad
  <2>4. \E e : Plain(o, IsBad(o), e) BY <2>2, <2>3
  <2>5. Effect(o) = CHOOSE e : Plain(o, IsBad(o), e) BY <2>1 DEF Effect
  <2>6. Plain(o, IsBad(o), Effect(o)) BY <2>4, <2>5
  <2> QED BY <1>2, <2>1, <2>6 DEF Plain
<1> QED BY <1>1, <1>2

\* Role and direction have fields of their own; only -S and --dscp share one.
LEMMA GroupIs ==
  /\ \A f \in DOMAIN SetBy : SetBy[f] \notin Turning
  /\ \A a, b : Group(a) = Group(b) => a = b \/ {a, b} = {"-S", "--dscp"}
<1>1. \A f \in DOMAIN SetBy : SetBy[f] \notin Turning BY DEF SetBy, Turning
<1> QED BY <1>1 DEF Group

\* Two tests of the same options are alike.
LEMMA OfIsOne ==
  ASSUME NEW T, NEW t, NEW u, IsOf(T, t), IsOf(T, u)
  PROVE  Alike(t, u)
<1>1. t.ok = u.ok BY DEF IsOf
<1>2. ASSUME t.ok PROVE t = u
  <2>1. Holds(T, t) /\ Holds(T, u) /\ u.ok BY <1>1, <1>2 DEF IsOf
  <2>2. ASSUME NEW f \in Fields PROVE t[f] = u[f]
    <3>1. CASE f \in Turn BY <2>1, <3>1 DEF Turn, Holds
    <3>2. CASE f = "ok" BY <1>1, <3>2
    <3>3. CASE f \notin Turn /\ f # "ok" /\ \E o \in T : f \in DOMAIN Effect(o)
      <4>1. PICK o \in T : f \in DOMAIN Effect(o) BY <3>3
      <4> QED BY <2>1, <4>1 DEF Holds, Given
    <3>4. CASE f \notin Turn /\ f # "ok" /\ ~\E o \in T : f \in DOMAIN Effect(o)
      BY <2>1, <3>4 DEF Holds, Given
    <3> QED BY <3>1, <3>2, <3>3, <3>4
  <2>3. t = [f \in Fields |-> t[f]] /\ u = [f \in Fields |-> u[f]] BY DEF IsOf
  <2> QED BY <2>2, <2>3
<1> QED BY <1>1, <1>2 DEF Alike

\* A new test is that of no options.
LEMMA DefaultsAreOfNone == IsOf({}, Defaults)
<1>1. Defaults = [f \in Fields |-> Defaults[f]]
  <2>1. Defaults = [f \in DOMAIN Defaults |-> Defaults[f]] BY DEF Defaults, Beside
  <2> QED BY <2>1, DefaultsAre
<1>2. Names({}) = {} BY DEF Names
<1>3. Good({}) BY <1>2 DEF Good
<1>4. Defaults.reverse = FALSE /\ Defaults.bidirectional = FALSE BY DefaultsAre DEF Toggles, WhenOn
<1>5. RoleOf({}) = "none" /\ ModeOf({}) = "receiver" BY <1>2 DEF RoleOf, ModeOf
<1>6. Holds({}, Defaults)
  <2>1. Defaults.role = RoleOf({}) /\ Defaults.mode = ModeOf({}) BY <1>5, DefaultsAre
  <2>2. "-R" \notin Names({}) /\ "--bidir" \notin Names({}) BY <1>2
  <2>3. Defaults.reverse = Given("-R", {}) /\ Defaults.bidirectional = Given("--bidir", {})
    BY <1>4, <2>2 DEF Given
  <2> QED BY <2>1, <2>3 DEF Holds, Given
<1> QED BY <1>1, <1>3, <1>6, DefaultsAre DEF IsOf

\* More options are worse.
LEMMA GoodIsOfLess ==
  ASSUME NEW T, NEW o, Good(T \cup {o})
  PROVE  Good(T)
<1>1. Names(T) \subseteq Names(T \cup {o}) BY DEF Names
<1> QED BY <1>1 DEF Good

\* The names with one option more.
LEMMA NamesAre == ASSUME NEW T, NEW o PROVE Names(T \cup {o}) = Names(T) \cup {o.opt}
BY DEF Names

\* One option more, of those that do not look at the test,
LEMMA PlainStep ==
  ASSUME NEW S, OneOfEach(S), NEW T \in SUBSET S, NEW o \in S, o \notin T, o.opt \notin Turning,
         NEW t, IsOf(T, t), t.ok
  PROVE  IsOf(T \cup {o}, Takes(t, o))
<1> DEFINE e == Effect(o)  U == T \cup {o}
<1>1. AnOption(o) BY DEF OneOfEach
<1>2. Plain(o, IsBad(o), e) /\ Sets(o.opt, e) /\ IsBad(o) \in BOOLEAN BY <1>1, EffectIs
<1>3. DOMAIN t = Fields /\ t = [f \in Fields |-> t[f]] /\ Good(T) /\ Holds(T, t) /\ t.ok \in BOOLEAN BY DEF IsOf
<1>4. CASE IsBad(o)
  <2>1. Takes(t, o) = Refused(t) BY <1>2, <1>3, <1>4 DEF Plain
  <2>2. ~Good(U) BY <1>4 DEF Good
  <2>3. "ok" \in Fields BY DEF Fields
  <2> DEFINE u == Refused(t)
  <2>4. u = [f \in Fields |-> u[f]] /\ u.ok = FALSE BY <1>3, <2>3 DEF Refused
  <2> QED BY <2>1, <2>2, <2>4 DEF IsOf
<1>5. CASE ~IsBad(o)
  <2> DEFINE u == Altered(t, e)
  <2>1. Takes(t, o) = u BY <1>2, <1>3, <1>5 DEF Plain
  <2>2. /\ DOMAIN e \subseteq Fields \ (Turn \cup {"ok"})
        /\ \A f \in DOMAIN e : \/ f \in Marks /\ e[f] = TRUE
                               \/ f \notin Marks /\ f \in DOMAIN SetBy /\ SetBy[f] = Group(o.opt)
    BY <1>2, SetByIs DEF Sets
  <2>3. u = [f \in Fields |-> IF f \in DOMAIN e THEN e[f] ELSE t[f]] BY <1>3 DEF Altered
  <2>4. Names(U) = Names(T) \cup {o.opt} BY NamesAre
  <2>5. \A x \in Turning : x \in Names(U) <=> x \in Names(T) BY <2>4
  <2>6. Good(U) BY <1>3, <1>5, <2>5 DEF Good, Turning
  <2>7. u.ok = t.ok /\ u.role = t.role /\ u.mode = t.mode /\ u.reverse = t.reverse /\ u.bidirectional = t.bidirectional
    <3>1. ASSUME NEW f \in Turn \cup {"ok"} PROVE u[f] = t[f]
      <4>1. f \in Fields /\ f \notin DOMAIN e BY <2>2 DEF Turn, Fields
      <4> QED BY <4>1, <2>3
    <3> HIDE DEF u
    <3> QED BY <3>1 DEF Turn
  <2>8. RoleOf(U) = RoleOf(T) /\ ModeOf(U) = ModeOf(T) BY <2>5 DEF RoleOf, ModeOf, Turning
  <2> HIDE DEF u
  <2>9. ASSUME NEW p \in U, NEW f \in DOMAIN Effect(p) PROVE u[f] = Effect(p)[f]
    <3>1. AnOption(p) BY DEF OneOfEach
    <3>2. Sets(p.opt, Effect(p)) BY <3>1, EffectIs
    <3>3. f \in Fields BY <3>2, SetByIs DEF Sets
    <3>4. CASE p = o BY <2>3, <3>3, <3>4
    <3>5. CASE p # o
      <4>1. p \in T /\ Group(p.opt) # Group(o.opt) BY <3>5 DEF OneOfEach
      <4>2. t[f] = Effect(p)[f] BY <1>3, <4>1 DEF Holds, Given
      <4>3. CASE f \notin DOMAIN e BY <2>3, <3>3, <4>2, <4>3
      <4>4. CASE f \in DOMAIN e
        <5>1. f \in Marks BY <2>2, <3>2, <4>1, <4>4 DEF Sets
        <5>2. e[f] = TRUE /\ Effect(p)[f] = TRUE BY <2>2, <3>2, <4>4, <5>1 DEF Sets
        <5> QED BY <2>3, <3>3, <4>4, <5>2
      <4> QED BY <4>3, <4>4
    <3> QED BY <3>4, <3>5
  <2>10. ASSUME NEW f \in Fields \ (Turn \cup {"ok"}), \A p \in U : f \notin DOMAIN Effect(p)
         PROVE  u[f] = Defaults[f]
    <3>1. f \notin DOMAIN e /\ \A p \in T : f \notin DOMAIN Effect(p) BY <2>10
    <3>2. t[f] = Defaults[f] BY <1>3, <3>1 DEF Holds, Given
    <3> QED BY <2>3, <3>1, <3>2
  <2>11. Holds(U, u)
    <3>1. "-R" \in Names(U) <=> "-R" \in Names(T) BY <2>5 DEF Turning
    <3>2. "--bidir" \in Names(U) <=> "--bidir" \in Names(T) BY <2>5 DEF Turning
    <3>3. u.role = RoleOf(U) /\ u.mode = ModeOf(U) BY <1>3, <2>7, <2>8 DEF Holds, Given
    <3>4. u.reverse = Given("-R", U) /\ u.bidirectional = Given("--bidir", U)
      BY <1>3, <2>7, <3>1, <3>2 DEF Holds, Given
    <3> QED BY <3>3, <3>4, <2>9, <2>10 DEF Holds, Given
  <2>12. u = [f \in Fields |-> u[f]]
    <3>1. DOMAIN u = Fields BY <2>3
    <3> QED BY <2>3, <3>1
  <2> QED BY <1>3, <2>1, <2>6, <2>7, <2>11, <2>12 DEF IsOf
<1> QED BY <1>2, <1>4, <1>5

\* and of those that do: what is between two refused options, or none.
LEMMA TurnStep ==
  ASSUME NEW S, OneOfEach(S), NEW T \in SUBSET S, NEW o \in S, o \notin T, o.opt \in Turning,
         NEW t, IsOf(T, t), t.ok
  PROVE  IsOf(T \cup {o}, Takes(t, o))
<1> DEFINE U == T \cup {o}  u == Takes(t, o)
<1>1. AnOption(o) BY DEF OneOfEach
<1>2. DOMAIN t = Fields /\ t = [f \in Fields |-> t[f]] /\ Good(T) /\ Holds(T, t) /\ t.ok = TRUE BY DEF IsOf
<1>3. Names(U) = Names(T) \cup {o.opt} BY NamesAre
<1>4. o.opt \notin Names(T)
  <2>1. \A p \in T : p.opt = o.opt => p = o BY DEF OneOfEach
  <2> QED BY <2>1 DEF Names
<1>5. ~IsBad(o) /\ \A p \in T : ~IsBad(p) BY <1>1, <1>2, EffectIs DEF Good
<1>6. Good(U) <=> ~({"-s", "-c"} \subseteq Names(U)) /\ ~({"-R", "--bidir"} \subseteq Names(U))
  BY <1>5 DEF Good
<1>7. {"ok", "role", "mode", "reverse", "bidirectional", "client"} \subseteq Fields BY DEF Fields
<1>8. Turn = {"role", "mode", "reverse", "bidirectional"} /\ "client" \notin Turn BY DEF Turn
<1>9. /\ ~({"-s", "-c"} \subseteq Names(T)) /\ ~({"-R", "--bidir"} \subseteq Names(T))
      /\ t.role = RoleOf(T) /\ t.mode = ModeOf(T)
      /\ t.reverse = Given("-R", T) /\ t.bidirectional = Given("--bidir", T)
  BY <1>2 DEF Good, Holds
\* What is refused.
<1>10. ASSUME u = Refused(t), ~Good(U) PROVE IsOf(U, u)
  <2>1. u = [f \in Fields |-> u[f]] /\ u.ok = FALSE BY <1>2, <1>7, <1>10 DEF Refused
  <2> QED BY <1>10, <2>1 DEF IsOf
\* What is set besides role and direction.
<1>11. ASSUME Good(U), u = [f \in Fields |-> u[f]], u.role = RoleOf(U), u.mode = ModeOf(U),
              u.reverse = Given("-R", U), u.bidirectional = Given("--bidir", U),
              \A f \in Fields \ Turn : u[f] = IF f \in DOMAIN Effect(o) THEN TRUE ELSE t[f],
              \A f \in DOMAIN Effect(o) : f = "client" /\ Effect(o)[f] = TRUE
       PROVE  IsOf(U, u)
  <2>1. u.ok = TRUE BY <1>2, <1>7, <1>8, <1>11
  <2>2. ASSUME NEW p \in U, NEW f \in DOMAIN Effect(p) PROVE u[f] = Effect(p)[f]
    <3>1. AnOption(p) /\ AnOption(o) BY DEF OneOfEach
    <3>2. Sets(p.opt, Effect(p)) BY <3>1, EffectIs
    <3>3. f \in Fields \ Turn BY <3>2, SetByIs DEF Sets
    <3>4. CASE f \in DOMAIN Effect(o)
      <4>1. f \in Marks BY <1>11, <3>4 DEF Marks
      <4>2. Effect(p)[f] = TRUE BY <3>2, <4>1 DEF Sets
      <4> QED BY <1>11, <3>3, <3>4, <4>2
    <3>5. CASE f \notin DOMAIN Effect(o)
      <4>1. p \in T BY <3>5
      <4>2. t[f] = Effect(p)[f] BY <1>2, <4>1 DEF Holds, Given
      <4> QED BY <1>11, <3>3, <3>5, <4>2
    <3> QED BY <3>4, <3>5
  <2>3. ASSUME NEW f \in Fields \ (Turn \cup {"ok"}), \A p \in U : f \notin DOMAIN Effect(p)
        PROVE  u[f] = Defaults[f]
    <3>1. f \notin DOMAIN Effect(o) /\ \A p \in T : f \notin DOMAIN Effect(p) BY <2>3
    <3>2. t[f] = Defaults[f] BY <1>2, <3>1 DEF Holds, Given
    <3> QED BY <1>11, <3>1, <3>2
  <2>4. Holds(U, u) BY <1>11, <2>2, <2>3 DEF Holds, Given
  <2> QED BY <1>11, <2>1, <2>4 DEF IsOf
<1>12. CASE o.opt \in {"-s", "-c"}
  <2> DEFINE r == IF o.opt = "-s" THEN "server" ELSE "client"
  <2>1. u = IF t.role \notin {"none", r} THEN Refused(t) ELSE SetRole(t, r)
    <3>1. o.opt \in DOMAIN Roles /\ Roles[o.opt] = r BY <1>12 DEF Roles
    <3> QED BY <1>1, <3>1, TakesIs DEF TakesRole
  <2>2. DOMAIN Effect(o) = {} BY <1>1, <1>12, EffectIs
  <2>3. /\ "-R" \in Names(U) <=> "-R" \in Names(T)
        /\ "--bidir" \in Names(U) <=> "--bidir" \in Names(T)
    BY <1>3, <1>12
  <2>4. CASE RoleOf(T) = "none"
    <3>1. "-s" \notin Names(T) /\ "-c" \notin Names(T) BY <2>4 DEF RoleOf
    <3>2. RoleOf(U) = r BY <1>3, <1>12, <3>1 DEF RoleOf
    <3>3. ~({"-s", "-c"} \subseteq Names(U)) BY <1>3, <1>12, <3>1
    <3>4. Good(U) BY <1>6, <1>9, <2>3, <3>3
    <3>5. u = SetRole(t, r) BY <1>9, <2>1, <2>4
    <3>6. u = [f \in Fields |-> IF f = "role" THEN r
                                ELSE IF f = "mode" THEN IF t.reverse THEN Against(r)
                                                        ELSE IF t.bidirectional THEN "both" ELSE Straight(r)
                                ELSE t[f]]
      BY <1>2, <1>7, <3>5 DEF SetRole
    <3> DEFINE m == IF t.reverse THEN Against(r) ELSE IF t.bidirectional THEN "both" ELSE Straight(r)
    <3>7. u.role = r /\ u.reverse = t.reverse /\ u.bidirectional = t.bidirectional /\ u.mode = m
      <4>1. u = [f \in Fields |-> IF f = "role" THEN r ELSE IF f = "mode" THEN m ELSE t[f]] BY <3>6
      <4> HIDE DEF u, r, m
      <4> QED BY <1>7, <4>1
    <3>16. ASSUME NEW f \in Fields \ Turn PROVE u[f] = t[f]
      <4>1. f # "role" /\ f # "mode" BY <1>8
      <4> HIDE DEF u, r
      <4> QED BY <3>6, <4>1
    <3>8. r # "none" OBVIOUS
    <3>9. u.mode = ModeOf(U)
      <4>1. (t.reverse <=> "-R" \in Names(U)) /\ (t.bidirectional <=> "--bidir" \in Names(U))
        BY <1>9, <2>3 DEF Given
      <4> HIDE DEF u, U, r
      <4>3. CASE "-R" \in Names(U) BY <3>2, <3>7, <3>8, <4>1, <4>3 DEF ModeOf
      <4>4. CASE "-R" \notin Names(U) /\ "--bidir" \in Names(U) BY <3>2, <3>7, <3>8, <4>1, <4>4 DEF ModeOf
      <4>5. CASE "-R" \notin Names(U) /\ "--bidir" \notin Names(U) BY <3>2, <3>7, <3>8, <4>1, <4>5 DEF ModeOf
      <4> QED BY <4>3, <4>4, <4>5
    <3>10. u = [f \in Fields |-> u[f]] BY <3>6
    <3>11. u.reverse = Given("-R", U) /\ u.bidirectional = Given("--bidir", U) BY <1>9, <2>3, <3>7 DEF Given
    <3>12. u.role = RoleOf(U) BY <3>2, <3>7
    <3>13. \A f \in Fields \ Turn : u[f] = IF f \in DOMAIN Effect(o) THEN TRUE ELSE t[f]
      <4> HIDE DEF u, r
      <4> QED BY <2>2, <3>16
    <3>14. \A f \in DOMAIN Effect(o) : f = "client" /\ Effect(o)[f] = TRUE BY <2>2
    <3>15. IsOf(U, u)
      <4> HIDE DEF u, U, r
      <4> QED BY <1>11, <3>13, <3>14, <3>4, <3>7, <3>9, <3>10, <3>11, <3>12
    <3> QED BY <3>15
  <2>5. CASE RoleOf(T) # "none"
    <3>1. {"-s", "-c"} \subseteq Names(U) /\ RoleOf(T) # r
      BY <1>3, <1>4, <1>12, <2>5 DEF RoleOf
    <3> QED BY <1>6, <1>9, <1>10, <2>1, <2>5, <3>1
  <2> QED BY <2>4, <2>5
<1>13. CASE o.opt = "-R"
  <2>1. u = IF t.bidirectional THEN Refused(t) ELSE For("client", SetReverse(t, TRUE))
    BY <1>1, <1>13, TakesIs DEF TakesDirection
  <2>2. DOMAIN Effect(o) = {"client"} /\ Effect(o)["client"] = TRUE BY <1>1, <1>13, EffectIs
  <2>3. /\ "-R" \in Names(U) /\ "-R" \notin Names(T)
        /\ "--bidir" \in Names(U) <=> "--bidir" \in Names(T)
        /\ "-s" \in Names(U) <=> "-s" \in Names(T)
        /\ "-c" \in Names(U) <=> "-c" \in Names(T)
    BY <1>3, <1>4, <1>13
  <2>4. RoleOf(U) = RoleOf(T) BY <2>3 DEF RoleOf
  <2>5. CASE "--bidir" \notin Names(T)
    <3>1. t.bidirectional = FALSE /\ t.reverse = FALSE BY <1>9, <2>3, <2>5 DEF Given
    <3>2. Good(U) BY <1>6, <1>9, <2>3, <2>5
    <3>3. u = For("client", SetReverse(t, TRUE)) BY <2>1, <3>1
    <3>4. u = [f \in Fields |-> IF f = "reverse" THEN TRUE
                                ELSE IF f = "mode" THEN IF t.role = "none" THEN t.mode ELSE Against(t.role)
                                ELSE IF f = "client" THEN TRUE ELSE t[f]]
      BY <1>2, <1>7, <3>3 DEF SetReverse, For
    <3>5. u.role = t.role /\ u.reverse = TRUE /\ u.bidirectional = FALSE
          /\ u.mode = (IF t.role = "none" THEN t.mode ELSE Against(t.role))
          /\ \A f \in Fields \ Turn : u[f] = IF f = "client" THEN TRUE ELSE t[f]
      BY <1>7, <1>8, <3>1, <3>4
    <3>6. RoleOf(T) = "none" => ModeOf(T) = "receiver" BY <2>3, <2>5 DEF ModeOf
    <3>7. u.mode = ModeOf(U) BY <1>9, <2>3, <2>4, <3>5, <3>6 DEF ModeOf
    <3>8. u = [f \in Fields |-> u[f]] BY <3>4
    <3>9. u.reverse = Given("-R", U) /\ u.bidirectional = Given("--bidir", U) BY <2>3, <2>5, <3>5 DEF Given
    <3>10. u.role = RoleOf(U) BY <1>9, <2>4, <3>5
    <3>11. \A f \in Fields \ Turn : u[f] = IF f \in DOMAIN Effect(o) THEN TRUE ELSE t[f] BY <2>2, <3>5
    <3>14. \A f \in DOMAIN Effect(o) : f = "client" /\ Effect(o)[f] = TRUE BY <2>2
    <3>15. IsOf(U, u)
      <4> HIDE DEF u, U
      <4> QED BY <1>11, <3>14, <3>2, <3>7, <3>8, <3>9, <3>10, <3>11
    <3> QED BY <3>15
  <2>6. CASE "--bidir" \in Names(T)
    <3>1. t.bidirectional = TRUE BY <1>9, <2>6 DEF Given
    <3>2. ~Good(U) BY <1>6, <2>3, <2>6
    <3> QED BY <1>10, <2>1, <3>1, <3>2
  <2> QED BY <2>5, <2>6
<1>14. CASE o.opt = "--bidir"
  <2>1. u = IF t.reverse THEN Refused(t) ELSE For("client", SetBidirectional(t))
    BY <1>1, <1>14, TakesIs DEF TakesDirection
  <2>2. DOMAIN Effect(o) = {"client"} /\ Effect(o)["client"] = TRUE BY <1>1, <1>14, EffectIs
  <2>3. /\ "--bidir" \in Names(U) /\ "--bidir" \notin Names(T)
        /\ "-R" \in Names(U) <=> "-R" \in Names(T)
        /\ "-s" \in Names(U) <=> "-s" \in Names(T)
        /\ "-c" \in Names(U) <=> "-c" \in Names(T)
    BY <1>3, <1>4, <1>14
  <2>4. RoleOf(U) = RoleOf(T) BY <2>3 DEF RoleOf
  <2>5. CASE "-R" \notin Names(T)
    <3>1. t.bidirectional = FALSE /\ t.reverse = FALSE BY <1>9, <2>3, <2>5 DEF Given
    <3>2. Good(U) BY <1>6, <1>9, <2>3, <2>5
    <3>3. u = For("client", SetBidirectional(t)) BY <2>1, <3>1
    <3>4. u = [f \in Fields |-> IF f = "bidirectional" THEN TRUE ELSE IF f = "mode" THEN "both"
                                ELSE IF f = "client" THEN TRUE ELSE t[f]]
      BY <1>2, <1>7, <3>3 DEF SetBidirectional, For
    <3>5. u.role = t.role /\ u.reverse = FALSE /\ u.bidirectional = TRUE /\ u.mode = "both"
          /\ \A f \in Fields \ Turn : u[f] = IF f = "client" THEN TRUE ELSE t[f]
      BY <1>7, <1>8, <3>1, <3>4
    <3>7. u.mode = ModeOf(U) BY <2>3, <2>5, <3>5 DEF ModeOf
    <3>8. u = [f \in Fields |-> u[f]] BY <3>4
    <3>9. u.reverse = Given("-R", U) /\ u.bidirectional = Given("--bidir", U) BY <2>3, <2>5, <3>5 DEF Given
    <3>10. u.role = RoleOf(U) BY <1>9, <2>4, <3>5
    <3>11. \A f \in Fields \ Turn : u[f] = IF f \in DOMAIN Effect(o) THEN TRUE ELSE t[f] BY <2>2, <3>5
    <3>14. \A f \in DOMAIN Effect(o) : f = "client" /\ Effect(o)[f] = TRUE BY <2>2
    <3>15. IsOf(U, u)
      <4> HIDE DEF u, U
      <4> QED BY <1>11, <3>14, <3>2, <3>7, <3>8, <3>9, <3>10, <3>11
    <3> QED BY <3>15
  <2>6. CASE "-R" \in Names(T)
    <3>1. t.reverse = TRUE BY <1>9, <2>6 DEF Given
    <3>2. ~Good(U) BY <1>6, <2>3, <2>6
    <3> QED BY <1>10, <2>1, <3>1, <3>2
  <2> QED BY <2>5, <2>6
<1> QED BY <1>12, <1>13, <1>14 DEF Turning

\* Whatever the order, the test is that of the options taken.
LEMMA StepIsOf ==
  ASSUME NEW S, OneOfEach(S), NEW T \in SUBSET S, NEW o \in S, o \notin T, NEW t, IsOf(T, t)
  PROVE  IsOf(T \cup {o}, Step(t, o))
<1>1. CASE t.ok
  <2>1. Step(t, o) = Takes(t, o) BY <1>1 DEF Step
  <2> QED BY <1>1, <2>1, PlainStep, TurnStep
<1>2. CASE ~t.ok
  <2>1. Step(t, o) = t BY <1>2 DEF Step
  <2>2. ~Good(T \cup {o}) BY <1>2, GoodIsOfLess DEF IsOf
  <2> QED BY <1>2, <2>1, <2>2 DEF IsOf
<1> QED BY <1>1, <1>2

\* The options in the order of the fold.
Some(S) == CHOOSE x \in S : TRUE
Folding(S, g) == g = [T \in SUBSET S |-> IF T = {} THEN Defaults ELSE Step(g[T \ {Some(T)}], Some(T))]
Folded(S) == FoldSet(LAMBDA o, t : IF t.ok THEN Takes(t, o) ELSE t, Defaults, S)

\* Induction over the naturals, for a set of them.
LEMMA SetInduction ==
  ASSUME NEW P \in SUBSET Nat, 0 \in P, \A n \in P : n + 1 \in P
  PROVE  P = Nat
<1> DEFINE T == Nat \ P  R == OpToRel(<, Nat)
<1>1. SUFFICES ASSUME T # {} PROVE FALSE OBVIOUS
<1>2. IsWellFoundedOn(R, Nat) BY NatLessThanWellFounded
<1>3. PICK x \in T : \A y \in T : ~(<<y, x>> \in R)
  <2> HIDE DEF R
  <2> QED BY <1>1, <1>2, WFMin
<1>4. x \in Nat /\ x \notin P /\ x # 0 OBVIOUS
<1>5. x - 1 \in Nat /\ (x - 1) + 1 = x BY <1>4
<1>6. <<x - 1, x>> \in R BY <1>4, <1>5 DEF OpToRel
<1>7. x - 1 \in P BY <1>3, <1>5, <1>6
<1> QED BY <1>4, <1>5, <1>7

\* The fold takes an element of the set.
LEMMA SomeIs == ASSUME NEW S, S # {} PROVE Some(S) \in S
BY DEF Some

\* A fold is what some function on the subsets gives that follows it.
LEMMA FoldIs ==
  ASSUME NEW S
  PROVE  Folded(S) = (CHOOSE g : Folding(S, g))[S]
BY DEF Folded, FoldSet, MapThenFoldSet, Folding, Some, Step

\* The fold goes from a set to one with an element less.
LEMMA SubsetsAre ==
  ASSUME NEW S, IsFiniteSet(S)
  PROVE  \A T \in SUBSET S : /\ IsFiniteSet(T) /\ Cardinality(T) \in Nat
                             /\ (Cardinality(T) = 0 <=> T = {})
                             /\ T # {} => T \ {Some(T)} \in SUBSET S
                                          /\ Cardinality(T \ {Some(T)}) = Cardinality(T) - 1
<1> TAKE T \in SUBSET S
<1>1. IsFiniteSet(T) BY FS_Subset
<1>2. Cardinality(T) \in Nat /\ (Cardinality(T) = 0 <=> T = {})
  BY <1>1, FS_CardinalityType, FS_EmptySet
<1>3. T # {} => Cardinality(T \ {Some(T)}) = Cardinality(T) - 1
  BY <1>1, SomeIs, FS_RemoveElement
<1> QED BY <1>1, <1>2, <1>3

\* There is a function that follows the fold,
LEMMA FoldingExists ==
  ASSUME NEW S, IsFiniteSet(S)
  PROVE  \E g : Folding(S, g)
<1> DEFINE Folds(n, g) == \A T \in SUBSET S : Cardinality(T) <= n =>
                            g[T] = IF T = {} THEN Defaults ELSE Step(g[T \ {Some(T)}], Some(T))
           P == {n \in Nat : \E g : Folds(n, g)}
<1>0. \A T \in SUBSET S : /\ IsFiniteSet(T) /\ Cardinality(T) \in Nat
                          /\ (Cardinality(T) = 0 <=> T = {})
                          /\ T # {} => T \ {Some(T)} \in SUBSET S
                                       /\ Cardinality(T \ {Some(T)}) = Cardinality(T) - 1
  BY SubsetsAre
<1>1. 0 \in P
  <2> DEFINE g == [T \in SUBSET S |-> Defaults]
  <2>1. Folds(0, g)
    <3> SUFFICES ASSUME NEW T \in SUBSET S, Cardinality(T) <= 0 PROVE T = {} /\ g[T] = Defaults OBVIOUS
    <3>1. Cardinality(T) \in Nat BY <1>0
    <3>2. Cardinality(T) = 0 BY <3>1
    <3> QED BY <3>2, <1>0
  <2> HIDE DEF g
  <2>2. \E h : Folds(0, h) BY <2>1
  <2> QED BY <2>2
<1>2. ASSUME NEW n \in P PROVE n + 1 \in P
  <2>1. PICK g : Folds(n, g) OBVIOUS
  <2> DEFINE h == [T \in SUBSET S |->
                     IF Cardinality(T) <= n THEN g[T] ELSE Step(g[T \ {Some(T)}], Some(T))]
  <2>2. Folds(n + 1, h)
    <3> SUFFICES ASSUME NEW T \in SUBSET S, Cardinality(T) <= n + 1
                 PROVE  h[T] = IF T = {} THEN Defaults ELSE Step(h[T \ {Some(T)}], Some(T))
      OBVIOUS
    <3>1. Cardinality(T) \in Nat BY <1>0
    <3>2. CASE T = {}
      <4>1. Cardinality(T) <= n
        <5>1. Cardinality(T) = 0 /\ n \in Nat BY <3>2, <1>0
        <5> QED BY <5>1
      <4> QED BY <4>1, <3>2, <2>1
    <3>3. CASE T # {}
      <4> DEFINE U == T \ {Some(T)}
      <4>1. U \in SUBSET S /\ Cardinality(U) <= n BY <3>3, <3>1, <1>0
      <4>2. h[U] = g[U] BY <4>1
      <4> HIDE DEF U
      <4>3. h[T] = Step(g[U], Some(T))
        <5>1. CASE Cardinality(T) <= n
          <6>1. h[T] = g[T] BY <5>1
          <6>2. g[T] = Step(g[U], Some(T)) BY <5>1, <2>1, <3>3 DEF U
          <6> QED BY <6>1, <6>2
        <5>2. CASE ~(Cardinality(T) <= n) BY <5>2 DEF U
        <5> QED BY <5>1, <5>2
      <4> QED BY <4>2, <4>3, <3>3 DEF U
    <3> QED BY <3>2, <3>3
  <2>3. n + 1 \in Nat OBVIOUS
  <2> HIDE DEF h
  <2>4. \E e : Folds(n + 1, e) BY <2>2
  <2> QED BY <2>3, <2>4
<1> HIDE DEF P, Folds
<1>3. P = Nat
  <2>1. P \in SUBSET Nat BY DEF P
  <2> QED BY <2>1, <1>1, <1>2, SetInduction
<1>4. Cardinality(S) \in P BY <1>3, FS_CardinalityType
<1>5. PICK g : Folds(Cardinality(S), g) BY <1>4 DEF P
<1> DEFINE h == [T \in SUBSET S |-> g[T]]
<1>6. \A T \in SUBSET S : h[T] = IF T = {} THEN Defaults ELSE Step(h[T \ {Some(T)}], Some(T))
  <2> TAKE T \in SUBSET S
  <2>1. Cardinality(T) <= Cardinality(S) BY FS_Subset
  <2>2. g[T] = IF T = {} THEN Defaults ELSE Step(g[T \ {Some(T)}], Some(T))
    BY <2>1, <1>5 DEF Folds
  <2> QED BY <2>2
<1>7. h = [T \in SUBSET S |-> h[T]] OBVIOUS
<1> HIDE DEF h
<1>8. Folding(S, h) BY <1>6, <1>7 DEF Folding
<1> QED BY <1>8

\* and it gives the test of the options.
LEMMA FoldedIsOf ==
  ASSUME NEW S, IsFiniteSet(S), OneOfEach(S)
  PROVE  IsOf(S, Folded(S))
<1> DEFINE g == CHOOSE h : Folding(S, h)
           P == {n \in Nat : \A T \in SUBSET S : Cardinality(T) = n => IsOf(T, g[T])}
<1>1. Folding(S, g) BY FoldingExists
<1> HIDE DEF g
<1>2. \A T \in SUBSET S : g[T] = IF T = {} THEN Defaults ELSE Step(g[T \ {Some(T)}], Some(T))
  BY <1>1 DEF Folding
<1>3. 0 \in P
  <2> SUFFICES ASSUME NEW T \in SUBSET S, Cardinality(T) = 0 PROVE IsOf(T, g[T]) OBVIOUS
  <2>1. T = {} BY SubsetsAre
  <2> QED BY <1>2, <2>1, DefaultsAreOfNone
<1>4. ASSUME NEW n \in P PROVE n + 1 \in P
  <2> SUFFICES ASSUME NEW T \in SUBSET S, Cardinality(T) = n + 1 PROVE IsOf(T, g[T]) OBVIOUS
  <2> DEFINE o == Some(T)  U == T \ {o}
  <2>1. T # {}
    <3>1. n + 1 # 0 OBVIOUS
    <3> QED BY <3>1, SubsetsAre
  <2>2. U \in SUBSET S /\ Cardinality(U) = n /\ o \in T /\ o \in S BY <2>1, SubsetsAre, SomeIs
  <2>3. IsOf(U, g[U]) BY <2>2
  <2>4. g[T] = Step(g[U], o) BY <1>2, <2>1
  <2>5. T = U \cup {o} /\ o \notin U BY <2>2
  <2> HIDE DEF o, U
  <2> QED BY <2>2, <2>3, <2>4, <2>5, StepIsOf
<1> HIDE DEF P
<1>5. P = Nat
  <2>1. P \in SUBSET Nat BY DEF P
  <2> QED BY <2>1, <1>3, <1>4, SetInduction
<1>6. Cardinality(S) \in P BY <1>5, FS_CardinalityType
<1>7. IsOf(S, g[S]) BY <1>6 DEF P
<1> QED BY <1>7, FoldIs DEF g
================================================================================
