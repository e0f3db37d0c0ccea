------------------------------ MODULE MCExchange ------------------------------
(* Exchange with the setups of its run.                                      *)
EXTENDS Exchange

O(opt) == Option(opt, 0)
Sized(opt, n, suffix) == [Option(opt, n) EXCEPT !.suffix = suffix]
Per(opt, n, second) == [Option(opt, n) EXCEPT !.second = second]

Server == {O("-s")}
Client == {O("-c")}

Given(options) == [app |-> FALSE, options |-> options, streams |-> 0]
App(n) == [app |-> TRUE, options |-> {}, streams |-> n]

Line(s, c) == [server |-> Given(Server \cup s), client |-> Given(Client \cup c)]

Good == {
  Line({}, {}),
  Line({O("-F"), O("-1")}, {O("-R"), Option("-P", 128), Sized("-l", 8, "K"), O("-N")}),
  Line({}, {O("-u"), O("--bidir"), O("--gsro"), O("--udp-counters-64bit")}),
  Line({}, {O("--gsro")}),
  Line({}, {O("-F"), Option("-O", 2), Option("--dscp", 46), Option("-S", 8)}),
  Line({Per("--server-bitrate-limit", 40, 2)}, {Per("-b", 10, 3), O("--bidir"), Option("-P", 2)}),
  Line({Option("--server-max-duration", 20)}, {Option("-t", 18), Option("-O", 2), Option("-S", 255)}),
  Line({Option("--idle-timeout", 1)}, {Sized("-w", 512, "M"), Option("-M", MaxMss), Option("-t", 0)})}

Bad == {
  Line({Per("--server-bitrate-limit", 30, 0)}, {Per("-b", 10, 0), O("--bidir"), Option("-P", 2)}),
  Line({Option("--server-max-duration", 20)}, {Option("-n", 1)}),
  Line({O("-F")}, {O("-u"), Option("-l", 16)}),
  Line({O("-c")}, {O("-R")}),
  Line({}, {O("-R"), O("--bidir"), O("-u")}),
  Line({O("-R")}, {O("-1")}),
  Line({}, {Option("-n", 1), Option("-t", 5), O("-L")}),
  Line({}, {O("-u"), Option("-l", 15)}),
  Line({}, {Sized("-b", 1, "x"), Option("-P", 129)})}

\* Numbers nobody refuses: streams that never come, or are none, a rate no size can hold.
Odd == {
  Line({}, {Option("-P", 0), Option("-M", -1)}),
  Line({Per("--server-bitrate-limit", 40, 0)}, {Option("-P", -1), Option("-w", -1)}),
  Line({}, {Option("-P", -1), O("-R")}),
  Line({Per("--server-bitrate-limit", 40, 0)}, {Option("-P", -1), Per("-b", 10, 0)}),
  Line({Per("--server-bitrate-limit", 40, 0)}, {Option("-P", 4), Per("-b", 67108864, 0)})}

\* Two apps, and an app with a command line on the other side.
Apps == {
  [server |-> App(0), client |-> App(128)],
  [server |-> App(0), client |-> App(129)],
  [server |-> App(0), client |-> Given(Client \cup {O("-u"), O("-R"), Option("-t", 0)})],
  [server |-> Given(Server \cup {Option("--server-max-duration", 9)}), client |-> App(1)]}

MCSetups == Good \cup Bad \cup Odd \cup Apps
=============================================================================
