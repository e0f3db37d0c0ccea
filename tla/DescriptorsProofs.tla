-------------------------- MODULE DescriptorsProofs --------------------------
(***************************************************************************)
(* Proofs about Descriptors for all tests, numbers of streams and bounds.  *)
(* A function is a sequence of calls. Its outline says before each call    *)
(* which descriptors may be open, which lists held and which numbers stale;*)
(* whether an outline leads from one call to the next is a question about  *)
(* single calls; one lemma for each function and phase gives its outline.  *)
(***************************************************************************)
EXTENDS Descriptors, SequenceTheorems, FiniteSetTheorems, WellFoundedInduction, TLAPS

Kinds == {"open", "pipe", "list", "try", "never", "drop", "clear", "copy", "forget", "enter",
          "leave", "add", "is_closed", "no_streams"}

FunctionNames == {"netdial", "netannounce", "tcp_connect", "tcp_listen", "tcp_accept", "udp_connect",
                  "udp_listen", "udp_accept", "sockopts", "new_stream", "client_end"}

Calls ==
  {c \in [does : Kinds, into : Fds, what : Fds \cup Lists \cup (FunctionNames \X {0}),
          undo : SUBSET (Fds \cup Lists)] :
     /\ c.does = "list" => c.what \in Lists
     /\ c.does \in {"drop", "clear"} => c.what \in Fds \cup Lists
     /\ c.does = "clear" => c.what = c.into
     /\ c.does = "copy" => c.what \in Fds}
-----------------------------------------------------------------------------
(* What is known before a call of the descriptors that are open, and how a *)
(* call changes it: "kept" and "new" are variables that hold all           *)
(* descriptors of the test that are not lost, and all that the function    *)
(* has opened; "held" and "spent" are the lists that may be held or freed. *)

OfStreams(names, n) == {v \in Fds : v[1] \in names /\ v[2] \in 1..n}
Str(n) == OfStreams({"socket", "buffer_fd", "diskfile_fd"}, n)
Files(n) == OfStreams({"buffer_fd", "diskfile_fd"}, n)

\* The variables whose descriptors are open when a client or a server is there.
Post(o, at_, n) ==
  IF o.role = "client"
    THEN IF at_ \in {"connect", "streams", "refused", "failed"} THEN {Ctrl} \cup Str(n)
         ELSE IF at_ \in {"display", "end", "ended", "again"} THEN Files(n) ELSE {}
    ELSE IF at_ = "listen" THEN {Listener, Pipe}
         ELSE IF at_ \in {"accept", "streams", "reopen", "busy", "test_end", "expire", "failed"}
           THEN {Ctrl, Listener, Pipe} \cup Str(n) \cup (IF o.protocol = "udp" THEN {Prot} ELSE {})
         ELSE IF at_ = "cleanup" THEN {Pipe} \cup Files(n) ELSE {}

FailedAt(at_) ==
  IF at_ = "connect" THEN "refused" ELSE IF at_ \in {"display", "end", "again"} THEN "ended" ELSE "failed"

Ghost(kept, new, held, spent, f, n) ==
  [kept |-> kept, new |-> new, held |-> held, spent |-> spent, fn |-> f, n |-> n]

\* a holds descriptors before the call and b after it.
Moves(c, n, a, b) ==
  /\ c.does \in {"open", "pipe"} => c.into \notin a /\ a \cup {c.into} \subseteq b
  /\ c.does \in {"list", "try", "enter", "leave", "is_closed", "no_streams"} => a \subseteq b
  /\ c.does \in {"drop", "clear"} => a \ {c.what} \subseteq b
  /\ c.does = "copy" => c.into \notin a /\ (a \subseteq b \/ (a \ {c.what}) \cup {c.into} \subseteq b)
  /\ c.does = "forget" => c.into \notin a /\ a \subseteq b
  /\ c.does = "add" =>
       Socket(n + 1) \notin a /\ (a \subseteq b \/ (a \ {S}) \cup {Socket(n + 1)} \subseteq b)

\* Where calls may fail.
Failing(at_) ==
  at_ \in {"connect", "streams", "display", "end", "again", "listen", "accept", "reopen", "busy",
           "test_end"}

\* What a failure of function f may lose.
MayLose(f, at_, lost) ==
  \/ lost = {}
  \/ f = "new_stream" /\ at_ = "streams" /\ \E v, w \in Fds : lost \subseteq {v, w}
  \/ f \in {"udp_connect", "udp_accept", "sockopts"} /\ at_ = "streams" /\ \E v \in Fds : lost \subseteq {v}
  \/ f = "client_end" /\ at_ \in {"display", "end"} /\ lost \subseteq {Ctrl}

MayFail(p, kept, new, held, spent, f, n, into, undo) ==
  /\ Failing(p.at)
  /\ f = "client_end" => p.at \in {"display", "end", "again"}
  /\ held \subseteq undo /\ undo \cap spent = {}
  /\ f \in Tidy => new \subseteq undo
  /\ MayLose(f, p.at, kept \ (undo \cup (Post(p.opts, FailedAt(p.at), n) \ {into})))

EndsWell(p, kept, held, f, n) == kept \subseteq Post(p.opts, p.at, n) /\ held = {} /\ f = "none"

Keeps(p, g, c, h) ==
  /\ Moves(c, g.n, g.kept, h.kept)
  /\ g.fn \in Tidy /\ h.fn = g.fn => Moves(c, g.n, g.new, h.new)
  /\ h.fn = IF c.does = "enter" THEN c.what[1] ELSE IF c.does = "leave" THEN "none" ELSE g.fn
  /\ h.n = IF c.does = "add" THEN g.n + 1 ELSE IF c.does = "no_streams" THEN 0 ELSE g.n
  /\ c.does = "add" => g.n < NumStreams
  /\ c.does = "list" => g.held \cup {c.what} \subseteq h.held /\ g.spent \ {c.what} \subseteq h.spent
  /\ c.does \in {"drop", "clear"} =>
       /\ c.what \notin g.spent /\ g.held \ {c.what} \subseteq h.held
       /\ g.spent \cup ({c.what} \cap Lists) \subseteq h.spent
  /\ c.does \notin {"list", "drop", "clear"} => g.held \subseteq h.held
  /\ c.does \notin {"list", "drop", "clear", "enter", "leave"} => g.spent \subseteq h.spent
  /\ h.fn = "none" => h.held = {}
  /\ c.does = "is_closed" => EndsWell(p, g.kept \ {S}, g.held, g.fn, g.n)
  /\ c.does \in {"open", "list", "try", "never"} =>
       MayFail(p, g.kept, g.new, g.held, g.spent, g.fn, g.n, c.into, c.undo)

-----------------------------------------------------------------------------
(* What is known of the numbers in the variables: those in "good" are of   *)
(* descriptors of the test, or none, and differ, but for "twins"; those in *)
(* "safe" are not the number of another good variable of the core; those   *)
(* in "gone" are not of descriptors of the test.                           *)

Marks(good, twins, safe, gone, n) == [good |-> good, twins |-> twins, safe |-> safe, gone |-> gone, n |-> n]

Three == {S, Listener, Prot}
Most == Fds \ Three
Core == {Ctrl, Pipe} \cup Files(NumStreams)

\* What is good, and what is safe, when a client or a server is there.
Must(o, at_, n) ==
  IF at_ \in {"start", "connect", "listen", "accept", "streams"} THEN Fds \ {S}
  ELSE IF at_ \in {"reopen", "busy"} \/ (o.role = "client" /\ at_ \in {"refused", "failed"}) THEN Most
  ELSE IF o.role = "server" /\ at_ \in {"test_end", "expire", "failed"} THEN {Pipe, Ctrl} \cup Files(n)
  ELSE IF at_ = "free" THEN {} ELSE {Pipe} \cup Files(n)

Spare(o, at_, n) ==
  IF o.role = "server" /\ at_ \in {"reopen", "busy", "test_end", "expire", "failed"}
    THEN {Listener, Prot} \cup OfStreams({"socket"}, n)
  ELSE IF at_ \in {"display", "end", "ended", "again"} THEN {Ctrl} \cup OfStreams({"socket"}, n) ELSE {}

\* With TCP the listener is known under two names.
Twins(o) == IF o.protocol = "tcp" THEN {Listener, Prot} ELSE {}

\* What has been closed before may be closed again.
Spared(o, at_, name) ==
  IF o.role = "client" THEN at_ = "again" /\ name \in {"socket", "ctrl_sck"}
                       ELSE at_ = "cleanup" /\ name \in {"socket", "listener", "prot_listener"}

\* Those in a are known to differ although only those in b may be alike.
Apart(a, b) == a \subseteq b \/ \E v : a \subseteq {v}

Relaxes(g, h) ==
  /\ h.good \subseteq g.good /\ Apart(h.good \cap g.twins, h.twins)
  /\ h.safe \subseteq g.safe \cup g.good /\ h.gone \subseteq g.gone

EndsFit(p, g) ==
  /\ Must(p.opts, p.at, g.n) \subseteq g.good /\ Spare(p.opts, p.at, g.n) \subseteq g.safe \cup g.good
  /\ Apart(Must(p.opts, p.at, g.n) \cap g.twins, Twins(p.opts))

\* A call may fail: it closes what its variable holds at most.
MayEnd(p, g, into, undo) ==
  /\ Failing(p.at) /\ undo \cap Fds \subseteq g.good \cap {into}
  /\ Must(p.opts, FailedAt(p.at), g.n) \subseteq g.good \cup {into}
  /\ Spare(p.opts, FailedAt(p.at), g.n) \subseteq g.safe \cup g.good

Closes(p, g, c, h) ==
  /\ c.what \in g.good \/ (c.what \in g.safe /\ Spared(p.opts, p.at, c.what[1]))
  /\ h.good \subseteq
       (IF c.what \in g.good
          THEN g.good \ ({c.what} \cup (IF c.what \in g.twins THEN g.twins ELSE {}))
          ELSE (g.good \cap Core) \ {c.what})
         \cup (IF c.does = "clear" THEN {c.what} ELSE {})
  /\ Apart(h.good \cap g.twins, h.twins)
  /\ h.safe \subseteq g.safe \cup g.good /\ h.gone \subseteq g.gone \cup {c.what}

Owns(p, g, c, h) ==
  /\ h.twins \subseteq Three
  /\ h.n = IF c.does = "add" THEN g.n + 1 ELSE IF c.does = "no_streams" THEN 0 ELSE g.n
  /\ c.does \in {"open", "pipe"} =>
       /\ h.good \subseteq g.good \cup {c.into} /\ Apart(h.good \cap (g.twins \ {c.into}), h.twins)
       /\ h.safe \subseteq g.good \cup {c.into} \cup (IF c.into \in Core THEN {} ELSE g.safe)
       /\ h.gone = {}
  /\ c.does = "pipe" => c.into \in g.good /\ c.into \notin Three
  /\ c.does \in {"list", "try", "never", "enter", "leave", "no_streams"} => Relaxes(g, h)
  /\ c.does = "drop" /\ c.what \in Lists => Relaxes(g, h)
  /\ c.does = "is_closed" => (IF S \in g.good THEN Relaxes(g, h) ELSE S \in g.gone) /\ EndsFit(p, g)
  /\ c.does \in {"drop", "clear"} /\ c.what \in Fds => Closes(p, g, c, h)
  /\ c.does = "copy" =>
       /\ c.what \in g.good /\ {c.into, c.what} \cap Core = {}
       /\ h.good \subseteq g.good \cup {c.into} /\ Apart(h.good \cap (g.twins \cup {c.into, c.what}), h.twins)
       /\ h.safe \subseteq g.safe \cup g.good \cup {c.into} /\ h.gone \subseteq g.gone \ {c.into}
  /\ c.does = "forget" =>
       /\ h.good \subseteq g.good \cup {c.into} /\ Apart(h.good \cap g.twins, h.twins)
       /\ h.safe \subseteq g.safe \cup g.good \cup {c.into} /\ h.gone \subseteq g.gone \cup {c.into}
  /\ c.does = "add" =>
       /\ g.n < NumStreams /\ S \in g.good /\ S \notin g.twins
       /\ h.good \subseteq (g.good \ {S}) \cup {Socket(g.n + 1)} /\ Apart(h.good \cap g.twins, h.twins)
       /\ h.safe \subseteq g.safe \cup g.good \cup {Socket(g.n + 1)} /\ h.gone \subseteq g.gone \ {Socket(g.n + 1)}
  /\ c.does \in {"open", "list", "try", "never"} => MayEnd(p, g, c.into, c.undo)

Step(p, g, c, h) == IF p.of = "kept" THEN Keeps(p, g, c, h) ELSE Owns(p, g, c, h)
-----------------------------------------------------------------------------
\* A short sequence is put together from shorter ones.
LEMMA Pairs == ASSUME NEW T, NEW c \in T, NEW d \in T PROVE <<c, d>> = <<c>> \o <<d>>
<1>1. <<c>> \in Seq(T) /\ <<d>> \in Seq(T) /\ <<c, d>> \in Seq(T) OBVIOUS
<1>2. Len(<<c>>) = 1 /\ Len(<<d>>) = 1 /\ Len(<<c, d>>) = 2 OBVIOUS
<1>3. <<c>> \o <<d>> \in Seq(T) /\ Len(<<c>> \o <<d>>) = 2 BY <1>1, <1>2, ConcatProperties
<1>4. ASSUME NEW j \in 1..2 PROVE (<<c>> \o <<d>>)[j] = <<c, d>>[j]
  <2>1. (<<c>> \o <<d>>)[j] = IF j <= 1 THEN <<c>>[j] ELSE <<d>>[j - 1]
    BY <1>1, <1>2, ConcatProperties
  <2>2. j = 1 \/ j = 2 OBVIOUS
  <2> QED BY <2>1, <2>2
<1> QED BY <1>1, <1>2, <1>3, <1>4, SeqEqual

\* An outline of a sequence of calls: what is known before each of them, and in the end.
Leads(p, g, calls, e) ==
  /\ calls \in Seq(Calls)
  /\ \E h : /\ h[1] = g /\ h[Len(calls) + 1] = e
            /\ \A i \in 1..Len(calls) : Step(p, h[i], calls[i], h[i + 1])

\* Nothing is called.
LEMMA LeadsNowhere == ASSUME NEW p, NEW g PROVE Leads(p, g, <<>>, g)
<1> DEFINE h == [i \in {1} |-> g]
<1>1. h[1] = g /\ <<>> \in Seq(Calls) /\ Len(<<>>) = 0 /\ 1..0 = {} OBVIOUS
<1> HIDE DEF h
<1>2. h[Len(<<>>) + 1] = g BY <1>1
<1>3. \A i \in 1..Len(<<>>) : Step(p, h[i], <<>>[i], h[i + 1]) BY <1>1
<1> QED BY <1>1, <1>2, <1>3 DEF Leads

\* One call.
LEMMA LeadsOne ==
  ASSUME NEW p, NEW g, NEW c \in Calls, NEW e, Step(p, g, c, e)
  PROVE  Leads(p, g, <<c>>, e)
<1> DEFINE h == [i \in {1, 2} |-> IF i = 1 THEN g ELSE e]
<1>1. <<c>> \in Seq(Calls) /\ Len(<<c>>) = 1 /\ <<c>>[1] = c OBVIOUS
<1>2. h[1] = g /\ h[2] = e OBVIOUS
<1> HIDE DEF h
<1>3. \A i \in 1..Len(<<c>>) : Step(p, h[i], <<c>>[i], h[i + 1])
  <2> TAKE i \in 1..Len(<<c>>)
  <2>1. i = 1 BY <1>1
  <2> QED BY <2>1, <1>1, <1>2
<1>4. h[Len(<<c>>) + 1] = e BY <1>1, <1>2
<1> QED BY <1>1, <1>2, <1>3, <1>4 DEF Leads

\* One sequence after the other.
LEMMA LeadsOn ==
  ASSUME NEW p, NEW g, NEW a, NEW m, NEW b, NEW e, Leads(p, g, a, m), Leads(p, m, b, e)
  PROVE  Leads(p, g, a \o b, e)
<1>1. PICK h : h[1] = g /\ h[Len(a) + 1] = m /\ \A i \in 1..Len(a) : Step(p, h[i], a[i], h[i + 1])
  BY DEF Leads
<1>2. PICK k : k[1] = m /\ k[Len(b) + 1] = e /\ \A i \in 1..Len(b) : Step(p, k[i], b[i], k[i + 1])
  BY DEF Leads
<1>3. a \in Seq(Calls) /\ b \in Seq(Calls) /\ Len(a) \in Nat /\ Len(b) \in Nat BY DEF Leads
<1>4. /\ a \o b \in Seq(Calls) /\ Len(a \o b) = Len(a) + Len(b)
      /\ \A i \in 1..Len(a) + Len(b) : (a \o b)[i] = IF i <= Len(a) THEN a[i] ELSE b[i - Len(a)]
  BY <1>3, ConcatProperties
<1> DEFINE l == [i \in 1..Len(a) + Len(b) + 1 |-> IF i <= Len(a) THEN h[i] ELSE k[i - Len(a)]]
<1>5. l[1] = g /\ l[Len(a) + Len(b) + 1] = e BY <1>1, <1>2, <1>3
<1>6. ASSUME NEW i \in 1..Len(a) + Len(b) PROVE Step(p, l[i], (a \o b)[i], l[i + 1])
  <2>1. CASE i <= Len(a)
    <3>1. l[i] = h[i] /\ l[i + 1] = h[i + 1] BY <2>1, <1>1, <1>2, <1>3
    <3> QED BY <3>1, <2>1, <1>1, <1>3, <1>4
  <2>2. CASE i > Len(a)
    <3>1. l[i] = k[i - Len(a)] /\ l[i + 1] = k[i - Len(a) + 1] BY <2>2, <1>3
    <3> QED BY <3>1, <2>2, <1>2, <1>3, <1>4
  <2> QED BY <2>1, <2>2, <1>3
<1> QED BY <1>4, <1>5, <1>6 DEF Leads

\* Calls that are made in any case, and a call that is made on a condition.
LEMMA LeadsIf ==
  ASSUME NEW p, NEW g, NEW b \in BOOLEAN, NEW c, NEW e, b => Leads(p, g, <<c>>, e), ~b => g = e
  PROVE  Leads(p, g, If(b, c), e)
BY LeadsNowhere DEF If

LEMMA LeadsTwo ==
  ASSUME NEW p, NEW g, NEW c, NEW d, NEW m, NEW e, Leads(p, g, <<c>>, m), Leads(p, m, <<d>>, e)
  PROVE  Leads(p, g, <<c, d>>, e)
<1>1. c \in Calls /\ d \in Calls
  <2>1. <<c>> \in Seq(Calls) /\ <<d>> \in Seq(Calls) BY DEF Leads
  <2>2. Len(<<c>>) = 1 /\ <<c>>[1] = c /\ Len(<<d>>) = 1 /\ <<d>>[1] = d OBVIOUS
  <2> QED BY <2>1, <2>2, ElementOfSeq
<1>2. <<c, d>> = <<c>> \o <<d>> BY <1>1, Pairs
<1> QED BY <1>2, LeadsOn

LEMMA LeadsThree ==
  ASSUME NEW p, NEW g, NEW c, NEW d, NEW f, NEW m, NEW e,
         Leads(p, g, <<c, d>>, m), Leads(p, m, <<f>>, e)
  PROVE  Leads(p, g, <<c, d, f>>, e)
<1>1. <<c, d, f>> = <<c, d>> \o <<f>> OBVIOUS
<1> QED BY <1>1, LeadsOn

\* The first call, and what is left after it.
LEMMA LeadsFirst ==
  ASSUME NEW p, NEW g, NEW calls, NEW e, Leads(p, g, calls, e), calls # <<>>
  PROVE  /\ Head(calls) \in Calls
         /\ \E m : Step(p, g, Head(calls), m) /\ Leads(p, m, Tail(calls), e)
<1>1. PICK h : /\ h[1] = g /\ h[Len(calls) + 1] = e
               /\ \A i \in 1..Len(calls) : Step(p, h[i], calls[i], h[i + 1])
  BY DEF Leads
<1>2. calls \in Seq(Calls) /\ Len(calls) \in Nat /\ Len(calls) > 0 BY DEF Leads
<1>3. /\ Head(calls) = calls[1] /\ Tail(calls) \in Seq(Calls) /\ Len(Tail(calls)) = Len(calls) - 1
      /\ \A i \in 1..Len(calls) - 1 : Tail(calls)[i] = calls[i + 1]
  BY <1>2
<1>4. Step(p, g, Head(calls), h[2]) /\ Head(calls) \in Calls BY <1>1, <1>2, <1>3
<1> DEFINE l == [i \in 1..Len(calls) |-> h[i + 1]]
<1>5. l[1] = h[2] /\ l[Len(Tail(calls)) + 1] = e BY <1>1, <1>2, <1>3
<1>6. ASSUME NEW i \in 1..Len(Tail(calls)) PROVE Step(p, l[i], Tail(calls)[i], l[i + 1])
  BY <1>1, <1>2, <1>3
<1>7. Leads(p, h[2], Tail(calls), e) BY <1>3, <1>5, <1>6 DEF Leads
<1> QED BY <1>4, <1>7

\* Nothing is left.
LEMMA LeadsNo == ASSUME NEW p, NEW g, NEW e, Leads(p, g, <<>>, e) PROVE g = e
BY DEF Leads

LEMMA LeadsFour ==
  ASSUME NEW p, NEW g, NEW c, NEW d, NEW f, NEW i, NEW m, NEW e,
         Leads(p, g, <<c, d>>, m), Leads(p, m, <<f, i>>, e)
  PROVE  Leads(p, g, <<c, d, f, i>>, e)
<1>1. <<c, d, f, i>> = <<c, d>> \o <<f, i>> OBVIOUS
<1> QED BY <1>1, LeadsOn
-----------------------------------------------------------------------------
(* What the single calls keep.                                             *)

LEMMA Names ==
  /\ Ctrl[1] = "ctrl_sck" /\ Listener[1] = "listener" /\ Prot[1] = "prot_listener"
  /\ Pipe[1] = "interrupt_fds" /\ S[1] = "s" /\ LocalRes[1] = "local_res" /\ Res[1] = "res"
  /\ \A k : /\ Socket(k)[1] = "socket" /\ Buffer(k)[1] = "buffer_fd" /\ File(k)[1] = "diskfile_fd"
            /\ Socket(k)[2] = k /\ Buffer(k)[2] = k /\ File(k)[2] = k
BY DEF Ctrl, Listener, Prot, Pipe, S, LocalRes, Res, Socket, Buffer, File

LEMMA FdNames ==
  /\ {Ctrl, Listener, Prot, Pipe, S} \subseteq Fds
  /\ \A k \in 1..NumStreams : {Socket(k), Buffer(k), File(k)} \subseteq Fds
  /\ Fds \cap Lists = {} /\ LocalRes # Res /\ Lists = {LocalRes, Res}
<1>1. \A v \in Fds : v[1] \in {"ctrl_sck", "listener", "prot_listener", "interrupt_fds", "s",
                                "socket", "buffer_fd", "diskfile_fd"}
  BY Names DEF Fds
<1> QED BY <1>1, Names DEF Fds, Lists

\* What may fail may also fail later, if what was opened in between is undone.
LEMMA FailsMore ==
  ASSUME NEW p, NEW k, NEW w, NEW k2, NEW w2, NEW h, NEW s, NEW s2, NEW f, NEW n, NEW v, NEW undo,
         MayFail(p, k, w, {}, s, f, n, v, {}), k2 \ undo \subseteq k, f \in Tidy => w2 \ undo \subseteq w,
         h \subseteq undo, undo \cap s2 = {}
  PROVE  MayFail(p, k2, w2, h, s2, f, n, v, undo)
<1> DEFINE q == Post(p.opts, FailedAt(p.at), n) \ {v}
<1>1. k2 \ (undo \cup q) \subseteq k \ ({} \cup q) OBVIOUS
<1> HIDE DEF q
<1>2. MayLose(f, p.at, k \ ({} \cup q)) BY DEF MayFail, q
<1>3. MayLose(f, p.at, k2 \ (undo \cup q))
  <2> DEFINE a == k \ ({} \cup q)
             b == k2 \ (undo \cup q)
  <2>1. MayLose(f, p.at, a) /\ b \subseteq a BY <1>1, <1>2
  <2> HIDE DEF a, b
  <2>2. MayLose(f, p.at, b) BY <2>1 DEF MayLose
  <2> QED BY <2>2 DEF b
<1>4. f \in Tidy => w2 \subseteq undo BY DEF MayFail
<1> QED BY <1>3, <1>4 DEF MayFail, q

LEMMA GhostParts ==
  ASSUME NEW k, NEW w, NEW h, NEW s, NEW f, NEW n
  PROVE  LET g == Ghost(k, w, h, s, f, n)
         IN g.kept = k /\ g.new = w /\ g.held = h /\ g.spent = s /\ g.fn = f /\ g.n = n
BY DEF Ghost

\* A descriptor is opened.
LEMMA OpenKeeps ==
  ASSUME NEW p, p.of = "kept", NEW k, NEW w, NEW h, NEW s, NEW f, NEW n, NEW k2, NEW w2, NEW h2, NEW s2,
         NEW v \in Fds, NEW undo \in SUBSET (Fds \cup Lists),
         v \notin k, k \cup {v} \subseteq k2, f \in Tidy => v \notin w /\ w \cup {v} \subseteq w2,
         h \subseteq h2, s \subseteq s2, f = "none" => h2 = {},
         MayFail(p, k, w, h, s, f, n, v, undo)
  PROVE  Leads(p, Ghost(k, w, h, s, f, n), <<Opens(v, undo)>>, Ghost(k2, w2, h2, s2, f, n))
<1> DEFINE c == Opens(v, undo)
<1>1. c \in Calls /\ c.does = "open" /\ c.into = v /\ c.undo = undo
  BY DEF Calls, Kinds, Call, Opens
<1> HIDE DEF c
<1>2. Step(p, Ghost(k, w, h, s, f, n), c, Ghost(k2, w2, h2, s2, f, n))
  BY <1>1, GhostParts, FdNames DEF Step, Keeps, Moves
<1> QED BY <1>1, <1>2, LeadsOne DEF c

\* A list is made.
LEMMA ListKeeps ==
  ASSUME NEW p, p.of = "kept", NEW k, NEW w, NEW h, NEW s, NEW f, NEW n, NEW k2, NEW w2, NEW h2, NEW s2,
         NEW v \in Fds, NEW l \in Lists, NEW undo \in SUBSET (Fds \cup Lists),
         k \subseteq k2, f \in Tidy => w \subseteq w2,
         h \cup {l} \subseteq h2, s \ {l} \subseteq s2, f = "none" => h2 = {},
         MayFail(p, k, w, h, s, f, n, v, undo)
  PROVE  Leads(p, Ghost(k, w, h, s, f, n), <<Resolves(l, v, undo)>>, Ghost(k2, w2, h2, s2, f, n))
<1> DEFINE c == Resolves(l, v, undo)
<1>1. c \in Calls /\ c.does = "list" /\ c.into = v /\ c.undo = undo /\ c.what = l
  BY DEF Calls, Kinds, Call, Resolves
<1> HIDE DEF c
<1>2. Step(p, Ghost(k, w, h, s, f, n), c, Ghost(k2, w2, h2, s2, f, n))
  BY <1>1, GhostParts, FdNames DEF Step, Keeps, Moves
<1> QED BY <1>1, <1>2, LeadsOne DEF c

\* A call that may fail.
LEMMA TryKeeps ==
  ASSUME NEW p, p.of = "kept", NEW k, NEW w, NEW h, NEW s, NEW f, NEW n, NEW k2, NEW w2, NEW h2, NEW s2,
         NEW v \in Fds, NEW undo \in SUBSET (Fds \cup Lists),
         k \subseteq k2, f \in Tidy => w \subseteq w2,
         h \subseteq h2, s \subseteq s2, f = "none" => h2 = {},
         MayFail(p, k, w, h, s, f, n, v, undo)
  PROVE  Leads(p, Ghost(k, w, h, s, f, n), <<Tries(v, undo)>>, Ghost(k2, w2, h2, s2, f, n))
<1> DEFINE c == Tries(v, undo)
<1>1. c \in Calls /\ c.does = "try" /\ c.into = v /\ c.undo = undo
  BY DEF Calls, Kinds, Call, Tries
<1> HIDE DEF c
<1>2. Step(p, Ghost(k, w, h, s, f, n), c, Ghost(k2, w2, h2, s2, f, n))
  BY <1>1, GhostParts, FdNames DEF Step, Keeps, Moves
<1> QED BY <1>1, <1>2, LeadsOne DEF c

\* It changes nothing when it does not.
LEMMA TryStays ==
  ASSUME NEW p, p.of = "kept", NEW k, NEW w, NEW h, NEW s, NEW f, NEW n,
         NEW v \in Fds, NEW undo, undo \subseteq Fds \cup Lists, f # "none",
         MayFail(p, k, w, h, s, f, n, v, undo)
  PROVE  Leads(p, Ghost(k, w, h, s, f, n), <<Tries(v, undo)>>, Ghost(k, w, h, s, f, n))
BY TryKeeps

\* A call that fails.
LEMMA NeverKeeps ==
  ASSUME NEW p, p.of = "kept", NEW k, NEW w, NEW h, NEW s, NEW f, NEW n, NEW k2, NEW w2, NEW h2, NEW s2,
         NEW v \in Fds, NEW undo \in SUBSET (Fds \cup Lists),
         k \subseteq k2, f \in Tidy => w \subseteq w2,
         h \subseteq h2, s \subseteq s2, f = "none" => h2 = {},
         MayFail(p, k, w, h, s, f, n, v, undo)
  PROVE  Leads(p, Ghost(k, w, h, s, f, n), <<Unsupported(v, undo)>>, Ghost(k2, w2, h2, s2, f, n))
<1> DEFINE c == Unsupported(v, undo)
<1>1. c \in Calls /\ c.does = "never" /\ c.into = v /\ c.undo = undo
  BY DEF Calls, Kinds, Call, Unsupported
<1> HIDE DEF c
<1>2. Step(p, Ghost(k, w, h, s, f, n), c, Ghost(k2, w2, h2, s2, f, n))
  BY <1>1, GhostParts, FdNames DEF Step, Keeps, Moves
<1> QED BY <1>1, <1>2, LeadsOne DEF c

\* A descriptor is closed.
LEMMA DropKeeps ==
  ASSUME NEW p, p.of = "kept", NEW k, NEW w, NEW h, NEW s, NEW f, NEW n, NEW k2, NEW w2, NEW h2, NEW s2,
         NEW v \in Fds,
         k \ {v} \subseteq k2, f \in Tidy => w \ {v} \subseteq w2,
         h \subseteq h2, s \subseteq s2, v \notin s, f = "none" => h2 = {}
  PROVE  Leads(p, Ghost(k, w, h, s, f, n), <<Drops(v)>>, Ghost(k2, w2, h2, s2, f, n))
<1> DEFINE c == Drops(v)
<1>1. c \in Calls /\ c.does = "drop" /\ c.what = v
  BY FdNames DEF Calls, Kinds, Call, Drops
<1> HIDE DEF c
<1>2. Step(p, Ghost(k, w, h, s, f, n), c, Ghost(k2, w2, h2, s2, f, n))
  BY <1>1, GhostParts, FdNames DEF Step, Keeps, Moves
<1> QED BY <1>1, <1>2, LeadsOne DEF c

\* A list is freed.
LEMMA FreeKeeps ==
  ASSUME NEW p, p.of = "kept", NEW k, NEW w, NEW h, NEW s, NEW f, NEW n, NEW k2, NEW w2, NEW h2, NEW s2,
         NEW l \in Lists,
         k \subseteq k2, f \in Tidy => w \subseteq w2,
         h \ {l} \subseteq h2, s \cup {l} \subseteq s2, l \notin s, f = "none" => h2 = {}
  PROVE  Leads(p, Ghost(k, w, h, s, f, n), <<Drops(l)>>, Ghost(k2, w2, h2, s2, f, n))
<1> DEFINE c == Drops(l)
<1>1. c \in Calls /\ c.does = "drop" /\ c.what = l
  BY FdNames DEF Calls, Kinds, Call, Drops
<1> HIDE DEF c
<1>2. Step(p, Ghost(k, w, h, s, f, n), c, Ghost(k2, w2, h2, s2, f, n))
  BY <1>1, GhostParts, FdNames DEF Step, Keeps, Moves
<1> QED BY <1>1, <1>2, LeadsOne DEF c

\* A descriptor is closed, and its variable cleared.
LEMMA ClearKeeps ==
  ASSUME NEW p, p.of = "kept", NEW k, NEW w, NEW h, NEW s, NEW f, NEW n, NEW k2, NEW w2, NEW h2, NEW s2,
         NEW v \in Fds,
         k \ {v} \subseteq k2, f \in Tidy => w \ {v} \subseteq w2,
         h \subseteq h2, s \subseteq s2, v \notin s, f = "none" => h2 = {}
  PROVE  Leads(p, Ghost(k, w, h, s, f, n), <<Clears(v)>>, Ghost(k2, w2, h2, s2, f, n))
<1> DEFINE c == Clears(v)
<1>1. c \in Calls /\ c.does = "clear" /\ c.what = v /\ c.into = v
  BY DEF Calls, Kinds, Call, Clears
<1> HIDE DEF c
<1>2. Step(p, Ghost(k, w, h, s, f, n), c, Ghost(k2, w2, h2, s2, f, n))
  BY <1>1, GhostParts, FdNames DEF Step, Keeps, Moves
<1> QED BY <1>1, <1>2, LeadsOne DEF c

\* A variable is copied; which of the two is told of the descriptor is free.
LEMMA CopyKeeps ==
  ASSUME NEW p, p.of = "kept", NEW k, NEW w, NEW h, NEW s, NEW f, NEW n, NEW k2, NEW w2, NEW h2, NEW s2,
         NEW v \in Fds, NEW from \in Fds,
         v \notin k, k \subseteq k2 \/ (k \ {from}) \cup {v} \subseteq k2, f \in Tidy => v \notin w /\ w \subseteq w2,
         h \subseteq h2, s \subseteq s2, f = "none" => h2 = {}
  PROVE  Leads(p, Ghost(k, w, h, s, f, n), <<Copies(v, from)>>, Ghost(k2, w2, h2, s2, f, n))
<1> DEFINE c == Copies(v, from)
<1>1. c \in Calls /\ c.does = "copy" /\ c.what = from /\ c.into = v
  BY DEF Calls, Kinds, Call, Copies
<1> HIDE DEF c
<1>2. Step(p, Ghost(k, w, h, s, f, n), c, Ghost(k2, w2, h2, s2, f, n))
  BY <1>1, GhostParts, FdNames DEF Step, Keeps, Moves
<1> QED BY <1>1, <1>2, LeadsOne DEF c

\* A variable is cleared.
LEMMA ForgetKeeps ==
  ASSUME NEW p, p.of = "kept", NEW k, NEW w, NEW h, NEW s, NEW f, NEW n, NEW k2, NEW w2, NEW h2, NEW s2,
         NEW v \in Fds,
         v \notin k, k \subseteq k2, f \in Tidy => v \notin w /\ w \subseteq w2,
         h \subseteq h2, s \subseteq s2, f = "none" => h2 = {}
  PROVE  Leads(p, Ghost(k, w, h, s, f, n), <<Forgets(v)>>, Ghost(k2, w2, h2, s2, f, n))
<1> DEFINE c == Forgets(v)
<1>1. c \in Calls /\ c.does = "forget" /\ c.into = v
  BY DEF Calls, Kinds, Call, Forgets
<1> HIDE DEF c
<1>2. Step(p, Ghost(k, w, h, s, f, n), c, Ghost(k2, w2, h2, s2, f, n))
  BY <1>1, GhostParts, FdNames DEF Step, Keeps, Moves
<1> QED BY <1>1, <1>2, LeadsOne DEF c

\* The stream that was made is counted.
LEMMA AddKeeps ==
  ASSUME NEW p, p.of = "kept", NEW k, NEW w, NEW h, NEW s, NEW f, NEW n, NEW k2, NEW w2, NEW h2, NEW s2,
         n \in Nat, n < NumStreams, Socket(n + 1) \notin k, (k \ {S}) \cup {Socket(n + 1)} \subseteq k2, f \notin Tidy,
         h \subseteq h2, s \subseteq s2, f = "none" => h2 = {}
  PROVE  Leads(p, Ghost(k, w, h, s, f, n), <<Does("add")>>, Ghost(k2, w2, h2, s2, f, n + 1))
<1> DEFINE c == Does("add")
<1>1. c \in Calls /\ c.does = "add"
  BY FdNames DEF Calls, Kinds, Call, Does
<1> HIDE DEF c
<1>2. Step(p, Ghost(k, w, h, s, f, n), c, Ghost(k2, w2, h2, s2, f, n + 1))
  BY <1>1, GhostParts, FdNames DEF Step, Keeps, Moves
<1> QED BY <1>1, <1>2, LeadsOne DEF c

\* The streams are gone.
LEMMA ForgetStreamsKeeps ==
  ASSUME NEW p, p.of = "kept", NEW k, NEW w, NEW h, NEW s, NEW f, NEW n, NEW k2, NEW w2, NEW h2, NEW s2,
         k \subseteq k2, f \in Tidy => w \subseteq w2,
         h \subseteq h2, s \subseteq s2, f = "none" => h2 = {}
  PROVE  Leads(p, Ghost(k, w, h, s, f, n), <<Does("no_streams")>>, Ghost(k2, w2, h2, s2, f, 0))
<1> DEFINE c == Does("no_streams")
<1>1. c \in Calls /\ c.does = "no_streams"
  BY FdNames DEF Calls, Kinds, Call, Does
<1> HIDE DEF c
<1>2. Step(p, Ghost(k, w, h, s, f, n), c, Ghost(k2, w2, h2, s2, f, 0))
  BY <1>1, GhostParts, FdNames DEF Step, Keeps, Moves
<1> QED BY <1>1, <1>2, LeadsOne DEF c

\* A refused client, or not.
LEMMA IsClosedKeeps ==
  ASSUME NEW p, p.of = "kept", NEW k, NEW w, NEW h, NEW s, NEW f, NEW n, NEW k2, NEW w2, NEW h2, NEW s2,
         k \subseteq k2, f \in Tidy => w \subseteq w2, EndsWell(p, k \ {S}, h, f, n),
         h \subseteq h2, s \subseteq s2, f = "none" => h2 = {}
  PROVE  Leads(p, Ghost(k, w, h, s, f, n), <<Does("is_closed")>>, Ghost(k2, w2, h2, s2, f, n))
<1> DEFINE c == Does("is_closed")
<1>1. c \in Calls /\ c.does = "is_closed"
  BY FdNames DEF Calls, Kinds, Call, Does
<1> HIDE DEF c
<1>2. Step(p, Ghost(k, w, h, s, f, n), c, Ghost(k2, w2, h2, s2, f, n))
  BY <1>1, GhostParts, FdNames DEF Step, Keeps, Moves, EndsWell
<1> QED BY <1>1, <1>2, LeadsOne DEF c

\* A pipe is made, or not.
LEMMA PipeKeeps ==
  ASSUME NEW p, p.of = "kept", NEW k, NEW w, NEW h, NEW s, NEW f, NEW n, NEW k2, NEW w2, NEW h2, NEW s2,
         Pipe \notin k, k \cup {Pipe} \subseteq k2, f \notin Tidy,
         h \subseteq h2, s \subseteq s2, f = "none" => h2 = {}
  PROVE  Leads(p, Ghost(k, w, h, s, f, n), <<Call("pipe", Pipe, Pipe, {})>>, Ghost(k2, w2, h2, s2, f, n))
<1> DEFINE c == Call("pipe", Pipe, Pipe, {})
<1>1. c \in Calls /\ c.does = "pipe" /\ c.into = Pipe
  BY FdNames DEF Calls, Kinds, Call
<1> HIDE DEF c
<1>2. Step(p, Ghost(k, w, h, s, f, n), c, Ghost(k2, w2, h2, s2, f, n))
  BY <1>1, GhostParts, FdNames DEF Step, Keeps, Moves
<1> QED BY <1>1, <1>2, LeadsOne DEF c

\* A function is entered.
LEMMA EnterKeeps ==
  ASSUME NEW p, p.of = "kept", NEW k, NEW w, NEW h, NEW s, NEW f, NEW n, NEW k2, NEW w2, NEW h2, NEW s2,
         NEW name \in FunctionNames,
         k \subseteq k2, h \subseteq h2, f = "none", name # "none"
  PROVE  Leads(p, Ghost(k, w, h, s, f, n), <<Call("enter", S, <<name, 0>>, {})>>, Ghost(k2, w2, h2, s2, name, n))
<1> DEFINE c == Call("enter", S, <<name, 0>>, {})
<1>1. c \in Calls /\ c.does = "enter" /\ c.what[1] = name
  BY FdNames DEF Calls, Kinds, Call
<1> HIDE DEF c
<1>2. Step(p, Ghost(k, w, h, s, f, n), c, Ghost(k2, w2, h2, s2, name, n))
  BY <1>1, GhostParts, FdNames DEF Step, Keeps, Moves
<1> QED BY <1>1, <1>2, LeadsOne DEF c

\* A function is left.
LEMMA LeaveKeeps ==
  ASSUME NEW p, p.of = "kept", NEW k, NEW w, NEW h, NEW s, NEW f, NEW n, NEW k2, NEW w2, NEW h2, NEW s2,
         k \subseteq k2, h = {}, h2 = {}, f # "none"
  PROVE  Leads(p, Ghost(k, w, h, s, f, n), <<Does("leave")>>, Ghost(k2, w2, h2, s2, "none", n))
<1> DEFINE c == Does("leave")
<1>1. c \in Calls /\ c.does = "leave"
  BY FdNames DEF Calls, Kinds, Call, Does
<1> HIDE DEF c
<1>2. Step(p, Ghost(k, w, h, s, f, n), c, Ghost(k2, w2, h2, s2, "none", n))
  BY <1>1, GhostParts, FdNames DEF Step, Keeps, Moves
<1> QED BY <1>1, <1>2, LeadsOne DEF c

-----------------------------------------------------------------------------
(* What the functions keep.                                                *)

LEMMA OptsAre ==
  ASSUME opts \in Tests
  PROVE  /\ opts.local \in BOOLEAN /\ opts.device \in BOOLEAN /\ opts.cport \in BOOLEAN
         /\ opts.tuned \in BOOLEAN /\ opts.file \in BOOLEAN /\ opts.endsAgain \in BOOLEAN
         /\ opts.role \in Roles /\ opts.protocol \in {"tcp", "udp"}
BY TestsAssumption

LEMMA CreateSocketKeeps ==
  ASSUME opts \in Tests, NEW p, p.of = "kept", NEW k, NEW w, NEW f, NEW n, NEW v \in Fds,
         v \notin k, v \notin w, f # "none", MayFail(p, k, w, {}, {}, f, n, v, {})
  PROVE  Leads(p, Ghost(k, w, {}, {}, f, n), CreateSocket(v),
                  Ghost(k \cup {v}, w \cup {v}, {Res}, IF opts.local THEN {LocalRes} ELSE {}, f, n))
<1> DEFINE l == IF opts.local THEN {LocalRes} ELSE {}
           g0 == Ghost(k, w, {}, {}, f, n)
           g1 == Ghost(k, w, l, {}, f, n)
           g2 == Ghost(k, w, l \cup {Res}, {}, f, n)
           g3 == Ghost(k \cup {v}, w \cup {v}, l \cup {Res}, {}, f, n)
           g4 == Ghost(k \cup {v}, w \cup {v}, {Res}, l, f, n)
<1>1. Leads(p, g0, If(opts.local, Resolves(LocalRes, v, {})), g1)
  <2>1. opts.local => Leads(p, g0, <<Resolves(LocalRes, v, {})>>, g1)
    BY ListKeeps, FdNames
  <2> QED BY <2>1, LeadsIf, OptsAre
<1>2. Leads(p, g1, <<Resolves(Res, v, {LocalRes})>>, g2)
  <2>1. MayFail(p, k, w, l, {}, f, n, v, {LocalRes}) BY FailsMore
  <2> QED BY <2>1, ListKeeps, FdNames
<1>3. Leads(p, g2, <<Opens(v, {LocalRes, Res})>>, g3)
  <2>1. MayFail(p, k, w, l \cup {Res}, {}, f, n, v, {LocalRes, Res}) BY FailsMore
  <2> QED BY <2>1, OpenKeeps, FdNames
<1>4. MayFail(p, k \cup {v}, w \cup {v}, l \cup {Res}, {}, f, n, v, {v, LocalRes, Res})
  BY FailsMore
<1>5. Leads(p, g3, If(opts.device, Unsupported(v, {v, LocalRes, Res})), g3)
  <2>1. Leads(p, g3, <<Unsupported(v, {v, LocalRes, Res})>>, g3) BY <1>4, NeverKeeps, FdNames
  <2> QED BY <2>1, LeadsIf, OptsAre
<1>6. Leads(p, g3, If(opts.local, Tries(v, {v, LocalRes, Res})), g3)
  <2>1. Leads(p, g3, <<Tries(v, {v, LocalRes, Res})>>, g3) BY <1>4, TryKeeps, FdNames
  <2> QED BY <2>1, LeadsIf, OptsAre
<1>7. Leads(p, g3, If(opts.local, Drops(LocalRes)), g4)
  <2>1. opts.local => Leads(p, g3, <<Drops(LocalRes)>>, g4) BY FreeKeeps, FdNames
  <2>2. ~opts.local => l = {} /\ l \cup {Res} = {Res} OBVIOUS
  <2> HIDE DEF l
  <2>3. ~opts.local => g3 = g4 BY <2>2
  <2> QED BY <2>1, <2>3, LeadsIf, OptsAre
<1>8. Leads(p, g4, If(opts.cport /\ ~opts.local, Tries(v, {v, Res})), g4)
  <2>1. ~opts.local => Leads(p, g4, <<Tries(v, {v, Res})>>, g4)
    <3>1. ~opts.local => MayFail(p, k \cup {v}, w \cup {v}, {Res}, l, f, n, v, {v, Res}) BY FailsMore
    <3> QED BY <3>1, TryKeeps, FdNames
  <2> QED BY <2>1, LeadsIf, OptsAre
<1> HIDE DEF g0, g1, g2, g3, g4
<1>9. Leads(p, g0, CreateSocket(v), g4)
  <2>1. Leads(p, g1, <<Resolves(Res, v, {LocalRes}), Opens(v, {LocalRes, Res})>>, g3)
    BY <1>2, <1>3, LeadsTwo
  <2> QED BY <1>1, <2>1, <1>5, <1>6, <1>7, <1>8, LeadsOn DEF CreateSocket
<1> QED BY <1>9 DEF g0, g4

\* The resolver's lists are freed, and one descriptor is left.
LEMMA NetdialKeeps ==
  ASSUME opts \in Tests, NEW p, p.of = "kept", NEW k, NEW w, NEW f, NEW n, NEW v \in Fds,
         v \notin k, v \notin w, f # "none", MayFail(p, k, w, {}, {}, f, n, v, {})
  PROVE  Leads(p, Ghost(k, w, {}, {}, f, n), Netdial(v), Ghost(k \cup {v}, w \cup {v}, {}, Lists, f, n))
<1> DEFINE l == IF opts.local THEN {LocalRes} ELSE {}
           g0 == Ghost(k, w, {}, {}, f, n)
           g1 == Ghost(k \cup {v}, w \cup {v}, {Res}, l, f, n)
           g2 == Ghost(k \cup {v}, w \cup {v}, {}, Lists, f, n)
<1>1. Leads(p, g0, CreateSocket(v), g1) BY CreateSocketKeeps
<1>2. Leads(p, g1, <<Tries(v, {v, Res})>>, g1)
  <2>1. MayFail(p, k \cup {v}, w \cup {v}, {Res}, l, f, n, v, {v, Res}) BY FailsMore, FdNames
  <2> QED BY <2>1, TryKeeps, FdNames
<1>3. Leads(p, g1, <<Drops(Res)>>, g2) BY FreeKeeps, FdNames
<1> HIDE DEF g0, g1, g2
<1>4. Leads(p, g1, <<Tries(v, {v, Res}), Drops(Res)>>, g2) BY <1>2, <1>3, LeadsTwo
<1>5. Leads(p, g0, Netdial(v), g2) BY <1>1, <1>4, LeadsOn DEF Netdial
<1> QED BY <1>5 DEF g0, g2

LEMMA NetannounceKeeps ==
  ASSUME opts \in Tests, NEW p, p.of = "kept", NEW k, NEW w, NEW f, NEW n, NEW v \in Fds, NEW stream \in BOOLEAN,
         v \notin k, v \notin w, f # "none", MayFail(p, k, w, {}, {}, f, n, v, {})
  PROVE  Leads(p, Ghost(k, w, {}, {}, f, n), Netannounce(v, stream),
                  Ghost(k \cup {v}, w \cup {v}, {}, Lists, f, n))
<1> DEFINE g0 == Ghost(k, w, {}, {}, f, n)
           g1 == Ghost(k, w, {Res}, {}, f, n)
           g2 == Ghost(k \cup {v}, w \cup {v}, {Res}, {}, f, n)
           g3 == Ghost(k \cup {v}, w \cup {v}, {}, Lists, f, n)
<1>1. Leads(p, g0, <<Resolves(Res, v, {})>>, g1) BY ListKeeps, FdNames
<1>2. Leads(p, g1, <<Opens(v, {Res})>>, g2)
  <2>1. MayFail(p, k, w, {Res}, {}, f, n, v, {Res}) BY FailsMore
  <2> QED BY <2>1, OpenKeeps, FdNames
<1>3. MayFail(p, k \cup {v}, w \cup {v}, {Res}, {}, f, n, v, {v, Res}) BY FailsMore
<1>4. Leads(p, g2, If(opts.device, Unsupported(v, {v, Res})), g2)
  <2>1. Leads(p, g2, <<Unsupported(v, {v, Res})>>, g2) BY <1>3, NeverKeeps, FdNames
  <2> QED BY <2>1, LeadsIf, OptsAre
<1>5. Leads(p, g2, <<Tries(v, {v, Res})>>, g2) BY <1>3, TryKeeps, FdNames
<1>6. Leads(p, g2, <<Drops(Res)>>, g3) BY FreeKeeps, FdNames
<1>7. Leads(p, g3, If(stream, Tries(v, {v})), g3)
  <2>1. MayFail(p, k \cup {v}, w \cup {v}, {}, Lists, f, n, v, {v}) BY FailsMore, FdNames
  <2>2. Leads(p, g3, <<Tries(v, {v})>>, g3) BY <2>1, TryKeeps, FdNames
  <2> QED BY <2>2, LeadsIf
<1> HIDE DEF g0, g1, g2, g3
<1>8. Leads(p, g0, Netannounce(v, stream), g3)
  <2>1. Leads(p, g0, <<Resolves(Res, v, {}), Opens(v, {Res})>>, g2) BY <1>1, <1>2, LeadsTwo
  <2>2. Leads(p, g2, <<Tries(v, {v, Res}), Drops(Res)>>, g3) BY <1>5, <1>6, LeadsTwo
  <2> QED BY <2>1, <2>2, <1>4, <1>7, LeadsOn DEF Netannounce
<1> QED BY <1>8 DEF g0, g3

\* A function that is called and comes back.
LEMMA FunctionKeeps ==
  ASSUME NEW p, p.of = "kept", NEW k, NEW w, NEW s, NEW n, NEW name \in FunctionNames, NEW calls,
         NEW k2, NEW w2, NEW s2, NEW n2,
         Leads(p, Ghost(k, {}, {}, {}, name, n), calls, Ghost(k2, w2, {}, s2, name, n2))
  PROVE  Leads(p, Ghost(k, w, {}, s, "none", n), Function(name, calls), Ghost(k2, {}, {}, {}, "none", n2))
<1>1. name # "none" BY DEF FunctionNames
<1> DEFINE g0 == Ghost(k, w, {}, s, "none", n)
           g1 == Ghost(k, {}, {}, {}, name, n)
           g2 == Ghost(k2, w2, {}, s2, name, n2)
           g3 == Ghost(k2, {}, {}, {}, "none", n2)
<1>2. Leads(p, g0, <<Call("enter", S, <<name, 0>>, {})>>, g1) BY <1>1, EnterKeeps
<1>3. Leads(p, g2, <<Does("leave")>>, g3) BY <1>1, LeaveKeeps
<1>4. Leads(p, g1, calls, g2) OBVIOUS
<1> HIDE DEF g0, g1, g2, g3
<1>5. Leads(p, g0, Function(name, calls), g3) BY <1>2, <1>3, <1>4, LeadsOn DEF Function
<1> QED BY <1>5 DEF g0, g3

\* Whoever fails loses no more than may be lost.
LEMMA FailsIn ==
  ASSUME NEW p, NEW k, NEW w, NEW h, NEW s, NEW f, NEW n, NEW into, NEW undo, NEW lost,
         Failing(p.at), f = "client_end" => p.at \in {"display", "end", "again"},
         h \subseteq undo, undo \cap s = {}, f \in Tidy => w \subseteq undo,
         k \ undo \subseteq (Post(p.opts, FailedAt(p.at), n) \ {into}) \cup lost,
         MayLose(f, p.at, lost)
  PROVE  MayFail(p, k, w, h, s, f, n, into, undo)
<1> DEFINE b == k \ (undo \cup (Post(p.opts, FailedAt(p.at), n) \ {into}))
<1>1. b \subseteq lost OBVIOUS
<1> HIDE DEF b
<1>2. MayLose(f, p.at, b) BY <1>1 DEF MayLose
<1> QED BY <1>2 DEF MayFail, b

LEMMA PostIs ==
  /\ \A o, a, n : S \notin Post(o, a, n)
  /\ \A o, a : \A n \in Nat : Socket(n + 1) \notin Post(o, a, n) /\ Buffer(n + 1) \notin Post(o, a, n)
                              /\ File(n + 1) \notin Post(o, a, n)
<1>1. \A o, a, n : \A v \in Post(o, a, n) :
        v \in {Ctrl, Listener, Pipe, Prot} \/ (v[2] \in 1..n /\ v[1] \in {"socket", "buffer_fd", "diskfile_fd"})
  BY DEF Post, Str, Files, OfStreams
<1>2. \A k : {Socket(k), Buffer(k), File(k)} \cap {Ctrl, Listener, Pipe, Prot} = {} BY Names
<1>3. S \notin {Ctrl, Listener, Pipe, Prot} BY Names
<1>4. ASSUME NEW o, NEW a, NEW n \in Nat, NEW v \in Post(o, a, n), v \in {Socket(n + 1), Buffer(n + 1), File(n + 1)}
      PROVE FALSE
  <2>1. v[2] = n + 1 BY <1>4, Names
  <2>2. v[2] \in 1..n BY <1>1, <1>2, <1>4
  <2> QED BY <2>1, <2>2
<1>5. \A o, a, n : S \notin Post(o, a, n) BY <1>1, <1>3, Names
<1> QED BY <1>4, <1>5

LEMMA TcpConnectKeeps ==
  ASSUME opts \in Tests, NEW p, p.of = "kept", p.opts = opts, p.at = "streams", NEW n,
         NEW k, k \subseteq Post(opts, "failed", n)
  PROVE  Leads(p, Ghost(k, {}, {}, {}, "tcp_connect", n), TcpConnect,
                  Ghost(k \cup {S}, {S}, {}, Lists, "tcp_connect", n))
<1> DEFINE f == "tcp_connect"
           l == IF opts.local THEN {LocalRes} ELSE {}
           g0 == Ghost(k, {}, {}, {}, f, n)
           g1 == Ghost(k \cup {S}, {} \cup {S}, {Res}, l, f, n)
           g2 == Ghost(k \cup {S}, {} \cup {S}, {}, Lists, f, n)
           g3 == Ghost(k \cup {S}, {S}, {}, Lists, f, n)
<1>1. S \notin k /\ S \in Fds /\ f # "none" BY PostIs, FdNames
<1>2. MayFail(p, k, {}, {}, {}, f, n, S, {})
  <2>1. FailedAt(p.at) = "failed" /\ MayLose(f, p.at, {}) /\ Failing(p.at) BY DEF FailedAt, MayLose, Failing
  <2> QED BY <2>1, <1>1, FailsIn
<1>3. Leads(p, g0, CreateSocket(S), g1) BY <1>1, <1>2, CreateSocketKeeps
<1>4. Leads(p, g1, <<Tries(S, {S, Res})>>, g1)
  <2>1. MayFail(p, k \cup {S}, {} \cup {S}, {Res}, l, f, n, S, {S, Res}) BY <1>2, FailsMore, FdNames
  <2> QED BY <2>1, TryKeeps, FdNames
<1>5. Leads(p, g1, <<Drops(Res)>>, g2) BY FreeKeeps, FdNames
<1>6. Leads(p, g2, <<Tries(S, {S})>>, g3)
  <2>1. MayFail(p, k \cup {S}, {} \cup {S}, {}, Lists, f, n, S, {S}) BY <1>2, FailsMore, FdNames
  <2> QED BY <2>1, TryKeeps, FdNames
<1> HIDE DEF g0, g1, g2, g3
<1>7. Leads(p, g1, <<Tries(S, {S, Res}), Drops(Res), Tries(S, {S})>>, g3)
  BY <1>4, <1>5, <1>6, LeadsTwo, LeadsThree
<1>8. Leads(p, g0, TcpConnect, g3) BY <1>3, <1>7, LeadsOn DEF TcpConnect
<1> QED BY <1>8 DEF g0, g3, f

\* A function that leaves its socket open when a later call fails.
LEMMA MayLoseS ==
  ASSUME NEW p, p.opts = opts, p.at = "streams", NEW n, NEW k, k \subseteq Post(opts, "failed", n) \cup {S},
         NEW w, NEW s, NEW f \in {"udp_connect", "udp_accept", "sockopts"}
  PROVE  MayFail(p, k, w, {}, s, f, n, S, {})
<1>1. /\ FailedAt(p.at) = "failed" /\ MayLose(f, p.at, {S}) /\ f \notin Tidy /\ f # "client_end"
      /\ Failing(p.at)
  BY FdNames DEF FailedAt, MayLose, Tidy, Failing
<1>2. k \ {} \subseteq (Post(p.opts, FailedAt(p.at), n) \ {S}) \cup {S} BY <1>1
<1> QED BY <1>1, <1>2, FailsIn

LEMMA UdpConnectKeeps ==
  ASSUME opts \in Tests, NEW p, p.of = "kept", p.opts = opts, p.at = "streams", NEW n,
         NEW k, k \subseteq Post(opts, "failed", n)
  PROVE  Leads(p, Ghost(k, {}, {}, {}, "udp_connect", n), UdpConnect,
                  Ghost(k \cup {S}, {S}, {}, Lists, "udp_connect", n))
<1> DEFINE f == "udp_connect"
           g0 == Ghost(k, {}, {}, {}, f, n)
           g1 == Ghost(k \cup {S}, {} \cup {S}, {}, Lists, f, n)
           g2 == Ghost(k \cup {S}, {S}, {}, Lists, f, n)
<1>1. S \notin k /\ S \in Fds /\ f # "none" BY PostIs, FdNames
<1>2. MayFail(p, k, {}, {}, {}, f, n, S, {}) BY MayLoseS
<1>3. Leads(p, g0, Netdial(S), g1) BY <1>1, <1>2, NetdialKeeps
<1>4. Leads(p, g1, <<Tries(S, {})>>, g1) /\ Leads(p, g1, <<Tries(S, {})>>, g2)
  <2>1. MayFail(p, k \cup {S}, {} \cup {S}, {}, Lists, f, n, S, {}) BY MayLoseS
  <2> QED BY <2>1, TryKeeps, FdNames
<1> HIDE DEF g0, g1, g2
<1>5. Leads(p, g0, UdpConnect, g2) BY <1>3, <1>4, LeadsOn DEF UdpConnect, BufferCheck
<1> QED BY <1>5 DEF g0, g2, f

LEMMA NewStreamKeeps ==
  ASSUME opts \in Tests, NEW p, p.of = "kept", p.opts = opts, p.at = "streams", NEW n \in Nat, n < NumStreams,
         NEW k, k \subseteq Post(opts, "streams", n) \cup {S}
  PROVE  Leads(p, Ghost(k, {}, {}, {}, "new_stream", n), NewStream(n + 1),
                  Ghost(Post(opts, "streams", n + 1), {}, {}, Lists, "new_stream", n + 1))
<1> DEFINE f == "new_stream"
           b == Buffer(n + 1)
           d == File(n + 1)
           kb == k \cup {b}
           kd == IF opts.file THEN kb \cup {d} ELSE kb
           g0 == Ghost(k, {}, {}, {}, f, n)
           g1 == Ghost(kb, {}, {}, {}, f, n)
           g2 == Ghost(kd, {}, {}, {}, f, n)
           g3 == Ghost(Post(opts, "streams", n + 1), {}, {}, Lists, f, n + 1)
<1>1. /\ {b, d, Socket(n + 1), S} \subseteq Fds /\ b # d /\ d # S /\ b # S
      /\ {b, d, Socket(n + 1)} \cap k = {} /\ f \notin Tidy /\ f # "client_end" /\ f # "none"
      /\ Socket(n + 1) \notin {b, d, S}
  <2>1. n + 1 \in 1..NumStreams BY BoundsAssumption
  <2> QED BY <2>1, PostIs, FdNames, Names DEF Tidy
<1>2. Post(opts, "streams", n) = Post(opts, "failed", n) BY DEF Post
<1>3. /\ FailedAt(p.at) = "failed" /\ Failing(p.at)
      /\ MayLose(f, p.at, {S, S}) /\ MayLose(f, p.at, {S, b}) /\ MayLose(f, p.at, {S, d})
  BY <1>1 DEF FailedAt, MayLose, Failing
<1>4. {b, d} \cap Post(opts, "failed", n) = {} /\ Post(opts, "failed", n) \ {S} = Post(opts, "failed", n)
  BY PostIs
<1> HIDE DEF b, d, f
<1>5. Leads(p, g0, <<Opens(b, {})>>, g1)
  <2>1. MayFail(p, k, {}, {}, {}, f, n, b, {})
    <3>1. k \ {} \subseteq (Post(p.opts, FailedAt(p.at), n) \ {b}) \cup {S, S} BY <1>2, <1>3, <1>4
    <3> QED BY <3>1, <1>1, <1>3, FailsIn
  <2> QED BY <2>1, <1>1, OpenKeeps
<1>6. Leads(p, g1, <<Tries(b, {})>>, g1)
  <2>1. MayFail(p, kb, {}, {}, {}, f, n, b, {})
    <3>1. kb \ {} \subseteq (Post(p.opts, FailedAt(p.at), n) \ {b}) \cup {S, b} BY <1>2, <1>3, <1>4
    <3> QED BY <3>1, <1>1, <1>3, FailsIn
  <2> QED BY <2>1, <1>1, TryKeeps
<1>7. Leads(p, g1, If(opts.file, Opens(d, {})), g2)
  <2>1. MayFail(p, kb, {}, {}, {}, f, n, d, {})
    <3>1. kb \ {} \subseteq (Post(p.opts, FailedAt(p.at), n) \ {d}) \cup {S, b} BY <1>2, <1>3, <1>4
    <3> QED BY <3>1, <1>1, <1>3, FailsIn
  <2>2. opts.file => Leads(p, g1, <<Opens(d, {})>>, g2) BY <2>1, <1>1, OpenKeeps
  <2> QED BY <2>2, LeadsIf, OptsAre
<1>8. Leads(p, g2, <<Tries(b, {b})>>, g2)
  <2>1. MayFail(p, kd, {}, {}, {}, f, n, b, {b})
    <3>1. kd \ {b} \subseteq (Post(p.opts, FailedAt(p.at), n) \ {b}) \cup {S, d} BY <1>2, <1>3, <1>4
    <3> QED BY <3>1, <1>1, <1>3, FailsIn
  <2> QED BY <2>1, <1>1, TryKeeps
<1>9. Leads(p, g2, <<Does("add")>>, g3)
  <2>1. Post(opts, "streams", n) \cup {Socket(n + 1), b, d} \subseteq Post(opts, "streams", n + 1)
    <3>1. Str(n) \cup {Socket(n + 1), b, d} \subseteq Str(n + 1)
      BY <1>1, Names DEF Str, OfStreams, b, d
    <3> QED BY <3>1 DEF Post
  <2>2. (kd \ {S}) \cup {Socket(n + 1)} \subseteq Post(opts, "streams", n + 1) BY <2>1
  <2> QED BY <2>2, <1>1, AddKeeps
<1> HIDE DEF g0, g1, g2, g3
<1>10. Leads(p, g0, <<Opens(b, {}), Tries(b, {})>>, g1) BY <1>5, <1>6, LeadsTwo
<1>11. Leads(p, g2, <<Tries(b, {b}), Does("add")>>, g3) BY <1>8, <1>9, LeadsTwo
<1>12. Leads(p, g0, NewStream(n + 1), g3) BY <1>10, <1>7, <1>11, LeadsOn DEF NewStream, b, d
<1> QED BY <1>12 DEF g0, g3, f

LEMMA TcpAcceptKeeps ==
  ASSUME NEW p, p.of = "kept", p.opts = opts, p.at = "streams", NEW n, NEW refused \in BOOLEAN,
         NEW k, k \subseteq Post(opts, "failed", n)
  PROVE  Leads(p, Ghost(k, {}, {}, {}, "tcp_accept", n), TcpAccept(refused),
                  Ghost(k \cup {S}, {S}, {}, {}, "tcp_accept", n))
<1> DEFINE f == "tcp_accept"
           g0 == Ghost(k, {}, {}, {}, f, n)
           g1 == Ghost(k \cup {S}, {S}, {}, {}, f, n)
<1>1. S \notin k /\ S \in Fds /\ f # "none" BY PostIs, FdNames
<1>2. MayFail(p, k, {}, {}, {}, f, n, S, {})
  <2>1. FailedAt(p.at) = "failed" /\ MayLose(f, p.at, {}) /\ Failing(p.at) BY DEF FailedAt, MayLose, Failing
  <2> QED BY <2>1, <1>1, FailsIn
<1>3. Leads(p, g0, <<Opens(S, {})>>, g1) BY <1>1, <1>2, OpenKeeps
<1>4. Leads(p, g1, <<Tries(S, {S})>>, g1)
  <2>1. MayFail(p, k \cup {S}, {S}, {}, {}, f, n, S, {S}) BY <1>2, FailsMore, FdNames
  <2>2. {S} \subseteq Fds \cup Lists BY <1>1
  <2> HIDE DEF f
  <2> QED BY <2>1, <2>2, <1>1, TryStays
<1>5. Leads(p, g1, If(refused, Drops(S)), g1)
  <2>1. Leads(p, g1, <<Drops(S)>>, g1) BY <1>1, DropKeeps
  <2> QED BY <2>1, LeadsIf
<1> HIDE DEF g0, g1
<1>6. Leads(p, g0, <<Opens(S, {}), Tries(S, {S})>>, g1) BY <1>3, <1>4, LeadsTwo
<1>7. Leads(p, g0, TcpAccept(refused), g1) BY <1>5, <1>6, LeadsOn DEF TcpAccept
<1> QED BY <1>7 DEF g0, g1, f

\* The listener's descriptor is the function's while it is made anew.
LEMMA TcpListenKeeps ==
  ASSUME opts \in Tests, NEW p, p.of = "kept", p.opts = opts, p.at = "accept", NEW n,
         NEW k, k \subseteq Post(opts, "failed", n), Listener \in k
  PROVE  Leads(p, Ghost(k, {}, {}, {}, "tcp_listen", n), TcpListen,
                  Ghost(k, {S}, {}, Lists, "tcp_listen", n))
<1> DEFINE f == "tcp_listen"
           m == k \ {Listener}
           g0 == Ghost(k, {}, {}, {}, f, n)
           g1 == Ghost(m \cup {S}, {}, {}, {}, f, n)
           g2 == Ghost(m, {}, {}, {}, f, n)
           g3 == Ghost(m, {}, {Res}, {}, f, n)
           g4 == Ghost(m \cup {S}, {S}, {Res}, {}, f, n)
           g5 == Ghost(m \cup {S}, {S}, {}, Lists, f, n)
           g6 == Ghost(k, {S}, {}, Lists, f, n)
<1>1. S \notin k /\ S \in Fds /\ Listener \in Fds /\ S # Listener /\ f # "none" /\ S \notin {}
  BY PostIs, FdNames, Names
<1>2. MayFail(p, m, {}, {}, {}, f, n, S, {}) /\ MayFail(p, k, {}, {}, {}, f, n, S, {})
  <2>1. FailedAt(p.at) = "failed" /\ MayLose(f, p.at, {}) /\ Failing(p.at) BY DEF FailedAt, MayLose, Failing
  <2> QED BY <2>1, <1>1, FailsIn
<1>3. Leads(p, g6, <<Tries(S, {S})>>, g6)
  <2>1. MayFail(p, k, {S}, {}, Lists, f, n, S, {S}) BY <1>2, FailsMore, FdNames
  <2> QED BY <2>1, TryKeeps, FdNames
<1>4. CASE ~opts.tuned
  <2>1. Leads(p, g0, <<Copies(S, Listener)>>, g6) BY <1>1, CopyKeeps
  <2> HIDE DEF g0, g6
  <2>2. Leads(p, g6, <<>>, g6) BY LeadsNowhere
  <2>3. Leads(p, g0, TcpListen, g6) BY <2>1, <2>2, <1>3, <1>4, LeadsOn DEF TcpListen
  <2> QED BY <2>3 DEF g0, g6, f
<1>5. CASE opts.tuned
  <2>1. Leads(p, g0, <<Copies(S, Listener)>>, g1) BY <1>1, CopyKeeps
  <2>2. Leads(p, g1, <<Drops(S)>>, g2) BY <1>1, FdNames, DropKeeps
  <2>3. Leads(p, g2, <<Resolves(Res, S, {})>>, g3) BY <1>1, <1>2, ListKeeps, FdNames
  <2>4. Leads(p, g3, <<Opens(S, {Res})>>, g4)
    <3>1. MayFail(p, m, {}, {Res}, {}, f, n, S, {Res}) BY <1>2, FailsMore
    <3>2. m \cup {S} \subseteq m \cup {S} /\ {} \cup {S} \subseteq {S} /\ S \notin m BY <1>1
    <3> QED BY <3>1, <3>2, <1>1, OpenKeeps, FdNames
  <2>5. Leads(p, g4, <<Tries(S, {S, Res})>>, g4)
    <3>1. MayFail(p, m \cup {S}, {S}, {Res}, {}, f, n, S, {S, Res}) BY <1>2, FailsMore
    <3> QED BY <3>1, <1>1, TryKeeps, FdNames
  <2>6. Leads(p, g4, <<Drops(Res)>>, g5) BY <1>1, FreeKeeps, FdNames
  <2>7. Leads(p, g5, <<Tries(S, {S})>>, g5)
    <3>1. MayFail(p, m \cup {S}, {S}, {}, Lists, f, n, S, {S}) BY <1>2, FailsMore, FdNames
    <3>2. {S} \subseteq Fds \cup Lists BY <1>1
    <3> HIDE DEF f, m
    <3> QED BY <3>1, <3>2, <1>1, TryStays
  <2>8. Leads(p, g5, <<Copies(Listener, S)>>, g6)
    <3>1. Listener \notin m \cup {S} /\ ((m \cup {S}) \ {S}) \cup {Listener} \subseteq k BY <1>1
    <3> QED BY <3>1, <1>1, CopyKeeps
  <2> HIDE DEF g0, g1, g2, g3, g4, g5, g6
  <2>9. Leads(p, g1, <<Drops(S), Resolves(Res, S, {}), Opens(S, {Res}), Tries(S, {S, Res})>>, g4)
    <3>1. Leads(p, g1, <<Drops(S), Resolves(Res, S, {})>>, g3) BY <2>2, <2>3, LeadsTwo
    <3>2. Leads(p, g3, <<Opens(S, {Res}), Tries(S, {S, Res})>>, g4) BY <2>4, <2>5, LeadsTwo
    <3> QED BY <3>1, <3>2, LeadsFour
  <2>10. Leads(p, g4, <<Drops(Res), Tries(S, {S}), Copies(Listener, S)>>, g6)
    BY <2>6, <2>7, <2>8, LeadsTwo, LeadsThree
  <2>11. Leads(p, g0, TcpListen, g6) BY <2>1, <2>9, <2>10, <1>3, <1>5, LeadsOn DEF TcpListen
  <2> QED BY <2>11 DEF g0, g6, f
<1> QED BY <1>4, <1>5

\* The descriptor that waited for the stream becomes the stream's, and another waits.
LEMMA UdpAcceptKeeps ==
  ASSUME opts \in Tests, opts.role = "server", opts.protocol = "udp",
         NEW p, p.of = "kept", p.opts = opts, p.at = "streams", NEW n,
         NEW k, k = Post(opts, "failed", n)
  PROVE  Leads(p, Ghost(k, {}, {}, {}, "udp_accept", n), UdpAccept,
                  Ghost(k \cup {S}, {Prot}, {}, Lists, "udp_accept", n))
<1> DEFINE f == "udp_accept"
           m == (k \ {Prot}) \cup {S}
           g0 == Ghost(k, {}, {}, {}, f, n)
           g1 == Ghost(m, {}, {}, {}, f, n)
           g2 == Ghost(m \cup {Prot}, {} \cup {Prot}, {}, Lists, f, n)
           g3 == Ghost(k \cup {S}, {Prot}, {}, Lists, f, n)
<1>1. /\ S \notin k /\ Prot \in k /\ S \in Fds /\ Prot \in Fds /\ Prot # S /\ f # "none" /\ f \notin Tidy
      /\ f # "client_end"
  BY PostIs, FdNames, Names DEF Post, Tidy
<1>2. Leads(p, g0, <<Copies(S, Prot)>>, g1) BY <1>1, CopyKeeps
<1>3. Leads(p, g1, <<Tries(S, {})>>, g1)
  <2>1. MayFail(p, m, {}, {}, {}, f, n, S, {}) BY MayLoseS
  <2> QED BY <2>1, <1>1, TryKeeps
<1>4. Leads(p, g1, Netannounce(Prot, FALSE), g2)
  <2>1. MayFail(p, m, {}, {}, {}, f, n, Prot, {})
    <3>1. FailedAt(p.at) = "failed" /\ MayLose(f, p.at, {S}) /\ Failing(p.at)
      BY <1>1 DEF FailedAt, MayLose, Failing
    <3>2. m \ {} \subseteq (Post(p.opts, FailedAt(p.at), n) \ {Prot}) \cup {S} BY <3>1
    <3> QED BY <3>1, <3>2, <1>1, FailsIn
  <2>2. Prot \notin m /\ Prot \notin {} BY <1>1
  <2> HIDE DEF m
  <2> QED BY <2>1, <2>2, <1>1, NetannounceKeeps
<1>5. Leads(p, g2, <<Tries(S, {})>>, g3)
  <2>1. m \cup {Prot} \subseteq k \cup {S} /\ {} \cup {Prot} \subseteq {Prot} BY <1>1
  <2>2. MayFail(p, m \cup {Prot}, {} \cup {Prot}, {}, Lists, f, n, S, {}) BY <2>1, MayLoseS
  <2> QED BY <2>1, <2>2, <1>1, TryKeeps
<1> HIDE DEF g0, g1, g2, g3
<1>6. Leads(p, g0, <<Copies(S, Prot), Tries(S, {})>>, g1) BY <1>2, <1>3, LeadsTwo
<1>7. Leads(p, g0, UdpAccept, g3) BY <1>3, <1>4, <1>5, <1>6, LeadsOn DEF UdpAccept, BufferCheck
<1> QED BY <1>7 DEF g0, g3, f

-----------------------------------------------------------------------------
(* Loops over the streams, of at most three calls each.                    *)

LEMMA LoopIndex ==
  ASSUME NEW n \in Nat, NEW m \in 1..3, NEW i \in 1..n * m
  PROVE  LET j == ((i - 1) \div m) + 1
             r == ((i - 1) % m) + 1
         IN /\ n * m \in Nat /\ j \in 1..n /\ r \in 1..m
            /\ r < m => i + 1 \in 1..n * m /\ (i \div m) + 1 = j /\ (i % m) + 1 = r + 1
            /\ r = m /\ i < n * m => j + 1 \in 1..n /\ (i \div m) + 1 = j + 1 /\ (i % m) + 1 = 1
            /\ r = m /\ i = n * m => j = n
<1>1. CASE m = 1 BY <1>1
<1>2. CASE m = 2 BY <1>2
<1>3. CASE m = 3 BY <1>3
<1> QED BY <1>1, <1>2, <1>3

\* If each stream's calls lead from what g says to what it says next, the loop leads to the end.
LEMMA LeadsLoop ==
  ASSUME NEW p, NEW n \in Nat, NEW m \in 1..3, NEW g, NEW b,
         \A j \in 1..n : Len(b[j]) = m /\ Leads(p, g[j], b[j], g[j + 1])
  PROVE  Leads(p, g[1], [i \in 1..n * m |-> b[((i - 1) \div m) + 1][((i - 1) % m) + 1]], g[n + 1])
<1> DEFINE Outline(j, h) == /\ h[1] = g[j] /\ h[m + 1] = g[j + 1]
                            /\ \A r \in 1..m : Step(p, h[r], b[j][r], h[r + 1])
           o == [j \in 1..n |-> CHOOSE h : Outline(j, h)]
           J(i) == ((i - 1) \div m) + 1
           R(i) == ((i - 1) % m) + 1
           c == [i \in 1..n * m |-> b[J(i)][R(i)]]
           l == [i \in 1..n * m + 1 |-> IF i <= n * m THEN o[J(i)][R(i)] ELSE g[n + 1]]
<1>1. ASSUME NEW j \in 1..n PROVE Outline(j, o[j])
  <2>1. \E h : Outline(j, h) BY DEF Leads
  <2> QED BY <2>1
<1>2. n * m \in Nat
  <2>1. m \in Nat OBVIOUS
  <2> QED BY <2>1
<1>3. c \in Seq(Calls) /\ Len(c) = n * m
  <2>1. ASSUME NEW i \in 1..n * m PROVE b[J(i)][R(i)] \in Calls
    <3>1. J(i) \in 1..n /\ R(i) \in 1..m BY LoopIndex
    <3> HIDE DEF J, R
    <3>2. b[J(i)] \in Seq(Calls) /\ Len(b[J(i)]) = m BY <3>1 DEF Leads
    <3> QED BY <3>1, <3>2, ElementOfSeq
  <2> HIDE DEF J, R
  <2>2. c \in [1..n * m -> Calls] BY <2>1
  <2> QED BY <2>2, <1>2, IsASeq
<1>4. l[1] = g[1]
  <2>1. CASE n = 0
    <3>1. n * m = 0 BY <2>1
    <3> QED BY <3>1, <2>1
  <2>2. CASE n > 0
    <3>1. 1 \in 1..n * m /\ J(1) = 1 /\ R(1) = 1
      <4>1. CASE m = 1 BY <4>1, <2>2
      <4>2. CASE m = 2 BY <4>2, <2>2
      <4>3. CASE m = 3 BY <4>3, <2>2
      <4> QED BY <4>1, <4>2, <4>3
    <3> HIDE DEF J, R, o
    <3>2. l[1] = o[1][1] BY <3>1, <1>2
    <3> QED BY <3>2, <2>2, <1>1
  <2> HIDE DEF l
  <2> QED BY <2>1, <2>2
<1>5. l[n * m + 1] = g[n + 1]
  <2> HIDE DEF J, R, o
  <2> QED BY <1>2
<1>6. ASSUME NEW i \in 1..n * m PROVE Step(p, l[i], c[i], l[i + 1])
  <2> DEFINE j == J(i)
             r == R(i)
  <2>1. /\ j \in 1..n /\ r \in 1..m
        /\ r < m => i + 1 \in 1..n * m /\ J(i + 1) = j /\ R(i + 1) = r + 1
        /\ r = m /\ i < n * m => j + 1 \in 1..n /\ J(i + 1) = j + 1 /\ R(i + 1) = 1
        /\ r = m /\ i = n * m => j = n
    BY LoopIndex
  <2>2. l[i] = o[j][r] /\ c[i] = b[j][r]
    <3> HIDE DEF J, R, o
    <3> QED BY <1>2
  <2>3. l[i + 1] = o[j][r + 1]
    <3>1. CASE r < m
      <4> HIDE DEF J, R, o
      <4> QED BY <3>1, <2>1, <1>2
    <3>2. CASE r = m /\ i < n * m
      <4> HIDE DEF J, R, o
      <4>1. i + 1 \in 1..n * m + 1 /\ i + 1 <= n * m BY <3>2, <1>2
      <4>2. l[i + 1] = o[J(i + 1)][R(i + 1)] BY <4>1
      <4>3. J(i + 1) = j + 1 /\ R(i + 1) = 1 BY <3>2, <2>1
      <4> QED BY <4>2, <4>3, <3>2, <2>1, <1>1
    <3>3. CASE r = m /\ i = n * m
      <4> HIDE DEF J, R, o
      <4> QED BY <3>3, <2>1, <1>1, <1>5
    <3> HIDE DEF j, r, J, R, o, l
    <3>4. r < m \/ r = m BY <2>1
    <3>5. i < n * m \/ i = n * m BY <1>2
    <3> QED BY <3>1, <3>2, <3>3, <3>4, <3>5
  <2> HIDE DEF j, r, J, R, o, l, c
  <2> QED BY <2>1, <2>2, <2>3, <1>1
<1> HIDE DEF J, R, o, l
<1>7. Leads(p, g[1], c, g[n + 1]) BY <1>2, <1>3, <1>4, <1>5, <1>6 DEF Leads
<1> QED BY <1>7 DEF J, R

LEMMA LeadsEach ==
  ASSUME NEW p, NEW n \in Nat, NEW m \in 1..3, NEW g, NEW b,
         \A j \in 1..n : Len(b[j]) = m /\ Leads(p, g[j], b[j], g[j + 1]),
         NEW each, each = [i \in 1..n * m |-> b[((i - 1) \div m) + 1][((i - 1) % m) + 1]]
  PROVE  Leads(p, g[1], each, g[n + 1])
<1>1. Leads(p, g[1], [i \in 1..n * m |-> b[((i - 1) \div m) + 1][((i - 1) % m) + 1]], g[n + 1])
  BY LeadsLoop
<1> QED BY <1>1

LEMMA EachDropSocket ==
  ASSUME NEW p, NEW n \in Nat, NEW g, \A j \in 1..n : Leads(p, g[j], DropSocket(j), g[j + 1])
  PROVE  Leads(p, g[1], Each(n, DropSocket), g[n + 1])
<1> DEFINE m == Len(DropSocket(1))
           b == [j \in 1..n |-> DropSocket(j)]
           c == [i \in 1..n * m |-> DropSocket(((i - 1) \div m) + 1)[((i - 1) % m) + 1]]
           d == [i \in 1..n * m |-> b[((i - 1) \div m) + 1][((i - 1) % m) + 1]]
<1>1. m \in 1..3 /\ \A j : Len(DropSocket(j)) = m BY DEF DropSocket
<1>2. \A j \in 1..n : b[j] = DropSocket(j) OBVIOUS
<1>3. Each(n, DropSocket) = c BY DEF Each
<1> HIDE DEF b, m
<1>4. ASSUME NEW i \in 1..n * m PROVE b[((i - 1) \div m) + 1] = DropSocket(((i - 1) \div m) + 1)
  BY <1>1, <1>2, LoopIndex
<1>5. c = d BY <1>4
<1> HIDE DEF c
<1>6. Leads(p, g[1], c, g[n + 1]) BY <1>1, <1>2, <1>5, LeadsEach
<1> QED BY <1>3, <1>6

LEMMA EachClearSocket ==
  ASSUME NEW p, NEW n \in Nat, NEW g, \A j \in 1..n : Leads(p, g[j], ClearSocket(j), g[j + 1])
  PROVE  Leads(p, g[1], Each(n, ClearSocket), g[n + 1])
<1> DEFINE m == Len(ClearSocket(1))
           b == [j \in 1..n |-> ClearSocket(j)]
           c == [i \in 1..n * m |-> ClearSocket(((i - 1) \div m) + 1)[((i - 1) % m) + 1]]
           d == [i \in 1..n * m |-> b[((i - 1) \div m) + 1][((i - 1) % m) + 1]]
<1>1. m \in 1..3 /\ \A j : Len(ClearSocket(j)) = m BY DEF ClearSocket
<1>2. \A j \in 1..n : b[j] = ClearSocket(j) OBVIOUS
<1>3. Each(n, ClearSocket) = c BY DEF Each
<1> HIDE DEF b, m
<1>4. ASSUME NEW i \in 1..n * m PROVE b[((i - 1) \div m) + 1] = ClearSocket(((i - 1) \div m) + 1)
  BY <1>1, <1>2, LoopIndex
<1>5. c = d BY <1>4
<1> HIDE DEF c
<1>6. Leads(p, g[1], c, g[n + 1]) BY <1>1, <1>2, <1>5, LeadsEach
<1> QED BY <1>3, <1>6

LEMMA EachFreeStream ==
  ASSUME NEW p, NEW n \in Nat, NEW g, \A j \in 1..n : Leads(p, g[j], FreeStream(j), g[j + 1])
  PROVE  Leads(p, g[1], Each(n, FreeStream), g[n + 1])
<1> DEFINE m == Len(FreeStream(1))
           b == [j \in 1..n |-> FreeStream(j)]
           c == [i \in 1..n * m |-> FreeStream(((i - 1) \div m) + 1)[((i - 1) % m) + 1]]
           d == [i \in 1..n * m |-> b[((i - 1) \div m) + 1][((i - 1) % m) + 1]]
<1>1. m \in 1..3 /\ \A j : Len(FreeStream(j)) = m BY DEF FreeStream
<1>2. \A j \in 1..n : b[j] = FreeStream(j) OBVIOUS
<1>3. Each(n, FreeStream) = c BY DEF Each
<1> HIDE DEF b, m
<1>4. ASSUME NEW i \in 1..n * m PROVE b[((i - 1) \div m) + 1] = FreeStream(((i - 1) \div m) + 1)
  BY <1>1, <1>2, LoopIndex
<1>5. c = d BY <1>4
<1> HIDE DEF c
<1>6. Leads(p, g[1], c, g[n + 1]) BY <1>1, <1>2, <1>5, LeadsEach
<1> QED BY <1>3, <1>6

LEMMA EachClearStream ==
  ASSUME NEW p, NEW n \in Nat, NEW g, \A j \in 1..n : Leads(p, g[j], ClearStream(j), g[j + 1])
  PROVE  Leads(p, g[1], Each(n, ClearStream), g[n + 1])
<1> DEFINE m == Len(ClearStream(1))
           b == [j \in 1..n |-> ClearStream(j)]
           c == [i \in 1..n * m |-> ClearStream(((i - 1) \div m) + 1)[((i - 1) % m) + 1]]
           d == [i \in 1..n * m |-> b[((i - 1) \div m) + 1][((i - 1) % m) + 1]]
<1>1. m \in 1..3 /\ \A j : Len(ClearStream(j)) = m BY DEF ClearStream, FreeStream
<1>2. \A j \in 1..n : b[j] = ClearStream(j) OBVIOUS
<1>3. Each(n, ClearStream) = c BY DEF Each
<1> HIDE DEF b, m
<1>4. ASSUME NEW i \in 1..n * m PROVE b[((i - 1) \div m) + 1] = ClearStream(((i - 1) \div m) + 1)
  BY <1>1, <1>2, LoopIndex
<1>5. c = d BY <1>4
<1> HIDE DEF c
<1>6. Leads(p, g[1], c, g[n + 1]) BY <1>1, <1>2, <1>5, LeadsEach
<1> QED BY <1>3, <1>6

LEMMA StreamFds ==
  ASSUME NEW v \in Fds
  PROVE  /\ v[1] = "socket" => v = Socket(v[2])
         /\ v[1] = "buffer_fd" => v = Buffer(v[2])
         /\ v[1] = "diskfile_fd" => v = File(v[2])
         /\ v[1] \in {"socket", "buffer_fd", "diskfile_fd"} => v[2] \in 1..NumStreams
BY Names DEF Fds

LEMMA NoneOfStreams ==
  ASSUME NEW names
  PROVE  OfStreams(names, 0) = {} /\ OfStreams(names, 1 - 1) = {}
BY DEF OfStreams

\* The streams up to j are those before j, and j.
LEMMA LastOfStreams ==
  ASSUME NEW j \in Nat \ {0}, NEW names, names \subseteq {"socket", "buffer_fd", "diskfile_fd"},
         NEW v \in OfStreams(names, j + 1 - 1)
  PROVE  \/ v \in OfStreams(names, j - 1)
         \/ "socket" \in names /\ v = Socket(j)
         \/ "buffer_fd" \in names /\ v = Buffer(j)
         \/ "diskfile_fd" \in names /\ v = File(j)
<1>1. v \in Fds /\ v[1] \in names /\ (v[2] = j \/ v[2] \in 1..j - 1) BY DEF OfStreams
<1> QED BY <1>1, StreamFds DEF OfStreams

\* Loops over the streams of a test, outside of the functions.
LEMMA DropSocketsKeeps ==
  ASSUME NEW p, p.of = "kept", NEW n \in 0..NumStreams, NEW k
  PROVE  Leads(p, Ghost(k, {}, {}, Lists, "none", n), Each(n, DropSocket),
                  Ghost(k \ OfStreams({"socket"}, n), {}, {}, Lists, "none", n))
<1> DEFINE left(j) == k \ OfStreams({"socket"}, j - 1)
           g == [j \in 1..n + 1 |-> Ghost(left(j), {}, {}, Lists, "none", n)]
<1>1. ASSUME NEW j \in 1..n PROVE Leads(p, g[j], DropSocket(j), g[j + 1])
  <2>1. /\ {Socket(j), Buffer(j), File(j)} \subseteq Fds /\ {Socket(j), Buffer(j), File(j)} \cap Lists = {}
        /\ j \in Nat \ {0}
    BY FdNames, BoundsAssumption
  <2>2. g[j] = Ghost(left(j), {}, {}, Lists, "none", n) /\ g[j + 1] = Ghost(left(j + 1), {}, {}, Lists, "none", n)
    OBVIOUS
  <2>3. "none" \notin Tidy BY DEF Tidy
  <2>4. left(j) \ {Socket(j)} \subseteq left(j + 1) BY <2>1, LastOfStreams
  <2>5. Socket(j) \in Fds /\ Socket(j) \notin Lists BY <2>1
  <2> HIDE DEF g, left
  <2> QED BY <2>2, <2>3, <2>4, <2>5, DropKeeps DEF DropSocket
<1>2. g[1] = Ghost(k, {}, {}, Lists, "none", n)
  <2>1. left(1) = k BY NoneOfStreams
  <2> HIDE DEF left
  <2> QED BY <2>1
<1>3. n \in Nat /\ n + 1 - 1 = n BY BoundsAssumption
<1>4. g[n + 1] = Ghost(k \ OfStreams({"socket"}, n), {}, {}, Lists, "none", n) BY <1>3
<1> HIDE DEF g
<1>5. Leads(p, g[1], Each(n, DropSocket), g[n + 1]) BY <1>1, <1>3, EachDropSocket
<1> QED BY <1>2, <1>4, <1>5

LEMMA ClearSocketsKeeps ==
  ASSUME NEW p, p.of = "kept", NEW n \in 0..NumStreams, NEW k
  PROVE  Leads(p, Ghost(k, {}, {}, Lists, "none", n), Each(n, ClearSocket),
                  Ghost(k \ OfStreams({"socket"}, n), {}, {}, Lists, "none", n))
<1> DEFINE left(j) == k \ OfStreams({"socket"}, j - 1)
           g == [j \in 1..n + 1 |-> Ghost(left(j), {}, {}, Lists, "none", n)]
<1>1. ASSUME NEW j \in 1..n PROVE Leads(p, g[j], ClearSocket(j), g[j + 1])
  <2>1. /\ {Socket(j), Buffer(j), File(j)} \subseteq Fds /\ {Socket(j), Buffer(j), File(j)} \cap Lists = {}
        /\ j \in Nat \ {0}
    BY FdNames, BoundsAssumption
  <2>2. g[j] = Ghost(left(j), {}, {}, Lists, "none", n) /\ g[j + 1] = Ghost(left(j + 1), {}, {}, Lists, "none", n)
    OBVIOUS
  <2>3. "none" \notin Tidy BY DEF Tidy
  <2>4. left(j) \ {Socket(j)} \subseteq left(j + 1) BY <2>1, LastOfStreams
  <2>5. Socket(j) \in Fds /\ Socket(j) \notin Lists BY <2>1
  <2> HIDE DEF g, left
  <2> QED BY <2>2, <2>3, <2>4, <2>5, ClearKeeps DEF ClearSocket
<1>2. g[1] = Ghost(k, {}, {}, Lists, "none", n)
  <2>1. left(1) = k BY NoneOfStreams
  <2> HIDE DEF left
  <2> QED BY <2>1
<1>3. n \in Nat /\ n + 1 - 1 = n BY BoundsAssumption
<1>4. g[n + 1] = Ghost(k \ OfStreams({"socket"}, n), {}, {}, Lists, "none", n) BY <1>3
<1> HIDE DEF g
<1>5. Leads(p, g[1], Each(n, ClearSocket), g[n + 1]) BY <1>1, <1>3, EachClearSocket
<1> QED BY <1>2, <1>4, <1>5

LEMMA FreeStreamsKeeps ==
  ASSUME NEW p, p.of = "kept", NEW n \in 0..NumStreams, NEW k
  PROVE  Leads(p, Ghost(k, {}, {}, Lists, "none", n), Each(n, FreeStream),
                  Ghost(k \ OfStreams({"buffer_fd", "diskfile_fd"}, n), {}, {}, Lists, "none", n))
<1> DEFINE left(j) == k \ OfStreams({"buffer_fd", "diskfile_fd"}, j - 1)
           g == [j \in 1..n + 1 |-> Ghost(left(j), {}, {}, Lists, "none", n)]
<1>1. ASSUME NEW j \in 1..n PROVE Leads(p, g[j], FreeStream(j), g[j + 1])
  <2>1. /\ {Socket(j), Buffer(j), File(j)} \subseteq Fds /\ {Socket(j), Buffer(j), File(j)} \cap Lists = {}
        /\ j \in Nat \ {0}
    BY FdNames, BoundsAssumption
  <2>2. g[j] = Ghost(left(j), {}, {}, Lists, "none", n) /\ g[j + 1] = Ghost(left(j + 1), {}, {}, Lists, "none", n)
    OBVIOUS
  <2>3. "none" \notin Tidy BY DEF Tidy
  <2> DEFINE m == left(j) \ {Buffer(j)}
             h == Ghost(m, {}, {}, Lists, "none", n)
  <2>4. m \ {File(j)} \subseteq left(j + 1) BY <2>1, LastOfStreams
  <2> HIDE DEF g, left
  <2>5. Leads(p, g[j], <<Drops(Buffer(j))>>, h) BY <2>1, <2>2, <2>3, DropKeeps
  <2> HIDE DEF m
  <2>6. Leads(p, h, <<Drops(File(j))>>, g[j + 1]) BY <2>1, <2>2, <2>3, <2>4, DropKeeps
  <2> HIDE DEF h
  <2> QED BY <2>5, <2>6, LeadsTwo DEF FreeStream
<1>2. g[1] = Ghost(k, {}, {}, Lists, "none", n)
  <2>1. left(1) = k BY NoneOfStreams
  <2> HIDE DEF left
  <2> QED BY <2>1
<1>3. n \in Nat /\ n + 1 - 1 = n BY BoundsAssumption
<1>4. g[n + 1] = Ghost(k \ OfStreams({"buffer_fd", "diskfile_fd"}, n), {}, {}, Lists, "none", n) BY <1>3
<1> HIDE DEF g
<1>5. Leads(p, g[1], Each(n, FreeStream), g[n + 1]) BY <1>1, <1>3, EachFreeStream
<1> QED BY <1>2, <1>4, <1>5

LEMMA ClearStreamsKeeps ==
  ASSUME NEW p, p.of = "kept", NEW n \in 0..NumStreams, NEW k
  PROVE  Leads(p, Ghost(k, {}, {}, Lists, "none", n), Each(n, ClearStream),
                  Ghost(k \ OfStreams({"socket", "buffer_fd", "diskfile_fd"}, n), {}, {}, Lists, "none", n))
<1> DEFINE left(j) == k \ OfStreams({"socket", "buffer_fd", "diskfile_fd"}, j - 1)
           g == [j \in 1..n + 1 |-> Ghost(left(j), {}, {}, Lists, "none", n)]
<1>1. ASSUME NEW j \in 1..n PROVE Leads(p, g[j], ClearStream(j), g[j + 1])
  <2>1. /\ {Socket(j), Buffer(j), File(j)} \subseteq Fds /\ {Socket(j), Buffer(j), File(j)} \cap Lists = {}
        /\ j \in Nat \ {0}
    BY FdNames, BoundsAssumption
  <2>2. g[j] = Ghost(left(j), {}, {}, Lists, "none", n) /\ g[j + 1] = Ghost(left(j + 1), {}, {}, Lists, "none", n)
    OBVIOUS
  <2>3. "none" \notin Tidy BY DEF Tidy
  <2> DEFINE a == left(j) \ {Socket(j)}
             b == a \ {Buffer(j)}
             ga == Ghost(a, {}, {}, Lists, "none", n)
             gb == Ghost(b, {}, {}, Lists, "none", n)
  <2>4. b \ {File(j)} \subseteq left(j + 1) BY <2>1, LastOfStreams
  <2> HIDE DEF g, left
  <2>5. Leads(p, g[j], <<Clears(Socket(j))>>, ga) BY <2>1, <2>2, <2>3, ClearKeeps
  <2>6. Leads(p, ga, <<Drops(Buffer(j))>>, gb) BY <2>1, <2>3, DropKeeps
  <2> HIDE DEF a, b
  <2>7. Leads(p, gb, <<Drops(File(j))>>, g[j + 1]) BY <2>1, <2>2, <2>3, <2>4, DropKeeps
  <2> HIDE DEF ga, gb
  <2>8. Leads(p, ga, <<Drops(Buffer(j)), Drops(File(j))>>, g[j + 1]) BY <2>6, <2>7, LeadsTwo
  <2> QED BY <2>5, <2>8, LeadsOn DEF ClearStream, FreeStream
<1>2. g[1] = Ghost(k, {}, {}, Lists, "none", n)
  <2>1. left(1) = k BY NoneOfStreams
  <2> HIDE DEF left
  <2> QED BY <2>1
<1>3. n \in Nat /\ n + 1 - 1 = n BY BoundsAssumption
<1>4. g[n + 1] = Ghost(k \ OfStreams({"socket", "buffer_fd", "diskfile_fd"}, n), {}, {}, Lists, "none", n) BY <1>3
<1> HIDE DEF g
<1>5. Leads(p, g[1], Each(n, ClearStream), g[n + 1]) BY <1>1, <1>3, EachClearStream
<1> QED BY <1>2, <1>4, <1>5

-----------------------------------------------------------------------------
(* What a client and a server do keeps what is said of them afterwards.    *)

Keeping(at_, k, calls) ==
  \E k2, w2, s2, n2 :
    /\ Leads([of |-> "kept", opts |-> opts, at |-> at_], Ghost(k, {}, {}, Lists, "none", streams), calls,
             Ghost(k2, w2, {}, s2, "none", n2))
    /\ k2 \subseteq Post(opts, at_, n2)

\* A call outside of the functions that may fail.
LEMMA TryAloneKeeps ==
  ASSUME NEW p, p.of = "kept", Failing(p.at), NEW n, NEW k, NEW s, k \subseteq Post(p.opts, FailedAt(p.at), n)
  PROVE  Leads(p, Ghost(k, {}, {}, s, "none", n), <<Tries(S, {})>>, Ghost(k, {}, {}, s, "none", n))
<1>1. MayFail(p, k, {}, {}, s, "none", n, S, {})
  <2>1. MayLose("none", p.at, {}) /\ "none" \notin Tidy BY DEF MayLose, Tidy
  <2>2. k \ {} \subseteq (Post(p.opts, FailedAt(p.at), n) \ {S}) \cup {} BY PostIs
  <2> QED BY <2>1, <2>2, FailsIn
<1> QED BY <1>1, TryKeeps, FdNames

LEMMA ConnectKeeps ==
  ASSUME opts \in Tests, opts.role = "client"
  PROVE  Keeping("connect", {}, Connect)
<1> DEFINE p == [of |-> "kept", opts |-> opts, at |-> "connect"]
           g0 == Ghost({}, {}, {}, Lists, "none", streams)
           g1 == Ghost({Ctrl}, {}, {}, {}, "none", streams)
<1>1. p.of = "kept" /\ p.opts = opts /\ p.at = "connect" OBVIOUS
<1>2. /\ FailedAt("connect") = "refused" /\ Failing("connect") /\ MayLose("netdial", "connect", {})
      /\ "netdial" \in FunctionNames /\ {Ctrl} \subseteq Post(opts, "refused", streams)
      /\ {Ctrl} \subseteq Post(opts, "connect", streams)
  BY DEF FailedAt, Failing, MayLose, FunctionNames, Post
<1> HIDE DEF p
<1>3. Leads(p, Ghost({}, {}, {}, {}, "netdial", streams), Netdial(Ctrl),
               Ghost({Ctrl}, {Ctrl}, {}, Lists, "netdial", streams))
  <2>1. MayFail(p, {}, {}, {}, {}, "netdial", streams, Ctrl, {}) BY <1>1, <1>2, FailsIn
  <2>2. Leads(p, Ghost({}, {}, {}, {}, "netdial", streams), Netdial(Ctrl),
                 Ghost({} \cup {Ctrl}, {} \cup {Ctrl}, {}, Lists, "netdial", streams))
    BY <1>1, <2>1, FdNames, NetdialKeeps
  <2>3. {} \cup {Ctrl} = {Ctrl} OBVIOUS
  <2> QED BY <2>2, <2>3
<1>4. Leads(p, g0, Function("netdial", Netdial(Ctrl)), g1) BY <1>1, <1>2, <1>3, FunctionKeeps
<1>5. Leads(p, g1, <<Tries(S, {})>>, g1) BY <1>1, <1>2, TryAloneKeeps
<1> HIDE DEF g0, g1
<1>6. Leads(p, g0, Connect, g1) BY <1>4, <1>5, LeadsOn DEF Connect
<1> QED BY <1>2, <1>6 DEF Keeping, p, g0, g1

LEMMA StreamPosts ==
  ASSUME opts \in Tests, NEW n
  PROVE  /\ Post(opts, "failed", n) = Post(opts, "streams", n)
         /\ opts.role = "client" => Post(opts, "connect", n) = Post(opts, "streams", n)
         /\ opts.role = "server" => Post(opts, "accept", n) = Post(opts, "streams", n)
BY DEF Post

LEMMA ConnectStreamKeeps ==
  ASSUME opts \in Tests, streams \in 0..NumStreams, streams < NumStreams
  PROVE  Keeping("streams", Post(opts, "streams", streams), ConnectStream(streams + 1))
<1> DEFINE p == [of |-> "kept", opts |-> opts, at |-> "streams"]
           q == Post(opts, "streams", streams)
           q2 == Post(opts, "streams", streams + 1)
           g0 == Ghost(q, {}, {}, Lists, "none", streams)
           g1 == Ghost(q \cup {S}, {}, {}, {}, "none", streams)
           g2 == Ghost(q2, {}, {}, {}, "none", streams + 1)
<1>1. p.of = "kept" /\ p.opts = opts /\ p.at = "streams" OBVIOUS
<1>2. {"tcp_connect", "udp_connect", "new_stream"} \subseteq FunctionNames BY DEF FunctionNames
<1>3. q \subseteq Post(opts, "failed", streams) /\ q \cup {S} \subseteq Post(opts, "streams", streams) \cup {S}
  BY StreamPosts
<1>4. streams \in Nat BY BoundsAssumption
<1> HIDE DEF p, q, q2
<1>5. opts.protocol = "tcp" => Leads(p, g0, Function("tcp_connect", TcpConnect), g1)
  <2>1. Leads(p, Ghost(q, {}, {}, {}, "tcp_connect", streams), TcpConnect,
                 Ghost(q \cup {S}, {S}, {}, Lists, "tcp_connect", streams))
    BY <1>1, <1>3, TcpConnectKeeps
  <2> QED BY <2>1, <1>1, <1>2, FunctionKeeps
<1>6. opts.protocol # "tcp" => Leads(p, g0, Function("udp_connect", UdpConnect), g1)
  <2>1. Leads(p, Ghost(q, {}, {}, {}, "udp_connect", streams), UdpConnect,
                 Ghost(q \cup {S}, {S}, {}, Lists, "udp_connect", streams))
    BY <1>1, <1>3, UdpConnectKeeps
  <2> QED BY <2>1, <1>1, <1>2, FunctionKeeps
<1>7. Leads(p, g1, Function("new_stream", NewStream(streams + 1)), g2)
  <2>1. Leads(p, Ghost(q \cup {S}, {}, {}, {}, "new_stream", streams), NewStream(streams + 1),
                 Ghost(q2, {}, {}, Lists, "new_stream", streams + 1))
    BY <1>1, <1>3, <1>4, NewStreamKeeps DEF q2
  <2> QED BY <2>1, <1>1, <1>2, FunctionKeeps
<1> HIDE DEF g0, g1, g2
<1>8. Leads(p, g0, ConnectStream(streams + 1), g2) BY <1>5, <1>6, <1>7, LeadsOn DEF ConnectStream
<1>9. q2 \subseteq Post(opts, "streams", streams + 1) BY DEF q2
<1> QED BY <1>8, <1>9 DEF Keeping, p, q, g0, g2

LEMMA StrIs ==
  ASSUME NEW n
  PROVE  Str(n) \ OfStreams({"socket"}, n) \subseteq Files(n) /\ Files(n) \subseteq Str(n)
         /\ Files(n) \ OfStreams({"buffer_fd", "diskfile_fd"}, n) = {}
         /\ Str(n) \ OfStreams({"socket", "buffer_fd", "diskfile_fd"}, n) = {}
         /\ {Ctrl, Listener, Prot, Pipe, S} \cap Str(n) = {}
BY Names DEF Str, Files, OfStreams

LEMMA ClientEndKeeps ==
  ASSUME opts \in Tests, opts.role = "client", streams \in 0..NumStreams, NEW heard \in BOOLEAN,
         NEW a \in {"display", "end", "again"}, NEW k, k \subseteq {Ctrl} \cup Str(streams),
         a = "again" => Ctrl \notin k
  PROVE  Keeping(a, k, ClientEnd(heard))
<1> DEFINE p == [of |-> "kept", opts |-> opts, at |-> a]
           n == streams
           m == k \ OfStreams({"socket"}, n)
           g0 == Ghost(k, {}, {}, Lists, "none", n)
           g1 == Ghost(m, {}, {}, Lists, "none", n)
           g2 == Ghost(m, {}, {}, {}, "none", n)
           g3 == Ghost(Files(n), {}, {}, Lists, "none", n)
<1>1. p.of = "kept" /\ p.opts = opts /\ p.at = a OBVIOUS
<1>2. /\ FailedAt(a) = "ended" /\ Failing(a) /\ Post(opts, "ended", n) = Files(n) /\ Post(opts, a, n) = Files(n)
      /\ "client_end" \in FunctionNames /\ "client_end" \notin Tidy /\ "none" \notin Tidy
  BY DEF FailedAt, Failing, Post, FunctionNames, Tidy
<1>3. m \subseteq {Ctrl} \cup Files(n) /\ (a = "again" => Ctrl \notin m) BY StrIs
<1> HIDE DEF p, n, m
<1>4. Leads(p, g0, Each(n, DropSocket), g1) BY <1>1, DropSocketsKeeps DEF n, m
<1>5. Leads(p, g1, Function("client_end", <<Tries(S, {})>>), g2)
  <2> DEFINE h == Ghost(m, {}, {}, {}, "client_end", n)
  <2>1. MayFail(p, m, {}, {}, {}, "client_end", n, S, {})
    <3> DEFINE lost == IF a = "again" THEN {} ELSE {Ctrl}
    <3>1. MayLose("client_end", p.at, lost) BY <1>1 DEF MayLose
    <3>2. m \ {} \subseteq (Post(p.opts, FailedAt(p.at), n) \ {S}) \cup lost
      BY <1>1, <1>2, <1>3, StrIs
    <3> HIDE DEF lost
    <3> QED BY <3>1, <3>2, <1>1, <1>2, FailsIn
  <2>2. Leads(p, h, <<Tries(S, {})>>, h) BY <2>1, <1>1, TryKeeps, FdNames
  <2> QED BY <2>2, <1>1, <1>2, FunctionKeeps
<1>6. Leads(p, g1, <<Drops(Ctrl)>>, g3) /\ Leads(p, g2, <<Drops(Ctrl)>>, g3)
  <2>1. m \ {Ctrl} \subseteq Files(n) /\ Ctrl \notin Lists /\ Ctrl \notin {} BY <1>3, FdNames
  <2> QED BY <2>1, <1>1, <1>2, DropKeeps, FdNames
<1> HIDE DEF g0, g1, g2, g3
<1>7. Leads(p, g0, ClientEnd(heard), g3)
  <2>1. CASE heard BY <2>1, <1>4, <1>5, <1>6, LeadsOn DEF ClientEnd, n
  <2>2. CASE ~heard
    <3>1. Leads(p, g1, <<>>, g1) BY LeadsNowhere
    <3> QED BY <2>2, <3>1, <1>4, <1>6, LeadsOn DEF ClientEnd, n
  <2> QED BY <2>1, <2>2
<1> QED BY <1>2, <1>7 DEF Keeping, p, g0, g3, n

LEMMA FreeTestKeeps ==
  ASSUME streams \in 0..NumStreams, NEW k, k \subseteq {Pipe} \cup Files(streams)
  PROVE  Keeping("free", k, FreeTest)
<1> DEFINE p == [of |-> "kept", opts |-> opts, at |-> "free"]
           n == streams
           m == k \ OfStreams({"buffer_fd", "diskfile_fd"}, n)
           g0 == Ghost(k, {}, {}, Lists, "none", n)
           g1 == Ghost(m, {}, {}, Lists, "none", n)
           g2 == Ghost({}, {}, {}, Lists, "none", n)
<1>1. p.of = "kept" /\ p.opts = opts /\ "none" \notin Tidy BY DEF Tidy
<1>2. m \ {Pipe} \subseteq {} /\ Pipe \notin Lists BY StrIs, FdNames
<1> HIDE DEF p, n, m
<1>3. Leads(p, g0, Each(n, FreeStream), g1) BY <1>1, FreeStreamsKeeps DEF n, m
<1>4. Leads(p, g1, <<Clears(Pipe)>>, g2) BY <1>1, <1>2, ClearKeeps, FdNames
<1> HIDE DEF g0, g1, g2
<1>5. Leads(p, g0, FreeTest, g2) BY <1>3, <1>4, LeadsOn DEF FreeTest, n
<1> QED BY <1>5 DEF Keeping, p, g0, g2, n

LEMMA ListenKeeps ==
  ASSUME opts \in Tests, opts.role = "server"
  PROVE  Keeping("listen", {}, Listen)
<1> DEFINE p == [of |-> "kept", opts |-> opts, at |-> "listen"]
           n == streams
           g0 == Ghost({}, {}, {}, Lists, "none", n)
           g1 == Ghost({Listener}, {}, {}, {}, "none", n)
           g2 == Ghost({Listener, Pipe}, {}, {}, {}, "none", n)
<1>1. p.of = "kept" /\ p.opts = opts /\ p.at = "listen" OBVIOUS
<1>2. /\ FailedAt("listen") = "failed" /\ Failing("listen") /\ MayLose("netannounce", "listen", {})
      /\ "netannounce" \in FunctionNames /\ {Listener, Pipe} \subseteq Post(opts, "listen", n)
      /\ "none" \notin Tidy
  BY DEF FailedAt, Failing, MayLose, FunctionNames, Post, Tidy
<1> HIDE DEF p, n
<1>3. Leads(p, Ghost({}, {}, {}, {}, "netannounce", n), Netannounce(Listener, TRUE),
               Ghost({Listener}, {Listener}, {}, Lists, "netannounce", n))
  <2>1. MayFail(p, {}, {}, {}, {}, "netannounce", n, Listener, {}) BY <1>1, <1>2, FailsIn
  <2>2. Leads(p, Ghost({}, {}, {}, {}, "netannounce", n), Netannounce(Listener, TRUE),
                 Ghost({} \cup {Listener}, {} \cup {Listener}, {}, Lists, "netannounce", n))
    BY <1>1, <2>1, FdNames, NetannounceKeeps
  <2>3. {} \cup {Listener} = {Listener} OBVIOUS
  <2> QED BY <2>2, <2>3
<1>4. Leads(p, g0, Function("netannounce", Netannounce(Listener, TRUE)), g1) BY <1>1, <1>2, <1>3, FunctionKeeps
<1>5. Leads(p, g1, <<Call("pipe", Pipe, Pipe, {})>>, g2)
  <2>1. Pipe \notin {Listener} /\ {Listener} \cup {Pipe} \subseteq {Listener, Pipe} BY Names
  <2> QED BY <2>1, <1>1, <1>2, PipeKeeps
<1> HIDE DEF g0, g1, g2
<1>6. Leads(p, g0, Listen, g2) BY <1>4, <1>5, LeadsOn DEF Listen
<1> QED BY <1>2, <1>6 DEF Keeping, p, g0, g2, n

LEMMA AcceptKeeps ==
  ASSUME opts \in Tests, opts.role = "server"
  PROVE  Keeping("accept", {Listener, Pipe}, Accept)
<1> DEFINE p == [of |-> "kept", opts |-> opts, at |-> "accept"]
           n == streams
           udp == opts.protocol = "udp"
           k0 == {Listener, Pipe}
           k1 == {Listener, Pipe, Ctrl}
           k2 == IF udp THEN k1 \cup {S} ELSE k1
           k3 == IF udp THEN k1 \cup {Prot} ELSE k1
           g0 == Ghost(k0, {}, {}, Lists, "none", n)
           g1 == Ghost(k1, {}, {}, Lists, "none", n)
           g2 == Ghost(k2, {}, {}, {}, "none", n)
           g3 == Ghost(k3, {}, {}, {}, "none", n)
<1>1. p.of = "kept" /\ p.opts = opts /\ p.at = "accept" OBVIOUS
<1>2. /\ FailedAt("accept") = "failed" /\ Failing("accept") /\ \A f : MayLose(f, "accept", {})
      /\ {"tcp_listen", "udp_listen"} \subseteq FunctionNames /\ "none" \notin Tidy /\ "udp_listen" # "none"
  BY DEF FailedAt, Failing, MayLose, FunctionNames, Tidy
<1>3. k3 \subseteq Post(opts, "failed", n) /\ k3 \subseteq Post(opts, "accept", n) BY DEF Post
<1>4. /\ {S, Ctrl, Listener, Pipe, Prot} \subseteq Fds /\ Ctrl \notin k0 /\ S \notin k1 /\ Prot \notin k1
      /\ Prot # S /\ k0 \cup {Ctrl} = k1 /\ Listener \in k1 /\ S \notin Lists
  BY FdNames, Names
<1>5. udp => k2 = k1 \cup {S} /\ k3 = k1 \cup {Prot} OBVIOUS
<1>6. ~udp => k2 = k1 /\ k3 = k1 OBVIOUS
<1>7. k1 \subseteq k3 OBVIOUS
<1> HIDE DEF p, n, k0, k1, k2, k3
<1>8. Leads(p, g0, <<Opens(Ctrl, {})>>, g1)
  <2>1. MayFail(p, k0, {}, {}, Lists, "none", n, Ctrl, {})
    <3>1. k0 \ {} \subseteq (Post(p.opts, FailedAt(p.at), n) \ {Ctrl}) \cup {} BY <1>1, <1>2, <1>3, <1>4, <1>7
    <3> QED BY <3>1, <1>1, <1>2, FailsIn
  <2> QED BY <2>1, <1>1, <1>2, <1>4, OpenKeeps
<1>9. Leads(p, g1, <<Tries(S, {})>>, g1) BY <1>1, <1>2, <1>3, <1>7, TryAloneKeeps
<1>10. ~udp => Leads(p, g1, Function("tcp_listen", TcpListen), g2)
  <2>1. Leads(p, Ghost(k1, {}, {}, {}, "tcp_listen", n), TcpListen, Ghost(k1, {S}, {}, Lists, "tcp_listen", n))
    <3>1. k1 \subseteq Post(opts, "failed", n) BY <1>3, <1>7
    <3> QED BY <3>1, <1>1, <1>4, TcpListenKeeps
  <2>2. Leads(p, g1, Function("tcp_listen", TcpListen), Ghost(k1, {}, {}, {}, "none", n))
    BY <2>1, <1>1, <1>2, FunctionKeeps
  <2> QED BY <2>2, <1>6
<1>11. udp => Leads(p, g1, Function("udp_listen", UdpListen), g2)
  <2>1. MayFail(p, k1, {}, {}, {}, "udp_listen", n, S, {})
    <3>1. k1 \ {} \subseteq (Post(p.opts, FailedAt(p.at), n) \ {S}) \cup {} BY <1>1, <1>2, <1>3, <1>4, <1>7
    <3> QED BY <3>1, <1>1, <1>2, FailsIn
  <2>2. Leads(p, Ghost(k1, {}, {}, {}, "udp_listen", n), Netannounce(S, FALSE),
                 Ghost(k1 \cup {S}, {} \cup {S}, {}, Lists, "udp_listen", n))
    BY <2>1, <1>1, <1>2, <1>4, NetannounceKeeps
  <2>3. Leads(p, g1, Function("udp_listen", UdpListen), Ghost(k1 \cup {S}, {}, {}, {}, "none", n))
    BY <2>2, <1>1, <1>2, FunctionKeeps DEF UdpListen
  <2> QED BY <2>3, <1>5
<1>12. Leads(p, g2, <<Copies(Prot, S)>>, g3)
  <2>1. Prot \notin k2 /\ (k2 \subseteq k3 \/ (k2 \ {S}) \cup {Prot} \subseteq k3)
    BY <1>4, <1>5, <1>6
  <2> QED BY <2>1, <1>1, <1>2, <1>4, CopyKeeps
<1>13. Leads(p, g3, <<Tries(S, {})>>, g3) BY <1>1, <1>2, <1>3, TryAloneKeeps
<1>14. (udp => opts.protocol # "tcp") /\ (~udp => opts.protocol = "tcp") BY OptsAre
<1> HIDE DEF udp, g0, g1, g2, g3
<1>15. Leads(p, g0, <<Opens(Ctrl, {}), Tries(S, {})>>, g1) BY <1>8, <1>9, LeadsTwo
<1>16. Leads(p, g2, <<Copies(Prot, S), Tries(S, {})>>, g3) BY <1>12, <1>13, LeadsTwo
<1>17. Leads(p, g0, Accept, g3)
  <2> DEFINE f == IF opts.protocol = "tcp" THEN Function("tcp_listen", TcpListen)
                                           ELSE Function("udp_listen", UdpListen)
  <2>1. Leads(p, g1, f, g2) BY <1>10, <1>11, <1>14
  <2>2. Accept = <<Opens(Ctrl, {}), Tries(S, {})>> \o f \o <<Copies(Prot, S), Tries(S, {})>> BY DEF Accept
  <2> HIDE DEF f
  <2>3. Leads(p, g0, <<Opens(Ctrl, {}), Tries(S, {})>> \o f, g2) BY <2>1, <1>15, LeadsOn
  <2> QED BY <2>2, <2>3, <1>16, LeadsOn
<1> QED BY <1>3, <1>17 DEF Keeping, p, g0, g3, k0, n

\* Another client is refused.
LEMMA AcceptOtherKeeps ==
  ASSUME opts \in Tests, opts.role = "server"
  PROVE  Keeping("busy", Post(opts, "busy", streams), AcceptOther)
<1> DEFINE p == [of |-> "kept", opts |-> opts, at |-> "busy"]
           n == streams
           q == Post(opts, "busy", n)
           g0 == Ghost(q, {}, {}, Lists, "none", n)
           g1 == Ghost(q \cup {S}, {}, {}, Lists, "none", n)
<1>1. p.of = "kept" /\ p.opts = opts /\ p.at = "busy" OBVIOUS
<1>2. /\ FailedAt("busy") = "failed" /\ Failing("busy") /\ MayLose("none", "busy", {})
      /\ "none" \notin Tidy /\ q = Post(opts, "failed", n)
  BY DEF FailedAt, Failing, MayLose, Tidy, Post
<1>3. S \notin q /\ S \in Fds /\ S \notin Lists BY PostIs, FdNames
<1> HIDE DEF p, n, q
<1>4. Leads(p, g0, <<Opens(S, {})>>, g1)
  <2>1. MayFail(p, q, {}, {}, Lists, "none", n, S, {})
    <3>1. q \ {} \subseteq (Post(p.opts, FailedAt(p.at), n) \ {S}) \cup {} BY <1>1, <1>2, <1>3
    <3> QED BY <3>1, <1>1, <1>2, FailsIn
  <2> QED BY <2>1, <1>1, <1>2, <1>3, OpenKeeps
<1>5. Leads(p, g1, <<Drops(S)>>, g0)
  <2>1. (q \cup {S}) \ {S} \subseteq q BY <1>3
  <2> QED BY <2>1, <1>1, <1>2, <1>3, DropKeeps
<1> HIDE DEF g0, g1
<1>6. Leads(p, g0, AcceptOther, g0) BY <1>4, <1>5, LeadsTwo DEF AcceptOther
<1> QED BY <1>6 DEF Keeping, p, g0, q, n

LEMMA AcceptStreamKeeps ==
  ASSUME opts \in Tests, opts.role = "server", streams \in 0..NumStreams, streams < NumStreams,
         NEW refused \in BOOLEAN
  PROVE  Keeping("streams", Post(opts, "streams", streams), AcceptStream(streams + 1, refused))
<1> DEFINE p == [of |-> "kept", opts |-> opts, at |-> "streams"]
           n == streams
           q == Post(opts, "streams", n)
           q2 == Post(opts, "streams", n + 1)
           f == IF opts.protocol = "tcp" THEN Function("tcp_accept", TcpAccept(refused))
                                         ELSE Function("udp_accept", UdpAccept)
           g0 == Ghost(q, {}, {}, Lists, "none", n)
           g1 == Ghost(q \cup {S}, {}, {}, {}, "none", n)
           g2 == Ghost(q2, {}, {}, {}, "none", n + 1)
<1>1. p.of = "kept" /\ p.opts = opts /\ p.at = "streams" OBVIOUS
<1>2. {"tcp_accept", "udp_accept", "sockopts", "new_stream"} \subseteq FunctionNames /\ "none" \notin Tidy
  BY DEF FunctionNames, Tidy
<1>3. /\ q = Post(opts, "failed", n) /\ q \subseteq Post(opts, "failed", n) /\ S \notin q
      /\ q \cup {S} \subseteq Post(opts, "failed", n) \cup {S}
      /\ q \cup {S} \subseteq Post(opts, "streams", n) \cup {S}
  BY StreamPosts, PostIs
<1>4. n \in Nat /\ n < NumStreams BY BoundsAssumption
<1> HIDE DEF p, n, q, q2
<1>5. opts.protocol = "tcp" => Leads(p, g0, Function("tcp_accept", TcpAccept(refused)), g1)
  <2>1. Leads(p, Ghost(q, {}, {}, {}, "tcp_accept", n), TcpAccept(refused),
                 Ghost(q \cup {S}, {S}, {}, {}, "tcp_accept", n))
    BY <1>1, <1>3, TcpAcceptKeeps
  <2> QED BY <2>1, <1>1, <1>2, FunctionKeeps
<1>6. opts.protocol = "udp" => Leads(p, g0, Function("udp_accept", UdpAccept), g1)
  <2>1. opts.protocol = "udp" =>
          Leads(p, Ghost(q, {}, {}, {}, "udp_accept", n), UdpAccept,
                 Ghost(q \cup {S}, {Prot}, {}, Lists, "udp_accept", n))
    BY <1>1, <1>3, UdpAcceptKeeps
  <2> QED BY <2>1, <1>1, <1>2, FunctionKeeps
<1>7. Leads(p, g0, f, g1) BY <1>5, <1>6, OptsAre
<1>8. Leads(p, g1, Function("sockopts", CommonSockopts), g1)
  <2> DEFINE h == Ghost(q \cup {S}, {}, {}, {}, "sockopts", n)
  <2>1. MayFail(p, q \cup {S}, {}, {}, {}, "sockopts", n, S, {}) BY <1>1, <1>3, MayLoseS
  <2>2. Leads(p, h, <<Tries(S, {})>>, h) BY <2>1, <1>1, TryKeeps, FdNames
  <2> QED BY <2>2, <1>1, <1>2, FunctionKeeps DEF CommonSockopts
<1>9. Leads(p, g1, <<Does("is_closed")>>, g1)
  <2>1. EndsWell(p, (q \cup {S}) \ {S}, {}, "none", n)
    <3>1. (q \cup {S}) \ {S} \subseteq Post(p.opts, p.at, n) BY <1>1 DEF q
    <3> QED BY <3>1 DEF EndsWell
  <2> QED BY <2>1, <1>1, <1>2, IsClosedKeeps
<1>10. Leads(p, g1, Function("new_stream", NewStream(n + 1)), g2)
  <2>1. Leads(p, Ghost(q \cup {S}, {}, {}, {}, "new_stream", n), NewStream(n + 1),
                 Ghost(q2, {}, {}, Lists, "new_stream", n + 1))
    BY <1>1, <1>3, <1>4, NewStreamKeeps DEF q2
  <2> QED BY <2>1, <1>1, <1>2, FunctionKeeps
<1>11. AcceptStream(n + 1, refused) = f \o Function("sockopts", CommonSockopts) \o <<Does("is_closed")>>
                                        \o Function("new_stream", NewStream(n + 1))
  BY DEF AcceptStream
<1> HIDE DEF f, g0, g1, g2
<1>12. Leads(p, g0, AcceptStream(n + 1, refused), g2) BY <1>7, <1>8, <1>9, <1>10, <1>11, LeadsOn
<1>13. q2 \subseteq Post(opts, "streams", n + 1) BY DEF q2
<1> QED BY <1>12, <1>13 DEF Keeping, p, q, g0, g2, n

LEMMA ServerPosts ==
  ASSUME opts \in Tests, opts.role = "server", NEW n
  PROVE  /\ \A a \in {"accept", "streams", "reopen", "busy", "test_end", "expire"} :
              Post(opts, a, n) = Post(opts, "failed", n)
         /\ Post(opts, "failed", n) \subseteq {Ctrl, Listener, Pipe, Prot} \cup Str(n)
         /\ {Ctrl, Listener, Pipe} \cup Str(n) \subseteq Post(opts, "failed", n)
         /\ opts.protocol = "tcp" => Prot \notin Post(opts, "failed", n)
<1>1. Prot \notin {Ctrl, Listener, Pipe} BY Names
<1> QED BY <1>1, StrIs DEF Post

\* The listener is made anew when it was tuned.
LEMMA ReopenKeeps ==
  ASSUME opts \in Tests, opts.role = "server"
  PROVE  Keeping("reopen", Post(opts, "reopen", streams), Reopen)
<1> DEFINE p == [of |-> "kept", opts |-> opts, at |-> "reopen"]
           n == streams
           q == Post(opts, "reopen", n)
           m == q \ {Prot}
           r == m \ {Listener}
           tuned == <<Clears(Listener)>> \o Function("netannounce", Netannounce(S, TRUE)) \o <<Copies(Listener, S)>>
           first == IF opts.protocol = "udp" THEN <<Clears(Prot)>> ELSE IF opts.tuned THEN tuned ELSE <<>>
           g0 == Ghost(q, {}, {}, Lists, "none", n)
           g1 == Ghost(r, {}, {}, Lists, "none", n)
           g2 == Ghost(r \cup {S}, {}, {}, {}, "none", n)
           g3 == Ghost(m, {}, {}, Lists, "none", n)
<1>1. p.of = "kept" /\ p.opts = opts /\ p.at = "reopen" OBVIOUS
<1>2. /\ FailedAt("reopen") = "failed" /\ Failing("reopen") /\ MayLose("netannounce", "reopen", {})
      /\ "none" \notin Tidy /\ "netannounce" \in FunctionNames /\ "netannounce" # "none"
  BY DEF FailedAt, Failing, MayLose, Tidy, FunctionNames
<1>3. /\ q = Post(opts, "failed", n) /\ S \notin q /\ {S, Listener, Prot} \subseteq Fds /\ Listener \in q
      /\ {S, Listener, Prot} \cap Lists = {} /\ Listener # S /\ Listener # Prot
      /\ opts.protocol = "tcp" => q = m
  BY ServerPosts, PostIs, FdNames, Names
<1> HIDE DEF p, n, q
<1>4. opts.protocol = "udp" => Leads(p, g0, <<Clears(Prot)>>, g3)
  BY <1>1, <1>2, <1>3, ClearKeeps
<1>5. opts.protocol = "tcp" => Leads(p, g0, tuned, g3)
  <2>1. opts.protocol = "tcp" => Leads(p, g0, <<Clears(Listener)>>, g1)
    BY <1>1, <1>2, <1>3, ClearKeeps
  <2>2. Leads(p, g1, Function("netannounce", Netannounce(S, TRUE)), g2)
    <3>1. MayFail(p, r, {}, {}, {}, "netannounce", n, S, {})
      <4>1. r \ {} \subseteq (Post(p.opts, FailedAt(p.at), n) \ {S}) \cup {} BY <1>1, <1>2, <1>3
      <4> QED BY <4>1, <1>1, <1>2, FailsIn
    <3>2. S \notin r BY <1>3
    <3> HIDE DEF r
    <3>3. Leads(p, Ghost(r, {}, {}, {}, "netannounce", n), Netannounce(S, TRUE),
                   Ghost(r \cup {S}, {} \cup {S}, {}, Lists, "netannounce", n))
      BY <3>1, <3>2, <1>1, <1>2, <1>3, NetannounceKeeps
    <3> QED BY <3>3, <1>1, <1>2, FunctionKeeps
  <2>3. Leads(p, g2, <<Copies(Listener, S)>>, g3)
    <3>1. Listener \notin r \cup {S} /\ ((r \cup {S}) \ {S}) \cup {Listener} \subseteq m BY <1>3
    <3> QED BY <3>1, <1>1, <1>2, <1>3, CopyKeeps
  <2> HIDE DEF g0, g1, g2, g3
  <2> QED BY <2>1, <2>2, <2>3, LeadsOn
<1>6. opts.protocol = "tcp" => Leads(p, g0, <<>>, g3)
  <2>1. Leads(p, g0, <<>>, g0) BY LeadsNowhere
  <2>2. opts.protocol = "tcp" => g0 = g3 BY <1>3
  <2> QED BY <2>1, <2>2
<1>7. Leads(p, g0, first, g3)
  <2> HIDE DEF tuned
  <2> QED BY <1>4, <1>5, <1>6, OptsAre
<1>8. Leads(p, g3, <<Forgets(Prot)>>, g3)
  <2>1. Prot \notin m OBVIOUS
  <2> QED BY <2>1, <1>1, <1>2, <1>3, ForgetKeeps
<1>9. Leads(p, g3, <<Tries(S, {})>>, g3)
  <2>1. m \subseteq Post(p.opts, FailedAt(p.at), n) BY <1>1, <1>2, <1>3
  <2> QED BY <2>1, <1>1, <1>2, TryAloneKeeps
<1>10. Reopen = first \o <<Forgets(Prot), Tries(S, {})>> BY DEF Reopen
<1> HIDE DEF first, g0, g1, g2, g3
<1>11. Leads(p, g3, <<Forgets(Prot), Tries(S, {})>>, g3) BY <1>8, <1>9, LeadsTwo
<1>12. Leads(p, g0, Reopen, g3) BY <1>7, <1>10, <1>11, LeadsOn
<1>13. m \subseteq Post(opts, "reopen", n) BY DEF q
<1> QED BY <1>12, <1>13 DEF Keeping, p, g0, g3, q, n

LEMMA EndTestKeeps ==
  ASSUME opts \in Tests, opts.role = "server", streams \in 0..NumStreams
  PROVE  Keeping("test_end", Post(opts, "test_end", streams), EndTest)
<1> DEFINE p == [of |-> "kept", opts |-> opts, at |-> "test_end"]
           n == streams
           q == Post(opts, "test_end", n)
           m == q \ OfStreams({"socket"}, n)
           g0 == Ghost(q, {}, {}, Lists, "none", n)
           g1 == Ghost(m, {}, {}, Lists, "none", n)
<1>1. p.of = "kept" /\ p.opts = opts /\ p.at = "test_end" OBVIOUS
<1>2. /\ FailedAt("test_end") = "failed" /\ Failing("test_end") /\ q = Post(opts, "failed", n)
  BY ServerPosts DEF FailedAt, Failing
<1> HIDE DEF p, n, q
<1>3. Leads(p, g0, Each(n, DropSocket), g1) BY <1>1, DropSocketsKeeps DEF n
<1>4. Leads(p, g1, <<Tries(S, {})>>, g1)
  <2>1. m \subseteq Post(p.opts, FailedAt(p.at), n) BY <1>1, <1>2
  <2> QED BY <2>1, <1>1, <1>2, TryAloneKeeps
<1>5. m \subseteq Post(opts, "test_end", n) BY DEF q
<1> HIDE DEF g0, g1
<1>6. Leads(p, g0, EndTest, g1) BY <1>3, <1>4, LeadsOn DEF EndTest, n
<1> QED BY <1>5, <1>6 DEF Keeping, p, g0, g1, q, n

LEMMA ExpireKeeps ==
  ASSUME opts \in Tests, opts.role = "server", streams \in 0..NumStreams
  PROVE  Keeping("expire", Post(opts, "expire", streams), Expire)
<1> DEFINE p == [of |-> "kept", opts |-> opts, at |-> "expire"]
           n == streams
           q == Post(opts, "expire", n)
           m == q \ OfStreams({"socket", "buffer_fd", "diskfile_fd"}, n)
           g0 == Ghost(q, {}, {}, Lists, "none", n)
           g1 == Ghost(m, {}, {}, Lists, "none", n)
           g2 == Ghost(m, {}, {}, Lists, "none", 0)
<1>1. p.of = "kept" /\ p.opts = opts /\ p.at = "expire" /\ "none" \notin Tidy BY DEF Tidy
<1>2. m \subseteq Post(opts, "expire", 0)
  <2>1. m \subseteq {Ctrl, Listener, Pipe} \cup (IF opts.protocol = "udp" THEN {Prot} ELSE {})
    BY StrIs DEF Post
  <2> QED BY <2>1 DEF Post
<1> HIDE DEF p, n, q, m
<1>3. Leads(p, g0, Each(n, ClearStream), g1) BY <1>1, ClearStreamsKeeps DEF n, m
<1>4. Leads(p, g1, <<Does("no_streams")>>, g2) BY <1>1, ForgetStreamsKeeps
<1>5. Leads(p, g2, <<Clears(Ctrl)>>, g2) BY <1>1, FdNames, ClearKeeps
<1> HIDE DEF g0, g1, g2
<1>6. Leads(p, g1, <<Does("no_streams"), Clears(Ctrl)>>, g2) BY <1>4, <1>5, LeadsTwo
<1>7. Leads(p, g0, Expire, g2) BY <1>3, <1>6, LeadsOn DEF Expire, n
<1> QED BY <1>2, <1>7 DEF Keeping, p, g0, g2, q, n

LEMMA CleanUpKeeps ==
  ASSUME opts \in Tests, opts.role = "server", streams \in 0..NumStreams,
         NEW k, k \subseteq {Ctrl, Listener, Pipe, Prot} \cup Str(streams)
  PROVE  Keeping("cleanup", k, CleanUp)
<1> DEFINE p == [of |-> "kept", opts |-> opts, at |-> "cleanup"]
           n == streams
           m == k \ OfStreams({"socket"}, n)
           m1 == m \ {Ctrl}
           m2 == m1 \ {Listener}
           m3 == m2 \ {Prot}
           g0 == Ghost(k, {}, {}, Lists, "none", n)
           g1 == Ghost(m, {}, {}, Lists, "none", n)
           g2 == Ghost(m1, {}, {}, Lists, "none", n)
           g3 == Ghost(m2, {}, {}, Lists, "none", n)
           g4 == Ghost(m3, {}, {}, Lists, "none", n)
<1>1. p.of = "kept" /\ p.opts = opts /\ p.at = "cleanup" /\ "none" \notin Tidy BY DEF Tidy
<1>2. m3 \subseteq Post(opts, "cleanup", n)
  <2>1. m3 \subseteq {Pipe} \cup Files(n) BY StrIs
  <2> QED BY <2>1 DEF Post
<1>3. {Ctrl, Listener, Prot} \subseteq Fds /\ {Ctrl, Listener, Prot} \cap Lists = {} BY FdNames
<1> HIDE DEF p, n
<1>4. Leads(p, g0, Each(n, ClearSocket), g1) BY <1>1, ClearSocketsKeeps DEF n
<1> HIDE DEF m
<1>5. Leads(p, g1, <<Clears(Ctrl)>>, g2) BY <1>1, <1>3, ClearKeeps
<1>6. Leads(p, g2, <<Clears(Listener)>>, g3) BY <1>1, <1>3, ClearKeeps
<1>7. Leads(p, g3, <<Clears(Prot)>>, g4) BY <1>1, <1>3, ClearKeeps
<1> HIDE DEF g0, g1, g2, g3, g4
<1>8. Leads(p, g1, <<Clears(Ctrl), Clears(Listener), Clears(Prot)>>, g4)
  BY <1>5, <1>6, <1>7, LeadsTwo, LeadsThree
<1>9. Leads(p, g0, CleanUp, g4) BY <1>4, <1>8, LeadsOn DEF CleanUp, n
<1> QED BY <1>2, <1>9 DEF Keeping, p, g0, g4, n
-----------------------------------------------------------------------------
(* What the machine does with the calls of an outline.                     *)

\* Descriptors of the test that no variable of k holds.
Lost(k) == Owned \ {var[v] : v \in k \cap Fds}

\* The lowest free number.
LEMMA LowestIsFree ==
  ASSUME Free # {}
  PROVE  Lowest \in Free /\ Lowest \in Numbers /\ \A m \in Free : Lowest <= m
<1> DEFINE R == OpToRel(<, Nat)
<1>1. IsWellFoundedOn(R, Nat) BY NatLessThanWellFounded
<1>2. Free \subseteq Nat /\ Free \subseteq Numbers BY BoundsAssumption DEF Free, Numbers
<1>3. PICK n \in Free : \A m \in Free : ~(<<m, n>> \in R)
  <2> HIDE DEF R
  <2> QED BY <1>1, <1>2, WFMin
<1>4. ASSUME NEW m \in Free, m < n PROVE FALSE
  <2>1. <<m, n>> \in R BY <1>2, <1>4 DEF OpToRel
  <2> QED BY <2>1, <1>3
<1>5. \A m \in Free : n <= m BY <1>2, <1>4
<1> QED BY <1>2, <1>5 DEF Lowest

\* What is released was the test's, or is named among the strays.
LEMMA ReleasesOwn ==
  ASSUME TypeOK, NEW names \in SUBSET (Fds \cup Lists), Releases(names)
  PROVE  /\ owner' \in [Numbers -> {"free", "test", "other"}]
         /\ Owned' = Owned \ {var[v] : v \in names \cap Fds}
         /\ lists' \in [Lists -> {"null", "held", "freed"}]
         /\ \A l \in Lists : /\ lists'[l] = "held" => lists[l] = "held" /\ l \notin names
                             /\ lists'[l] = "freed" => lists[l] = "freed" \/ l \in names
         /\ \A x \in strays' : \/ x \in strays
                               \/ \E v \in names \cap Fds :
                                    x = <<at, v[1]>> /\ var[v] # None /\ owner[var[v]] # "test"
                               \/ \E l \in names \cap Lists : x = <<at, l[1]>> /\ lists[l] = "freed"
<1> DEFINE fds == {var[v] : v \in names \cap Fds} \ {None}
<1>1. /\ owner \in [Numbers -> {"free", "test", "other"}] /\ var \in [Fds -> Numbers \cup {None}]
      /\ lists \in [Lists -> {"null", "held", "freed"}] /\ None \notin Numbers
  BY BoundsAssumption DEF TypeOK, Numbers, None
<1>2. owner' = [n \in Numbers |-> IF n \in fds THEN "free" ELSE owner[n]] BY DEF Releases
<1>3. \A n \in Numbers : n \in fds <=> n \in {var[v] : v \in names \cap Fds} BY <1>1
<1> HIDE DEF fds
<1>4. owner' \in [Numbers -> {"free", "test", "other"}] BY <1>1, <1>2
<1>5. Owned' = Owned \ {var[v] : v \in names \cap Fds}
  <2>1. \A n \in Numbers : n \in Owned' <=> n \in Owned /\ n \notin fds BY <1>2 DEF Owned
  <2>2. Owned' \subseteq Numbers /\ Owned \subseteq Numbers BY DEF Owned
  <2> QED BY <2>1, <2>2, <1>3
<1>6. /\ lists' \in [Lists -> {"null", "held", "freed"}]
      /\ \A l \in Lists : /\ lists'[l] = "held" => lists[l] = "held" /\ l \notin names
                          /\ lists'[l] = "freed" => lists[l] = "freed" \/ l \in names
  BY <1>1 DEF Releases
<1>7. \A x \in strays' : \/ x \in strays
                         \/ \E v \in names \cap Fds :
                              x = <<at, v[1]>> /\ var[v] # None /\ owner[var[v]] # "test"
                         \/ \E l \in names \cap Lists : x = <<at, l[1]>> /\ lists[l] = "freed"
  BY DEF Releases
<1> QED BY <1>4, <1>5, <1>6, <1>7

\* A descriptor is taken.
LEMMA TakesOwns ==
  ASSUME TypeOK, NEW v \in Fds, Free # {}, Takes(v, Lowest)
  PROVE  /\ owner' \in [Numbers -> {"free", "test", "other"}] /\ var' \in [Fds -> Numbers \cup {None}]
         /\ Owned' = Owned \cup {Lowest} /\ var'[v] = Lowest /\ \A w \in Fds \ {v} : var'[w] = var[w]
<1>1. Lowest \in Numbers BY LowestIsFree
<1> DEFINE m == Lowest
<1>2. owner' = [owner EXCEPT ![m] = "test"] /\ var' = [var EXCEPT ![v] = m] /\ m \in Numbers
  BY <1>1 DEF Takes
<1> HIDE DEF m
<1>3. /\ owner' \in [Numbers -> {"free", "test", "other"}] /\ var' \in [Fds -> Numbers \cup {None}]
      /\ Owned' = Owned \cup {m} /\ var'[v] = m /\ \A w \in Fds \ {v} : var'[w] = var[w]
  BY <1>2 DEF TypeOK, Owned
<1> QED BY <1>3 DEF m

LEMMA TypeParts ==
  ASSUME TypeOK
  PROVE  /\ opts \in Tests /\ owner \in [Numbers -> {"free", "test", "other"}]
         /\ var \in [Fds -> Numbers \cup {None}] /\ lists \in [Lists -> {"null", "held", "freed"}]
         /\ streams \in Nat /\ streams \in 0..NumStreams /\ NumStreams \in Nat
         /\ None \notin Numbers /\ IsFiniteSet(Owned)
<1>1. IsFiniteSet(Numbers) BY BoundsAssumption, FS_Interval DEF Numbers
<1>2. Owned \in SUBSET Numbers BY DEF Owned
<1>3. IsFiniteSet(Owned) BY <1>1, <1>2, FS_Subset
<1> QED BY <1>3, BoundsAssumption DEF TypeOK, Numbers, None

\* A call that succeeds keeps the types.
LEMMA SucceedsType ==
  ASSUME TypeOK, Succeeds, Head(code) \in Calls, Head(code).does = "add" => streams < NumStreams
  PROVE  TypeOK'
<1> DEFINE c == Head(code)
<1>1. /\ c.into \in Fds /\ c.does \in Kinds
      /\ c.does \in {"drop", "clear"} => c.what \in Fds \cup Lists
      /\ c.does = "copy" => c.what \in Fds
  BY DEF Calls
<1>2. opts' = opts /\ Owned \subseteq Numbers BY DEF Succeeds, Owned
<1> HIDE DEF c
<1>3. CASE c.does \in {"open", "pipe"}
  <2>1. Free # {} /\ Takes(c.into, Lowest) /\ UNCHANGED <<lists, streams, before>> BY <1>3 DEF Succeeds, c
  <2> QED BY <2>1, <1>1, <1>2, TakesOwns DEF TypeOK
<1>4. CASE c.does = "list"
  <2>1. lists' = [lists EXCEPT ![c.what] = "held"] /\ UNCHANGED <<owner, var, streams, before>>
    BY <1>4 DEF Succeeds, c
  <2> QED BY <2>1, <1>2 DEF TypeOK
<1>5. CASE c.does = "try"
  <2>1. UNCHANGED <<owner, var, lists, streams, before>> BY <1>5 DEF Succeeds, c
  <2> QED BY <2>1, <1>2 DEF TypeOK
<1>6. CASE c.does = "is_closed"
  <2>1. UNCHANGED <<owner, var, lists, streams, before>> BY <1>6 DEF Succeeds, c
  <2> QED BY <2>1, <1>2 DEF TypeOK
<1>7. CASE c.does \in {"drop", "clear"}
  <2>1. /\ Releases({c.what}) /\ var' = IF c.does = "clear" THEN [var EXCEPT ![c.into] = None] ELSE var
        /\ UNCHANGED <<streams, before>>
    BY <1>7 DEF Succeeds, c
  <2>2. {c.what} \in SUBSET (Fds \cup Lists) BY <1>1, <1>7
  <2>3. owner' \in [Numbers -> {"free", "test", "other"}] /\ lists' \in [Lists -> {"null", "held", "freed"}]
    BY <2>1, <2>2, ReleasesOwn
  <2> QED BY <2>1, <2>3, <1>1, <1>2 DEF TypeOK
<1>8. CASE c.does \in {"copy", "forget"}
  <2>1. /\ var' = [var EXCEPT ![c.into] = IF c.does = "copy" THEN var[c.what] ELSE None]
        /\ UNCHANGED <<owner, lists, streams, before>>
    BY <1>8 DEF Succeeds, c
  <2>2. c.does = "copy" => var[c.what] \in Numbers \cup {None} BY <1>1 DEF TypeOK
  <2> QED BY <2>1, <2>2, <1>1, <1>2 DEF TypeOK
<1>9. CASE c.does \in {"enter", "leave"}
  <2>1. /\ before' = IF c.does = "enter" THEN Owned ELSE {}
        /\ lists' = [l \in Lists |-> IF lists[l] = "held" THEN "held" ELSE "null"]
        /\ UNCHANGED <<owner, var, streams>>
    BY <1>9 DEF Succeeds, c
  <2> QED BY <2>1, <1>2 DEF TypeOK
<1>10. CASE c.does = "add"
  <2>1. /\ streams' = streams + 1 /\ var' = [var EXCEPT ![Socket(streams')] = var[S]]
        /\ UNCHANGED <<owner, lists, before>>
    BY <1>10 DEF Succeeds, c
  <2>2. streams < NumStreams BY <1>10 DEF c
  <2>3. S \in Fds BY FdNames
  <2>4. var[S] \in Numbers \cup {None} /\ streams' \in 0..NumStreams BY <2>1, <2>2, <2>3, TypeParts
  <2> QED BY <2>1, <2>4, <1>2 DEF TypeOK
<1>11. CASE c.does = "no_streams"
  <2>1. streams' = 0 /\ UNCHANGED <<owner, var, lists, before>> BY <1>11 DEF Succeeds, c
  <2> QED BY <2>1, <1>2, BoundsAssumption DEF TypeOK
<1> QED BY <1>1, <1>3, <1>4, <1>5, <1>6, <1>7, <1>8, <1>9, <1>10, <1>11 DEF Kinds, Succeeds, c

\* A variable that is closed is no longer needed to say what is not lost.
LEMMA ReleasesLoses ==
  ASSUME TypeOK, NEW names \in SUBSET (Fds \cup Lists), Releases(names), NEW a, NEW b, a \ names \subseteq b,
         \A v \in Fds \cap b : var'[v] = var[v] \/ v \in names
  PROVE  Lost(b)' \subseteq Lost(a)
<1>1. Owned' = Owned \ {var[v] : v \in names \cap Fds} BY ReleasesOwn
<1>2. SUFFICES ASSUME NEW n \in Lost(b)', n \notin Lost(a) PROVE FALSE OBVIOUS
<1>3. n \in Owned' /\ \A v \in b \cap Fds : n # var'[v] BY <1>2 DEF Lost
<1>4. n \in Owned /\ \A v \in names \cap Fds : n # var[v] BY <1>1, <1>3
<1>5. PICK v \in a \cap Fds : n = var[v] BY <1>2, <1>4 DEF Lost
<1>6. v \notin names /\ v \in b BY <1>4, <1>5
<1>7. var'[v] = var[v] BY <1>5, <1>6
<1> QED BY <1>3, <1>5, <1>6, <1>7

\* A call that succeeds loses nothing.
LEMMA SucceedsLoses ==
  ASSUME TypeOK, Succeeds, Head(code) \in Calls, Head(code).does = "add" => streams < NumStreams,
         NEW a, NEW b, Moves(Head(code), streams, a, b)
  PROVE  Lost(b)' \subseteq Lost(a)
<1> DEFINE c == Head(code)
<1>1. /\ c.into \in Fds /\ c.does \in Kinds
      /\ c.does \in {"drop", "clear"} => c.what \in Fds \cup Lists
      /\ c.does = "clear" => c.what = c.into
      /\ c.does = "copy" => c.what \in Fds
      /\ var \in [Fds -> Numbers \cup {None}]
  BY DEF Calls, TypeOK
<1>2. Moves(c, streams, a, b) OBVIOUS
<1> HIDE DEF c
<1>3. CASE c.does \in {"open", "pipe"}
  <2>1. Free # {} /\ Takes(c.into, Lowest) BY <1>3 DEF Succeeds, c
  <2>2. Owned' = Owned \cup {Lowest} /\ var'[c.into] = Lowest /\ \A w \in Fds \ {c.into} : var'[w] = var[w]
    BY <2>1, <1>1, TakesOwns
  <2>3. c.into \notin a /\ a \cup {c.into} \subseteq b BY <1>2, <1>3 DEF Moves
  <2> QED BY <2>2, <2>3, <1>1 DEF Lost
<1>4. CASE c.does \in {"list", "try", "enter", "leave", "is_closed", "no_streams"}
  <2>1. var' = var /\ owner' = owner BY <1>4 DEF Succeeds, c
  <2>2. a \subseteq b BY <1>2, <1>4 DEF Moves
  <2> QED BY <2>1, <2>2 DEF Lost, Owned
<1>5. CASE c.does \in {"drop", "clear"}
  <2>1. Releases({c.what}) /\ var' = IF c.does = "clear" THEN [var EXCEPT ![c.into] = None] ELSE var
    BY <1>5 DEF Succeeds, c
  <2>2. {c.what} \in SUBSET (Fds \cup Lists) /\ a \ {c.what} \subseteq b BY <1>1, <1>2, <1>5 DEF Moves
  <2>3. \A v \in Fds \cap b : var'[v] = var[v] \/ v \in {c.what} BY <2>1, <1>1, <1>5
  <2> QED BY <2>1, <2>2, <2>3, ReleasesLoses
<1>6. CASE c.does \in {"copy", "forget"}
  <2>1. /\ var' = [var EXCEPT ![c.into] = IF c.does = "copy" THEN var[c.what] ELSE None]
        /\ owner' = owner
    BY <1>6 DEF Succeeds, c
  <2>2. Owned' = Owned /\ \A w \in Fds \ {c.into} : var'[w] = var[w] BY <2>1, <1>1 DEF Owned
  <2>3. c.into \notin a BY <1>2, <1>6 DEF Moves
  <2>4. CASE a \subseteq b BY <2>2, <2>3, <2>4 DEF Lost
  <2>5. CASE c.does = "copy" /\ (a \ {c.what}) \cup {c.into} \subseteq b
    <3>1. var'[c.into] = var[c.what] BY <2>1, <2>5, <1>1
    <3> QED BY <3>1, <2>2, <2>3, <2>5, <1>1 DEF Lost
  <2> QED BY <2>4, <2>5, <1>2, <1>6 DEF Moves
<1>7. CASE c.does = "add"
  <2>1. streams' = streams + 1 /\ var' = [var EXCEPT ![Socket(streams')] = var[S]] /\ owner' = owner
    BY <1>7 DEF Succeeds, c
  <2> DEFINE v == Socket(streams + 1)
  <2>2. streams + 1 \in 1..NumStreams BY <1>7, TypeParts DEF c
  <2>3. v \in Fds /\ S \in Fds BY <2>2, FdNames
  <2>4. v \notin a /\ (a \subseteq b \/ (a \ {S}) \cup {v} \subseteq b) BY <1>2, <1>7 DEF Moves
  <2>5. var' = [var EXCEPT ![v] = var[S]] /\ Owned' = Owned BY <2>1 DEF Owned
  <2> HIDE DEF v
  <2>6. var'[v] = var[S] /\ \A w \in Fds \ {v} : var'[w] = var[w] BY <2>3, <2>5, <1>1
  <2>7. CASE a \subseteq b BY <2>5, <2>6, <2>4, <2>7 DEF Lost
  <2>8. CASE (a \ {S}) \cup {v} \subseteq b BY <2>3, <2>4, <2>5, <2>6, <2>8 DEF Lost
  <2> QED BY <2>4, <2>7, <2>8
<1>8. \/ c.does \in {"open", "pipe"}
      \/ c.does \in {"list", "try", "enter", "leave", "is_closed", "no_streams"}
      \/ c.does \in {"drop", "clear"} \/ c.does \in {"copy", "forget"} \/ c.does = "add"
      \/ c.does = "never"
  BY <1>1 DEF Kinds
<1>9. c.does # "never" BY DEF Succeeds, c
<1> QED BY <1>3, <1>4, <1>5, <1>6, <1>7, <1>8, <1>9
-----------------------------------------------------------------------------
(* The inductive invariant.                                                *)

\* What the failures so far may have left open.
Leaks == UNION {LeftBy(f) : f \in failures}

\* What is known before a call is true of the machine.
Fits(g) ==
  /\ g.fn = fn /\ g.n = streams
  /\ Cardinality(Lost(g.kept)) <= Cardinality(Leaks)
  /\ fn \in Tidy => Lost(g.new) \subseteq before
  /\ \A l \in Lists : (lists[l] = "held" => l \in g.held) /\ (lists[l] = "freed" => l \in g.spent)
  /\ fn = "none" => g.held = {}

Now(of) == [of |-> of, opts |-> opts, at |-> at]

\* The calls that are left have an outline that begins with what is true of the machine and
\* ends well.
KeepsOpen ==
  \E g, e : /\ Fits(g) /\ Leads(Now("kept"), g, code, e)
            /\ EndsWell(Now("kept"), e.kept, e.held, e.fn, e.n)

\* Where a client or a server may be after which failures.
InPhase ==
  /\ opts.role = "client" =>
       at \in {"start", "connect", "streams", "refused", "failed", "display", "end", "ended", "again", "free"}
  /\ opts.role = "server" =>
       at \in {"start", "listen", "accept", "streams", "reopen", "busy", "test_end", "expire", "failed",
               "cleanup", "free"}
  /\ failures # {} => at \in {"refused", "failed", "end", "ended", "again", "cleanup", "free"}
  /\ "client_end" \in failures => at \in {"ended", "again", "free"}

NoListStrays == \A l \in Lists, x \in strays : x[2] # l[1]

KInv == TypeOK /\ InPhase /\ NoListStrays /\ KeepsOpen

LEMMA LeaksAreFinite ==
  /\ Leaks \subseteq {"socket", "file", "ctrl_sck"} /\ IsFiniteSet(Leaks) /\ Cardinality(Leaks) \in Nat
  /\ failures = {} => Leaks = {}
  /\ "ctrl_sck" \in Leaks => "client_end" \in failures
<1>1. \A f : LeftBy(f) \subseteq {"socket", "file", "ctrl_sck"} /\ ("ctrl_sck" \in LeftBy(f) => f = "client_end")
  BY DEF LeftBy
<1>2. Leaks \subseteq {"socket", "file", "ctrl_sck"} BY <1>1 DEF Leaks
<1>3. IsFiniteSet({"socket"} \cup {"file"} \cup {"ctrl_sck"}) BY FS_Singleton, FS_AddElement
<1>4. {"socket", "file", "ctrl_sck"} = {"socket"} \cup {"file"} \cup {"ctrl_sck"} OBVIOUS
<1>5. IsFiniteSet(Leaks) BY <1>2, <1>3, <1>4, FS_Subset
<1> QED BY <1>1, <1>2, <1>5, FS_CardinalityType DEF Leaks

LEMMA FewerAreLost ==
  ASSUME NEW X, NEW Y, NEW n \in Nat, IsFiniteSet(X), Y \subseteq X, Cardinality(X) <= n
  PROVE  IsFiniteSet(Y) /\ Cardinality(Y) <= n
BY FS_Subset, FS_CardinalityType

LEMMA InitKeeps == ASSUME Init PROVE KInv
<1>1. TypeOK BY FdNames, BoundsAssumption DEF Init, TypeOK, Numbers, None
<1>2. InPhase /\ NoListStrays BY DEF Init, InPhase, NoListStrays
<1> DEFINE g == Ghost({}, {}, {}, {}, "none", 0)
<1>3. Fits(g)
  <2>1. Owned = {} BY DEF Init, Owned
  <2>2. Lost(g.kept) = {} BY <2>1 DEF Lost
  <2>3. Cardinality({}) = 0 /\ Cardinality(Leaks) \in Nat BY FS_EmptySet, LeaksAreFinite
  <2>4. fn = "none" /\ streams = 0 /\ "none" \notin Tidy /\ \A l \in Lists : lists[l] = "null"
    BY DEF Init, Tidy
  <2>5. g.fn = "none" /\ g.n = 0 /\ g.held = {} BY GhostParts
  <2> HIDE DEF g
  <2>6. Cardinality(Lost(g.kept)) <= Cardinality(Leaks) BY <2>2, <2>3
  <2> QED BY <2>4, <2>5, <2>6 DEF Fits
<1>4. Leads(Now("kept"), g, code, g) BY LeadsNowhere DEF Init
<1>5. EndsWell(Now("kept"), g.kept, g.held, g.fn, g.n) BY GhostParts DEF EndsWell
<1> HIDE DEF g
<1>6. KeepsOpen BY <1>3, <1>4, <1>5 DEF KeepsOpen
<1> QED BY <1>1, <1>2, <1>6 DEF KInv

\* A call succeeds.
LEMMA SucceedsKeeps ==
  ASSUME KInv, Succeeds
  PROVE  KInv'
<1> DEFINE c == Head(code)
           p == Now("kept")
<1>1. PICK g, e : Fits(g) /\ Leads(p, g, code, e) /\ EndsWell(p, e.kept, e.held, e.fn, e.n)
  BY DEF KInv, KeepsOpen
<1>2. code # <<>> /\ opts' = opts /\ at' = at /\ failures' = failures /\ Now("kept")' = Now("kept")
  BY DEF Succeeds, Now
<1>3. p.of = "kept" /\ p.opts = opts /\ p.at = at BY DEF Now
<1> HIDE DEF p
<1>4. c \in Calls BY <1>1, <1>2, LeadsFirst
<1>5. PICK m : Step(p, g, c, m) /\ Leads(p, m, Tail(code), e) BY <1>1, <1>2, LeadsFirst
<1>6. Keeps(p, g, c, m) BY <1>3, <1>5 DEF Step
<1>7. g.fn = fn /\ g.n = streams /\ TypeOK BY <1>1 DEF Fits, KInv
<1>8. c.does = "add" => streams < NumStreams BY <1>6, <1>7 DEF Keeps
<1>9. TypeOK' BY <1>4, <1>7, <1>8, SucceedsType
<1>10. InPhase' BY <1>2 DEF InPhase, KInv
<1>11. Leaks' = Leaks BY <1>2 DEF Leaks
<1>12. Cardinality(Leaks) \in Nat BY LeaksAreFinite
<1>13. NoListStrays'
  <2>1. CASE c.does \in {"drop", "clear"}
    <3>1. Releases({c.what}) /\ {c.what} \in SUBSET (Fds \cup Lists) BY <2>1, <1>4 DEF Succeeds, Calls
    <3>2. \A x \in strays' : \/ x \in strays
                             \/ \E v \in {c.what} \cap Fds :
                                  x = <<at, v[1]>> /\ var[v] # None /\ owner[var[v]] # "test"
                             \/ \E l \in {c.what} \cap Lists : x = <<at, l[1]>> /\ lists[l] = "freed"
      BY <3>1, <1>7, ReleasesOwn
    <3>3. \A l \in {c.what} \cap Lists : lists[l] # "freed"
      BY <2>1, <1>1, <1>6 DEF Keeps, Fits
    <3>4. \A v \in Fds, l \in Lists : v[1] # l[1] BY Names, FdNames DEF Fds, Lists
    <3> QED BY <3>2, <3>3, <3>4 DEF NoListStrays, KInv
  <2>2. CASE c.does \notin {"drop", "clear"}
    <3>1. strays' \subseteq strays \cup {Stolen} BY <2>2 DEF Succeeds
    <3>2. \A l \in Lists : l[1] # "s" BY Names DEF Lists
    <3>3. Stolen[2] = "s" BY DEF Stolen
    <3> QED BY <3>1, <3>2, <3>3 DEF NoListStrays, KInv
  <2> QED BY <2>1, <2>2
<1>14. CASE c.does = "is_closed" /\ IsClosed(S)
  <2> DEFINE h == Ghost(g.kept \ {S}, g.new, g.held, g.spent, g.fn, g.n)
  <2>1. code' = <<>> /\ UNCHANGED <<owner, var, lists, streams, fn, before>> BY <1>14 DEF Succeeds
  <2>2. EndsWell(p, g.kept \ {S}, g.held, g.fn, g.n) BY <1>6, <1>14 DEF Keeps
  <2>3. Lost(g.kept \ {S})' \subseteq Lost(g.kept)
    <3>1. var[S] \notin Owned BY <1>14, TypeParts, <1>7 DEF IsClosed, Owned
    <3> QED BY <2>1, <3>1 DEF Lost, Owned
  <2>4. Cardinality(Lost(g.kept \ {S})') <= Cardinality(Leaks)
    <3>1. IsFiniteSet(Lost(g.kept)) BY <1>7, TypeParts, FS_Subset DEF Lost
    <3> QED BY <3>1, <2>3, <1>1, <1>12, FewerAreLost DEF Fits
  <2>5. fn = "none" /\ "none" \notin Tidy /\ g.held = {} BY <2>2, <1>7 DEF EndsWell, Tidy
  <2>6. Fits(h)' BY <2>1, <2>4, <2>5, <1>1, <1>7, <1>11, GhostParts DEF Fits
  <2>7. Leads(p, h, <<>>, h) BY LeadsNowhere
  <2>8. EndsWell(p, h.kept, h.held, h.fn, h.n) BY <2>2, GhostParts
  <2> HIDE DEF h
  <2>9. KeepsOpen' BY <2>1, <2>6, <2>7, <2>8, <1>2 DEF KeepsOpen, p
  <2> QED BY <2>9, <1>9, <1>10, <1>13 DEF KInv
<1>15. CASE ~(c.does = "is_closed" /\ IsClosed(S))
  <2>1. code' = Tail(code) BY <1>15 DEF Succeeds
  <2>2. Lost(m.kept)' \subseteq Lost(g.kept)
    <3>1. Moves(c, streams, g.kept, m.kept) BY <1>6, <1>7 DEF Keeps
    <3> QED BY <3>1, <1>4, <1>7, <1>8, SucceedsLoses
  <2>3. Cardinality(Lost(m.kept)') <= Cardinality(Leaks)
    <3>1. IsFiniteSet(Lost(g.kept)) BY <1>7, TypeParts, FS_Subset DEF Lost
    <3> QED BY <3>1, <2>2, <1>1, <1>12, FewerAreLost DEF Fits
  <2>4. m.fn = fn' /\ m.n = streams'
    <3>1. fn' = IF c.does = "enter" THEN c.what[1] ELSE IF c.does = "leave" THEN "none" ELSE fn
      BY DEF Succeeds
    <3>2. streams' = IF c.does = "add" THEN streams + 1 ELSE IF c.does = "no_streams" THEN 0 ELSE streams
      BY DEF Succeeds
    <3> QED BY <3>1, <3>2, <1>6, <1>7 DEF Keeps
  <2>5. fn' \in Tidy => Lost(m.new)' \subseteq before'
    <3>1. CASE c.does = "enter"
      <4>1. before' = Owned /\ owner' = owner BY <3>1 DEF Succeeds
      <4> QED BY <4>1 DEF Lost, Owned
    <3>2. CASE c.does = "leave"
      <4>1. fn' = "none" BY <3>2 DEF Succeeds
      <4> QED BY <4>1 DEF Tidy
    <3>3. CASE c.does \notin {"enter", "leave"}
      <4>1. fn' = fn /\ before' = before BY <3>3 DEF Succeeds
      <4>2. fn \in Tidy => Moves(c, streams, g.new, m.new) BY <4>1, <2>4, <1>6, <1>7 DEF Keeps
      <4>3. fn \in Tidy => Lost(m.new)' \subseteq Lost(g.new) BY <4>2, <1>4, <1>7, <1>8, SucceedsLoses
      <4> QED BY <4>1, <4>3, <1>1 DEF Fits
    <3> QED BY <3>1, <3>2, <3>3
  <2>6. ASSUME NEW l \in Lists
        PROVE  (lists'[l] = "held" => l \in m.held) /\ (lists'[l] = "freed" => l \in m.spent)
    <3>1. (lists[l] = "held" => l \in g.held) /\ (lists[l] = "freed" => l \in g.spent)
      BY <1>1 DEF Fits
    <3>2. CASE c.does = "list"
      <4>1. lists' = [lists EXCEPT ![c.what] = "held"] BY <3>2 DEF Succeeds
      <4>2. g.held \cup {c.what} \subseteq m.held /\ g.spent \ {c.what} \subseteq m.spent
        BY <3>2, <1>6 DEF Keeps
      <4>3. lists \in [Lists -> {"null", "held", "freed"}] BY <1>7, TypeParts
      <4> QED BY <4>1, <4>2, <4>3, <3>1
    <3>3. CASE c.does \in {"drop", "clear"}
      <4>1. Releases({c.what}) /\ {c.what} \in SUBSET (Fds \cup Lists) BY <3>3, <1>4 DEF Succeeds, Calls
      <4>2. /\ lists'[l] = "held" => lists[l] = "held" /\ l \notin {c.what}
            /\ lists'[l] = "freed" => lists[l] = "freed" \/ l \in {c.what}
        BY <4>1, <1>7, ReleasesOwn
      <4>3. g.held \ {c.what} \subseteq m.held /\ g.spent \cup ({c.what} \cap Lists) \subseteq m.spent
        BY <3>3, <1>6 DEF Keeps
      <4> QED BY <4>2, <4>3, <3>1
    <3>4. CASE c.does \in {"enter", "leave"}
      <4>1. lists' = [k \in Lists |-> IF lists[k] = "held" THEN "held" ELSE "null"] BY <3>4 DEF Succeeds
      <4>2. g.held \subseteq m.held BY <3>4, <1>6 DEF Keeps
      <4> QED BY <4>1, <4>2, <3>1
    <3>5. CASE c.does \notin {"list", "drop", "clear", "enter", "leave"}
      <4>1. lists' = lists BY <3>5 DEF Succeeds
      <4>2. g.held \subseteq m.held /\ g.spent \subseteq m.spent BY <3>5, <1>6 DEF Keeps
      <4> QED BY <4>1, <4>2, <3>1
    <3> QED BY <3>2, <3>3, <3>4, <3>5
  <2>7. fn' = "none" => m.held = {} BY <2>4, <1>6 DEF Keeps
  <2>8. Fits(m)' BY <2>3, <2>4, <2>5, <2>6, <2>7, <1>11 DEF Fits
  <2>9. KeepsOpen' BY <2>1, <2>8, <1>1, <1>2, <1>5 DEF KeepsOpen, p
  <2> QED BY <2>9, <1>9, <1>10, <1>13 DEF KInv
<1> QED BY <1>14, <1>15

\* Sets of one and two.
LEMMA SmallSets ==
  /\ \A x, y : IsFiniteSet({x, y}) /\ Cardinality({x, y}) <= 2 /\ (x # y => Cardinality({x, y}) = 2)
  /\ \A x : IsFiniteSet({x}) /\ Cardinality({x}) = 1
  /\ \A f : IsFiniteSet(LeftBy(f))
<1>1. \A x : IsFiniteSet({x}) /\ Cardinality({x}) = 1 BY FS_Singleton
<1>2. ASSUME NEW x, NEW y
      PROVE  IsFiniteSet({x, y}) /\ Cardinality({x, y}) <= 2 /\ (x # y => Cardinality({x, y}) = 2)
  <2>1. {x, y} = {x} \cup {y} OBVIOUS
  <2>2. IsFiniteSet({x}) /\ Cardinality({x}) = 1 BY <1>1
  <2>3. /\ IsFiniteSet({x} \cup {y})
        /\ Cardinality({x} \cup {y}) = IF y \in {x} THEN Cardinality({x}) ELSE Cardinality({x}) + 1
    BY <2>2, FS_AddElement
  <2> QED BY <2>1, <2>2, <2>3
<1>3. \A f : IsFiniteSet(LeftBy(f))
  <2>1. IsFiniteSet({}) /\ IsFiniteSet({"socket", "file"}) /\ IsFiniteSet({"socket"}) /\ IsFiniteSet({"ctrl_sck"})
    BY <1>1, <1>2, FS_EmptySet
  <2> QED BY <2>1 DEF LeftBy
<1> QED BY <1>1, <1>2, <1>3

LEMMA OneMore ==
  ASSUME NEW X, NEW x, IsFiniteSet(X)
  PROVE  /\ IsFiniteSet(X \cup {x}) /\ Cardinality(X) \in Nat
         /\ Cardinality(X \cup {x}) \in Nat /\ Cardinality(X \cup {x}) <= Cardinality(X) + 1
BY FS_AddElement, FS_CardinalityType

\* A failure may leave open no more than is known of the function.
LEMMA LossCounts ==
  ASSUME KInv, NEW X, NEW Y, NEW lost \in SUBSET Fds, MayLose(fn, at, lost),
         IsFiniteSet(X), Cardinality(X) <= Cardinality(Leaks), Y \subseteq X \cup {var[v] : v \in lost},
         failures' = failures \cup {fn}
  PROVE  Cardinality(Y) <= Cardinality(Leaks')
<1>1. Leaks' = Leaks \cup LeftBy(fn) BY DEF Leaks
<1>2. /\ IsFiniteSet(Leaks) /\ Cardinality(Leaks) \in Nat /\ (failures = {} => Leaks = {})
      /\ ("ctrl_sck" \in Leaks => "client_end" \in failures)
  BY LeaksAreFinite
<1>3. IsFiniteSet(LeftBy(fn)) BY SmallSets
<1>4. IsFiniteSet(Leaks') /\ Cardinality(Leaks') \in Nat /\ Cardinality(Leaks) <= Cardinality(Leaks')
  <2> DEFINE D == Leaks
             E == LeftBy(fn)
  <2>1. IsFiniteSet(D \cup E) BY <1>2, <1>3, FS_Union
  <2>2. Cardinality(D \cup E) \in Nat /\ Cardinality(D) <= Cardinality(D \cup E)
    <3> HIDE DEF D, E
    <3> QED BY <2>1, FS_CardinalityType, FS_Subset
  <2> QED BY <2>1, <2>2, <1>1
<1>5. CASE lost = {}
  <2>1. Y \subseteq X BY <1>5
  <2> QED BY <2>1, <1>2, <1>4, FewerAreLost, FS_CardinalityType
<1>6. ASSUME failures = {} PROVE X = {}
  <2>1. Cardinality(Leaks) = 0 BY <1>2, <1>6, FS_EmptySet
  <2> QED BY <2>1, FS_EmptySet, FS_CardinalityType
<1>7. CASE fn = "new_stream" /\ at = "streams" /\ \E v, w \in Fds : lost \subseteq {v, w}
  <2>1. X = {} /\ Leaks = {} BY <1>6, <1>7, <1>2 DEF KInv, InPhase
  <2>2. PICK v, w \in Fds : lost \subseteq {v, w} BY <1>7
  <2> DEFINE Z == {var[v], var[w]}
  <2>3. Y \subseteq Z BY <2>1, <2>2
  <2>4. IsFiniteSet(Z) /\ Cardinality(Z) <= 2 BY SmallSets
  <2>5. Leaks' = {"socket", "file"} BY <1>1, <1>7, <2>1 DEF LeftBy
  <2>6. Cardinality({"socket", "file"}) = 2 BY SmallSets
  <2> HIDE DEF Z
  <2>7. Cardinality(Y) <= 2 BY <2>3, <2>4, FewerAreLost
  <2> QED BY <2>5, <2>6, <2>7
<1>8. CASE /\ fn \in {"udp_connect", "udp_accept", "sockopts"} /\ at = "streams"
           /\ \E v \in Fds : lost \subseteq {v}
  <2>1. X = {} /\ Leaks = {} BY <1>6, <1>8, <1>2 DEF KInv, InPhase
  <2>2. PICK v \in Fds : lost \subseteq {v} BY <1>8
  <2>3. Y \subseteq {var[v]} BY <2>1, <2>2
  <2>4. IsFiniteSet({var[v]}) /\ Cardinality({var[v]}) = 1 BY FS_Singleton
  <2>5. Leaks' = {"socket"} BY <1>1, <1>8, <2>1 DEF LeftBy
  <2>6. Cardinality({"socket"}) = 1 BY FS_Singleton
  <2>7. Cardinality(Y) <= 1 BY <2>3, <2>4, FewerAreLost
  <2> QED BY <2>5, <2>6, <2>7
<1>9. CASE fn = "client_end" /\ at \in {"display", "end"} /\ lost \subseteq {Ctrl}
  <2>1. "client_end" \notin failures BY <1>9 DEF KInv, InPhase
  <2>2. "ctrl_sck" \notin Leaks BY <2>1, <1>2
  <2>3. Leaks' = Leaks \cup {"ctrl_sck"} BY <1>1, <1>9 DEF LeftBy
  <2>4. Cardinality(Leaks') = Cardinality(Leaks) + 1 BY <2>2, <2>3, <1>2, FS_AddElement
  <2> DEFINE Z == X \cup {var[Ctrl]}
  <2>5. Y \subseteq Z BY <1>9
  <2>6. /\ IsFiniteSet(Z) /\ Cardinality(Z) \in Nat /\ Cardinality(Z) <= Cardinality(X) + 1
        /\ Cardinality(X) \in Nat
    BY OneMore
  <2> HIDE DEF Z
  <2>7. Cardinality(Z) <= Cardinality(Leaks') BY <2>4, <2>6, <1>2
  <2> QED BY <2>5, <2>6, <2>7, <1>4, FewerAreLost
<1> QED BY <1>5, <1>7, <1>8, <1>9 DEF MayLose

\* A call fails, and with it what the test was doing.
LEMMA FailsKeeps ==
  ASSUME KInv, Fails
  PROVE  KInv'
<1> DEFINE c == Head(code)
           p == Now("kept")
<1>1. PICK g, e : Fits(g) /\ Leads(p, g, code, e) /\ EndsWell(p, e.kept, e.held, e.fn, e.n)
  BY DEF KInv, KeepsOpen
<1>2. /\ code # <<>> /\ opts' = opts /\ streams' = streams /\ failures' = failures \cup {fn}
      /\ code' = <<>> /\ at' = FailedAt(at) /\ fn' = "none" /\ before' = {}
      /\ Releases(c.undo) /\ var' = [var EXCEPT ![c.into] = None]
      /\ c.does \in {"open", "list", "try", "never"}
  BY DEF Fails, AfterFailure, FailedAt
<1>3. p.of = "kept" /\ p.opts = opts /\ p.at = at BY DEF Now
<1> HIDE DEF p
<1>4. c \in Calls BY <1>1, <1>2, LeadsFirst
<1>5. PICK m : Step(p, g, c, m) BY <1>1, <1>2, LeadsFirst
<1>6. Keeps(p, g, c, m) BY <1>3, <1>5 DEF Step
<1>7. g.fn = fn /\ g.n = streams /\ TypeOK BY <1>1 DEF Fits, KInv
<1>8. MayFail(p, g.kept, g.new, g.held, g.spent, fn, streams, c.into, c.undo) BY <1>2, <1>6, <1>7 DEF Keeps
<1>9. /\ c.undo \in SUBSET (Fds \cup Lists) /\ c.into \in Fds /\ var \in [Fds -> Numbers \cup {None}]
  BY <1>4, <1>7 DEF Calls, TypeOK
<1>10. /\ owner' \in [Numbers -> {"free", "test", "other"}]
       /\ Owned' = Owned \ {var[v] : v \in c.undo \cap Fds}
       /\ lists' \in [Lists -> {"null", "held", "freed"}]
       /\ \A l \in Lists : /\ lists'[l] = "held" => lists[l] = "held" /\ l \notin c.undo
                           /\ lists'[l] = "freed" => lists[l] = "freed" \/ l \in c.undo
       /\ \A x \in strays' : \/ x \in strays
                             \/ \E v \in c.undo \cap Fds :
                                  x = <<at, v[1]>> /\ var[v] # None /\ owner[var[v]] # "test"
                             \/ \E l \in c.undo \cap Lists : x = <<at, l[1]>> /\ lists[l] = "freed"
  BY <1>2, <1>7, <1>9, ReleasesOwn
<1>11. TypeOK' BY <1>2, <1>7, <1>9, <1>10 DEF TypeOK
<1>12. /\ Failing(at)
       /\ fn = "client_end" => at \in {"display", "end", "again"}
       /\ g.held \subseteq c.undo /\ c.undo \cap g.spent = {}
  BY <1>3, <1>8 DEF MayFail
<1>13. InPhase'
  <2>1. opts.role = "client" => at' \in {"refused", "failed", "ended"}
    BY <1>2, <1>12 DEF FailedAt, Failing
  <2>2. opts.role = "server" => at' = "failed" BY <1>2, <1>12 DEF FailedAt, KInv, InPhase
  <2>3. at' \in {"refused", "failed", "ended"} BY <1>2 DEF FailedAt
  <2>4. "client_end" \in failures' => at' = "ended"
    <3>1. CASE fn = "client_end"
      <4>1. at \in {"display", "end", "again"} BY <3>1, <1>12
      <4> QED BY <4>1, <1>2 DEF FailedAt
    <3>2. CASE fn # "client_end"
      <4>1. "client_end" \in failures' => "client_end" \in failures BY <3>2, <1>2
      <4>2. "client_end" \in failures => at \in {"ended", "again", "free"} BY DEF KInv, InPhase
      <4>3. Failing(at) BY <1>12
      <4>4. "client_end" \in failures => at = "again" BY <4>2, <4>3 DEF Failing
      <4> QED BY <4>1, <4>4, <1>2 DEF FailedAt
    <3> QED BY <3>1, <3>2
  <2> QED BY <1>2, <2>1, <2>2, <2>3, <2>4 DEF InPhase
<1>14. NoListStrays'
  <2>1. \A l \in c.undo \cap Lists : lists[l] # "freed" BY <1>1, <1>12 DEF Fits
  <2>2. \A v \in Fds, l \in Lists : v[1] # l[1] BY Names, FdNames DEF Fds, Lists
  <2> QED BY <2>1, <2>2, <1>10 DEF NoListStrays, KInv
<1>15. PICK k : k = Post(opts, FailedAt(at), streams) OBVIOUS
<1> DEFINE lost == (g.kept \ (c.undo \cup (k \ {c.into}))) \cap Fds
<1>16. MayLose(fn, at, lost)
  <2> DEFINE lost2 == g.kept \ (c.undo \cup (k \ {c.into}))
  <2>1. MayLose(fn, at, lost2) BY <1>3, <1>8, <1>15 DEF MayFail
  <2>2. lost \subseteq lost2 OBVIOUS
  <2> HIDE DEF lost, lost2
  <2> QED BY <2>1, <2>2 DEF MayLose
<1>17. Lost(k)' \subseteq Lost(g.kept) \cup {var[v] : v \in lost}
  <2>1. SUFFICES ASSUME NEW n \in Lost(k)', n \notin Lost(g.kept) PROVE n \in {var[v] : v \in lost} OBVIOUS
  <2>2. n \in Owned' /\ \A v \in k \cap Fds : n # var'[v] BY <2>1 DEF Lost
  <2>3. n \in Owned /\ \A v \in c.undo \cap Fds : n # var[v] BY <2>2, <1>10
  <2>4. PICK v \in g.kept \cap Fds : n = var[v] BY <2>1, <2>3 DEF Lost
  <2>5. v \notin c.undo BY <2>3, <2>4
  <2>6. v \notin k \ {c.into}
    <3>1. SUFFICES ASSUME v \in k, v # c.into PROVE FALSE OBVIOUS
    <3>2. var'[v] = var[v] BY <3>1, <2>4, <1>2, <1>9
    <3> QED BY <3>1, <3>2, <2>2, <2>4
  <2> QED BY <2>4, <2>5, <2>6
<1>18. Cardinality(Lost(k)') <= Cardinality(Leaks')
  <2>1. IsFiniteSet(Lost(g.kept)) BY <1>7, TypeParts, FS_Subset DEF Lost
  <2>2. Cardinality(Lost(g.kept)) <= Cardinality(Leaks) BY <1>1 DEF Fits
  <2>3. lost \in SUBSET Fds OBVIOUS
  <2> HIDE DEF lost
  <2> QED BY <2>1, <2>2, <2>3, <1>2, <1>16, <1>17, LossCounts
<1>19. PICK h : h = Ghost(k, {}, {}, Lists, "none", streams) OBVIOUS
<1>20. Fits(h)'
  <2>1. \A l \in Lists : lists'[l] # "held" BY <1>1, <1>10, <1>12 DEF Fits
  <2>2. h.kept = k /\ h.held = {} /\ h.spent = Lists /\ h.fn = "none" /\ h.n = streams BY <1>19, GhostParts
  <2>3. "none" \notin Tidy BY DEF Tidy
  <2> QED BY <2>1, <2>2, <2>3, <1>2, <1>18 DEF Fits
<1>21. Leads(Now("kept")', h, <<>>, h) BY LeadsNowhere
<1>22. EndsWell(Now("kept")', h.kept, h.held, h.fn, h.n)
  <2>1. Now("kept")'.opts = opts /\ Now("kept")'.at = FailedAt(at) BY <1>2 DEF Now
  <2> QED BY <2>1, <1>15, <1>19, GhostParts DEF EndsWell
<1>23. KeepsOpen' BY <1>2, <1>20, <1>21, <1>22 DEF KeepsOpen
<1> QED BY <1>11, <1>13, <1>14, <1>23 DEF KInv

\* A client or a server does something next.
LEMMA BeginsKeeps ==
  ASSUME KInv, code = <<>>, UNCHANGED <<opts, owner, var, lists, streams, fn, before, failures, strays>>, InPhase',
         \E a, k, calls : /\ at' = a /\ code' = calls
                          /\ Post(opts, at, streams) \subseteq k /\ Keeping(a, k, calls)
  PROVE  KInv'
<1>1. PICK a, k, calls : /\ at' = a /\ code' = calls
                         /\ Post(opts, at, streams) \subseteq k /\ Keeping(a, k, calls)
  OBVIOUS
<1>2. PICK g, e : Fits(g) /\ Leads(Now("kept"), g, code, e) /\ EndsWell(Now("kept"), e.kept, e.held, e.fn, e.n)
  BY DEF KInv, KeepsOpen
<1>3. g = e BY <1>2, LeadsNo
<1>4. /\ g.kept \subseteq Post(opts, at, streams) /\ g.held = {} /\ g.fn = "none" /\ fn = "none"
      /\ g.n = streams
  BY <1>2, <1>3 DEF EndsWell, Fits, Now
<1>5. PICK k2, w2, s2, n2 :
        /\ Leads([of |-> "kept", opts |-> opts, at |-> a], Ghost(k, {}, {}, Lists, "none", streams), calls,
                 Ghost(k2, w2, {}, s2, "none", n2))
        /\ k2 \subseteq Post(opts, a, n2)
  BY <1>1 DEF Keeping
<1>6. PICK h, i : h = Ghost(k, {}, {}, Lists, "none", streams) /\ i = Ghost(k2, w2, {}, s2, "none", n2)
  OBVIOUS
<1>7. TypeOK /\ TypeOK' BY DEF KInv, TypeOK
<1>8. Fits(h)'
  <2>1. \A l \in Lists : lists[l] # "held" BY <1>2, <1>4 DEF Fits
  <2>2. h.kept = k /\ h.held = {} /\ h.spent = Lists /\ h.fn = "none" /\ h.n = streams BY <1>6, GhostParts
  <2>3. Lost(k)' \subseteq Lost(g.kept) BY <1>1, <1>4 DEF Lost, Owned
  <2>4. Leaks' = Leaks BY DEF Leaks
  <2>5. IsFiniteSet(Lost(g.kept)) BY <1>7, TypeParts, FS_Subset DEF Lost
  <2>6. Cardinality(Leaks) \in Nat /\ Cardinality(Lost(g.kept)) <= Cardinality(Leaks)
    BY <1>2, LeaksAreFinite DEF Fits
  <2>7. Cardinality(Lost(k)') <= Cardinality(Leaks) BY <2>3, <2>5, <2>6, FewerAreLost
  <2>8. "none" \notin Tidy BY DEF Tidy
  <2> QED BY <2>1, <2>2, <2>4, <2>7, <2>8, <1>4 DEF Fits
<1>9. Leads(Now("kept")', h, code', i)
  <2>1. Now("kept")' = [of |-> "kept", opts |-> opts, at |-> a] BY <1>1 DEF Now
  <2> QED BY <2>1, <1>1, <1>5, <1>6
<1>10. EndsWell(Now("kept")', i.kept, i.held, i.fn, i.n)
  <2>1. Now("kept")'.opts = opts /\ Now("kept")'.at = a BY <1>1 DEF Now
  <2> QED BY <2>1, <1>5, <1>6, GhostParts DEF EndsWell
<1>11. KeepsOpen' BY <1>8, <1>9, <1>10 DEF KeepsOpen
<1> QED BY <1>7, <1>11 DEF KInv, NoListStrays

LEMMA GoesOnKeeps ==
  ASSUME KInv, GoesOn
  PROVE  KInv'
<1> DEFINE c == Head(code)
           p == Now("kept")
<1>1. PICK g, e : Fits(g) /\ Leads(p, g, code, e) /\ EndsWell(p, e.kept, e.held, e.fn, e.n)
  BY DEF KInv, KeepsOpen
<1>2. /\ code # <<>> /\ c.does = "pipe" /\ code' = Tail(code) /\ Now("kept")' = Now("kept")
      /\ UNCHANGED <<opts, owner, var, lists, streams, at, fn, before, failures, strays>>
  BY DEF GoesOn, Now
<1>3. p.of = "kept" BY DEF Now
<1> HIDE DEF p
<1>4. PICK m : Step(p, g, c, m) /\ Leads(p, m, Tail(code), e) BY <1>1, <1>2, LeadsFirst
<1>5. Keeps(p, g, c, m) BY <1>3, <1>4 DEF Step
<1>6. TypeOK /\ TypeOK' BY <1>2 DEF KInv, TypeOK
<1>7. g.kept \subseteq m.kept BY <1>2, <1>5 DEF Keeps, Moves
<1>8. m.fn = fn /\ m.n = streams BY <1>1, <1>2, <1>5 DEF Keeps, Fits
<1>9. fn \in Tidy => g.new \subseteq m.new
  <2>1. fn \in Tidy => Moves(c, g.n, g.new, m.new) BY <1>1, <1>5, <1>8 DEF Keeps, Fits
  <2> QED BY <2>1, <1>2 DEF Moves
<1>10. g.held \subseteq m.held /\ g.spent \subseteq m.spent /\ (fn = "none" => m.held = {})
  BY <1>2, <1>5, <1>8 DEF Keeps
<1>11. Fits(m)'
  <2>1. Lost(m.kept)' \subseteq Lost(g.kept) BY <1>2, <1>7 DEF Lost, Owned
  <2>2. fn \in Tidy => Lost(m.new)' \subseteq Lost(g.new) BY <1>2, <1>9 DEF Lost, Owned
  <2>3. Leaks' = Leaks BY <1>2 DEF Leaks
  <2>4. IsFiniteSet(Lost(g.kept)) BY <1>6, TypeParts, FS_Subset DEF Lost
  <2>5. Cardinality(Leaks) \in Nat /\ Cardinality(Lost(g.kept)) <= Cardinality(Leaks)
    BY <1>1, LeaksAreFinite DEF Fits
  <2>6. Cardinality(Lost(m.kept)') <= Cardinality(Leaks) BY <2>1, <2>4, <2>5, FewerAreLost
  <2> QED BY <2>2, <2>3, <2>6, <1>1, <1>2, <1>8, <1>10 DEF Fits
<1>12. KeepsOpen' BY <1>1, <1>2, <1>4, <1>11 DEF KeepsOpen, p
<1>13. InPhase' /\ NoListStrays' BY <1>2 DEF KInv, InPhase, NoListStrays
<1> QED BY <1>6, <1>12, <1>13 DEF KInv

\* The rest of the process takes and gives back numbers that are not the test's.
LEMMA OthersKeep ==
  ASSUME KInv, OthersOpen \/ OthersClose
  PROVE  KInv'
<1>1. UNCHANGED <<opts, var, lists, streams, at, code, fn, before, failures, strays>>
  BY DEF OthersOpen, OthersClose
<1>2. owner' \in [Numbers -> {"free", "test", "other"}] /\ Owned' = Owned
  <2>1. owner \in [Numbers -> {"free", "test", "other"}] BY TypeParts DEF KInv
  <2>2. CASE OthersOpen
    <3>1. PICK m : m = Lowest OBVIOUS
    <3>2. m \in Numbers /\ owner[m] = "free" /\ owner' = [owner EXCEPT ![m] = "other"]
      BY <2>2, <3>1, LowestIsFree DEF OthersOpen, Free
    <3> QED BY <3>2, <2>1 DEF Owned
  <2>3. CASE OthersClose
    <3>1. PICK m \in Numbers : owner[m] = "other" /\ owner' = [owner EXCEPT ![m] = "free"]
      BY <2>3 DEF OthersClose
    <3> QED BY <3>1, <2>1 DEF Owned
  <2> QED BY <2>2, <2>3
<1>3. TypeOK' BY <1>1, <1>2 DEF KInv, TypeOK
<1>4. InPhase' /\ NoListStrays' BY <1>1 DEF KInv, InPhase, NoListStrays
<1>5. PICK g, e : Fits(g) /\ Leads(Now("kept"), g, code, e) /\ EndsWell(Now("kept"), e.kept, e.held, e.fn, e.n)
  BY DEF KInv, KeepsOpen
<1>6. Fits(g)'
  <2>1. \A k : Lost(k)' = Lost(k) BY <1>1, <1>2 DEF Lost
  <2>2. Leaks' = Leaks BY <1>1 DEF Leaks
  <2> QED BY <2>1, <2>2, <1>1, <1>5 DEF Fits
<1>7. Now("kept")' = Now("kept") BY <1>1 DEF Now
<1>8. KeepsOpen' BY <1>1, <1>5, <1>6, <1>7 DEF KeepsOpen
<1> QED BY <1>3, <1>4, <1>8 DEF KInv

LEMMA NothingKeeps ==
  ASSUME NEW a
  PROVE  Keeping(a, Post(opts, a, streams), <<>>)
BY LeadsNowhere DEF Keeping

\* A client goes from one thing to the next.
LEMMA ClientKeeps ==
  ASSUME KInv, ClientStep
  PROVE  KInv'
<1> DEFINE n == streams
           Next2(a, k, calls) == /\ at' = a /\ code' = calls
                                 /\ Post(opts, at, n) \subseteq k /\ Keeping(a, k, calls)
<1>1. /\ opts.role = "client" /\ opts \in Tests /\ code = <<>> /\ n \in 0..NumStreams
      /\ UNCHANGED <<opts, owner, var, lists, streams, fn, before, failures, strays>>
  BY TypeParts DEF ClientStep, Idle, Becomes, KInv
<1>2. /\ failures # {} => at \in {"refused", "failed", "end", "ended", "again", "cleanup", "free"}
      /\ "client_end" \in failures => at \in {"ended", "again", "free"}
  BY DEF KInv, InPhase
<1>3. /\ \A a \in {"connect", "streams", "refused", "failed"} : Post(opts, a, n) = {Ctrl} \cup Str(n)
      /\ \A a \in {"display", "end", "ended", "again"} : Post(opts, a, n) = Files(n)
      /\ Post(opts, "start", n) = {} /\ Files(n) \subseteq Str(n) /\ Ctrl \notin Files(n)
  BY <1>1, StrIs DEF Post
<1>4. CASE at = "start" /\ at' = "connect" /\ code' = Connect
  <2>1. InPhase' BY <1>1, <1>2, <1>4 DEF InPhase
  <2>2. Next2("connect", {}, Connect) BY <1>1, <1>3, <1>4, ConnectKeeps
  <2> QED BY <2>1, <2>2, <1>1, BeginsKeeps
<1>5. CASE at \in {"connect", "streams"} /\ ~AllThere /\ at' = "streams" /\ code' = ConnectStream(n + 1)
  <2>1. InPhase' BY <1>1, <1>2, <1>5 DEF InPhase
  <2>2. n < NumStreams BY <1>1, <1>5, BoundsAssumption DEF AllThere
  <2>3. Next2("streams", Post(opts, "streams", n), ConnectStream(n + 1))
    BY <2>2, <1>1, <1>3, <1>5, ConnectStreamKeeps
  <2> QED BY <2>1, <2>3, <1>1, BeginsKeeps
<1>6. CASE at = "streams" /\ at' = "display" /\ code' = ClientEnd(TRUE)
  <2>1. InPhase' BY <1>1, <1>2, <1>6 DEF InPhase
  <2>2. Next2("display", {Ctrl} \cup Str(n), ClientEnd(TRUE)) BY <1>1, <1>3, <1>6, ClientEndKeeps
  <2> QED BY <2>1, <2>2, <1>1, BeginsKeeps
<1>7. CASE at = "streams" /\ at' = "failed" /\ code' = <<>>
  <2>1. InPhase' BY <1>1, <1>2, <1>7 DEF InPhase
  <2>2. Next2("failed", Post(opts, "failed", n), <<>>) BY <1>1, <1>3, <1>7, NothingKeeps
  <2> QED BY <2>1, <2>2, <1>1, BeginsKeeps
<1>8. CASE at = "refused" /\ at' = "end" /\ code' = ClientEnd(FALSE)
  <2>1. InPhase' BY <1>1, <1>2, <1>8 DEF InPhase
  <2>2. Next2("end", {Ctrl} \cup Str(n), ClientEnd(FALSE)) BY <1>1, <1>3, <1>8, ClientEndKeeps
  <2> QED BY <2>1, <2>2, <1>1, BeginsKeeps
<1>9. CASE at = "failed" /\ at' = "end" /\ code' = ClientEnd(TRUE)
  <2>1. InPhase' BY <1>1, <1>2, <1>9 DEF InPhase
  <2>2. Next2("end", {Ctrl} \cup Str(n), ClientEnd(TRUE)) BY <1>1, <1>3, <1>9, ClientEndKeeps
  <2> QED BY <2>1, <2>2, <1>1, BeginsKeeps
<1>10. CASE at \in {"display", "end", "ended"} /\ at' = "again" /\ code' = ClientEnd(TRUE)
  <2>1. InPhase' BY <1>1, <1>2, <1>10 DEF InPhase
  <2>2. Next2("again", Files(n), ClientEnd(TRUE)) BY <1>1, <1>3, <1>10, ClientEndKeeps
  <2> QED BY <2>1, <2>2, <1>1, BeginsKeeps
<1>11. CASE at \in {"display", "end", "ended", "again"} /\ at' = "free" /\ code' = FreeTest
  <2>1. InPhase' BY <1>1, <1>2, <1>11 DEF InPhase
  <2>2. Next2("free", Files(n), FreeTest) BY <1>1, <1>3, <1>11, FreeTestKeeps
  <2> QED BY <2>1, <2>2, <1>1, BeginsKeeps
<1> QED BY <1>4, <1>5, <1>6, <1>7, <1>8, <1>9, <1>10, <1>11 DEF ClientStep, Idle, Becomes

\* A server goes from one thing to the next.
LEMMA ServerKeeps ==
  ASSUME KInv, ServerStep
  PROVE  KInv'
<1> DEFINE n == streams
           Next2(a, k, calls) == /\ at' = a /\ code' = calls
                                 /\ Post(opts, at, n) \subseteq k /\ Keeping(a, k, calls)
<1>1. /\ opts.role = "server" /\ opts \in Tests /\ code = <<>> /\ n \in 0..NumStreams
      /\ UNCHANGED <<opts, owner, var, lists, streams, fn, before, failures, strays>>
  BY TypeParts DEF ServerStep, Idle, Becomes, KInv
<1>2. /\ failures # {} => at \in {"refused", "failed", "end", "ended", "again", "cleanup", "free"}
      /\ "client_end" \in failures => at \in {"ended", "again", "free"}
  BY DEF KInv, InPhase
<1>3. /\ \A a \in {"accept", "streams", "reopen", "busy", "test_end", "expire"} :
           Post(opts, a, n) = Post(opts, "failed", n)
      /\ Post(opts, "failed", n) \subseteq {Ctrl, Listener, Pipe, Prot} \cup Str(n)
      /\ Post(opts, "start", n) = {} /\ Post(opts, "listen", n) = {Listener, Pipe}
      /\ Post(opts, "cleanup", n) = {Pipe} \cup Files(n)
  BY <1>1, ServerPosts DEF Post
<1>4. CASE at = "start" /\ at' = "listen" /\ code' = Listen
  <2>1. InPhase' BY <1>1, <1>2, <1>4 DEF InPhase
  <2>2. Next2("listen", {}, Listen) BY <1>1, <1>3, <1>4, ListenKeeps
  <2> QED BY <2>1, <2>2, <1>1, BeginsKeeps
<1>5. CASE at = "listen" /\ at' = "accept" /\ code' = Accept
  <2>1. InPhase' BY <1>1, <1>2, <1>5 DEF InPhase
  <2>2. Next2("accept", {Listener, Pipe}, Accept) BY <1>1, <1>3, <1>5, AcceptKeeps
  <2> QED BY <2>1, <2>2, <1>1, BeginsKeeps
<1>6. CASE /\ at \in {"accept", "streams"} /\ ~AllThere /\ at' = "streams"
           /\ \E refused \in BOOLEAN : code' = AcceptStream(n + 1, refused)
  <2>1. InPhase' BY <1>1, <1>2, <1>6 DEF InPhase
  <2>2. n < NumStreams BY <1>1, <1>6, BoundsAssumption DEF AllThere
  <2>3. PICK refused \in BOOLEAN : code' = AcceptStream(n + 1, refused) BY <1>6
  <2>4. Next2("streams", Post(opts, "streams", n), AcceptStream(n + 1, refused))
    BY <2>2, <2>3, <1>1, <1>3, <1>6, AcceptStreamKeeps
  <2> QED BY <2>1, <2>4, <1>1, BeginsKeeps
<1>7. CASE at = "streams" /\ at' = "reopen" /\ code' = Reopen
  <2>1. InPhase' BY <1>1, <1>2, <1>7 DEF InPhase
  <2>2. Next2("reopen", Post(opts, "reopen", n), Reopen) BY <1>1, <1>3, <1>7, ReopenKeeps
  <2> QED BY <2>1, <2>2, <1>1, BeginsKeeps
<1>8. CASE at \in {"reopen", "busy"} /\ at' = "busy" /\ code' = AcceptOther
  <2>1. InPhase' BY <1>1, <1>2, <1>8 DEF InPhase
  <2>2. Next2("busy", Post(opts, "busy", n), AcceptOther) BY <1>1, <1>3, <1>8, AcceptOtherKeeps
  <2> QED BY <2>1, <2>2, <1>1, BeginsKeeps
<1>9. CASE at \in {"reopen", "busy"} /\ at' = "test_end" /\ code' = EndTest
  <2>1. InPhase' BY <1>1, <1>2, <1>9 DEF InPhase
  <2>2. Next2("test_end", Post(opts, "test_end", n), EndTest) BY <1>1, <1>3, <1>9, EndTestKeeps
  <2> QED BY <2>1, <2>2, <1>1, BeginsKeeps
<1>10. CASE at \in {"reopen", "busy"} /\ at' = "expire" /\ code' = Expire
  <2>1. InPhase' BY <1>1, <1>2, <1>10 DEF InPhase
  <2>2. Next2("expire", Post(opts, "expire", n), Expire) BY <1>1, <1>3, <1>10, ExpireKeeps
  <2> QED BY <2>1, <2>2, <1>1, BeginsKeeps
<1>11. CASE /\ at \in {"listen", "accept", "streams", "reopen", "busy", "test_end", "expire", "failed"}
            /\ at' = "cleanup" /\ code' = CleanUp
  <2>1. InPhase' BY <1>1, <1>2, <1>11 DEF InPhase
  <2>2. Post(opts, at, n) \subseteq {Ctrl, Listener, Pipe, Prot} \cup Str(n) BY <1>3, <1>11
  <2>3. Next2("cleanup", {Ctrl, Listener, Pipe, Prot} \cup Str(n), CleanUp)
    BY <2>2, <1>1, <1>11, CleanUpKeeps
  <2> QED BY <2>1, <2>3, <1>1, BeginsKeeps
<1>12. CASE at = "cleanup" /\ at' = "free" /\ code' = FreeTest
  <2>1. InPhase' BY <1>1, <1>2, <1>12 DEF InPhase
  <2>2. Next2("free", {Pipe} \cup Files(n), FreeTest) BY <1>1, <1>3, <1>12, FreeTestKeeps
  <2> QED BY <2>1, <2>2, <1>1, BeginsKeeps
<1> QED BY <1>4, <1>5, <1>6, <1>7, <1>8, <1>9, <1>10, <1>11, <1>12 DEF ServerStep, Idle, Becomes

-----------------------------------------------------------------------------
\* In every state the calls that are left have an outline that fits the state.
THEOREM KeepsIsInvariant == Spec => []KInv
<1>1. Init => KInv BY InitKeeps
<1>2. KInv /\ [Next]_vars => KInv'
  <2> SUFFICES ASSUME KInv, [Next]_vars PROVE KInv' OBVIOUS
  <2>1. CASE Succeeds BY <2>1, SucceedsKeeps
  <2>2. CASE Fails BY <2>2, FailsKeeps
  <2>3. CASE GoesOn BY <2>3, GoesOnKeeps
  <2>4. CASE ClientStep BY <2>4, ClientKeeps
  <2>5. CASE ServerStep BY <2>5, ServerKeeps
  <2>6. CASE OthersOpen \/ OthersClose BY <2>6, OthersKeep
  <2>7. CASE UNCHANGED vars
    <3>1. UNCHANGED <<opts, owner, var, lists, streams, at, code, fn, before, failures, strays>>
      BY <2>7 DEF vars
    <3>2. TypeOK' /\ InPhase' /\ NoListStrays' BY <3>1 DEF KInv, TypeOK, InPhase, NoListStrays
    <3>3. \A g : Fits(g)' = Fits(g) BY <3>1 DEF Fits, Lost, Owned, Leaks
    <3>4. Now("kept")' = Now("kept") /\ code' = code BY <3>1 DEF Now
    <3>5. KeepsOpen' BY <3>3, <3>4 DEF KInv, KeepsOpen
    <3> QED BY <3>2, <3>5 DEF KInv
  <2> QED BY <2>1, <2>2, <2>3, <2>4, <2>5, <2>6, <2>7 DEF Next
<1> QED BY <1>1, <1>2, PTL DEF Spec

\* When a test has been freed no more of its descriptors are open than the failures of
\* iperf_new_stream, iperf_udp_connect, iperf_udp_accept, iperf_common_sockopts and of the
\* client's last message leave, and no address list outlives its function or is freed twice.
THEOREM LeaksAreKnownTheorem == Spec => []LeaksAreKnown
<1>1. KInv => LeaksAreKnown
  <2> SUFFICES ASSUME KInv PROVE LeaksAreKnown OBVIOUS
  <2>1. PICK g, e : Fits(g) /\ Leads(Now("kept"), g, code, e) /\ EndsWell(Now("kept"), e.kept, e.held, e.fn, e.n)
    BY DEF KInv, KeepsOpen
  <2>2. ASSUME Idle({"free"})
        PROVE  Cardinality(Owned) <= Cardinality(UNION {LeftBy(f) : f \in failures})
    <3>1. g = e /\ at = "free" BY <2>1, <2>2, LeadsNo DEF Idle
    <3>2. g.kept = {} BY <2>1, <3>1 DEF EndsWell, Now, Post
    <3>3. Lost(g.kept) = Owned BY <3>2 DEF Lost
    <3> QED BY <2>1, <3>3 DEF Fits, Leaks
  <2>3. fn = "none" => \A l \in Lists : lists[l] # "held" BY <2>1 DEF Fits
  <2> QED BY <2>2, <2>3 DEF LeaksAreKnown, KInv, NoListStrays
<1> QED BY <1>1, KeepsIsInvariant, PTL

\* Whichever of its calls fails, a function of net.c or iperf_tcp.c leaves no descriptor open
\* that was not open before it was called.
THEOREM FailureReleasesTheorem == Spec => FailureReleases
<1>1. ASSUME KInv, [Next]_vars, failures' # failures, fn \in Tidy
      PROVE  Owned' \subseteq before
  <2>1. Fails
    <3>1. Succeeds => failures' = failures BY DEF Succeeds
    <3>2. GoesOn => failures' = failures BY DEF GoesOn
    <3>3. ClientStep => failures' = failures BY DEF ClientStep, Becomes
    <3>4. ServerStep => failures' = failures BY DEF ServerStep, Becomes
    <3>5. OthersOpen \/ OthersClose => failures' = failures BY DEF OthersOpen, OthersClose
    <3>6. vars' = vars => failures' = failures BY DEF vars
    <3> QED BY <3>1, <3>2, <3>3, <3>4, <3>5, <3>6, <1>1 DEF Next
  <2> DEFINE c == Head(code)
             p == Now("kept")
  <2>2. PICK g, e : Fits(g) /\ Leads(p, g, code, e) BY <1>1 DEF KInv, KeepsOpen
  <2>3. code # <<>> /\ Releases(c.undo) /\ c.does \in {"open", "list", "try", "never"} BY <2>1 DEF Fails
  <2>4. p.of = "kept" BY DEF Now
  <2> HIDE DEF p
  <2>5. c \in Calls /\ \E m : Step(p, g, c, m) BY <2>2, <2>3, LeadsFirst
  <2>6. PICK m : Keeps(p, g, c, m) BY <2>4, <2>5 DEF Step
  <2>7. g.new \subseteq c.undo /\ Lost(g.new) \subseteq before
    BY <2>2, <2>3, <2>6, <1>1 DEF Keeps, MayFail, Fits
  <2>8. c.undo \in SUBSET (Fds \cup Lists) BY <2>5 DEF Calls
  <2>9. Owned' = Owned \ {var[v] : v \in c.undo \cap Fds} BY <2>3, <2>8, <1>1, ReleasesOwn DEF KInv
  <2> QED BY <2>7, <2>9 DEF Lost
<1> QED BY <1>1, KeepsIsInvariant, PTL DEF Spec, FailureReleases
-----------------------------------------------------------------------------
(* What is closed: the numbers in the variables.                           *)

\* What is known of the numbers is true of the machine.
Marked(g) ==
  /\ g.n = streams /\ g.twins \subseteq Three
  /\ \A v \in g.good \cap Fds : var[v] = None \/ var[v] \in Owned
  /\ \A v, w \in g.good \cap Fds : v # w /\ var[v] # None /\ var[v] = var[w] => v \in g.twins /\ w \in g.twins
  /\ \A v \in g.safe \cap Fds : \A w \in (g.good \cap Core) \ {v} : var[v] # None => var[v] # var[w]
  /\ \A v \in g.gone \cap Fds : var[v] \notin Owned

LEMMA CoreFds ==
  /\ Core \subseteq Fds /\ Three \subseteq Fds /\ Core \cap Three = {} /\ S \in Three
  /\ \A k : Socket(k) \notin Core /\ Socket(k) \notin Three
<1>1. \A v \in Core : v[1] \in {"ctrl_sck", "interrupt_fds", "buffer_fd", "diskfile_fd"}
  BY Names DEF Core, Files, OfStreams
<1>2. \A v \in Three : v[1] \in {"s", "listener", "prot_listener"} BY Names DEF Three
<1>3. Core \subseteq Fds BY FdNames DEF Core, Files, OfStreams
<1>4. Three \subseteq Fds /\ S \in Three BY FdNames DEF Three
<1>5. Core \cap Three = {} BY <1>1, <1>2
<1>6. \A k : Socket(k) \notin Core /\ Socket(k) \notin Three BY <1>1, <1>2, Names
<1> QED BY <1>3, <1>4, <1>5, <1>6

\* Only twins are not known to differ.
LEMMA ApartFrom ==
  ASSUME NEW a, NEW b, Apart(a, b), NEW v \in a, NEW w \in a, v # w
  PROVE  v \in b /\ w \in b
BY DEF Apart

\* No good variable of the core has the number of a variable that is good or safe.
LEMMA CoreDiffers ==
  ASSUME NEW g, Marked(g), NEW v \in (g.safe \cup g.good) \cap Fds, NEW w \in (g.good \cap Core) \ {v}, var[v] # None
  PROVE  var[v] # var[w]
<1>1. CASE v \in g.safe BY <1>1 DEF Marked
<1>2. CASE v \in g.good
  <2>1. w \in Fds /\ w \notin Three BY CoreFds
  <2>2. w \notin g.twins BY <2>1 DEF Marked
  <2> QED BY <1>2, <2>1, <2>2 DEF Marked
<1> QED BY <1>1, <1>2

\* Less is known.
LEMMA WeakerMarks ==
  ASSUME NEW g, NEW h, Marked(g), Relaxes(g, h), h.twins \subseteq Three, h.n = g.n
  PROVE  Marked(h)
<1>1. /\ h.good \subseteq g.good /\ Apart(h.good \cap g.twins, h.twins)
      /\ h.safe \subseteq g.safe \cup g.good /\ h.gone \subseteq g.gone
  BY DEF Relaxes
<1>2. \A v \in h.good \cap Fds : var[v] = None \/ var[v] \in Owned BY <1>1 DEF Marked
<1>3. ASSUME NEW v \in h.good \cap Fds, NEW w \in h.good \cap Fds, v # w, var[v] # None, var[v] = var[w]
      PROVE  v \in h.twins /\ w \in h.twins
  <2>1. v \in g.twins /\ w \in g.twins BY <1>1, <1>3 DEF Marked
  <2> QED BY <1>1, <1>3, <2>1, ApartFrom
<1>4. ASSUME NEW v \in h.safe \cap Fds, NEW w \in (h.good \cap Core) \ {v}, var[v] # None
      PROVE  var[v] # var[w]
  <2>1. v \in (g.safe \cup g.good) \cap Fds /\ w \in (g.good \cap Core) \ {v} BY <1>1
  <2> QED BY <1>4, <2>1, CoreDiffers
<1>5. \A v \in h.gone \cap Fds : var[v] \notin Owned BY <1>1 DEF Marked
<1>6. h.n = streams BY DEF Marked
<1> QED BY <1>2, <1>3, <1>4, <1>5, <1>6 DEF Marked

\* Nothing changes that is known.
LEMMA RelaxesMarks ==
  ASSUME NEW g, NEW h, Marked(g), Relaxes(g, h), h.twins \subseteq Three, h.n = streams',
         var' = var, Owned' = Owned
  PROVE  Marked(h)'
<1> DEFINE i == Marks(h.good, h.twins, h.safe, h.gone, streams)
<1>1. i.good = h.good /\ i.twins = h.twins /\ i.safe = h.safe /\ i.gone = h.gone /\ i.n = streams BY DEF Marks
<1> HIDE DEF i
<1>2. Relaxes(g, i) /\ i.n = g.n BY <1>1 DEF Relaxes, Marked
<1>3. Marked(i) BY <1>1, <1>2, WeakerMarks
<1> QED BY <1>1, <1>3 DEF Marked

\* A descriptor is opened.
LEMMA OpenMarks ==
  ASSUME TypeOK, NEW g, NEW h, Marked(g), NEW c, NEW p, Owns(p, g, c, h), c.does \in {"open", "pipe"}, c.into \in Fds,
         streams' = streams, Free # {}, Takes(c.into, Lowest)
  PROVE  Marked(h)'
<1> DEFINE i == c.into
<1>1. /\ h.good \subseteq g.good \cup {i} /\ Apart(h.good \cap (g.twins \ {i}), h.twins)
      /\ h.safe \subseteq g.good \cup {i} \cup (IF i \in Core THEN {} ELSE g.safe)
      /\ h.gone = {} /\ h.twins \subseteq Three /\ h.n = streams'
  BY DEF Owns, Marked
<1>2. i \in Fds OBVIOUS
<1>3. PICK m : m = Lowest OBVIOUS
<1>4. m \in Free /\ m \in Numbers BY <1>3, LowestIsFree
<1>5. m \notin Owned /\ m # None BY <1>4, TypeParts DEF Free, Owned
<1>6. Owned' = Owned \cup {m} /\ var'[i] = m /\ \A w \in Fds \ {i} : var'[w] = var[w]
  BY <1>3, <1>2, TakesOwns
<1> HIDE DEF i
<1>7. \A v \in h.good \cap Fds : v # i => v \in g.good /\ var'[v] = var[v] /\ var[v] # m
  BY <1>1, <1>5, <1>6 DEF Marked
<1>8. \A v \in h.good \cap Fds : var'[v] = None \/ var'[v] \in Owned' BY <1>6, <1>7 DEF Marked
<1>9. ASSUME NEW v \in h.good \cap Fds, NEW w \in h.good \cap Fds, v # w, var'[v] # None, var'[v] = var'[w]
      PROVE  v \in h.twins /\ w \in h.twins
  <2>1. v # i /\ w # i BY <1>6, <1>7, <1>9
  <2>2. v \in g.twins /\ w \in g.twins BY <1>7, <1>9, <2>1 DEF Marked
  <2>3. v \in h.good \cap (g.twins \ {i}) /\ w \in h.good \cap (g.twins \ {i}) BY <2>1, <2>2, <1>9
  <2> QED BY <1>1, <1>9, <2>3, ApartFrom
<1>10. ASSUME NEW v \in h.safe \cap Fds, NEW w \in (h.good \cap Core) \ {v}, var'[v] # None
       PROVE  var'[v] # var'[w]
  <2>1. w \in Fds BY CoreFds
  <2>2. CASE w = i
    <3>1. v \in g.good /\ v # i BY <1>1, <2>2
    <3>2. var'[v] = var[v] /\ (var[v] = None \/ var[v] \in Owned) BY <3>1, <1>6 DEF Marked
    <3> QED BY <3>2, <2>2, <1>5, <1>6, <1>10
  <2>3. CASE w # i
    <3>1. w \in g.good /\ var'[w] = var[w] /\ var[w] # m BY <2>1, <2>3, <1>7
    <3>2. CASE v = i BY <3>1, <3>2, <1>6
    <3>3. CASE v # i
      <4>1. v \in g.safe \cup g.good /\ var'[v] = var[v] BY <3>3, <1>1, <1>6
      <4>2. v \in (g.safe \cup g.good) \cap Fds /\ w \in (g.good \cap Core) \ {v} BY <3>1, <4>1
      <4> QED BY <4>1, <4>2, <3>1, <1>10, CoreDiffers
    <3> QED BY <3>2, <3>3
  <2> QED BY <2>2, <2>3
<1> QED BY <1>1, <1>8, <1>9, <1>10 DEF Marked

\* A descriptor is closed.
LEMMA CloseMarks ==
  ASSUME TypeOK, NEW g, NEW h, Marked(g), NEW p, NEW c, Closes(p, g, c, h), h.twins \subseteq Three,
         c.what \in Fds, c.does \in {"drop", "clear"}, c.does = "clear" => c.into = c.what,
         h.n = streams', streams' = streams, Releases({c.what}),
         var' = IF c.does = "clear" THEN [var EXCEPT ![c.into] = None] ELSE var
  PROVE  Marked(h)'
<1> DEFINE i == c.what
           kept == IF i \in g.good
                     THEN g.good \ ({i} \cup (IF i \in g.twins THEN g.twins ELSE {}))
                     ELSE (g.good \cap Core) \ {i}
           new == IF c.does = "clear" THEN {i} ELSE {}
<1>1. /\ i \in g.good \cup g.safe /\ h.good \subseteq kept \cup new
      /\ Apart(h.good \cap g.twins, h.twins)
      /\ h.safe \subseteq g.safe \cup g.good /\ h.gone \subseteq g.gone \cup {i}
  BY DEF Closes
<1>2. Owned' = Owned \ {var[i]}
  <2>1. {i} \in SUBSET (Fds \cup Lists) /\ {i} \cap Fds = {i} OBVIOUS
  <2>2. Owned' = Owned \ {var[v] : v \in {i} \cap Fds} BY <2>1, ReleasesOwn
  <2> QED BY <2>1, <2>2
<1>3. /\ \A w \in Fds : w \notin new => var'[w] = var[w]
      /\ \A w \in new : var'[w] = None
  BY TypeParts
<1>4. i \in Fds /\ kept \subseteq g.good /\ (kept \subseteq Core \/ i \in g.good) OBVIOUS
<1>5. ASSUME NEW v \in kept \cap Fds, var[v] # None PROVE v # i /\ var[v] # var[i]
  <2>1. v # i OBVIOUS
  <2>2. CASE i \in g.good
    <3>1. v \in g.good /\ ~(i \in g.twins /\ v \in g.twins) BY <2>2
    <3> QED BY <3>1, <2>1, <2>2, <1>4, <1>5 DEF Marked
  <2>3. CASE i \notin g.good
    <3>1. i \in g.safe /\ v \in (g.good \cap Core) \ {i} BY <1>1, <2>1, <2>3
    <3> QED BY <3>1, <2>1, <1>4, <1>5 DEF Marked
  <2> QED BY <2>1, <2>2, <2>3
<1> HIDE DEF i, kept, new
<1>6. ASSUME NEW v \in h.good \cap Fds PROVE var'[v] = None \/ var'[v] \in Owned'
  <2>1. CASE v \in new BY <2>1, <1>3
  <2>2. CASE v \notin new
    <3>1. v \in kept /\ v \in g.good /\ var'[v] = var[v] BY <1>1, <1>3, <1>4, <2>2
    <3> QED BY <3>1, <1>2, <1>5 DEF Marked
  <2> QED BY <2>1, <2>2
<1>7. ASSUME NEW v \in h.good \cap Fds, NEW w \in h.good \cap Fds, v # w, var'[v] # None, var'[v] = var'[w]
      PROVE  v \in h.twins /\ w \in h.twins
  <2>1. v \notin new /\ w \notin new BY <1>3, <1>7
  <2>2. v \in g.good /\ w \in g.good /\ var[v] # None /\ var[v] = var[w] BY <2>1, <1>1, <1>3, <1>4, <1>7
  <2>3. v \in g.twins /\ w \in g.twins BY <2>2, <1>7 DEF Marked
  <2> QED BY <1>1, <1>7, <2>3, ApartFrom
<1>8. ASSUME NEW v \in h.safe \cap Fds, NEW w \in (h.good \cap Core) \ {v}, var'[v] # None
      PROVE  var'[v] # var'[w]
  <2>1. w \in Fds /\ v \notin new /\ var'[v] = var[v] BY CoreFds, <1>3, <1>8
  <2>2. CASE w \in new BY <2>2, <1>3, <1>8
  <2>3. CASE w \notin new
    <3>1. w \in g.good /\ var'[w] = var[w] BY <2>1, <2>3, <1>1, <1>3, <1>4
    <3>2. v \in (g.safe \cup g.good) \cap Fds /\ w \in (g.good \cap Core) \ {v} BY <3>1, <1>1
    <3> QED BY <2>1, <3>1, <3>2, <1>8, CoreDiffers
  <2> QED BY <2>2, <2>3
<1>9. ASSUME NEW v \in h.gone \cap Fds PROVE var'[v] \notin Owned'
  <2>1. None \notin Owned' BY <1>2, TypeParts DEF Owned
  <2>2. CASE v \in new BY <2>1, <2>2, <1>3
  <2>3. CASE v \notin new
    <3>1. var'[v] = var[v] BY <2>3, <1>3
    <3>2. v = i \/ v \in g.gone BY <1>1
    <3> QED BY <3>1, <3>2, <1>2 DEF Marked
  <2> QED BY <2>2, <2>3
<1> QED BY <1>6, <1>7, <1>8, <1>9 DEF Marked

\* A variable is copied or cleared.
LEMMA CopyMarks ==
  ASSUME TypeOK, NEW g, NEW h, Marked(g), NEW p, NEW c, Owns(p, g, c, h), c.does \in {"copy", "forget"},
         c.into \in Fds, c.does = "copy" => c.what \in Fds, streams' = streams, Owned' = Owned,
         var' = [var EXCEPT ![c.into] = IF c.does = "copy" THEN var[c.what] ELSE None]
  PROVE  Marked(h)'
<1> DEFINE i == c.into
           f == c.what
<1>1. /\ h.good \subseteq g.good \cup {i} /\ h.safe \subseteq g.safe \cup g.good \cup {i}
      /\ h.twins \subseteq Three /\ h.n = streams'
  BY DEF Owns, Marked
<1>2. c.does = "copy" => /\ f \in g.good /\ f \in Fds /\ i \notin Core /\ f \notin Core
                         /\ Apart(h.good \cap (g.twins \cup {i, f}), h.twins)
                         /\ h.gone \subseteq g.gone \ {i}
  BY DEF Owns
<1>3. c.does = "forget" => Apart(h.good \cap g.twins, h.twins) /\ h.gone \subseteq g.gone \cup {i} BY DEF Owns
<1>4. \A w \in Fds \ {i} : var'[w] = var[w] BY TypeParts
<1>5. /\ i \in Fds
      /\ c.does = "copy" => var'[i] = var[f]
      /\ c.does = "forget" => var'[i] = None
  BY TypeParts
<1>6. c.does \in {"copy", "forget"} OBVIOUS
<1> HIDE DEF i, f
<1>7. ASSUME NEW v \in h.good \cap Fds PROVE var'[v] = None \/ var'[v] \in Owned'
  <2>1. CASE v # i
    <3>1. v \in g.good /\ var'[v] = var[v] BY <2>1, <1>1, <1>4
    <3> QED BY <3>1 DEF Marked
  <2>2. CASE v = i
    <3>1. CASE c.does = "copy" BY <3>1, <2>2, <1>2, <1>5 DEF Marked
    <3>2. CASE c.does = "forget" BY <3>2, <2>2, <1>5
    <3> QED BY <3>1, <3>2, <1>6
  <2> QED BY <2>1, <2>2
<1>8. ASSUME NEW v \in h.good \cap Fds, NEW w \in h.good \cap Fds, v # w, var'[v] # None, var'[v] = var'[w]
      PROVE  v \in h.twins /\ w \in h.twins
  <2>1. CASE c.does = "forget"
    <3>1. v # i /\ w # i BY <2>1, <1>5, <1>8
    <3>2. v \in g.good /\ w \in g.good /\ var[v] # None /\ var[v] = var[w] BY <3>1, <1>1, <1>4, <1>8
    <3>3. v \in g.twins /\ w \in g.twins BY <3>2, <1>8 DEF Marked
    <3> QED BY <2>1, <3>3, <1>3, <1>8, ApartFrom
  <2>2. CASE c.does = "copy"
    <3>1. ASSUME NEW x \in h.good \cap Fds, x # i, var[x] = var[f], var[x] # None
          PROVE  x \in g.twins \cup {i, f}
      <4>1. x \in g.good BY <3>1, <1>1
      <4> QED BY <4>1, <3>1, <2>2, <1>2 DEF Marked
    <3>2. v \in g.twins \cup {i, f} /\ w \in g.twins \cup {i, f}
      <4>1. CASE v = i
        <5>1. w # i /\ var[w] = var[f] /\ var[w] # None BY <4>1, <2>2, <1>4, <1>5, <1>8
        <5> QED BY <4>1, <5>1, <3>1
      <4>2. CASE w = i
        <5>1. v # i /\ var[v] = var[f] /\ var[v] # None BY <4>2, <2>2, <1>4, <1>5, <1>8
        <5> QED BY <4>2, <5>1, <3>1
      <4>3. CASE v # i /\ w # i
        <5>1. v \in g.good /\ w \in g.good /\ var[v] # None /\ var[v] = var[w] BY <4>3, <1>1, <1>4, <1>8
        <5> QED BY <5>1, <1>8 DEF Marked
      <4> QED BY <4>1, <4>2, <4>3
    <3>3. Apart(h.good \cap (g.twins \cup {i, f}), h.twins) BY <2>2, <1>2
    <3> DEFINE both == h.good \cap (g.twins \cup {i, f})
    <3>4. v \in both /\ w \in both /\ Apart(both, h.twins) BY <3>2, <3>3
    <3> HIDE DEF both
    <3> QED BY <3>4, <1>8, ApartFrom
  <2> QED BY <2>1, <2>2, <1>6
<1>9. ASSUME NEW v \in h.safe \cap Fds, NEW w \in (h.good \cap Core) \ {v}, var'[v] # None
      PROVE  var'[v] # var'[w]
  <2>1. w \in Fds BY CoreFds
  <2>2. CASE w = i
    <3>1. c.does = "forget" BY <2>2, <1>2, <1>6
    <3> QED BY <3>1, <2>2, <1>5, <1>9
  <2>3. CASE w # i /\ v # i
    <3>1. v \in (g.safe \cup g.good) \cap Fds /\ w \in (g.good \cap Core) \ {v} BY <2>3, <1>1
    <3>2. var'[v] = var[v] /\ var'[w] = var[w] BY <2>1, <2>3, <1>4
    <3> QED BY <3>1, <3>2, <1>9, CoreDiffers
  <2>4. CASE w # i /\ v = i
    <3>1. c.does = "copy" BY <2>4, <1>5, <1>6, <1>9
    <3>2. f \in (g.safe \cup g.good) \cap Fds /\ w \in (g.good \cap Core) \ {f} BY <3>1, <2>4, <1>1, <1>2
    <3>3. var'[v] = var[f] /\ var'[w] = var[w] BY <2>1, <2>4, <3>1, <1>4, <1>5
    <3> QED BY <3>2, <3>3, <1>9, CoreDiffers
  <2> QED BY <2>2, <2>3, <2>4
<1>10. ASSUME NEW v \in h.gone \cap Fds PROVE var'[v] \notin Owned'
  <2>1. None \notin Owned' BY TypeParts DEF Owned
  <2>2. CASE v # i
    <3>1. v \in g.gone /\ var'[v] = var[v] BY <2>2, <1>2, <1>3, <1>4, <1>6
    <3> QED BY <3>1 DEF Marked
  <2>3. CASE v = i
    <3>1. c.does = "forget" BY <2>3, <1>2, <1>6
    <3> QED BY <2>1, <2>3, <3>1, <1>5
  <2> QED BY <2>2, <2>3
<1> QED BY <1>1, <1>7, <1>8, <1>9, <1>10 DEF Marked

\* A stream takes its socket.
LEMMA AddMarks ==
  ASSUME TypeOK, NEW g, NEW h, Marked(g), NEW p, NEW c, Owns(p, g, c, h), c.does = "add",
         streams' = streams + 1, Owned' = Owned, var' = [var EXCEPT ![Socket(streams + 1)] = var[S]]
  PROVE  Marked(h)'
<1> DEFINE i == Socket(streams + 1)
<1>1. /\ g.n = streams /\ streams < NumStreams /\ S \in g.good /\ S \notin g.twins /\ S \in Fds
      /\ h.good \subseteq (g.good \ {S}) \cup {i} /\ Apart(h.good \cap g.twins, h.twins)
      /\ h.safe \subseteq g.safe \cup g.good \cup {i} /\ h.gone \subseteq g.gone \ {i}
      /\ h.twins \subseteq Three /\ h.n = streams'
  BY FdNames DEF Owns, Marked
<1>2. i \in Fds /\ i \notin Core /\ i # S /\ S \notin Core
  <2>1. streams + 1 \in 1..NumStreams BY <1>1, TypeParts
  <2> QED BY <2>1, FdNames, CoreFds
<1>3. var' = [var EXCEPT ![i] = var[S]] OBVIOUS
<1> HIDE DEF i
<1>4. var'[i] = var[S] /\ \A w \in Fds \ {i} : var'[w] = var[w] BY <1>2, <1>3, TypeParts
<1>5. ASSUME NEW v \in h.good \cap Fds PROVE var'[v] = None \/ var'[v] \in Owned'
  <2>1. CASE v # i
    <3>1. v \in g.good /\ var'[v] = var[v] BY <2>1, <1>1, <1>4
    <3> QED BY <3>1 DEF Marked
  <2>2. CASE v = i BY <2>2, <1>1, <1>4 DEF Marked
  <2> QED BY <2>1, <2>2
<1>6. \A x \in h.good \cap Fds : x # i /\ var[x] # None => var[x] # var[S]
  BY <1>1 DEF Marked
<1>7. ASSUME NEW v \in h.good \cap Fds, NEW w \in h.good \cap Fds, v # w, var'[v] # None, var'[v] = var'[w]
      PROVE  v \in h.twins /\ w \in h.twins
  <2>1. v # i /\ w # i BY <1>4, <1>6, <1>7
  <2>2. v \in g.good /\ w \in g.good /\ var[v] # None /\ var[v] = var[w] BY <2>1, <1>1, <1>4, <1>7
  <2>3. v \in g.twins /\ w \in g.twins BY <2>2, <1>7 DEF Marked
  <2> QED BY <2>3, <1>1, <1>7, ApartFrom
<1>8. ASSUME NEW v \in h.safe \cap Fds, NEW w \in (h.good \cap Core) \ {v}, var'[v] # None
      PROVE  var'[v] # var'[w]
  <2>1. w \in Fds /\ w # i /\ w # S /\ w \in g.good BY CoreFds, <1>1, <1>2
  <2>2. CASE v = i
    <3>1. S \in (g.safe \cup g.good) \cap Fds /\ w \in (g.good \cap Core) \ {S} BY <2>1, <1>1
    <3> QED BY <2>1, <2>2, <3>1, <1>4, <1>8, CoreDiffers
  <2>3. CASE v # i
    <3>1. v \in (g.safe \cup g.good) \cap Fds /\ w \in (g.good \cap Core) \ {v} BY <2>1, <2>3, <1>1
    <3> QED BY <2>1, <2>3, <3>1, <1>4, <1>8, CoreDiffers
  <2> QED BY <2>2, <2>3
<1>9. \A v \in h.gone \cap Fds : var'[v] \notin Owned' BY <1>1, <1>4 DEF Marked
<1> QED BY <1>1, <1>5, <1>7, <1>8, <1>9 DEF Marked

\* What was closed and not the test's is spared.
Known == \A x \in strays : Spared(opts, x[1], x[2]) \/ \E l \in Lists : x[2] = l[1]

\* The calls that are left have an outline of what is known of the numbers.
OwnsOpen ==
  \E g, e : Marked(g) /\ Leads(Now("owned"), g, code, e) /\ EndsFit(Now("owned"), e)

OInv == Stolen \notin strays => Known /\ OwnsOpen

LEMMA OwnedParts ==
  LET p == Now("owned") IN p.of = "owned" /\ p.of # "kept" /\ p.opts = opts /\ p.at = at
BY DEF Now

\* What is closed was the test's, or is spared.
LEMMA ClosesKnown ==
  ASSUME TypeOK, Known, NEW p, p.opts = opts, p.at = at, NEW g, Marked(g), NEW names \in SUBSET (Fds \cup Lists),
         Releases(names), opts' = opts,
         \A v \in names \cap Fds : v \in g.good \/ Spared(opts, at, v[1])
  PROVE  Known'
<1> SUFFICES ASSUME NEW x \in strays' PROVE Spared(opts, x[1], x[2]) \/ \E l \in Lists : x[2] = l[1]
  BY DEF Known
<1>1. \/ x \in strays
      \/ \E v \in names \cap Fds : x = <<at, v[1]>> /\ var[v] # None /\ owner[var[v]] # "test"
      \/ \E l \in names \cap Lists : x = <<at, l[1]>> /\ lists[l] = "freed"
  BY ReleasesOwn
<1>2. CASE x \in strays BY <1>2 DEF Known
<1>3. CASE \E v \in names \cap Fds : x = <<at, v[1]>> /\ var[v] # None /\ owner[var[v]] # "test"
  <2>1. PICK v \in names \cap Fds : x = <<at, v[1]>> /\ var[v] # None /\ owner[var[v]] # "test" BY <1>3
  <2>2. v \notin g.good BY <2>1 DEF Marked, Owned
  <2>3. Spared(opts, at, v[1]) BY <2>2
  <2> QED BY <2>1, <2>3
<1>4. CASE \E l \in names \cap Lists : x = <<at, l[1]>> /\ lists[l] = "freed"
  <2>1. PICK l \in names \cap Lists : x = <<at, l[1]>> BY <1>4
  <2> QED BY <2>1
<1> QED BY <1>1, <1>2, <1>3, <1>4

\* A call that succeeds.
LEMMA SucceedsOwns ==
  ASSUME KInv, OInv, Succeeds
  PROVE  OInv'
<1> DEFINE c == Head(code)
           p == Now("owned")
<1> SUFFICES ASSUME Stolen \notin strays' PROVE Known' /\ OwnsOpen' BY DEF OInv
<1>1. strays \subseteq strays' BY DEF Succeeds, Releases
<1>2. PICK g, e : Marked(g) /\ Leads(p, g, code, e) /\ EndsFit(p, e)
  BY <1>1 DEF OInv, OwnsOpen
<1>3. Known BY <1>1 DEF OInv
<1>4. code # <<>> /\ opts' = opts /\ at' = at /\ Now("owned")' = Now("owned")
  BY DEF Succeeds, Now
<1>5. p.of # "kept" /\ p.opts = opts /\ p.at = at BY OwnedParts
<1> HIDE DEF p
<1>6. c \in Calls BY <1>2, <1>4, LeadsFirst
<1>7. PICK h : Step(p, g, c, h) /\ Leads(p, h, Tail(code), e) BY <1>2, <1>4, LeadsFirst
<1>8. Owns(p, g, c, h) BY <1>5, <1>7 DEF Step
<1>9. TypeOK BY DEF KInv
<1>10. /\ c.into \in Fds /\ c.does \in Kinds
       /\ c.does \in {"drop", "clear"} => c.what \in Fds \cup Lists
       /\ c.does = "clear" => c.what = c.into
       /\ c.does = "copy" => c.what \in Fds
  BY <1>6 DEF Calls
<1>11. h.twins \subseteq Three /\ h.n = streams'
  <2>1. streams' = IF c.does = "add" THEN streams + 1 ELSE IF c.does = "no_streams" THEN 0 ELSE streams
    BY DEF Succeeds
  <2> QED BY <2>1, <1>2, <1>8 DEF Owns, Marked
<1>12. ASSUME Marked(h)', code' = Tail(code) PROVE OwnsOpen'
  BY <1>2, <1>4, <1>7, <1>12 DEF OwnsOpen, p
<1>13. ASSUME strays' = strays PROVE Known' BY <1>3, <1>4, <1>13 DEF Known
<1>14. CASE c.does \in {"open", "pipe"}
  <2>1. /\ Free # {} /\ Takes(c.into, Lowest) /\ streams' = streams /\ strays' = strays /\ code' = Tail(code)
    BY <1>14 DEF Succeeds
  <2>2. Marked(h)'
    <3> HIDE DEF c
    <3> QED BY <2>1, <1>2, <1>8, <1>9, <1>10, <1>14, OpenMarks
  <2> QED BY <2>1, <2>2, <1>12, <1>13
<1>15. CASE c.does \in {"list", "try", "enter", "leave", "no_streams"}
  <2>1. var' = var /\ owner' = owner /\ strays' = strays /\ code' = Tail(code) BY <1>15 DEF Succeeds
  <2>2. Relaxes(g, h) BY <1>8, <1>15 DEF Owns
  <2>3. Owned' = Owned BY <2>1 DEF Owned
  <2>4. Marked(h)' BY <2>1, <2>2, <2>3, <1>2, <1>11, RelaxesMarks
  <2> QED BY <2>1, <2>4, <1>12, <1>13
<1>16. CASE c.does = "is_closed"
  <2>1. /\ var' = var /\ owner' = owner /\ streams' = streams
        /\ code' = IF IsClosed(S) THEN <<>> ELSE Tail(code)
        /\ strays' = IF ~IsClosed(S) /\ owner[var[S]] = "other" THEN strays \cup {Stolen} ELSE strays
    BY <1>16 DEF Succeeds
  <2>2. Owned' = Owned /\ strays' = strays BY <2>1 DEF Owned
  <2>3. (IF S \in g.good THEN Relaxes(g, h) ELSE S \in g.gone) /\ EndsFit(p, g) BY <1>8, <1>16 DEF Owns
  <2>4. CASE IsClosed(S)
    <3>1. Marked(g)' BY <2>1, <2>2, <1>2 DEF Marked
    <3>2. Leads(p, g, <<>>, g) /\ code' = <<>> BY <2>1, <2>4, LeadsNowhere
    <3>3. OwnsOpen' BY <3>1, <3>2, <2>3, <1>4 DEF OwnsOpen, p
    <3> QED BY <3>3, <2>2, <1>13
  <2>5. CASE ~IsClosed(S)
    <3>1. var[S] \in Numbers /\ owner[var[S]] \in {"test", "other"} /\ S \in Fds
      BY <2>5, <1>9, TypeParts, FdNames DEF IsClosed
    <3>2. owner[var[S]] = "test" BY <3>1, <2>1, <2>5 DEF Stolen
    <3>3. var[S] \in Owned BY <3>1, <3>2 DEF Owned
    <3>4. Relaxes(g, h) BY <3>1, <3>3, <2>3, <1>2 DEF Marked
    <3>5. Marked(h)' BY <3>4, <2>1, <2>2, <1>2, <1>11, RelaxesMarks
    <3> QED BY <3>5, <2>1, <2>2, <2>5, <1>12, <1>13
  <2> QED BY <2>4, <2>5
<1>17. CASE c.does \in {"drop", "clear"} /\ c.what \in Fds
  <2>1. /\ Releases({c.what}) /\ var' = IF c.does = "clear" THEN [var EXCEPT ![c.into] = None] ELSE var
        /\ streams' = streams /\ code' = Tail(code)
    BY <1>17 DEF Succeeds
  <2>2. Closes(p, g, c, h) BY <1>8, <1>17 DEF Owns
  <2>3. {c.what} \in SUBSET (Fds \cup Lists) BY <1>17
  <2>4. \A v \in {c.what} \cap Fds : v \in g.good \/ Spared(opts, at, v[1]) BY <2>2, <1>5 DEF Closes
  <2> HIDE DEF c
  <2>5. Known' BY <2>1, <2>3, <2>4, <1>2, <1>3, <1>4, <1>5, <1>9, ClosesKnown
  <2>6. Marked(h)' BY <2>1, <2>2, <1>2, <1>9, <1>10, <1>11, <1>17, CloseMarks
  <2> QED BY <2>1, <2>5, <2>6, <1>12 DEF c
<1>18. CASE c.does = "drop" /\ c.what \in Lists
  <2>1. Releases({c.what}) /\ var' = var /\ streams' = streams /\ code' = Tail(code)
    BY <1>18 DEF Succeeds
  <2>2. Relaxes(g, h) BY <1>8, <1>18 DEF Owns
  <2>3. {c.what} \in SUBSET (Fds \cup Lists) /\ {c.what} \cap Fds = {} BY <1>18, FdNames
  <2> HIDE DEF c
  <2>4. Known' BY <2>1, <2>3, <1>2, <1>3, <1>4, <1>5, <1>9, ClosesKnown
  <2>5. Owned' = Owned
    <3>1. Owned' = Owned \ {var[v] : v \in {c.what} \cap Fds} BY <2>1, <2>3, <1>9, ReleasesOwn
    <3> QED BY <3>1, <2>3
  <2>6. Marked(h)' BY <2>1, <2>2, <2>5, <1>2, <1>11, RelaxesMarks
  <2> QED BY <2>1, <2>4, <2>6, <1>12 DEF c
<1>19. CASE c.does = "clear" /\ c.what \in Lists BY <1>10, <1>19, FdNames
<1>20. CASE c.does \in {"copy", "forget"}
  <2>1. /\ var' = [var EXCEPT ![c.into] = IF c.does = "copy" THEN var[c.what] ELSE None]
        /\ owner' = owner /\ streams' = streams /\ strays' = strays /\ code' = Tail(code)
    BY <1>20 DEF Succeeds
  <2>2. Owned' = Owned BY <2>1 DEF Owned
  <2>3. Marked(h)'
    <3> HIDE DEF c
    <3> QED BY <2>1, <2>2, <1>2, <1>8, <1>9, <1>10, <1>20, CopyMarks
  <2> QED BY <2>1, <2>3, <1>12, <1>13
<1>21. CASE c.does = "add"
  <2>1. /\ streams' = streams + 1 /\ var' = [var EXCEPT ![Socket(streams')] = var[S]]
        /\ owner' = owner /\ strays' = strays /\ code' = Tail(code)
    BY <1>21 DEF Succeeds
  <2>2. Owned' = Owned BY <2>1 DEF Owned
  <2>3. Marked(h)'
    <3> HIDE DEF c
    <3> QED BY <2>1, <2>2, <1>2, <1>8, <1>9, <1>21, AddMarks
  <2> QED BY <2>1, <2>3, <1>12, <1>13
<1>22. c.does # "never" BY DEF Succeeds
<1>23. \/ c.does \in {"open", "pipe"} \/ c.does \in {"list", "try", "enter", "leave", "no_streams"}
       \/ c.does = "is_closed" \/ c.does \in {"drop", "clear"} \/ c.does \in {"copy", "forget"} \/ c.does = "add"
  BY <1>10, <1>22 DEF Kinds
<1>24. CASE c.does \in {"drop", "clear"} BY <1>10, <1>17, <1>18, <1>19, <1>24
<1> QED BY <1>14, <1>15, <1>16, <1>20, <1>21, <1>23, <1>24

LEMMA MarkParts ==
  ASSUME NEW good, NEW twins, NEW safe, NEW gone, NEW n
  PROVE  LET g == Marks(good, twins, safe, gone, n)
         IN g.good = good /\ g.twins = twins /\ g.safe = safe /\ g.gone = gone /\ g.n = n
BY DEF Marks

\* After a failure nothing that may have a twin needs to be good.
LEMMA FailedMust ==
  ASSUME NEW o, NEW a, NEW n
  PROVE  Must(o, FailedAt(a), n) \cap Three = {} /\ Twins(o) \subseteq Three
<1>1. FailedAt(a) \in {"refused", "failed", "ended"} BY DEF FailedAt
<1>2. Must(o, FailedAt(a), n) \in {Most, {Pipe, Ctrl} \cup Files(n), {Pipe} \cup Files(n)} BY <1>1 DEF Must
<1>3. \A v \in Files(n) : v[1] \in {"buffer_fd", "diskfile_fd"} BY DEF Files, OfStreams
<1>4. \A v \in Three : v[1] \in {"s", "listener", "prot_listener"} BY Names DEF Three
<1>5. Pipe \notin Three /\ Ctrl \notin Three /\ Files(n) \cap Three = {} BY <1>3, <1>4, Names
<1> QED BY <1>2, <1>5 DEF Most, Twins, Three

\* What is known when a client or a server is there.
Start(o, a, n) == Marks(Must(o, a, n), Twins(o), Must(o, a, n) \cup Spare(o, a, n), {}, n)

Owning(a, calls) ==
  LET p == [of |-> "owned", opts |-> opts, at |-> a]
  IN \E h, e : /\ Relaxes(Start(opts, at, streams), h) /\ h.twins \subseteq Three /\ h.n = streams
               /\ Leads(p, h, calls, e) /\ EndsFit(p, e)

LEMMA InitOwns == ASSUME Init PROVE OInv
<1>1. PICK g : g = Marks(Fds \ {S}, {}, {}, {}, 0) OBVIOUS
<1>2. g.good = Fds \ {S} /\ g.twins = {} /\ g.safe = {} /\ g.gone = {} /\ g.n = 0 BY <1>1, MarkParts
<1>3. Marked(g) BY <1>2 DEF Marked, Init
<1>4. Leads(Now("owned"), g, code, g) BY LeadsNowhere DEF Init
<1>5. EndsFit(Now("owned"), g)
  <2>1. at = "start" BY DEF Init
  <2>2. Must(opts, at, g.n) = Fds \ {S} /\ Spare(opts, at, g.n) = {} BY <2>1 DEF Must, Spare
  <2>3. Apart({}, Twins(opts)) BY DEF Apart
  <2> QED BY <2>2, <2>3, <1>2, OwnedParts DEF EndsFit
<1>6. OwnsOpen BY <1>3, <1>4, <1>5 DEF OwnsOpen
<1>7. Known BY DEF Init, Known
<1> QED BY <1>6, <1>7 DEF OInv

LEMMA FailsOwns ==
  ASSUME KInv, OInv, Fails
  PROVE  OInv'
<1> DEFINE c == Head(code)
           p == Now("owned")
<1> SUFFICES ASSUME Stolen \notin strays' PROVE Known' /\ OwnsOpen' BY DEF OInv
<1>1. /\ code # <<>> /\ opts' = opts /\ streams' = streams /\ code' = <<>> /\ at' = FailedAt(at)
      /\ Releases(c.undo) /\ var' = [var EXCEPT ![c.into] = None]
      /\ c.does \in {"open", "list", "try", "never"} /\ strays \subseteq strays'
  BY DEF Fails, AfterFailure, FailedAt, Releases
<1>2. PICK g, e : Marked(g) /\ Leads(p, g, code, e) BY <1>1 DEF OInv, OwnsOpen
<1>3. Known BY <1>1 DEF OInv
<1>4. p.of # "kept" /\ p.opts = opts /\ p.at = at BY OwnedParts
<1> HIDE DEF p
<1>5. c \in Calls BY <1>1, <1>2, LeadsFirst
<1>6. PICK h : Step(p, g, c, h) BY <1>1, <1>2, LeadsFirst
<1>7. Owns(p, g, c, h) BY <1>4, <1>6 DEF Step
<1>8. /\ c.undo \cap Fds \subseteq g.good \cap {c.into}
      /\ Must(opts, FailedAt(at), streams) \subseteq g.good \cup {c.into}
      /\ Spare(opts, FailedAt(at), streams) \subseteq g.safe \cup g.good
  <2>1. MayEnd(p, g, c.into, c.undo) BY <1>1, <1>7 DEF Owns
  <2>2. g.n = streams BY <1>2 DEF Marked
  <2> QED BY <2>1, <2>2, <1>4 DEF MayEnd
<1>9. c.undo \in SUBSET (Fds \cup Lists) /\ c.into \in Fds /\ TypeOK BY <1>5 DEF Calls, KInv
<1>10. Known' BY <1>1, <1>2, <1>3, <1>4, <1>8, <1>9, ClosesKnown
<1>11. Owned' = Owned \ {var[v] : v \in c.undo \cap Fds} BY <1>1, <1>9, ReleasesOwn
<1>12. PICK i, m : i = c.into /\ m = Must(opts, FailedAt(at), streams) OBVIOUS
<1>13. PICK j : j = Marks(m, {}, m \cup Spare(opts, FailedAt(at), streams), {}, streams) OBVIOUS
<1>14. j.good = m /\ j.twins = {} /\ j.safe = m \cup Spare(opts, FailedAt(at), streams) /\ j.gone = {} /\ j.n = streams
  BY <1>13, MarkParts
<1>15. var'[i] = None /\ \A v \in Fds \ {i} : var'[v] = var[v] BY <1>1, <1>9, <1>12, TypeParts
<1>16. \A v \in m : v \notin Three BY <1>12, FailedMust
<1>17. \A v \in m \cap Fds : v # i => v \in g.good /\ var'[v] = var[v] /\ v \notin g.twins
  BY <1>2, <1>8, <1>12, <1>15, <1>16 DEF Marked
<1>18. ASSUME NEW v \in m \cap Fds PROVE var'[v] = None \/ var'[v] \in Owned'
  <2>1. CASE v = i BY <2>1, <1>15
  <2>2. CASE v # i /\ var[v] # None
    <3>1. v \in g.good /\ var'[v] = var[v] /\ var[v] \in Owned BY <2>2, <1>2, <1>17 DEF Marked
    <3>2. ASSUME NEW w \in c.undo \cap Fds PROVE var[w] # var[v]
      <4>1. w = i /\ w \in g.good BY <1>8, <1>12
      <4> QED BY <4>1, <3>1, <2>2, <1>2, <1>17 DEF Marked
    <3> QED BY <3>1, <3>2, <1>11
  <2>3. CASE v # i /\ var[v] = None BY <2>3, <1>15
  <2> QED BY <2>1, <2>2, <2>3
<1>19. ASSUME NEW v \in m \cap Fds, NEW w \in m \cap Fds, v # w, var'[v] # None PROVE var'[v] # var'[w]
  <2>1. v # i BY <1>15, <1>19
  <2>2. CASE w = i BY <2>2, <1>15, <1>19
  <2>3. CASE w # i BY <2>1, <2>3, <1>2, <1>17, <1>19 DEF Marked
  <2> QED BY <2>2, <2>3
<1>20. ASSUME NEW v \in j.safe \cap Fds, NEW w \in (m \cap Core) \ {v}, var'[v] # None PROVE var'[v] # var'[w]
  <2>1. w \in m \cap Fds BY CoreFds
  <2>2. v # i BY <1>15, <1>20
  <2>3. v \in (g.safe \cup g.good) \cap Fds BY <2>2, <1>8, <1>12, <1>14
  <2>4. CASE w = i BY <2>4, <1>15, <1>20
  <2>5. CASE w # i
    <3>1. w \in (g.good \cap Core) \ {v} /\ var'[w] = var[w] /\ var'[v] = var[v]
      BY <2>1, <2>2, <2>5, <1>15, <1>17
    <3> QED BY <2>3, <3>1, <1>2, <1>20, CoreDiffers
  <2> QED BY <2>4, <2>5
<1>21. Marked(j)' BY <1>1, <1>14, <1>18, <1>19, <1>20 DEF Marked
<1>22. Leads(Now("owned")', j, code', j) BY <1>1, LeadsNowhere
<1>23. EndsFit(Now("owned")', j)
  <2>1. Now("owned")'.opts = opts /\ Now("owned")'.at = FailedAt(at) BY <1>1 DEF Now
  <2>2. Apart(m \cap {}, Twins(opts)) BY DEF Apart
  <2> QED BY <2>1, <2>2, <1>12, <1>14 DEF EndsFit
<1> QED BY <1>10, <1>21, <1>22, <1>23 DEF OwnsOpen

LEMMA GoesOnOwns ==
  ASSUME KInv, OInv, GoesOn
  PROVE  OInv'
<1> DEFINE c == Head(code)
           p == Now("owned")
<1> SUFFICES ASSUME Stolen \notin strays' PROVE Known' /\ OwnsOpen' BY DEF OInv
<1>1. /\ code # <<>> /\ c.does = "pipe" /\ code' = Tail(code) /\ Now("owned")' = Now("owned")
      /\ UNCHANGED <<opts, owner, var, streams, at, strays>>
  BY DEF GoesOn, Now
<1>2. PICK g, e : Marked(g) /\ Leads(p, g, code, e) /\ EndsFit(p, e) BY <1>1 DEF OInv, OwnsOpen
<1>3. Known' BY <1>1 DEF OInv, Known
<1>4. p.of # "kept" BY OwnedParts
<1> HIDE DEF p
<1>5. PICK h : Step(p, g, c, h) /\ Leads(p, h, Tail(code), e) BY <1>1, <1>2, LeadsFirst
<1>6. Owns(p, g, c, h) BY <1>4, <1>5 DEF Step
<1>7. /\ c.into \in g.good /\ c.into \notin Three /\ h.twins \subseteq Three /\ h.n = streams'
      /\ h.good \subseteq g.good \cup {c.into} /\ Apart(h.good \cap (g.twins \ {c.into}), h.twins)
      /\ h.safe \subseteq g.good \cup {c.into} \cup (IF c.into \in Core THEN {} ELSE g.safe) /\ h.gone = {}
  BY <1>1, <1>2, <1>6 DEF Owns, Marked
<1>8. g.twins \ {c.into} = g.twins BY <1>2, <1>7 DEF Marked
<1>9. Relaxes(g, h) BY <1>7, <1>8 DEF Relaxes
<1>10. Owned' = Owned BY <1>1 DEF Owned
<1>11. Marked(h)' BY <1>1, <1>2, <1>7, <1>9, <1>10, RelaxesMarks
<1> QED BY <1>1, <1>2, <1>3, <1>5, <1>11 DEF OwnsOpen, p

LEMMA OthersOwn ==
  ASSUME KInv, OInv, OthersOpen \/ OthersClose
  PROVE  OInv'
<1>1. UNCHANGED <<opts, var, streams, at, code, strays>> BY DEF OthersOpen, OthersClose
<1>2. Owned' = Owned
  <2>1. owner \in [Numbers -> {"free", "test", "other"}] BY TypeParts DEF KInv
  <2>2. CASE OthersOpen
    <3>1. PICK m : m = Lowest OBVIOUS
    <3>2. m \in Numbers /\ owner[m] = "free" /\ owner' = [owner EXCEPT ![m] = "other"]
      BY <2>2, <3>1, LowestIsFree DEF OthersOpen, Free
    <3> QED BY <3>2, <2>1 DEF Owned
  <2>3. CASE OthersClose
    <3>1. PICK m \in Numbers : owner[m] = "other" /\ owner' = [owner EXCEPT ![m] = "free"]
      BY <2>3 DEF OthersClose
    <3> QED BY <3>1, <2>1 DEF Owned
  <2> QED BY <2>2, <2>3
<1>3. \A g : Marked(g)' <=> Marked(g) BY <1>1, <1>2 DEF Marked
<1>4. Now("owned")' = Now("owned") BY <1>1 DEF Now
<1>5. OwnsOpen' <=> OwnsOpen BY <1>1, <1>3, <1>4 DEF OwnsOpen
<1>6. Known' <=> Known BY <1>1 DEF Known
<1> QED BY <1>1, <1>5, <1>6 DEF OInv

\* A client or a server does something next.
LEMMA BeginsOwns ==
  ASSUME OInv, code = <<>>, UNCHANGED <<opts, owner, var, streams, strays>>,
         \E a, calls : at' = a /\ code' = calls /\ Owning(a, calls)
  PROVE  OInv'
<1> SUFFICES ASSUME Stolen \notin strays PROVE Known' /\ OwnsOpen' BY DEF OInv
<1>1. PICK a, calls : at' = a /\ code' = calls /\ Owning(a, calls) OBVIOUS
<1>2. PICK g, e : Marked(g) /\ Leads(Now("owned"), g, code, e) /\ EndsFit(Now("owned"), e)
  BY DEF OInv, OwnsOpen
<1>3. g = e BY <1>2, LeadsNo
<1>4. PICK h : h = Start(opts, at, streams) OBVIOUS
<1>5. h.good = Must(opts, at, streams) /\ h.twins = Twins(opts) /\ h.gone = {} /\ h.n = streams
      /\ h.safe = Must(opts, at, streams) \cup Spare(opts, at, streams)
  BY <1>4, MarkParts DEF Start
<1>6. Relaxes(g, h)
  <2>1. EndsFit(Now("owned"), g) /\ g.n = streams BY <1>2, <1>3 DEF Marked
  <2> QED BY <2>1, <1>5, OwnedParts DEF EndsFit, Relaxes
<1>7. Marked(h)
  <2>1. h.twins \subseteq Three /\ h.n = g.n BY <1>2, <1>5, FailedMust DEF Marked
  <2> QED BY <2>1, <1>2, <1>6, WeakerMarks
<1>8. Now("owned")' = [of |-> "owned", opts |-> opts, at |-> a] BY <1>1 DEF Now
<1>9. PICK i, j : /\ Relaxes(h, i) /\ i.twins \subseteq Three /\ i.n = streams
                  /\ Leads(Now("owned")', i, calls, j) /\ EndsFit(Now("owned")', j)
  BY <1>1, <1>4, <1>8 DEF Owning
<1>10. Marked(i)'
  <2>1. Owned' = Owned /\ i.n = h.n BY <1>5, <1>9 DEF Owned
  <2> QED BY <2>1, <1>7, <1>9, RelaxesMarks
<1>11. OwnsOpen' BY <1>1, <1>9, <1>10 DEF OwnsOpen
<1>12. Known' BY DEF OInv, Known
<1> QED BY <1>11, <1>12
-----------------------------------------------------------------------------
(* What the single calls do to the numbers.                                *)

\* Where a failure leads to "refused" or "failed".
Gives(p) == p.of = "owned" /\ Failing(p.at) /\ FailedAt(p.at) \in {"refused", "failed"}

LEMMA MayEndHere ==
  ASSUME NEW p, Gives(p), NEW g, Most \subseteq g, NEW t, NEW s, {Listener, Prot} \subseteq s \cup g, NEW x, NEW n,
         NEW into, NEW undo, undo \cap Fds \subseteq g \cap {into}
  PROVE  MayEnd(p, Marks(g, t, s, x, n), into, undo)
<1> DEFINE m == Must(p.opts, FailedAt(p.at), n)
           o == Spare(p.opts, FailedAt(p.at), n)
<1>1. FailedAt(p.at) \in {"refused", "failed"} BY DEF Gives
<1>2. Pipe \in Most /\ Ctrl \in Most /\ \A j : OfStreams({"socket"}, j) \subseteq Most /\ Files(j) \subseteq Most
  <2>1. \A v \in Three : v[1] \in {"s", "listener", "prot_listener"} BY Names DEF Three
  <2>2. \A j : OfStreams({"socket"}, j) \subseteq Fds /\ Files(j) \subseteq Fds BY DEF OfStreams, Files
  <2>3. \A j : \A v \in OfStreams({"socket"}, j) \cup Files(j) : v[1] \in {"socket", "buffer_fd", "diskfile_fd"}
    BY DEF OfStreams, Files
  <2>4. Pipe \notin Three /\ Ctrl \notin Three BY <2>1, Names
  <2>5. \A j : OfStreams({"socket"}, j) \cap Three = {} /\ Files(j) \cap Three = {} BY <2>1, <2>3
  <2>6. Pipe \in Fds /\ Ctrl \in Fds BY FdNames
  <2> QED BY <2>2, <2>4, <2>5, <2>6 DEF Most
<1>3. m \subseteq Most BY <1>1, <1>2 DEF Must
<1>4. o \subseteq {Listener, Prot} \cup Most BY <1>1, <1>2 DEF Spare
<1> HIDE DEF m, o
<1>5. m \subseteq g \cup {into} /\ o \subseteq s \cup g BY <1>3, <1>4
<1>6. Failing(p.at) BY DEF Gives
<1> QED BY <1>5, <1>6, MarkParts DEF MayEnd, m, o

\* What differs but for some differs but for more.
LEMMA ApartIn == ASSUME NEW a, NEW b, a \subseteq b PROVE Apart(a, b)
BY DEF Apart

LEMMA ApartSelf == \A a, b : Apart(a \cap b, b)
BY DEF Apart

LEMMA SameRelaxes ==
  ASSUME NEW g, NEW t, t \subseteq Three, NEW s, NEW x, NEW n
  PROVE  Marks(g, t, s, x, n).twins \subseteq Three /\ Relaxes(Marks(g, t, s, x, n), Marks(g, t, s, x, n))
<1> DEFINE m == Marks(g, t, s, x, n)
<1>1. m.good = g /\ m.twins = t /\ m.safe = s /\ m.gone = x /\ m.n = n BY DEF Marks
<1>2. Apart(g \cap t, t) BY ApartSelf
<1> HIDE DEF m
<1>3. m.twins \subseteq Three /\ Relaxes(m, m) BY <1>1, <1>2 DEF Relaxes
<1> QED BY <1>3 DEF m

\* A descriptor is opened.
LEMMA OpenOwns ==
  ASSUME NEW p, p.of = "owned", NEW g, NEW t, NEW s, NEW x, NEW n, NEW g2, NEW t2,
         NEW v \in Fds, NEW undo \in SUBSET (Fds \cup Lists), t2 \subseteq Three,
         g2 \subseteq g \cup {v}, Apart(g2 \cap (t \ {v}), t2), s \subseteq g \/ v \notin Core,
         MayEnd(p, Marks(g, t, s, x, n), v, undo)
  PROVE  Leads(p, Marks(g, t, s, x, n), <<Opens(v, undo)>>, Marks(g2, t2, s, {}, n))
<1> DEFINE m == Marks(g, t, s, x, n)
           m2 == Marks(g2, t2, s, {}, n)
           c == Opens(v, undo)
<1>1. c \in Calls /\ c.does = "open" /\ c.into = v /\ c.undo = undo
  BY DEF Calls, Kinds, Call, Opens
<1> HIDE DEF c
<1>2. s \subseteq g \cup {v} \cup (IF v \in Core THEN {} ELSE s) OBVIOUS
<1>3. m.good = g /\ m.twins = t /\ m.safe = s /\ m.n = n /\ MayEnd(p, m, v, undo) BY DEF Marks
<1>4. m2.good = g2 /\ m2.twins = t2 /\ m2.safe = s /\ m2.gone = {} /\ m2.n = n BY DEF Marks
<1> HIDE DEF m, m2
<1>5. Step(p, m, c, m2) BY <1>1, <1>2, <1>3, <1>4 DEF Step, Owns
<1> QED BY <1>1, <1>5, LeadsOne DEF c, m, m2

\* A call that may fail or fails, or makes a list; one that frees a list.
LEMMA TryOwns ==
  ASSUME NEW p, p.of = "owned", NEW g, NEW t, t \subseteq Three, NEW s, NEW x, NEW n,
         NEW v \in Fds, NEW undo \in SUBSET (Fds \cup Lists), MayEnd(p, Marks(g, t, s, x, n), v, undo)
  PROVE  /\ Leads(p, Marks(g, t, s, x, n), <<Tries(v, undo)>>, Marks(g, t, s, x, n))
         /\ Leads(p, Marks(g, t, s, x, n), <<Unsupported(v, undo)>>, Marks(g, t, s, x, n))
         /\ \A l \in Lists : Leads(p, Marks(g, t, s, x, n), <<Resolves(l, v, undo)>>, Marks(g, t, s, x, n))
<1> DEFINE m == Marks(g, t, s, x, n)
<1>1. m.twins \subseteq Three /\ Relaxes(m, m) /\ MayEnd(p, m, v, undo) BY SameRelaxes
<1> HIDE DEF m
<1>2. ASSUME NEW c \in Calls, c.into = v, c.undo = undo, c.does = "try" \/ c.does = "never" \/ c.does = "list"
      PROVE  Leads(p, m, <<c>>, m)
  <2>1. Step(p, m, c, m) BY <1>1, <1>2 DEF Step, Owns
  <2> QED BY <2>1, LeadsOne
<1>3. Leads(p, m, <<Tries(v, undo)>>, m)
  <2> DEFINE c == Tries(v, undo)
  <2>1. c \in Calls /\ c.does = "try" /\ c.into = v /\ c.undo = undo BY DEF Calls, Kinds, Call, Tries
  <2> HIDE DEF c
  <2>2. Leads(p, m, <<c>>, m) BY <2>1, <1>2
  <2> QED BY <2>2 DEF c
<1>4. Leads(p, m, <<Unsupported(v, undo)>>, m)
  <2> DEFINE c == Unsupported(v, undo)
  <2>1. c \in Calls /\ c.does = "never" /\ c.into = v /\ c.undo = undo BY DEF Calls, Kinds, Call, Unsupported
  <2> HIDE DEF c
  <2>2. Leads(p, m, <<c>>, m) BY <2>1, <1>2
  <2> QED BY <2>2 DEF c
<1>5. ASSUME NEW l \in Lists PROVE Leads(p, m, <<Resolves(l, v, undo)>>, m)
  <2> DEFINE c == Resolves(l, v, undo)
  <2>1. c \in Calls /\ c.does = "list" /\ c.into = v /\ c.undo = undo BY DEF Calls, Kinds, Call, Resolves
  <2> HIDE DEF c
  <2>2. Leads(p, m, <<c>>, m) BY <2>1, <1>2
  <2> QED BY <2>2 DEF c
<1> QED BY <1>3, <1>4, <1>5 DEF m

LEMMA FreeOwns ==
  ASSUME NEW p, p.of = "owned", NEW g, NEW t, t \subseteq Three, NEW s, NEW x, NEW n, NEW l \in Lists
  PROVE  Leads(p, Marks(g, t, s, x, n), <<Drops(l)>>, Marks(g, t, s, x, n))
<1> DEFINE m == Marks(g, t, s, x, n)
           c == Drops(l)
<1>1. m.twins \subseteq Three /\ Relaxes(m, m) BY SameRelaxes
<1>2. c \in Calls /\ c.does = "drop" /\ c.what = l /\ l \notin Fds BY FdNames DEF Calls, Kinds, Call, Drops
<1> HIDE DEF m, c
<1>3. Step(p, m, c, m) BY <1>1, <1>2 DEF Step, Owns
<1> QED BY <1>2, <1>3, LeadsOne DEF c, m

\* A function that is called and comes back.
LEMMA FunctionOwns ==
  ASSUME NEW p, p.of = "owned", NEW g, NEW t, t \subseteq Three, NEW s, NEW x, NEW n, NEW name \in FunctionNames,
         NEW calls, NEW g2, NEW t2, t2 \subseteq Three, NEW x2, NEW n2,
         Leads(p, Marks(g, t, s, x, n), calls, Marks(g2, t2, s, x2, n2))
  PROVE  Leads(p, Marks(g, t, s, x, n), Function(name, calls), Marks(g2, t2, s, x2, n2))
<1> DEFINE m == Marks(g, t, s, x, n)
           m2 == Marks(g2, t2, s, x2, n2)
           c == Call("enter", S, <<name, 0>>, {})
           d == Does("leave")
<1>1. m.twins \subseteq Three /\ Relaxes(m, m) /\ m2.twins \subseteq Three /\ Relaxes(m2, m2) BY SameRelaxes
<1>2. c \in Calls /\ c.does = "enter" /\ d \in Calls /\ d.does = "leave"
  BY FdNames DEF Calls, Kinds, Call, Does
<1>3. Leads(p, m, calls, m2) OBVIOUS
<1> HIDE DEF m, m2, c, d
<1>4. Step(p, m, c, m) /\ Step(p, m2, d, m2) BY <1>1, <1>2 DEF Step, Owns
<1>5. Leads(p, m, <<c>>, m) /\ Leads(p, m2, <<d>>, m2) BY <1>2, <1>4, LeadsOne
<1>6. Leads(p, m, <<c>> \o calls \o <<d>>, m2) BY <1>3, <1>5, LeadsOn
<1> QED BY <1>6 DEF Function, c, d, m, m2

\* A descriptor of the test is closed.
LEMMA DropOwns ==
  ASSUME NEW p, p.of = "owned", NEW g, NEW t, NEW s, NEW x, NEW n, NEW g2, NEW t2, t2 \subseteq Three, NEW x2,
         NEW v \in Fds, v \in g, g2 \subseteq g \ ({v} \cup (IF v \in t THEN t ELSE {})), Apart(g2 \cap t, t2),
         x2 \subseteq x \cup {v}
  PROVE  Leads(p, Marks(g, t, s, x, n), <<Drops(v)>>, Marks(g2, t2, s, x2, n))
<1> DEFINE m == Marks(g, t, s, x, n)
           m2 == Marks(g2, t2, s, x2, n)
           c == Drops(v)
<1>1. c \in Calls /\ c.does = "drop" /\ c.what = v /\ v \notin Lists BY FdNames DEF Calls, Kinds, Call, Drops
<1> HIDE DEF c
<1>2. m.good = g /\ m.twins = t /\ m.safe = s /\ m.gone = x /\ m.n = n BY DEF Marks
<1>3. m2.good = g2 /\ m2.twins = t2 /\ m2.safe = s /\ m2.gone = x2 /\ m2.n = n BY DEF Marks
<1> HIDE DEF m, m2
<1>4. Closes(p, m, c, m2) BY <1>1, <1>2, <1>3 DEF Closes
<1>5. Step(p, m, c, m2) BY <1>1, <1>2, <1>3, <1>4 DEF Step, Owns
<1> QED BY <1>1, <1>5, LeadsOne DEF c, m, m2

\* It is closed, and its variable cleared.
LEMMA ClearOwns ==
  ASSUME NEW p, p.of = "owned", NEW g, NEW t, NEW s, NEW x, NEW n, NEW g2, NEW t2, t2 \subseteq Three,
         NEW v \in Fds, v \in g, g2 \subseteq (g \ (IF v \in t THEN t ELSE {})) \cup {v}, Apart(g2 \cap t, t2)
  PROVE  Leads(p, Marks(g, t, s, x, n), <<Clears(v)>>, Marks(g2, t2, s, x, n))
<1> DEFINE m == Marks(g, t, s, x, n)
           m2 == Marks(g2, t2, s, x, n)
           c == Clears(v)
<1>1. c \in Calls /\ c.does = "clear" /\ c.what = v /\ v \notin Lists BY FdNames DEF Calls, Kinds, Call, Clears
<1> HIDE DEF c
<1>2. g2 \subseteq (g \ ({v} \cup (IF v \in t THEN t ELSE {}))) \cup {v} OBVIOUS
<1>3. m.good = g /\ m.twins = t /\ m.safe = s /\ m.gone = x /\ m.n = n BY DEF Marks
<1>4. m2.good = g2 /\ m2.twins = t2 /\ m2.safe = s /\ m2.gone = x /\ m2.n = n BY DEF Marks
<1> HIDE DEF m, m2
<1>5. Closes(p, m, c, m2) BY <1>1, <1>2, <1>3, <1>4 DEF Closes
<1>6. Step(p, m, c, m2) BY <1>1, <1>3, <1>4, <1>5 DEF Step, Owns
<1> QED BY <1>1, <1>6, LeadsOne DEF c, m, m2

\* A number that may no longer be the test's is closed; those of the core are not touched.
LEMMA SpareOwns ==
  ASSUME NEW p, p.of = "owned", NEW g, g \subseteq Core, NEW s, NEW x, NEW n,
         NEW v \in Fds, v \notin g, v \in s, Spared(p.opts, p.at, v[1])
  PROVE  /\ Leads(p, Marks(g, {}, s, x, n), <<Drops(v)>>, Marks(g, {}, s, x, n))
         /\ Leads(p, Marks(g, {}, s, x, n), <<Clears(v)>>, Marks(g, {}, s, x, n))
<1> DEFINE m == Marks(g, {}, s, x, n)
<1>1. g \subseteq (g \cap Core) \ {v} /\ Apart(g \cap {}, {}) BY DEF Apart
<1>2. m.twins \subseteq Three /\ m.good = g /\ m.twins = {} /\ m.safe = s /\ m.gone = x BY MarkParts
<1> HIDE DEF m
<1>3. ASSUME NEW c \in Calls, c.what = v, c.does = "drop" \/ c.does = "clear"
      PROVE  Leads(p, m, <<c>>, m)
  <2>1. Closes(p, m, c, m) BY <1>1, <1>2, <1>3 DEF Closes
  <2>2. v \notin Lists BY FdNames
  <2>3. Step(p, m, c, m) BY <1>2, <1>3, <2>1, <2>2 DEF Step, Owns
  <2> QED BY <2>3, LeadsOne
<1>4. Leads(p, m, <<Drops(v)>>, m)
  <2> DEFINE c == Drops(v)
  <2>1. c \in Calls /\ c.does = "drop" /\ c.what = v BY FdNames DEF Calls, Kinds, Call, Drops
  <2> HIDE DEF c
  <2>2. Leads(p, m, <<c>>, m) BY <2>1, <1>3
  <2> QED BY <2>2 DEF c
<1>5. Leads(p, m, <<Clears(v)>>, m)
  <2> DEFINE c == Clears(v)
  <2>1. c \in Calls /\ c.does = "clear" /\ c.what = v BY FdNames DEF Calls, Kinds, Call, Clears
  <2> HIDE DEF c
  <2>2. Leads(p, m, <<c>>, m) BY <2>1, <1>3
  <2> QED BY <2>2 DEF c
<1> QED BY <1>4, <1>5 DEF m

\* A variable is copied.
LEMMA CopyOwns ==
  ASSUME NEW p, p.of = "owned", NEW g, NEW t, NEW s, NEW x, NEW n, NEW g2, NEW t2, t2 \subseteq Three,
         NEW v \in Three, NEW from \in Three, from \in g, g2 \subseteq g \cup {v},
         Apart(g2 \cap (t \cup {v, from}), t2), s \subseteq Fds
  PROVE  Leads(p, Marks(g, t, s, x, n), <<Copies(v, from)>>, Marks(g2, t2, s, {}, n))
<1> DEFINE m == Marks(g, t, s, x, n)
           m2 == Marks(g2, t2, s, {}, n)
           c == Copies(v, from)
<1>1. v \in Fds /\ from \in Fds /\ {v, from} \cap Core = {} BY CoreFds
<1>2. c \in Calls /\ c.does = "copy" /\ c.what = from /\ c.into = v BY <1>1 DEF Calls, Kinds, Call, Copies
<1> HIDE DEF c
<1>3. m.good = g /\ m.twins = t /\ m.safe = s /\ m.n = n BY DEF Marks
<1>4. m2.good = g2 /\ m2.twins = t2 /\ m2.safe = s /\ m2.gone = {} /\ m2.n = n BY DEF Marks
<1> HIDE DEF m, m2
<1>5. Step(p, m, c, m2) BY <1>1, <1>2, <1>3, <1>4 DEF Step, Owns
<1> QED BY <1>2, <1>5, LeadsOne DEF c, m, m2

\* A variable is cleared.
LEMMA ForgetOwns ==
  ASSUME NEW p, p.of = "owned", NEW g, NEW t, NEW s, NEW x, NEW n, NEW g2, NEW t2, t2 \subseteq Three,
         NEW v \in Fds, g2 \subseteq g \cup {v}, Apart(g2 \cap t, t2)
  PROVE  Leads(p, Marks(g, t, s, x, n), <<Forgets(v)>>, Marks(g2, t2, s, x, n))
<1> DEFINE m == Marks(g, t, s, x, n)
           m2 == Marks(g2, t2, s, x, n)
           c == Forgets(v)
<1>1. c \in Calls /\ c.does = "forget" /\ c.into = v BY DEF Calls, Kinds, Call, Forgets
<1> HIDE DEF c
<1>2. m.good = g /\ m.twins = t /\ m.safe = s /\ m.gone = x /\ m.n = n BY DEF Marks
<1>3. m2.good = g2 /\ m2.twins = t2 /\ m2.safe = s /\ m2.gone = x /\ m2.n = n BY DEF Marks
<1> HIDE DEF m, m2
<1>4. Step(p, m, c, m2) BY <1>1, <1>2, <1>3 DEF Step, Owns
<1> QED BY <1>1, <1>4, LeadsOne DEF c, m, m2

\* A stream takes its socket, and the streams are counted or forgotten.
LEMMA AddOwns ==
  ASSUME NEW p, p.of = "owned", NEW g, NEW t, t \subseteq Three, NEW s, NEW n \in Nat, n < NumStreams,
         NEW g2, S \in g, S \notin t, g2 \subseteq (g \ {S}) \cup {Socket(n + 1)}
  PROVE  Leads(p, Marks(g, t, s, {}, n), <<Does("add")>>, Marks(g2, t, s, {}, n + 1))
<1> DEFINE m == Marks(g, t, s, {}, n)
           m2 == Marks(g2, t, s, {}, n + 1)
           c == Does("add")
<1>1. c \in Calls /\ c.does = "add" BY FdNames DEF Calls, Kinds, Call, Does
<1> HIDE DEF c
<1>2. m.good = g /\ m.twins = t /\ m.safe = s /\ m.gone = {} /\ m.n = n BY DEF Marks
<1>3. m2.good = g2 /\ m2.twins = t /\ m2.safe = s /\ m2.gone = {} /\ m2.n = n + 1 BY DEF Marks
<1>4. Apart(g2 \cap t, t) BY ApartSelf
<1> HIDE DEF m, m2
<1>5. Step(p, m, c, m2) BY <1>1, <1>2, <1>3, <1>4 DEF Step, Owns
<1> QED BY <1>1, <1>5, LeadsOne DEF c, m, m2

LEMMA ForgetStreamsOwns ==
  ASSUME NEW p, p.of = "owned", NEW g, NEW t, t \subseteq Three, NEW s, NEW x, NEW n
  PROVE  Leads(p, Marks(g, t, s, x, n), <<Does("no_streams")>>, Marks(g, t, s, x, 0))
<1> DEFINE m == Marks(g, t, s, x, n)
           m2 == Marks(g, t, s, x, 0)
           c == Does("no_streams")
<1>1. c \in Calls /\ c.does = "no_streams" BY FdNames DEF Calls, Kinds, Call, Does
<1> HIDE DEF c
<1>2. m.good = g /\ m.twins = t /\ m.safe = s /\ m.gone = x /\ m.n = n BY DEF Marks
<1>3. m2.good = g /\ m2.twins = t /\ m2.safe = s /\ m2.gone = x /\ m2.n = 0 BY DEF Marks
<1>4. Apart(g \cap t, t) BY ApartSelf
<1> HIDE DEF m, m2
<1>5. Relaxes(m, m2) BY <1>2, <1>3, <1>4 DEF Relaxes
<1>6. Step(p, m, c, m2) BY <1>1, <1>3, <1>5 DEF Step, Owns
<1> QED BY <1>1, <1>6, LeadsOne DEF c, m, m2

\* Whoever goes on after a refused client has the number of another thread.
LEMMA IsClosedOwns ==
  ASSUME NEW p, p.of = "owned", NEW g, NEW t, t \subseteq Three, NEW s, NEW x, NEW n, NEW g2,
         IF S \in g THEN g2 = g ELSE S \in x, EndsFit(p, Marks(g, t, s, x, n))
  PROVE  Leads(p, Marks(g, t, s, x, n), <<Does("is_closed")>>, Marks(g2, t, s, {}, n))
<1> DEFINE m == Marks(g, t, s, x, n)
           m2 == Marks(g2, t, s, {}, n)
           c == Does("is_closed")
<1>1. c \in Calls /\ c.does = "is_closed" BY FdNames DEF Calls, Kinds, Call, Does
<1> HIDE DEF c
<1>2. m.good = g /\ m.twins = t /\ m.safe = s /\ m.gone = x /\ m.n = n /\ EndsFit(p, m) BY DEF Marks
<1>3. m2.good = g2 /\ m2.twins = t /\ m2.safe = s /\ m2.gone = {} /\ m2.n = n BY DEF Marks
<1>4. Apart(g2 \cap t, t) BY ApartSelf
<1> HIDE DEF m, m2
<1>5. S \in g => Relaxes(m, m2) BY <1>2, <1>3, <1>4 DEF Relaxes
<1>6. Step(p, m, c, m2) BY <1>1, <1>2, <1>3, <1>5 DEF Step, Owns
<1> QED BY <1>1, <1>6, LeadsOne DEF c, m, m2

\* A pipe is made, or not.
LEMMA PipeOwns ==
  ASSUME NEW p, p.of = "owned", NEW g, NEW t, t \subseteq Three, NEW s, s \subseteq g, NEW x, NEW n, Pipe \in g
  PROVE  Leads(p, Marks(g, t, s, x, n), <<Call("pipe", Pipe, Pipe, {})>>, Marks(g, t, s, {}, n))
<1> DEFINE m == Marks(g, t, s, x, n)
           m2 == Marks(g, t, s, {}, n)
           c == Call("pipe", Pipe, Pipe, {})
<1>1. c \in Calls /\ c.does = "pipe" /\ c.into = Pipe BY FdNames DEF Calls, Kinds, Call
<1>2. Pipe \notin Three BY Names DEF Three
<1>3. Apart(g \cap (t \ {Pipe}), t) BY ApartIn
<1> HIDE DEF c
<1>4. m.good = g /\ m.twins = t /\ m.safe = s /\ m.gone = x /\ m.n = n BY DEF Marks
<1>5. m2.good = g /\ m2.twins = t /\ m2.safe = s /\ m2.gone = {} /\ m2.n = n BY DEF Marks
<1> HIDE DEF m, m2
<1>6. Step(p, m, c, m2) BY <1>1, <1>2, <1>3, <1>4, <1>5 DEF Step, Owns
<1> QED BY <1>1, <1>6, LeadsOne DEF c, m, m2
-----------------------------------------------------------------------------
(* What the functions do to the numbers.                                   *)

LEMMA CreateSocketOwns ==
  ASSUME opts \in Tests, NEW p, Gives(p), NEW g, Most \subseteq g, NEW t, t \subseteq Three, NEW s,
         {Listener, Prot} \subseteq s \cup g, NEW x, NEW n, NEW v \in Fds, s \subseteq g \/ v \notin Core,
         NEW t2, t2 \subseteq Three, Apart((g \cup {v}) \cap (t \ {v}), t2)
  PROVE  Leads(p, Marks(g, t, s, x, n), CreateSocket(v), Marks(g \cup {v}, t2, s, {}, n))
<1> DEFINE a == g \cup {v}
           m == Marks(g, t, s, x, n)
           m2 == Marks(a, t2, s, {}, n)
<1>1. p.of = "owned" /\ LocalRes \in Lists /\ Res \in Lists /\ Fds \cap Lists = {} BY FdNames DEF Gives
<1>2. MayEnd(p, m, v, {}) /\ MayEnd(p, m, v, {LocalRes}) /\ MayEnd(p, m, v, {LocalRes, Res})
  BY <1>1, MayEndHere
<1>3. MayEnd(p, m2, v, {v, LocalRes, Res}) /\ MayEnd(p, m2, v, {v, Res})
  <2>1. {v, LocalRes, Res} \cap Fds \subseteq a \cap {v} /\ {v, Res} \cap Fds \subseteq a \cap {v} BY <1>1
  <2>2. Most \subseteq a /\ {Listener, Prot} \subseteq s \cup a OBVIOUS
  <2> HIDE DEF a
  <2> QED BY <2>1, <2>2, MayEndHere
<1>4. Leads(p, m, If(opts.local, Resolves(LocalRes, v, {})), m)
  <2>1. Leads(p, m, <<Resolves(LocalRes, v, {})>>, m) BY <1>1, <1>2, TryOwns
  <2> QED BY <2>1, LeadsIf, OptsAre
<1>5. Leads(p, m, <<Resolves(Res, v, {LocalRes})>>, m) BY <1>1, <1>2, TryOwns
<1>6. Leads(p, m, <<Opens(v, {LocalRes, Res})>>, m2)
  <2>1. a \subseteq g \cup {v} /\ Apart(a \cap (t \ {v}), t2) OBVIOUS
  <2> HIDE DEF a
  <2> QED BY <2>1, <1>1, <1>2, OpenOwns
<1>7. Leads(p, m2, If(opts.device, Unsupported(v, {v, LocalRes, Res})), m2)
  <2>1. Leads(p, m2, <<Unsupported(v, {v, LocalRes, Res})>>, m2) BY <1>1, <1>3, TryOwns
  <2> QED BY <2>1, LeadsIf, OptsAre
<1>8. Leads(p, m2, If(opts.local, Tries(v, {v, LocalRes, Res})), m2)
  <2>1. Leads(p, m2, <<Tries(v, {v, LocalRes, Res})>>, m2) BY <1>1, <1>3, TryOwns
  <2> QED BY <2>1, LeadsIf, OptsAre
<1>9. Leads(p, m2, If(opts.local, Drops(LocalRes)), m2)
  <2>1. Leads(p, m2, <<Drops(LocalRes)>>, m2) BY <1>1, FreeOwns
  <2> QED BY <2>1, LeadsIf, OptsAre
<1>10. Leads(p, m2, If(opts.cport /\ ~opts.local, Tries(v, {v, Res})), m2)
  <2>1. Leads(p, m2, <<Tries(v, {v, Res})>>, m2) BY <1>1, <1>3, TryOwns
  <2> QED BY <2>1, LeadsIf, OptsAre
<1> HIDE DEF m, m2, a
<1>11. Leads(p, m, <<Resolves(Res, v, {LocalRes}), Opens(v, {LocalRes, Res})>>, m2) BY <1>5, <1>6, LeadsTwo
<1>12. Leads(p, m, CreateSocket(v), m2)
  BY <1>4, <1>11, <1>7, <1>8, <1>9, <1>10, LeadsOn DEF CreateSocket
<1> QED BY <1>12 DEF m, m2, a

LEMMA NetdialOwns ==
  ASSUME opts \in Tests, NEW p, Gives(p), NEW g, Most \subseteq g, NEW t, t \subseteq Three, NEW s,
         {Listener, Prot} \subseteq s \cup g, NEW x, NEW n, NEW v \in Fds, s \subseteq g \/ v \notin Core,
         NEW t2, t2 \subseteq Three, Apart((g \cup {v}) \cap (t \ {v}), t2)
  PROVE  Leads(p, Marks(g, t, s, x, n), Netdial(v), Marks(g \cup {v}, t2, s, {}, n))
<1> DEFINE a == g \cup {v}
           m == Marks(g, t, s, x, n)
           m2 == Marks(a, t2, s, {}, n)
<1>1. p.of = "owned" /\ Res \in Lists /\ Fds \cap Lists = {} BY FdNames DEF Gives
<1>2. MayEnd(p, m2, v, {v, Res})
  <2>1. {v, Res} \cap Fds \subseteq a \cap {v} BY <1>1
  <2>2. Most \subseteq a /\ {Listener, Prot} \subseteq s \cup a OBVIOUS
  <2> HIDE DEF a
  <2> QED BY <2>1, <2>2, MayEndHere
<1>3. Leads(p, m, CreateSocket(v), m2) BY CreateSocketOwns
<1>4. Leads(p, m2, <<Tries(v, {v, Res})>>, m2) /\ Leads(p, m2, <<Drops(Res)>>, m2)
  BY <1>1, <1>2, TryOwns, FreeOwns
<1> HIDE DEF m, m2, a
<1>5. Leads(p, m2, <<Tries(v, {v, Res}), Drops(Res)>>, m2) BY <1>4, LeadsTwo
<1>6. Leads(p, m, Netdial(v), m2) BY <1>3, <1>5, LeadsOn DEF Netdial
<1> QED BY <1>6 DEF m, m2, a

LEMMA NetannounceOwns ==
  ASSUME opts \in Tests, NEW p, Gives(p), NEW g, Most \subseteq g, NEW t, t \subseteq Three, NEW s,
         {Listener, Prot} \subseteq s \cup g, NEW x, NEW n, NEW v \in Fds, s \subseteq g \/ v \notin Core,
         NEW t2, t2 \subseteq Three, Apart((g \cup {v}) \cap (t \ {v}), t2), NEW stream \in BOOLEAN
  PROVE  Leads(p, Marks(g, t, s, x, n), Netannounce(v, stream), Marks(g \cup {v}, t2, s, {}, n))
<1> DEFINE a == g \cup {v}
           m == Marks(g, t, s, x, n)
           m2 == Marks(a, t2, s, {}, n)
<1>1. p.of = "owned" /\ Res \in Lists /\ Fds \cap Lists = {} BY FdNames DEF Gives
<1>2. MayEnd(p, m, v, {}) /\ MayEnd(p, m, v, {Res}) BY <1>1, MayEndHere
<1>3. MayEnd(p, m2, v, {v, Res}) /\ MayEnd(p, m2, v, {v})
  <2>1. {v, Res} \cap Fds \subseteq a \cap {v} /\ {v} \cap Fds \subseteq a \cap {v} BY <1>1
  <2>2. Most \subseteq a /\ {Listener, Prot} \subseteq s \cup a OBVIOUS
  <2> HIDE DEF a
  <2> QED BY <2>1, <2>2, MayEndHere
<1>4. Leads(p, m, <<Resolves(Res, v, {})>>, m) BY <1>1, <1>2, TryOwns
<1>5. Leads(p, m, <<Opens(v, {Res})>>, m2)
  <2>1. a \subseteq g \cup {v} /\ Apart(a \cap (t \ {v}), t2) OBVIOUS
  <2> HIDE DEF a
  <2> QED BY <2>1, <1>1, <1>2, OpenOwns
<1>6. Leads(p, m2, If(opts.device, Unsupported(v, {v, Res})), m2)
  <2>1. Leads(p, m2, <<Unsupported(v, {v, Res})>>, m2) BY <1>1, <1>3, TryOwns
  <2> QED BY <2>1, LeadsIf, OptsAre
<1>7. Leads(p, m2, <<Tries(v, {v, Res})>>, m2) /\ Leads(p, m2, <<Drops(Res)>>, m2)
  BY <1>1, <1>3, TryOwns, FreeOwns
<1>8. Leads(p, m2, If(stream, Tries(v, {v})), m2)
  <2>1. Leads(p, m2, <<Tries(v, {v})>>, m2) BY <1>1, <1>3, TryOwns
  <2> QED BY <2>1, LeadsIf
<1> HIDE DEF m, m2, a
<1>9. Leads(p, m, <<Resolves(Res, v, {}), Opens(v, {Res})>>, m2) BY <1>4, <1>5, LeadsTwo
<1>10. Leads(p, m2, <<Tries(v, {v, Res}), Drops(Res)>>, m2) BY <1>7, LeadsTwo
<1>11. Leads(p, m, Netannounce(v, stream), m2) BY <1>9, <1>6, <1>10, <1>8, LeadsOn DEF Netannounce
<1> QED BY <1>11 DEF m, m2, a

\* All but the variable of the function that runs.
Rest == Fds \ {S}

LEMMA RestIs ==
  /\ S \in Fds /\ S \notin Rest /\ Rest \subseteq Fds /\ Rest \cup {S} = Fds /\ Most \subseteq Rest /\ Most \subseteq Fds
  /\ {Listener, Prot} \subseteq Rest /\ Rest = Most \cup {Listener, Prot} /\ S \notin Most
  /\ Listener \notin Most /\ Prot \notin Most /\ S # Listener /\ S # Prot /\ Listener # Prot
BY FdNames, Names DEF Rest, Most, Three

LEMMA TryHereOwns ==
  ASSUME NEW p, Gives(p), NEW g, Most \subseteq g, NEW t, t \subseteq Three, NEW s, {Listener, Prot} \subseteq s \cup g,
         NEW x, NEW n, NEW v \in Fds, NEW undo \in SUBSET (Fds \cup Lists), undo \cap Fds \subseteq g \cap {v}
  PROVE  Leads(p, Marks(g, t, s, x, n), <<Tries(v, undo)>>, Marks(g, t, s, x, n))
BY MayEndHere, TryOwns DEF Gives

LEMMA TcpConnectOwns ==
  ASSUME opts \in Tests, NEW p, Gives(p), NEW t, t \subseteq {Listener, Prot}, NEW n
  PROVE  Leads(p, Marks(Rest, t, Rest, {}, n), TcpConnect, Marks(Fds, t, Rest, {}, n))
<1> DEFINE m == Marks(Rest, t, Rest, {}, n)
           m2 == Marks(Fds, t, Rest, {}, n)
<1>1. /\ S \in Fds /\ S \notin Core /\ Most \subseteq Rest /\ Most \subseteq Fds /\ {Listener, Prot} \subseteq Rest
      /\ Rest \cup {S} = Fds /\ t \subseteq Three /\ Res \in Lists /\ Fds \cap Lists = {} /\ p.of = "owned"
  BY RestIs, CoreFds, FdNames DEF Three, Gives
<1>2. Leads(p, m, CreateSocket(S), m2)
  <2>1. Apart((Rest \cup {S}) \cap (t \ {S}), t) BY ApartIn
  <2> QED BY <2>1, <1>1, CreateSocketOwns
<1>3. Leads(p, m2, <<Tries(S, {S, Res})>>, m2)
  <2>1. {S, Res} \cap Fds \subseteq Fds \cap {S} BY <1>1
  <2> QED BY <2>1, <1>1, TryHereOwns
<1>4. Leads(p, m2, <<Drops(Res)>>, m2) BY <1>1, FreeOwns
<1>5. Leads(p, m2, <<Tries(S, {S})>>, m2)
  <2>1. {S} \cap Fds \subseteq Fds \cap {S} BY <1>1
  <2> QED BY <2>1, <1>1, TryHereOwns
<1> HIDE DEF m, m2
<1>6. Leads(p, m2, <<Tries(S, {S, Res}), Drops(Res), Tries(S, {S})>>, m2) BY <1>3, <1>4, <1>5, LeadsTwo, LeadsThree
<1>7. Leads(p, m, TcpConnect, m2) BY <1>2, <1>6, LeadsOn DEF TcpConnect
<1> QED BY <1>7 DEF m, m2

LEMMA UdpConnectOwns ==
  ASSUME opts \in Tests, NEW p, Gives(p), NEW t, t \subseteq {Listener, Prot}, NEW n
  PROVE  Leads(p, Marks(Rest, t, Rest, {}, n), UdpConnect, Marks(Fds, t, Rest, {}, n))
<1> DEFINE m == Marks(Rest, t, Rest, {}, n)
           m2 == Marks(Fds, t, Rest, {}, n)
<1>1. /\ S \in Fds /\ S \notin Core /\ Most \subseteq Rest /\ Most \subseteq Fds /\ {Listener, Prot} \subseteq Rest
      /\ Rest \cup {S} = Fds /\ t \subseteq Three
  BY RestIs, CoreFds DEF Three
<1>2. Leads(p, m, Netdial(S), m2)
  <2>1. Apart((Rest \cup {S}) \cap (t \ {S}), t) BY ApartIn
  <2> QED BY <2>1, <1>1, NetdialOwns
<1>3. Leads(p, m2, <<Tries(S, {})>>, m2) BY <1>1, TryHereOwns
<1> HIDE DEF m, m2
<1>4. Leads(p, m, UdpConnect, m2) BY <1>2, <1>3, LeadsOn DEF UdpConnect, BufferCheck
<1> QED BY <1>4 DEF m, m2

LEMMA NewStreamOwns ==
  ASSUME opts \in Tests, NEW p, Gives(p), NEW t, t \subseteq {Listener, Prot}, NEW n \in Nat, n < NumStreams
  PROVE  Leads(p, Marks(Fds, t, Rest, {}, n), NewStream(n + 1), Marks(Rest, t, Rest, {}, n + 1))
<1> DEFINE b == Buffer(n + 1)
           d == File(n + 1)
           m == Marks(Fds, t, Rest, {}, n)
           m2 == Marks(Rest, t, Rest, {}, n + 1)
<1>1. /\ b \in Fds /\ d \in Fds /\ Socket(n + 1) \in Fds /\ S \in Fds /\ Most \subseteq Fds /\ Rest \subseteq Fds
      /\ {Listener, Prot} \subseteq Rest /\ t \subseteq Three /\ S \notin t /\ Rest = Fds \ {S} /\ p.of = "owned"
  <2>1. n + 1 \in 1..NumStreams BY BoundsAssumption
  <2> QED BY <2>1, RestIs, FdNames DEF Three, Rest, Gives
<1>2. ASSUME NEW v \in Fds PROVE Leads(p, m, <<Opens(v, {})>>, m)
  <2>1. Apart(Fds \cap (t \ {v}), t) BY ApartIn
  <2>2. MayEnd(p, m, v, {}) BY <1>1, MayEndHere
  <2>3. Fds \subseteq Fds \cup {v} /\ {} \in SUBSET (Fds \cup Lists) OBVIOUS
  <2> QED BY <2>1, <2>2, <2>3, <1>1, OpenOwns
<1>3. Leads(p, m, <<Opens(b, {})>>, m) BY <1>1, <1>2
<1>4. Leads(p, m, <<Tries(b, {})>>, m) /\ Leads(p, m, <<Tries(b, {b})>>, m)
  <2>1. {b} \cap Fds \subseteq Fds \cap {b} OBVIOUS
  <2> QED BY <2>1, <1>1, TryHereOwns
<1>5. Leads(p, m, If(opts.file, Opens(d, {})), m)
  <2>1. Leads(p, m, <<Opens(d, {})>>, m) BY <1>1, <1>2
  <2> QED BY <2>1, LeadsIf, OptsAre
<1>6. Leads(p, m, <<Does("add")>>, m2)
  <2>1. Rest \subseteq (Fds \ {S}) \cup {Socket(n + 1)} BY <1>1
  <2> QED BY <2>1, <1>1, AddOwns
<1> HIDE DEF m, m2, b, d
<1>7. Leads(p, m, <<Opens(b, {}), Tries(b, {})>>, m) /\ Leads(p, m, <<Tries(b, {b}), Does("add")>>, m2)
  BY <1>3, <1>4, <1>6, LeadsTwo
<1>8. Leads(p, m, NewStream(n + 1), m2) BY <1>7, <1>5, LeadsOn DEF NewStream, b, d
<1> QED BY <1>8 DEF m, m2

\* The socket of a refused client is not the test's any more.
LEMMA TcpAcceptOwns ==
  ASSUME NEW p, Gives(p), NEW t, t \subseteq {Listener, Prot}, NEW n, NEW refused \in BOOLEAN
  PROVE  Leads(p, Marks(Rest, t, Rest, {}, n), TcpAccept(refused),
                  IF refused THEN Marks(Rest, t, Rest, {S}, n) ELSE Marks(Fds, t, Rest, {}, n))
<1> DEFINE m == Marks(Rest, t, Rest, {}, n)
           m2 == Marks(Fds, t, Rest, {}, n)
           m3 == IF refused THEN Marks(Rest, t, Rest, {S}, n) ELSE Marks(Fds, t, Rest, {}, n)
<1>1. /\ S \in Fds /\ Most \subseteq Rest /\ Most \subseteq Fds /\ {Listener, Prot} \subseteq Rest
      /\ Fds \subseteq Rest \cup {S} /\ t \subseteq Three /\ S \notin t /\ Rest = Fds \ {S} /\ p.of = "owned"
  BY RestIs DEF Three, Gives, Rest
<1>2. Leads(p, m, <<Opens(S, {})>>, m2)
  <2>1. Apart(Fds \cap (t \ {S}), t) BY ApartIn
  <2>2. MayEnd(p, m, S, {}) BY <1>1, MayEndHere
  <2>3. {} \in SUBSET (Fds \cup Lists) OBVIOUS
  <2> QED BY <2>1, <2>2, <2>3, <1>1, OpenOwns
<1>3. Leads(p, m2, <<Tries(S, {S})>>, m2)
  <2>1. {S} \cap Fds \subseteq Fds \cap {S} OBVIOUS
  <2> QED BY <2>1, <1>1, TryHereOwns
<1>4. Leads(p, m2, If(refused, Drops(S)), m3)
  <2>1. Leads(p, m2, <<Drops(S)>>, Marks(Rest, t, Rest, {S}, n))
    <3>1. Rest \subseteq Fds \ ({S} \cup (IF S \in t THEN t ELSE {})) /\ {S} \subseteq {} \cup {S} BY <1>1
    <3>2. Apart(Rest \cap t, t) BY ApartSelf
    <3> QED BY <3>1, <3>2, <1>1, DropOwns
  <2>2. refused => Leads(p, m2, <<Drops(S)>>, m3) BY <2>1
  <2>3. ~refused => m2 = m3 OBVIOUS
  <2> HIDE DEF m2, m3
  <2> QED BY <2>2, <2>3, LeadsIf
<1> HIDE DEF m, m2, m3
<1>5. Leads(p, m, <<Opens(S, {}), Tries(S, {S})>>, m2) BY <1>2, <1>3, LeadsTwo
<1>6. Leads(p, m, TcpAccept(refused), m3) BY <1>4, <1>5, LeadsOn DEF TcpAccept
<1> QED BY <1>6 DEF m, m3

\* The listener is known as s too; when it is made anew the third name is of a closed one.
LEMMA TcpListenOwns ==
  ASSUME opts \in Tests, NEW p, Gives(p), NEW t, t \subseteq {Listener, Prot}, NEW n
  PROVE  Leads(p, Marks(Rest, t, Rest, {}, n), TcpListen, Marks(Most \cup {S, Listener}, Three, Rest, {}, n))
<1> DEFINE a == Most \cup {S}
           b == Most \cup {S, Listener}
           m == Marks(Rest, t, Rest, {}, n)
           m1 == Marks(Fds, Three, Rest, {}, n)
           m2 == Marks(Most, {}, Rest, {}, n)
           m3 == Marks(a, {}, Rest, {}, n)
           m4 == Marks(b, Three, Rest, {}, n)
<1>1. /\ S \in Fds /\ Listener \in Fds /\ Most \subseteq Rest /\ Most \subseteq Fds /\ {Listener, Prot} \subseteq Rest
      /\ Fds \subseteq Rest \cup {S} /\ t \subseteq Three /\ p.of = "owned" /\ S \notin Core /\ Rest \subseteq Fds
      /\ S \in Three /\ Listener \in Three /\ {} \subseteq Three /\ Three \subseteq Three
      /\ Res \in Lists /\ Fds \cap Lists = {} /\ Most = Fds \ Three
  BY RestIs, FdNames, CoreFds DEF Three, Gives, Most
<1>2. Most \subseteq a /\ Most \subseteq b /\ S \in a /\ S \in b /\ b \subseteq Fds /\ b \subseteq a \cup {Listener} /\ a \subseteq Most \cup {S}
  BY <1>1
<1>3. Leads(p, m4, <<Tries(S, {S})>>, m4)
  <2>1. {S} \cap Fds \subseteq b \cap {S} BY <1>2
  <2> HIDE DEF b
  <2> QED BY <2>1, <1>1, <1>2, TryHereOwns
<1>4. CASE ~opts.tuned
  <2>1. Leads(p, m, <<Copies(S, Listener)>>, m4)
    <3>1. Listener \in Rest /\ b \subseteq Rest \cup {S} /\ t \cup {S, Listener} \subseteq Three BY <1>1, <1>2
    <3>2. b \cap (t \cup {S, Listener}) \subseteq Three BY <3>1
    <3>3. Apart(b \cap (t \cup {S, Listener}), Three) BY <3>2, ApartIn
    <3> HIDE DEF b
    <3> QED BY <3>1, <3>3, <1>1, CopyOwns
  <2> HIDE DEF m, m4
  <2>2. Leads(p, m4, <<>>, m4) BY LeadsNowhere
  <2>3. Leads(p, m, TcpListen, m4) BY <2>1, <2>2, <1>3, <1>4, LeadsOn DEF TcpListen
  <2> QED BY <2>3 DEF m, m4, b
<1>5. CASE opts.tuned
  <2>1. Leads(p, m, <<Copies(S, Listener)>>, m1)
    <3>1. Listener \in Rest /\ t \cup {S, Listener} \subseteq Three BY <1>1
    <3>2. Fds \cap (t \cup {S, Listener}) \subseteq Three BY <3>1
    <3>3. Apart(Fds \cap (t \cup {S, Listener}), Three) BY <3>2, ApartIn
    <3> QED BY <3>1, <3>3, <1>1, CopyOwns
  <2>2. Leads(p, m1, <<Drops(S)>>, m2)
    <3>1. Most \subseteq Fds \ ({S} \cup (IF S \in Three THEN Three ELSE {})) /\ {} \subseteq {} \cup {S} BY <1>1
    <3>2. Most \cap Three \subseteq {} BY <1>1
    <3>3. Apart(Most \cap Three, {}) BY <3>2, ApartIn
    <3> QED BY <3>1, <3>3, <1>1, DropOwns
  <2>3. MayEnd(p, m2, S, {}) /\ MayEnd(p, m2, S, {Res})
    <3>1. {} \cap Fds \subseteq Most \cap {S} /\ {Res} \cap Fds \subseteq Most \cap {S} BY <1>1
    <3> QED BY <3>1, <1>1, MayEndHere
  <2>4. Leads(p, m2, <<Resolves(Res, S, {})>>, m2) BY <2>3, <1>1, TryOwns
  <2>5. Leads(p, m2, <<Opens(S, {Res})>>, m3)
    <3>1. Apart(a \cap ({} \ {S}), {}) BY ApartIn
    <3>2. {Res} \in SUBSET (Fds \cup Lists) BY <1>1
    <3> HIDE DEF a
    <3> QED BY <3>1, <3>2, <2>3, <1>1, <1>2, OpenOwns
  <2>6. Leads(p, m3, <<Tries(S, {S, Res})>>, m3) /\ Leads(p, m3, <<Tries(S, {S})>>, m3)
    <3>1. {S, Res} \cap Fds \subseteq a \cap {S} /\ {S} \cap Fds \subseteq a \cap {S} BY <1>1
    <3>2. {S, Res} \in SUBSET (Fds \cup Lists) /\ {S} \in SUBSET (Fds \cup Lists) BY <1>1
    <3> HIDE DEF a
    <3> QED BY <3>1, <3>2, <1>1, <1>2, TryHereOwns
  <2>7. Leads(p, m3, <<Drops(Res)>>, m3) BY <1>1, FreeOwns
  <2>8. Leads(p, m3, <<Copies(Listener, S)>>, m4)
    <3>1. b \cap ({} \cup {Listener, S}) \subseteq Three BY <1>1
    <3>2. Apart(b \cap ({} \cup {Listener, S}), Three) BY <3>1, ApartIn
    <3> HIDE DEF a, b
    <3> QED BY <3>2, <1>1, <1>2, CopyOwns
  <2> HIDE DEF m, m1, m2, m3, m4
  <2>9. Leads(p, m1, <<Drops(S), Resolves(Res, S, {}), Opens(S, {Res}), Tries(S, {S, Res})>>, m3)
    <3>1. Leads(p, m1, <<Drops(S), Resolves(Res, S, {})>>, m2) BY <2>2, <2>4, LeadsTwo
    <3>2. Leads(p, m2, <<Opens(S, {Res}), Tries(S, {S, Res})>>, m3) BY <2>5, <2>6, LeadsTwo
    <3> QED BY <3>1, <3>2, LeadsFour
  <2>10. Leads(p, m3, <<Drops(Res), Tries(S, {S}), Copies(Listener, S)>>, m4)
    BY <2>6, <2>7, <2>8, LeadsTwo, LeadsThree
  <2>11. Leads(p, m, TcpListen, m4) BY <2>1, <2>9, <2>10, <1>3, <1>5, LeadsOn DEF TcpListen
  <2> QED BY <2>11 DEF m, m4, b
<1> QED BY <1>4, <1>5

\* The descriptor that waited for the stream is the stream's, and another waits.
LEMMA UdpAcceptOwns ==
  ASSUME opts \in Tests, NEW p, Gives(p), NEW n
  PROVE  Leads(p, Marks(Rest, {}, Rest, {}, n), UdpAccept, Marks(Fds, {}, Rest, {}, n))
<1> DEFINE m == Marks(Rest, {}, Rest, {}, n)
           m1 == Marks(Fds, {S, Prot}, Rest, {}, n)
           m2 == Marks(Fds, {}, Rest, {}, n)
<1>1. /\ S \in Fds /\ Prot \in Fds /\ Most \subseteq Rest /\ Most \subseteq Fds /\ {Listener, Prot} \subseteq Rest
      /\ Fds \subseteq Rest \cup {S} /\ {S, Prot} \subseteq Three /\ p.of = "owned" /\ Prot \notin Core
      /\ S \in Three /\ Prot \in Three /\ {} \subseteq Three /\ Rest \subseteq Fds /\ Fds \cup {Prot} = Fds
  BY RestIs, FdNames, CoreFds DEF Three, Gives
<1>2. Leads(p, m, <<Copies(S, Prot)>>, m1)
  <2>1. Apart(Fds \cap ({} \cup {S, Prot}), {S, Prot}) BY ApartIn
  <2> QED BY <2>1, <1>1, CopyOwns
<1>3. Leads(p, m1, <<Tries(S, {})>>, m1) /\ Leads(p, m2, <<Tries(S, {})>>, m2) BY <1>1, TryHereOwns
<1>4. Leads(p, m1, Netannounce(Prot, FALSE), m2)
  <2>1. Apart((Fds \cup {Prot}) \cap ({S, Prot} \ {Prot}), {})
    <3>1. (Fds \cup {Prot}) \cap ({S, Prot} \ {Prot}) \subseteq {S} OBVIOUS
    <3> QED BY <3>1 DEF Apart
  <2> QED BY <2>1, <1>1, NetannounceOwns
<1> HIDE DEF m, m1, m2
<1>5. Leads(p, m, <<Copies(S, Prot), Tries(S, {})>>, m1) BY <1>2, <1>3, LeadsTwo
<1>6. Leads(p, m, UdpAccept, m2) BY <1>3, <1>4, <1>5, LeadsOn DEF UdpAccept, BufferCheck
<1> QED BY <1>6 DEF m, m2
-----------------------------------------------------------------------------
(* What the loops over the streams do to the numbers.                      *)

LEMMA MarkSets ==
  ASSUME NEW n
  PROVE  /\ Files(n) \subseteq Most /\ OfStreams({"socket"}, n) \subseteq Most /\ Ctrl \in Most /\ Pipe \in Most
         /\ Files(n) \subseteq Core /\ Ctrl \in Core /\ Pipe \in Core /\ Core \cap Three = {} /\ Most \cap Three = {}
         /\ OfStreams({"socket"}, n) \cap Core = {} /\ \A k : Socket(k) \notin Core
         /\ Ctrl \notin Files(n) /\ Pipe \notin Files(n) /\ Ctrl # Pipe
         /\ {Ctrl, Pipe} \cap OfStreams({"socket"}, n) = {} /\ Files(n) \cap OfStreams({"socket"}, n) = {}
<1>1. \A v \in Three : v[1] \in {"s", "listener", "prot_listener"} BY Names DEF Three
<1>2. \A j : \A v \in Files(j) : v[1] \in {"buffer_fd", "diskfile_fd"} /\ v \in Fds BY DEF Files, OfStreams
<1>3. \A v \in OfStreams({"socket"}, n) : v[1] = "socket" /\ v \in Fds BY DEF OfStreams
<1>4. Files(n) \subseteq Files(NumStreams)
  <2> SUFFICES ASSUME NEW v \in Files(n) PROVE v \in Files(NumStreams) OBVIOUS
  <2>1. v \in Fds /\ v[1] \in {"buffer_fd", "diskfile_fd"} BY DEF Files, OfStreams
  <2>2. v[2] \in 1..NumStreams BY <2>1, StreamFds
  <2> QED BY <2>1, <2>2 DEF Files, OfStreams
<1>5. \A v \in Core : v[1] \in {"ctrl_sck", "interrupt_fds", "buffer_fd", "diskfile_fd"} BY <1>2, Names DEF Core
<1>6. Ctrl \in Fds /\ Pipe \in Fds BY FdNames
<1>7. Files(n) \cap Three = {} /\ OfStreams({"socket"}, n) \cap Three = {} /\ Ctrl \notin Three /\ Pipe \notin Three
  BY <1>1, <1>2, <1>3, Names
<1>8. Files(n) \subseteq Most /\ OfStreams({"socket"}, n) \subseteq Most /\ Ctrl \in Most /\ Pipe \in Most
  BY <1>2, <1>3, <1>6, <1>7 DEF Most
<1>9. Core \cap Three = {} /\ OfStreams({"socket"}, n) \cap Core = {} /\ \A k : Socket(k) \notin Core
  BY <1>1, <1>3, <1>5, Names
<1>10. Files(n) \subseteq Core /\ Ctrl \in Core /\ Pipe \in Core BY <1>4 DEF Core
<1>11. /\ Ctrl \notin Files(n) /\ Pipe \notin Files(n) /\ Ctrl # Pipe
       /\ {Ctrl, Pipe} \cap OfStreams({"socket"}, n) = {} /\ Files(n) \cap OfStreams({"socket"}, n) = {}
  BY <1>2, <1>3, Names
<1>12. Most \cap Three = {} BY DEF Most
<1> QED BY <1>8, <1>9, <1>10, <1>11, <1>12

LEMMA NextOfStreams ==
  ASSUME NEW j \in 1..NumStreams, NEW names
  PROVE  /\ OfStreams(names, j - 1) \subseteq OfStreams(names, j + 1 - 1)
         /\ Socket(j) \notin OfStreams(names, j - 1) /\ Buffer(j) \notin OfStreams(names, j - 1)
         /\ File(j) \notin OfStreams(names, j - 1)
         /\ "socket" \in names => Socket(j) \in OfStreams(names, j + 1 - 1)
         /\ "buffer_fd" \in names => Buffer(j) \in OfStreams(names, j + 1 - 1)
         /\ "diskfile_fd" \in names => File(j) \in OfStreams(names, j + 1 - 1)
<1>1. j \in Nat /\ j + 1 - 1 = j /\ j \in 1..j /\ j \notin 1..j - 1 /\ 1..j - 1 \subseteq 1..j BY BoundsAssumption
<1>2. {Socket(j), Buffer(j), File(j)} \subseteq Fds BY FdNames
<1> QED BY <1>1, <1>2, Names DEF OfStreams

\* Of the test's sockets, each is closed once.
LEMMA DropSocketsOwns ==
  ASSUME NEW p, p.of = "owned", NEW n \in 0..NumStreams, NEW g, NEW s, OfStreams({"socket"}, n) \subseteq g
  PROVE  Leads(p, Marks(g, {}, s, {}, n), Each(n, DropSocket),
                  Marks(g \ OfStreams({"socket"}, n), {}, s, {}, n))
<1> DEFINE left(j) == g \ OfStreams({"socket"}, j - 1)
           h == [j \in 1..n + 1 |-> Marks(left(j), {}, s, {}, n)]
<1>1. ASSUME NEW j \in 1..n PROVE Leads(p, h[j], DropSocket(j), h[j + 1])
  <2>1. j \in 1..NumStreams /\ Socket(j) \in Fds
    <3>1. j \in 1..NumStreams BY BoundsAssumption
    <3> QED BY <3>1, FdNames
  <2>2. Socket(j) \in OfStreams({"socket"}, n) BY <2>1, Names DEF OfStreams
  <2>3. h[j] = Marks(left(j), {}, s, {}, n) /\ h[j + 1] = Marks(left(j + 1), {}, s, {}, n) OBVIOUS
  <2>4. Socket(j) \in left(j) /\ left(j + 1) \subseteq left(j) \ {Socket(j)} BY <2>1, <2>2, NextOfStreams
  <2>5. Apart(left(j + 1) \cap {}, {}) BY ApartSelf
  <2> HIDE DEF h, left
  <2>6. left(j + 1) \subseteq left(j) \ ({Socket(j)} \cup (IF Socket(j) \in {} THEN {} ELSE {})) BY <2>4
  <2> QED BY <2>1, <2>3, <2>4, <2>5, <2>6, DropOwns DEF DropSocket
<1>2. h[1] = Marks(g, {}, s, {}, n)
  <2>1. left(1) = g BY NoneOfStreams
  <2> HIDE DEF left
  <2> QED BY <2>1
<1>3. n \in Nat /\ n + 1 - 1 = n BY BoundsAssumption
<1>4. h[n + 1] = Marks(g \ OfStreams({"socket"}, n), {}, s, {}, n) BY <1>3
<1> HIDE DEF h
<1>5. Leads(p, h[1], Each(n, DropSocket), h[n + 1]) BY <1>1, <1>3, EachDropSocket
<1> QED BY <1>2, <1>4, <1>5

\* They may have been closed before.
LEMMA SpareSocketsOwns ==
  ASSUME NEW p, p.of = "owned", NEW n \in 0..NumStreams, NEW g, g \subseteq Core, NEW s,
         OfStreams({"socket"}, n) \subseteq s, Spared(p.opts, p.at, "socket")
  PROVE  /\ Leads(p, Marks(g, {}, s, {}, n), Each(n, DropSocket), Marks(g, {}, s, {}, n))
         /\ Leads(p, Marks(g, {}, s, {}, n), Each(n, ClearSocket), Marks(g, {}, s, {}, n))
<1> DEFINE m == Marks(g, {}, s, {}, n)
           h == [j \in 1..n + 1 |-> m]
<1>1. ASSUME NEW j \in 1..n PROVE Leads(p, m, DropSocket(j), m) /\ Leads(p, m, ClearSocket(j), m)
  <2>1. j \in 1..NumStreams /\ Socket(j) \in Fds
    <3>1. j \in 1..NumStreams BY BoundsAssumption
    <3> QED BY <3>1, FdNames
  <2>2. Socket(j) \in OfStreams({"socket"}, n) BY <2>1, Names DEF OfStreams
  <2>3. Socket(j) \notin g /\ Socket(j) \in s BY <2>2, MarkSets
  <2>4. Spared(p.opts, p.at, Socket(j)[1])
    <3>1. Socket(j)[1] = "socket" BY Names
    <3> QED BY <3>1
  <2> QED BY <2>1, <2>3, <2>4, SpareOwns DEF DropSocket, ClearSocket
<1>2. n \in Nat BY BoundsAssumption
<1> HIDE DEF m
<1>3. \A j \in 1..n : h[j] = m /\ h[j + 1] = m BY <1>2
<1>4. h[1] = m /\ h[n + 1] = m BY <1>2
<1> HIDE DEF h
<1>5. \A j \in 1..n : Leads(p, h[j], DropSocket(j), h[j + 1]) /\ Leads(p, h[j], ClearSocket(j), h[j + 1])
  BY <1>1, <1>3
<1>6. Leads(p, h[1], Each(n, DropSocket), h[n + 1]) BY <1>2, <1>5, EachDropSocket
<1>7. Leads(p, h[1], Each(n, ClearSocket), h[n + 1]) BY <1>2, <1>5, EachClearSocket
<1> QED BY <1>4, <1>6, <1>7 DEF m

\* A stream's two files.
LEMMA FreeStreamOwns ==
  ASSUME NEW p, p.of = "owned", NEW j \in 1..NumStreams, NEW g, NEW s, NEW n, Buffer(j) \in g, File(j) \in g,
         NEW g2, g2 \subseteq g \ {Buffer(j), File(j)}
  PROVE  Leads(p, Marks(g, {}, s, {}, n), FreeStream(j), Marks(g2, {}, s, {}, n))
<1> DEFINE b == Buffer(j)
           d == File(j)
           a == g \ {b}
           m == Marks(g, {}, s, {}, n)
           m1 == Marks(a, {}, s, {}, n)
           m2 == Marks(g2, {}, s, {}, n)
<1>1. b \in Fds /\ d \in Fds /\ b # d BY FdNames, Names
<1>2. d \in a /\ g2 \subseteq a \ {d} /\ a \subseteq g \ {b} BY <1>1
<1>3. Apart(a \cap {}, {}) /\ Apart(g2 \cap {}, {}) BY ApartSelf
<1> HIDE DEF a, b, d
<1>4. Leads(p, m, <<Drops(b)>>, m1)
  <2>1. b \in g BY DEF b
  <2>2. a \subseteq g \ ({b} \cup (IF b \in {} THEN {} ELSE {})) BY <1>2
  <2> QED BY <2>1, <2>2, <1>1, <1>3, DropOwns
<1>5. Leads(p, m1, <<Drops(d)>>, m2)
  <2>1. g2 \subseteq a \ ({d} \cup (IF d \in {} THEN {} ELSE {})) BY <1>2
  <2> QED BY <2>1, <1>1, <1>2, <1>3, DropOwns
<1> HIDE DEF m, m1, m2
<1>6. Leads(p, m, <<Drops(b), Drops(d)>>, m2) BY <1>4, <1>5, LeadsTwo
<1> QED BY <1>6 DEF FreeStream, b, d, m, m2

LEMMA FreeStreamsOwns ==
  ASSUME NEW p, p.of = "owned", NEW n \in 0..NumStreams, NEW g, NEW s, Files(n) \subseteq g
  PROVE  Leads(p, Marks(g, {}, s, {}, n), Each(n, FreeStream), Marks(g \ Files(n), {}, s, {}, n))
<1> DEFINE left(j) == g \ OfStreams({"buffer_fd", "diskfile_fd"}, j - 1)
           h == [j \in 1..n + 1 |-> Marks(left(j), {}, s, {}, n)]
<1>1. ASSUME NEW j \in 1..n PROVE Leads(p, h[j], FreeStream(j), h[j + 1])
  <2>1. j \in 1..NumStreams BY BoundsAssumption
  <2>2. Buffer(j) \in Files(n) /\ File(j) \in Files(n) BY <2>1, FdNames, Names DEF Files, OfStreams
  <2>3. h[j] = Marks(left(j), {}, s, {}, n) /\ h[j + 1] = Marks(left(j + 1), {}, s, {}, n) OBVIOUS
  <2>4. Buffer(j) \in left(j) /\ File(j) \in left(j) /\ left(j + 1) \subseteq left(j) \ {Buffer(j), File(j)}
    BY <2>1, <2>2, NextOfStreams
  <2> HIDE DEF h, left
  <2> QED BY <2>1, <2>3, <2>4, FreeStreamOwns
<1>2. h[1] = Marks(g, {}, s, {}, n)
  <2>1. left(1) = g BY NoneOfStreams
  <2> HIDE DEF left
  <2> QED BY <2>1
<1>3. n \in Nat /\ n + 1 - 1 = n BY BoundsAssumption
<1>4. h[n + 1] = Marks(g \ Files(n), {}, s, {}, n) BY <1>3 DEF Files
<1> HIDE DEF h
<1>5. Leads(p, h[1], Each(n, FreeStream), h[n + 1]) BY <1>1, <1>3, EachFreeStream
<1> QED BY <1>2, <1>4, <1>5

\* The timer's: the sockets are known to be closed.
LEMMA ClearStreamsOwns ==
  ASSUME NEW p, p.of = "owned", NEW n \in 0..NumStreams, NEW g, NEW s, Files(n) \subseteq g,
         OfStreams({"socket"}, n) \subseteq g
  PROVE  Leads(p, Marks(g, {}, s, {}, n), Each(n, ClearStream), Marks(g \ Files(n), {}, s, {}, n))
<1> DEFINE left(j) == g \ OfStreams({"buffer_fd", "diskfile_fd"}, j - 1)
           h == [j \in 1..n + 1 |-> Marks(left(j), {}, s, {}, n)]
<1>1. ASSUME NEW j \in 1..n PROVE Leads(p, h[j], ClearStream(j), h[j + 1])
  <2>1. j \in 1..NumStreams BY BoundsAssumption
  <2>2. Buffer(j) \in Files(n) /\ File(j) \in Files(n) /\ Socket(j) \in OfStreams({"socket"}, n) /\ Socket(j) \in Fds
    BY <2>1, FdNames, Names DEF Files, OfStreams
  <2>3. h[j] = Marks(left(j), {}, s, {}, n) /\ h[j + 1] = Marks(left(j + 1), {}, s, {}, n) OBVIOUS
  <2>4. Buffer(j) \in left(j) /\ File(j) \in left(j) /\ left(j + 1) \subseteq left(j) \ {Buffer(j), File(j)}
    BY <2>1, <2>2, NextOfStreams
  <2>5. Socket(j) \in left(j) BY <2>1, <2>2, NextOfStreams
  <2>6. Apart(left(j) \cap {}, {}) BY ApartSelf
  <2> HIDE DEF h, left
  <2>7. Leads(p, h[j], <<Clears(Socket(j))>>, h[j])
    <3>1. left(j) \subseteq (left(j) \ (IF Socket(j) \in {} THEN {} ELSE {})) \cup {Socket(j)} OBVIOUS
    <3> QED BY <3>1, <2>2, <2>3, <2>5, <2>6, ClearOwns
  <2>8. Leads(p, h[j], FreeStream(j), h[j + 1]) BY <2>1, <2>3, <2>4, FreeStreamOwns
  <2> QED BY <2>7, <2>8, LeadsOn DEF ClearStream
<1>2. h[1] = Marks(g, {}, s, {}, n)
  <2>1. left(1) = g BY NoneOfStreams
  <2> HIDE DEF left
  <2> QED BY <2>1
<1>3. n \in Nat /\ n + 1 - 1 = n BY BoundsAssumption
<1>4. h[n + 1] = Marks(g \ Files(n), {}, s, {}, n) BY <1>3 DEF Files
<1> HIDE DEF h
<1>5. Leads(p, h[1], Each(n, ClearStream), h[n + 1]) BY <1>1, <1>3, EachClearStream
<1> QED BY <1>2, <1>4, <1>5
-----------------------------------------------------------------------------
(* What a client and a server do closes what is the test's.                *)

LEMMA OwnsFrom ==
  ASSUME NEW a, NEW calls, NEW p, p = [of |-> "owned", opts |-> opts, at |-> a],
         NEW g, NEW t, t \subseteq Three, NEW s, g \subseteq Must(opts, at, streams), Apart(g \cap Twins(opts), t),
         s \subseteq Must(opts, at, streams) \cup Spare(opts, at, streams),
         NEW g2, NEW t2, NEW x2, NEW n2,
         Leads(p, Marks(g, t, s, {}, streams), calls, Marks(g2, t2, s, x2, n2)),
         Must(opts, a, n2) \subseteq g2, Spare(opts, a, n2) \subseteq s \cup g2,
         Apart(Must(opts, a, n2) \cap t2, Twins(opts))
  PROVE  Owning(a, calls)
<1> DEFINE i == Start(opts, at, streams)
           h == Marks(g, t, s, {}, streams)
           e == Marks(g2, t2, s, x2, n2)
<1>1. /\ i.good = Must(opts, at, streams) /\ i.twins = Twins(opts) /\ i.gone = {}
      /\ i.safe = Must(opts, at, streams) \cup Spare(opts, at, streams)
  BY MarkParts DEF Start
<1>2. h.good = g /\ h.twins = t /\ h.safe = s /\ h.gone = {} /\ h.n = streams BY DEF Marks
<1>3. e.good = g2 /\ e.twins = t2 /\ e.safe = s /\ e.n = n2 BY DEF Marks
<1>4. p.opts = opts /\ p.at = a OBVIOUS
<1>5. Leads(p, h, calls, e) OBVIOUS
<1> HIDE DEF i, h, e
<1>6. Relaxes(i, h) BY <1>1, <1>2 DEF Relaxes
<1>7. EndsFit(p, e) BY <1>3, <1>4 DEF EndsFit
<1> QED BY <1>2, <1>5, <1>6, <1>7 DEF Owning, i

LEMMA MustIs ==
  ASSUME NEW o, NEW n
  PROVE  /\ \A a : a \in {"start", "connect", "listen", "accept", "streams"} =>
              Must(o, a, n) = Rest /\ Spare(o, a, n) = {}
         /\ \A a : a \in {"reopen", "busy"} => Must(o, a, n) = Most
         /\ \A a : a \in {"display", "end", "ended", "again"} =>
              /\ Must(o, a, n) = {Pipe} \cup Files(n)
              /\ Spare(o, a, n) = {Ctrl} \cup OfStreams({"socket"}, n)
         /\ Must(o, "cleanup", n) = {Pipe} \cup Files(n) /\ Spare(o, "cleanup", n) = {}
         /\ Must(o, "free", n) = {} /\ Spare(o, "free", n) = {}
         /\ o.role = "client" => \A a : a \in {"refused", "failed"} => Must(o, a, n) = Most /\ Spare(o, a, n) = {}
         /\ o.role = "server" => \A a : a \in {"test_end", "expire", "failed"} =>
              Must(o, a, n) = {Pipe, Ctrl} \cup Files(n)
         /\ o.role = "server" => \A a : a \in {"reopen", "busy", "test_end", "expire", "failed"} =>
              Spare(o, a, n) = {Listener, Prot} \cup OfStreams({"socket"}, n)
BY DEF Must, Spare, Rest

LEMMA TwinsAre ==
  /\ Twins(opts) \subseteq {Listener, Prot} /\ {Listener, Prot} \subseteq Three /\ Twins(opts) \subseteq Three
  /\ opts.protocol = "udp" => Twins(opts) = {}
  /\ opts.protocol = "tcp" => Twins(opts) = {Listener, Prot}
BY DEF Twins, Three

LEMMA GivesHere ==
  ASSUME NEW a, NEW p, p = [of |-> "owned", opts |-> opts, at |-> a],
         a \in {"connect", "streams", "listen", "accept", "reopen", "busy", "test_end"}
  PROVE  Gives(p) /\ p.of = "owned" /\ p.opts = opts /\ p.at = a
<1>1. p.of = "owned" /\ p.opts = opts /\ p.at = a OBVIOUS
<1>2. Failing(a) /\ FailedAt(a) \in {"refused", "failed"} BY DEF Failing, FailedAt
<1> QED BY <1>1, <1>2 DEF Gives

LEMMA ConnectOwns ==
  ASSUME opts \in Tests, opts.role = "client", at = "start"
  PROVE  Owning("connect", Connect)
<1> DEFINE p == [of |-> "owned", opts |-> opts, at |-> "connect"]
           t == Twins(opts)
           n == streams
           m == Marks(Rest, t, Rest, {}, n)
<1>1. Gives(p) /\ p.of = "owned" BY GivesHere
<1>2. /\ Most \subseteq Rest /\ {Listener, Prot} \subseteq Rest /\ t \subseteq Three /\ Ctrl \in Fds /\ S \in Fds
      /\ Rest \cup {Ctrl} = Rest /\ "netdial" \in FunctionNames
  <2>1. Ctrl \in Most BY MarkSets
  <2> QED BY <2>1, RestIs, TwinsAre, FdNames DEF FunctionNames
<1>3. Must(opts, at, n) = Rest /\ Must(opts, "connect", n) = Rest /\ Spare(opts, "connect", n) = {} BY MustIs
<1>4. Apart(Rest \cap t, t) BY ApartSelf
<1> HIDE DEF p, t, n
<1>5. Leads(p, m, Function("netdial", Netdial(Ctrl)), m)
  <2>1. Apart((Rest \cup {Ctrl}) \cap (t \ {Ctrl}), t) BY ApartIn
  <2>2. Leads(p, m, Netdial(Ctrl), Marks(Rest \cup {Ctrl}, t, Rest, {}, n)) BY <2>1, <1>1, <1>2, NetdialOwns
  <2>3. Leads(p, m, Netdial(Ctrl), m) BY <2>2, <1>2
  <2> QED BY <2>3, <1>1, <1>2, FunctionOwns
<1>6. Leads(p, m, <<Tries(S, {})>>, m) BY <1>1, <1>2, TryHereOwns
<1> HIDE DEF m
<1>7. Leads(p, m, Connect, m) BY <1>5, <1>6, LeadsOn DEF Connect
<1>8. Leads(p, Marks(Rest, t, Rest, {}, streams), Connect, Marks(Rest, t, Rest, {}, streams)) BY <1>7 DEF m, n
<1>9. p = [of |-> "owned", opts |-> opts, at |-> "connect"] BY DEF p
<1> QED BY <1>2, <1>3, <1>4, <1>8, <1>9, OwnsFrom DEF n, t

LEMMA ConnectStreamOwns ==
  ASSUME opts \in Tests, streams \in 0..NumStreams, streams < NumStreams, at \in {"connect", "streams"}
  PROVE  Owning("streams", ConnectStream(streams + 1))
<1> DEFINE p == [of |-> "owned", opts |-> opts, at |-> "streams"]
           t == Twins(opts)
           n == streams
           m == Marks(Rest, t, Rest, {}, n)
           m1 == Marks(Fds, t, Rest, {}, n)
           m2 == Marks(Rest, t, Rest, {}, n + 1)
<1>1. Gives(p) /\ p.of = "owned" BY GivesHere
<1>2. t \subseteq Three /\ t \subseteq {Listener, Prot} /\ {"tcp_connect", "udp_connect", "new_stream"} \subseteq FunctionNames
  BY TwinsAre DEF FunctionNames
<1>3. Must(opts, at, n) = Rest /\ Must(opts, "streams", n + 1) = Rest /\ Spare(opts, "streams", n + 1) = {}
  <2>1. at \in {"start", "connect", "listen", "accept", "streams"} OBVIOUS
  <2>2. Must(opts, at, n) = Rest BY <2>1 DEF Must, Rest
  <2>3. Must(opts, "streams", n + 1) = Rest /\ Spare(opts, "streams", n + 1) = {} BY MustIs
  <2> QED BY <2>2, <2>3
<1>4. Apart(Rest \cap t, t) BY ApartSelf
<1>5. n \in Nat /\ n < NumStreams BY BoundsAssumption
<1> HIDE DEF p, t, n
<1>6. Leads(p, m, Function("tcp_connect", TcpConnect), m1) BY <1>1, <1>2, TcpConnectOwns, FunctionOwns
<1>7. Leads(p, m, Function("udp_connect", UdpConnect), m1) BY <1>1, <1>2, UdpConnectOwns, FunctionOwns
<1>8. Leads(p, m1, Function("new_stream", NewStream(n + 1)), m2) BY <1>1, <1>2, <1>5, NewStreamOwns, FunctionOwns
<1> HIDE DEF m, m1, m2
<1>9. Leads(p, m, ConnectStream(n + 1), m2) BY <1>6, <1>7, <1>8, LeadsOn DEF ConnectStream
<1>10. Leads(p, Marks(Rest, t, Rest, {}, streams), ConnectStream(streams + 1), Marks(Rest, t, Rest, {}, n + 1))
  BY <1>9 DEF m, m2, n
<1>11. p = [of |-> "owned", opts |-> opts, at |-> "streams"] BY DEF p
<1> QED BY <1>2, <1>3, <1>4, <1>10, <1>11, OwnsFrom DEF n, t

\* Nothing is done, and less may be relied on.
LEMMA NothingOwns ==
  ASSUME opts.role = "client", at = "streams"
  PROVE  Owning("failed", <<>>)
<1> DEFINE p == [of |-> "owned", opts |-> opts, at |-> "failed"]
           m == Marks(Most, Twins(opts), Most, {}, streams)
<1>1. Leads(p, m, <<>>, m) BY LeadsNowhere
<1>2. Must(opts, at, streams) = Rest /\ Must(opts, "failed", streams) = Most /\ Spare(opts, "failed", streams) = {}
  BY MustIs
<1>3. Apart(Most \cap Twins(opts), Twins(opts)) /\ Twins(opts) \subseteq Three /\ Most \subseteq Rest
  BY ApartSelf, TwinsAre, RestIs
<1> HIDE DEF p
<1>4. p = [of |-> "owned", opts |-> opts, at |-> "failed"] BY DEF p
<1> QED BY <1>1, <1>2, <1>3, <1>4, OwnsFrom

\* A client ends its test, and is stopped and ends it again.
LEMMA ClientEndOwns ==
  ASSUME opts \in Tests, opts.role = "client", streams \in 0..NumStreams, NEW heard \in BOOLEAN,
         at \in {"streams", "refused", "failed"}, NEW a, a = "display" \/ a = "end"
  PROVE  Owning(a, ClientEnd(heard))
<1> DEFINE p == [of |-> "owned", opts |-> opts, at |-> a]
           n == streams
           k == Most \ OfStreams({"socket"}, n)
           e == {Pipe} \cup Files(n)
           m == Marks(Most, {}, Most, {}, n)
           m1 == Marks(k, {}, Most, {}, n)
           m2 == Marks(e, {}, Most, {}, n)
<1>1. p.of = "owned" /\ p.opts = opts /\ p.at = a OBVIOUS
<1>2. Failing(a) /\ FailedAt(a) = "ended" BY DEF Failing, FailedAt
<1>3. /\ Must(opts, "ended", n) = e /\ Spare(opts, "ended", n) = {Ctrl} \cup OfStreams({"socket"}, n)
      /\ Must(opts, a, n) = e /\ Spare(opts, a, n) = {Ctrl} \cup OfStreams({"socket"}, n)
  BY DEF Must, Spare
<1>4. Most \subseteq Must(opts, at, n) BY RestIs DEF Must, Rest
<1>5. e \subseteq k /\ Ctrl \in k /\ e \subseteq k \ {Ctrl} /\ {Ctrl} \cup OfStreams({"socket"}, n) \subseteq Most BY MarkSets
<1>6. Most \cap Twins(opts) \subseteq {} /\ {} \subseteq Three BY MarkSets, TwinsAre
<1>7. S \in Fds /\ Ctrl \in Fds /\ "client_end" \in FunctionNames BY FdNames DEF FunctionNames
<1>8. Apart(Most \cap Twins(opts), {}) /\ Apart(e \cap {}, {}) /\ Apart(e \cap {}, Twins(opts)) BY <1>6, ApartIn
<1> HIDE DEF p
<1>9. Leads(p, m, Each(n, DropSocket), m1)
  <2>1. OfStreams({"socket"}, n) \subseteq Most BY <1>5
  <2> QED BY <2>1, <1>1, DropSocketsOwns
<1>10. Leads(p, m1, Function("client_end", <<Tries(S, {})>>), m1)
  <2>1. MayEnd(p, m1, S, {})
    <3> HIDE DEF k, e, n
    <3>1. m1.good = k /\ m1.safe = Most /\ m1.n = n BY MarkParts
    <3> HIDE DEF m1
    <3>2. Must(p.opts, FailedAt(p.at), m1.n) = e BY <1>1, <1>2, <1>3, <3>1
    <3>3. Spare(p.opts, FailedAt(p.at), m1.n) \subseteq Most BY <1>1, <1>2, <1>3, <1>5, <3>1
    <3> QED BY <3>1, <3>2, <3>3, <1>1, <1>2, <1>5 DEF MayEnd
  <2> HIDE DEF k, n
  <2>2. Leads(p, m1, <<Tries(S, {})>>, m1)
    <3>1. {} \in SUBSET (Fds \cup Lists) OBVIOUS
    <3> QED BY <3>1, <2>1, <1>1, <1>6, <1>7, TryOwns
  <2> QED BY <2>2, <1>1, <1>6, <1>7, FunctionOwns
<1>11. Leads(p, m1, <<Drops(Ctrl)>>, m2)
  <2>1. e \subseteq k \ ({Ctrl} \cup (IF Ctrl \in {} THEN {} ELSE {})) /\ {} \subseteq {} \cup {Ctrl} BY <1>5
  <2> HIDE DEF k, e, n
  <2> QED BY <2>1, <1>1, <1>5, <1>6, <1>7, <1>8, DropOwns
<1> HIDE DEF m, m1, m2
<1>12. Leads(p, m, ClientEnd(heard), m2)
  <2>1. CASE heard BY <2>1, <1>9, <1>10, <1>11, LeadsOn DEF ClientEnd, n
  <2>2. CASE ~heard
    <3>1. Leads(p, m1, <<>>, m1) BY LeadsNowhere
    <3> QED BY <2>2, <3>1, <1>9, <1>11, LeadsOn DEF ClientEnd, n
  <2> QED BY <2>1, <2>2
<1>13. Leads(p, Marks(Most, {}, Most, {}, streams), ClientEnd(heard), Marks(e, {}, Most, {}, n))
  BY <1>12 DEF m, m2, n
<1>14. p = [of |-> "owned", opts |-> opts, at |-> a] BY DEF p
<1>15. Most \subseteq Must(opts, at, streams) \cup Spare(opts, at, streams) BY <1>4
<1> HIDE DEF e
<1>16. Must(opts, a, n) \subseteq e /\ Spare(opts, a, n) \subseteq Most \cup e BY <1>3, <1>5
<1>17. Apart(Must(opts, a, n) \cap {}, Twins(opts)) BY <1>3, <1>8
<1> QED BY <1>4, <1>6, <1>8, <1>13, <1>14, <1>15, <1>16, <1>17, OwnsFrom DEF n

LEMMA AgainOwns ==
  ASSUME opts \in Tests, opts.role = "client", streams \in 0..NumStreams, at \in {"display", "end", "ended"}
  PROVE  Owning("again", ClientEnd(TRUE))
<1> DEFINE p == [of |-> "owned", opts |-> opts, at |-> "again"]
           n == streams
           g == {Pipe} \cup Files(n)
           o == {Ctrl} \cup OfStreams({"socket"}, n)
           s == g \cup o
           m == Marks(g, {}, s, {}, n)
<1>1. p.of = "owned" /\ p.opts = opts /\ p.at = "again" OBVIOUS
<1>2. Failing("again") /\ FailedAt("again") = "ended" BY DEF Failing, FailedAt
<1>3. /\ Must(opts, "ended", n) = g /\ Spare(opts, "ended", n) = o
      /\ Must(opts, "again", n) = g /\ Spare(opts, "again", n) = o
  BY MustIs
<1>4. Must(opts, at, n) = g /\ Spare(opts, at, n) = o BY DEF Must, Spare
<1>5. g \subseteq Core /\ Ctrl \notin g /\ Ctrl \in s /\ OfStreams({"socket"}, n) \subseteq s /\ g \cap Three = {}
  BY MarkSets
<1>6. /\ g \cap Twins(opts) \subseteq {} /\ {} \subseteq Three /\ S \in Fds /\ Ctrl \in Fds
      /\ "client_end" \in FunctionNames
  BY <1>5, TwinsAre, FdNames DEF FunctionNames
<1>7. Spared(p.opts, p.at, "socket") /\ Spared(p.opts, p.at, Ctrl[1])
  <2>1. Ctrl[1] = "ctrl_sck" BY Names
  <2> QED BY <2>1, <1>1 DEF Spared
<1>8. Apart(g \cap Twins(opts), {}) /\ Apart(g \cap {}, Twins(opts)) BY <1>6, ApartIn
<1> HIDE DEF p, g, o
<1>9. Leads(p, m, Each(n, DropSocket), m)
  <2> HIDE DEF s
  <2> QED BY <1>1, <1>5, <1>7, SpareSocketsOwns
<1>10. Leads(p, m, Function("client_end", <<Tries(S, {})>>), m)
  <2>1. MayEnd(p, m, S, {})
    <3> HIDE DEF n
    <3>1. m.good = g /\ m.safe = s /\ m.n = n BY MarkParts
    <3> HIDE DEF m
    <3>2. Must(p.opts, FailedAt(p.at), m.n) = g BY <1>1, <1>2, <1>3, <3>1
    <3>3. Spare(p.opts, FailedAt(p.at), m.n) \subseteq s BY <1>1, <1>2, <1>3, <3>1
    <3> QED BY <3>1, <3>2, <3>3, <1>1, <1>2 DEF MayEnd
  <2> HIDE DEF s, n
  <2>2. Leads(p, m, <<Tries(S, {})>>, m)
    <3>1. {} \in SUBSET (Fds \cup Lists) OBVIOUS
    <3> QED BY <3>1, <2>1, <1>1, <1>6, TryOwns
  <2> QED BY <2>2, <1>1, <1>6, FunctionOwns
<1>11. Leads(p, m, <<Drops(Ctrl)>>, m)
  <2> HIDE DEF s, n
  <2> QED BY <1>1, <1>5, <1>6, <1>7, SpareOwns
<1> HIDE DEF m
<1>12. Leads(p, m, ClientEnd(TRUE), m) BY <1>9, <1>10, <1>11, LeadsOn DEF ClientEnd, n
<1>13. Leads(p, Marks(g, {}, s, {}, streams), ClientEnd(TRUE), Marks(g, {}, s, {}, n)) BY <1>12 DEF m, n
<1>14. p = [of |-> "owned", opts |-> opts, at |-> "again"] BY DEF p
<1>15. s \subseteq Must(opts, at, streams) \cup Spare(opts, at, streams) /\ g \subseteq Must(opts, at, streams)
  BY <1>4 DEF n
<1>16. Must(opts, "again", n) \subseteq g /\ Spare(opts, "again", n) \subseteq s \cup g BY <1>3
<1>17. Apart(Must(opts, "again", n) \cap {}, Twins(opts)) BY <1>3, <1>8
<1> HIDE DEF s
<1> QED BY <1>6, <1>8, <1>13, <1>14, <1>15, <1>16, <1>17, OwnsFrom DEF n

\* The test is freed.
LEMMA FreeTestOwns ==
  ASSUME streams \in 0..NumStreams, at \in {"display", "end", "ended", "again", "cleanup"}
  PROVE  Owning("free", FreeTest)
<1> DEFINE p == [of |-> "owned", opts |-> opts, at |-> "free"]
           n == streams
           g == {Pipe} \cup Files(n)
           k == g \ Files(n)
           m == Marks(g, {}, {}, {}, n)
           m1 == Marks(k, {}, {}, {}, n)
           m2 == Marks({}, {}, {}, {}, n)
<1>1. p.of = "owned" OBVIOUS
<1>2. Must(opts, at, n) = g BY DEF Must
<1>3. Must(opts, "free", n) = {} /\ Spare(opts, "free", n) = {} BY MustIs
<1>4. Pipe \in k /\ Files(n) \subseteq g /\ g \cap Three = {} BY MarkSets
<1>5. g \cap Twins(opts) \subseteq {} /\ {} \subseteq Three /\ Pipe \in Fds BY <1>4, TwinsAre, FdNames
<1>6. Apart(g \cap Twins(opts), {}) /\ Apart({} \cap {}, {}) /\ Apart({} \cap {}, Twins(opts)) BY <1>5, ApartIn
<1> HIDE DEF p, g
<1>7. Leads(p, m, Each(n, FreeStream), m1) BY <1>1, <1>4, FreeStreamsOwns
<1>8. Leads(p, m1, <<Clears(Pipe)>>, m2)
  <2> HIDE DEF k, n
  <2>1. {} \subseteq (k \ (IF Pipe \in {} THEN {} ELSE {})) \cup {Pipe} OBVIOUS
  <2> QED BY <2>1, <1>1, <1>4, <1>5, <1>6, ClearOwns
<1> HIDE DEF m, m1, m2
<1>9. Leads(p, m, FreeTest, m2) BY <1>7, <1>8, LeadsOn DEF FreeTest, n
<1>10. Leads(p, Marks(g, {}, {}, {}, streams), FreeTest, Marks({}, {}, {}, {}, n)) BY <1>9 DEF m, m2, n
<1>11. p = [of |-> "owned", opts |-> opts, at |-> "free"] BY DEF p
<1>12. g \subseteq Must(opts, at, streams) BY <1>2 DEF n
<1>13. Apart(Must(opts, "free", n) \cap {}, Twins(opts)) BY <1>3, <1>6
<1>14. Must(opts, "free", n) \subseteq {} /\ Spare(opts, "free", n) \subseteq {} \cup {} BY <1>3
<1>15. {} \subseteq Must(opts, at, streams) \cup Spare(opts, at, streams) OBVIOUS
<1> QED BY <1>5, <1>6, <1>10, <1>11, <1>12, <1>13, <1>14, <1>15, OwnsFrom DEF n

\* A server listens.
LEMMA ListenOwns ==
  ASSUME opts \in Tests, at = "start"
  PROVE  Owning("listen", Listen)
<1> DEFINE p == [of |-> "owned", opts |-> opts, at |-> "listen"]
           t == Twins(opts)
           n == streams
           m == Marks(Rest, t, Rest, {}, n)
<1>1. Gives(p) /\ p.of = "owned" BY GivesHere
<1>2. /\ Most \subseteq Rest /\ {Listener, Prot} \subseteq Rest /\ t \subseteq Three /\ Listener \in Fds
      /\ Rest \cup {Listener} = Rest /\ "netannounce" \in FunctionNames /\ Pipe \in Rest
  <2>1. Pipe \in Most BY MarkSets
  <2> QED BY <2>1, RestIs, TwinsAre, FdNames DEF FunctionNames
<1>3. Must(opts, at, n) = Rest /\ Must(opts, "listen", n) = Rest /\ Spare(opts, "listen", n) = {} BY MustIs
<1>4. Apart(Rest \cap t, t) BY ApartSelf
<1> HIDE DEF p, t, n
<1>5. Leads(p, m, Function("netannounce", Netannounce(Listener, TRUE)), m)
  <2>1. Apart((Rest \cup {Listener}) \cap (t \ {Listener}), t) BY ApartIn
  <2>2. Leads(p, m, Netannounce(Listener, TRUE), Marks(Rest \cup {Listener}, t, Rest, {}, n))
    BY <2>1, <1>1, <1>2, NetannounceOwns
  <2>3. Leads(p, m, Netannounce(Listener, TRUE), m) BY <2>2, <1>2
  <2> QED BY <2>3, <1>1, <1>2, FunctionOwns
<1>6. Leads(p, m, <<Call("pipe", Pipe, Pipe, {})>>, m) BY <1>1, <1>2, PipeOwns
<1> HIDE DEF m
<1>7. Leads(p, m, Listen, m) BY <1>5, <1>6, LeadsOn DEF Listen
<1>8. Leads(p, Marks(Rest, t, Rest, {}, streams), Listen, Marks(Rest, t, Rest, {}, streams)) BY <1>7 DEF m, n
<1>9. p = [of |-> "owned", opts |-> opts, at |-> "listen"] BY DEF p
<1> QED BY <1>2, <1>3, <1>4, <1>8, <1>9, OwnsFrom DEF n, t

\* The control connection; the listener has two names with TCP.
LEMMA AcceptOwns ==
  ASSUME opts \in Tests, at = "listen"
  PROVE  Owning("accept", Accept)
<1> DEFINE p == [of |-> "owned", opts |-> opts, at |-> "accept"]
           t == Twins(opts)
           n == streams
           tcp == opts.protocol = "tcp"
           b == IF tcp THEN Most \cup {S, Listener} ELSE Fds
           u == IF tcp THEN Three ELSE {}
           t2 == IF tcp THEN Three ELSE {S, Prot}
           m == Marks(Rest, t, Rest, {}, n)
           m1 == Marks(b, u, Rest, {}, n)
           m2 == Marks(Fds, t2, Rest, {}, n)
           f == IF opts.protocol = "tcp" THEN Function("tcp_listen", TcpListen) ELSE Function("udp_listen", UdpListen)
<1>1. Gives(p) /\ p.of = "owned" BY GivesHere
<1>2. /\ Most \subseteq Rest /\ Most \subseteq Fds /\ {Listener, Prot} \subseteq Rest /\ t \subseteq Three
      /\ t \subseteq {Listener, Prot} /\ Ctrl \in Fds /\ S \in Fds /\ Rest \subseteq Rest \cup {Ctrl}
      /\ {"tcp_listen", "udp_listen"} \subseteq FunctionNames /\ S \notin Core /\ Rest \cup {S} = Fds /\ Rest \subseteq Fds
      /\ S \in Three /\ Prot \in Three /\ {} \subseteq Three /\ Three \subseteq Three /\ {S, Prot} \subseteq Three
      /\ Listener \in Three
  BY RestIs, TwinsAre, FdNames, CoreFds DEF FunctionNames, Three
<1>3. Must(opts, at, n) = Rest /\ Must(opts, "accept", n) = Rest /\ Spare(opts, "accept", n) = {} BY MustIs
<1>4. Apart(Rest \cap t, t) BY ApartSelf
<1>5. S \in b /\ Fds \subseteq b \cup {Prot} /\ b \subseteq Fds
  BY <1>2, RestIs
<1>6. t2 \subseteq Three /\ Apart(Fds \cap (u \cup {Prot, S}), t2) /\ u \subseteq Three
  <2>1. Fds \cap (u \cup {Prot, S}) \subseteq t2 BY <1>2
  <2>2. t2 \subseteq Three /\ u \subseteq Three BY <1>2
  <2> HIDE DEF t2, u
  <2> QED BY <2>1, <2>2, ApartIn
<1>7. Apart(Rest \cap t2, t)
  <2>1. CASE tcp
    <3>1. Rest \cap t2 \subseteq t BY <2>1, TwinsAre, RestIs DEF Three
    <3> QED BY <3>1, ApartIn
  <2>2. CASE ~tcp
    <3>1. Rest \cap t2 \subseteq {Prot} BY <2>2, RestIs
    <3> QED BY <3>1 DEF Apart
  <2> QED BY <2>1, <2>2
<1>8. ~tcp => t = {}
  <2>1. ~tcp => opts.protocol = "udp" BY OptsAre
  <2> QED BY <2>1, TwinsAre
<1> HIDE DEF p, t, n
<1>9. Leads(p, m, <<Opens(Ctrl, {})>>, m)
  <2>1. Apart(Rest \cap (t \ {Ctrl}), t) BY ApartIn
  <2>2. MayEnd(p, m, Ctrl, {}) BY <1>1, <1>2, MayEndHere
  <2>3. {} \in SUBSET (Fds \cup Lists) OBVIOUS
  <2> QED BY <2>1, <2>2, <2>3, <1>1, <1>2, OpenOwns
<1>10. Leads(p, m, <<Tries(S, {})>>, m) BY <1>1, <1>2, TryHereOwns
<1>11. tcp => Leads(p, m, Function("tcp_listen", TcpListen), m1)
  <2>1. Leads(p, m, TcpListen, Marks(Most \cup {S, Listener}, Three, Rest, {}, n)) BY <1>1, <1>2, TcpListenOwns
  <2>2. Leads(p, m, Function("tcp_listen", TcpListen), Marks(Most \cup {S, Listener}, Three, Rest, {}, n))
    BY <2>1, <1>1, <1>2, FunctionOwns
  <2> QED BY <2>2
<1>12. ~tcp => Leads(p, m, Function("udp_listen", UdpListen), m1)
  <2>1. Apart((Rest \cup {S}) \cap ({} \ {S}), {}) BY ApartIn
  <2>2. Leads(p, Marks(Rest, {}, Rest, {}, n), Netannounce(S, FALSE), Marks(Rest \cup {S}, {}, Rest, {}, n))
    BY <2>1, <1>1, <1>2, NetannounceOwns
  <2>3. Leads(p, Marks(Rest, {}, Rest, {}, n), UdpListen, Marks(Fds, {}, Rest, {}, n)) BY <2>2, <1>2 DEF UdpListen
  <2>4. Leads(p, Marks(Rest, {}, Rest, {}, n), Function("udp_listen", UdpListen), Marks(Fds, {}, Rest, {}, n))
    BY <2>3, <1>1, <1>2, FunctionOwns
  <2> QED BY <2>4, <1>8
<1>13. Leads(p, m1, <<Copies(Prot, S)>>, m2)
  <2> HIDE DEF b, u, t2
  <2> QED BY <1>1, <1>2, <1>5, <1>6, CopyOwns
<1>14. Leads(p, m2, <<Tries(S, {})>>, m2)
  <2> HIDE DEF t2
  <2> QED BY <1>1, <1>2, <1>6, TryHereOwns
<1>15. Leads(p, m, f, m1)
  <2> HIDE DEF m, m1
  <2> QED BY <1>11, <1>12
<1>16. Accept = <<Opens(Ctrl, {}), Tries(S, {})>> \o f \o <<Copies(Prot, S), Tries(S, {})>> BY DEF Accept
<1> HIDE DEF m, m1, m2, f
<1>17. Leads(p, m, <<Opens(Ctrl, {}), Tries(S, {})>>, m) BY <1>9, <1>10, LeadsTwo
<1>18. Leads(p, m1, <<Copies(Prot, S), Tries(S, {})>>, m2) BY <1>13, <1>14, LeadsTwo
<1>19. Leads(p, m, <<Opens(Ctrl, {}), Tries(S, {})>> \o f, m1) BY <1>15, <1>17, LeadsOn
<1>20. Leads(p, m, Accept, m2) BY <1>16, <1>18, <1>19, LeadsOn
<1> HIDE DEF t2
<1>21. Leads(p, Marks(Rest, t, Rest, {}, streams), Accept, Marks(Fds, t2, Rest, {}, n)) BY <1>20 DEF m, m2, n
<1>22. p = [of |-> "owned", opts |-> opts, at |-> "accept"] BY DEF p
<1>23. Must(opts, "accept", n) \subseteq Fds /\ Spare(opts, "accept", n) \subseteq Rest \cup Fds BY <1>2, <1>3
<1>24. Apart(Must(opts, "accept", n) \cap t2, Twins(opts)) BY <1>3, <1>7 DEF t
<1>25. Rest \subseteq Must(opts, at, streams) \cup Spare(opts, at, streams) /\ Rest \subseteq Must(opts, at, streams)
  BY <1>3 DEF n
<1>26. Apart(Rest \cap Twins(opts), t) BY <1>4 DEF t
<1> QED BY <1>2, <1>21, <1>22, <1>23, <1>24, <1>25, <1>26, OwnsFrom

\* A stream's socket, or that of a client that was refused.
LEMMA AcceptStreamOwns ==
  ASSUME opts \in Tests, streams \in 0..NumStreams, streams < NumStreams, at \in {"accept", "streams"},
         NEW refused \in BOOLEAN, refused => opts.protocol = "tcp"
  PROVE  Owning("streams", AcceptStream(streams + 1, refused))
<1> DEFINE p == [of |-> "owned", opts |-> opts, at |-> "streams"]
           t == Twins(opts)
           n == streams
           r == IF refused THEN Rest ELSE Fds
           x == IF refused THEN {S} ELSE {}
           m == Marks(Rest, t, Rest, {}, n)
           m1 == Marks(r, t, Rest, x, n)
           m2 == Marks(Fds, t, Rest, {}, n)
           m3 == Marks(Rest, t, Rest, {}, n + 1)
           f == IF opts.protocol = "tcp" THEN Function("tcp_accept", TcpAccept(refused))
                                         ELSE Function("udp_accept", UdpAccept)
<1>1. Gives(p) /\ p.of = "owned" /\ p.opts = opts /\ p.at = "streams" BY GivesHere
<1>2. /\ t \subseteq Three /\ t \subseteq {Listener, Prot} /\ Most \subseteq r /\ Rest \subseteq r /\ S \in Fds
      /\ {Listener, Prot} \subseteq Rest /\ {} \subseteq Three
      /\ {"tcp_accept", "udp_accept", "sockopts", "new_stream"} \subseteq FunctionNames
  BY TwinsAre, RestIs DEF FunctionNames
<1>3. /\ Must(opts, at, n) = Rest /\ \A j : Must(opts, "streams", j) = Rest /\ Spare(opts, "streams", j) = {}
  <2>1. Must(opts, at, n) = Rest BY DEF Must, Rest
  <2> QED BY <2>1, MustIs
<1>4. Apart(Rest \cap t, t) BY ApartSelf
<1>5. n \in Nat /\ n < NumStreams BY BoundsAssumption
<1>6. IF S \in r THEN Fds = r ELSE S \in x BY RestIs
<1>7. opts.protocol # "tcp" => t = {} /\ ~refused
  <2>1. opts.protocol # "tcp" => opts.protocol = "udp" BY OptsAre
  <2> QED BY <2>1, TwinsAre
<1> HIDE DEF p, n
<1>8. Leads(p, m, Function("tcp_accept", TcpAccept(refused)), m1)
  <2> HIDE DEF t
  <2>1. Leads(p, m, TcpAccept(refused), m1)
    <3>1. Leads(p, m, TcpAccept(refused), IF refused THEN Marks(Rest, t, Rest, {S}, n) ELSE Marks(Fds, t, Rest, {}, n))
      BY <1>1, <1>2, TcpAcceptOwns
    <3>2. m1 = IF refused THEN Marks(Rest, t, Rest, {S}, n) ELSE Marks(Fds, t, Rest, {}, n) OBVIOUS
    <3> QED BY <3>1, <3>2
  <2> HIDE DEF r, x
  <2> QED BY <2>1, <1>1, <1>2, FunctionOwns
<1>9. opts.protocol # "tcp" => Leads(p, m, Function("udp_accept", UdpAccept), m1)
  <2>1. Leads(p, Marks(Rest, {}, Rest, {}, n), UdpAccept, Marks(Fds, {}, Rest, {}, n)) BY <1>1, UdpAcceptOwns
  <2>2. Leads(p, Marks(Rest, {}, Rest, {}, n), Function("udp_accept", UdpAccept), Marks(Fds, {}, Rest, {}, n))
    BY <2>1, <1>1, <1>2, FunctionOwns
  <2> QED BY <2>2, <1>7
<1> HIDE DEF t, r, x
<1>10. Leads(p, m1, Function("sockopts", CommonSockopts), m1)
  <2>1. {Listener, Prot} \subseteq Rest \cup r BY <1>2
  <2>2. Leads(p, m1, <<Tries(S, {})>>, m1) BY <2>1, <1>1, <1>2, TryHereOwns
  <2> QED BY <2>2, <1>1, <1>2, FunctionOwns DEF CommonSockopts
<1>11. Leads(p, m1, <<Does("is_closed")>>, m2)
  <2>1. EndsFit(p, m1)
    <3>1. m1.good = r /\ m1.twins = t /\ m1.safe = Rest /\ m1.n = n BY MarkParts
    <3>2. Twins(p.opts) = t BY <1>1 DEF t
    <3> HIDE DEF m1
    <3>3. Must(p.opts, p.at, m1.n) = Rest /\ Spare(p.opts, p.at, m1.n) = {} BY <1>1, <1>3
    <3> QED BY <3>1, <3>2, <3>3, <1>2, <1>4 DEF EndsFit
  <2> QED BY <2>1, <1>1, <1>2, <1>6, IsClosedOwns
<1>12. Leads(p, m2, Function("new_stream", NewStream(n + 1)), m3) BY <1>1, <1>2, <1>5, NewStreamOwns, FunctionOwns
<1> HIDE DEF m, m1, m2, m3
<1>13. Leads(p, m, f, m1) BY <1>8, <1>9
<1>14. AcceptStream(n + 1, refused) = f \o Function("sockopts", CommonSockopts) \o <<Does("is_closed")>>
                                        \o Function("new_stream", NewStream(n + 1))
  BY DEF AcceptStream
<1> HIDE DEF f
<1>15. Leads(p, m, AcceptStream(n + 1, refused), m3) BY <1>10, <1>11, <1>12, <1>13, <1>14, LeadsOn
<1>16. Leads(p, Marks(Rest, t, Rest, {}, streams), AcceptStream(streams + 1, refused), Marks(Rest, t, Rest, {}, n + 1))
  BY <1>15 DEF m, m3, n
<1>17. p = [of |-> "owned", opts |-> opts, at |-> "streams"] BY DEF p
<1>18. Rest \subseteq Must(opts, at, streams) \cup Spare(opts, at, streams) /\ Rest \subseteq Must(opts, at, streams)
  BY <1>3 DEF n
<1>19. Must(opts, "streams", n + 1) \subseteq Rest /\ Spare(opts, "streams", n + 1) \subseteq Rest \cup Rest
       /\ Apart(Must(opts, "streams", n + 1) \cap t, Twins(opts))
  BY <1>3, <1>4 DEF t
<1>20. Apart(Rest \cap Twins(opts), t) BY <1>4 DEF t
<1> QED BY <1>2, <1>16, <1>17, <1>18, <1>19, <1>20, OwnsFrom

\* The streams are there: the listener is made anew when it was tuned.
LEMMA ReopenOwns ==
  ASSUME opts \in Tests, opts.role = "server", at = "streams"
  PROVE  Owning("reopen", Reopen)
<1> DEFINE p == [of |-> "owned", opts |-> opts, at |-> "reopen"]
           n == streams
           tuned == <<Clears(Listener)>> \o Function("netannounce", Netannounce(S, TRUE)) \o <<Copies(Listener, S)>>
           first == IF opts.protocol = "udp" THEN <<Clears(Prot)>> ELSE IF opts.tuned THEN tuned ELSE <<>>
           plain == opts.protocol = "tcp" /\ ~opts.tuned
           g == IF plain THEN Most ELSE Rest
           t == IF plain THEN {} ELSE Twins(opts)
           m == Marks(g, t, Rest, {}, n)
           m1 == Marks(Most, {}, Rest, {}, n)
           m2 == Marks(Most \cup {S}, {}, Rest, {}, n)
<1>1. Gives(p) /\ p.of = "owned" BY GivesHere
<1>2. /\ Most \subseteq Rest /\ {Listener, Prot} \subseteq Rest /\ {} \subseteq Three /\ t \subseteq Three /\ S \in Fds
      /\ Listener \in Rest /\ Prot \in Rest /\ Listener \in Fds /\ Prot \in Fds /\ "netannounce" \in FunctionNames
      /\ S \notin Core /\ S \in Three /\ Listener \in Three /\ Rest \subseteq Fds
  BY RestIs, TwinsAre, FdNames, CoreFds DEF FunctionNames, Three
<1>3. Must(opts, at, n) = Rest /\ Must(opts, "reopen", n) = Most
      /\ Spare(opts, "reopen", n) = {Listener, Prot} \cup OfStreams({"socket"}, n)
  BY MustIs
<1>4. {Listener, Prot} \cup OfStreams({"socket"}, n) \subseteq Rest BY <1>2, MarkSets
<1>5. Most \cap Three = {} /\ Most \cap Twins(opts) = {} BY MarkSets, TwinsAre
<1>6. Apart(g \cap Twins(opts), t) /\ g \subseteq Rest
  <2>1. plain => Apart(g \cap Twins(opts), t) BY <1>5, ApartIn
  <2>2. ~plain => Apart(g \cap Twins(opts), t) BY ApartSelf
  <2> QED BY <2>1, <2>2, <1>2
<1>7. \A y : Apart(Most \cap {}, {}) /\ Apart(Most \cap {}, y)
  <2>1. \A y : Most \cap {} \subseteq y OBVIOUS
  <2> QED BY <2>1 DEF Apart
<1> HIDE DEF p, n
<1>8. opts.protocol = "udp" => Leads(p, m, <<Clears(Prot)>>, m1)
  <2> SUFFICES ASSUME opts.protocol = "udp" PROVE Leads(p, m, <<Clears(Prot)>>, m1) OBVIOUS
  <2>1. g = Rest /\ t = {} BY TwinsAre
  <2>2. Most \subseteq (g \ (IF Prot \in t THEN t ELSE {})) \cup {Prot} /\ Apart(Most \cap t, {}) /\ Prot \in g
    BY <2>1, <1>2, <1>7
  <2> HIDE DEF g, t
  <2> QED BY <2>2, <1>1, <1>2, ClearOwns
<1>9. opts.protocol = "tcp" /\ opts.tuned => Leads(p, m, tuned, m1)
  <2> SUFFICES ASSUME opts.protocol = "tcp", opts.tuned PROVE Leads(p, m, tuned, m1) OBVIOUS
  <2>1. Leads(p, m, <<Clears(Listener)>>, m1)
    <3>1. g = Rest /\ t = {Listener, Prot} BY TwinsAre
    <3>2. Rest = Most \cup {Listener, Prot} /\ Listener \notin Most /\ Prot \notin Most BY RestIs
    <3>3. Most \subseteq (g \ (IF Listener \in t THEN t ELSE {})) \cup {Listener} /\ Listener \in g
      BY <3>1, <3>2
    <3>4. Apart(Most \cap t, {})
      <4>1. Most \cap t \subseteq {} BY <3>1, <3>2
      <4> HIDE DEF t
      <4> QED BY <4>1, ApartIn
    <3> HIDE DEF g, t
    <3> QED BY <3>3, <3>4, <1>1, <1>2, ClearOwns
  <2>2. Leads(p, m1, Function("netannounce", Netannounce(S, TRUE)), m2)
    <3>1. Apart((Most \cup {S}) \cap ({} \ {S}), {}) BY ApartIn
    <3>2. {Listener, Prot} \subseteq Rest \cup Most BY <1>2
    <3>3. Leads(p, m1, Netannounce(S, TRUE), m2) BY <3>1, <3>2, <1>1, <1>2, NetannounceOwns
    <3> DEFINE a == Most \cup {S}
    <3> HIDE DEF a
    <3>4. m2 = Marks(a, {}, Rest, {}, n) BY DEF a
    <3> QED BY <3>3, <3>4, <1>1, <1>2, FunctionOwns
  <2>3. Leads(p, m2, <<Copies(Listener, S)>>, m1)
    <3> DEFINE a == Most \cup {S}
    <3>1. S \in a /\ Most \subseteq a \cup {Listener} OBVIOUS
    <3>2. Apart(Most \cap ({} \cup {Listener, S}), {})
      <4>1. Most \cap ({} \cup {Listener, S}) \subseteq {} BY <1>2, <1>5
      <4> QED BY <4>1, ApartIn
    <3>3. m2 = Marks(a, {}, Rest, {}, n) OBVIOUS
    <3> HIDE DEF a, m2
    <3> QED BY <3>1, <3>2, <3>3, <1>1, <1>2, CopyOwns
  <2> HIDE DEF m, m1, m2
  <2>4. Leads(p, m, <<Clears(Listener)>> \o Function("netannounce", Netannounce(S, TRUE)), m2) BY <2>1, <2>2, LeadsOn
  <2> QED BY <2>3, <2>4, LeadsOn
<1>10. plain => Leads(p, m, <<>>, m1)
  <2>1. Leads(p, m, <<>>, m) BY LeadsNowhere
  <2>2. plain => m = m1 OBVIOUS
  <2> HIDE DEF m, m1, plain
  <2> QED BY <2>1, <2>2
<1>11. Leads(p, m, first, m1)
  <2>1. opts.protocol = "udp" \/ (opts.protocol = "tcp" /\ opts.tuned) \/ plain BY OptsAre
  <2>2. opts.protocol = "tcp" => opts.protocol # "udp" OBVIOUS
  <2> HIDE DEF m, m1, tuned
  <2> QED BY <2>1, <2>2, <1>8, <1>9, <1>10
<1>12. Leads(p, m1, <<Forgets(Prot)>>, m1)
  <2>1. Most \subseteq Most \cup {Prot} OBVIOUS
  <2> QED BY <2>1, <1>1, <1>2, <1>7, ForgetOwns
<1>13. Leads(p, m1, <<Tries(S, {})>>, m1)
  <2>1. {Listener, Prot} \subseteq Rest \cup Most BY <1>2
  <2> QED BY <2>1, <1>1, <1>2, TryHereOwns
<1>14. Reopen = first \o <<Forgets(Prot), Tries(S, {})>> BY DEF Reopen
<1> HIDE DEF first, m, m1, m2, g, t
<1>15. Leads(p, m1, <<Forgets(Prot), Tries(S, {})>>, m1) BY <1>12, <1>13, LeadsTwo
<1>16. Leads(p, m, Reopen, m1) BY <1>11, <1>14, <1>15, LeadsOn
<1>17. Leads(p, Marks(g, t, Rest, {}, streams), Reopen, Marks(Most, {}, Rest, {}, n)) BY <1>16 DEF m, m1, n
<1>18. p = [of |-> "owned", opts |-> opts, at |-> "reopen"] BY DEF p
<1>19. Rest \subseteq Must(opts, at, streams) \cup Spare(opts, at, streams) /\ g \subseteq Must(opts, at, streams)
  BY <1>3, <1>6 DEF n
<1>20. Must(opts, "reopen", n) \subseteq Most /\ Spare(opts, "reopen", n) \subseteq Rest \cup Most
       /\ Apart(Must(opts, "reopen", n) \cap {}, Twins(opts))
  BY <1>3, <1>4, <1>7
<1> QED BY <1>2, <1>6, <1>17, <1>18, <1>19, <1>20, OwnsFrom

\* What is known while a test runs.
LEMMA RunningOwns ==
  ASSUME opts.role = "server", at \in {"reopen", "busy"}, streams \in 0..NumStreams
  PROVE  /\ Must(opts, at, streams) = Most /\ Rest \subseteq Must(opts, at, streams) \cup Spare(opts, at, streams)
         /\ Apart(Most \cap Twins(opts), {}) /\ \A a, y : Apart(a \cap {}, y)
         /\ {Listener, Prot} \cup OfStreams({"socket"}, streams) \subseteq Rest
         /\ {} \subseteq Three /\ Most \subseteq Rest /\ {Listener, Prot} \subseteq Rest
<1>1. Must(opts, at, streams) = Most BY DEF Must
<1>2. Spare(opts, at, streams) = {Listener, Prot} \cup OfStreams({"socket"}, streams) BY DEF Spare
<1>3. Most \cap Twins(opts) \subseteq {} BY MarkSets, TwinsAre
<1>4. \A a, y : Apart(a \cap {}, y)
  <2>1. \A a, y : a \cap {} \subseteq y OBVIOUS
  <2> QED BY <2>1 DEF Apart
<1>5. Rest = Most \cup {Listener, Prot} /\ OfStreams({"socket"}, streams) \subseteq Most BY RestIs, MarkSets
<1>6. Apart(Most \cap Twins(opts), {}) BY <1>3, ApartIn
<1> QED BY <1>1, <1>2, <1>4, <1>5, <1>6

LEMMA AcceptOtherOwns ==
  ASSUME opts \in Tests, opts.role = "server", at \in {"reopen", "busy"}, streams \in 0..NumStreams
  PROVE  Owning("busy", AcceptOther)
<1> DEFINE p == [of |-> "owned", opts |-> opts, at |-> "busy"]
           n == streams
           a == Most \cup {S}
           m == Marks(Most, {}, Rest, {}, n)
           m1 == Marks(a, {}, Rest, {}, n)
<1>1. Gives(p) /\ p.of = "owned" BY GivesHere
<1>2. /\ Must(opts, at, n) = Most /\ Rest \subseteq Must(opts, at, n) \cup Spare(opts, at, n)
      /\ Apart(Most \cap Twins(opts), {}) /\ \A b, y : Apart(b \cap {}, y)
      /\ {Listener, Prot} \cup OfStreams({"socket"}, n) \subseteq Rest
      /\ {} \subseteq Three /\ Most \subseteq Rest /\ {Listener, Prot} \subseteq Rest
  BY RunningOwns
<1>3. Must(opts, "busy", n) = Most /\ Spare(opts, "busy", n) = {Listener, Prot} \cup OfStreams({"socket"}, n) BY MustIs
<1>4. S \in Fds /\ S \notin Core /\ S \notin Most BY FdNames, CoreFds, RestIs DEF Three
<1> HIDE DEF p, n
<1>5. Leads(p, m, <<Opens(S, {})>>, m1)
  <2>1. a \subseteq Most \cup {S} /\ Apart(a \cap ({} \ {S}), {}) BY ApartIn
  <2>2. MayEnd(p, m, S, {})
    <3>1. {Listener, Prot} \subseteq Rest \cup Most BY <1>2
    <3> QED BY <3>1, <1>1, MayEndHere
  <2>3. {} \in SUBSET (Fds \cup Lists) OBVIOUS
  <2> HIDE DEF a
  <2> QED BY <2>1, <2>2, <2>3, <1>1, <1>2, <1>4, OpenOwns
<1>6. Leads(p, m1, <<Drops(S)>>, m)
  <2>1. S \in a /\ Most \subseteq a \ ({S} \cup (IF S \in {} THEN {} ELSE {})) /\ {} \subseteq {} \cup {S} BY <1>4
  <2> HIDE DEF a
  <2> QED BY <2>1, <1>1, <1>2, <1>4, DropOwns
<1> HIDE DEF m, m1
<1>7. Leads(p, m, AcceptOther, m) BY <1>5, <1>6, LeadsTwo DEF AcceptOther
<1>8. Leads(p, Marks(Most, {}, Rest, {}, streams), AcceptOther, Marks(Most, {}, Rest, {}, n)) BY <1>7 DEF m, n
<1>9. p = [of |-> "owned", opts |-> opts, at |-> "busy"] BY DEF p
<1>10. Rest \subseteq Must(opts, at, streams) \cup Spare(opts, at, streams) /\ Most \subseteq Must(opts, at, streams)
  BY <1>2 DEF n
<1>11. Must(opts, "busy", n) \subseteq Most /\ Spare(opts, "busy", n) \subseteq Rest \cup Most
       /\ Apart(Must(opts, "busy", n) \cap {}, Twins(opts))
  BY <1>2, <1>3
<1> QED BY <1>2, <1>8, <1>9, <1>10, <1>11, OwnsFrom

LEMMA EndTestOwns ==
  ASSUME opts \in Tests, opts.role = "server", at \in {"reopen", "busy"}, streams \in 0..NumStreams
  PROVE  Owning("test_end", EndTest)
<1> DEFINE p == [of |-> "owned", opts |-> opts, at |-> "test_end"]
           n == streams
           k == Most \ OfStreams({"socket"}, n)
           m == Marks(Most, {}, Rest, {}, n)
           m1 == Marks(k, {}, Rest, {}, n)
<1>1. p.of = "owned" /\ p.opts = opts /\ p.at = "test_end" OBVIOUS
<1>2. /\ Must(opts, at, n) = Most /\ Rest \subseteq Must(opts, at, n) \cup Spare(opts, at, n)
      /\ Apart(Most \cap Twins(opts), {}) /\ \A b, y : Apart(b \cap {}, y)
      /\ {Listener, Prot} \cup OfStreams({"socket"}, n) \subseteq Rest /\ {} \subseteq Three
  BY RunningOwns
<1>3. /\ Must(opts, "test_end", n) = {Pipe, Ctrl} \cup Files(n) /\ Must(opts, "failed", n) = {Pipe, Ctrl} \cup Files(n)
      /\ Spare(opts, "test_end", n) = {Listener, Prot} \cup OfStreams({"socket"}, n)
      /\ Spare(opts, "failed", n) = {Listener, Prot} \cup OfStreams({"socket"}, n)
  BY MustIs
<1>4. {Pipe, Ctrl} \cup Files(n) \subseteq k /\ OfStreams({"socket"}, n) \subseteq Most BY MarkSets
<1>5. Failing("test_end") /\ FailedAt("test_end") = "failed" BY DEF Failing, FailedAt
<1> HIDE DEF p
<1>6. Leads(p, m, Each(n, DropSocket), m1) BY <1>1, <1>4, DropSocketsOwns
<1>7. Leads(p, m1, <<Tries(S, {})>>, m1)
  <2>1. MayEnd(p, m1, S, {})
    <3> HIDE DEF k, n
    <3>1. m1.good = k /\ m1.safe = Rest /\ m1.n = n BY MarkParts
    <3> HIDE DEF m1
    <3>2. Must(p.opts, FailedAt(p.at), m1.n) \subseteq k BY <1>1, <1>3, <1>4, <1>5, <3>1
    <3>3. Spare(p.opts, FailedAt(p.at), m1.n) \subseteq Rest BY <1>1, <1>2, <1>3, <1>5, <3>1
    <3> QED BY <3>1, <3>2, <3>3, <1>1, <1>5 DEF MayEnd
  <2>2. S \in Fds /\ {} \in SUBSET (Fds \cup Lists) BY FdNames
  <2> HIDE DEF k, n
  <2> QED BY <2>1, <2>2, <1>1, <1>2, TryOwns
<1> HIDE DEF m, m1
<1>8. Leads(p, m, EndTest, m1) BY <1>6, <1>7, LeadsOn DEF EndTest, n
<1>9. Leads(p, Marks(Most, {}, Rest, {}, streams), EndTest, Marks(k, {}, Rest, {}, n)) BY <1>8 DEF m, m1, n
<1>10. p = [of |-> "owned", opts |-> opts, at |-> "test_end"] BY DEF p
<1>11. Rest \subseteq Must(opts, at, streams) \cup Spare(opts, at, streams) /\ Most \subseteq Must(opts, at, streams)
  BY <1>2 DEF n
<1>12. Must(opts, "test_end", n) \subseteq k /\ Spare(opts, "test_end", n) \subseteq Rest \cup k
       /\ Apart(Must(opts, "test_end", n) \cap {}, Twins(opts))
  BY <1>2, <1>3, <1>4
<1> HIDE DEF k
<1> QED BY <1>2, <1>9, <1>10, <1>11, <1>12, OwnsFrom

LEMMA ExpireOwns ==
  ASSUME opts \in Tests, opts.role = "server", at \in {"reopen", "busy"}, streams \in 0..NumStreams
  PROVE  Owning("expire", Expire)
<1> DEFINE p == [of |-> "owned", opts |-> opts, at |-> "expire"]
           n == streams
           k == Most \ Files(n)
           m == Marks(Most, {}, Rest, {}, n)
           m1 == Marks(k, {}, Rest, {}, n)
           m2 == Marks(k, {}, Rest, {}, 0)
<1>1. p.of = "owned" OBVIOUS
<1>2. /\ Must(opts, at, n) = Most /\ Rest \subseteq Must(opts, at, n) \cup Spare(opts, at, n)
      /\ Apart(Most \cap Twins(opts), {}) /\ \A b, y : Apart(b \cap {}, y)
      /\ {Listener, Prot} \subseteq Rest /\ {} \subseteq Three
  BY RunningOwns
<1>3. /\ Must(opts, "expire", 0) = {Pipe, Ctrl} \cup Files(0)
      /\ Spare(opts, "expire", 0) = {Listener, Prot} \cup OfStreams({"socket"}, 0)
  BY MustIs
<1>4. Files(0) = {} /\ OfStreams({"socket"}, 0) = {} BY NoneOfStreams DEF Files
<1>5. {Pipe, Ctrl} \subseteq k /\ OfStreams({"socket"}, n) \subseteq Most /\ Files(n) \subseteq Most /\ Ctrl \in Fds
  BY MarkSets, FdNames
<1> HIDE DEF p
<1>6. Leads(p, m, Each(n, ClearStream), m1) BY <1>1, <1>5, ClearStreamsOwns
<1> HIDE DEF k, n
<1>7. Leads(p, m1, <<Does("no_streams")>>, m2) BY <1>1, <1>2, ForgetStreamsOwns
<1>8. Leads(p, m2, <<Clears(Ctrl)>>, m2)
  <2>1. k \subseteq (k \ (IF Ctrl \in {} THEN {} ELSE {})) \cup {Ctrl} /\ Ctrl \in k BY <1>5
  <2> QED BY <2>1, <1>1, <1>2, <1>5, ClearOwns
<1> HIDE DEF m, m1, m2
<1>9. Leads(p, m1, <<Does("no_streams"), Clears(Ctrl)>>, m2) BY <1>7, <1>8, LeadsTwo
<1>10. Leads(p, m, Expire, m2) BY <1>6, <1>9, LeadsOn DEF Expire, n
<1>11. Leads(p, Marks(Most, {}, Rest, {}, streams), Expire, Marks(k, {}, Rest, {}, 0)) BY <1>10 DEF m, m2, n
<1>12. p = [of |-> "owned", opts |-> opts, at |-> "expire"] BY DEF p
<1>13. Rest \subseteq Must(opts, at, streams) \cup Spare(opts, at, streams) /\ Most \subseteq Must(opts, at, streams)
  BY <1>2 DEF n
<1>14. Must(opts, "expire", 0) \subseteq k /\ Spare(opts, "expire", 0) \subseteq Rest \cup k
       /\ Apart(Must(opts, "expire", 0) \cap {}, Twins(opts))
  BY <1>2, <1>3, <1>4, <1>5
<1> QED BY <1>2, <1>11, <1>12, <1>13, <1>14, OwnsFrom

\* What may have been closed at the end of the test, or under the listener's other name.
LEMMA CleanUpOwns ==
  ASSUME opts \in Tests, opts.role = "server", streams \in 0..NumStreams,
         at \in {"listen", "accept", "streams", "reopen", "busy", "test_end", "expire", "failed"}
  PROVE  Owning("cleanup", CleanUp)
<1> DEFINE p == [of |-> "owned", opts |-> opts, at |-> "cleanup"]
           n == streams
           e == {Pipe} \cup Files(n)
           g == {Ctrl} \cup e
           o == {Listener, Prot} \cup OfStreams({"socket"}, n)
           s == g \cup o
           m == Marks(g, {}, s, {}, n)
           m1 == Marks(e, {}, s, {}, n)
<1>1. p.of = "owned" /\ p.opts = opts /\ p.at = "cleanup" OBVIOUS
<1>2. g \subseteq Most /\ OfStreams({"socket"}, n) \subseteq Most /\ g \subseteq Core /\ e \subseteq Core /\ g \cap Three = {}
      /\ e \subseteq g
  BY MarkSets
<1>3. {Listener, Prot} \subseteq Three /\ {} \subseteq Three /\ {Ctrl, Listener, Prot} \subseteq Fds
      /\ Most \subseteq Rest /\ {Listener, Prot} \subseteq Rest /\ Core \cap Three = {}
  BY TwinsAre, FdNames, RestIs, MarkSets
<1>4. g \subseteq Must(opts, at, n) /\ s \subseteq Must(opts, at, n) \cup Spare(opts, at, n)
  <2>1. CASE at \in {"listen", "accept", "streams"}
    <3>1. Must(opts, at, n) = Rest BY <2>1 DEF Must, Rest
    <3> QED BY <3>1, <1>2, <1>3
  <2>2. CASE at \in {"reopen", "busy"}
    <3>1. Must(opts, at, n) = Most /\ Spare(opts, at, n) = o BY <2>2 DEF Must, Spare
    <3> QED BY <3>1, <1>2
  <2>3. CASE at \in {"test_end", "expire", "failed"}
    <3>1. Must(opts, at, n) = {Pipe, Ctrl} \cup Files(n) /\ Spare(opts, at, n) = o BY <2>3 DEF Must, Spare
    <3> QED BY <3>1
  <2> QED BY <2>1, <2>2, <2>3
<1>5. Must(opts, "cleanup", n) = e /\ Spare(opts, "cleanup", n) = {} BY MustIs
<1>6. /\ Spared(p.opts, p.at, "socket") /\ Spared(p.opts, p.at, Listener[1]) /\ Spared(p.opts, p.at, Prot[1])
  <2>1. Listener[1] = "listener" /\ Prot[1] = "prot_listener" BY Names
  <2> QED BY <2>1, <1>1 DEF Spared
<1>7. Listener \notin e /\ Prot \notin e /\ {Listener, Prot} \subseteq s /\ OfStreams({"socket"}, n) \subseteq s
  BY <1>2, <1>3
<1>8. Apart(g \cap Twins(opts), {}) /\ Apart(e \cap {}, {}) /\ Apart(e \cap {}, Twins(opts))
  <2>1. g \cap Twins(opts) \subseteq {} /\ e \cap {} \subseteq {} /\ e \cap {} \subseteq Twins(opts)
    BY <1>2, TwinsAre
  <2> HIDE DEF g, e
  <2> QED BY <2>1, ApartIn
<1>9. e \subseteq (g \ (IF Ctrl \in {} THEN {} ELSE {})) \cup {Ctrl} /\ Ctrl \in g BY <1>2
<1> HIDE DEF p, g, e, o, s
<1>10. Leads(p, m, Each(n, ClearSocket), m) BY <1>1, <1>2, <1>6, <1>7, SpareSocketsOwns
<1> HIDE DEF n
<1>11. Leads(p, m, <<Clears(Ctrl)>>, m1) BY <1>1, <1>3, <1>8, <1>9, ClearOwns
<1>12. Leads(p, m1, <<Clears(Listener)>>, m1) BY <1>1, <1>2, <1>3, <1>6, <1>7, SpareOwns
<1>13. Leads(p, m1, <<Clears(Prot)>>, m1) BY <1>1, <1>2, <1>3, <1>6, <1>7, SpareOwns
<1> HIDE DEF m, m1
<1>14. Leads(p, m, <<Clears(Ctrl), Clears(Listener), Clears(Prot)>>, m1)
  BY <1>11, <1>12, <1>13, LeadsTwo, LeadsThree
<1>15. Leads(p, m, CleanUp, m1) BY <1>10, <1>14, LeadsOn DEF CleanUp, n
<1>16. Leads(p, Marks(g, {}, s, {}, streams), CleanUp, Marks(e, {}, s, {}, n)) BY <1>15 DEF m, m1, n
<1>17. p = [of |-> "owned", opts |-> opts, at |-> "cleanup"] BY DEF p
<1>18. Must(opts, "cleanup", n) \subseteq e /\ Spare(opts, "cleanup", n) \subseteq s \cup e
       /\ Apart(Must(opts, "cleanup", n) \cap {}, Twins(opts))
  BY <1>5, <1>8
<1>19. g \subseteq Must(opts, at, streams) /\ s \subseteq Must(opts, at, streams) \cup Spare(opts, at, streams)
  BY <1>4 DEF n
<1> QED BY <1>3, <1>8, <1>16, <1>17, <1>18, <1>19, OwnsFrom

LEMMA ClientOwns ==
  ASSUME KInv, OInv, ClientStep
  PROVE  OInv'
<1> DEFINE Next2(a, calls) == at' = a /\ code' = calls /\ Owning(a, calls)
<1>1. /\ opts.role = "client" /\ opts \in Tests /\ code = <<>> /\ streams \in 0..NumStreams
      /\ UNCHANGED <<opts, owner, var, streams, strays>>
  BY TypeParts DEF ClientStep, Idle, Becomes, KInv
<1>2. ASSUME NEW a, NEW calls, Next2(a, calls) PROVE OInv'
  BY <1>1, <1>2, BeginsOwns
<1>3. CASE at = "start" /\ at' = "connect" /\ code' = Connect BY <1>1, <1>2, <1>3, ConnectOwns
<1>4. CASE at \in {"connect", "streams"} /\ ~AllThere /\ at' = "streams" /\ code' = ConnectStream(streams + 1)
  <2>1. streams < NumStreams BY <1>1, <1>4, BoundsAssumption DEF AllThere
  <2>2. Owning("streams", ConnectStream(streams + 1)) BY <2>1, <1>1, <1>4, ConnectStreamOwns
  <2> QED BY <2>2, <1>2, <1>4
<1>5. CASE at = "streams" /\ at' = "display" /\ code' = ClientEnd(TRUE) BY <1>1, <1>2, <1>5, ClientEndOwns
<1>6. CASE at = "streams" /\ at' = "failed" /\ code' = <<>> BY <1>1, <1>2, <1>6, NothingOwns
<1>7. CASE at = "refused" /\ at' = "end" /\ code' = ClientEnd(FALSE) BY <1>1, <1>2, <1>7, ClientEndOwns
<1>8. CASE at = "failed" /\ at' = "end" /\ code' = ClientEnd(TRUE) BY <1>1, <1>2, <1>8, ClientEndOwns
<1>9. CASE at \in {"display", "end", "ended"} /\ at' = "again" /\ code' = ClientEnd(TRUE)
  BY <1>1, <1>2, <1>9, AgainOwns
<1>10. CASE at \in {"display", "end", "ended", "again"} /\ at' = "free" /\ code' = FreeTest
  <2>1. at \in {"display", "end", "ended", "again", "cleanup"} BY <1>10
  <2> QED BY <2>1, <1>1, <1>2, <1>10, FreeTestOwns
<1> QED BY <1>3, <1>4, <1>5, <1>6, <1>7, <1>8, <1>9, <1>10 DEF ClientStep, Idle, Becomes

LEMMA ServerOwns ==
  ASSUME KInv, OInv, ServerStep
  PROVE  OInv'
<1> DEFINE Next2(a, calls) == at' = a /\ code' = calls /\ Owning(a, calls)
<1>1. /\ opts.role = "server" /\ opts \in Tests /\ code = <<>> /\ streams \in 0..NumStreams
      /\ UNCHANGED <<opts, owner, var, streams, strays>>
  BY TypeParts DEF ServerStep, Idle, Becomes, KInv
<1>2. ASSUME NEW a, NEW calls, Next2(a, calls) PROVE OInv'
  BY <1>1, <1>2, BeginsOwns
<1>3. CASE at = "start" /\ at' = "listen" /\ code' = Listen BY <1>1, <1>2, <1>3, ListenOwns
<1>4. CASE at = "listen" /\ at' = "accept" /\ code' = Accept BY <1>1, <1>2, <1>4, AcceptOwns
<1>5. CASE /\ at \in {"accept", "streams"} /\ ~AllThere /\ at' = "streams"
           /\ \E refused \in {FALSE, opts.protocol = "tcp"} : code' = AcceptStream(streams + 1, refused)
  <2>1. streams < NumStreams BY <1>1, <1>5, BoundsAssumption DEF AllThere
  <2>2. PICK refused \in {FALSE, opts.protocol = "tcp"} : code' = AcceptStream(streams + 1, refused) BY <1>5
  <2>3. refused \in BOOLEAN /\ (refused => opts.protocol = "tcp") OBVIOUS
  <2>4. Owning("streams", AcceptStream(streams + 1, refused)) BY <2>1, <2>3, <1>1, <1>5, AcceptStreamOwns
  <2> QED BY <2>2, <2>4, <1>2, <1>5
<1>6. CASE at = "streams" /\ at' = "reopen" /\ code' = Reopen BY <1>1, <1>2, <1>6, ReopenOwns
<1>7. CASE at \in {"reopen", "busy"} /\ at' = "busy" /\ code' = AcceptOther BY <1>1, <1>2, <1>7, AcceptOtherOwns
<1>8. CASE at \in {"reopen", "busy"} /\ at' = "test_end" /\ code' = EndTest BY <1>1, <1>2, <1>8, EndTestOwns
<1>9. CASE at \in {"reopen", "busy"} /\ at' = "expire" /\ code' = Expire BY <1>1, <1>2, <1>9, ExpireOwns
<1>10. CASE /\ at \in {"listen", "accept", "streams", "reopen", "busy", "test_end", "expire", "failed"}
            /\ at' = "cleanup" /\ code' = CleanUp
  BY <1>1, <1>2, <1>10, CleanUpOwns
<1>11. CASE at = "cleanup" /\ at' = "free" /\ code' = FreeTest
  <2>1. at \in {"display", "end", "ended", "again", "cleanup"} BY <1>11
  <2> QED BY <2>1, <1>1, <1>2, <1>11, FreeTestOwns
<1> QED BY <1>3, <1>4, <1>5, <1>6, <1>7, <1>8, <1>9, <1>10, <1>11 DEF ServerStep, Idle, Becomes
-----------------------------------------------------------------------------
\* In every state the numbers in the variables are what the outline of the calls that are left
\* relies on, unless is_closed was asked about a number that another thread had been given.
THEOREM OwnsIsInvariant == Spec => [](KInv /\ OInv)
<1>1. Init => OInv BY InitOwns
<1>2. KInv /\ OInv /\ [Next]_vars => OInv'
  <2> SUFFICES ASSUME KInv, OInv, [Next]_vars PROVE OInv' OBVIOUS
  <2>1. CASE Succeeds BY <2>1, SucceedsOwns
  <2>2. CASE Fails BY <2>2, FailsOwns
  <2>3. CASE GoesOn BY <2>3, GoesOnOwns
  <2>4. CASE ClientStep BY <2>4, ClientOwns
  <2>5. CASE ServerStep BY <2>5, ServerOwns
  <2>6. CASE OthersOpen \/ OthersClose BY <2>6, OthersOwn
  <2>7. CASE UNCHANGED vars
    <3>1. UNCHANGED <<opts, owner, var, streams, at, code, strays>> BY <2>7 DEF vars
    <3>2. \A g : Marked(g)' = Marked(g) BY <3>1 DEF Marked, Owned
    <3>3. Now("owned")' = Now("owned") /\ code' = code BY <3>1 DEF Now
    <3>4. OwnsOpen => OwnsOpen' BY <3>2, <3>3 DEF OwnsOpen
    <3>5. Known => Known' BY <3>1 DEF Known
    <3> QED BY <3>1, <3>4, <3>5 DEF OInv
  <2> QED BY <2>1, <2>2, <2>3, <2>4, <2>5, <2>6, <2>7 DEF Next
<1> QED BY <1>1, <1>2, KeepsIsInvariant, PTL DEF Spec

\* A test closes only descriptors of its own, whatever numbers other threads are given in between,
\* but for the client that ends a second time and the server's cleanup, which close again
\* what ClosesOwn names.
THEOREM ClosesOwnTheorem == Spec => []ClosesOwn
<1>1. KInv /\ OInv => ClosesOwn
  <2> SUFFICES ASSUME KInv, OInv, Stolen \notin strays, NEW x \in strays
               PROVE  IF opts.role = "client"
                        THEN x[1] = "again" /\ x[2] \in {"socket", "ctrl_sck"}
                        ELSE x[1] = "cleanup" /\ x[2] \in {"socket", "listener", "prot_listener"}
    BY DEF ClosesOwn
  <2>1. Spared(opts, x[1], x[2]) \/ \E l \in Lists : x[2] = l[1] BY DEF OInv, Known
  <2>2. \A l \in Lists : x[2] # l[1] BY DEF KInv, NoListStrays
  <2> QED BY <2>1, <2>2 DEF Spared
<1> QED BY <1>1, OwnsIsInvariant, PTL
=============================================================================
