---------------------------- MODULE ExchangeProofs ----------------------------
(***************************************************************************)
(* Proofs about Exchange for every set of setups, file size, MSS and every *)
(* size of the messages.                                                   *)
(***************************************************************************)
EXTENDS Exchange, TestOptionsProofs, SequenceTheorems, FiniteSetTheorems, TLAPS

(* Messages as bytes.                                                      *)

States == ClientExpects \cup ServerExpects
Jsons == {"params", "clientResults", "serverResults"}
Errors == {"IERECVCOOKIE", "IESENDMESSAGE", "IERECVPARAMS", "IETOTALRATE", "IESTREAMLISTEN",
           "IEMAXSERVERTESTDURATIONEXCEEDED", "IEUDPFILETRANSFER", "IEINITTEST", "IENOMSG",
           "IECTRLCLOSE", "IERECVMESSAGE", "IERECVRESULTS", "IESTREAMCONNECT", "IEPTHREADCREATE",
           "IESELECT", "IELISTEN", "IESERVERTESTDURATIONEXPIRED"}
Messages == States \cup Jsons \cup Errors \cup {"cookie", "errno"}
Byte == (Messages \cup {"length"}) \X Nat

Size(m) == IF m \in States THEN 1 ELSE IF m \in Jsons THEN LengthSize + BodySize ELSE IntSize

ByteOf(m, k) ==
  IF m \notin Jsons THEN <<m, k>>
  ELSE IF k <= LengthSize THEN <<"length", k>> ELSE <<m, k - LengthSize>>

Code(m) == [k \in 1..Size(m) |-> ByteOf(m, k)]

\* The bytes b are those of the messages q: message i ends at the byte cut[i].
Coded(b, q) ==
  \E cut \in [0..Len(q) -> 0..Len(b)] :
    /\ cut[0] = 0 /\ cut[Len(q)] = Len(b)
    /\ \A i, j \in 0..Len(q) : i <= j => cut[i] <= cut[j]
    /\ \A i \in 1..Len(q) :
         /\ cut[i] = cut[i - 1] + Size(q[i])
         /\ \A k \in 1..Size(q[i]) : b[cut[i - 1] + k] = ByteOf(q[i], k)

LEMMA SizePositive == ASSUME NEW m PROVE Size(m) \in Nat \ {0}
<1>1. \A n \in {LengthSize, BodySize, IntSize} : n \in Nat \ {0} BY SizesAssumption
<1> QED BY <1>1 DEF Size

LEMMA CodeIsBytes ==
  ASSUME NEW m \in Messages
  PROVE  /\ Code(m) \in Seq(Byte) /\ Len(Code(m)) = Size(m)
         /\ \A k \in 1..Size(m) : Code(m)[k] = ByteOf(m, k)
<1>1. Size(m) \in Nat BY SizePositive
<1>2. \A k \in 1..Size(m) : ByteOf(m, k) \in Byte
  BY <1>1, SizesAssumption DEF ByteOf, Byte
<1> QED BY <1>1, <1>2 DEF Code

\* What is written is the code of the messages.
LEMMA WrittenIsCode ==
  /\ \A m \in States : Control(m) = Code(m)
  /\ \A m \in Errors \cup {"cookie", "errno"} : Integer(m) = Code(m)
  /\ \A m \in Jsons : Json(m) = Code(m)
<1>1. ASSUME NEW m \in States PROVE Control(m) = Code(m)
  <2>1. Size(m) = 1 BY DEF Size
  <2>2. \A k \in 1..1 : ByteOf(m, k) = <<m, k>>
    BY DEF ByteOf, Jsons, States, ClientExpects, ServerExpects
  <2> QED BY <2>1, <2>2 DEF Control, Bytes, Code
<1>2. ASSUME NEW m \in Errors \cup {"cookie", "errno"} PROVE Integer(m) = Code(m)
  <2>1. Size(m) = IntSize
    BY DEF Size, States, Jsons, ClientExpects, ServerExpects, Errors
  <2>2. \A k \in 1..IntSize : ByteOf(m, k) = <<m, k>> BY DEF ByteOf, Jsons, Errors
  <2> QED BY <2>1, <2>2 DEF Integer, Bytes, Code
<1>3. ASSUME NEW m \in Jsons PROVE Json(m) = Code(m)
  <2> DEFINE a == Bytes("length", LengthSize)  c == Bytes(m, BodySize)
  <2>1. Size(m) = LengthSize + BodySize /\ m \in Messages
    BY DEF Size, States, Jsons, ClientExpects, ServerExpects, Messages
  <2>2. /\ LengthSize \in Nat /\ BodySize \in Nat BY SizesAssumption
  <2>3. /\ a \in Seq(Byte) /\ Len(a) = LengthSize /\ \A k \in 1..LengthSize : a[k] = <<"length", k>>
    BY <2>2 DEF Bytes, Byte
  <2>4. /\ c \in Seq(Byte) /\ Len(c) = BodySize /\ \A k \in 1..BodySize : c[k] = <<m, k>>
    BY <2>1, <2>2 DEF Bytes, Byte
  <2> HIDE DEF a, c
  <2>5. /\ a \o c \in Seq(Byte) /\ Len(a \o c) = Size(m)
        /\ \A k \in 1..Size(m) : (a \o c)[k] = IF k <= LengthSize THEN a[k] ELSE c[k - LengthSize]
    BY <2>1, <2>2, <2>3, <2>4, ConcatProperties
  <2>6. ASSUME NEW k \in 1..Size(m) PROVE (a \o c)[k] = Code(m)[k]
    <3>1. Code(m)[k] = IF k <= LengthSize THEN <<"length", k>> ELSE <<m, k - LengthSize>>
      BY <2>1, CodeIsBytes DEF ByteOf
    <3>2. k <= LengthSize => k \in 1..LengthSize BY <2>1, <2>2
    <3>3. ~(k <= LengthSize) => k - LengthSize \in 1..BodySize BY <2>1, <2>2
    <3> QED BY <3>1, <3>2, <3>3, <2>3, <2>4, <2>5
  <2>7. a \o c = Code(m) BY <2>1, <2>5, <2>6, CodeIsBytes, SeqEqual
  <2> QED BY <2>7 DEF Json, a, c
<1> QED BY <1>1, <1>2, <1>3

LEMMA CodedNothing == Coded(<<>>, <<>>)
<1> DEFINE cut == [i \in 0..Len(<<>>) |-> 0]
<1>1. Len(<<>>) = 0 OBVIOUS
<1>2. cut \in [0..Len(<<>>) -> 0..Len(<<>>)] /\ \A i \in 0..Len(<<>>) : cut[i] = 0 BY <1>1
<1> HIDE DEF cut
<1>3. 1..Len(<<>>) = {} BY <1>1
<1> QED BY <1>1, <1>2, <1>3 DEF Coded

LEMMA CodedAppend ==
  ASSUME NEW b \in Seq(Byte), NEW q \in Seq(Messages), NEW m \in Messages, Coded(b, q)
  PROVE  Coded(b \o Code(m), Append(q, m))
<1> DEFINE e == b \o Code(m)  r == Append(q, m)
<1>1. /\ e \in Seq(Byte) /\ Len(e) = Len(b) + Size(m) /\ Size(m) \in Nat
      /\ \A k \in 1..Len(b) : e[k] = b[k]
      /\ \A k \in 1..Size(m) : e[Len(b) + k] = ByteOf(m, k)
  <2> DEFINE c == Code(m)
  <2>1. /\ c \in Seq(Byte) /\ Len(c) = Size(m) /\ Size(m) \in Nat /\ Len(b) \in Nat
        /\ \A k \in 1..Size(m) : c[k] = ByteOf(m, k)
    BY CodeIsBytes, SizePositive
  <2> HIDE DEF c
  <2>2. /\ b \o c \in Seq(Byte) /\ Len(b \o c) = Len(b) + Len(c)
        /\ \A i \in 1..Len(b) + Len(c) : (b \o c)[i] = IF i <= Len(b) THEN b[i] ELSE c[i - Len(b)]
    BY <2>1, ConcatProperties
  <2>3. \A k \in 1..Len(b) : k \in 1..Len(b) + Len(c) /\ k <= Len(b) BY <2>1
  <2>4. \A k \in 1..Size(m) : /\ Len(b) + k \in 1..Len(b) + Len(c) /\ ~(Len(b) + k <= Len(b))
                              /\ (Len(b) + k) - Len(b) = k
    BY <2>1
  <2> QED BY <2>1, <2>2, <2>3, <2>4 DEF c
<1>2. /\ Len(r) = Len(q) + 1 /\ r[Len(q) + 1] = m /\ \A i \in 1..Len(q) : r[i] = q[i]
  BY AppendProperties
<1>3. PICK cut \in [0..Len(q) -> 0..Len(b)] :
        /\ cut[0] = 0 /\ cut[Len(q)] = Len(b)
        /\ \A i, j \in 0..Len(q) : i <= j => cut[i] <= cut[j]
        /\ \A i \in 1..Len(q) :
             /\ cut[i] = cut[i - 1] + Size(q[i])
             /\ \A k \in 1..Size(q[i]) : b[cut[i - 1] + k] = ByteOf(q[i], k)
  BY DEF Coded
<1> DEFINE new == [i \in 0..Len(r) |-> IF i <= Len(q) THEN cut[i] ELSE Len(e)]
<1>4. Len(q) \in Nat /\ Len(b) \in Nat OBVIOUS
<1> HIDE DEF e, r
<1>5. new \in [0..Len(r) -> 0..Len(e)] BY <1>1, <1>2, <1>3, <1>4
<1>8. ASSUME NEW i \in 0..Len(r), NEW j \in 0..Len(r), i <= j PROVE new[i] <= new[j]
  <2>1. CASE j <= Len(q)
    <3>1. i \in 0..Len(q) /\ j \in 0..Len(q) /\ i <= j BY <2>1, <1>2, <1>4, <1>8
    <3> QED BY <3>1, <1>3, <2>1
  <2>2. CASE ~(j <= Len(q))
    <3>1. new[j] = Len(e) BY <2>2
    <3>2. new[i] \in 0..Len(e) BY <1>5
    <3> QED BY <3>1, <3>2, <1>1, <1>4
  <2> QED BY <2>1, <2>2
<1>6. /\ new[0] = 0 /\ new[Len(r)] = Len(e) /\ \A i \in 0..Len(q) : new[i] = cut[i]
  BY <1>2, <1>3, <1>4
<1>7. ASSUME NEW i \in 1..Len(r)
      PROVE  /\ new[i] = new[i - 1] + Size(r[i])
             /\ \A k \in 1..Size(r[i]) : e[new[i - 1] + k] = ByteOf(r[i], k)
  <2> HIDE DEF new
  <2>1. CASE i = Len(q) + 1
    <3>1. r[i] = m /\ i - 1 = Len(q) /\ new[i] = Len(e) /\ new[i - 1] = Len(b)
      BY <2>1, <1>2, <1>3, <1>4, <1>6
    <3> QED BY <3>1, <1>1
  <2>2. CASE i \in 1..Len(q)
    <3>1. /\ r[i] = q[i] /\ new[i] = cut[i] /\ new[i - 1] = cut[i - 1]
          /\ cut[i] = cut[i - 1] + Size(q[i]) /\ Size(q[i]) \in Nat
          /\ cut[i] \in 0..Len(b) /\ cut[i - 1] \in 0..Len(b)
      <4>1. i \in 0..Len(q) /\ i - 1 \in 0..Len(q) BY <2>2, <1>4
      <4>2. Size(q[i]) \in Nat BY SizePositive
      <4> QED BY <4>1, <4>2, <2>2, <1>2, <1>3, <1>6
    <3>2. \A k \in 1..Size(q[i]) : cut[i - 1] + k \in 1..Len(b) BY <3>1, <1>4
    <3> QED BY <2>2, <3>1, <3>2, <1>1, <1>3
  <2> QED BY <2>1, <2>2, <1>2, <1>4
<1> QED BY <1>5, <1>6, <1>7, <1>8 DEF Coded, e, r

LEMMA CodedHead ==
  ASSUME NEW b \in Seq(Byte), NEW q \in Seq(Messages), Coded(b, q), q # <<>>
  PROVE  /\ Size(q[1]) <= Len(b)
         /\ \A k \in 1..Size(q[1]) : b[k] = ByteOf(q[1], k)
         /\ Coded(SubSeq(b, Size(q[1]) + 1, Len(b)), Tail(q))
<1> DEFINE n == Size(q[1])  e == SubSeq(b, n + 1, Len(b))  r == Tail(q)
<1>1. PICK cut \in [0..Len(q) -> 0..Len(b)] :
        /\ cut[0] = 0 /\ cut[Len(q)] = Len(b)
        /\ \A i, j \in 0..Len(q) : i <= j => cut[i] <= cut[j]
        /\ \A i \in 1..Len(q) :
             /\ cut[i] = cut[i - 1] + Size(q[i])
             /\ \A k \in 1..Size(q[i]) : b[cut[i - 1] + k] = ByteOf(q[i], k)
  BY DEF Coded
<1>2. Len(q) \in Nat \ {0} /\ Len(b) \in Nat /\ n \in Nat \ {0} BY SizePositive, EmptySeq
<1>3. /\ Len(r) = Len(q) - 1 /\ \A i \in 1..Len(r) : r[i] = q[i + 1] BY HeadTailProperties
<1>4. cut[1] = n /\ n <= Len(b) /\ \A k \in 1..n : b[k] = ByteOf(q[1], k)
  <2>1. 1 \in 1..Len(q) /\ 1 - 1 = 0 /\ 1 \in 0..Len(q) BY <1>2
  <2>2. cut[1] \in 0..Len(b) BY <2>1
  <2>3. cut[1] = 0 + n /\ \A k \in 1..n : b[0 + k] = ByteOf(q[1], k) BY <2>1, <1>1
  <2>4. \A k \in 1..n : 0 + k = k BY <1>2
  <2>5. \A k \in 1..n : b[k] = ByteOf(q[1], k) BY <2>3, <2>4
  <2> QED BY <2>2, <2>3, <2>5, <1>2
<1>5. /\ Len(e) = Len(b) - n /\ \A k \in 1..Len(e) : e[k] = b[n + k]
  BY <1>2, <1>4, SubSeqProperties
<1> HIDE DEF n, e, r
<1> DEFINE new == [i \in 0..Len(r) |-> cut[i + 1] - n]
<1>6. \A i \in 0..Len(r) : i + 1 \in 0..Len(q) /\ cut[i + 1] \in n..Len(b)
  <2>1. ASSUME NEW j \in 1..Len(q) PROVE cut[j] \in n..Len(b)
    <3>1. 1 \in 0..Len(q) /\ j \in 0..Len(q) /\ 1 <= j BY <1>2
    <3>2. cut[1] <= cut[j] /\ cut[j] \in 0..Len(b) BY <3>1, <1>1
    <3> QED BY <3>2, <1>2, <1>4
  <2>2. \A i \in 0..Len(r) : i + 1 \in 1..Len(q) BY <1>2, <1>3
  <2> QED BY <2>1, <2>2, <1>2
<1>7. new \in [0..Len(r) -> 0..Len(e)] BY <1>2, <1>4, <1>5, <1>6
<1>8. new[0] = 0 /\ new[Len(r)] = Len(e) BY <1>1, <1>2, <1>3, <1>4, <1>5
<1>9. \A i, j \in 0..Len(r) : i <= j => new[i] <= new[j]
  <2> SUFFICES ASSUME NEW i \in 0..Len(r), NEW j \in 0..Len(r), i <= j PROVE new[i] <= new[j]
    OBVIOUS
  <2>1. i + 1 \in 0..Len(q) /\ j + 1 \in 0..Len(q) /\ i + 1 <= j + 1 BY <1>6
  <2>2. cut[i + 1] <= cut[j + 1] BY <2>1, <1>1
  <2> QED BY <2>2, <1>2, <1>6
<1>10. ASSUME NEW i \in 1..Len(r)
       PROVE  /\ new[i] = new[i - 1] + Size(r[i])
              /\ \A k \in 1..Size(r[i]) : e[new[i - 1] + k] = ByteOf(r[i], k)
  <2>1. /\ r[i] = q[i + 1] /\ i + 1 \in 1..Len(q) /\ i \in 0..Len(r) /\ i - 1 \in 0..Len(r)
        /\ (i + 1) - 1 = i /\ (i - 1) + 1 = i
    BY <1>2, <1>3
  <2>2. cut[i + 1] = cut[i] + Size(r[i])
    BY <2>1, <1>1
  <2>3. \A k \in 1..Size(r[i]) : b[cut[i] + k] = ByteOf(r[i], k)
    BY <2>1, <1>1
  <2>4. new[i] = cut[i + 1] - n /\ new[i - 1] = cut[i] - n BY <2>1
  <2>5. cut[i] \in n..Len(b) /\ cut[i + 1] \in n..Len(b) BY <2>1, <1>6
  <2>6. Size(r[i]) \in Nat BY SizePositive
  <2> HIDE DEF new
  <2>7. ASSUME NEW k \in 1..Size(r[i]) PROVE e[new[i - 1] + k] = ByteOf(r[i], k)
    <3>1. new[i - 1] + k \in 1..Len(e) /\ n + (new[i - 1] + k) = cut[i] + k
      <4>1. k \in Int /\ k >= 1 /\ k <= Size(r[i]) BY <2>6
      <4>2. cut[i] \in Int /\ cut[i] >= n /\ cut[i] + Size(r[i]) <= Len(b) BY <2>2, <2>5, <1>2
      <4>3. new[i - 1] + k = (cut[i] - n) + k /\ Len(e) = Len(b) - n BY <2>4, <1>5
      <4> QED BY <4>1, <4>2, <4>3, <2>6, <1>2
    <3> QED BY <3>1, <2>3, <1>5
  <2> QED BY <2>2, <2>4, <2>5, <2>6, <2>7, <1>2
<1> QED BY <1>4, <1>7, <1>8, <1>9, <1>10 DEF Coded, n, e, r
-----------------------------------------------------------------------------
(* The inductive invariant.                                                *)

ClientPCs == {"options", "ready", "select", "handle", "results", "code", "errno", "ending", "failed",
              "drain", "off"}
ServerPCs == {"options", "ready", "cookie", "params", "select", "handle", "results", "failed",
              "expired", "drain", "off"}
ClientErrors == {"IECTRLREAD"}

ChannelTypes ==
  /\ wire \in [Sides -> Seq(Byte)] /\ got \in [Sides -> Seq(Byte)]
  /\ ended \in [Sides -> {"no", "short", "error"}]
  /\ sent \in [Sides -> Seq(Messages)] /\ heard \in [Sides -> Seq(Messages)]
  /\ shut \subseteq Sides /\ closed \subseteq shut /\ reset \subseteq Sides /\ late \in BOOLEAN

ControlTypes ==
  /\ pc \in [Sides -> ClientPCs \cup ServerPCs]
  /\ pc["client"] \in ClientPCs /\ pc["server"] \in ServerPCs
  /\ state \in [Sides -> States \cup {"none"}]
  /\ errno \in [Sides -> Errors \cup ClientErrors \cup {"none", "garbage"}]
  /\ errno["server"] \in Errors \cup {"none"}
  /\ told \in Errors \cup {"none", "garbage"}
  /\ streams \in BOOLEAN

\* Who reads where; a closed socket is not used any more.
Reading == {"cookie", "params", "results", "code", "errno"}

QuietAt(s) ==
  /\ Len(got[s]) <= Wanted(s)
  /\ pc[s] \notin Reading => ended[s] = "no"
  /\ s \in closed => pc[s] = "off"
  /\ s \in shut => pc[s] \in {"drain", "off"}

Quiet == \A s \in Sides : QuietAt(s)

\* Before the client connects nothing has been said.
Unconnected == {"options", "ready"}

Fresh ==
  pc["client"] \in Unconnected =>
    /\ pc["server"] \in Unconnected \cup {"off"}
    /\ \A s \in Sides : sent[s] = <<>> /\ heard[s] = <<>> /\ wire[s] = <<>> /\ got[s] = <<>>
    /\ closed = {} /\ state = [s \in Sides |-> "none"]

\* What each side says, in its order: the server may end with errors, a client with IPERF_DONE.
ServerScript == <<"PARAM_EXCHANGE", "CREATE_STREAMS", "TEST_START", "TEST_RUNNING",
                  "EXCHANGE_RESULTS", "serverResults", "DISPLAY_RESULTS">>
ClientScript == <<"cookie", "params", "TEST_END", "clientResults">>

Follows(script, said, n) == n <= Len(said) /\ n <= Len(script) /\ said[n] = script[n]
HasSaid(n) == Follows(ServerScript, sent["server"], n)
HasAsked(n) == Follows(ClientScript, sent["client"], n)

InPlace(said, i) ==
  \/ Follows(ServerScript, said, i) /\ (i > 1 => Follows(ServerScript, said, i - 1))
  \/ said[i] = "SERVER_ERROR" /\ i + 1 <= Len(said) /\ said[i + 1] \in Errors
  \/ said[i] \in Errors \cup {"errno"} /\ i > 1 /\ said[i - 1] \in Errors \cup {"SERVER_ERROR"}

WellSaid(said) == \A i \in 1..Len(said) : InPlace(said, i)
ServerSays == WellSaid(sent["server"])

ClientSays ==
  LET said == sent["client"]
  IN \A i \in 1..Len(said) :
       \/ HasAsked(i)
       \/ said[i] = "IPERF_DONE" /\ i = Len(said) /\ i > 1 /\ pc["client"] \in {"drain", "off"}

\* How much the server has said and heard where it is; how much it had heard by then.
ServerAt(st, n, h) ==
  /\ state["server"] = st /\ Len(sent["server"]) = n /\ Len(heard["server"]) = h
  /\ n > 0 => HasSaid(n)

ServerPlace ==
  /\ pc["server"] \in {"options", "ready", "cookie"} => ServerAt("none", 0, 0)
  /\ pc["server"] = "params" => ServerAt("PARAM_EXCHANGE", 1, 1)
  /\ pc["server"] = "select" =>
       ServerAt("CREATE_STREAMS", 2, 2) \/ ServerAt("TEST_RUNNING", 4, 2) \/ ServerAt("DISPLAY_RESULTS", 7, 4)
  /\ pc["server"] = "handle" => ServerAt("TEST_END", 4, 3) \/ state["server"] = "IPERF_DONE"
  /\ pc["server"] = "results" => ServerAt("EXCHANGE_RESULTS", 5, 3)
  /\ HasSaid(1) => Len(heard["server"]) >= 1
  /\ HasSaid(2) => Len(heard["server"]) >= 2
  /\ HasSaid(5) => Len(heard["server"]) >= 3
  /\ HasSaid(6) => Len(heard["server"]) >= 4

\* The same of the client: it has said n and heard h.
ClientAt(st, n, h) ==
  /\ state["client"] = st /\ Len(sent["client"]) = n /\ Len(heard["client"]) = h
  /\ h > 0 => HasSaid(h)

ToldError ==
  /\ state["client"] = "SERVER_ERROR" /\ Len(heard["client"]) \in 1..Len(sent["server"])
  /\ sent["server"][Len(heard["client"])] = "SERVER_ERROR"

ClientPlace ==
  /\ pc["client"] = "select" =>
       \/ ClientAt("none", 1, 0) \/ ClientAt("PARAM_EXCHANGE", 2, 1) \/ ClientAt("CREATE_STREAMS", 2, 2)
       \/ ClientAt("TEST_START", 2, 3) \/ ClientAt("TEST_RUNNING", 2, 4) \/ ClientAt("TEST_END", 3, 4)
       \/ ClientAt("EXCHANGE_RESULTS", 4, 6)
  /\ pc["client"] = "handle" =>
       \/ ClientAt("PARAM_EXCHANGE", 1, 1) \/ ClientAt("CREATE_STREAMS", 2, 2)
       \/ ClientAt("TEST_START", 2, 3) \/ ClientAt("TEST_RUNNING", 2, 4)
       \/ ClientAt("EXCHANGE_RESULTS", 3, 5) \/ ClientAt("DISPLAY_RESULTS", 4, 7) \/ ToldError
  /\ pc["client"] = "results" => ClientAt("EXCHANGE_RESULTS", 4, 5)
  /\ pc["client"] = "code" => ToldError
  /\ pc["client"] \notin Unconnected \cup {"drain", "off"} => Len(sent["client"]) \in 1..4
  /\ HasAsked(2) => Len(heard["client"]) >= 1
  /\ HasAsked(3) => Len(heard["client"]) >= 4 /\ HasSaid(4)
  /\ HasAsked(4) => Len(heard["client"]) >= 5 /\ HasSaid(5)

\* What a side has heard is what the other has said first; what is under way to a side that
\* still listens is the rest, each message whole.
Prefix ==
  \A s \in Sides :
    /\ Len(heard[s]) <= Len(sent[Peer(s)])
    /\ \A i \in 1..Len(heard[s]) : heard[s][i] = sent[Peer(s)][i]

Listening == {"cookie", "params", "select", "handle", "results", "code"}

Rest(said, h) == SubSeq(said, h + 1, Len(said))

Stream(s) ==
  pc[s] \in Listening => Coded(got[s] \o wire[s], Rest(sent[Peer(s)], Len(heard[s])))

Streams == \A s \in Sides : Stream(s)

Conversation ==
  /\ ChannelTypes /\ ControlTypes /\ Quiet /\ Fresh /\ ServerSays /\ ClientSays
  /\ ServerPlace /\ ClientPlace /\ Prefix /\ Streams
-----------------------------------------------------------------------------
(* Writing and reading.                                                    *)

LEMMA MessageKinds ==
  /\ States \subseteq Messages /\ Jsons \subseteq Messages /\ Errors \subseteq Messages
  /\ States \cap Jsons = {} /\ States \cap Errors = {} /\ Jsons \cap Errors = {}
  /\ "cookie" \in Messages \ (States \cup Jsons) /\ "errno" \in Messages \ (States \cup Jsons)
  /\ "length" \notin Messages
BY DEF Messages, States, Jsons, Errors, ClientExpects, ServerExpects

LEMMA RestAppend ==
  ASSUME NEW q \in Seq(Messages), NEW m \in Messages, NEW h \in 0..Len(q)
  PROVE  /\ Rest(Append(q, m), h) = Append(Rest(q, h), m)
         /\ Rest(q, h) \in Seq(Messages)
<1>1. /\ Append(q, m) \in Seq(Messages) /\ Len(Append(q, m)) = Len(q) + 1 /\ Len(q) \in Nat
      /\ \A i \in 1..Len(q) : Append(q, m)[i] = q[i]
      /\ Append(q, m)[Len(q) + 1] = m
  BY AppendProperties
<1> DEFINE a == Append(q, m)  r == Rest(q, h)  ra == Rest(a, h)
<1>2. /\ r \in Seq(Messages) /\ Len(r) = Len(q) - h /\ \A i \in 1..Len(q) - h : r[i] = q[h + i]
  BY <1>1, SubSeqProperties DEF Rest
<1> HIDE DEF a
<1>3. /\ ra \in Seq(Messages) /\ Len(ra) = Len(q) + 1 - h
      /\ \A i \in 1..Len(q) + 1 - h : ra[i] = a[h + i]
  BY <1>1, SubSeqProperties DEF Rest, a
<1> HIDE DEF r, ra
<1>4. /\ Append(r, m) \in Seq(Messages) /\ Len(Append(r, m)) = Len(q) - h + 1
      /\ \A i \in 1..Len(q) - h : Append(r, m)[i] = r[i]
      /\ Append(r, m)[Len(q) - h + 1] = m
  BY <1>2, AppendProperties
<1>5. ASSUME NEW i \in 1..Len(ra) PROVE ra[i] = Append(r, m)[i]
  <2> DEFINE rm == Append(r, m)
  <2> HIDE DEF rm
  <2>1. CASE i = Len(q) - h + 1
    <3>1. h + i = Len(q) + 1 /\ i \in 1..Len(q) + 1 - h BY <2>1, <1>1
    <3>2. ra[i] = m BY <3>1, <1>1, <1>3 DEF a
    <3>3. rm[i] = m BY <2>1, <1>4 DEF rm
    <3> QED BY <3>2, <3>3 DEF rm
  <2>2. CASE i \in 1..Len(q) - h
    <3>1. h + i \in 1..Len(q) BY <2>2, <1>1
    <3> QED BY <2>2, <3>1, <1>1, <1>2, <1>3, <1>4 DEF a
  <2>3. i = Len(q) - h + 1 \/ i \in 1..Len(q) - h
    <3>1. i \in 1..Len(q) + 1 - h /\ Len(q) \in Nat /\ h \in Nat BY <1>1, <1>3
    <3> QED BY <3>1
  <2> QED BY <2>1, <2>2, <2>3 DEF rm
<1>6. ra = Append(r, m) BY <1>1, <1>3, <1>4, <1>5, SeqEqual
<1> QED BY <1>2, <1>6 DEF a, r, ra

LEMMA RestTail ==
  ASSUME NEW q \in Seq(Messages), NEW h \in 0..Len(q) - 1
  PROVE  /\ Rest(q, h) \in Seq(Messages) /\ Rest(q, h) # <<>>
         /\ Rest(q, h)[1] = q[h + 1] /\ Tail(Rest(q, h)) = Rest(q, h + 1)
<1>1. Len(q) \in Nat /\ h + 1 \in 1..Len(q) /\ Len(q) \in h + 1..Len(q) OBVIOUS
<1>2. /\ Rest(q, h) \in Seq(Messages) /\ Len(Rest(q, h)) = Len(q) - h /\ Rest(q, h)[1] = q[h + 1]
  BY <1>1, SubSeqProperties DEF Rest
<1>3. Tail(Rest(q, h)) = SubSeq(q, (h + 1) + 1, Len(q)) BY <1>1, HeadTailOfSubSeq DEF Rest
<1>4. Rest(q, h) # <<>> BY <1>1, <1>2, EmptySeq
<1> QED BY <1>2, <1>3, <1>4 DEF Rest

LEMMA CodedEmpty ==
  ASSUME NEW b \in Seq(Byte), NEW q \in Seq(Messages), Coded(b, q)
  PROVE  b = <<>> <=> q = <<>>
<1>1. CASE q = <<>>
  <2>1. Len(b) = 0 BY <1>1 DEF Coded
  <2> QED BY <1>1, <2>1, EmptySeq
<1>2. CASE q # <<>>
  <2>1. Size(q[1]) <= Len(b) BY <1>2, CodedHead
  <2>2. Size(q[1]) \in Nat \ {0} BY SizePositive
  <2> QED BY <1>2, <2>1, <2>2, EmptySeq
<1> QED BY <1>1, <1>2

\* The next byte is the next message when that is a state.
LEMMA ReadsByte ==
  ASSUME NEW b \in Seq(Byte), NEW q \in Seq(Messages), Coded(b, q), q # <<>>, q[1] \in States
  PROVE  Head(b) = <<q[1], 1>> /\ Coded(Tail(b), Tail(q)) /\ b # <<>>
<1>1. Size(q[1]) = 1 BY DEF Size
<1>2. ByteOf(q[1], 1) = <<q[1], 1>> BY MessageKinds DEF ByteOf
<1> DEFINE m == q[1]
<1> HIDE DEF m
<1>3. /\ 1 <= Len(b) /\ b[1] = <<m, 1>> /\ Coded(SubSeq(b, 2, Len(b)), Tail(q))
  <2>1. /\ Size(m) <= Len(b) /\ \A k \in 1..Size(m) : b[k] = ByteOf(m, k)
        /\ Coded(SubSeq(b, Size(m) + 1, Len(b)), Tail(q))
    BY CodedHead DEF m
  <2>2. Size(m) = 1 /\ Size(m) + 1 = 2 /\ 1 \in 1..Size(m) BY <1>1 DEF m
  <2>3. Coded(SubSeq(b, 2, Len(b)), Tail(q)) BY <2>1, <2>2
  <2> QED BY <2>1, <2>2, <2>3, <1>2 DEF m
<1>4. b # <<>> BY <1>3, EmptySeq
<1>5. Tail(b) = SubSeq(b, 2, Len(b)) /\ Head(b) = b[1] BY <1>4, TailIsSubSeq
<1> QED BY <1>3, <1>4, <1>5 DEF m

\* What has been read completely is the next message.
LEMMA ReadsMessage ==
  ASSUME NEW g \in Seq(Byte), NEW w \in Seq(Byte), NEW q \in Seq(Messages), Coded(g \o w, q),
         NEW m \in Messages, g = Code(m)
  PROVE  q # <<>> /\ q[1] = m /\ Coded(w, Tail(q))
<1> DEFINE b == g \o w
<1>1. /\ Len(g) = Size(m) /\ Size(m) \in Nat \ {0} /\ \A k \in 1..Size(m) : g[k] = ByteOf(m, k)
  BY CodeIsBytes, SizePositive
<1>2. /\ b \in Seq(Byte) /\ Len(b) = Len(g) + Len(w) /\ Len(w) \in Nat
      /\ \A i \in 1..Len(g) + Len(w) : b[i] = IF i <= Len(g) THEN g[i] ELSE w[i - Len(g)]
  BY ConcatProperties
<1>3. b # <<>> BY <1>1, <1>2, EmptySeq
<1>4. q # <<>> BY <1>2, <1>3, CodedEmpty
<1> DEFINE h == q[1]
<1>5. h \in Messages BY <1>4, EmptySeq
<1> HIDE DEF b
<1>6. /\ Size(h) <= Len(b) /\ \A k \in 1..Size(h) : b[k] = ByteOf(h, k)
      /\ Coded(SubSeq(b, Size(h) + 1, Len(b)), Tail(q))
  BY <1>2, <1>4, CodedHead DEF b
<1> HIDE DEF h
<1>7. Size(h) \in Nat \ {0} BY SizePositive
<1>8. \A k \in 1..Size(m) : b[k] = ByteOf(m, k) BY <1>1, <1>2
<1>9. ByteOf(h, 1) = ByteOf(m, 1) BY <1>1, <1>6, <1>7, <1>8
<1>10. h = m
  <2>1. CASE m \notin Jsons
    <3>1. ByteOf(m, 1) = <<m, 1>> BY <2>1 DEF ByteOf
    <3>2. m # "length" BY MessageKinds
    <3> QED BY <1>9, <3>1, <3>2, SizesAssumption DEF ByteOf
  <2>2. CASE m \in Jsons
    <3>1. LengthSize \in Nat \ {0} /\ BodySize \in Nat \ {0} BY SizesAssumption
    <3>2. ByteOf(m, 1) = <<"length", 1>> BY <2>2, <3>1 DEF ByteOf
    <3>3. h # "length" BY <1>5, MessageKinds
    <3>4. h \in Jsons BY <1>9, <3>2, <3>3 DEF ByteOf
    <3>5. Size(m) = LengthSize + BodySize /\ Size(h) = LengthSize + BodySize
      BY <2>2, <3>4, MessageKinds DEF Size
    <3>6. LengthSize + 1 \in 1..Size(m) BY <3>1, <3>5
    <3>7. ByteOf(h, LengthSize + 1) = ByteOf(m, LengthSize + 1) BY <1>6, <1>8, <3>5, <3>6
    <3>8. ~(LengthSize + 1 <= LengthSize) /\ (LengthSize + 1) - LengthSize = 1 BY <3>1
    <3> QED BY <2>2, <3>4, <3>7, <3>8 DEF ByteOf
  <2> QED BY <2>1, <2>2
<1>11. SubSeq(b, Size(h) + 1, Len(b)) = w
  <2> DEFINE r == SubSeq(b, Size(h) + 1, Len(b))
  <2>1. /\ r \in Seq(Byte) /\ Len(r) = Len(w)
        /\ \A i \in 1..Len(w) : r[i] = b[Size(h) + i]
    <3> DEFINE n == Size(h)  e == Len(b)
    <3>1. n \in Nat \ {0} /\ e \in Nat /\ e = n + Len(w) /\ \A i \in n + 1..e : b[i] \in Byte
      BY <1>1, <1>2, <1>10
    <3> HIDE DEF n, e
    <3>2. /\ SubSeq(b, n + 1, e) \in Seq(Byte)
          /\ Len(SubSeq(b, n + 1, e)) = IF n + 1 <= e THEN e - (n + 1) + 1 ELSE 0
          /\ \A i \in 1..e - (n + 1) + 1 : SubSeq(b, n + 1, e)[i] = b[(n + 1) + i - 1]
      BY <3>1, SubSeqProperties
    <3>3. e - (n + 1) + 1 = Len(w) /\ \A i \in 1..Len(w) : (n + 1) + i - 1 = n + i
      BY <3>1, <1>2
    <3>4. (IF n + 1 <= e THEN e - (n + 1) + 1 ELSE 0) = Len(w) BY <3>1, <1>2
    <3>5. \A i \in 1..Len(w) : SubSeq(b, n + 1, e)[i] = b[n + i] BY <3>2, <3>3
    <3> QED BY <3>2, <3>4, <3>5 DEF n, e
  <2>2. \A i \in 1..Len(w) : b[Size(h) + i] = w[i]
    <3> SUFFICES ASSUME NEW i \in 1..Len(w) PROVE b[Size(h) + i] = w[i] OBVIOUS
    <3>1. /\ Size(h) + i \in 1..Len(g) + Len(w) /\ ~(Size(h) + i <= Len(g))
          /\ (Size(h) + i) - Len(g) = i
      BY <1>1, <1>2, <1>10
    <3> QED BY <3>1, <1>2
  <2> HIDE DEF r
  <2>3. r = w BY <2>1, <2>2, SeqEqual
  <2> QED BY <2>3 DEF r
<1> QED BY <1>4, <1>6, <1>10, <1>11 DEF h

\* An integer that has been read completely is the next message, if that is one.
LEMMA ReadsInteger ==
  ASSUME NEW g \in Seq(Byte), NEW w \in Seq(Byte), NEW q \in Seq(Messages), Coded(g \o w, q),
         q # <<>>, q[1] \in Errors, Len(g) = IntSize
  PROVE  g[1][1] = q[1]
<1> DEFINE b == g \o w
<1>1. IntSize \in Nat \ {0} /\ 1 \in 1..IntSize
  <2>1. IntSize \in {LengthSize, BodySize, IntSize} OBVIOUS
  <2> QED BY <2>1, SizesAssumption
<1>2. /\ b \in Seq(Byte) /\ Len(b) = Len(g) + Len(w) /\ Len(w) \in Nat /\ b[1] = g[1]
  <2>1. /\ b \in Seq(Byte) /\ Len(b) = Len(g) + Len(w) /\ Len(w) \in Nat
        /\ \A i \in 1..Len(g) + Len(w) : b[i] = IF i <= Len(g) THEN g[i] ELSE w[i - Len(g)]
    BY ConcatProperties
  <2>2. 1 \in 1..Len(g) + Len(w) /\ 1 <= Len(g) BY <1>1, <2>1
  <2> HIDE DEF b
  <2> QED BY <2>1, <2>2
<1>3. Size(q[1]) = IntSize BY MessageKinds DEF Size
<1>4. b[1] = ByteOf(q[1], 1)
  <2>1. \A k \in 1..Size(q[1]) : b[k] = ByteOf(q[1], k) BY <1>2, CodedHead
  <2> QED BY <2>1, <1>1, <1>3
<1>5. ByteOf(q[1], 1) = <<q[1], 1>> BY MessageKinds DEF ByteOf
<1> QED BY <1>2, <1>4, <1>5

\* Sequences written out and put together.
LEMMA Joined ==
  /\ \A a, b, c \in Seq(Byte) : (a \o b) \o c = a \o (b \o c)
  /\ \A a, b, c \in Seq(Messages) : (a \o b) \o c = a \o (b \o c)
<1>1. \A S : \A a, b, c \in Seq(S) : (a \o b) \o c = a \o (b \o c) BY ConcatAssociative
<1> QED BY <1>1

\* A sequence of messages and one more.
LEMMA Appended ==
  ASSUME NEW q \in Seq(Messages), NEW m \in Messages
  PROVE  /\ q \o <<m>> \in Seq(Messages) /\ Len(q \o <<m>>) = Len(q) + 1
         /\ (q \o <<m>>)[Len(q) + 1] = m /\ \A i \in 1..Len(q) : (q \o <<m>>)[i] = q[i]
<1>1. q \o <<m>> = Append(q, m) BY AppendIsConcat
<1>2. /\ Append(q, m) \in Seq(Messages) /\ Len(Append(q, m)) = Len(q) + 1
      /\ Append(q, m)[Len(q) + 1] = m /\ \A i \in 1..Len(q) : Append(q, m)[i] = q[i]
  BY AppendProperties
<1> QED BY <1>1, <1>2

LEMMA AppendTwo ==
  ASSUME NEW m \in Messages, NEW n \in Messages
  PROVE  <<m>> \o <<n>> = <<m, n>>
<1> DEFINE a == <<m>>  e == a \o <<n>>  p == <<m, n>>
<1>1. a \in Seq(Messages) /\ Len(a) = 1 /\ a[1] = m OBVIOUS
<1>2. p \in Seq(Messages) /\ Len(p) = 2 /\ p[1] = m /\ p[2] = n OBVIOUS
<1> HIDE DEF a, p
<1>3. e \in Seq(Messages) /\ Len(e) = Len(a) + 1 /\ e[Len(a) + 1] = n /\ \A i \in 1..Len(a) : e[i] = a[i]
  BY <1>1, Appended
<1> HIDE DEF e
<1>4. \A i \in 1..2 : i = 1 \/ i = 2 OBVIOUS
<1>5. Len(e) = 2 /\ e[1] = m /\ e[2] = n BY <1>1, <1>3
<1>6. e = p BY <1>2, <1>3, <1>4, <1>5, SeqEqual
<1> QED BY <1>6 DEF a, e, p

LEMMA AppendThree ==
  ASSUME NEW m \in Messages, NEW n \in Messages, NEW k \in Messages
  PROVE  (<<m>> \o <<n>>) \o <<k>> = <<m, n, k>>
<1> DEFINE a == <<m, n>>  e == a \o <<k>>  p == <<m, n, k>>
<1>1. a \in Seq(Messages) /\ Len(a) = 2 /\ a[1] = m /\ a[2] = n OBVIOUS
<1>2. p \in Seq(Messages) /\ Len(p) = 3 /\ p[1] = m /\ p[2] = n /\ p[3] = k OBVIOUS
<1>7. <<m>> \o <<n>> = a BY AppendTwo
<1> HIDE DEF a, p
<1>3. e \in Seq(Messages) /\ Len(e) = Len(a) + 1 /\ e[Len(a) + 1] = k /\ \A i \in 1..Len(a) : e[i] = a[i]
  BY <1>1, Appended
<1> HIDE DEF e
<1>4. \A i \in 1..3 : i = 1 \/ i = 2 \/ i = 3 OBVIOUS
<1>5. Len(e) = 3 /\ e[1] = m /\ e[2] = n /\ e[3] = k BY <1>1, <1>3
<1>6. e = p BY <1>2, <1>3, <1>4, <1>5, SeqEqual
<1> QED BY <1>6, <1>7 DEF e, p

\* Messages and bytes that are added at the end together.
Adds(names, bytes) ==
  /\ names \in Seq(Messages) /\ bytes \in Seq(Byte)
  /\ \A b \in Seq(Byte), q \in Seq(Messages) : \A h \in 0..Len(q) :
       Coded(b, Rest(q, h)) => Coded(b \o bytes, Rest(q \o names, h))

LEMMA AddsOne == ASSUME NEW m \in Messages PROVE Adds(<<m>>, Code(m))
<1>1. <<m>> \in Seq(Messages) OBVIOUS
<1>2. Code(m) \in Seq(Byte) BY CodeIsBytes
<1>3. ASSUME NEW b \in Seq(Byte), NEW q \in Seq(Messages), NEW h \in 0..Len(q), Coded(b, Rest(q, h))
      PROVE  Coded(b \o Code(m), Rest(q \o <<m>>, h))
  <2>1. q \o <<m>> = Append(q, m) BY AppendIsConcat
  <2>2. Rest(Append(q, m), h) = Append(Rest(q, h), m) /\ Rest(q, h) \in Seq(Messages) BY RestAppend
  <2> QED BY <1>3, <2>1, <2>2, CodedAppend
<1> QED BY <1>1, <1>2, <1>3 DEF Adds

LEMMA AddsBoth ==
  ASSUME NEW m, NEW c, NEW n, NEW d, Adds(m, c), Adds(n, d)
  PROVE  Adds(m \o n, c \o d)
<1>1. /\ m \in Seq(Messages) /\ n \in Seq(Messages) /\ c \in Seq(Byte) /\ d \in Seq(Byte) BY DEF Adds
<1>2. m \o n \in Seq(Messages) /\ c \o d \in Seq(Byte) BY <1>1, ConcatProperties
<1>3. ASSUME NEW b \in Seq(Byte), NEW q \in Seq(Messages), NEW h \in 0..Len(q), Coded(b, Rest(q, h))
      PROVE  Coded(b \o (c \o d), Rest(q \o (m \o n), h))
  <2>1. /\ b \o c \in Seq(Byte) /\ q \o m \in Seq(Messages) /\ Len(q \o m) = Len(q) + Len(m)
        /\ Len(q) \in Nat /\ Len(m) \in Nat
    BY <1>1, ConcatProperties
  <2>2. h \in 0..Len(q \o m) BY <2>1
  <2>3. Coded(b \o c, Rest(q \o m, h)) BY <1>3 DEF Adds
  <2>4. Coded((b \o c) \o d, Rest((q \o m) \o n, h)) BY <2>1, <2>2, <2>3 DEF Adds
  <2>5. (b \o c) \o d = b \o (c \o d) BY <1>1, Joined
  <2>6. (q \o m) \o n = q \o (m \o n) BY <1>1, Joined
  <2> QED BY <2>4, <2>5, <2>6
<1> QED BY <1>2, <1>3 DEF Adds

\* Everything that either side writes.
LEMMA AddsWritten ==
  /\ \A m \in States : Adds(<<m>>, Control(m))
  /\ Adds(<<"cookie">>, Integer("cookie"))
  /\ \A m \in Jsons : Adds(<<m>>, Json(m))
  /\ Adds(<<"TEST_START", "TEST_RUNNING">>, Control("TEST_START") \o Control("TEST_RUNNING"))
  /\ Adds(<<"serverResults", "DISPLAY_RESULTS">>, Json("serverResults") \o Control("DISPLAY_RESULTS"))
  /\ \A e \in Errors : Adds(Error(e), ErrorBytes(e))
<1>1. \A m \in States : Adds(<<m>>, Control(m)) BY AddsOne, WrittenIsCode, MessageKinds
<1>2. Adds(<<"cookie">>, Integer("cookie")) BY AddsOne, WrittenIsCode, MessageKinds
<1>3. \A m \in Jsons : Adds(<<m>>, Json(m)) BY AddsOne, WrittenIsCode, MessageKinds
<1>4. \A m, n \in Messages : <<m>> \o <<n>> = <<m, n>> BY AppendTwo
<1>5. {"TEST_START", "TEST_RUNNING", "DISPLAY_RESULTS", "SERVER_ERROR"} \subseteq States
  BY DEF States, ClientExpects
<1>6. "serverResults" \in Jsons BY DEF Jsons
<1>7. Adds(<<"TEST_START">> \o <<"TEST_RUNNING">>, Control("TEST_START") \o Control("TEST_RUNNING"))
  BY <1>1, <1>5, AddsBoth
<1>8. Adds(<<"serverResults">> \o <<"DISPLAY_RESULTS">>, Json("serverResults") \o Control("DISPLAY_RESULTS"))
  BY <1>1, <1>3, <1>5, <1>6, AddsBoth
<1>9. ASSUME NEW e \in Errors PROVE Adds(Error(e), ErrorBytes(e))
  <2>1. Adds(<<e>>, Integer(e)) BY AddsOne, WrittenIsCode, MessageKinds
  <2>2. Adds(<<"errno">>, Integer("errno")) BY AddsOne, WrittenIsCode, MessageKinds
  <2>3. Adds(<<"SERVER_ERROR">> \o <<e>>, Control("SERVER_ERROR") \o Integer(e))
    BY <2>1, <1>1, <1>5, AddsBoth
  <2>4. Adds((<<"SERVER_ERROR">> \o <<e>>) \o <<"errno">>, (Control("SERVER_ERROR") \o Integer(e)) \o Integer("errno"))
    BY <2>2, <2>3, AddsBoth
  <2>5. (<<"SERVER_ERROR">> \o <<e>>) \o <<"errno">> = <<"SERVER_ERROR", e, "errno">>
    BY <1>5, MessageKinds, AppendThree
  <2> QED BY <2>4, <2>5 DEF Error, ErrorBytes
<1> QED BY <1>1, <1>2, <1>3, <1>4, <1>5, <1>6, <1>7, <1>8, <1>9, MessageKinds

LEMMA SidesAre ==
  /\ Sides = {"client", "server"} /\ Peer("client") = "server" /\ Peer("server") = "client"
  /\ \A s \in Sides : Peer(s) \in Sides /\ Peer(Peer(s)) = s /\ Peer(s) # s
BY DEF Sides, Peer

-----------------------------------------------------------------------------
(* What a step of one side does to the channel.                            *)

LearnsNext(s, m) == Len(heard[s]) < Len(sent[Peer(s)]) /\ m = sent[Peer(s)][Len(heard[s]) + 1]

\* Side s writes the messages names, or nothing; it may have a read over, have heard the
\* next message, and shut its side.
Acts(s, names) ==
  /\ \/ UNCHANGED <<sent, wire, reset>> /\ names = <<>>
     \/ \E bytes : Adds(names, bytes) /\ Writes(s, names, bytes)
  /\ UNCHANGED readVars \/ ReadIsOver(s)
  /\ UNCHANGED heard \/ \E m : LearnsNext(s, m) /\ Hears(s, <<m>>)
  /\ UNCHANGED shut \/ Shuts(s)
  /\ UNCHANGED closed

\* Nothing that has been said or heard is taken back, and what is heard is the next message.
Extends ==
  \A s \in Sides :
    /\ Len(sent[s]) <= Len(sent'[s])
    /\ \A i \in 1..Len(sent[s]) : sent'[s][i] = sent[s][i]

Learns ==
  \A s \in Sides :
    \/ heard'[s] = heard[s]
    \/ \E m : /\ LearnsNext(s, m)
              /\ Len(heard'[s]) = Len(heard[s]) + 1 /\ heard'[s][Len(heard[s]) + 1] = m
              /\ \A i \in 1..Len(heard[s]) : heard'[s][i] = heard[s][i]

\* What a step of the other side leaves alone.
Keeps(s) ==
  /\ pc'[s] = pc[s] /\ state'[s] = state[s] /\ got'[s] = got[s] /\ ended'[s] = ended[s]
  /\ heard'[s] = heard[s] /\ sent'[s] = sent[s]
  /\ s \in closed' <=> s \in closed
  /\ s \in shut' <=> s \in shut

LEMMA PrefixGrows ==
  ASSUME ChannelTypes, Prefix, Extends, Learns, ChannelTypes'
  PROVE  Prefix'
<1> SUFFICES ASSUME NEW s \in Sides
             PROVE  /\ Len(heard'[s]) <= Len(sent'[Peer(s)])
                    /\ \A i \in 1..Len(heard'[s]) : heard'[s][i] = sent'[Peer(s)][i]
  BY DEF Prefix
<1> DEFINE r == Peer(s)
<1>1. r \in Sides BY SidesAre
<1>2. /\ Len(heard[s]) \in Nat /\ Len(sent[r]) \in Nat /\ Len(sent'[r]) \in Nat
      /\ Len(heard'[s]) \in Nat
  BY <1>1 DEF ChannelTypes
<1>3. Len(heard[s]) <= Len(sent[r]) /\ \A i \in 1..Len(heard[s]) : heard[s][i] = sent[r][i]
  BY DEF Prefix
<1>4. Len(sent[r]) <= Len(sent'[r]) /\ \A i \in 1..Len(sent[r]) : sent'[r][i] = sent[r][i]
  BY <1>1 DEF Extends
<1>5. CASE heard'[s] = heard[s] BY <1>2, <1>3, <1>4, <1>5
<1>6. CASE heard'[s] # heard[s]
  <2>1. PICK m : /\ LearnsNext(s, m)
                 /\ Len(heard'[s]) = Len(heard[s]) + 1 /\ heard'[s][Len(heard[s]) + 1] = m
                 /\ \A i \in 1..Len(heard[s]) : heard'[s][i] = heard[s][i]
    BY <1>6 DEF Learns
  <2>2. Len(heard[s]) < Len(sent[r]) /\ m = sent[r][Len(heard[s]) + 1] BY <2>1 DEF LearnsNext
  <2>3. ASSUME NEW i \in 1..Len(heard'[s]) PROVE heard'[s][i] = sent'[r][i]
    <3>1. i \in 1..Len(sent[r]) /\ (i = Len(heard[s]) + 1 \/ i \in 1..Len(heard[s]))
      BY <1>2, <2>1, <2>2
    <3> QED BY <3>1, <1>3, <1>4, <2>1, <2>2
  <2> QED BY <2>1, <2>2, <2>3, <1>2, <1>4
<1> QED BY <1>5, <1>6 DEF r

LEMMA ChannelKept ==
  ASSUME ChannelTypes, Prefix, Quiet, NEW s \in Sides, NEW names, Acts(s, names),
         Stream(Peer(s)), pc'[Peer(s)] = pc[Peer(s)], state'[Peer(s)] = state[Peer(s)]
  PROVE  /\ ChannelTypes' /\ Extends /\ Learns /\ Prefix' /\ Keeps(Peer(s)) /\ Stream(Peer(s))'
         /\ wire'[s] = wire[s] /\ sent'[s] = sent[s] \o names /\ names \in Seq(Messages)
         /\ closed' = closed /\ shut' \in {shut, shut \cup {s}}
<1> DEFINE r == Peer(s)
<1>0. r \in Sides /\ Peer(r) = s /\ r # s /\ Sides = {s, r} BY SidesAre
<1>1. /\ wire[r] \in Seq(Byte) /\ got[r] \in Seq(Byte) /\ sent[s] \in Seq(Messages)
      /\ heard[s] \in Seq(Messages) /\ sent[r] \in Seq(Messages) /\ heard[r] \in Seq(Messages)
  BY <1>0 DEF ChannelTypes
<1> DEFINE said == sent[s]
<1>2. /\ sent' \in [Sides -> Seq(Messages)] /\ sent'[s] = sent[s] \o names /\ sent'[r] = sent[r]
      /\ wire' \in [Sides -> Seq(Byte)] /\ wire'[s] = wire[s] /\ reset' \subseteq Sides
      /\ names \in Seq(Messages)
      /\ \/ names = <<>> /\ wire'[r] = wire[r]
         \/ \E bytes : Adds(names, bytes) /\ (r \notin closed => wire'[r] = wire[r] \o bytes)
  <2>1. CASE UNCHANGED <<sent, wire, reset>> /\ names = <<>>
    <3>1. sent[s] \o <<>> = sent[s] BY <1>1, ConcatEmptySeq
    <3>2. <<>> \in Seq(Messages) OBVIOUS
    <3> QED BY <2>1, <3>1, <3>2 DEF ChannelTypes
  <2>2. ASSUME NEW bytes, Adds(names, bytes), Writes(s, names, bytes)
        PROVE  /\ sent' \in [Sides -> Seq(Messages)] /\ sent'[s] = sent[s] \o names /\ sent'[r] = sent[r]
               /\ wire' \in [Sides -> Seq(Byte)] /\ wire'[s] = wire[s] /\ reset' \subseteq Sides
               /\ names \in Seq(Messages)
               /\ r \notin closed => wire'[r] = wire[r] \o bytes
    <3>1. /\ names \in Seq(Messages) /\ bytes \in Seq(Byte) BY <2>2 DEF Adds
    <3>2. /\ wire[r] \o bytes \in Seq(Byte) /\ sent[s] \o names \in Seq(Messages)
      BY <1>1, <3>1, ConcatProperties
    <3>3. sent' = [sent EXCEPT ![s] = sent[s] \o names] BY <2>2 DEF Writes
    <3>4. sent' \in [Sides -> Seq(Messages)] /\ sent'[s] = sent[s] \o names /\ sent'[r] = sent[r]
      BY <1>0, <3>2, <3>3 DEF ChannelTypes
    <3>5. CASE r \in closed
      <4>1. reset' = reset \cup {s} /\ wire' = wire BY <2>2, <3>5 DEF Writes
      <4> QED BY <3>1, <3>4, <3>5, <4>1 DEF ChannelTypes
    <3>6. CASE r \notin closed
      <4>1. reset' = reset /\ wire' = [wire EXCEPT ![r] = wire[r] \o bytes] BY <2>2, <3>6 DEF Writes
      <4> QED BY <1>0, <3>1, <3>2, <3>4, <4>1 DEF ChannelTypes
    <3> QED BY <3>5, <3>6
  <2> QED BY <2>1, <2>2 DEF Acts
<1>3. /\ Len(said \o names) = Len(said) + Len(names) /\ Len(said) \in Nat /\ Len(names) \in Nat
      /\ \A i \in 1..Len(said) : (said \o names)[i] = said[i]
  <2> HIDE DEF said
  <2>1. said \in Seq(Messages) /\ names \in Seq(Messages) BY <1>1, <1>2 DEF said
  <2>2. /\ Len(said \o names) = Len(said) + Len(names)
        /\ \A i \in 1..Len(said) + Len(names) : (said \o names)[i] = IF i <= Len(said) THEN said[i] ELSE names[i - Len(said)]
    BY <2>1, ConcatProperties
  <2> QED BY <2>1, <2>2
<1>4. Extends
  <2>1. Len(sent[s]) <= Len(sent'[s]) /\ \A i \in 1..Len(sent[s]) : sent'[s][i] = sent[s][i]
    BY <1>2, <1>3
  <2>2. Len(sent[r]) <= Len(sent'[r]) /\ \A i \in 1..Len(sent[r]) : sent'[r][i] = sent[r][i]
    BY <1>1, <1>2
  <2> QED BY <1>0, <2>1, <2>2 DEF Extends
<1>5. heard' \in [Sides -> Seq(Messages)] /\ heard'[r] = heard[r] /\ Learns
  <2>1. CASE UNCHANGED heard BY <2>1 DEF ChannelTypes, Learns
  <2>2. ASSUME NEW m, LearnsNext(s, m), Hears(s, <<m>>)
        PROVE  heard' \in [Sides -> Seq(Messages)] /\ heard'[r] = heard[r] /\ Learns
    <3>1. m \in Messages
      <4>1. Len(heard[s]) \in Nat /\ Len(sent[r]) \in Nat BY <1>1
      <4>2. Len(heard[s]) + 1 \in 1..Len(sent[r]) BY <4>1, <2>2 DEF LearnsNext
      <4> QED BY <4>2, <1>1, <2>2, ElementOfSeq DEF LearnsNext
    <3> DEFINE h == heard[s]  k == h \o <<m>>
    <3>2. h \in Seq(Messages) BY <1>1
    <3> HIDE DEF h
    <3>3. k = Append(h, m) BY <3>1, <3>2, AppendIsConcat
    <3>4. k \in Seq(Messages) /\ Len(k) = Len(h) + 1 /\ k[Len(h) + 1] = m /\ \A i \in 1..Len(h) : k[i] = h[i]
      BY <3>1, <3>2, <3>3, AppendProperties
    <3> HIDE DEF k
    <3>5. heard' = [heard EXCEPT ![s] = k] BY <2>2 DEF Hears, h, k
    <3>6. heard' \in [Sides -> Seq(Messages)] /\ heard'[r] = heard[r] /\ heard'[s] = k
      BY <3>4, <3>5, <1>0 DEF ChannelTypes
    <3> QED BY <3>4, <3>6, <2>2, <1>0 DEF Learns, h
  <2> QED BY <2>1, <2>2 DEF Acts
<1>6. /\ got' \in [Sides -> Seq(Byte)] /\ ended' \in [Sides -> {"no", "short", "error"}] /\ late' \in BOOLEAN
      /\ got'[r] = got[r] /\ ended'[r] = ended[r]
  <2>1. <<>> \in Seq(Byte) OBVIOUS
  <2>2. CASE UNCHANGED readVars BY <2>2 DEF readVars, ChannelTypes
  <2>3. CASE ReadIsOver(s) BY <2>1, <2>3, <1>0 DEF ReadIsOver, ChannelTypes
  <2> QED BY <2>2, <2>3 DEF Acts
<1>7. closed' = closed /\ shut' \in {shut, shut \cup {s}} BY DEF Acts, Shuts
<1>8. ChannelTypes' BY <1>2, <1>5, <1>6, <1>7 DEF ChannelTypes
<1>9. Keeps(r) BY <1>0, <1>2, <1>5, <1>6, <1>7 DEF Keeps
<1>10. Stream(r)'
  <2> SUFFICES ASSUME pc[r] \in Listening
               PROVE  Coded(got[r] \o wire'[r], Rest(sent[s] \o names, Len(heard[r])))
    BY <1>0, <1>2, <1>5, <1>6 DEF Stream
  <2> DEFINE g == got[r]  w == wire[r]
  <2>1. Coded(g \o w, Rest(sent[s], Len(heard[r]))) BY <1>0 DEF Stream
  <2>2. CASE names = <<>> /\ wire'[r] = wire[r]
    <3>1. sent[s] \o <<>> = sent[s] BY <1>1, ConcatEmptySeq
    <3> QED BY <2>1, <2>2, <3>1
  <2>3. ASSUME NEW bytes, Adds(names, bytes), r \notin closed => wire'[r] = wire[r] \o bytes
        PROVE  Coded(got[r] \o wire'[r], Rest(sent[s] \o names, Len(heard[r])))
    <3>1. r \notin closed BY <1>0 DEF Quiet, QuietAt, Listening
    <3>2. g \in Seq(Byte) /\ w \in Seq(Byte) /\ bytes \in Seq(Byte) BY <1>1, <2>3 DEF Adds
    <3>3. Len(heard[r]) \in 0..Len(sent[s])
      <4>1. Len(heard[r]) \in Nat /\ Len(heard[r]) <= Len(sent[s]) BY <1>0, <1>1 DEF Prefix
      <4> QED BY <4>1, <1>3
    <3> HIDE DEF g, w
    <3>4. g \o w \in Seq(Byte) BY <3>2, ConcatProperties
    <3>5. (g \o w) \o bytes = g \o (w \o bytes) BY <3>2, Joined
    <3>6. Coded((g \o w) \o bytes, Rest(sent[s] \o names, Len(heard[r])))
      BY <1>1, <2>1, <2>3, <3>3, <3>4 DEF Adds
    <3> QED BY <2>3, <3>1, <3>5, <3>6 DEF g, w
  <2> QED BY <1>2, <2>2, <2>3
<1>11. Prefix' BY <1>4, <1>5, <1>8, PrefixGrows
<1> QED BY <1>2, <1>4, <1>5, <1>7, <1>8, <1>9, <1>10, <1>11 DEF r
-----------------------------------------------------------------------------
(* Reads.                                                                  *)

LEMMA LengthsAre ==
  /\ IntSize \in Nat \ {0} /\ LengthSize \in Nat \ {0} /\ BodySize \in Nat \ {0}
  /\ \A m \in Jsons : Json(m) = Code(m) /\ Len(Json(m)) = LengthSize + BodySize
  /\ Params = Json("params") /\ Results("client") = Json("clientResults")
  /\ Results("server") = Json("serverResults")
  /\ {"params", "clientResults", "serverResults"} \subseteq Jsons \cap Messages
<1>1. IntSize \in Nat \ {0} /\ LengthSize \in Nat \ {0} /\ BodySize \in Nat \ {0}
  <2>1. {IntSize, LengthSize, BodySize} \subseteq Nat \ {0} BY SizesAssumption
  <2> QED BY <2>1
<1>2. ASSUME NEW m \in Jsons PROVE Json(m) = Code(m) /\ Len(Json(m)) = LengthSize + BodySize
  <2>1. Json(m) = Code(m) /\ m \in Messages BY WrittenIsCode, MessageKinds
  <2>2. Len(Code(m)) = Size(m) /\ Size(m) = LengthSize + BodySize
    BY <2>1, CodeIsBytes, MessageKinds DEF Size
  <2> QED BY <2>1, <2>2
<1> QED BY <1>1, <1>2, MessageKinds DEF Params, Results, Jsons

LEMMA WantedIs ==
  ASSUME NEW s \in Sides
  PROVE  Wanted(s) \in Nat /\ (pc[s] \notin Reading => Wanted(s) = 0) /\ Wanted(s)' \in Nat
<1>1. IntSize \in Nat /\ Len(Params) \in Nat /\ Len(Results("client")) \in Nat /\ Len(Results("server")) \in Nat
  BY LengthsAre
<1>2. Results(Peer(s)) \in {Results("client"), Results("server")} BY SidesAre
<1> QED BY <1>1, <1>2 DEF Wanted, Reading

\* Who is not reading has nothing in its buffer.
LEMMA NothingRead ==
  ASSUME ChannelTypes, Quiet, NEW s \in Sides, pc[s] \notin Reading
  PROVE  got[s] = <<>> /\ ended[s] = "no" /\ got[s] \o wire[s] = wire[s]
<1>1. got[s] \in Seq(Byte) /\ wire[s] \in Seq(Byte) BY DEF ChannelTypes
<1>2. Len(got[s]) <= 0 /\ ended[s] = "no" BY WantedIs DEF Quiet, QuietAt
<1>3. got[s] = <<>> BY <1>1, <1>2, EmptySeq
<1>4. <<>> \o wire[s] = wire[s] BY <1>1, ConcatEmptySeq
<1> QED BY <1>2, <1>3, <1>4

\* A message that has been read whole is the next one.
LEMMA HearsWhole ==
  ASSUME ChannelTypes, Prefix, NEW s \in Sides, Stream(s), pc[s] \in Listening, NEW m \in Messages,
         got[s] = Code(m)
  PROVE  /\ LearnsNext(s, m)
         /\ Coded(wire[s], Rest(sent[Peer(s)], Len(heard[s]) + 1))
<1> DEFINE q == sent[Peer(s)]  h == Len(heard[s])
<1>1. /\ got[s] \in Seq(Byte) /\ wire[s] \in Seq(Byte) /\ q \in Seq(Messages) /\ h \in Nat
      /\ h <= Len(q) /\ Len(q) \in Nat
  BY SidesAre DEF ChannelTypes, Prefix
<1>2. Rest(q, h) \in Seq(Messages) /\ (h = Len(q) => Rest(q, h) = <<>>)
  <2> HIDE DEF q, h
  <2>1. h \in 0..Len(q) BY <1>1
  <2>2. Rest(q, h) \in Seq(Messages) BY <1>1, <2>1, MessageKinds, RestAppend
  <2>3. h = Len(q) => Rest(q, h) = <<>> BY <1>1, SubSeqEmpty DEF Rest
  <2> QED BY <2>2, <2>3
<1>3. Coded(got[s] \o wire[s], Rest(q, h)) BY DEF Stream
<1>4. Rest(q, h) # <<>> /\ Rest(q, h)[1] = m /\ Coded(wire[s], Tail(Rest(q, h)))
  BY <1>1, <1>2, <1>3, ReadsMessage
<1>5. h \in 0..Len(q) - 1 BY <1>1, <1>2, <1>4
<1>6. Rest(q, h)[1] = q[h + 1] /\ Tail(Rest(q, h)) = Rest(q, h + 1) BY <1>1, <1>5, RestTail
<1>7. h < Len(q) BY <1>1, <1>5
<1>8. m = q[h + 1] /\ Coded(wire[s], Rest(q, h + 1)) BY <1>4, <1>6
<1> QED BY <1>7, <1>8 DEF LearnsNext

\* A state that has been read is the next message, when that is one.
LEMMA HearsState ==
  ASSUME ChannelTypes, Prefix, Quiet, NEW s \in Sides, Stream(s), pc[s] = "select", wire[s] # <<>>
  PROVE  /\ Len(heard[s]) < Len(sent[Peer(s)])
         /\ LET m == sent[Peer(s)][Len(heard[s]) + 1]
            IN m \in States =>
                 /\ Head(wire[s]) = <<m, 1>> /\ LearnsNext(s, m)
                 /\ Coded(Tail(wire[s]), Rest(sent[Peer(s)], Len(heard[s]) + 1))
<1> DEFINE q == sent[Peer(s)]  h == Len(heard[s])  w == wire[s]
<1>1. /\ w \in Seq(Byte) /\ q \in Seq(Messages) /\ h \in Nat /\ h <= Len(q) /\ Len(q) \in Nat
  BY SidesAre DEF ChannelTypes, Prefix
<1>2. Coded(w, Rest(q, h)) BY NothingRead DEF Stream, Reading, Listening
<1> HIDE DEF q, h
<1>3. Rest(q, h) \in Seq(Messages) /\ (h = Len(q) => Rest(q, h) = <<>>)
  <2>1. h \in 0..Len(q) BY <1>1
  <2>2. Rest(q, h) \in Seq(Messages) BY <1>1, <2>1, MessageKinds, RestAppend
  <2>3. h = Len(q) => Rest(q, h) = <<>> BY <1>1, SubSeqEmpty DEF Rest
  <2> QED BY <2>2, <2>3
<1>4. Rest(q, h) # <<>> BY <1>1, <1>2, <1>3, CodedEmpty
<1>5. h \in 0..Len(q) - 1 BY <1>1, <1>3, <1>4
<1>6. Rest(q, h)[1] = q[h + 1] /\ Tail(Rest(q, h)) = Rest(q, h + 1) BY <1>1, <1>5, RestTail
<1>7. q[h + 1] \in States => Head(w) = <<q[h + 1], 1>> /\ Coded(Tail(w), Rest(q, h + 1))
  BY <1>1, <1>2, <1>3, <1>4, <1>6, ReadsByte
<1> QED BY <1>5, <1>7, <1>1 DEF q, h, LearnsNext
-----------------------------------------------------------------------------
(* What is said.                                                           *)

LEMMA ScriptsAre ==
  /\ Len(ServerScript) = 7 /\ Len(ClientScript) = 4
  /\ \A i \in 1..7 : ServerScript[i] \in Messages \ (Errors \cup {"SERVER_ERROR", "errno"})
  /\ \A i \in 1..4 : ClientScript[i] \in Messages \ {"IPERF_DONE"}
<1>1. \A i \in 1..7 : i = 1 \/ i = 2 \/ i = 3 \/ i = 4 \/ i = 5 \/ i = 6 \/ i = 7 OBVIOUS
<1>2. \A i \in 1..4 : i = 1 \/ i = 2 \/ i = 3 \/ i = 4 OBVIOUS
<1>3. /\ Len(ServerScript) = 7
      /\ ServerScript[1] = "PARAM_EXCHANGE" /\ ServerScript[2] = "CREATE_STREAMS"
      /\ ServerScript[3] = "TEST_START" /\ ServerScript[4] = "TEST_RUNNING"
      /\ ServerScript[5] = "EXCHANGE_RESULTS" /\ ServerScript[6] = "serverResults"
      /\ ServerScript[7] = "DISPLAY_RESULTS"
  BY DEF ServerScript
<1>4. /\ Len(ClientScript) = 4
      /\ ClientScript[1] = "cookie" /\ ClientScript[2] = "params"
      /\ ClientScript[3] = "TEST_END" /\ ClientScript[4] = "clientResults"
  BY DEF ClientScript
<1>5. {"PARAM_EXCHANGE", "CREATE_STREAMS", "TEST_START", "TEST_RUNNING", "EXCHANGE_RESULTS",
       "serverResults", "DISPLAY_RESULTS"} \subseteq Messages \ (Errors \cup {"SERVER_ERROR", "errno"})
  BY DEF Messages, States, Jsons, Errors, ClientExpects, ServerExpects
<1>6. {"cookie", "params", "TEST_END", "clientResults"} \subseteq Messages \ {"IPERF_DONE"}
  BY DEF Messages, States, Jsons, Errors, ClientExpects, ServerExpects
<1> QED BY <1>1, <1>2, <1>3, <1>4, <1>5, <1>6

\* The server says the next message of the script.
LEMMA WellSaidNext ==
  ASSUME NEW q \in Seq(Messages), WellSaid(q), NEW n \in 0..6, Len(q) = n,
         n > 0 => Follows(ServerScript, q, n), NEW m, m = ServerScript[n + 1]
  PROVE  /\ WellSaid(q \o <<m>>) /\ Follows(ServerScript, q \o <<m>>, n + 1)
         /\ q \o <<m>> \in Seq(Messages) /\ Len(q \o <<m>>) = n + 1
<1> DEFINE p == q \o <<m>>
<1>1. m \in Messages
  <2>1. n + 1 \in 1..7 OBVIOUS
  <2> QED BY <2>1, ScriptsAre
<1>2. p = Append(q, m) BY <1>1, AppendIsConcat
<1>3. p \in Seq(Messages) /\ Len(p) = n + 1 /\ p[n + 1] = m /\ \A i \in 1..n : p[i] = q[i]
  BY <1>1, <1>2, AppendProperties
<1> HIDE DEF p
<1>4. Follows(ServerScript, p, n + 1) BY <1>3, ScriptsAre DEF Follows
<1>5. \A i \in 1..n : Follows(ServerScript, q, i) => Follows(ServerScript, p, i)
  BY <1>3, ScriptsAre DEF Follows
<1>6. ASSUME NEW i \in 1..Len(p) PROVE InPlace(p, i)
  <2>1. CASE i = n + 1
    <3>1. i > 1 => Follows(ServerScript, p, i - 1) BY <2>1, <1>5
    <3> QED BY <2>1, <3>1, <1>4 DEF InPlace
  <2>2. CASE i \in 1..n
    <3>1. InPlace(q, i) BY <2>2 DEF WellSaid
    <3>2. p[i] = q[i] /\ (i > 1 => i - 1 \in 1..n /\ p[i - 1] = q[i - 1]) BY <2>2, <1>3
    <3>3. i + 1 <= Len(q) => i + 1 <= Len(p) /\ p[i + 1] = q[i + 1] BY <2>2, <1>3
    <3>4. Follows(ServerScript, q, i) => Follows(ServerScript, p, i) BY <2>2, <1>5
    <3>5. i > 1 /\ Follows(ServerScript, q, i - 1) => Follows(ServerScript, p, i - 1)
      BY <2>2, <1>5
    <3> QED BY <3>1, <3>2, <3>3, <3>4, <3>5 DEF InPlace
  <2> QED BY <1>3, <2>1, <2>2
<1> QED BY <1>3, <1>4, <1>6 DEF WellSaid, p

\* The next message or the next two.
LEMMA WellSaidOn ==
  ASSUME NEW q \in Seq(Messages), WellSaid(q), NEW n \in 0..6, Len(q) = n,
         n > 0 => Follows(ServerScript, q, n), NEW names,
         \/ names = <<ServerScript[n + 1]>>
         \/ n < 6 /\ names = <<ServerScript[n + 1], ServerScript[n + 2]>>
  PROVE  /\ WellSaid(q \o names) /\ Len(q \o names) = n + Len(names)
         /\ Follows(ServerScript, q \o names, n + Len(names))
<1>1. CASE names = <<ServerScript[n + 1]>>
  <2>1. Len(names) = 1 BY <1>1
  <2> QED BY <1>1, <2>1, WellSaidNext
<1>2. CASE n < 6 /\ names = <<ServerScript[n + 1], ServerScript[n + 2]>>
  <2> DEFINE a == ServerScript[n + 1]  c == ServerScript[n + 2]  k == n + 1  p == q \o <<a>>
  <2>1. a \in Messages /\ c \in Messages
    <3>1. n + 1 \in 1..7 /\ n + 2 \in 1..7 BY <1>2
    <3> QED BY <3>1, ScriptsAre
  <2>2. WellSaid(p) /\ Follows(ServerScript, p, k) /\ p \in Seq(Messages) /\ Len(p) = k
    BY WellSaidNext
  <2>3. k \in 0..6 /\ k > 0 /\ k + 1 = n + 2 BY <1>2
  <2> HIDE DEF k, p
  <2>4. c = ServerScript[k + 1] BY <2>3
  <2> HIDE DEF c
  <2>5. WellSaid(p \o <<c>>) /\ Follows(ServerScript, p \o <<c>>, k + 1) /\ Len(p \o <<c>>) = k + 1
    BY <2>2, <2>3, <2>4, WellSaidNext
  <2> HIDE DEF a
  <2>6. p \o <<c>> = q \o <<a, c>>
    <3>1. <<a>> \in Seq(Messages) /\ <<c>> \in Seq(Messages) BY <2>1
    <3>2. (q \o <<a>>) \o <<c>> = q \o (<<a>> \o <<c>>) BY <3>1, Joined
    <3>3. <<a>> \o <<c>> = <<a, c>> BY <2>1, AppendTwo
    <3> QED BY <3>2, <3>3 DEF p
  <2>7. names = <<a, c>> BY <1>2 DEF a, c
  <2>8. Len(names) = 2 BY <2>7
  <2> QED BY <2>3, <2>5, <2>6, <2>7, <2>8
<1> QED BY <1>1, <1>2

\* An error that the server says is no message of the script.
LEMMA WellSaidError ==
  ASSUME NEW q \in Seq(Messages), WellSaid(q), NEW e \in Errors
  PROVE  /\ WellSaid(q \o Error(e))
         /\ \A n \in 1..7 : Follows(ServerScript, q \o Error(e), n) => Follows(ServerScript, q, n)
<1> DEFINE d == Error(e)  p == q \o d  n == Len(q)
<1>1. /\ d \in Seq(Messages) /\ Len(d) = 3 /\ d[1] = "SERVER_ERROR" /\ d[2] = e /\ d[3] = "errno"
  <2>1. {"SERVER_ERROR", e, "errno"} \subseteq Messages BY MessageKinds DEF States, ClientExpects
  <2> QED BY <2>1 DEF Error
<1> HIDE DEF d
<1>2. /\ Len(p) = n + 3 /\ n \in Nat
      /\ \A i \in 1..n + 3 : p[i] = IF i <= n THEN q[i] ELSE d[i - n]
  <2>1. d \in Seq(Messages) BY <1>1
  <2>2. /\ Len(p) = n + Len(d) /\ n \in Nat
        /\ \A i \in 1..n + Len(d) : p[i] = IF i <= n THEN q[i] ELSE d[i - n]
    BY <2>1, ConcatProperties
  <2>3. n + Len(d) = n + 3 BY <1>1
  <2> QED BY <2>2, <2>3
<1> HIDE DEF p
<1>3. /\ \A i \in 1..n : p[i] = q[i]
      /\ p[n + 1] = "SERVER_ERROR" /\ p[n + 2] = e /\ p[n + 3] = "errno"
  <2>1. /\ n + 1 \in 1..n + 3 /\ ~(n + 1 <= n) /\ (n + 1) - n = 1
        /\ n + 2 \in 1..n + 3 /\ ~(n + 2 <= n) /\ (n + 2) - n = 2
        /\ n + 3 \in 1..n + 3 /\ ~(n + 3 <= n) /\ (n + 3) - n = 3
    BY <1>2
  <2>2. \A i \in 1..n : i \in 1..n + 3 /\ i <= n BY <1>2
  <2> QED BY <2>1, <2>2, <1>1, <1>2
<1> HIDE DEF n
<1>4. \A i \in Nat : i <= n + 3 => i <= n \/ i = n + 1 \/ i = n + 2 \/ i = n + 3 BY <1>2 DEF n
<1>5. ASSUME NEW i \in 1..7 PROVE Follows(ServerScript, p, i) => Follows(ServerScript, q, i)
  <2> SUFFICES ASSUME i <= n + 3, p[i] = ServerScript[i] PROVE Follows(ServerScript, q, i)
    BY <1>2 DEF Follows
  <2>1. ServerScript[i] \notin Errors \cup {"SERVER_ERROR", "errno"} BY ScriptsAre
  <2>2. i <= n BY <2>1, <1>3, <1>4
  <2>3. q[i] = ServerScript[i] BY <2>2, <1>3
  <2> QED BY <2>2, <2>3, ScriptsAre DEF Follows, n
<1>6. ASSUME NEW i \in 1..Len(p) PROVE InPlace(p, i)
  <2>1. CASE i = n + 1
    <3>1. i + 1 = n + 2 /\ i + 1 <= Len(p) BY <2>1, <1>2 DEF n
    <3> QED BY <2>1, <3>1, <1>3 DEF InPlace
  <2>2. CASE i = n + 2
    <3>1. i - 1 = n + 1 /\ i > 1 BY <2>2, <1>2 DEF n
    <3> QED BY <2>2, <3>1, <1>3 DEF InPlace
  <2>3. CASE i = n + 3
    <3>1. i - 1 = n + 2 /\ i > 1 BY <2>3, <1>2 DEF n
    <3> QED BY <2>3, <3>1, <1>3 DEF InPlace
  <2>4. CASE i \in 1..n
    <3>1. InPlace(q, i) BY <2>4 DEF WellSaid, n
    <3>2. p[i] = q[i] /\ (i > 1 => i - 1 \in 1..n /\ p[i - 1] = q[i - 1]) BY <2>4, <1>2, <1>3
    <3>3. i + 1 <= n => i + 1 \in 1..n /\ i + 1 <= Len(p) /\ p[i + 1] = q[i + 1]
      BY <2>4, <1>2, <1>3 DEF n
    <3>4. \A k \in 1..n : Follows(ServerScript, q, k) => Follows(ServerScript, p, k)
      BY <1>2, <1>3 DEF Follows, n
    <3> QED BY <2>4, <3>1, <3>2, <3>3, <3>4 DEF InPlace, n
  <2> QED BY <1>2, <1>4, <2>1, <2>2, <2>3, <2>4 DEF n
<1> QED BY <1>5, <1>6 DEF WellSaid, p, d

\* What the client says.
LEMMA AsksNext ==
  ASSUME NEW q \in Seq(Messages), NEW n \in 0..3, Len(q) = n,
         \A i \in 1..n : Follows(ClientScript, q, i), NEW m, m = ClientScript[n + 1]
  PROVE  /\ q \o <<m>> \in Seq(Messages) /\ Len(q \o <<m>>) = n + 1
         /\ \A i \in 1..n + 1 : Follows(ClientScript, q \o <<m>>, i)
<1> DEFINE p == q \o <<m>>
<1>1. m \in Messages
  <2>1. n + 1 \in 1..4 OBVIOUS
  <2> QED BY <2>1, ScriptsAre
<1>2. p = Append(q, m) BY <1>1, AppendIsConcat
<1>3. p \in Seq(Messages) /\ Len(p) = n + 1 /\ p[n + 1] = m /\ \A i \in 1..n : p[i] = q[i]
  BY <1>1, <1>2, AppendProperties
<1> HIDE DEF p
<1>4. Follows(ClientScript, p, n + 1) BY <1>3, ScriptsAre DEF Follows
<1>5. \A i \in 1..n : Follows(ClientScript, p, i) BY <1>3, ScriptsAre DEF Follows
<1>6. \A i \in 1..n + 1 : i = n + 1 \/ i \in 1..n OBVIOUS
<1> QED BY <1>3, <1>4, <1>5, <1>6 DEF p

LEMMA ClientSaysDone ==
  ASSUME ClientSays, sent["client"] \in Seq(Messages), Len(sent["client"]) > 0,
         pc["client"] \notin {"drain", "off"}, pc'["client"] \in {"drain", "off"},
         sent'["client"] \in {sent["client"], sent["client"] \o <<"IPERF_DONE">>}
  PROVE  ClientSays' /\ \A n \in 1..4 : HasAsked(n)' => HasAsked(n)
<1> DEFINE q == sent["client"]  p == q \o <<"IPERF_DONE">>  n == Len(q)
<1>1. \A i \in 1..n : Follows(ClientScript, q, i) BY DEF ClientSays, HasAsked
<1>2. CASE sent'["client"] = q
  <2>1. \A i \in 1..4 : HasAsked(i)' => HasAsked(i) BY <1>2 DEF HasAsked
  <2>2. ClientSays' BY <1>1, <1>2 DEF ClientSays, HasAsked
  <2> QED BY <2>1, <2>2
<1>3. CASE sent'["client"] = p
  <2>1. "IPERF_DONE" \in Messages BY MessageKinds DEF States, ServerExpects
  <2>2. p = Append(q, "IPERF_DONE") BY <2>1, AppendIsConcat
  <2>3. /\ n \in Nat /\ Len(p) = n + 1 /\ p[n + 1] = "IPERF_DONE" /\ \A i \in 1..n : p[i] = q[i]
    BY <2>1, <2>2, AppendProperties
  <2> HIDE DEF p, q
  <2>4. \A i \in 1..n : Follows(ClientScript, p, i) BY <1>1, <2>3 DEF Follows
  <2>5. \A i \in 1..n + 1 : i = n + 1 \/ i \in 1..n BY <2>3
  <2>6. n > 0 BY DEF q
  <2> HIDE DEF n
  <2>7. ASSUME NEW i \in 1..Len(p)
        PROVE  Follows(ClientScript, p, i) \/ (p[i] = "IPERF_DONE" /\ i = Len(p) /\ i > 1)
    BY <2>3, <2>4, <2>5, <2>6
  <2>8. ClientSays'
    BY <1>3, <2>7 DEF ClientSays, HasAsked
  <2>9. ASSUME NEW i \in 1..4, Follows(ClientScript, p, i) PROVE Follows(ClientScript, q, i)
    <3>1. ClientScript[i] # "IPERF_DONE" BY ScriptsAre
    <3>2. i \in 1..n BY <3>1, <2>3, <2>5, <2>9 DEF Follows
    <3> QED BY <3>2, <2>3, <2>9, <1>1
  <2>10. \A i \in 1..4 : HasAsked(i)' => HasAsked(i) BY <1>3, <2>9 DEF HasAsked, q
  <2> QED BY <2>8, <2>10
<1> QED BY <1>2, <1>3

\* What has been said stays said.
LEMMA SaidStays ==
  ASSUME Extends, ChannelTypes, ChannelTypes'
  PROVE  /\ \A n \in 1..7 : HasSaid(n) => HasSaid(n)'
         /\ \A n \in 1..4 : HasAsked(n) => HasAsked(n)'
<1>1. ASSUME NEW s \in Sides, NEW n \in 1..7, NEW script, Follows(script, sent[s], n)
      PROVE  Follows(script, sent'[s], n)
  <2>1. Len(sent[s]) \in Nat /\ Len(sent'[s]) \in Nat BY DEF ChannelTypes
  <2> QED BY <1>1, <2>1 DEF Follows, Extends
<1>2. \A n \in 1..4 : n \in 1..7 OBVIOUS
<1> QED BY <1>1, <1>2, SidesAre DEF HasSaid, HasAsked

\* A step of the server leaves the client where it is, and the other way round.
LEMMA ClientKept ==
  ASSUME ClientSays, ClientPlace, ChannelTypes, ChannelTypes', Extends, Prefix, Keeps("client")
  PROVE  ClientSays' /\ ClientPlace'
<1>1. /\ pc'["client"] = pc["client"] /\ state'["client"] = state["client"]
      /\ sent'["client"] = sent["client"] /\ heard'["client"] = heard["client"]
  BY DEF Keeps
<1>2. ClientSays' BY <1>1 DEF ClientSays, HasAsked
<1>3. \A n \in 1..7 : HasSaid(n) => HasSaid(n)' BY SaidStays
<1>4. \A n : HasAsked(n)' <=> HasAsked(n) BY <1>1 DEF HasAsked
<1>5. \A st, n : \A h \in 0..7 : ClientAt(st, n, h) => ClientAt(st, n, h)' BY <1>1, <1>3 DEF ClientAt
<1>6. ToldError => ToldError'
  <2>1. Len(sent["server"]) \in Nat /\ Len(sent'["server"]) \in Nat BY SidesAre DEF ChannelTypes
  <2> QED BY <1>1, <2>1, SidesAre DEF ToldError, Extends
<1>7. 0 \in 0..7 /\ 1 \in 0..7 /\ 2 \in 0..7 /\ 3 \in 0..7 /\ 4 \in 0..7 /\ 5 \in 0..7 /\ 6 \in 0..7 /\ 7 \in 0..7
  OBVIOUS
<1>8. 4 \in 1..7 /\ 5 \in 1..7 OBVIOUS
<1>9. ClientPlace'
  <2>1. (pc["client"] = "select" =>
       \/ ClientAt("none", 1, 0) \/ ClientAt("PARAM_EXCHANGE", 2, 1) \/ ClientAt("CREATE_STREAMS", 2, 2)
       \/ ClientAt("TEST_START", 2, 3) \/ ClientAt("TEST_RUNNING", 2, 4) \/ ClientAt("TEST_END", 3, 4)
       \/ ClientAt("EXCHANGE_RESULTS", 4, 6))'
    BY <1>1, <1>5, <1>7 DEF ClientPlace
  <2>2. (pc["client"] = "handle" =>
       \/ ClientAt("PARAM_EXCHANGE", 1, 1) \/ ClientAt("CREATE_STREAMS", 2, 2)
       \/ ClientAt("TEST_START", 2, 3) \/ ClientAt("TEST_RUNNING", 2, 4)
       \/ ClientAt("EXCHANGE_RESULTS", 3, 5) \/ ClientAt("DISPLAY_RESULTS", 4, 7) \/ ToldError)'
    BY <1>1, <1>5, <1>6, <1>7 DEF ClientPlace
  <2>3. /\ (pc["client"] = "results" => ClientAt("EXCHANGE_RESULTS", 4, 5))'
        /\ (pc["client"] = "code" => ToldError)'
        /\ (pc["client"] \notin Unconnected \cup {"drain", "off"} => Len(sent["client"]) \in 1..4)'
    BY <1>1, <1>5, <1>6, <1>7 DEF ClientPlace
  <2>4. /\ (HasAsked(2) => Len(heard["client"]) >= 1)'
        /\ (HasAsked(3) => Len(heard["client"]) >= 4 /\ HasSaid(4))'
        /\ (HasAsked(4) => Len(heard["client"]) >= 5 /\ HasSaid(5))'
    BY <1>1, <1>3, <1>4, <1>8 DEF ClientPlace
  <2> QED BY <2>1, <2>2, <2>3, <2>4 DEF ClientPlace
<1> QED BY <1>2, <1>9

LEMMA ServerKept ==
  ASSUME ServerSays, ServerPlace, Keeps("server")
  PROVE  ServerSays' /\ ServerPlace'
<1>1. /\ pc'["server"] = pc["server"] /\ state'["server"] = state["server"]
      /\ sent'["server"] = sent["server"] /\ heard'["server"] = heard["server"]
  BY DEF Keeps
<1>2. \A n : HasSaid(n)' <=> HasSaid(n) BY <1>1 DEF HasSaid
<1>3. \A st, n, h : ServerAt(st, n, h)' <=> ServerAt(st, n, h) BY <1>1, <1>2 DEF ServerAt
<1> QED BY <1>1, <1>2, <1>3 DEF ServerSays, ServerPlace

LEMMA QuietKept == ASSUME NEW s \in Sides, QuietAt(s), Keeps(s) PROVE QuietAt(s)'
<1>1. Wanted(s)' = Wanted(s) BY DEF Keeps, Wanted
<1> QED BY <1>1 DEF QuietAt, Keeps
-----------------------------------------------------------------------------
(* A step of either side.                                                  *)

LEMMA StreamStays ==
  ASSUME NEW s \in Sides, Stream(s), wire'[s] = wire[s], got'[s] = got[s], heard'[s] = heard[s],
         sent'[Peer(s)] = sent[Peer(s)], pc'[s] \in Listening => pc[s] \in Listening
  PROVE  Stream(s)'
BY DEF Stream

LEMMA StreamHeard ==
  ASSUME NEW s \in Sides, ChannelTypes, NEW m \in Messages, Hears(s, <<m>>), got'[s] = <<>>,
         sent'[Peer(s)] = sent[Peer(s)],
         Coded(wire'[s], Rest(sent[Peer(s)], Len(heard[s]) + 1)), wire'[s] \in Seq(Byte)
  PROVE  Stream(s)' /\ Len(heard'[s]) = Len(heard[s]) + 1
<1> DEFINE h == heard[s]
<1>1. h \in Seq(Messages) BY DEF ChannelTypes
<1> HIDE DEF h
<1>2. Len(h \o <<m>>) = Len(h) + 1
  <2>1. h \o <<m>> = Append(h, m) BY <1>1, AppendIsConcat
  <2> QED BY <1>1, <2>1, AppendProperties
<1>3. heard'[s] = h \o <<m>> BY DEF Hears, h, ChannelTypes
<1>4. <<>> \o wire'[s] = wire'[s] BY ConcatEmptySeq
<1> QED BY <1>2, <1>3, <1>4 DEF Stream, h

LEMMA QuietStep ==
  ASSUME ChannelTypes, Quiet, NEW s \in Sides, NEW names, Acts(s, names), pc[s] \notin {"drain", "off"},
         pc[s] \notin Reading \/ ReadIsOver(s), UNCHANGED shut \/ pc'[s] = "drain"
  PROVE  QuietAt(s)' /\ got'[s] = <<>>
<1>1. got'[s] = <<>> /\ ended'[s] = "no"
  <2>1. CASE ReadIsOver(s) BY <2>1 DEF ReadIsOver, ChannelTypes
  <2>2. CASE UNCHANGED readVars /\ pc[s] \notin Reading BY <2>2, NothingRead DEF readVars
  <2> QED BY <2>1, <2>2 DEF Acts
<1>2. Len(got'[s]) = 0 /\ Wanted(s)' \in Nat BY <1>1, WantedIs
<1>3. s \notin closed /\ s \notin shut BY DEF Quiet, QuietAt
<1>4. closed' = closed /\ (UNCHANGED shut \/ shut' = shut \cup {s}) BY DEF Acts, Shuts
<1> QED BY <1>1, <1>2, <1>3, <1>4 DEF QuietAt

\* What a step of side s is to the other.
OneSided(s, names) ==
  /\ ChannelTypes' /\ Extends /\ Prefix' /\ Keeps(Peer(s)) /\ Stream(Peer(s))'
  /\ sent'[s] = sent[s] \o names

LEMMA ActsIsOneSided ==
  ASSUME Conversation, NEW s \in Sides, NEW names, Acts(s, names),
         pc'[Peer(s)] = pc[Peer(s)], state'[Peer(s)] = state[Peer(s)]
  PROVE  OneSided(s, names)
<1>1. ChannelTypes /\ Prefix /\ Quiet /\ Stream(Peer(s)) BY SidesAre DEF Conversation, Streams
<1> QED BY <1>1, ChannelKept DEF OneSided

LEMMA ServerActs ==
  ASSUME Conversation, NEW names, OneSided("server", names),
         pc["server"] \notin Unconnected \cup {"off"}, ControlTypes',
         QuietAt("server")', ServerSays', ServerPlace', Stream("server")'
  PROVE  Conversation'
<1>1. /\ ChannelTypes' /\ Extends /\ Prefix' /\ Keeps("client") /\ Stream("client")'
  BY SidesAre DEF OneSided
<1>2. ClientSays' /\ ClientPlace' BY <1>1, ClientKept DEF Conversation
<1>3. QuietAt("client")' BY <1>1, SidesAre, QuietKept DEF Conversation, Quiet
<1>4. Quiet' /\ Streams' BY <1>1, <1>3, SidesAre DEF Quiet, Streams
<1>5. Fresh' BY <1>1 DEF Conversation, Fresh, Keeps
<1> QED BY <1>1, <1>2, <1>4, <1>5 DEF Conversation

LEMMA ClientActs ==
  ASSUME Conversation, NEW names, OneSided("client", names),
         pc'["client"] \notin Unconnected, ControlTypes',
         QuietAt("client")', ClientSays', ClientPlace', Stream("client")'
  PROVE  Conversation'
<1>1. /\ ChannelTypes' /\ Extends /\ Prefix' /\ Keeps("server") /\ Stream("server")'
  BY SidesAre DEF OneSided
<1>2. ServerSays' /\ ServerPlace' BY <1>1, ServerKept DEF Conversation
<1>3. QuietAt("server")' BY <1>1, SidesAre, QuietKept DEF Conversation, Quiet
<1>4. Quiet' /\ Streams' BY <1>1, <1>3, SidesAre DEF Quiet, Streams
<1>5. Fresh' BY DEF Fresh
<1> QED BY <1>1, <1>2, <1>4, <1>5 DEF Conversation

ServerPlaces == {<<"params", "PARAM_EXCHANGE", 1, 1>>, <<"select", "CREATE_STREAMS", 2, 2>>,
                 <<"select", "TEST_RUNNING", 4, 2>>, <<"results", "EXCHANGE_RESULTS", 5, 3>>,
                 <<"select", "DISPLAY_RESULTS", 7, 4>>}

\* The server says what comes next, or fails, or has no more to say.
LEMMA ServerGoesOn ==
  ASSUME Conversation, NEW names, Acts("server", names),
         pc["server"] \notin Unconnected \cup {"off"},
         NEW n \in 0..6, Len(sent["server"]) = n, n > 0 => HasSaid(n),
         \/ names = <<ServerScript[n + 1]>>
         \/ n < 6 /\ names = <<ServerScript[n + 1], ServerScript[n + 2]>>,
         <<pc'["server"], state'["server"], n + Len(names), Len(heard'["server"])>> \in ServerPlaces,
         pc'["client"] = pc["client"], state'["client"] = state["client"], ControlTypes',
         QuietAt("server")', Stream("server")'
  PROVE  Conversation'
<1> DEFINE q == sent["server"]
<1>1. q \in Seq(Messages) /\ WellSaid(q) /\ (n > 0 => Follows(ServerScript, q, n)) /\ Len(q) = n
  BY SidesAre DEF Conversation, ChannelTypes, ServerSays, HasSaid
<1>2. sent'["server"] = q \o names
  BY SidesAre, ChannelKept DEF Conversation, Streams
<1> HIDE DEF q
<1>3. /\ WellSaid(q \o names) /\ Len(q \o names) = n + Len(names)
      /\ Follows(ServerScript, q \o names, n + Len(names))
  BY <1>1, WellSaidOn
<1>4. ServerSays' BY <1>2, <1>3 DEF ServerSays
<1>5. Len(sent'["server"]) = n + Len(names) /\ HasSaid(n + Len(names))' BY <1>2, <1>3 DEF HasSaid
<1>6. ServerPlace'
  <2> DEFINE k == n + Len(names)
  <2>1. /\ Len(sent'["server"]) = k /\ HasSaid(k)'
        /\ <<pc'["server"], state'["server"], k, Len(heard'["server"])>> \in ServerPlaces
    BY <1>5
  <2>2. \A i \in 1..7 : HasSaid(i)' => i <= k BY <2>1 DEF HasSaid, Follows
  <2> HIDE DEF k
  <2>3. ASSUME NEW st, NEW a, NEW h, state'["server"] = st, k = a, Len(heard'["server"]) = h
        PROVE  ServerAt(st, a, h)'
    BY <2>1, <2>3 DEF ServerAt
  <2>4. CASE /\ pc'["server"] = "params" /\ state'["server"] = "PARAM_EXCHANGE"
             /\ k = 1 /\ Len(heard'["server"]) = 1
    BY <2>2, <2>3, <2>4 DEF ServerPlace
  <2>5. CASE /\ pc'["server"] = "select" /\ state'["server"] = "CREATE_STREAMS"
             /\ k = 2 /\ Len(heard'["server"]) = 2
    BY <2>2, <2>3, <2>5 DEF ServerPlace
  <2>6. CASE /\ pc'["server"] = "select" /\ state'["server"] = "TEST_RUNNING"
             /\ k = 4 /\ Len(heard'["server"]) = 2
    BY <2>2, <2>3, <2>6 DEF ServerPlace
  <2>7. CASE /\ pc'["server"] = "results" /\ state'["server"] = "EXCHANGE_RESULTS"
             /\ k = 5 /\ Len(heard'["server"]) = 3
    BY <2>2, <2>3, <2>7 DEF ServerPlace
  <2>8. CASE /\ pc'["server"] = "select" /\ state'["server"] = "DISPLAY_RESULTS"
             /\ k = 7 /\ Len(heard'["server"]) = 4
    BY <2>2, <2>3, <2>8 DEF ServerPlace
  <2> QED BY <2>1, <2>4, <2>5, <2>6, <2>7, <2>8 DEF ServerPlaces
<1>7. OneSided("server", names) BY SidesAre, ActsIsOneSided
<1> QED BY <1>4, <1>6, <1>7, ServerActs

\* The start of a test that then fails.
Starts == {<<"TEST_START">>, <<"TEST_START", "TEST_RUNNING">>}

LEMMA StartsAre ==
  ASSUME Conversation, pc["server"] = "select", state["server"] = "CREATE_STREAMS", NEW names \in Starts
  PROVE  /\ Len(heard["server"]) = 2 /\ WellSaid(sent["server"] \o names)
         /\ Len(sent["server"] \o names) \in {3, 4}
<1> DEFINE q == sent["server"]
<1>1. q \in Seq(Messages) /\ WellSaid(q) BY SidesAre DEF Conversation, ChannelTypes, ServerSays
<1>2. ServerAt("CREATE_STREAMS", 2, 2) BY DEF Conversation, ServerPlace, ServerAt
<1>3. Len(q) = 2 /\ Follows(ServerScript, q, 2) /\ Len(heard["server"]) = 2
  BY <1>2 DEF ServerAt, HasSaid
<1> HIDE DEF q
<1>4. ServerScript[3] = "TEST_START" /\ ServerScript[4] = "TEST_RUNNING" BY DEF ServerScript
<1>5. /\ 2 \in 0..6 /\ 2 < 6 /\ 2 + 1 = 3 /\ 2 + 2 = 4
      /\ names = <<ServerScript[3]>> \/ names = <<ServerScript[3], ServerScript[4]>>
  BY <1>4 DEF Starts
<1>6. WellSaid(q \o names) /\ Len(q \o names) = 2 + Len(names) BY <1>1, <1>3, <1>5, WellSaidOn
<1>7. Len(names) \in {1, 2} BY DEF Starts
<1>8. Len(q \o names) \in {3, 4}
  <2>1. 2 + 1 = 3 /\ 2 + 2 = 4 OBVIOUS
  <2> QED BY <1>6, <1>7, <2>1, Zenon
<1> QED BY <1>3, <1>6, <1>8 DEF q

LEMMA ServerFails ==
  ASSUME Conversation, NEW names, Acts("server", names),
         pc["server"] \notin Unconnected \cup {"off"}, pc'["server"] \in {"failed", "expired", "drain"},
         \/ names = <<>> \/ \E e \in Errors : names = Error(e)
         \/ pc["server"] = "select" /\ state["server"] = "CREATE_STREAMS" /\ names \in Starts,
         Len(heard'["server"]) >= Len(heard["server"]),
         pc'["client"] = pc["client"], state'["client"] = state["client"], ControlTypes',
         QuietAt("server")'
  PROVE  Conversation'
<1> DEFINE q == sent["server"]
<1>1. q \in Seq(Messages) /\ WellSaid(q) /\ Len(heard["server"]) \in Nat
  BY SidesAre DEF Conversation, ChannelTypes, ServerSays
<1>2. sent'["server"] = q \o names /\ ChannelTypes'
  BY SidesAre, ChannelKept DEF Conversation, Streams
<1>3. Len(heard'["server"]) \in Nat BY <1>2, SidesAre DEF ChannelTypes
<1>4. ServerSays' /\ ServerPlace'
  <2>1. CASE names = <<>> \/ \E e \in Errors : names = Error(e)
    <3> HIDE DEF q
    <3>1. WellSaid(q \o names) /\ \A n \in 1..7 : Follows(ServerScript, q \o names, n) => Follows(ServerScript, q, n)
      <4>1. CASE names = <<>>
        <5>1. q \o <<>> = q BY <1>1, ConcatEmptySeq
        <5> QED BY <1>1, <4>1, <5>1
      <4>2. CASE \E e \in Errors : names = Error(e) BY <1>1, <4>2, WellSaidError
      <4> QED BY <2>1, <4>1, <4>2
    <3>2. \A n \in 1..7 : HasSaid(n)' => HasSaid(n) BY <1>2, <3>1 DEF HasSaid, q
    <3>3. 1 \in 1..7 /\ 2 \in 1..7 /\ 5 \in 1..7 /\ 6 \in 1..7 OBVIOUS
    <3>4. ServerPlace' BY <1>1, <1>3, <3>2, <3>3 DEF Conversation, ServerPlace
    <3> QED BY <1>2, <3>1, <3>4 DEF ServerSays
  <2>2. CASE pc["server"] = "select" /\ state["server"] = "CREATE_STREAMS" /\ names \in Starts
    <3>1. Len(heard["server"]) = 2 /\ WellSaid(q \o names) /\ Len(q \o names) \in {3, 4}
      BY <2>2, StartsAre
    <3> HIDE DEF q
    <3>2. Len(heard'["server"]) >= 2 BY <3>1
    <3>3. ~HasSaid(5)' /\ ~HasSaid(6)' BY <1>2, <3>1 DEF HasSaid, Follows
    <3>4. ServerPlace' BY <1>3, <3>2, <3>3 DEF ServerPlace
    <3> QED BY <1>2, <3>1, <3>4 DEF ServerSays
  <2> QED BY <2>1, <2>2
<1>5. Stream("server")' BY DEF Stream, Listening
<1>6. OneSided("server", names) BY SidesAre, ActsIsOneSided
<1> QED BY <1>4, <1>5, <1>6, ServerActs
-----------------------------------------------------------------------------
(* The server's steps.                                                     *)

\* Sending, or failing to.
LEMMA SaysActs ==
  ASSUME NEW s \in Sides, NEW names, NEW bytes, Adds(names, bytes), NEW to, NEW st,
         Says(s, names, bytes, to, st),
         UNCHANGED readVars \/ ReadIsOver(s),
         UNCHANGED heard \/ \E m : LearnsNext(s, m) /\ Hears(s, <<m>>),
         UNCHANGED <<shut, closed>>
  PROVE  \/ /\ Acts(s, names) /\ Goes(s, to) /\ Enters(s, st) /\ UNCHANGED errno
         \/ /\ Acts(s, <<>>) /\ Fails(s, "IESENDMESSAGE") /\ Enters(s, st) /\ UNCHANGED <<sent, wire, reset>>
BY DEF Says, Acts

\* The types after a step that changes these.
LEMMA TypesAfter ==
  ASSUME ControlTypes, NEW s \in Sides, NEW to, Goes(s, to), NEW st, Enters(s, st) \/ UNCHANGED state,
         st \in States \cup {"none"},
         s = "client" => to \in ClientPCs, s = "server" => to \in ServerPCs,
         \/ UNCHANGED errno
         \/ \E e : errno' = [errno EXCEPT ![s] = e] /\ e \in Errors \cup (IF s = "client" THEN ClientErrors \cup {"none", "garbage"} ELSE {}),
         told' \in Errors \cup {"none", "garbage"}, streams' \in BOOLEAN
  PROVE  ControlTypes' /\ pc'[s] = to /\ pc'[Peer(s)] = pc[Peer(s)] /\ state'[Peer(s)] = state[Peer(s)]
         /\ (Enters(s, st) => state'[s] = st) /\ (UNCHANGED state => state'[s] = state[s])
<1>1. /\ pc' \in [Sides -> ClientPCs \cup ServerPCs] /\ pc'[s] = to /\ pc'[Peer(s)] = pc[Peer(s)]
      /\ pc'["client"] \in ClientPCs /\ pc'["server"] \in ServerPCs
  BY SidesAre DEF Goes, ControlTypes
<1>2. /\ state' \in [Sides -> States \cup {"none"}] /\ state'[Peer(s)] = state[Peer(s)]
      /\ (Enters(s, st) => state'[s] = st) /\ (UNCHANGED state => state'[s] = state[s])
  BY SidesAre DEF Enters, ControlTypes
<1>3. /\ errno' \in [Sides -> Errors \cup ClientErrors \cup {"none", "garbage"}]
      /\ errno'["server"] \in Errors \cup {"none"}
  BY SidesAre DEF ControlTypes
<1> QED BY <1>1, <1>2, <1>3 DEF ControlTypes

LEMMA SetsAre ==
  /\ {"PARAM_EXCHANGE", "CREATE_STREAMS", "TEST_START", "TEST_RUNNING", "EXCHANGE_RESULTS",
      "DISPLAY_RESULTS", "SERVER_ERROR", "TEST_END", "IPERF_DONE"} \subseteq States
  /\ {"IESENDMESSAGE", "IERECVCOOKIE", "IERECVPARAMS", "IERECVRESULTS", "IESTREAMLISTEN", "IEINITTEST",
      "IENOMSG", "IECTRLCLOSE", "IERECVMESSAGE", "IETOTALRATE", "IESTREAMCONNECT", "IEPTHREADCREATE",
      "IESELECT", "IELISTEN", "IESERVERTESTDURATIONEXPIRED"} \subseteq Errors
BY DEF States, ClientExpects, ServerExpects, Errors

\* What a step of s does with a read: nothing, or it is over, with the message m or nothing.
NoRead(s) == pc[s] \notin Reading /\ UNCHANGED <<readVars, heard>>
ReadNothing(s) == ReadIsOver(s) /\ UNCHANGED heard
ReadWhole(s) == ReadIsOver(s) /\ \E m \in Messages : got[s] = Code(m) /\ Hears(s, <<m>>)

LEMMA ReadsAre ==
  ASSUME ChannelTypes, Prefix, NEW s \in Sides, Stream(s), pc[s] \in Listening,
         NoRead(s) \/ ReadNothing(s) \/ ReadWhole(s)
  PROVE  /\ UNCHANGED heard \/ \E m : LearnsNext(s, m) /\ Hears(s, <<m>>)
         /\ UNCHANGED readVars \/ ReadIsOver(s)
         /\ pc[s] \notin Reading \/ ReadIsOver(s)
         /\ ReadWhole(s) => Len(heard'[s]) = Len(heard[s]) + 1
         /\ Len(heard'[s]) >= Len(heard[s])
<1>1. heard[s] \in Seq(Messages) /\ Len(heard[s]) \in Nat BY DEF ChannelTypes
<1>2. CASE ReadWhole(s)
  <2>1. PICK m \in Messages : got[s] = Code(m) /\ Hears(s, <<m>>) BY <1>2 DEF ReadWhole
  <2>2. heard'[s] = heard[s] \o <<m>> BY <2>1 DEF Hears, ChannelTypes
  <2>3. Len(heard'[s]) = Len(heard[s]) + 1
    <3> DEFINE h == heard[s]
    <3> HIDE DEF h
    <3>1. h \in Seq(Messages) BY <1>1 DEF h
    <3>2. h \o <<m>> = Append(h, m) /\ Len(Append(h, m)) = Len(h) + 1
      BY <3>1, AppendIsConcat, AppendProperties
    <3> QED BY <2>2, <3>2 DEF h
  <2>4. LearnsNext(s, m) BY <2>1, HearsWhole
  <2>5. ReadIsOver(s) BY <1>2 DEF ReadWhole
  <2>6. Len(heard'[s]) >= Len(heard[s]) BY <1>1, <2>3
  <2> QED BY <2>1, <2>3, <2>4, <2>5, <2>6
<1>3. CASE ~ReadWhole(s) BY <1>1, <1>3 DEF NoRead, ReadNothing
<1> QED BY <1>2, <1>3

\* The stream of a side that does not read or has read a whole message.
LEMMA StreamAfter ==
  ASSUME Conversation, NEW s \in Sides, pc[s] \in Listening, NoRead(s) \/ ReadWhole(s), got'[s] = <<>>,
         wire'[s] = wire[s], sent'[Peer(s)] = sent[Peer(s)]
  PROVE  Stream(s)'
<1>1. ChannelTypes /\ Prefix /\ Quiet /\ Stream(s) BY DEF Conversation, Streams
<1>2. CASE NoRead(s) BY <1>1, <1>2, NothingRead DEF Stream, NoRead, readVars
<1>3. CASE ReadWhole(s)
  <2>1. PICK m \in Messages : got[s] = Code(m) /\ Hears(s, <<m>>) BY <1>3 DEF ReadWhole
  <2>2. Coded(wire[s], Rest(sent[Peer(s)], Len(heard[s]) + 1)) BY <1>1, <2>1, HearsWhole
  <2>3. wire[s] \in Seq(Byte) BY <1>1 DEF ChannelTypes
  <2> QED BY <1>1, <2>1, <2>2, <2>3, StreamHeard
<1> QED BY <1>2, <1>3

\* The server cannot go on.
LEMMA ServerGivesIn ==
  ASSUME Conversation, pc["server"] \in Listening,
         NoRead("server") \/ ReadNothing("server") \/ ReadWhole("server"),
         NEW st \in States \cup {"none"}, Enters("server", st) \/ UNCHANGED state,
         \/ Goes("server", "failed") /\ UNCHANGED errno
         \/ \E e \in Errors : Fails("server", e),
         UNCHANGED <<streams, told, sent, wire, reset, shut, closed>>
  PROVE  Conversation'
<1> DEFINE s == "server"
<1>1. /\ ChannelTypes /\ ControlTypes /\ Quiet /\ Prefix /\ Stream(s) /\ s \in Sides /\ Peer(s) = "client"
  BY SidesAre DEF Conversation, Streams
<1>2. streams' \in BOOLEAN /\ told' \in Errors \cup {"none", "garbage"} BY <1>1 DEF ControlTypes
<1>3. /\ UNCHANGED heard \/ \E m : LearnsNext(s, m) /\ Hears(s, <<m>>)
      /\ UNCHANGED readVars \/ ReadIsOver(s)
      /\ pc[s] \notin Reading \/ ReadIsOver(s)
      /\ Len(heard'[s]) >= Len(heard[s])
  BY <1>1, ReadsAre
<1>4. Acts(s, <<>>) BY <1>3 DEF Acts
<1>5. /\ ControlTypes' /\ pc'[s] = "failed" /\ pc'["client"] = pc["client"]
      /\ state'["client"] = state["client"]
  BY <1>1, <1>2, TypesAfter DEF Fails, ServerPCs
<1>6. pc[s] \notin Unconnected \cup {"off", "drain"} BY DEF Listening, Unconnected
<1>7. QuietAt(s)' BY <1>1, <1>3, <1>4, <1>6, QuietStep
<1> QED BY <1>3, <1>4, <1>5, <1>6, <1>7, ServerFails

\* What the server says when it has said n messages, where it is then, and how much it has
\* heard by then.
ServerMoves == {
  <<0, <<"PARAM_EXCHANGE">>, "params", "PARAM_EXCHANGE", 1>>,
  <<1, <<"CREATE_STREAMS">>, "select", "CREATE_STREAMS", 2>>,
  <<2, <<"TEST_START", "TEST_RUNNING">>, "select", "TEST_RUNNING", 2>>,
  <<4, <<"EXCHANGE_RESULTS">>, "results", "EXCHANGE_RESULTS", 3>>,
  <<5, <<"serverResults", "DISPLAY_RESULTS">>, "select", "DISPLAY_RESULTS", 4>>}

LEMMA ServerMovesAre ==
  ASSUME NEW n, NEW names, NEW to, NEW st, NEW h, <<n, names, to, st, h>> \in ServerMoves
  PROVE  /\ n \in 0..6
         /\ \/ names = <<ServerScript[n + 1]>>
            \/ n < 6 /\ names = <<ServerScript[n + 1], ServerScript[n + 2]>>
         /\ <<to, st, n + Len(names), h>> \in ServerPlaces
<1>1. /\ ServerScript[1] = "PARAM_EXCHANGE" /\ ServerScript[2] = "CREATE_STREAMS"
      /\ ServerScript[3] = "TEST_START" /\ ServerScript[4] = "TEST_RUNNING"
      /\ ServerScript[5] = "EXCHANGE_RESULTS" /\ ServerScript[6] = "serverResults"
      /\ ServerScript[7] = "DISPLAY_RESULTS"
  BY DEF ServerScript
<1>2. /\ \A m : Len(<<m>>) = 1
      /\ \A m, k : Len(<<m, k>>) = 2
  OBVIOUS
<1>3. CASE <<n, names, to, st, h>> = <<0, <<"PARAM_EXCHANGE">>, "params", "PARAM_EXCHANGE", 1>>
  BY <1>1, <1>2, <1>3 DEF ServerPlaces
<1>4. CASE <<n, names, to, st, h>> = <<1, <<"CREATE_STREAMS">>, "select", "CREATE_STREAMS", 2>>
  BY <1>1, <1>2, <1>4 DEF ServerPlaces
<1>5. CASE <<n, names, to, st, h>> = <<2, <<"TEST_START", "TEST_RUNNING">>, "select", "TEST_RUNNING", 2>>
  BY <1>1, <1>2, <1>5 DEF ServerPlaces
<1>6. CASE <<n, names, to, st, h>> = <<4, <<"EXCHANGE_RESULTS">>, "results", "EXCHANGE_RESULTS", 3>>
  BY <1>1, <1>2, <1>6 DEF ServerPlaces
<1>7. CASE <<n, names, to, st, h>> = <<5, <<"serverResults", "DISPLAY_RESULTS">>, "select", "DISPLAY_RESULTS", 4>>
  BY <1>1, <1>2, <1>7 DEF ServerPlaces
<1> QED BY <1>3, <1>4, <1>5, <1>6, <1>7 DEF ServerMoves

\* The server says what comes next.
LEMMA ServerSpeaks ==
  ASSUME Conversation, pc["server"] \in Listening,
         NEW n, Len(sent["server"]) = n, n > 0 => HasSaid(n), NEW h,
         \/ NoRead("server") /\ h = Len(heard["server"])
         \/ ReadWhole("server") /\ h = Len(heard["server"]) + 1,
         NEW names, NEW bytes, Adds(names, bytes),
         NEW to, NEW st, Says("server", names, bytes, to, st),
         <<n, names, to, st, h>> \in ServerMoves,
         UNCHANGED <<streams, told, shut, closed>>
  PROVE  Conversation'
<1> DEFINE s == "server"
<1>1. /\ ChannelTypes /\ ControlTypes /\ Quiet /\ Prefix /\ Stream(s) /\ s \in Sides /\ Peer(s) = "client"
  BY SidesAre DEF Conversation, Streams
<1>2. streams' \in BOOLEAN /\ told' \in Errors \cup {"none", "garbage"} BY <1>1 DEF ControlTypes
<1>3. /\ UNCHANGED heard \/ \E m : LearnsNext(s, m) /\ Hears(s, <<m>>)
      /\ UNCHANGED readVars \/ ReadIsOver(s)
      /\ pc[s] \notin Reading \/ ReadIsOver(s)
      /\ Len(heard'[s]) = h
  <2>1. NoRead(s) => Len(heard'[s]) = Len(heard[s]) BY DEF NoRead
  <2> QED BY <1>1, <2>1, ReadsAre
<1>0. /\ n \in 0..6
      /\ \/ names = <<ServerScript[n + 1]>>
         \/ n < 6 /\ names = <<ServerScript[n + 1], ServerScript[n + 2]>>
      /\ <<to, st, n + Len(names), h>> \in ServerPlaces
  BY ServerMovesAre
<1>4. to \in ServerPCs /\ st \in States BY <1>0, SetsAre DEF ServerPlaces, ServerPCs
<1>5. pc[s] \notin Unconnected \cup {"off", "drain"} BY DEF Listening, Unconnected
<1>6. \/ /\ Acts(s, names) /\ Goes(s, to) /\ Enters(s, st) /\ UNCHANGED errno
      \/ /\ Acts(s, <<>>) /\ Fails(s, "IESENDMESSAGE") /\ Enters(s, st)
         /\ UNCHANGED <<sent, wire, reset>>
  BY <1>1, <1>3, SaysActs
<1>7. CASE Acts(s, names) /\ Goes(s, to) /\ Enters(s, st) /\ UNCHANGED errno
  <2>1. /\ ControlTypes' /\ pc'[s] = to /\ pc'["client"] = pc["client"]
        /\ state'["client"] = state["client"] /\ state'[s] = st
    BY <1>1, <1>2, <1>4, <1>7, TypesAfter
  <2>2. QuietAt(s)' /\ got'[s] = <<>> BY <1>1, <1>3, <1>5, <1>7, QuietStep
  <2>3. wire'[s] = wire[s] /\ sent'["client"] = sent["client"]
    BY <1>1, <1>7, <2>1, SidesAre, ChannelKept DEF Conversation, Streams, Keeps
  <2>4. Stream(s)' BY <1>1, <2>2, <2>3, StreamAfter
  <2> QED BY <1>0, <1>3, <1>5, <1>7, <2>1, <2>2, <2>4, ServerGoesOn
<1>8. CASE Fails(s, "IESENDMESSAGE") /\ Enters(s, st) /\ UNCHANGED <<sent, wire, reset>>
  BY <1>4, <1>8, SetsAre, ServerGivesIn
<1> QED BY <1>6, <1>7, <1>8

LEMMA ReadsCookieKeeps == ASSUME Conversation, ReadsCookie PROVE Conversation'
<1> DEFINE s == "server"
<1>1. /\ pc[s] = "cookie" /\ ReadIsOver(s) /\ UNCHANGED <<streams, told, shut, closed>>
      /\ pc[s] \in Listening
  BY DEF ReadsCookie, Listening
<1>2. ServerAt("none", 0, 0) BY <1>1 DEF Conversation, ServerPlace
<1>3. CASE Whole(s, Integer("cookie"))
  <2>1. /\ Says(s, <<"PARAM_EXCHANGE">>, Control("PARAM_EXCHANGE"), "params", "PARAM_EXCHANGE")
        /\ Hears(s, <<"cookie">>)
    BY <1>3 DEF ReadsCookie
  <2>2. ReadWhole(s) BY <1>1, <1>3, <2>1, WrittenIsCode, MessageKinds DEF Whole, ReadWhole
  <2>3. <<0, <<"PARAM_EXCHANGE">>, "params", "PARAM_EXCHANGE", 1>> \in ServerMoves BY DEF ServerMoves
  <2>4. 1 = Len(heard[s]) + 1 /\ Len(sent[s]) = 0 BY <1>2 DEF ServerAt
  <2>5. Adds(<<"PARAM_EXCHANGE">>, Control("PARAM_EXCHANGE")) BY AddsWritten, SetsAre
  <2> QED BY <1>1, <2>1, <2>2, <2>3, <2>4, <2>5, ServerSpeaks
<1>4. CASE ~Whole(s, Integer("cookie"))
  <2>1. Fails(s, "IERECVCOOKIE") /\ UNCHANGED <<state, heard, sent, wire, reset>>
    BY <1>4 DEF ReadsCookie
  <2> QED BY <1>1, <2>1, SetsAre, ServerGivesIn DEF ReadNothing
<1> QED BY <1>3, <1>4

LEMMA RefusalIs == ASSUME NEW t, Refusal(t) # "none" PROVE Refusal(t) \in Errors
BY DEF Refusal, Errors

LEMMA ReadsParametersKeeps == ASSUME Conversation, ReadsParameters PROVE Conversation'
<1> DEFINE s == "server"
<1>1. /\ pc[s] = "params" /\ ReadIsOver(s) /\ UNCHANGED <<streams, told, shut, closed>>
      /\ pc[s] \in Listening
  BY DEF ReadsParameters, Listening
<1>2. ServerAt("PARAM_EXCHANGE", 1, 1) BY <1>1 DEF Conversation, ServerPlace
<1>3. CASE Whole(s, Params)
  <2> DEFINE t == Adopted(test["server"], Parameters(test["client"]))
  <2>1. /\ Hears(s, <<"params">>)
        /\ IF Refusal(t) # "none"
             THEN Fails(s, Refusal(t)) /\ UNCHANGED <<state, sent, wire, reset>>
             ELSE \/ Says(s, <<"CREATE_STREAMS">>, Control("CREATE_STREAMS"), "select", "CREATE_STREAMS")
                  \/ Fails(s, "IESTREAMLISTEN") /\ UNCHANGED <<state, sent, wire, reset>>
    BY <1>3 DEF ReadsParameters
  <2> HIDE DEF t
  <2>2. ReadWhole(s)
    <3>1. got[s] = Code("params") /\ "params" \in Messages BY <1>3, LengthsAre DEF Whole
    <3> QED BY <1>1, <2>1, <3>1 DEF ReadWhole
  <2>3. CASE Says(s, <<"CREATE_STREAMS">>, Control("CREATE_STREAMS"), "select", "CREATE_STREAMS")
    <3>1. <<1, <<"CREATE_STREAMS">>, "select", "CREATE_STREAMS", 2>> \in ServerMoves BY DEF ServerMoves
    <3>2. 2 = Len(heard[s]) + 1 /\ Len(sent[s]) = 1 /\ HasSaid(1) BY <1>2 DEF ServerAt
    <3>3. Adds(<<"CREATE_STREAMS">>, Control("CREATE_STREAMS")) BY AddsWritten, SetsAre
    <3> QED BY <1>1, <2>2, <2>3, <3>1, <3>2, <3>3, ServerSpeaks
  <2>4. CASE Refusal(t) # "none"
    <3>1. \E e \in Errors : Fails(s, e) BY <2>1, <2>4, RefusalIs
    <3> QED BY <1>1, <2>1, <2>2, <2>4, <3>1, SetsAre, ServerGivesIn
  <2>5. CASE Fails(s, "IESTREAMLISTEN") /\ UNCHANGED <<state, sent, wire, reset>>
    <3>1. \E e \in Errors : Fails(s, e) BY <2>5, SetsAre
    <3> QED BY <1>1, <2>2, <2>5, <3>1, SetsAre, ServerGivesIn
  <2> QED BY <2>1, <2>3, <2>4, <2>5
<1>4. CASE ~Whole(s, Params)
  <2>1. Fails(s, "IERECVPARAMS") /\ UNCHANGED <<test, state, heard, sent, wire, reset>>
    BY <1>4 DEF ReadsParameters
  <2> QED BY <1>1, <2>1, SetsAre, ServerGivesIn DEF ReadNothing
<1> QED BY <1>3, <1>4

\* The server breaks off, or does once more: it may have said an error, or the start of a test.
LEMMA ServerBreaksOff ==
  ASSUME Conversation, pc["server"] \in {"select", "failed"}, NEW names, Acts("server", names),
         \/ names = <<>> \/ \E e \in Errors : names = Error(e)
         \/ pc["server"] = "select" /\ state["server"] = "CREATE_STREAMS" /\ names \in Starts,
         NEW to \in {"failed", "expired", "drain"}, Goes("server", to), UNCHANGED shut \/ to = "drain",
         NEW st \in States \cup {"none"}, Enters("server", st) \/ UNCHANGED state,
         UNCHANGED errno \/ \E e \in Errors : errno' = [errno EXCEPT !["server"] = e],
         UNCHANGED <<streams, told, heard>>
  PROVE  Conversation'
<1> DEFINE s == "server"
<1>1. /\ ChannelTypes /\ ControlTypes /\ Quiet /\ s \in Sides /\ Peer(s) = "client"
  BY SidesAre DEF Conversation
<1>2. /\ ControlTypes' /\ pc'[s] = to /\ pc'["client"] = pc["client"]
      /\ state'["client"] = state["client"]
  <2>1. streams' \in BOOLEAN /\ told' \in Errors \cup {"none", "garbage"} BY <1>1 DEF ControlTypes
  <2>2. to \in ServerPCs BY DEF ServerPCs
  <2> QED BY <1>1, <2>1, <2>2, TypesAfter
<1>3. pc[s] \notin Unconnected \cup {"off", "drain"} /\ pc[s] \notin Reading BY DEF Reading, Unconnected
<1>4. QuietAt(s)' BY <1>1, <1>2, <1>3, QuietStep
<1>5. Len(heard'[s]) >= Len(heard[s])
  <2>1. Len(heard[s]) \in Nat BY <1>1 DEF ChannelTypes
  <2> QED BY <2>1
<1> QED BY <1>2, <1>3, <1>4, <1>5, ServerFails

\* Without a word.
LEMMA EndsUntoldKeeps ==
  ASSUME Conversation, pc["server"] = "select", NEW e \in Errors, EndsUntold(e),
         UNCHANGED <<streams, told, closed, readVars, heard>>
  PROVE  Conversation'
<1>1. /\ errno' = [errno EXCEPT !["server"] = e] /\ Shuts("server") /\ Goes("server", "drain")
      /\ UNCHANGED <<state, sent, wire, reset>>
  BY DEF EndsUntold
<1>2. Acts("server", <<>>) BY <1>1 DEF Acts
<1> QED BY <1>1, <1>2, SetsAre, ServerBreaksOff

\* With the start of the test said.
LEMMA SaysAndFailsKeeps ==
  ASSUME Conversation, pc["server"] = "select", state["server"] = "CREATE_STREAMS",
         NEW names \in Starts, NEW bytes, Adds(names, bytes), NEW st \in States, NEW e \in Errors,
         SaysAndFails("server", names, bytes, st, e),
         UNCHANGED <<streams, told, shut, closed, readVars, heard>>
  PROVE  Conversation'
<1>1. /\ Writes("server", names, bytes) /\ Enters("server", st) /\ Goes("server", "failed")
      /\ errno' = [errno EXCEPT !["server"] = e]
  BY DEF SaysAndFails, Fails
<1>2. Acts("server", names) BY <1>1 DEF Acts
<1> QED BY <1>1, <1>2, ServerBreaksOff

LEMMA StartsTestKeeps == ASSUME Conversation, StartsTest PROVE Conversation'
<1> DEFINE s == "server"
           start == Control("TEST_START")
           running == Control("TEST_START") \o Control("TEST_RUNNING")
<1>1. /\ pc[s] = "select" /\ state[s] = "CREATE_STREAMS" /\ UNCHANGED <<streams, told, closed, readVars, heard>>
      /\ NoRead(s) /\ pc[s] \in Listening
  BY DEF StartsTest, Listening, NoRead, Reading
<1>2. ServerAt("CREATE_STREAMS", 2, 2) BY <1>1 DEF Conversation, ServerPlace, ServerAt
<1>3. CASE Says(s, <<"TEST_START", "TEST_RUNNING">>, running, "select", "TEST_RUNNING") /\ UNCHANGED shut
  <2>1. <<2, <<"TEST_START", "TEST_RUNNING">>, "select", "TEST_RUNNING", 2>> \in ServerMoves
    BY DEF ServerMoves
  <2>2. 2 = Len(heard[s]) /\ Len(sent[s]) = 2 /\ HasSaid(2) BY <1>2 DEF ServerAt
  <2> QED BY <1>1, <1>3, <2>1, <2>2, AddsWritten, ServerSpeaks
<1>4. CASE Fails(s, "IESTREAMCONNECT") /\ UNCHANGED <<state, sent, wire, reset, shut>>
  BY <1>1, <1>4, SetsAre, ServerGivesIn
<1>5. CASE EndsUntold("IELISTEN") BY <1>1, <1>5, SetsAre, EndsUntoldKeeps
<1>6. CASE SaysAndFails(s, <<"TEST_START">>, start, "TEST_START", "IEINITTEST") /\ UNCHANGED shut
  <2>1. Adds(<<"TEST_START">>, start) /\ "TEST_START" \in States BY AddsWritten, SetsAre
  <2>2. <<"TEST_START">> \in Starts BY DEF Starts
  <2> HIDE DEF start
  <2> QED BY <1>1, <1>6, <2>1, <2>2, SetsAre, SaysAndFailsKeeps
<1>7. CASE SaysAndFails(s, <<"TEST_START", "TEST_RUNNING">>, running, "TEST_RUNNING", "IEPTHREADCREATE")
           /\ UNCHANGED shut
  <2>1. Adds(<<"TEST_START", "TEST_RUNNING">>, running) /\ "TEST_RUNNING" \in States BY AddsWritten, SetsAre
  <2>2. <<"TEST_START", "TEST_RUNNING">> \in Starts BY DEF Starts
  <2> HIDE DEF running
  <2> QED BY <1>1, <1>7, <2>1, <2>2, SetsAre, SaysAndFailsKeeps
<1> QED BY <1>3, <1>4, <1>5, <1>6, <1>7 DEF StartsTest

LEMMA ServerSelectFailsKeeps == ASSUME Conversation, ServerSelectFails PROVE Conversation'
BY SetsAre, EndsUntoldKeeps DEF ServerSelectFails

LEMMA ServerGivesUp == ASSUME Conversation, GivesUp("server") PROVE Conversation'
<1>1. pc["server"] = "select" /\ Fails("server", "IENOMSG") /\ UNCHANGED <<state, streams, told, channelVars>>
  BY DEF GivesUp
<1>2. pc["server"] \in Listening /\ NoRead("server")
  BY <1>1 DEF Listening, NoRead, Reading, channelVars, readVars
<1> QED BY <1>1, <1>2, SetsAre, ServerGivesIn DEF channelVars

LEMMA FinishesKeeps == ASSUME Conversation, Finishes PROVE Conversation'
<1>1. pc["server"] = "handle" /\ Goes("server", "failed") /\ UNCHANGED <<state, streams, errno, told, channelVars>>
  BY DEF Finishes, Handles
<1>2. pc["server"] \in Listening /\ NoRead("server")
  BY <1>1 DEF Listening, NoRead, Reading, channelVars, readVars
<1> QED BY <1>1, <1>2, SetsAre, ServerGivesIn DEF channelVars

LEMMA AsksForResultsKeeps == ASSUME Conversation, AsksForResults PROVE Conversation'
<1> DEFINE s == "server"
<1>1. /\ pc[s] = "handle" /\ state[s] = "TEST_END" /\ UNCHANGED <<streams, told, shut, closed>>
      /\ NoRead(s) /\ pc[s] \in Listening
  BY DEF AsksForResults, Handles, Listening, NoRead, unread, Reading
<1>2. ServerAt("TEST_END", 4, 3) BY <1>1 DEF Conversation, ServerPlace
<1>3. Says(s, <<"EXCHANGE_RESULTS">>, Control("EXCHANGE_RESULTS"), "results", "EXCHANGE_RESULTS")
  BY DEF AsksForResults
<1>4. <<4, <<"EXCHANGE_RESULTS">>, "results", "EXCHANGE_RESULTS", 3>> \in ServerMoves BY DEF ServerMoves
<1>5. Len(heard[s]) = 3 /\ Len(sent[s]) = 4 /\ HasSaid(4) BY <1>2 DEF ServerAt
<1>6. Adds(<<"EXCHANGE_RESULTS">>, Control("EXCHANGE_RESULTS")) BY AddsWritten, SetsAre
<1> QED BY <1>1, <1>3, <1>4, <1>5, <1>6, ServerSpeaks

LEMMA ReadsClientResultsKeeps == ASSUME Conversation, ReadsClientResults PROVE Conversation'
<1> DEFINE s == "server"
<1>1. /\ pc[s] = "results" /\ ReadIsOver(s) /\ UNCHANGED <<streams, told, shut, closed>>
      /\ pc[s] \in Listening
  BY DEF ReadsClientResults, Listening
<1>2. ServerAt("EXCHANGE_RESULTS", 5, 3) BY <1>1 DEF Conversation, ServerPlace
<1>3. CASE Whole(s, Results("client"))
  <2>1. /\ Hears(s, <<"clientResults">>)
        /\ Says(s, <<"serverResults", "DISPLAY_RESULTS">>,
                Json("serverResults") \o Control("DISPLAY_RESULTS"), "select", "DISPLAY_RESULTS")
    BY <1>3, LengthsAre DEF ReadsClientResults
  <2>2. ReadWhole(s)
    <3>1. got[s] = Code("clientResults") /\ "clientResults" \in Messages BY <1>3, LengthsAre DEF Whole
    <3> QED BY <1>1, <2>1, <3>1 DEF ReadWhole
  <2>3. <<5, <<"serverResults", "DISPLAY_RESULTS">>, "select", "DISPLAY_RESULTS", 4>> \in ServerMoves
    BY DEF ServerMoves
  <2>4. 4 = Len(heard[s]) + 1 /\ Len(sent[s]) = 5 /\ HasSaid(5) BY <1>2 DEF ServerAt
  <2> QED BY <1>1, <2>1, <2>2, <2>3, <2>4, AddsWritten, ServerSpeaks
<1>4. CASE ~Whole(s, Results("client"))
  <2>1. Fails(s, "IERECVRESULTS") /\ UNCHANGED <<state, heard, sent, wire, reset>>
    BY <1>4 DEF ReadsClientResults
  <2> QED BY <1>1, <2>1, SetsAre, ServerGivesIn DEF ReadNothing
<1> QED BY <1>3, <1>4

\* An error is said where it comes up.
LEMMA ReportsKeeps ==
  ASSUME Conversation, NEW code \in Errors, Reports(code), NEW to \in {"failed", "expired"}, Goes("server", to),
         UNCHANGED errno \/ \E e \in Errors : errno' = [errno EXCEPT !["server"] = e]
  PROVE  Conversation'
<1> DEFINE s == "server"
<1>1. /\ pc[s] = "select" /\ Enters(s, "SERVER_ERROR")
      /\ UNCHANGED <<streams, told, shut, closed, readVars, heard>>
      /\ IF CanWrite(s) THEN Writes(s, Error(code), ErrorBytes(code)) ELSE UNCHANGED <<sent, wire, reset>>
  BY DEF Reports
<1>2. Adds(Error(code), ErrorBytes(code)) BY AddsWritten
<1>3. PICK names : Acts(s, names) /\ (names = <<>> \/ \E e \in Errors : names = Error(e))
  <2>1. CASE CanWrite(s)
    <3>1. Acts(s, Error(code)) BY <1>1, <1>2, <2>1 DEF Acts
    <3> QED BY <3>1
  <2>2. CASE ~CanWrite(s)
    <3>1. Acts(s, <<>>) BY <1>1, <2>2 DEF Acts
    <3> QED BY <3>1
  <2> QED BY <2>1, <2>2
<1> QED BY <1>1, <1>3, SetsAre, ServerBreaksOff

LEMMA RefusesRateKeeps == ASSUME Conversation, RefusesRate PROVE Conversation'
<1>1. /\ Reports("IETOTALRATE") /\ Goes("server", "failed")
      /\ \E e \in Errors : errno' = [errno EXCEPT !["server"] = e]
  BY SetsAre DEF RefusesRate, Fails
<1> QED BY <1>1, SetsAre, ReportsKeeps

LEMMA ExpiresKeeps == ASSUME Conversation, Expires PROVE Conversation'
BY SetsAre, ReportsKeeps DEF Expires

LEMMA CleansUpKeeps == ASSUME Conversation, CleansUp PROVE Conversation'
<1> DEFINE s == "server"  e == errno["server"]
<1>1. ControlTypes BY DEF Conversation
<1>2. /\ pc[s] = "failed" /\ Goes(s, "drain") /\ Shuts(s)
      /\ UNCHANGED <<streams, told, closed, readVars, heard>>
      /\ IF e = "none"
           THEN UNCHANGED <<state, errno, sent, wire, reset>>
           ELSE /\ Enters(s, "SERVER_ERROR")
                /\ IF CanWrite(s)
                     THEN Writes(s, Error(e), ErrorBytes(e)) /\ UNCHANGED errno
                     ELSE /\ errno' = [errno EXCEPT ![s] = "IESENDMESSAGE"]
                          /\ UNCHANGED <<sent, wire, reset>>
  BY DEF CleansUp
<1>3. e \in Errors \cup {"none"} BY <1>1 DEF ControlTypes
<1> HIDE DEF e
<1>4. PICK names : Acts(s, names) /\ (names = <<>> \/ \E f \in Errors : names = Error(f))
  <2>1. CASE e # "none" /\ CanWrite(s)
    <3>1. Adds(Error(e), ErrorBytes(e)) BY <1>3, <2>1, AddsWritten
    <3>2. Acts(s, Error(e)) BY <1>2, <2>1, <3>1 DEF Acts
    <3> QED BY <1>3, <2>1, <3>2
  <2>2. CASE ~(e # "none" /\ CanWrite(s))
    <3>1. Acts(s, <<>>) BY <1>2, <2>2 DEF Acts
    <3> QED BY <3>1
  <2> QED BY <2>1, <2>2
<1>5. UNCHANGED state \/ Enters(s, "SERVER_ERROR") BY <1>2
<1>6. UNCHANGED errno \/ \E f \in Errors : errno' = [errno EXCEPT ![s] = f] BY <1>2, SetsAre
<1> QED BY <1>2, <1>4, <1>5, <1>6, SetsAre, ServerBreaksOff
-----------------------------------------------------------------------------
(* The client's steps.                                                     *)

\* The script is said from its beginning.
LEMMA SaidBefore ==
  ASSUME Conversation, NEW h \in 1..7, HasSaid(h), NEW k \in 1..h
  PROVE  HasSaid(k)
<1> DEFINE q == sent["server"]
<1>1. q \in Seq(Messages) /\ WellSaid(q) /\ Len(q) \in Nat
  BY SidesAre DEF Conversation, ChannelTypes, ServerSays
<1>2. ASSUME NEW i \in 2..7, HasSaid(i) PROVE HasSaid(i - 1)
  <2>1. i \in 1..Len(q) /\ q[i] = ServerScript[i] BY <1>1, <1>2 DEF HasSaid, Follows
  <2>2. q[i] \notin Errors \cup {"SERVER_ERROR", "errno"} BY <2>1, ScriptsAre
  <2>3. InPlace(q, i) BY <1>1, <2>1 DEF WellSaid
  <2> QED BY <2>2, <2>3 DEF InPlace, HasSaid
<1>3. /\ HasSaid(7) => HasSaid(6)
      /\ HasSaid(6) => HasSaid(5)
      /\ HasSaid(5) => HasSaid(4)
      /\ HasSaid(4) => HasSaid(3)
      /\ HasSaid(3) => HasSaid(2)
      /\ HasSaid(2) => HasSaid(1)
  <2>1. /\ 7 \in 2..7 /\ 7 - 1 = 6 /\ 6 \in 2..7 /\ 6 - 1 = 5 /\ 5 \in 2..7 /\ 5 - 1 = 4
        /\ 4 \in 2..7 /\ 4 - 1 = 3 /\ 3 \in 2..7 /\ 3 - 1 = 2 /\ 2 \in 2..7 /\ 2 - 1 = 1
    OBVIOUS
  <2> QED BY <2>1, <1>2
<1>4. \A i \in 1..7 : i = 1 \/ i = 2 \/ i = 3 \/ i = 4 \/ i = 5 \/ i = 6 \/ i = 7 OBVIOUS
<1>5. k \in 1..7 /\ k <= h OBVIOUS
<1> QED BY <1>3, <1>4, <1>5

ClientPlaces == {
  <<"handle", "PARAM_EXCHANGE", 1, 1>>, <<"select", "PARAM_EXCHANGE", 2, 1>>,
  <<"handle", "CREATE_STREAMS", 2, 2>>, <<"select", "CREATE_STREAMS", 2, 2>>,
  <<"handle", "TEST_START", 2, 3>>, <<"select", "TEST_START", 2, 3>>,
  <<"handle", "TEST_RUNNING", 2, 4>>, <<"select", "TEST_RUNNING", 2, 4>>,
  <<"select", "TEST_END", 3, 4>>, <<"handle", "EXCHANGE_RESULTS", 3, 5>>,
  <<"results", "EXCHANGE_RESULTS", 4, 5>>, <<"select", "EXCHANGE_RESULTS", 4, 6>>,
  <<"handle", "DISPLAY_RESULTS", 4, 7>>}

ClientIn(to, st, n, h) ==
  /\ <<to, st, n, h>> \in ClientPlaces
  /\ pc'["client"] = to /\ state'["client"] = st /\ Len(sent'["client"]) = n /\ Len(heard'["client"]) = h

LEMMA ClientInPlace ==
  ASSUME NEW to, NEW st, NEW n, NEW h, ClientIn(to, st, n, h), \A k \in 1..h : HasSaid(k)'
  PROVE  ClientPlace'
<1>1. /\ pc'["client"] = to /\ state'["client"] = st /\ Len(sent'["client"]) = n
      /\ Len(heard'["client"]) = h
  BY DEF ClientIn
<1>2. \A i \in 1..4 : HasAsked(i)' => i <= n BY <1>1 DEF HasAsked, Follows
<1>3. h \in 1..7 => HasSaid(h)' OBVIOUS
<1>4. h \in 1..7 => ClientAt(st, n, h)' BY <1>1, <1>3 DEF ClientAt
<1>5. /\ n \in 1..4 /\ h \in 1..7
      /\ n >= 3 => h >= 4
      /\ n >= 4 => h >= 5
  BY DEF ClientIn, ClientPlaces
<1>6. /\ (HasAsked(2) => Len(heard["client"]) >= 1)'
      /\ (HasAsked(3) => Len(heard["client"]) >= 4 /\ HasSaid(4))'
      /\ (HasAsked(4) => Len(heard["client"]) >= 5 /\ HasSaid(5))'
  <2>1. 2 \in 1..4 /\ 3 \in 1..4 /\ 4 \in 1..4 OBVIOUS
  <2>2. /\ h >= 4 => HasSaid(4)'
        /\ h >= 5 => HasSaid(5)'
    BY <1>5
  <2> QED BY <1>1, <1>2, <1>5, <2>1, <2>2
<1>7. /\ (pc["client"] = "select" =>
           \/ ClientAt("none", 1, 0) \/ ClientAt("PARAM_EXCHANGE", 2, 1) \/ ClientAt("CREATE_STREAMS", 2, 2)
           \/ ClientAt("TEST_START", 2, 3) \/ ClientAt("TEST_RUNNING", 2, 4) \/ ClientAt("TEST_END", 3, 4)
           \/ ClientAt("EXCHANGE_RESULTS", 4, 6))'
      /\ (pc["client"] = "handle" =>
           \/ ClientAt("PARAM_EXCHANGE", 1, 1) \/ ClientAt("CREATE_STREAMS", 2, 2)
           \/ ClientAt("TEST_START", 2, 3) \/ ClientAt("TEST_RUNNING", 2, 4)
           \/ ClientAt("EXCHANGE_RESULTS", 3, 5) \/ ClientAt("DISPLAY_RESULTS", 4, 7) \/ ToldError)'
      /\ (pc["client"] = "results" => ClientAt("EXCHANGE_RESULTS", 4, 5))'
      /\ pc'["client"] # "code"
  <2>1. ClientAt(st, n, h)' BY <1>4, <1>5
  <2> QED BY <1>1, <2>1 DEF ClientIn, ClientPlaces
<1> QED BY <1>1, <1>5, <1>6, <1>7 DEF ClientPlace

\* The client arrives at a place.
LEMMA ClientArrives ==
  ASSUME Conversation, NEW names, OneSided("client", names), pc["client"] \notin Unconnected \cup {"drain", "off"},
         NEW k, Len(sent["client"]) = k,
         names = <<>> \/ (k < 4 /\ names = <<ClientScript[k + 1]>>),
         NEW to, NEW st, NEW n, NEW h, ClientIn(to, st, n, h), HasSaid(h), ControlTypes', QuietAt("client")', Stream("client")'
  PROVE  Conversation'
<1> DEFINE q == sent["client"]
<1>1. q \in Seq(Messages) /\ k \in 1..4 /\ \A i \in 1..k : Follows(ClientScript, q, i)
  BY SidesAre DEF Conversation, ChannelTypes, ClientSays, ClientPlace, HasAsked
<1>2. sent'["client"] = q \o names BY DEF OneSided
<1> HIDE DEF q
<1>3. \A i \in 1..Len(q \o names) : Follows(ClientScript, q \o names, i)
  <2>1. CASE names = <<>>
    <3>1. q \o <<>> = q BY <1>1, ConcatEmptySeq
    <3> QED BY <1>1, <2>1, <3>1 DEF q
  <2>2. CASE k < 4 /\ names = <<ClientScript[k + 1]>>
    <3>1. k \in 0..3 /\ Len(q) = k BY <1>1, <2>2 DEF q
    <3> QED BY <1>1, <2>2, <3>1, AsksNext
  <2> QED BY <2>1, <2>2
<1>4. ClientSays' BY <1>2, <1>3 DEF ClientSays, HasAsked
<1>5. \A i \in 1..h : HasSaid(i)'
  <2>1. h \in 1..7 BY DEF ClientIn, ClientPlaces
  <2>2. \A i \in 1..h : HasSaid(i) /\ i \in 1..7 BY <2>1, SaidBefore
  <2> QED BY <2>2, SaidStays DEF OneSided, Conversation
<1>6. ClientPlace' BY <1>5, ClientInPlace
<1>7. pc'["client"] \notin Unconnected BY DEF ClientIn, ClientPlaces, Unconnected
<1> QED BY <1>4, <1>6, <1>7, ClientActs

\* The client leaves the conversation, or has been told of an error.
LEMMA ClientLoses ==
  ASSUME Conversation, OneSided("client", <<>>), pc["client"] \notin Unconnected \cup {"drain", "off"},
         pc'["client"] \in {"failed", "ending", "errno", "handle", "code"},
         pc'["client"] \in {"handle", "code"} => ToldError',
         Len(heard'["client"]) >= Len(heard["client"]),
         ControlTypes', QuietAt("client")', Stream("client")'
  PROVE  Conversation'
<1> DEFINE q == sent["client"]
<1>1. q \in Seq(Messages) /\ Len(q) \in 1..4 /\ \A i \in 1..Len(q) : HasAsked(i)
  BY SidesAre DEF Conversation, ChannelTypes, ClientSays, ClientPlace
<1>2. q \o <<>> = q BY <1>1, ConcatEmptySeq
<1>3. sent'["client"] = sent["client"] BY <1>2 DEF OneSided
<1>4. \A n : HasAsked(n)' <=> HasAsked(n) BY <1>3 DEF HasAsked
<1>5. ClientSays' BY <1>1, <1>3, <1>4 DEF ClientSays
<1>6. /\ HasSaid(4) => HasSaid(4)'
      /\ HasSaid(5) => HasSaid(5)'
  <2>1. 4 \in 1..7 /\ 5 \in 1..7 OBVIOUS
  <2> QED BY <2>1, SaidStays DEF OneSided, Conversation
<1>7. Len(heard["client"]) \in Nat /\ Len(heard'["client"]) \in Nat
  BY SidesAre DEF OneSided, Conversation, ChannelTypes
<1>8. ClientPlace'
  <2>1. /\ (HasAsked(2) => Len(heard["client"]) >= 1)'
        /\ (HasAsked(3) => Len(heard["client"]) >= 4 /\ HasSaid(4))'
        /\ (HasAsked(4) => Len(heard["client"]) >= 5 /\ HasSaid(5))'
    BY <1>4, <1>6, <1>7 DEF Conversation, ClientPlace
  <2> QED BY <1>1, <1>3, <2>1 DEF ClientPlace
<1>9. pc'["client"] \notin Unconnected BY DEF Unconnected
<1> QED BY <1>5, <1>8, <1>9, ClientActs

\* A step of the client from one place to the next.
LEMMA ClientSteps ==
  ASSUME Conversation, pc["client"] \in Listening, NoRead("client") \/ ReadWhole("client"),
         NEW names, Acts("client", names), UNCHANGED <<shut, errno, told>>, streams' \in BOOLEAN,
         NEW k, Len(sent["client"]) = k,
         names = <<>> \/ (k < 4 /\ names = <<ClientScript[k + 1]>>),
         NEW to, Goes("client", to), NEW st, Enters("client", st) \/ UNCHANGED state, state'["client"] = st,
         NEW h, h = Len(heard'["client"]), HasSaid(h),
         <<to, st, k + Len(names), h>> \in ClientPlaces
  PROVE  Conversation'
<1> DEFINE s == "client"
<1>1. /\ ChannelTypes /\ ControlTypes /\ Quiet /\ Prefix /\ Stream(s) /\ s \in Sides /\ Peer(s) = "server"
  BY SidesAre DEF Conversation, Streams
<1>2. /\ pc[s] \notin Reading \/ ReadIsOver(s)
      /\ pc[s] \notin Unconnected \cup {"off", "drain"}
  BY DEF Listening, Unconnected, NoRead, ReadWhole
<1>3. to \in ClientPCs /\ st \in States BY SetsAre DEF ClientPlaces, ClientPCs
<1>4. /\ ControlTypes' /\ pc'[s] = to /\ pc'["server"] = pc["server"]
      /\ state'["server"] = state["server"]
  <2>1. told' \in Errors \cup {"none", "garbage"} BY <1>1 DEF ControlTypes
  <2> QED BY <1>1, <1>3, <2>1, TypesAfter
<1>5. QuietAt(s)' /\ got'[s] = <<>> BY <1>1, <1>2, QuietStep
<1>6. OneSided(s, names) BY <1>1, <1>4, ActsIsOneSided
<1>7. wire'[s] = wire[s] /\ sent'["server"] = sent["server"]
  BY <1>1, <1>4, SidesAre, ChannelKept DEF Conversation, Streams, Keeps
<1>8. Stream(s)' BY <1>1, <1>5, <1>7, StreamAfter
<1>9. Len(sent'[s]) = k + Len(names)
  <2> DEFINE q == sent[s]
  <2>1. q \in Seq(Messages) /\ names \in Seq(Messages)
    BY <1>1, <1>4, SidesAre, ChannelKept DEF Conversation, Streams, ChannelTypes
  <2> HIDE DEF q
  <2>2. Len(q \o names) = Len(q) + Len(names) BY <2>1, ConcatProperties
  <2> QED BY <2>2, <1>6 DEF OneSided, q
<1>10. ClientIn(to, st, k + Len(names), h) BY <1>4, <1>9 DEF ClientIn
<1> QED BY <1>2, <1>4, <1>5, <1>6, <1>8, <1>10, ClientArrives

\* The client cannot go on, or has no more to say.
LEMMA ClientGivesIn ==
  ASSUME Conversation, pc["client"] \notin Unconnected \cup {"drain", "off"},
         (pc["client"] \notin Reading /\ UNCHANGED readVars) \/ ReadIsOver("client"),
         UNCHANGED heard \/ \E m : LearnsNext("client", m) /\ Hears("client", <<m>>),
         UNCHANGED <<sent, wire, reset, shut, closed>>,
         NEW to \in {"failed", "ending", "errno"}, Goes("client", to),
         NEW st \in States \cup {"none"}, Enters("client", st) \/ UNCHANGED state,
         \/ UNCHANGED errno
         \/ \E e : errno' = [errno EXCEPT !["client"] = e] /\ e \in Errors \cup ClientErrors \cup {"none", "garbage"},
         told' \in Errors \cup {"none", "garbage"}, streams' \in BOOLEAN
  PROVE  Conversation'
<1> DEFINE s == "client"
<1>1. /\ ChannelTypes /\ ControlTypes /\ Quiet /\ Prefix /\ s \in Sides /\ Peer(s) = "server"
  BY SidesAre DEF Conversation
<1>2. Acts(s, <<>>) BY DEF Acts
<1>3. /\ ControlTypes' /\ pc'[s] = to /\ pc'["server"] = pc["server"]
      /\ state'["server"] = state["server"]
  BY <1>1, TypesAfter DEF ClientPCs
<1>4. QuietAt(s)' BY <1>1, <1>2, QuietStep
<1>5. OneSided(s, <<>>) BY <1>1, <1>2, <1>3, ActsIsOneSided
<1>6. Stream(s)' BY <1>3 DEF Stream, Listening
<1>7. Len(heard'[s]) >= Len(heard[s])
  <2>1. Learns BY <1>1, <1>2, <1>3, SidesAre, ChannelKept DEF Conversation, Streams
  <2>2. Len(heard[s]) \in Nat BY <1>1 DEF ChannelTypes
  <2> QED BY <1>1, <2>1, <2>2 DEF Learns
<1> QED BY <1>3, <1>4, <1>5, <1>6, <1>7, ClientLoses

\* Where the client is in a state.
LEMMA ClientHandles ==
  ASSUME Conversation, NEW st, Handles("client", st)
  PROVE  /\ st = "PARAM_EXCHANGE" => ClientAt(st, 1, 1)
         /\ st = "CREATE_STREAMS" => ClientAt(st, 2, 2)
         /\ st = "TEST_START" => ClientAt(st, 2, 3)
         /\ st = "TEST_RUNNING" => ClientAt(st, 2, 4)
         /\ st = "EXCHANGE_RESULTS" => ClientAt(st, 3, 5)
         /\ st = "DISPLAY_RESULTS" => ClientAt(st, 4, 7)
         /\ st = "SERVER_ERROR" => ToldError
BY DEF Handles, Conversation, ClientPlace, ClientAt, ToldError

\* The client writes the next message, or fails to.
LEMMA ClientSpeaks ==
  ASSUME Conversation, pc["client"] \in Listening, NoRead("client"),
         UNCHANGED <<shut, closed, told, streams>>,
         NEW st0, NEW k, NEW h, ClientAt(st0, k, h), h > 0,
         NEW m, NEW bytes, Adds(<<m>>, bytes), k < 4, m = ClientScript[k + 1],
         NEW to, NEW st, Says("client", <<m>>, bytes, to, st), <<to, st, k + 1, h>> \in ClientPlaces
  PROVE  Conversation'
<1> DEFINE s == "client"
<1>1. /\ ChannelTypes /\ ControlTypes /\ s \in Sides BY SidesAre DEF Conversation
<1>2. UNCHANGED heard /\ UNCHANGED readVars /\ pc[s] \notin Reading BY DEF NoRead
<1>3. \/ Acts(s, <<m>>) /\ Goes(s, to) /\ Enters(s, st) /\ UNCHANGED errno
      \/ /\ Fails(s, "IESENDMESSAGE") /\ Enters(s, st) /\ UNCHANGED <<sent, wire, reset>>
  BY <1>1, <1>2, SaysActs
<1>4. Len(sent[s]) = k /\ Len(heard[s]) = h /\ HasSaid(h) BY DEF ClientAt
<1>5. streams' \in BOOLEAN /\ told' \in Errors \cup {"none", "garbage"} BY <1>1 DEF ControlTypes
<1>6. CASE Acts(s, <<m>>) /\ Goes(s, to) /\ Enters(s, st) /\ UNCHANGED errno
  <2>1. state'[s] = st BY <1>1, <1>6 DEF Enters, ControlTypes
  <2>2. Len(<<m>>) = 1 OBVIOUS
  <2>3. <<to, st, k + Len(<<m>>), h>> \in ClientPlaces BY <2>2
  <2> HIDE DEF ClientPlaces
  <2> QED BY <1>2, <1>4, <1>5, <1>6, <2>1, <2>3, ClientSteps
<1>7. CASE /\ Fails(s, "IESENDMESSAGE") /\ Enters(s, st) /\ UNCHANGED <<sent, wire, reset>>
  <2>1. st \in States BY SetsAre DEF ClientPlaces
  <2>2. pc[s] \notin Unconnected \cup {"drain", "off"} BY DEF Unconnected, Listening
  <2> QED BY <1>2, <1>5, <1>7, <2>1, <2>2, SetsAre, ClientGivesIn DEF Fails
<1> QED BY <1>3, <1>6, <1>7

LEMMA SendsParametersKeeps == ASSUME Conversation, SendsParameters PROVE Conversation'
<1>1. /\ ClientAt("PARAM_EXCHANGE", 1, 1) /\ UNCHANGED <<shut, closed, told, streams>>
      /\ pc["client"] \in Listening /\ NoRead("client")
  BY ClientHandles DEF SendsParameters, Handles, unread, Listening, NoRead, Reading
<1>2. Says("client", <<"params">>, Params, "select", "PARAM_EXCHANGE") BY DEF SendsParameters
<1>3. Adds(<<"params">>, Params) BY AddsWritten, LengthsAre
<1>4. "params" = ClientScript[1 + 1] BY DEF ClientScript
<1>5. <<"select", "PARAM_EXCHANGE", 1 + 1, 1>> \in ClientPlaces BY DEF ClientPlaces
<1> QED BY <1>1, <1>2, <1>3, <1>4, <1>5, ClientSpeaks

LEMMA EndsTestKeeps == ASSUME Conversation, EndsTest PROVE Conversation'
<1>1. /\ ClientAt("TEST_RUNNING", 2, 4) /\ UNCHANGED <<shut, closed, told, streams>>
      /\ pc["client"] \in Listening /\ NoRead("client")
  BY DEF EndsTest, unread, Listening, NoRead, Reading, Conversation, ClientPlace, ClientAt
<1>2. Says("client", <<"TEST_END">>, Control("TEST_END"), "select", "TEST_END") BY DEF EndsTest
<1>3. Adds(<<"TEST_END">>, Control("TEST_END")) BY AddsWritten, SetsAre
<1>4. "TEST_END" = ClientScript[2 + 1] BY DEF ClientScript
<1>5. <<"select", "TEST_END", 2 + 1, 4>> \in ClientPlaces BY DEF ClientPlaces
<1> QED BY <1>1, <1>2, <1>3, <1>4, <1>5, ClientSpeaks

LEMMA SendsResultsKeeps == ASSUME Conversation, SendsResults PROVE Conversation'
<1>1. /\ ClientAt("EXCHANGE_RESULTS", 3, 5) /\ UNCHANGED <<shut, closed, told, streams>>
      /\ pc["client"] \in Listening /\ NoRead("client")
  BY ClientHandles DEF SendsResults, Handles, unread, Listening, NoRead, Reading
<1>2. Says("client", <<"clientResults">>, Results("client"), "results", "EXCHANGE_RESULTS") BY DEF SendsResults
<1>3. Adds(<<"clientResults">>, Results("client")) BY AddsWritten, LengthsAre
<1>4. "clientResults" = ClientScript[3 + 1] BY DEF ClientScript
<1>5. <<"results", "EXCHANGE_RESULTS", 3 + 1, 5>> \in ClientPlaces BY DEF ClientPlaces
<1> QED BY <1>1, <1>2, <1>3, <1>4, <1>5, ClientSpeaks

\* The client goes on without a word.
LEMMA ClientMovesOn ==
  ASSUME Conversation, pc["client"] \in Listening, pc["client"] \notin Reading,
         UNCHANGED <<channelVars, state, errno, told>>, streams' \in BOOLEAN,
         NEW st, NEW n, NEW h, ClientAt(st, n, h), h > 0, NEW to, Goes("client", to),
         <<to, st, n, h>> \in ClientPlaces
  PROVE  Conversation'
<1>1. /\ NoRead("client") /\ Acts("client", <<>>) /\ UNCHANGED <<shut, errno, told, state>>
  BY DEF NoRead, Acts, channelVars, readVars
<1>2. /\ Len(sent["client"]) = n /\ state'["client"] = st /\ Len(heard'["client"]) = h /\ HasSaid(h)
  BY DEF ClientAt, channelVars
<1>3. n + Len(<<>>) = n
  <2>1. Len(<<>>) = 0 /\ n \in Nat BY DEF ClientPlaces
  <2> QED BY <2>1
<1>4. <<to, st, n + Len(<<>>), h>> \in ClientPlaces BY <1>3
<1> QED BY <1>1, <1>2, <1>4, ClientSteps

LEMMA CreatesStreamsKeeps == ASSUME Conversation, CreatesStreams PROVE Conversation'
<1>1. /\ ClientAt("CREATE_STREAMS", 2, 2) /\ UNCHANGED <<channelVars, state, told>>
      /\ pc["client"] = "handle"
  BY ClientHandles DEF CreatesStreams, Handles
<1>2. pc["client"] \in Listening \ (Reading \cup Unconnected \cup {"drain", "off"})
  BY <1>1 DEF Listening, Reading, Unconnected
<1>3. CASE streams' = TRUE /\ Goes("client", "select") /\ UNCHANGED errno
  <2>1. <<"select", "CREATE_STREAMS", 2, 2>> \in ClientPlaces BY DEF ClientPlaces
  <2> QED BY <1>1, <1>2, <1>3, <2>1, ClientMovesOn
<1>4. CASE Fails("client", "IESTREAMCONNECT") /\ UNCHANGED streams
  <2>1. streams' \in BOOLEAN /\ told' \in Errors \cup {"none", "garbage"}
    BY <1>1, <1>4 DEF Conversation, ControlTypes
  <2> QED BY <1>1, <1>2, <1>4, <2>1, SetsAre, ClientGivesIn DEF Fails, ClientErrors, channelVars, readVars
<1> QED BY <1>3, <1>4 DEF CreatesStreams

LEMMA GoesOnKeeps == ASSUME Conversation, GoesOn PROVE Conversation'
<1>1. /\ ClientAt("TEST_START", 2, 3) \/ ClientAt("TEST_RUNNING", 2, 4)
      /\ UNCHANGED <<channelVars, state, told, streams>>
      /\ pc["client"] = "handle"
  BY ClientHandles DEF GoesOn, Handles
<1>2. pc["client"] \in Listening \ (Reading \cup Unconnected \cup {"drain", "off"}) /\ streams' \in BOOLEAN
  BY <1>1 DEF Listening, Reading, Unconnected, Conversation, ControlTypes
<1>3. <<"select", "TEST_START", 2, 3>> \in ClientPlaces /\ <<"select", "TEST_RUNNING", 2, 4>> \in ClientPlaces
  BY DEF ClientPlaces
<1>4. CASE Goes("client", "select") /\ UNCHANGED errno BY <1>1, <1>2, <1>3, <1>4, ClientMovesOn
<1>5. CASE \E e \in Errors : Fails("client", e)
  <2>1. told' \in Errors \cup {"none", "garbage"} BY <1>1 DEF Conversation, ControlTypes
  <2> QED BY <1>1, <1>2, <1>5, <2>1, SetsAre, ClientGivesIn DEF Fails, channelVars, readVars
<1>6. (Goes("client", "select") /\ UNCHANGED errno) \/ \E e \in Errors : Fails("client", e)
  BY SetsAre DEF GoesOn
<1> QED BY <1>4, <1>5, <1>6

\* The client fails while it waits.
LEMMA ClientFailsWaiting ==
  ASSUME Conversation, pc["client"] = "select", NEW e \in Errors, Fails("client", e),
         UNCHANGED <<channelVars, state, told, streams>>
  PROVE  Conversation'
<1>1. pc["client"] \notin Reading \cup Unconnected \cup {"drain", "off"} BY DEF Reading, Unconnected
<1>2. streams' \in BOOLEAN /\ told' \in Errors \cup {"none", "garbage"} BY DEF Conversation, ControlTypes
<1> QED BY <1>1, <1>2, SetsAre, ClientGivesIn DEF Fails, channelVars, readVars

LEMMA SelectFailsKeeps == ASSUME Conversation, SelectFails PROVE Conversation'
BY SetsAre, ClientFailsWaiting DEF SelectFails

LEMMA ClientGivesUp == ASSUME Conversation, GivesUp("client") PROVE Conversation'
BY SetsAre, ClientFailsWaiting DEF GivesUp

LEMMA ReadsServerResultsKeeps == ASSUME Conversation, ReadsServerResults PROVE Conversation'
<1> DEFINE s == "client"
<1>1. /\ pc[s] = "results" /\ ReadIsOver(s)
      /\ UNCHANGED <<state, streams, told, wire, shut, closed, reset, sent>>
      /\ pc[s] \in Listening \ (Unconnected \cup {"drain", "off"})
  BY DEF ReadsServerResults, Listening, Unconnected
<1>2. ClientAt("EXCHANGE_RESULTS", 4, 5) BY <1>1 DEF Conversation, ClientPlace
<1>3. /\ ChannelTypes /\ ControlTypes /\ Prefix /\ Stream(s) /\ s \in Sides /\ Peer(s) = "server"
  BY SidesAre DEF Conversation, Streams
<1>4. streams' \in BOOLEAN /\ told' \in Errors \cup {"none", "garbage"} BY <1>1, <1>3 DEF ControlTypes
<1>5. CASE Whole(s, Results("server"))
  <2>1. Goes(s, "select") /\ Hears(s, <<"serverResults">>) /\ UNCHANGED errno
    BY <1>5 DEF ReadsServerResults
  <2>2. got[s] = Code("serverResults") /\ "serverResults" \in Messages BY <1>5, LengthsAre DEF Whole
  <2>3. ReadWhole(s) BY <1>1, <2>1, <2>2 DEF ReadWhole
  <2>4. Len(heard'[s]) = 6
    <3>1. Len(heard[s]) = 5 BY <1>2 DEF ClientAt
    <3>2. pc[s] \in Listening BY <1>1
    <3>3. Len(heard'[s]) = Len(heard[s]) + 1 BY <1>3, <2>3, <3>2, ReadsAre
    <3> QED BY <3>1, <3>3
  <2>5. HasSaid(6)
    <3>1. LearnsNext(s, "serverResults") BY <1>1, <1>3, <2>2, HearsWhole
    <3>2. 5 < Len(sent["server"]) /\ sent["server"][5 + 1] = "serverResults"
      BY <1>2, <1>3, <3>1 DEF LearnsNext, ClientAt
    <3>3. Len(sent["server"]) \in Nat BY <1>3, SidesAre DEF ChannelTypes
    <3>4. ServerScript[6] = "serverResults" BY DEF ServerScript
    <3>5. 6 <= Len(sent["server"]) /\ sent["server"][6] = "serverResults" BY <3>2, <3>3
    <3> QED BY <3>4, <3>5, ScriptsAre DEF HasSaid, Follows
  <2>6. Acts(s, <<>>)
    <3>1. UNCHANGED heard \/ \E m : LearnsNext(s, m) /\ Hears(s, <<m>>) BY <1>1, <1>3, <2>3, ReadsAre
    <3> QED BY <1>1, <3>1 DEF Acts
  <2>7. <<"select", "EXCHANGE_RESULTS", 4 + Len(<<>>), 6>> \in ClientPlaces
    <3>1. 4 + Len(<<>>) = 4 OBVIOUS
    <3> QED BY <3>1 DEF ClientPlaces
  <2>8. Len(sent[s]) = 4 /\ state'[s] = "EXCHANGE_RESULTS" BY <1>1, <1>2 DEF ClientAt
  <2> QED BY <1>1, <1>4, <2>1, <2>3, <2>4, <2>5, <2>6, <2>7, <2>8, ClientSteps
<1>6. CASE ~Whole(s, Results("server"))
  <2>1. Fails(s, "IERECVRESULTS") /\ UNCHANGED heard BY <1>6 DEF ReadsServerResults
  <2> QED BY <1>1, <1>4, <2>1, SetsAre, ClientGivesIn DEF Fails, ClientErrors
<1> QED BY <1>5, <1>6

LEMMA ShowsResultsKeeps == ASSUME Conversation, ShowsResults PROVE Conversation'
<1>1. /\ pc["client"] = "handle" /\ Goes("client", "ending")
      /\ UNCHANGED <<state, streams, errno, told, channelVars>>
  BY DEF ShowsResults, Handles, AfterDisplay
<1>2. streams' \in BOOLEAN /\ told' \in Errors \cup {"none", "garbage"}
  BY <1>1 DEF Conversation, ControlTypes
<1>3. pc["client"] \notin Unconnected \cup {"drain", "off"} \cup Reading BY <1>1 DEF Unconnected, Reading
<1> QED BY <1>1, <1>2, <1>3, SetsAre, ClientGivesIn DEF channelVars, readVars

LEMMA ReadsServerErrorKeeps == ASSUME Conversation, ReadsServerError PROVE Conversation'
<1> DEFINE s == "client"
<1>1. /\ pc[s] = "handle" /\ Goes(s, "code") /\ ToldError
      /\ UNCHANGED <<state, streams, errno, told, channelVars>>
  BY ClientHandles DEF ReadsServerError, Handles
<1>2. /\ ChannelTypes /\ ControlTypes /\ Quiet /\ s \in Sides /\ Peer(s) = "server" /\ Stream(s)
  BY SidesAre DEF Conversation, Streams
<1>3. /\ ControlTypes' /\ pc'[s] = "code" /\ pc'["server"] = pc["server"] /\ state'["server"] = state["server"]
  <2>1. streams' \in BOOLEAN /\ told' \in Errors \cup {"none", "garbage"} BY <1>1, <1>2 DEF ControlTypes
  <2> QED BY <1>1, <1>2, <2>1, SetsAre, TypesAfter DEF ClientPCs
<1>4. Acts(s, <<>>) BY <1>1 DEF Acts, channelVars, readVars
<1>5. pc[s] \notin Unconnected \cup {"drain", "off"} \cup Reading BY <1>1 DEF Unconnected, Reading
<1>6. QuietAt(s)' BY <1>1, <1>2, <1>4, <1>5, QuietStep DEF channelVars
<1>7. OneSided(s, <<>>) BY <1>2, <1>3, <1>4, ActsIsOneSided
<1>8. Stream(s)' BY <1>1, <1>2, StreamStays DEF channelVars, readVars, Listening
<1>9. ToldError' BY <1>1 DEF ToldError, channelVars
<1>10. Len(heard'[s]) >= Len(heard[s])
  <2>1. Len(heard[s]) \in Nat BY <1>2 DEF ChannelTypes
  <2> QED BY <1>1, <2>1 DEF channelVars
<1> QED BY <1>3, <1>5, <1>6, <1>7, <1>8, <1>9, <1>10, ClientLoses

\* What follows a server's error is its code.
LEMMA CodeFollows ==
  ASSUME Conversation, pc["client"] = "code"
  PROVE  /\ Len(heard["client"]) < Len(sent["server"])
         /\ sent["server"][Len(heard["client"]) + 1] \in Errors
         /\ Len(got["client"]) = IntSize =>
              got["client"][1][1] = sent["server"][Len(heard["client"]) + 1]
<1> DEFINE q == sent["server"]  h == Len(heard["client"])
<1>1. ToldError BY DEF Conversation, ClientPlace
<1>2. /\ q \in Seq(Messages) /\ Len(q) \in Nat /\ h \in 1..Len(q) /\ q[h] = "SERVER_ERROR" /\ WellSaid(q)
      /\ got["client"] \in Seq(Byte) /\ wire["client"] \in Seq(Byte)
  BY <1>1, SidesAre DEF Conversation, ChannelTypes, ToldError, ServerSays
<1>3. Coded(got["client"] \o wire["client"], Rest(q, h)) BY SidesAre DEF Conversation, Streams, Stream, Listening
<1> HIDE DEF q, h
<1>4. h + 1 <= Len(q) /\ q[h + 1] \in Errors
  <2>1. InPlace(q, h) BY <1>2 DEF WellSaid
  <2>2. ~Follows(ServerScript, q, h)
    <3>1. h <= Len(ServerScript) => h \in 1..7 BY <1>2, ScriptsAre
    <3> QED BY <1>2, <3>1, ScriptsAre DEF Follows
  <2>3. "SERVER_ERROR" \notin Errors \cup {"errno"} BY DEF Errors
  <2> QED BY <1>2, <2>1, <2>2, <2>3 DEF InPlace
<1>5. h \in 0..Len(q) - 1 BY <1>2, <1>4
<1>6. Rest(q, h) \in Seq(Messages) /\ Rest(q, h) # <<>> /\ Rest(q, h)[1] = q[h + 1] BY <1>2, <1>5, RestTail
<1>7. Len(got["client"]) = IntSize => got["client"][1][1] = q[h + 1]
  BY <1>2, <1>3, <1>4, <1>6, ReadsInteger
<1>8. h < Len(q) BY <1>2, <1>4
<1> QED BY <1>4, <1>7, <1>8 DEF q, h

LEMMA ReadsCodeKeeps == ASSUME Conversation, ReadsCode PROVE Conversation'
<1> DEFINE s == "client"  c == got["client"][1][1]
<1>1. /\ pc[s] = "code" /\ Returned(s, IntSize) /\ ReadIsOver(s)
      /\ UNCHANGED <<state, streams, wire, shut, closed, reset, sent>>
      /\ pc[s] \notin Unconnected \cup {"drain", "off"}
  BY DEF ReadsCode, Unconnected
<1>2. streams' \in BOOLEAN /\ told \in Errors \cup {"none", "garbage"}
  BY <1>1 DEF Conversation, ControlTypes
<1>3. CASE ended[s] = "error"
  <2>1. Fails(s, "IECTRLREAD") /\ UNCHANGED <<told, heard>> BY <1>3 DEF ReadsCode
  <2> QED BY <1>1, <1>2, <2>1, SetsAre, ClientGivesIn DEF Fails, ClientErrors
<1>4. CASE ended[s] = "no"
  <2>1. Goes(s, "errno") /\ UNCHANGED errno /\ told' = c /\ Hears(s, <<c>>)
    BY <1>4 DEF ReadsCode
  <2>2. Len(got[s]) = IntSize BY <1>1, <1>4 DEF Returned
  <2>3. c \in Errors /\ LearnsNext(s, c) BY <1>1, <2>2, CodeFollows, SidesAre DEF LearnsNext
  <2> HIDE DEF c
  <2> QED BY <1>1, <1>2, <2>1, <2>3, SetsAre, ClientGivesIn
<1>5. CASE ended[s] \notin {"no", "error"}
  <2>1. Goes(s, "errno") /\ UNCHANGED errno /\ told' = "garbage" /\ UNCHANGED heard
    BY <1>5 DEF ReadsCode
  <2> QED BY <1>1, <1>2, <2>1, SetsAre, ClientGivesIn
<1> QED BY <1>3, <1>4, <1>5

LEMMA ReadsErrnoKeeps == ASSUME Conversation, ReadsErrno PROVE Conversation'
<1> DEFINE s == "client"  e == IF ended["client"] = "error" THEN "IECTRLREAD" ELSE told
<1>1. /\ pc[s] = "errno" /\ ReadIsOver(s) /\ Fails(s, e)
      /\ UNCHANGED <<state, streams, told, wire, shut, closed, reset, sent, heard>>
      /\ pc[s] \notin Unconnected \cup {"drain", "off"}
  BY DEF ReadsErrno, Unconnected
<1>2. streams' \in BOOLEAN /\ told \in Errors \cup {"none", "garbage"} /\ told' = told
  BY <1>1 DEF Conversation, ControlTypes
<1>3. e \in Errors \cup ClientErrors \cup {"none", "garbage"} BY <1>2 DEF ClientErrors
<1> HIDE DEF e
<1> QED BY <1>1, <1>2, <1>3, SetsAre, ClientGivesIn DEF Fails

LEMMA ClientEndsKeeps == ASSUME Conversation, ClientEnds PROVE Conversation'
<1> DEFINE s == "client"  q == sent["client"]  done == <<"IPERF_DONE">>
<1>1. /\ ChannelTypes /\ ControlTypes /\ Quiet /\ s \in Sides /\ Peer(s) = "server" /\ Prefix
      /\ ClientSays /\ ClientPlace
  BY SidesAre DEF Conversation
<1>2. PICK to \in {"drain", "off"} :
        /\ pc[s] \in {"ending", "failed"} /\ Goes(s, to)
        /\ (Shuts(s) /\ to = "drain") \/ UNCHANGED shut
        /\ UNCHANGED <<streams, told, closed, readVars, heard>>
        /\ UNCHANGED state \/ Enters(s, "IPERF_DONE")
        /\ UNCHANGED errno \/ \E e \in Errors : errno' = [errno EXCEPT ![s] = e]
        /\ UNCHANGED <<sent, wire, reset>> \/ Writes(s, done, Control("IPERF_DONE"))
  <2> HIDE DEF done
  <2>1. /\ pc[s] \in {"ending", "failed"} /\ UNCHANGED <<streams, told, closed, readVars, heard>>
        /\ \/ /\ Shuts(s) /\ Goes(s, "drain") /\ UNCHANGED errno
              /\ \/ UNCHANGED <<state, sent, wire, reset>>
                 \/ Enters(s, "IPERF_DONE") /\ Writes(s, done, Control("IPERF_DONE"))
           \/ /\ Goes(s, "off") /\ UNCHANGED shut /\ Enters(s, "IPERF_DONE")
              /\ errno' = [errno EXCEPT ![s] = "IESENDMESSAGE"] /\ UNCHANGED <<sent, wire, reset>>
    BY DEF ClientEnds, done
  <2> QED BY <2>1, SetsAre
<1>3. Adds(done, Control("IPERF_DONE")) BY AddsWritten, SetsAre
<1> HIDE DEF done
<1>4. PICK names : Acts(s, names) /\ names \in {<<>>, done}
  <2>1. CASE UNCHANGED <<sent, wire, reset>>
    <3>1. Acts(s, <<>>) BY <1>2, <2>1 DEF Acts
    <3> QED BY <3>1
  <2>2. CASE Writes(s, done, Control("IPERF_DONE"))
    <3>1. Acts(s, done) BY <1>2, <1>3, <2>2 DEF Acts
    <3> QED BY <3>1
  <2> QED BY <1>2, <2>1, <2>2
<1>5. /\ ControlTypes' /\ pc'[s] = to /\ pc'["server"] = pc["server"] /\ state'["server"] = state["server"]
  <2>1. streams' \in BOOLEAN /\ told' \in Errors \cup {"none", "garbage"} BY <1>1, <1>2 DEF ControlTypes
  <2> QED BY <1>1, <1>2, <2>1, SetsAre, TypesAfter DEF ClientPCs
<1>6. pc[s] \notin Unconnected \cup {"drain", "off"} \cup Reading BY <1>2 DEF Unconnected, Reading
<1>7. QuietAt(s)' BY <1>1, <1>2, <1>4, <1>5, <1>6, QuietStep
<1>8. OneSided(s, names) BY <1>1, <1>4, <1>5, ActsIsOneSided
<1>9. q \in Seq(Messages) /\ Len(q) \in 1..4 BY <1>1, <1>6 DEF ChannelTypes, ClientPlace
<1>10. sent'[s] \in {q, q \o <<"IPERF_DONE">>}
  <2>1. q \o <<>> = q BY <1>9, ConcatEmptySeq
  <2> QED BY <1>4, <1>8, <2>1 DEF OneSided, done
<1>11. ClientSays' /\ \A n \in 1..4 : HasAsked(n)' => HasAsked(n)
  <2>1. \A n \in 1..4 : n > 0 OBVIOUS
  <2>2. pc'[s] \in {"drain", "off"} /\ Len(q) > 0 BY <1>2, <1>5, <1>9, <2>1
  <2> QED BY <1>1, <1>6, <1>9, <1>10, <2>1, <2>2, ClientSaysDone
<1>12. ClientPlace'
  <2>1. /\ HasSaid(4) => HasSaid(4)'
        /\ HasSaid(5) => HasSaid(5)'
    <3>1. 4 \in 1..7 /\ 5 \in 1..7 OBVIOUS
    <3> QED BY <1>1, <1>8, <3>1, SaidStays DEF OneSided
  <2>2. 2 \in 1..4 /\ 3 \in 1..4 /\ 4 \in 1..4 OBVIOUS
  <2>3. /\ (HasAsked(2) => Len(heard["client"]) >= 1)'
        /\ (HasAsked(3) => Len(heard["client"]) >= 4 /\ HasSaid(4))'
        /\ (HasAsked(4) => Len(heard["client"]) >= 5 /\ HasSaid(5))'
    BY <1>1, <1>2, <1>11, <2>1, <2>2 DEF ClientPlace
  <2> QED BY <1>5, <2>3 DEF ClientPlace
<1>13. Stream(s)' BY <1>5 DEF Stream, Listening
<1>14. pc'[s] \notin Unconnected BY <1>5 DEF Unconnected
<1> QED BY <1>5, <1>7, <1>8, <1>11, <1>12, <1>13, <1>14, ClientActs

\* A step that only changes how a side's read stands, or what it has not read yet.
LEMMA ChannelReads ==
  ASSUME Conversation, NEW s \in Sides, ChannelTypes',
         pc'[Peer(s)] = pc[Peer(s)], state'[Peer(s)] = state[Peer(s)], UNCHANGED sent,
         got'[Peer(s)] = got[Peer(s)], ended'[Peer(s)] = ended[Peer(s)], wire'[Peer(s)] = wire[Peer(s)],
         heard'[Peer(s)] = heard[Peer(s)], Learns,
         Peer(s) \in closed' <=> Peer(s) \in closed, Peer(s) \in shut' <=> Peer(s) \in shut
  PROVE  OneSided(s, <<>>)
<1> DEFINE q == sent[s]
<1>1. ChannelTypes /\ Prefix /\ Stream(Peer(s)) /\ Peer(s) \in Sides BY SidesAre DEF Conversation, Streams
<1>2. Extends BY <1>1 DEF Extends, ChannelTypes
<1>3. Prefix' BY <1>1, <1>2, PrefixGrows
<1>4. Keeps(Peer(s)) BY DEF Keeps
<1>5. Stream(Peer(s))' BY <1>1, StreamStays
<1>6. q \in Seq(Messages) BY <1>1 DEF ChannelTypes
<1> HIDE DEF q
<1>7. q \o <<>> = q BY <1>6, ConcatEmptySeq
<1>8. sent'[s] = sent[s] \o <<>> BY <1>7 DEF q
<1> QED BY <1>2, <1>3, <1>4, <1>5, <1>8 DEF OneSided

\* A step in which a side stays where it is and has the same messages said and heard.
LEMMA StaysPut ==
  ASSUME Conversation, NEW s \in Sides, OneSided(s, <<>>), UNCHANGED <<pc, state, errno, told, streams, heard>>,
         QuietAt(s)', Stream(s)', pc["client"] \notin Unconnected
  PROVE  Conversation'
<1> DEFINE q == sent[s]
<1>1. q \in Seq(Messages) BY DEF Conversation, ChannelTypes
<1> HIDE DEF q
<1>2. q \o <<>> = q BY <1>1, ConcatEmptySeq
<1>3. sent'[s] = sent[s] /\ sent'[Peer(s)] = sent[Peer(s)] BY <1>2 DEF OneSided, Keeps, q
<1>4. sent'["client"] = sent["client"] /\ sent'["server"] = sent["server"] BY <1>3, SidesAre
<1>5. \A n : HasSaid(n)' <=> HasSaid(n) BY <1>4 DEF HasSaid
<1>6. \A n : HasAsked(n)' <=> HasAsked(n) BY <1>4 DEF HasAsked
<1>7. ServerSays' /\ ClientSays' BY <1>4, <1>6 DEF Conversation, ServerSays, ClientSays
<1>8. ServerPlace' BY <1>4, <1>5 DEF Conversation, ServerPlace, ServerAt
<1>9. ClientPlace' BY <1>4, <1>5, <1>6 DEF Conversation, ClientPlace, ClientAt, ToldError
<1>10. ControlTypes' BY DEF Conversation, ControlTypes
<1>11. Fresh' BY DEF Fresh
<1>12. Quiet' /\ Streams'
  <2>1. QuietAt(Peer(s))' BY SidesAre, QuietKept DEF OneSided, Conversation, Quiet
  <2> QED BY <2>1, SidesAre DEF Quiet, Streams, OneSided
<1> QED BY <1>7, <1>8, <1>9, <1>10, <1>11, <1>12 DEF Conversation, OneSided
-----------------------------------------------------------------------------
(* Steps of either side.                                                   *)

\* What comes next to a side that waits for a state is a state that it knows.
LEMMA ClientHearsNext ==
  ASSUME Conversation, pc["client"] = "select", NEW h, h = Len(heard["client"]), h < Len(sent["server"]),
         NEW m, m = sent["server"][h + 1]
  PROVE  \/ m = "SERVER_ERROR"
         \/ HasSaid(h + 1) /\ <<"handle", m, Len(sent["client"]), h + 1>> \in ClientPlaces
<1> DEFINE q == sent["server"]
<1>1. q \in Seq(Messages) /\ Len(q) \in Nat /\ WellSaid(q) /\ Len(heard["server"]) \in Nat
  BY SidesAre DEF Conversation, ChannelTypes, ServerSays
<1> DEFINE n == Len(sent["client"])
<1>2. /\ \/ (h = 0 /\ n = 1) \/ (h = 1 /\ n = 2) \/ (h = 2 /\ n = 2) \/ (h = 3 /\ n = 2)
         \/ (h = 4 /\ n = 2) \/ (h = 4 /\ n = 3) \/ (h = 6 /\ n = 4)
      /\ h > 0 => HasSaid(h)
  BY DEF Conversation, ClientPlace, ClientAt
<1> HIDE DEF n
<1>3. h \in 0..6 /\ h + 1 \in 1..Len(q) BY <1>1, <1>2
<1>4. h > 0 => Follows(ServerScript, q, h) BY <1>2 DEF HasSaid
<1>5. InPlace(q, h + 1) BY <1>1, <1>3 DEF WellSaid
<1>6. ~(m \in Errors \cup {"errno"} /\ h + 1 > 1 /\ q[(h + 1) - 1] \in Errors \cup {"SERVER_ERROR"})
  <2> SUFFICES ASSUME h + 1 > 1, q[(h + 1) - 1] \in Errors \cup {"SERVER_ERROR"} PROVE FALSE OBVIOUS
  <2>1. h \in 1..7 /\ (h + 1) - 1 = h /\ h > 0 BY <1>3
  <2>2. q[h] = ServerScript[h] BY <2>1, <1>4 DEF Follows
  <2> QED BY <2>1, <2>2, ScriptsAre
<1>7. SUFFICES ASSUME Follows(ServerScript, q, h + 1)
               PROVE  HasSaid(h + 1) /\ <<"handle", m, Len(sent["client"]), h + 1>> \in ClientPlaces
  BY <1>5, <1>6 DEF InPlace
<1>8. HasSaid(h + 1) /\ m = ServerScript[h + 1] BY <1>7 DEF HasSaid, Follows
<1>10. h = 4 => n = 3
  <2> SUFFICES ASSUME h = 4 PROVE n = 3 OBVIOUS
  <2>4. h + 1 = 5 OBVIOUS
  <2>1. HasSaid(5) BY <2>4, <1>8
  <2>2. HasSaid(5) => Len(heard["server"]) >= 3 BY DEF Conversation, ServerPlace
  <2>3. Len(heard["server"]) <= n BY SidesAre DEF Conversation, Prefix, n
  <2>5. n \in {2, 3} BY <1>2
  <2> QED BY <2>1, <2>2, <2>3, <2>5, <1>1
<1>11. /\ ServerScript[1] = "PARAM_EXCHANGE" /\ ServerScript[2] = "CREATE_STREAMS"
       /\ ServerScript[3] = "TEST_START" /\ ServerScript[4] = "TEST_RUNNING"
       /\ ServerScript[5] = "EXCHANGE_RESULTS" /\ ServerScript[7] = "DISPLAY_RESULTS"
  BY DEF ServerScript
<1>12. <<"handle", m, n, h + 1>> \in ClientPlaces
  <2>1. CASE h = 0 /\ n = 1 BY <2>1, <1>8, <1>11 DEF ClientPlaces
  <2>2. CASE h = 1 /\ n = 2 BY <2>2, <1>8, <1>11 DEF ClientPlaces
  <2>3. CASE h = 2 /\ n = 2 BY <2>3, <1>8, <1>11 DEF ClientPlaces
  <2>4. CASE h = 3 /\ n = 2 BY <2>4, <1>8, <1>11 DEF ClientPlaces
  <2>5. CASE h = 4 /\ n = 3 BY <2>5, <1>8, <1>11 DEF ClientPlaces
  <2>6. CASE h = 6 /\ n = 4 BY <2>6, <1>8, <1>11 DEF ClientPlaces
  <2> QED BY <2>1, <2>2, <2>3, <2>4, <2>5, <2>6, <1>2, <1>10
<1> QED BY <1>8, <1>12 DEF n

LEMMA ServerHearsNext ==
  ASSUME Conversation, pc["server"] = "select", NEW h, h = Len(heard["server"]), h < Len(sent["client"]),
         NEW m, m = sent["client"][h + 1]
  PROVE  m = "IPERF_DONE" \/ (m = "TEST_END" /\ ServerAt("TEST_RUNNING", 4, 2))
<1> DEFINE q == sent["client"]
<1>1. q \in Seq(Messages) /\ Len(q) \in Nat BY SidesAre DEF Conversation, ChannelTypes
<1>2. \/ ServerAt("CREATE_STREAMS", 2, 2) \/ ServerAt("TEST_RUNNING", 4, 2)
      \/ ServerAt("DISPLAY_RESULTS", 7, 4)
  BY DEF Conversation, ServerPlace
<1>3. h \in {2, 4} BY <1>2 DEF ServerAt
<1>4. h + 1 \in 1..Len(q) BY <1>1, <1>3
<1>5. HasAsked(h + 1) \/ m = "IPERF_DONE" BY <1>4 DEF Conversation, ClientSays
<1>6. ~HasAsked(5) BY ScriptsAre DEF HasAsked, Follows
<1>7. CASE h = 2
  <2>1. h + 1 = 3 /\ m = q[3] BY <1>7
  <2>2. CASE HasAsked(3)
    <3>1. m = "TEST_END" BY <2>1, <2>2 DEF HasAsked, Follows, ClientScript
    <3>2. HasSaid(4) BY <2>2 DEF Conversation, ClientPlace
    <3>3. ~ServerAt("CREATE_STREAMS", 2, 2) BY <3>2 DEF HasSaid, Follows, ServerAt
    <3>4. ~ServerAt("DISPLAY_RESULTS", 7, 4) BY <1>7 DEF ServerAt
    <3> QED BY <1>2, <3>1, <3>3, <3>4
  <2> QED BY <1>5, <2>1, <2>2
<1>8. CASE h = 4
  <2>1. h + 1 = 5 BY <1>8
  <2> QED BY <1>5, <1>6, <2>1
<1> QED BY <1>3, <1>7, <1>8

\* A side gets a state, or learns that none comes.
GetsState(s) ==
  /\ wire[s] # <<>> /\ wire' = [wire EXCEPT ![s] = Tail(wire[s])] /\ Enters(s, Head(wire[s])[1])
  /\ Hears(s, <<Head(wire[s])[1]>>) /\ Goes(s, "handle") /\ UNCHANGED errno

GetsNone(s) ==
  /\ \/ AtEnd(s) /\ Fails(s, "IECTRLCLOSE")
     \/ s \in reset /\ Fails(s, "IERECVMESSAGE")
  /\ UNCHANGED <<wire, state, heard>>

LEMMA GetsIt ==
  ASSUME NEW s \in Sides, ReadsState(s)
  PROVE  /\ GetsState(s) \/ GetsNone(s)
         /\ pc[s] = "select" /\ UNCHANGED <<streams, told, shut, closed, reset, readVars, sent>>
<1>1. ASSUME wire' = [wire EXCEPT ![s] = Tail(@)] PROVE wire' = [wire EXCEPT ![s] = Tail(wire[s])]
  BY <1>1
<1> QED BY <1>1 DEF ReadsState, GetsState, GetsNone

LEMMA ReadsOneState ==
  ASSUME Conversation, NEW s \in Sides, ReadsState(s), GetsState(s),
         Len(heard[s]) < Len(sent[Peer(s)]) => sent[Peer(s)][Len(heard[s]) + 1] \in States
  PROVE  /\ Len(heard[s]) < Len(sent[Peer(s)]) /\ OneSided(s, <<>>) /\ ControlTypes'
         /\ pc'[s] = "handle" /\ state'[s] = sent[Peer(s)][Len(heard[s]) + 1]
         /\ Len(heard'[s]) = Len(heard[s]) + 1 /\ sent' = sent /\ QuietAt(s)' /\ Stream(s)'
<1> DEFINE m == sent[Peer(s)][Len(heard[s]) + 1]
<1>1. /\ ChannelTypes /\ ControlTypes /\ Quiet /\ Prefix /\ Stream(s) /\ Peer(s) \in Sides /\ Peer(s) # s
  BY SidesAre DEF Conversation, Streams
<1>2. /\ pc[s] = "select" /\ wire[s] # <<>>
      /\ wire' = [wire EXCEPT ![s] = Tail(wire[s])] /\ Enters(s, Head(wire[s])[1])
      /\ Hears(s, <<Head(wire[s])[1]>>) /\ Goes(s, "handle") /\ UNCHANGED errno
      /\ UNCHANGED <<streams, told, shut, closed, reset, readVars, sent>>
  BY GetsIt DEF GetsState
<1>3. /\ Len(heard[s]) < Len(sent[Peer(s)]) /\ m \in States /\ Head(wire[s]) = <<m, 1>>
      /\ LearnsNext(s, m) /\ Coded(Tail(wire[s]), Rest(sent[Peer(s)], Len(heard[s]) + 1))
  BY <1>1, <1>2, HearsState
<1> HIDE DEF m
<1>4. Head(wire[s])[1] = m BY <1>3
<1>5. m \in Messages BY <1>3, MessageKinds
<1>6. /\ ControlTypes' /\ pc'[s] = "handle" /\ pc'[Peer(s)] = pc[Peer(s)] /\ state'[Peer(s)] = state[Peer(s)]
      /\ state'[s] = m
  <2>1. streams' \in BOOLEAN /\ told' \in Errors \cup {"none", "garbage"} BY <1>1, <1>2 DEF ControlTypes
  <2> QED BY <1>1, <1>2, <1>3, <1>4, <2>1, TypesAfter DEF ClientPCs, ServerPCs
<1>7. /\ Tail(wire[s]) \in Seq(Byte) /\ wire' \in [Sides -> Seq(Byte)] /\ wire'[s] = Tail(wire[s])
      /\ wire'[Peer(s)] = wire[Peer(s)]
  <2> DEFINE w == wire[s]
  <2>1. w \in Seq(Byte) /\ w # <<>> BY <1>1, <1>2 DEF ChannelTypes
  <2> HIDE DEF w
  <2>2. Tail(w) \in Seq(Byte) BY <2>1, HeadTailProperties
  <2>3. wire' = [wire EXCEPT ![s] = Tail(w)] BY <1>2 DEF w
  <2> QED BY <1>1, <2>2, <2>3 DEF ChannelTypes, w
<1>8. /\ heard' \in [Sides -> Seq(Messages)] /\ heard'[Peer(s)] = heard[Peer(s)] /\ Learns
      /\ Len(heard'[s]) = Len(heard[s]) + 1
  <2> DEFINE h == heard[s]  k == h \o <<m>>
  <2>1. h \in Seq(Messages) BY <1>1 DEF ChannelTypes
  <2> HIDE DEF h
  <2>2. k = Append(h, m) BY <2>1, <1>5, AppendIsConcat
  <2>3. k \in Seq(Messages) /\ Len(k) = Len(h) + 1 /\ k[Len(h) + 1] = m /\ \A i \in 1..Len(h) : k[i] = h[i]
    BY <2>1, <2>2, <1>5, AppendProperties
  <2> HIDE DEF k
  <2>4. heard' = [heard EXCEPT ![s] = k] BY <1>2, <1>4 DEF Hears, h, k
  <2>5. heard' \in [Sides -> Seq(Messages)] /\ heard'[Peer(s)] = heard[Peer(s)] /\ heard'[s] = k
    BY <1>1, <2>3, <2>4 DEF ChannelTypes
  <2>6. Sides = {s, Peer(s)} BY SidesAre
  <2> QED BY <2>3, <2>5, <2>6, <1>3 DEF Learns, h
<1>9. ChannelTypes' BY <1>1, <1>2, <1>7, <1>8 DEF ChannelTypes, readVars
<1>10. OneSided(s, <<>>) BY <1>2, <1>6, <1>7, <1>8, <1>9, ChannelReads DEF readVars
<1>11. got[s] = <<>> /\ ended[s] = "no" BY <1>1, <1>2, NothingRead DEF Reading
<1>12. QuietAt(s)'
  <2>1. Len(got'[s]) = 0 /\ ended'[s] = "no" BY <1>2, <1>11 DEF readVars
  <2>2. s \notin closed' /\ s \notin shut' BY <1>1, <1>2 DEF Quiet, QuietAt
  <2>3. Wanted(s)' \in Nat BY WantedIs
  <2> QED BY <2>1, <2>2, <2>3 DEF QuietAt
<1>13. Stream(s)'
  <2>1. got'[s] = <<>> /\ sent'[Peer(s)] = sent[Peer(s)] BY <1>2, <1>11 DEF readVars
  <2>2. Coded(wire'[s], Rest(sent[Peer(s)], Len(heard[s]) + 1)) /\ wire'[s] \in Seq(Byte) BY <1>3, <1>7
  <2>3. Hears(s, <<m>>) BY <1>2, <1>4
  <2> QED BY <1>1, <1>5, <2>1, <2>2, <2>3, StreamHeard
<1> QED BY <1>2, <1>3, <1>6, <1>8, <1>10, <1>12, <1>13 DEF m

LEMMA ClientReadsState == ASSUME Conversation, ReadsState("client") PROVE Conversation'
<1> DEFINE s == "client"  h == Len(heard["client"])  m == sent["server"][h + 1]
<1>1. pc[s] = "select" /\ UNCHANGED <<streams, told, shut, closed, reset, readVars, sent>> BY SidesAre, GetsIt
<1>2. /\ ChannelTypes /\ ControlTypes /\ s \in Sides /\ Peer(s) = "server" BY SidesAre DEF Conversation
<1>3. pc[s] \notin Unconnected \cup {"drain", "off"} \cup Reading BY <1>1 DEF Unconnected, Reading
<1>4. CASE GetsState(s)
  <2>1. h < Len(sent["server"]) => m = "SERVER_ERROR" \/ (HasSaid(h + 1) /\ <<"handle", m, Len(sent[s]), h + 1>> \in ClientPlaces)
    BY <1>1, ClientHearsNext
  <2>2. h < Len(sent["server"]) => m \in States BY <2>1, SetsAre DEF ClientPlaces
  <2>3. /\ h < Len(sent["server"]) /\ OneSided(s, <<>>) /\ ControlTypes'
        /\ pc'[s] = "handle" /\ state'[s] = m
        /\ Len(heard'[s]) = h + 1 /\ sent' = sent /\ QuietAt(s)' /\ Stream(s)'
    BY <1>2, <1>4, <2>2, ReadsOneState
  <2>4. h \in Nat /\ Len(sent["server"]) \in Nat BY <1>2, SidesAre DEF ChannelTypes
  <2> HIDE DEF m, h
  <2>5. CASE m = "SERVER_ERROR"
    <3>1. ToldError'
      <4>1. Len(heard'[s]) \in 1..Len(sent'["server"]) BY <2>3, <2>4
      <4>2. sent'["server"][Len(heard'[s])] = "SERVER_ERROR" BY <2>3, <2>5 DEF m
      <4> QED BY <4>1, <4>2, <2>3, <2>5 DEF ToldError
    <3>2. Len(heard'[s]) >= Len(heard[s]) BY <2>3, <2>4 DEF h
    <3> QED BY <1>3, <2>3, <3>1, <3>2, ClientLoses
  <2>6. CASE HasSaid(h + 1) /\ <<"handle", m, Len(sent[s]), h + 1>> \in ClientPlaces
    <3>1. ClientIn("handle", m, Len(sent[s]), h + 1) BY <2>3, <2>6 DEF ClientIn
    <3> QED BY <1>3, <2>3, <2>6, <3>1, ClientArrives
  <2> QED BY <2>1, <2>3, <2>5, <2>6
<1>5. CASE GetsNone(s)
  <2>1. /\ UNCHANGED <<wire, state, heard>> /\ \E e \in Errors : Fails(s, e)
    BY <1>5, SetsAre DEF GetsNone
  <2>2. streams' \in BOOLEAN /\ told' \in Errors \cup {"none", "garbage"} BY <1>1, <1>2 DEF ControlTypes
  <2> QED BY <1>1, <1>3, <2>1, <2>2, SetsAre, ClientGivesIn DEF Fails
<1> QED BY <1>4, <1>5, SidesAre, GetsIt

LEMMA ServerReadsState == ASSUME Conversation, ReadsState("server") PROVE Conversation'
<1> DEFINE s == "server"  h == Len(heard["server"])  m == sent["client"][h + 1]
<1>1. pc[s] = "select" /\ UNCHANGED <<streams, told, shut, closed, reset, readVars, sent>> BY SidesAre, GetsIt
<1>2. /\ ChannelTypes /\ ControlTypes /\ s \in Sides /\ Peer(s) = "client" BY SidesAre DEF Conversation
<1>3. pc[s] \notin Unconnected \cup {"off"} /\ pc[s] \in Listening BY <1>1 DEF Unconnected, Listening
<1>4. CASE GetsState(s)
  <2>1. h < Len(sent["client"]) => m = "IPERF_DONE" \/ (m = "TEST_END" /\ ServerAt("TEST_RUNNING", 4, 2))
    BY <1>1, ServerHearsNext
  <2>2. h < Len(sent["client"]) => m \in States BY <2>1, SetsAre
  <2>3. /\ h < Len(sent["client"]) /\ OneSided(s, <<>>) /\ ControlTypes'
        /\ pc'[s] = "handle" /\ state'[s] = m
        /\ Len(heard'[s]) = h + 1 /\ sent' = sent /\ QuietAt(s)' /\ Stream(s)'
    BY <1>2, <1>4, <2>2, ReadsOneState
  <2>4. h \in Nat BY <1>2, SidesAre DEF ChannelTypes
  <2> HIDE DEF m
  <2>5. \A n : HasSaid(n)' <=> HasSaid(n) BY <2>3 DEF HasSaid
  <2>6. ServerSays' BY <2>3 DEF ServerSays, Conversation
  <2>7. m = "TEST_END" /\ ServerAt("TEST_RUNNING", 4, 2) => ServerAt("TEST_END", 4, 3)'
    BY <2>3, <2>5 DEF ServerAt
  <2>8. ServerPlace'
    <3>1. /\ (HasSaid(1) => Len(heard["server"]) >= 1)'
          /\ (HasSaid(2) => Len(heard["server"]) >= 2)'
          /\ (HasSaid(5) => Len(heard["server"]) >= 3)'
          /\ (HasSaid(6) => Len(heard["server"]) >= 4)'
      BY <2>3, <2>4, <2>5 DEF Conversation, ServerPlace
    <3> QED BY <2>1, <2>3, <2>7, <3>1 DEF ServerPlace
  <2> QED BY <1>3, <2>3, <2>6, <2>8, ServerActs
<1>5. CASE GetsNone(s)
  <2>1. /\ UNCHANGED <<wire, state, heard>> /\ \E e \in Errors : Fails(s, e)
    BY <1>5, SetsAre DEF GetsNone
  <2>2. NoRead(s) BY <1>1, <2>1 DEF NoRead, Reading
  <2> QED BY <1>1, <1>3, <2>1, <2>2, SetsAre, ServerGivesIn
<1> QED BY <1>4, <1>5, SidesAre, GetsIt

\* Nread takes some of what has come, or returns early.
LEMMA NreadKeeps ==
  ASSUME Conversation, NEW s \in Sides, Nread(s), UNCHANGED <<pc, state, streams, errno, told>>
  PROVE  Conversation'
<1> DEFINE g == got[s]  w == wire[s]
<1>1. /\ ChannelTypes /\ Quiet /\ Stream(s) /\ Fresh /\ Peer(s) \in Sides /\ Peer(s) # s
      /\ g \in Seq(Byte) /\ w \in Seq(Byte) /\ Len(g) \in Nat /\ Len(w) \in Nat
  BY SidesAre DEF Conversation, Streams, ChannelTypes
<1>2. /\ Receives(s, Wanted(s)) \/ ReturnsEarly(s, Wanted(s))
      /\ Len(g) < Wanted(s) /\ UNCHANGED <<shut, closed, reset, sent, heard>>
  BY DEF Nread, Receives, ReturnsEarly
<1>3. pc[s] \in Reading /\ Wanted(s) \in Nat BY <1>1, <1>2, WantedIs
<1>4. pc["client"] \notin Unconnected
  BY <1>1, <1>3, SidesAre DEF Fresh, Unconnected, Reading
<1>5. Wanted(s)' = Wanted(s) BY DEF Wanted
<1>6. Learns BY DEF Learns, Nread, Receives, ReturnsEarly
<1>7. CASE Receives(s, Wanted(s))
  <2>1. PICK n \in 1..Wanted(s) - Len(g) :
          /\ n <= Len(w) /\ got' = [got EXCEPT ![s] = g \o SubSeq(w, 1, n)]
          /\ wire' = [wire EXCEPT ![s] = SubSeq(w, n + 1, Len(w))]
    BY <1>7 DEF Receives
  <2> DEFINE a == SubSeq(w, 1, n)  b == SubSeq(w, n + 1, Len(w))
  <2>2. n \in Nat /\ n >= 1 /\ Len(g) + n <= Wanted(s) BY <2>1, <1>1, <1>3
  <2> HIDE DEF g, w
  <2>3. a \in Seq(Byte) /\ Len(a) = n /\ b \in Seq(Byte)
    <3>1. \A i \in 1..Len(w) : w[i] \in Byte BY <1>1
    <3>2. \A i \in 1..n : w[i] \in Byte BY <2>1, <2>2, <3>1, <1>1
    <3>3. \A i \in n + 1..Len(w) : w[i] \in Byte BY <2>2, <3>1, <1>1
    <3>4. a \in Seq(Byte) /\ Len(a) = IF 1 <= n THEN n - 1 + 1 ELSE 0
      BY <2>2, <3>2, SubSeqProperties
    <3>5. b \in Seq(Byte) BY <2>2, <3>3, <1>1, SubSeqProperties
    <3> QED BY <3>4, <3>5, <2>2
  <2>4. a \o b = w
    <3>1. n \in 0..Len(w) /\ Len(w) \in n..Len(w) /\ 1 \in 1..Len(w) + 1 /\ n \in (1 - 1)..Len(w)
      BY <2>1, <2>2, <1>1
    <3>2. SubSeq(w, 1, n) \o SubSeq(w, n + 1, Len(w)) = SubSeq(w, 1, Len(w))
      BY <3>1, <1>1, ConcatAdjacentSubSeq
    <3> QED BY <3>2, <1>1, SubSeqFull
  <2> HIDE DEF a, b
  <2>5. (g \o a) \o b = g \o w
    <3>1. (g \o a) \o b = g \o (a \o b) BY <1>1, <2>3, Joined
    <3> QED BY <3>1, <2>4
  <2>6. g \o a \in Seq(Byte) /\ Len(g \o a) = Len(g) + n BY <1>1, <2>3, ConcatProperties
  <2>7. got' = [got EXCEPT ![s] = g \o a] /\ wire' = [wire EXCEPT ![s] = b] BY <2>1 DEF a, b
  <2>8. /\ got' \in [Sides -> Seq(Byte)] /\ got'[s] = g \o a /\ got'[Peer(s)] = got[Peer(s)]
        /\ wire' \in [Sides -> Seq(Byte)] /\ wire'[s] = b /\ wire'[Peer(s)] = wire[Peer(s)]
    BY <1>1, <2>3, <2>6, <2>7 DEF ChannelTypes
  <2>9. UNCHANGED <<ended, late>> /\ ended[s] = "no" BY <1>7 DEF Receives
  <2>10. ChannelTypes' BY <1>1, <1>2, <2>8, <2>9 DEF ChannelTypes
  <2>11. OneSided(s, <<>>) BY <1>2, <1>6, <2>8, <2>9, <2>10, ChannelReads
  <2>12. QuietAt(s)'
    <3>1. Len(got'[s]) <= Wanted(s)' BY <1>5, <2>2, <2>6, <2>8
    <3> QED BY <3>1, <1>1, <1>2, <2>9 DEF Quiet, QuietAt
  <2>13. Stream(s)'
    <3>1. got'[s] \o wire'[s] = got[s] \o wire[s] BY <2>5, <2>8 DEF g, w
    <3> QED BY <3>1, <1>1, <1>2 DEF Stream
  <2> QED BY <1>2, <1>4, <2>11, <2>12, <2>13, StaysPut
<1>8. CASE ReturnsEarly(s, Wanted(s))
  <2>1. UNCHANGED <<wire, got>> BY <1>8 DEF ReturnsEarly
  <2>2. /\ ended' \in [Sides -> {"no", "short", "error"}] /\ ended'[Peer(s)] = ended[Peer(s)]
    BY <1>1, <1>8 DEF ReturnsEarly, ChannelTypes
  <2>3. late' \in BOOLEAN BY <1>1, <1>8 DEF ReturnsEarly, ChannelTypes
  <2>4. ChannelTypes' BY <1>1, <1>2, <2>1, <2>2, <2>3 DEF ChannelTypes
  <2>5. OneSided(s, <<>>) BY <1>2, <1>6, <2>1, <2>2, <2>4, ChannelReads
  <2>6. QuietAt(s)' BY <1>1, <1>2, <1>3, <1>5, <2>1 DEF Quiet, QuietAt
  <2>7. Stream(s)' BY <1>1, <1>2, <2>1 DEF Stream
  <2> QED BY <1>2, <1>4, <2>5, <2>6, <2>7, StaysPut
<1> QED BY <1>2, <1>7, <1>8

\* A side that drains its socket and closes it.
LEMMA ClosingKeeps ==
  ASSUME Conversation, NEW s \in Sides, pc[s] \notin Reading \cup Unconnected \cup {"off"},
         pc["client"] \notin Unconnected, ClosesSocket(s), late' \in BOOLEAN, Goes(s, "off"),
         UNCHANGED errno \/ \E e \in Errors : errno' = [errno EXCEPT ![s] = e],
         UNCHANGED <<state, streams, told>>
  PROVE  Conversation'
<1>1. /\ ChannelTypes /\ ControlTypes /\ Quiet /\ Peer(s) \in Sides /\ Peer(s) # s
  BY SidesAre DEF Conversation
<1>2. UNCHANGED <<sent, heard, got, ended>> /\ Learns BY DEF ClosesSocket, Learns
<1>3. wire' \in [Sides -> Seq(Byte)] /\ wire'[Peer(s)] = wire[Peer(s)]
  <2>1. <<>> \in Seq(Byte) /\ wire' = [wire EXCEPT ![s] = <<>>] BY DEF ClosesSocket
  <2> QED BY <1>1, <2>1 DEF ChannelTypes
<1>4. /\ closed' = closed \cup {s} /\ shut' = shut \cup {s} /\ reset' \in {reset, reset \cup {Peer(s)}}
  BY DEF ClosesSocket
<1>5. ChannelTypes' BY <1>1, <1>2, <1>3, <1>4 DEF ChannelTypes
<1>6. ControlTypes' /\ pc'[s] = "off" /\ pc'[Peer(s)] = pc[Peer(s)]
  <2>1. streams' \in BOOLEAN /\ told' \in Errors \cup {"none", "garbage"} BY <1>1 DEF ControlTypes
  <2>2. "off" \in ClientPCs /\ "off" \in ServerPCs BY DEF ClientPCs, ServerPCs
  <2> QED BY <1>1, <2>1, <2>2, SetsAre, TypesAfter
<1>7. OneSided(s, <<>>) BY <1>1, <1>2, <1>3, <1>4, <1>5, <1>6, ChannelReads
<1>8. QuietAt(s)'
  <2>1. got[s] = <<>> /\ ended[s] = "no" BY <1>1, NothingRead
  <2>2. Len(got'[s]) = 0 /\ Wanted(s)' \in Nat BY <1>2, <2>1, WantedIs
  <2> QED BY <1>2, <1>6, <2>1, <2>2 DEF QuietAt
<1>9. Stream(s)' BY <1>6 DEF Stream, Listening
<1>10. \A n : (HasSaid(n)' <=> HasSaid(n)) /\ (HasAsked(n)' <=> HasAsked(n)) BY <1>2 DEF HasSaid, HasAsked
<1>11. CASE s = "client"
  <2>1. ClientSays' BY <1>2, <1>6, <1>10, <1>11 DEF Conversation, ClientSays
  <2>2. ClientPlace' BY <1>2, <1>6, <1>10, <1>11 DEF Conversation, ClientPlace, Unconnected
  <2>3. pc'["client"] \notin Unconnected BY <1>6, <1>11 DEF Unconnected
  <2> QED BY <1>6, <1>7, <1>8, <1>9, <1>11, <2>1, <2>2, <2>3, ClientActs
<1>12. CASE s = "server"
  <2>1. ServerSays' BY <1>2 DEF Conversation, ServerSays
  <2>2. ServerPlace' BY <1>2, <1>6, <1>10, <1>12 DEF Conversation, ServerPlace
  <2> QED BY <1>6, <1>7, <1>8, <1>9, <1>12, <2>1, <2>2, ServerActs
<1> QED BY <1>11, <1>12, SidesAre

LEMMA SyncCloseKeeps == ASSUME Conversation, NEW s \in Sides, SyncClose(s) PROVE Conversation'
<1>1. /\ ChannelTypes /\ Quiet /\ Fresh /\ Peer(s) \in Sides /\ Peer(s) # s
  BY SidesAre DEF Conversation
<1>2. pc[s] = "drain" /\ UNCHANGED <<state, streams, errno, told>> BY DEF SyncClose
<1>3. pc["client"] \notin Unconnected BY <1>1, <1>2, SidesAre DEF Fresh, Unconnected
<1>4. CASE Drains(s) /\ UNCHANGED pc
  <2>1. UNCHANGED <<sent, heard, got, ended, shut, closed, reset, late>> BY <1>4 DEF Drains, readVars
  <2>2. wire' \in [Sides -> Seq(Byte)] /\ wire'[Peer(s)] = wire[Peer(s)]
    <3>1. <<>> \in Seq(Byte) /\ wire' = [wire EXCEPT ![s] = <<>>] BY <1>4 DEF Drains
    <3> QED BY <1>1, <3>1 DEF ChannelTypes
  <2>3. ChannelTypes' /\ Learns BY <1>1, <2>1, <2>2 DEF ChannelTypes, Learns
  <2>4. OneSided(s, <<>>) BY <1>2, <1>4, <2>1, <2>2, <2>3, ChannelReads
  <2>5. Wanted(s)' = Wanted(s) BY <1>4 DEF Wanted
  <2>6. QuietAt(s)' BY <1>1, <1>4, <2>1, <2>5 DEF Quiet, QuietAt
  <2>7. Stream(s)' BY <1>2, <1>4 DEF Stream, Listening
  <2> QED BY <1>2, <1>3, <1>4, <2>1, <2>4, <2>6, <2>7, StaysPut
<1>5. CASE Closes(s) /\ Goes(s, "off")
  <2>1. ClosesSocket(s) BY <1>5 DEF Closes
  <2>2. late' \in BOOLEAN BY <1>1, <1>5 DEF Closes, ChannelTypes
  <2>3. pc[s] \notin Reading \cup Unconnected \cup {"off"} BY <1>2 DEF Reading, Unconnected
  <2> QED BY <1>2, <1>3, <1>5, <2>1, <2>2, <2>3, ClosingKeeps
<1> QED BY <1>4, <1>5 DEF SyncClose

LEMMA ClosesExpiredKeeps == ASSUME Conversation, ClosesExpired PROVE Conversation'
<1>1. /\ pc["server"] = "expired" /\ ClosesSocket("server") /\ late' = late /\ Goes("server", "off")
      /\ errno' = [errno EXCEPT !["server"] = "IESELECT"] /\ UNCHANGED <<state, streams, told>>
  BY DEF ClosesExpired
<1>2. pc["server"] \notin Reading \cup Unconnected \cup {"off"} BY <1>1 DEF Reading, Unconnected
<1>3. pc["client"] \notin Unconnected BY <1>1 DEF Conversation, Fresh, Unconnected
<1>4. late' \in BOOLEAN BY <1>1 DEF Conversation, ChannelTypes
<1> QED BY <1>1, <1>2, <1>3, <1>4, SidesAre, SetsAre, ClosingKeeps

\* The path breaks.
LEMMA BreaksKeeps == ASSUME Conversation, Breaks PROVE Conversation'
<1> DEFINE s == "client"
<1>1. /\ ChannelTypes /\ Quiet /\ Streams /\ s \in Sides /\ Peer(s) \in Sides
  BY SidesAre DEF Conversation
<1>2. /\ pc[s] \notin Unconnected /\ reset' \subseteq Sides /\ late' \in BOOLEAN
      /\ UNCHANGED <<pc, state, streams, errno, told, wire, shut, closed, got, ended, sent, heard>>
  BY DEF Breaks, Unconnected
<1>3. ChannelTypes' /\ Learns BY <1>1, <1>2 DEF ChannelTypes, Learns
<1>4. OneSided(s, <<>>) BY <1>1, <1>2, <1>3, ChannelReads
<1>5. Wanted(s)' = Wanted(s) BY <1>2 DEF Wanted
<1>6. QuietAt(s)' /\ Stream(s)' BY <1>1, <1>2, <1>5 DEF Quiet, QuietAt, Streams, Stream
<1> QED BY <1>1, <1>2, <1>4, <1>6, StaysPut
-----------------------------------------------------------------------------
(* The setup and the connection.                                           *)

\* A step of the setup changes nothing but where a side is, if that.
LEMMA SetupKeeps ==
  ASSUME Conversation, NEW s \in Sides, pc[s] = "options",
         UNCHANGED pc \/ \E to \in {"ready", "off"} : Goes(s, to),
         UNCHANGED <<state, streams, errno, told, channelVars>>
  PROVE  Conversation'
<1>1. /\ ChannelTypes /\ ControlTypes /\ Quiet /\ Fresh /\ ServerSays /\ ClientSays
      /\ ServerPlace /\ ClientPlace /\ Prefix /\ Streams
  BY DEF Conversation
<1>2. UNCHANGED <<wire, shut, closed, reset, got, ended, late, sent, heard>> BY DEF channelVars
<1>3. /\ pc' \in [Sides -> ClientPCs \cup ServerPCs] /\ pc'[s] \in {"options", "ready", "off"}
      /\ pc'[Peer(s)] = pc[Peer(s)] /\ pc'["client"] \in ClientPCs /\ pc'["server"] \in ServerPCs
  <2>1. CASE UNCHANGED pc BY <1>1, <2>1 DEF ControlTypes
  <2>2. CASE \E to \in {"ready", "off"} : Goes(s, to)
    BY <1>1, <2>2, SidesAre DEF Goes, ControlTypes, ClientPCs, ServerPCs
  <2> QED BY <2>1, <2>2
<1>4. ChannelTypes' /\ ControlTypes' /\ ServerSays' /\ Prefix'
  BY <1>1, <1>2, <1>3 DEF ChannelTypes, ControlTypes, ServerSays, Prefix
<1>5. \A n : (HasSaid(n)' <=> HasSaid(n)) /\ (HasAsked(n)' <=> HasAsked(n)) BY <1>2 DEF HasSaid, HasAsked
<1>6. s = "client" => sent["client"] = <<>> /\ sent["server"] = <<>>
  BY <1>1, SidesAre DEF Fresh, Unconnected
<1>7. ClientSays'
  <2>1. CASE s = "client"
    <3>1. 1..Len(sent'["client"]) = {} BY <1>2, <1>6, <2>1
    <3> QED BY <3>1 DEF ClientSays
  <2>2. CASE s = "server" BY <1>1, <1>2, <1>3, <1>5, <2>2, SidesAre DEF ClientSays
  <2> QED BY <2>1, <2>2, SidesAre
<1>8. ServerPlace'
  <2>1. \A st, n, h : ServerAt(st, n, h)' <=> ServerAt(st, n, h) BY <1>2, <1>5 DEF ServerAt
  <2>2. CASE s = "client"
    BY <1>1, <1>2, <1>3, <1>5, <2>1, <2>2, SidesAre DEF ServerPlace
  <2>3. CASE s = "server" BY <1>1, <1>2, <1>3, <1>5, <2>1, <2>3 DEF ServerPlace
  <2> QED BY <2>2, <2>3, SidesAre
<1>9. ClientPlace'
  <2>1. \A st, n, h : ClientAt(st, n, h)' <=> ClientAt(st, n, h) BY <1>2, <1>5 DEF ClientAt
  <2>2. ToldError' <=> ToldError BY <1>2 DEF ToldError
  <2>3. CASE s = "client" BY <1>1, <1>2, <1>3, <1>5, <2>3 DEF ClientPlace, Unconnected
  <2>4. CASE s = "server"
    BY <1>1, <1>2, <1>3, <1>5, <2>1, <2>2, <2>4, SidesAre DEF ClientPlace
  <2> QED BY <2>3, <2>4, SidesAre
<1>10. Quiet'
  <2>1. Wanted(Peer(s))' = Wanted(Peer(s)) BY <1>3 DEF Wanted
  <2>2. QuietAt(Peer(s))' BY <1>1, <1>2, <1>3, <2>1, SidesAre DEF Quiet, QuietAt
  <2>3. got[s] = <<>> /\ ended[s] = "no" BY <1>1, NothingRead DEF Reading
  <2>4. s \notin closed /\ s \notin shut BY <1>1 DEF Quiet, QuietAt
  <2>5. Len(got'[s]) = 0 /\ Wanted(s)' \in Nat BY <1>2, <2>3, WantedIs
  <2>6. QuietAt(s)' BY <1>2, <2>3, <2>4, <2>5 DEF QuietAt
  <2> QED BY <2>2, <2>6, SidesAre DEF Quiet
<1>11. Fresh'
  <2>1. CASE s = "client" BY <1>1, <1>2, <1>3, <2>1, SidesAre DEF Fresh, Unconnected
  <2>2. CASE s = "server" BY <1>1, <1>2, <1>3, <2>2, SidesAre DEF Fresh, Unconnected
  <2> QED BY <2>1, <2>2, SidesAre
<1>12. Streams'
  <2>1. Stream(s)' BY <1>3 DEF Stream, Listening
  <2>2. Stream(Peer(s))' BY <1>1, <1>2, <1>3, SidesAre DEF Streams, Stream
  <2> QED BY <2>1, <2>2, SidesAre DEF Streams
<1> QED BY <1>4, <1>7, <1>8, <1>9, <1>10, <1>11, <1>12 DEF Conversation

\* The cookie is the first that is said.
LEMMA ConnectsKeeps == ASSUME Conversation, Connects PROVE Conversation'
<1>1. /\ ChannelTypes /\ ControlTypes /\ Quiet /\ Fresh BY DEF Conversation
<1>2. /\ pc' = [client |-> "select", server |-> "cookie"] /\ pc["client"] = "ready" /\ pc["server"] = "ready"
      /\ Writes("client", <<"cookie">>, Integer("cookie"))
      /\ UNCHANGED <<state, streams, errno, told, shut, closed, got, ended, late, heard>>
  BY SidesAre DEF Connects, readVars
<1>3. /\ \A s \in Sides : sent[s] = <<>> /\ heard[s] = <<>> /\ wire[s] = <<>> /\ got[s] = <<>>
      /\ closed = {} /\ state = [s \in Sides |-> "none"]
  BY <1>1, <1>2 DEF Fresh, Unconnected
<1> DEFINE said == <<"cookie">>  bytes == Integer("cookie")
<1>4. /\ said \in Seq(Messages) /\ bytes \in Seq(Byte) /\ Coded(bytes, said)
  <2>1. Adds(said, bytes) BY AddsWritten
  <2> HIDE DEF said, bytes
  <2>2. said \in Seq(Messages) /\ bytes \in Seq(Byte) BY <2>1 DEF Adds
  <2>3. Rest(<<>>, 0) = <<>> /\ Rest(said, 0) = said
    <3>1. Rest(<<>>, 0) = <<>> BY SubSeqEmpty DEF Rest
    <3>2. 0 + 1 = 1 OBVIOUS
    <3>3. Rest(said, 0) = said BY <2>2, <3>2, SubSeqFull DEF Rest
    <3> QED BY <3>1, <3>3
  <2>4. <<>> \in Seq(Byte) /\ <<>> \in Seq(Messages) /\ 0 \in 0..Len(<<>>) OBVIOUS
  <2>5. Coded(<<>>, Rest(<<>>, 0)) BY <2>3, CodedNothing
  <2>6. Coded(<<>> \o bytes, Rest(<<>> \o said, 0)) BY <2>1, <2>4, <2>5 DEF Adds
  <2>7. <<>> \o bytes = bytes /\ <<>> \o said = said BY <2>2, ConcatEmptySeq
  <2> QED BY <2>2, <2>3, <2>6, <2>7
<1>5. Len(said) = 1 /\ said[1] = "cookie" OBVIOUS
<1> HIDE DEF said, bytes
<1>6. /\ sent' = [sent EXCEPT !["client"] = sent["client"] \o said] /\ reset' = reset
      /\ wire' = [wire EXCEPT !["server"] = wire["server"] \o bytes]
  BY <1>2, <1>3, SidesAre DEF Writes, said, bytes
<1>7. /\ sent["client"] \o said = said /\ wire["server"] \o bytes = bytes
  BY <1>3, <1>4, SidesAre, ConcatEmptySeq
<1>8. /\ sent' \in [Sides -> Seq(Messages)] /\ sent'["client"] = said /\ sent'["server"] = <<>>
      /\ wire' \in [Sides -> Seq(Byte)] /\ wire'["server"] = bytes /\ wire'["client"] = <<>>
      /\ heard'["client"] = <<>> /\ heard'["server"] = <<>> /\ got'["client"] = <<>> /\ got'["server"] = <<>>
  BY <1>1, <1>2, <1>3, <1>4, <1>6, <1>7, SidesAre DEF ChannelTypes
<1>9. pc'["client"] = "select" /\ pc'["server"] = "cookie" /\ state'["client"] = "none" /\ state'["server"] = "none"
  BY <1>2, <1>3, SidesAre
<1>10. ChannelTypes' BY <1>1, <1>2, <1>6, <1>8 DEF ChannelTypes
<1>11. ControlTypes'
  <2>1. pc' \in [Sides -> ClientPCs \cup ServerPCs]
    <3>1. \A s \in Sides : pc'[s] \in ClientPCs \cup ServerPCs BY <1>9, SidesAre DEF ClientPCs, ServerPCs
    <3>2. DOMAIN pc' = Sides /\ pc' = [s \in DOMAIN pc' |-> pc'[s]] BY <1>2, SidesAre
    <3> QED BY <3>1, <3>2
  <2> QED BY <1>1, <1>2, <1>9, <2>1 DEF ControlTypes, ClientPCs, ServerPCs
<1>12. Quiet'
  <2>1. \A s \in Sides : ended[s] = "no" /\ s \notin closed /\ s \notin shut
    BY <1>1, <1>2, SidesAre DEF Quiet, QuietAt, Reading
  <2>2. \A s \in Sides : Len(got'[s]) = 0 /\ Wanted(s)' \in Nat BY <1>8, SidesAre, WantedIs
  <2> QED BY <1>2, <2>1, <2>2 DEF Quiet, QuietAt
<1>13. Fresh' BY <1>9 DEF Fresh, Unconnected
<1>14. \A n \in 1..7 : ~HasSaid(n)'
  <2>1. Len(sent'["server"]) = 0 BY <1>8
  <2> QED BY <2>1 DEF HasSaid, Follows
<1>15. HasAsked(1)' /\ \A n \in 2..4 : ~HasAsked(n)'
  <2>1. Len(sent'["client"]) = 1 /\ sent'["client"][1] = "cookie" BY <1>5, <1>8
  <2>2. ClientScript[1] = "cookie" BY DEF ClientScript
  <2>3. HasAsked(1)' BY <2>1, <2>2, ScriptsAre DEF HasAsked, Follows
  <2>4. \A n \in 2..4 : ~HasAsked(n)' BY <2>1 DEF HasAsked, Follows
  <2> QED BY <2>3, <2>4
<1>16. ServerSays'
  <2>1. 1..Len(sent'["server"]) = {} BY <1>8
  <2> QED BY <2>1 DEF ServerSays, WellSaid
<1>17. ClientSays'
  <2>1. 1..Len(sent'["client"]) = {1}
    <3>1. 1..1 = {1} OBVIOUS
    <3> QED BY <3>1, <1>5, <1>8
  <2> QED BY <2>1, <1>15 DEF ClientSays
<1>18. ServerPlace'
  <2>1. Len(sent'["server"]) = 0 /\ Len(heard'["server"]) = 0 BY <1>8
  <2>2. 1 \in 1..7 /\ 2 \in 1..7 /\ 5 \in 1..7 /\ 6 \in 1..7 OBVIOUS
  <2> QED BY <1>9, <1>14, <2>1, <2>2 DEF ServerPlace, ServerAt
<1>19. ClientPlace'
  <2>1. Len(sent'["client"]) = 1 /\ Len(heard'["client"]) = 0 BY <1>5, <1>8
  <2>2. 2 \in 2..4 /\ 3 \in 2..4 /\ 4 \in 2..4 OBVIOUS
  <2> QED BY <1>9, <1>15, <2>1, <2>2 DEF ClientPlace, ClientAt
<1>20. Prefix'
  <2>1. \A s \in Sides : Len(heard'[s]) = 0 /\ Len(sent'[s]) \in Nat BY <1>8, SidesAre, <1>10 DEF ChannelTypes
  <2> QED BY <2>1, SidesAre DEF Prefix
<1>21. Streams'
  <2>1. <<>> \o bytes = bytes /\ <<>> \o <<>> = <<>> BY <1>4, ConcatEmptySeq
  <2>2. Rest(said, 0) = said
    <3>1. 0 + 1 = 1 OBVIOUS
    <3> QED BY <1>4, <3>1, SubSeqFull DEF Rest
  <2>3. Rest(<<>>, 0) = <<>> BY SubSeqEmpty DEF Rest
  <2>4. Len(heard'["server"]) = 0 /\ Len(heard'["client"]) = 0 BY <1>8
  <2>5. Stream("server")' BY <1>4, <1>8, <2>1, <2>2, <2>4, SidesAre DEF Stream
  <2>6. Stream("client")' BY <1>8, <2>1, <2>3, <2>4, SidesAre, CodedNothing DEF Stream
  <2> QED BY <2>5, <2>6, SidesAre DEF Streams
<1> QED BY <1>10, <1>11, <1>12, <1>13, <1>16, <1>17, <1>18, <1>19, <1>20, <1>21 DEF Conversation
-----------------------------------------------------------------------------
LEMMA InitConversation == ASSUME Init PROVE Conversation
<1>1. /\ pc = [s \in Sides |-> "options"] /\ state = [s \in Sides |-> "none"] /\ streams = FALSE
      /\ errno = [s \in Sides |-> "none"] /\ told = "none" /\ wire = [s \in Sides |-> <<>>]
      /\ shut = {} /\ closed = {} /\ reset = {} /\ got = [s \in Sides |-> <<>>]
      /\ ended = [s \in Sides |-> "no"] /\ late = FALSE
      /\ sent = [s \in Sides |-> <<>>] /\ heard = [s \in Sides |-> <<>>]
  BY DEF Init, ChannelInit
<1>2. <<>> \in Seq(Byte) /\ <<>> \in Seq(Messages) /\ Len(<<>>) = 0 /\ 1..0 = {} OBVIOUS
<1>3. ChannelTypes BY <1>1, <1>2 DEF ChannelTypes
<1>4. ControlTypes BY <1>1, SidesAre DEF ControlTypes, ClientPCs, ServerPCs, Errors
<1>5. /\ pc["client"] = "options" /\ pc["server"] = "options" /\ state["server"] = "none"
      /\ Len(sent["client"]) = 0 /\ Len(sent["server"]) = 0
      /\ Len(heard["client"]) = 0 /\ Len(heard["server"]) = 0
  BY <1>1, <1>2, SidesAre
<1>6. Quiet
  <2>1. \A s \in Sides : Len(got[s]) = 0 /\ Wanted(s) \in Nat BY <1>1, <1>2, WantedIs
  <2> QED BY <1>1, <2>1 DEF Quiet, QuietAt
<1>7. Fresh BY <1>1, <1>5 DEF Fresh, Unconnected
<1>8. \A n \in 1..7 : ~HasSaid(n) /\ ~HasAsked(n) BY <1>5 DEF HasSaid, HasAsked, Follows
<1>9. ServerSays /\ ClientSays
  <2>1. 1..Len(sent["client"]) = {} /\ 1..Len(sent["server"]) = {} BY <1>5
  <2> QED BY <2>1 DEF ServerSays, ClientSays, WellSaid
<1>10. ServerPlace
  <2>1. 1 \in 1..7 /\ 2 \in 1..7 /\ 5 \in 1..7 /\ 6 \in 1..7 OBVIOUS
  <2> QED BY <1>5, <1>8, <2>1 DEF ServerPlace, ServerAt
<1>11. ClientPlace
  <2>1. 2 \in 1..7 /\ 3 \in 1..7 /\ 4 \in 1..7 OBVIOUS
  <2> QED BY <1>5, <1>8, <2>1 DEF ClientPlace, Unconnected
<1>12. Prefix BY <1>1, <1>2, SidesAre DEF Prefix
<1>13. Streams BY <1>1 DEF Streams, Stream, Listening
<1> QED BY <1>3, <1>4, <1>6, <1>7, <1>9, <1>10, <1>11, <1>12, <1>13 DEF Conversation

LEMMA StepConversation == ASSUME Conversation, [Next]_vars PROVE Conversation'
<1>1. ASSUME NEW s \in Sides, SideStep(s) PROVE Conversation'
  <2>1. ASSUME Prepares(s) PROVE Conversation'
    BY <2>1, SetupKeeps DEF Prepares, SetsUp
  <2>2. ASSUME TakesOption(s) PROVE Conversation'
    BY <2>2, SetupKeeps DEF TakesOption, SetsUp
  <2>3. ASSUME EndsParsing(s) PROVE Conversation'
    BY <2>3, SetupKeeps DEF EndsParsing, SetsUp
  <2>4. ASSUME ReadsState(s) PROVE Conversation'
    BY <2>4, SidesAre, ClientReadsState, ServerReadsState
  <2>5. ASSUME SyncClose(s) PROVE Conversation' BY <2>5, SyncCloseKeeps
  <2>6. ASSUME Nread(s), UNCHANGED <<lineVars, test, pc, state, streams, errno, told>> PROVE Conversation'
    BY <2>6, NreadKeeps
  <2>7. ASSUME GivesUp(s) PROVE Conversation' BY <2>7, SidesAre, ClientGivesUp, ServerGivesUp
  <2> QED BY <1>1, <2>1, <2>2, <2>3, <2>4, <2>5, <2>6, <2>7 DEF SideStep
<1>2. "client" \in Sides /\ "server" \in Sides BY SidesAre
<1>3. CASE ClientStep
  BY <1>1, <1>2, <1>3, ConnectsKeeps, SendsParametersKeeps, CreatesStreamsKeeps, GoesOnKeeps, EndsTestKeeps,
     SendsResultsKeeps, ReadsServerResultsKeeps, ShowsResultsKeeps, ReadsServerErrorKeeps, ReadsCodeKeeps,
     ReadsErrnoKeeps, ClientEndsKeeps DEF ClientStep
<1>4. CASE ServerStep
  BY <1>1, <1>2, <1>4, ReadsCookieKeeps, ReadsParametersKeeps, StartsTestKeeps, ExpiresKeeps, ClosesExpiredKeeps,
     AsksForResultsKeeps, ReadsClientResultsKeeps, FinishesKeeps, CleansUpKeeps DEF ServerStep
<1>5. CASE Mishap BY <1>5, SelectFailsKeeps, ServerSelectFailsKeeps, RefusesRateKeeps, BreaksKeeps DEF Mishap
<1>6. CASE UNCHANGED vars
  <2>1. UNCHANGED <<pc, state, streams, errno, told, wire, shut, closed, reset, got, ended, late, sent, heard>>
    BY <1>6 DEF vars, channelVars
  <2>2. ChannelTypes' /\ ControlTypes' /\ Quiet' /\ Fresh'
    BY <2>1 DEF Conversation, ChannelTypes, ControlTypes, Quiet, QuietAt, Wanted, Fresh
  <2>3. ServerSays' /\ ClientSays' /\ Prefix' /\ Streams'
    BY <2>1 DEF Conversation, ServerSays, ClientSays, HasAsked, Prefix, Streams, Stream
  <2>4. ServerPlace' BY <2>1 DEF Conversation, ServerPlace, ServerAt, HasSaid, HasAsked
  <2>5. ClientPlace' BY <2>1 DEF Conversation, ClientPlace, ClientAt, ToldError, HasSaid, HasAsked
  <2> QED BY <2>2, <2>3, <2>4, <2>5 DEF Conversation
<1> QED BY <1>3, <1>4, <1>5, <1>6 DEF Next

\* The conversation of every client and server keeps to its script, and what is under way is
\* always the rest of what has been said.
THEOREM ConversationHolds == Spec => []Conversation
<1>1. Init => Conversation BY InitConversation
<1>2. Conversation /\ [Next]_vars => Conversation' BY StepConversation
<1> QED BY <1>1, <1>2, PTL DEF Spec

\* What one side reads as a message is what the other has written, whole and in its order, and
\* no state comes to a side that does not know it, whatever the sizes of the messages, the pieces
\* in which Nread gets them, the timeouts and the broken paths (HeardIsSent).
THEOREM HeardIsWhatWasSent == Spec => []HeardIsSent
<1>1. ASSUME Conversation PROVE HeardIsSent
  <2>1. ASSUME NEW s \in Sides PROVE IsPrefix(heard[s], sent[Peer(s)])
    <3> DEFINE h == heard[s]  q == sent[Peer(s)]
    <3>1. /\ h \in Seq(Messages) /\ q \in Seq(Messages) /\ Len(h) <= Len(q)
          /\ \A i \in 1..Len(h) : h[i] = q[i]
      BY <1>1, SidesAre DEF Conversation, ChannelTypes, Prefix
    <3> HIDE DEF h, q
    <3> DEFINE a == SubSeq(h, 1, Len(h))  b == SubSeq(q, 1, Len(h))
    <3>2. Len(h) \in Nat /\ Len(q) \in Nat BY <3>1
    <3>3. \A i \in 1..Len(h) : h[i] \in Messages /\ q[i] \in Messages BY <3>1, <3>2
    <3>4. /\ a \in Seq(Messages) /\ Len(a) = Len(h) /\ \A i \in 1..Len(h) : a[i] = h[i]
      BY <3>1, SubSeqFull
    <3>5. /\ b \in Seq(Messages) /\ Len(b) = (IF 1 <= Len(h) THEN Len(h) - 1 + 1 ELSE 0)
          /\ \A i \in 1..Len(h) - 1 + 1 : b[i] = q[1 + i - 1]
      BY <3>2, <3>3, SubSeqProperties
    <3> HIDE DEF a, b
    <3>6. Len(b) = Len(h) /\ \A i \in 1..Len(h) : b[i] = q[i]
      <4>1. Len(b) = Len(h) /\ Len(h) - 1 + 1 = Len(h) BY <3>2, <3>5
      <4>2. \A i \in 1..Len(h) : 1 + i - 1 = i BY <3>2
      <4> QED BY <4>1, <4>2, <3>5
    <3>7. a = b BY <3>1, <3>4, <3>5, <3>6, SeqEqual
    <3> QED BY <3>1, <3>7 DEF IsPrefix, a, b, h, q
  <2>2. ASSUME NEW s \in Sides, pc[s] = "handle" PROVE state[s] \in Expects(s)
    BY <1>1, <2>2, SidesAre DEF Conversation, ClientPlace, ClientAt, ToldError, ServerPlace, ServerAt, Expects,
       ClientExpects, ServerExpects
  <2> QED BY <2>1, <2>2 DEF HeardIsSent
<1> QED BY <1>1, ConversationHolds, PTL
-----------------------------------------------------------------------------
(* Why a side gives up.                                                    *)

\* The client has left the conversation.
Over == pc["client"] \in {"drain", "off"}

\* The errors the server has reported, and the one it reports, if it can: its own, or that the
\* test has expired, after which it ends with another one.
Codes == {sent["server"][i] : i \in 1..Len(sent["server"])} \cap Errors
Expiry == "IESERVERTESTDURATIONEXPIRED"
Unsaid == {"IESELECT", "IELISTEN"}
Reason == IF pc["server"] = "expired" \/ errno["server"] = "IESELECT" THEN Expiry ELSE errno["server"]

\* A server reports one error, and one without an error ends only after its client.
ServerErrs ==
  /\ \/ Codes \subseteq {Reason}
     \/ /\ errno["server"] = "IESENDMESSAGE" /\ pc["server"] \in {"drain", "off"}
        /\ \E e \in Errors : Codes \subseteq {e}
  /\ pc["server"] = "failed" => errno["server"] \notin Unsaid
  /\ pc["server"] \notin {"failed", "drain", "off"} => errno["server"] = "none"
  /\ pc["server"] = "handle" /\ state["server"] = "IPERF_DONE" => Over
  /\ errno["server"] = "none" /\ (pc["server"] \in {"failed", "drain"} \/ "server" \in shut) => Over

\* The server of an expired test (or one whose select fails) has closed the connection.
Cut == pc["server"] = "off" /\ errno["server"] = "IESELECT" /\ "server" \in shut

\* As long as nothing comes too late and no path breaks, only such a server can cause a reset,
\* that of its client.
Unreset ==
  /\ reset \subseteq {"client"} /\ (reset # {} => Cut)
  /\ "client" \in closed => "server" \in shut
  /\ "server" \in closed => "client" \in shut \/ Cut

\* Without one, a read ends early only at the end of the stream,
EndsAt(s) == ended[s] # "no" => ended[s] = "short" /\ AtEnd(s) /\ Len(got[s]) < Wanted(s)

\* a server that has an error writes it before it shuts the connection, unless that comes up
\* where cleanup_server is called before i_errno is set,
HasSaidWhy == Len(sent["server"]) > 0 /\ sent["server"][Len(sent["server"])] = "errno"
Untold == pc["server"] \in {"drain", "off"} /\ errno["server"] \in Unsaid /\ Codes = {}

SaysWhy ==
  /\ pc["server"] = "expired" => HasSaidWhy
  /\ errno["server"] # "none" /\ (pc["server"] = "drain" \/ "server" \in shut) => HasSaidWhy \/ Untold

\* a server whose results a client waits for sends them,
SaysResults == HasSaid(5) => HasSaid(6) \/ pc["server"] = "results" \/ Over

\* and a client fails with the error that the server has reported, with one of its own, or
\* because the server has gone without a word.
IsTold ==
  /\ pc["client"] = "errno" => told \in Codes
  /\ errno["client"] \in {"none"} \cup OwnFailures \cup Codes \/ Untold

InTime ==
  ~late => Unreset /\ (reset = {} => (\A s \in Sides : EndsAt(s)) /\ SaysWhy /\ SaysResults /\ IsTold)

Refusals == Conversation /\ ServerErrs /\ InTime
-----------------------------------------------------------------------------
(* The steps, as the other side sees them.                                 *)

\* What a step of the client leaves to the server.
ServerRests ==
  /\ pc'["server"] = pc["server"] /\ state'["server"] = state["server"] /\ errno'["server"] = errno["server"]
  /\ sent'["server"] = sent["server"] /\ ("server" \in shut' <=> "server" \in shut)
  /\ Over => Over'

\* And a step of the server to the client.
ClientRests ==
  /\ pc'["client"] = pc["client"] /\ errno'["client"] = errno["client"] /\ told' = told
  /\ sent'["client"] = sent["client"]

LEMMA ServerRestsAfter ==
  ASSUME Conversation,
         \/ SendsParameters \/ CreatesStreams \/ GoesOn \/ EndsTest \/ SendsResults
         \/ ReadsServerResults \/ ShowsResults \/ ReadsServerError \/ ReadsCode \/ ReadsErrno \/ ClientEnds
         \/ SelectFails \/ SideStep("client") \/ Breaks \/ UNCHANGED vars
  PROVE  ServerRests
<1>1. ControlTypes /\ ChannelTypes /\ "client" \in Sides /\ "client" # "server" /\ "server" \in Sides
  BY SidesAre DEF Conversation
<1> USE <1>1 DEF ServerRests, Over, Goes, Fails, Enters, Says, Writes, Handles, unread, channelVars
<1>2. CASE SendsParameters BY <1>2 DEF SendsParameters, ControlTypes, ChannelTypes
<1>3. CASE CreatesStreams BY <1>3 DEF CreatesStreams, ControlTypes, ChannelTypes
<1>4. CASE GoesOn BY <1>4 DEF GoesOn, ControlTypes, ChannelTypes
<1>5. CASE EndsTest BY <1>5 DEF EndsTest, ControlTypes, ChannelTypes
<1>6. CASE SendsResults BY <1>6 DEF SendsResults, ControlTypes, ChannelTypes
<1>7. CASE ReadsServerResults BY <1>7 DEF ReadsServerResults, ControlTypes, ChannelTypes
<1>8. CASE ShowsResults BY <1>8 DEF ShowsResults, ControlTypes, ChannelTypes
<1>9. CASE ReadsServerError BY <1>9 DEF ReadsServerError, ControlTypes, ChannelTypes
<1>10. CASE ReadsCode BY <1>10 DEF ReadsCode, ControlTypes, ChannelTypes
<1>11. CASE ReadsErrno BY <1>11 DEF ReadsErrno, ControlTypes, ChannelTypes
<1>12. CASE ClientEnds BY <1>12 DEF ClientEnds, Shuts, ControlTypes, ChannelTypes
<1>13. CASE SideStep("client")
  <2>1. CASE Prepares("client") BY <2>1 DEF Prepares, SetsUp, ControlTypes, ChannelTypes
  <2>2. CASE TakesOption("client") BY <2>2 DEF TakesOption, ControlTypes, ChannelTypes
  <2>3. CASE EndsParsing("client") BY <2>3 DEF EndsParsing, SetsUp, ControlTypes, ChannelTypes
  <2>4. CASE ReadsState("client") BY <2>4 DEF ReadsState, ControlTypes, ChannelTypes
  <2>5. CASE SyncClose("client")
    BY <2>5 DEF SyncClose, Drains, Closes, ClosesSocket, readVars, ControlTypes, ChannelTypes
  <2>6. CASE Nread("client") /\ UNCHANGED <<lineVars, test, pc, state, streams, errno, told>>
    BY <2>6 DEF Nread, Receives, ReturnsEarly
  <2>7. CASE GivesUp("client") BY <2>7 DEF GivesUp, ControlTypes, ChannelTypes
  <2> QED BY <1>13, <2>1, <2>2, <2>3, <2>4, <2>5, <2>6, <2>7 DEF SideStep
<1>14. CASE Breaks BY <1>14 DEF Breaks
<1>15. CASE UNCHANGED vars BY <1>15 DEF vars
<1>16. CASE SelectFails BY <1>16 DEF SelectFails, ControlTypes, ChannelTypes
<1> QED BY <1>2, <1>3, <1>4, <1>5, <1>6, <1>7, <1>8, <1>9, <1>10, <1>11, <1>12, <1>13, <1>14, <1>15, <1>16

\* What the server says of the test's states and results.
Spoken == {<<"PARAM_EXCHANGE">>, <<"CREATE_STREAMS">>, <<"TEST_START">>, <<"TEST_START", "TEST_RUNNING">>,
           <<"EXCHANGE_RESULTS">>, <<"serverResults", "DISPLAY_RESULTS">>}

Talking == {"cookie", "params", "select", "handle", "results"}

\* The server says something and goes on, or fails, perhaps with a word,
Utters(names) ==
  /\ pc["server"] \in Talking /\ pc'["server"] \in {"params", "select", "results"} /\ ClientRests
  /\ sent'["server"] = sent["server"] \o names /\ errno'["server"] = errno["server"]
  /\ "server" \in shut' <=> "server" \in shut
  /\ names[1] = "EXCHANGE_RESULTS" => pc'["server"] = "results"
  /\ pc["server"] = "results" => names[1] = "serverResults"

GivesWay ==
  /\ pc["server"] \in Talking /\ pc'["server"] = "failed" /\ ClientRests
  /\ errno'["server"] \in Errors \ Unsaid
  /\ \/ sent'["server"] \in {sent["server"], sent["server"] \o Error(errno'["server"])}
     \/ \E names \in Starts : sent'["server"] = sent["server"] \o names
  /\ "server" \in shut' <=> "server" \in shut
  /\ pc["server"] = "results" => ReadsClientResults

\* or ends without one.
Leaves ==
  /\ pc["server"] = "select" /\ pc'["server"] = "drain" /\ ClientRests
  /\ errno'["server"] \in Unsaid /\ sent'["server"] = sent["server"]

LEMMA EndsUntoldLeaves ==
  ASSUME Conversation, pc["server"] = "select", NEW e \in Unsaid, EndsUntold(e), told' = told
  PROVE  Leaves
<1>1. ControlTypes /\ ChannelTypes /\ "client" \in Sides /\ "client" # "server" /\ "server" \in Sides
  BY SidesAre DEF Conversation
<1>2. /\ pc'["server"] = "drain" /\ pc'["client"] = pc["client"] /\ errno'["server"] = e
      /\ errno'["client"] = errno["client"] /\ sent' = sent
  BY <1>1 DEF EndsUntold, Goes, ControlTypes
<1> QED BY <1>2 DEF Leaves, ClientRests

LEMMA ServerUtters ==
  ASSUME Conversation,
         \/ ReadsCookie \/ ReadsParameters \/ StartsTest \/ AsksForResults \/ ReadsClientResults
         \/ GivesUp("server") \/ RefusesRate \/ ServerSelectFails
  PROVE  (\E names \in Spoken : Utters(names)) \/ GivesWay \/ Leaves
<1>1. ControlTypes /\ ChannelTypes /\ "client" \in Sides /\ "client" # "server" /\ "server" \in Sides
  BY SidesAre DEF Conversation
<1> DEFINE Told == Errors \ Unsaid
<1>2. {"IESENDMESSAGE", "IERECVCOOKIE", "IERECVPARAMS", "IERECVRESULTS", "IESTREAMLISTEN", "IEINITTEST",
       "IENOMSG", "IETOTALRATE", "IESTREAMCONNECT", "IEPTHREADCREATE"} \subseteq Told
  BY DEF Errors, Unsaid
<1> HIDE DEF Told
<1>3. ASSUME pc["server"] \in Talking, NEW names \in Spoken, NEW bytes, NEW to \in {"params", "select", "results"},
             NEW st, Says("server", names, bytes, to, st), UNCHANGED <<shut, told>>,
             names[1] = "EXCHANGE_RESULTS" => to = "results",
             pc["server"] = "results" => names[1] = "serverResults" /\ ReadsClientResults
      PROVE  (\E n \in Spoken : Utters(n)) \/ GivesWay
  <2>1. CASE CanWrite("server")
    <3>1. /\ sent'["server"] = sent["server"] \o names /\ sent'["client"] = sent["client"]
          /\ errno' = errno /\ pc' = [pc EXCEPT !["server"] = to]
      BY <1>1, <1>3, <2>1 DEF Says, Writes, Goes, ChannelTypes
    <3>2. pc'["server"] = to /\ pc'["client"] = pc["client"] BY <3>1, <1>1 DEF ControlTypes
    <3>3. shut' = shut /\ told' = told BY <1>3
    <3>4. Utters(names) BY <1>3, <3>1, <3>2, <3>3 DEF Utters, ClientRests
    <3> QED BY <1>3, <3>4
  <2>2. CASE ~CanWrite("server")
    <3>1. GivesWay
      BY <1>1, <1>2, <1>3, <2>2 DEF Says, Fails, Goes, GivesWay, ClientRests, ControlTypes, ChannelTypes, Told
    <3> QED BY <3>1
  <2> QED BY <2>1, <2>2
<1>4. ASSUME pc["server"] \in Talking, NEW e \in Told, Fails("server", e),
             \/ UNCHANGED sent
             \/ sent' = [sent EXCEPT !["server"] = sent["server"] \o Error(e)]
             \/ \E names \in Starts : sent' = [sent EXCEPT !["server"] = sent["server"] \o names],
             UNCHANGED <<shut, told>>, pc["server"] = "results" => ReadsClientResults
      PROVE  GivesWay
  <2>1. errno'["server"] = e /\ ClientRests /\ pc'["server"] = "failed"
    BY <1>1, <1>4 DEF Fails, Goes, ClientRests, ControlTypes, ChannelTypes
  <2>2. \/ sent'["server"] \in {sent["server"], sent["server"] \o Error(e)}
        \/ \E names \in Starts : sent'["server"] = sent["server"] \o names
    BY <1>1, <1>4 DEF ChannelTypes
  <2> QED BY <1>4, <2>1, <2>2 DEF GivesWay, Told
<1>5. CASE ReadsCookie
  <2>1. <<"PARAM_EXCHANGE">> \in Spoken BY DEF Spoken
  <2> HIDE DEF Spoken
  <2> QED BY <1>2, <1>3, <1>4, <1>5, <2>1 DEF ReadsCookie, Talking
<1>6. CASE ReadsParameters
  <2>1. <<"CREATE_STREAMS">> \in Spoken BY DEF Spoken
  <2> DEFINE t == Adopted(test["server"], Parameters(test["client"]))
  <2>2. Refusal(t) # "none" => Refusal(t) \in Told BY DEF Refusal, Told, Errors, Unsaid
  <2>3. /\ pc["server"] = "params" /\ UNCHANGED <<shut, told>>
        /\ \/ Fails("server", Refusal(t)) /\ Refusal(t) # "none" /\ UNCHANGED sent
           \/ Says("server", <<"CREATE_STREAMS">>, Control("CREATE_STREAMS"), "select", "CREATE_STREAMS")
           \/ Fails("server", "IESTREAMLISTEN") /\ UNCHANGED sent
           \/ Fails("server", "IERECVPARAMS") /\ UNCHANGED sent
    BY <1>6 DEF ReadsParameters
  <2> HIDE DEF Spoken, t
  <2> QED BY <1>2, <1>3, <1>4, <2>1, <2>2, <2>3 DEF Talking
<1>7. CASE StartsTest
  <2> DEFINE one == <<"TEST_START">>  two == <<"TEST_START", "TEST_RUNNING">>
  <2>1. two \in Spoken /\ two[1] = "TEST_START" /\ one \in Starts /\ two \in Starts BY DEF Spoken, Starts
  <2>2. /\ pc["server"] = "select" /\ told' = told
        /\ \/ Fails("server", "IESTREAMCONNECT") /\ UNCHANGED <<sent, shut>>
           \/ EndsUntold("IELISTEN")
           \/ /\ SaysAndFails("server", one, Control("TEST_START"), "TEST_START", "IEINITTEST") /\ UNCHANGED shut
           \/ /\ SaysAndFails("server", two, Control("TEST_START") \o Control("TEST_RUNNING"), "TEST_RUNNING",
                              "IEPTHREADCREATE")
              /\ UNCHANGED shut
           \/ /\ Says("server", two, Control("TEST_START") \o Control("TEST_RUNNING"), "select", "TEST_RUNNING")
              /\ UNCHANGED shut
    BY <1>7 DEF StartsTest
  <2> HIDE DEF one, two
  <2>3. CASE EndsUntold("IELISTEN") BY <2>2, <2>3, EndsUntoldLeaves DEF Unsaid
  <2>4. ASSUME NEW names \in {one, two}, NEW bytes, NEW st, NEW e \in {"IEINITTEST", "IEPTHREADCREATE"},
               SaysAndFails("server", names, bytes, st, e), UNCHANGED shut
        PROVE  GivesWay
    <3>1. sent' = [sent EXCEPT !["server"] = sent["server"] \o names] /\ Fails("server", e) /\ e \in Told
      BY <1>2, <2>4 DEF SaysAndFails, Writes
    <3> QED BY <1>4, <2>1, <2>2, <2>4, <3>1 DEF Talking
  <2> HIDE DEF Spoken, Starts
  <2> QED BY <1>2, <1>3, <1>4, <2>1, <2>2, <2>3, <2>4 DEF Talking
<1>8. CASE AsksForResults
  <2>1. <<"EXCHANGE_RESULTS">> \in Spoken BY DEF Spoken
  <2>2. /\ pc["server"] = "handle" /\ UNCHANGED <<shut, told>>
        /\ Says("server", <<"EXCHANGE_RESULTS">>, Control("EXCHANGE_RESULTS"), "results", "EXCHANGE_RESULTS")
    BY <1>8 DEF AsksForResults, Handles, unread
  <2> HIDE DEF Spoken
  <2> QED BY <1>3, <2>1, <2>2 DEF Talking
<1>9. CASE ReadsClientResults
  <2> DEFINE two == <<"serverResults", "DISPLAY_RESULTS">>
  <2>1. two \in Spoken /\ two[1] = "serverResults" BY DEF Spoken
  <2>2. /\ pc["server"] = "results" /\ UNCHANGED <<shut, told>>
        /\ \/ Says("server", two, Results("server") \o Control("DISPLAY_RESULTS"), "select", "DISPLAY_RESULTS")
           \/ Fails("server", "IERECVRESULTS") /\ UNCHANGED sent
    BY <1>9 DEF ReadsClientResults
  <2> HIDE DEF Spoken, two
  <2> QED BY <1>2, <1>3, <1>4, <1>9, <2>1, <2>2 DEF Talking
<1>10. CASE GivesUp("server")
  <2>1. GivesWay BY <1>2, <1>4, <1>10 DEF GivesUp, channelVars, Talking
  <2> QED BY <2>1
<1>11. CASE RefusesRate
  <2>1. /\ pc["server"] = "select" /\ UNCHANGED <<shut, told>>
        /\ \/ Fails("server", "IETOTALRATE") /\ sent' = [sent EXCEPT !["server"] = sent["server"] \o Error("IETOTALRATE")]
           \/ Fails("server", "IESENDMESSAGE") /\ UNCHANGED sent
    BY <1>11 DEF RefusesRate, Reports, Writes
  <2>2. GivesWay BY <1>2, <1>4, <2>1 DEF Talking
  <2> QED BY <2>2
<1>12. CASE ServerSelectFails BY <1>12, EndsUntoldLeaves DEF ServerSelectFails, Unsaid
<1> QED BY <1>5, <1>6, <1>7, <1>8, <1>9, <1>10, <1>11, <1>12

LEMMA SpokenAre ==
  /\ \A names \in Spoken : /\ names \in Seq(Messages) /\ Len(names) \in 1..2
                           /\ \A i \in 1..Len(names) : names[i] \notin Errors \cup {"errno"}
  /\ \A e \in Errors : /\ Error(e) \in Seq(Messages) /\ Len(Error(e)) = 3
                       /\ Error(e)[1] = "SERVER_ERROR" /\ Error(e)[2] = e /\ Error(e)[3] = "errno"
<1>1. \A i \in 1..1 : i = 1 OBVIOUS
<1>2. \A i \in 1..2 : i = 1 \/ i = 2 OBVIOUS
<1>3. {"PARAM_EXCHANGE", "CREATE_STREAMS", "TEST_START", "TEST_RUNNING", "EXCHANGE_RESULTS", "serverResults",
       "DISPLAY_RESULTS"} \subseteq Messages \ (Errors \cup {"errno"})
  BY MessageKinds, SetsAre DEF Messages, Jsons, States, Errors, ClientExpects, ServerExpects
<1>4. ASSUME NEW m \in Messages \ (Errors \cup {"errno"})
      PROVE  /\ <<m>> \in Seq(Messages) /\ Len(<<m>>) \in 1..2
             /\ \A i \in 1..Len(<<m>>) : <<m>>[i] \notin Errors \cup {"errno"}
  <2>1. Len(<<m>>) = 1 /\ <<m>>[1] = m OBVIOUS
  <2> QED BY <1>1, <1>4, <2>1
<1>5. ASSUME NEW m \in Messages \ (Errors \cup {"errno"}), NEW n \in Messages \ (Errors \cup {"errno"})
      PROVE  /\ <<m, n>> \in Seq(Messages) /\ Len(<<m, n>>) \in 1..2
             /\ \A i \in 1..Len(<<m, n>>) : <<m, n>>[i] \notin Errors \cup {"errno"}
  <2>1. Len(<<m, n>>) = 2 /\ <<m, n>>[1] = m /\ <<m, n>>[2] = n OBVIOUS
  <2>2. \A i \in 1..Len(<<m, n>>) : i = 1 \/ i = 2 BY <2>1, <1>2
  <2> QED BY <1>5, <2>1, <2>2
<1>6. ASSUME NEW e \in Errors
      PROVE  /\ Error(e) \in Seq(Messages) /\ Len(Error(e)) = 3
             /\ Error(e)[1] = "SERVER_ERROR" /\ Error(e)[2] = e /\ Error(e)[3] = "errno"
  <2>1. {"SERVER_ERROR", e, "errno"} \subseteq Messages BY SetsAre DEF Messages
  <2> QED BY <2>1 DEF Error
<1>7. ASSUME NEW names \in Spoken
      PROVE  /\ names \in Seq(Messages) /\ Len(names) \in 1..2
             /\ \A i \in 1..Len(names) : names[i] \notin Errors \cup {"errno"}
  <2>1. CASE names \in {<<"PARAM_EXCHANGE">>, <<"CREATE_STREAMS">>, <<"TEST_START">>, <<"EXCHANGE_RESULTS">>}
    BY <1>3, <1>4, <2>1
  <2>2. CASE names = <<"TEST_START", "TEST_RUNNING">>
    <3>1. {"TEST_START", "TEST_RUNNING"} \subseteq Messages \ (Errors \cup {"errno"}) BY <1>3
    <3> QED BY <1>5, <2>2, <3>1
  <2>3. CASE names = <<"serverResults", "DISPLAY_RESULTS">>
    <3>1. {"serverResults", "DISPLAY_RESULTS"} \subseteq Messages \ (Errors \cup {"errno"}) BY <1>3
    <3> QED BY <1>5, <2>3, <3>1
  <2> QED BY <2>1, <2>2, <2>3 DEF Spoken
<1> QED BY <1>6, <1>7

\* What is in a sequence with names at its end.
LEMMA Joins ==
  ASSUME NEW q \in Seq(Messages), NEW names \in Seq(Messages)
  PROVE  /\ Len(q \o names) = Len(q) + Len(names) /\ Len(q) \in Nat /\ Len(names) \in Nat
         /\ \A i \in 1..Len(q) : (q \o names)[i] = q[i]
         /\ \A i \in 1..Len(names) : (q \o names)[Len(q) + i] = names[i]
         /\ \A i \in 1..Len(q \o names) : i \in 1..Len(q) \/ (i - Len(q) \in 1..Len(names) /\ Len(q) + (i - Len(q)) = i)
<1>1. Len(q) \in Nat /\ Len(names) \in Nat OBVIOUS
<1>2. /\ Len(q \o names) = Len(q) + Len(names)
      /\ \A i \in 1..Len(q) + Len(names) : (q \o names)[i] = IF i <= Len(q) THEN q[i] ELSE names[i - Len(q)]
  BY ConcatProperties
<1>3. \A i \in 1..Len(q) : i \in 1..Len(q) + Len(names) /\ i <= Len(q) BY <1>1
<1>4. \A i \in 1..Len(names) : /\ Len(q) + i \in 1..Len(q) + Len(names) /\ ~(Len(q) + i <= Len(q))
                               /\ (Len(q) + i) - Len(q) = i
  BY <1>1
<1>5. \A i \in 1..Len(names) : (q \o names)[Len(q) + i] = names[i] BY <1>2, <1>4
<1> QED BY <1>1, <1>2, <1>3, <1>5

\* The errors that the server has reported after it has said more.
LEMMA CodesAfter ==
  ASSUME Conversation
  PROVE  /\ Codes \subseteq Errors
         /\ sent'["server"] = sent["server"] => Codes' = Codes
         /\ \A names \in Spoken : sent'["server"] = sent["server"] \o names => Codes' = Codes
         /\ \A e \in Errors : sent'["server"] = sent["server"] \o Error(e) => Codes' = Codes \cup {e}
<1> DEFINE q == sent["server"]  In(p) == {p[i] : i \in 1..Len(p)} \cap Errors
<1>1. q \in Seq(Messages) /\ Codes = In(q) /\ Codes' = In(sent'["server"])
  BY SidesAre DEF Conversation, ChannelTypes, Codes
<1> HIDE DEF q
<1>2. ASSUME NEW names \in Seq(Messages) PROVE In(q \o names) = In(q) \cup In(names)
  <2> DEFINE p == q \o names
  <2>1. /\ Len(p) = Len(q) + Len(names) /\ Len(q) \in Nat /\ Len(names) \in Nat
        /\ \A i \in 1..Len(q) : p[i] = q[i]
        /\ \A i \in 1..Len(names) : p[Len(q) + i] = names[i]
        /\ \A i \in 1..Len(p) : i \in 1..Len(q) \/ (i - Len(q) \in 1..Len(names) /\ Len(q) + (i - Len(q)) = i)
    BY <1>1, Joins
  <2> HIDE DEF p
  <2>2. \A i \in 1..Len(q) : i \in 1..Len(p) BY <2>1
  <2>3. \A i \in 1..Len(names) : Len(q) + i \in 1..Len(p) BY <2>1
  <2>4. ASSUME NEW i \in 1..Len(p) PROVE p[i] \in {q[j] : j \in 1..Len(q)} \cup {names[j] : j \in 1..Len(names)}
    <3>1. CASE i \in 1..Len(q) BY <2>1, <3>1
    <3>2. CASE i - Len(q) \in 1..Len(names) /\ Len(q) + (i - Len(q)) = i
      <4>1. p[i] = names[i - Len(q)] BY <2>1, <3>2
      <4> QED BY <3>2, <4>1
    <3> QED BY <2>1, <3>1, <3>2
  <2>5. ASSUME NEW j \in 1..Len(q) PROVE q[j] \in {p[i] : i \in 1..Len(p)} BY <2>1, <2>2
  <2>6. ASSUME NEW j \in 1..Len(names) PROVE names[j] \in {p[i] : i \in 1..Len(p)} BY <2>1, <2>3
  <2> QED BY <2>4, <2>5, <2>6 DEF p
<1>3. ASSUME NEW names \in Spoken PROVE names \in Seq(Messages) /\ In(names) = {} BY SpokenAre
<1>4. ASSUME NEW e \in Errors PROVE Error(e) \in Seq(Messages) /\ In(Error(e)) = {e}
  <2>1. \A i \in 1..3 : i = 1 \/ i = 2 \/ i = 3 OBVIOUS
  <2>2. "SERVER_ERROR" \notin Errors /\ "errno" \notin Errors BY DEF Errors
  <2>3. /\ Error(e) \in Seq(Messages) /\ Len(Error(e)) = 3
        /\ Error(e)[1] = "SERVER_ERROR" /\ Error(e)[2] = e /\ Error(e)[3] = "errno"
    BY SpokenAre
  <2>4. \A i \in 1..Len(Error(e)) : Error(e)[i] \in Errors => Error(e)[i] = e BY <2>1, <2>2, <2>3
  <2>5. 2 \in 1..Len(Error(e)) BY <2>3
  <2> QED BY <2>3, <2>4, <2>5
<1> HIDE DEF In
<1> QED
  <2>1. Codes \subseteq Errors BY DEF Codes
  <2>2. sent'["server"] = sent["server"] => Codes' = Codes BY <1>1 DEF q
  <2>3. ASSUME NEW names \in Spoken, sent'["server"] = sent["server"] \o names PROVE Codes' = Codes
    BY <1>1, <1>2, <1>3, <2>3 DEF q
  <2>4. ASSUME NEW e \in Errors, sent'["server"] = sent["server"] \o Error(e) PROVE Codes' = Codes \cup {e}
    BY <1>1, <1>2, <1>4, <2>4 DEF q
  <2> HIDE DEF Spoken, Errors
  <2> QED BY <2>1, <2>2, <2>3, <2>4

\* The server cleans up behind a failure.
LEMMA ServerCleansUp ==
  ASSUME Conversation, CleansUp
  PROVE  /\ pc["server"] = "failed" /\ pc'["server"] = "drain" /\ ClientRests
         /\ \/ errno["server"] = "none" /\ errno'["server"] = "none" /\ sent'["server"] = sent["server"]
            \/ /\ errno["server"] \in Errors /\ errno'["server"] = errno["server"] /\ CanWrite("server")
               /\ sent'["server"] = sent["server"] \o Error(errno["server"])
            \/ /\ errno["server"] \in Errors /\ errno'["server"] = "IESENDMESSAGE" /\ ~CanWrite("server")
               /\ sent'["server"] = sent["server"]
<1>1. ControlTypes /\ ChannelTypes /\ "client" \in Sides /\ "client" # "server" /\ "server" \in Sides
  BY SidesAre DEF Conversation
<1>2. pc["server"] = "failed" /\ pc'["server"] = "drain" /\ pc'["client"] = pc["client"] /\ told' = told
  BY <1>1 DEF CleansUp, Goes, ControlTypes
<1>3. CASE errno["server"] = "none"
  <2>1. UNCHANGED <<errno, sent>> BY <1>3 DEF CleansUp
  <2> QED BY <1>2, <1>3, <2>1 DEF ClientRests
<1>4. CASE errno["server"] # "none" /\ CanWrite("server")
  <2>1. UNCHANGED errno /\ sent' = [sent EXCEPT !["server"] = sent["server"] \o Error(errno["server"])]
    BY <1>4 DEF CleansUp, Writes
  <2>2. errno["server"] \in Errors BY <1>1, <1>4 DEF ControlTypes
  <2> QED BY <1>1, <1>2, <1>4, <2>1, <2>2 DEF ClientRests, ChannelTypes
<1>5. CASE errno["server"] # "none" /\ ~CanWrite("server")
  <2>1. UNCHANGED sent /\ errno' = [errno EXCEPT !["server"] = "IESENDMESSAGE"] BY <1>5 DEF CleansUp
  <2>2. errno["server"] \in Errors BY <1>1, <1>5 DEF ControlTypes
  <2> QED BY <1>1, <1>2, <1>5, <2>1, <2>2 DEF ClientRests, ControlTypes
<1> QED BY <1>3, <1>4, <1>5

LEMMA ServerFinishes ==
  ASSUME Conversation, Finishes
  PROVE  /\ pc["server"] = "handle" /\ state["server"] = "IPERF_DONE" /\ pc'["server"] = "failed"
         /\ errno'["server"] = errno["server"] /\ ClientRests /\ sent'["server"] = sent["server"] /\ shut' = shut
BY SidesAre DEF Finishes, Handles, Goes, ClientRests, Conversation, ControlTypes, channelVars

\* The test expires, and the server closes the connection.
LEMMA ServerExpires ==
  ASSUME Conversation, Expires
  PROVE  /\ pc["server"] = "select" /\ pc'["server"] = "expired" /\ errno' = errno /\ ClientRests /\ shut' = shut
         /\ IF CanWrite("server") THEN sent'["server"] = sent["server"] \o Error(Expiry)
                                  ELSE sent'["server"] = sent["server"]
<1>1. ControlTypes /\ ChannelTypes /\ "client" \in Sides /\ "client" # "server" /\ "server" \in Sides
  BY SidesAre DEF Conversation
<1>2. /\ pc["server"] = "select" /\ Goes("server", "expired") /\ UNCHANGED <<errno, told, shut>>
      /\ IF CanWrite("server") THEN sent' = [sent EXCEPT !["server"] = sent["server"] \o Error(Expiry)]
                               ELSE UNCHANGED sent
  BY DEF Expires, Reports, Writes, Expiry
<1>3. pc'["server"] = "expired" /\ pc'["client"] = pc["client"] BY <1>1, <1>2 DEF Goes, ControlTypes
<1> QED BY <1>1, <1>2, <1>3 DEF ClientRests, ChannelTypes

LEMMA ServerClosesExpired ==
  ASSUME Conversation, ClosesExpired
  PROVE  /\ pc["server"] = "expired" /\ pc'["server"] = "off" /\ errno'["server"] = "IESELECT" /\ ClientRests
         /\ sent'["server"] = sent["server"] /\ "server" \in shut'
<1>1. ControlTypes /\ "client" \in Sides /\ "client" # "server" /\ "server" \in Sides
  BY SidesAre DEF Conversation
<1> QED BY <1>1 DEF ClosesExpired, ClosesSocket, Goes, ClientRests, ControlTypes

\* A state that comes to the server.
LEMMA ServerHears ==
  ASSUME Conversation, ReadsState("server")
  PROVE  /\ pc["server"] = "select" /\ ClientRests /\ sent'["server"] = sent["server"] /\ shut' = shut
         /\ \/ /\ pc'["server"] = "handle" /\ errno'["server"] = errno["server"]
               /\ state'["server"] = "IPERF_DONE" => Over
            \/ GivesWay
<1> DEFINE s == "server"  h == Len(heard["server"])  m == sent["client"][h + 1]
<1>1. /\ ControlTypes /\ ChannelTypes /\ ClientSays /\ Prefix /\ s \in Sides /\ Peer(s) = "client" /\ "client" \in Sides
      /\ "client" # s
  BY SidesAre DEF Conversation
<1>2. pc[s] = "select" /\ UNCHANGED <<told, shut, sent>> BY DEF ReadsState
<1>3. ClientRests BY <1>1 DEF ReadsState, Goes, Fails, ClientRests, ControlTypes
<1>4. CASE GetsState(s)
  <2>1. h < Len(sent["client"]) => m = "IPERF_DONE" \/ m = "TEST_END" BY <1>2, ServerHearsNext
  <2>2. h < Len(sent["client"]) => m \in States BY <2>1, SetsAre
  <2>3. h < Len(sent["client"]) /\ pc'[s] = "handle" /\ state'[s] = m BY <1>1, <1>4, <2>2, ReadsOneState
  <2>4. errno' = errno BY <1>4 DEF GetsState
  <2>5. m = "IPERF_DONE" => Over
    <3>1. h + 1 \in 1..Len(sent["client"]) BY <1>1, <2>3 DEF ChannelTypes
    <3>2. HasAsked(h + 1) => m # "IPERF_DONE" BY ScriptsAre, <3>1 DEF HasAsked, Follows
    <3> QED BY <1>1, <3>1, <3>2 DEF ClientSays, Over
  <2> QED BY <1>2, <1>3, <2>3, <2>4, <2>5
<1>5. CASE GetsNone(s)
  <2>1. \E e \in {"IECTRLCLOSE", "IERECVMESSAGE"} : Fails(s, e) BY <1>5 DEF GetsNone
  <2>2. {"IECTRLCLOSE", "IERECVMESSAGE"} \subseteq Errors \ Unsaid BY DEF Errors, Unsaid
  <2>3. errno'[s] \in Errors \ Unsaid /\ pc'[s] = "failed" BY <1>1, <2>1, <2>2 DEF Fails, Goes, ControlTypes
  <2>4. GivesWay BY <1>2, <1>3, <2>3 DEF GivesWay, Talking
  <2> QED BY <1>2, <1>3, <2>4
<1> QED BY <1>1, <1>4, <1>5, GetsIt

\* The setup of the server, and the connection.
Stays ==
  /\ pc["server"] \in Unconnected /\ pc'["server"] \in Unconnected \cup {"off", "cookie"}
  /\ errno' = errno /\ sent'["server"] = sent["server"] /\ shut' = shut /\ told' = told
  /\ pc'["client"] = pc["client"] \/ (pc["client"] = "ready" /\ pc'["client"] = "select")

\* Every step, as the server has part in it.
LEMMA Outcomes ==
  ASSUME Conversation, [Next]_vars
  PROVE  \/ ServerRests \/ Stays \/ (\E names \in Spoken : Utters(names)) \/ GivesWay \/ Leaves
         \/ Expires \/ ClosesExpired \/ CleansUp \/ Finishes \/ ReadsState("server") \/ SyncClose("server")
<1>1. ControlTypes /\ ChannelTypes /\ "client" \in Sides /\ "client" # "server" /\ "server" \in Sides
  BY SidesAre DEF Conversation
<1>2. CASE Connects
  <2>1. /\ pc["server"] = "ready" /\ pc'["client"] = "select" /\ pc'["server"] = "cookie" /\ pc["client"] = "ready"
        /\ errno' = errno /\ shut' = shut /\ told' = told
    BY <1>2, SidesAre DEF Connects
  <2>2. sent'["server"] = sent["server"] BY <1>1, <1>2 DEF Connects, Writes, ChannelTypes
  <2>3. Stays BY <2>1, <2>2 DEF Stays, Unconnected
  <2> QED BY <2>3
<1>3. ASSUME Prepares("server") \/ TakesOption("server") \/ EndsParsing("server") PROVE Stays
  <2>1. /\ pc["server"] = "options" /\ errno' = errno /\ sent' = sent /\ shut' = shut /\ told' = told
        /\ pc' \in {pc, [pc EXCEPT !["server"] = "ready"], [pc EXCEPT !["server"] = "off"]}
    BY <1>3 DEF Prepares, TakesOption, EndsParsing, SetsUp, Goes, channelVars
  <2>2. pc'["client"] = pc["client"] /\ pc'["server"] \in {"options", "ready", "off"}
    BY <1>1, <2>1 DEF ControlTypes
  <2> QED BY <2>1, <2>2 DEF Stays, Unconnected
<1>4. ASSUME Nread("server"), UNCHANGED <<lineVars, test, pc, state, streams, errno, told>> PROVE ServerRests
  BY <1>4 DEF Nread, Receives, ReturnsEarly, ServerRests, Over
<1>5. CASE ServerStep BY <1>3, <1>4, <1>5, ServerUtters DEF ServerStep, SideStep
<1>6. CASE ClientStep BY <1>2, <1>6, ServerRestsAfter DEF ClientStep
<1>7. CASE Mishap BY <1>7, ServerUtters, ServerRestsAfter DEF Mishap
<1> QED BY <1>5, <1>6, <1>7, ServerRestsAfter DEF Next

\* A server that sits at the end of its conversation, or in the middle, and what it leaves alone.
LEMMA OutcomesRest ==
  ASSUME Conversation, [Next]_vars
  PROVE  /\ ServerRests \/ Stays \/ ClientRests
         /\ pc["server"] = "off" => ServerRests
<1>1. ControlTypes /\ "server" \in Sides /\ "client" \in Sides /\ "client" # "server" BY SidesAre DEF Conversation
<1>2. ASSUME SyncClose("server") PROVE pc["server"] = "drain" /\ ClientRests
  BY <1>1, <1>2 DEF SyncClose, Drains, Closes, ClosesSocket, Goes, ClientRests, ControlTypes
<1>3. (\E names \in Spoken : Utters(names)) => ClientRests /\ pc["server"] # "off"
  <2> HIDE DEF Spoken
  <2> QED BY DEF Utters, Talking
<1>4. GivesWay \/ Leaves => ClientRests /\ pc["server"] # "off" BY DEF GivesWay, Leaves, Talking
<1>5. Stays => pc["server"] # "off" BY DEF Stays, Unconnected
<1> HIDE DEF Spoken
<1> QED BY <1>2, <1>3, <1>4, <1>5, Outcomes, ServerCleansUp, ServerFinishes, ServerHears, ServerExpires,
      ServerClosesExpired

LEMMA OverStays ==
  ASSUME Conversation, Over, [Next]_vars
  PROVE  Over'
BY OutcomesRest DEF ServerRests, Stays, ClientRests, Over

LEMMA CutStays ==
  ASSUME Conversation, Cut, [Next]_vars
  PROVE  Cut'
BY OutcomesRest DEF ServerRests, Cut

LEMMA ServerErrsStep ==
  ASSUME Conversation, ServerErrs, [Next]_vars
  PROVE  ServerErrs'
<1>1. /\ ControlTypes /\ Quiet /\ "server" \in Sides /\ "client" \in Sides /\ Codes \subseteq Errors
      /\ "none" \notin Errors /\ Expiry \in Errors /\ "IESENDMESSAGE" \in Errors \ Unsaid
      /\ "IESELECT" \in Unsaid /\ Unsaid \subseteq Errors
  BY SidesAre, CodesAfter DEF Conversation, Errors, Unsaid, Expiry
<1>2. pc["server"] \notin {"drain", "off"} => "server" \notin shut BY <1>1 DEF Quiet, QuietAt
<1>3. pc["server"] \notin {"expired", "failed", "drain", "off"} => Codes = {} /\ errno["server"] = "none"
  BY <1>1 DEF ServerErrs, Reason
<1>4. sent'["server"] = sent["server"] => Codes' = Codes BY CodesAfter
<1>5. CASE ServerRests BY <1>4, <1>5 DEF ServerRests, ServerErrs, Reason
<1>6. CASE Stays
  <2>1. pc["server"] \notin {"expired", "failed", "drain", "off"} BY <1>6 DEF Stays, Unconnected
  <2>2. /\ Codes' = {} /\ errno'["server"] = "none" /\ "server" \notin shut'
        /\ pc'["server"] \notin {"failed", "drain", "handle"}
    BY <1>2, <1>3, <1>4, <1>6, <2>1 DEF Stays, Unconnected
  <2> QED BY <2>2 DEF ServerErrs, Reason
<1>7. CASE \E names \in Spoken : Utters(names)
  <2>1. PICK names \in Spoken : Utters(names) BY <1>7
  <2> HIDE DEF Spoken
  <2>2. pc["server"] \notin {"expired", "failed", "drain", "off"} BY <2>1 DEF Utters, Talking
  <2>3. Codes' = Codes BY <2>1, CodesAfter DEF Utters
  <2>4. /\ pc'["server"] \in {"params", "select", "results"} /\ "server" \notin shut'
        /\ errno'["server"] = "none" /\ Codes' = {}
    BY <1>2, <1>3, <2>1, <2>2, <2>3 DEF Utters
  <2> QED BY <2>4 DEF ServerErrs, Reason
<1>8. ASSUME GivesWay PROVE ServerErrs'
  <2>1. pc["server"] \notin {"expired", "failed", "drain", "off"} BY <1>8 DEF GivesWay, Talking
  <2>2. Starts \subseteq Spoken BY DEF Starts, Spoken
  <2> HIDE DEF Spoken, Starts
  <2>3. Codes' \subseteq {errno'["server"]}
    <3>1. Codes = {} BY <1>3, <2>1
    <3>2. errno'["server"] \in Errors BY <1>8 DEF GivesWay
    <3>3. Codes' = Codes \/ Codes' = Codes \cup {errno'["server"]} BY <1>8, <2>2, <3>2, CodesAfter DEF GivesWay
    <3> QED BY <3>1, <3>3
  <2>4. pc'["server"] = "failed" /\ errno'["server"] \in Errors \ Unsaid BY <1>8 DEF GivesWay
  <2> QED BY <1>1, <2>3, <2>4 DEF ServerErrs, Reason
<1>9. CASE Leaves
  <2>1. Codes' = {} /\ pc'["server"] = "drain" /\ errno'["server"] \in Errors
    BY <1>1, <1>3, <1>4, <1>9 DEF Leaves
  <2> QED BY <1>1, <2>1 DEF ServerErrs
<1>10. CASE Expires
  <2>1. /\ pc["server"] = "select" /\ pc'["server"] = "expired" /\ errno'["server"] = errno["server"]
        /\ "server" \notin shut'
        /\ sent'["server"] \in {sent["server"], sent["server"] \o Error(Expiry)}
    BY <1>2, <1>10, ServerExpires
  <2>2. Codes' \subseteq {Expiry} /\ errno'["server"] = "none"
    <3>1. Codes = {} /\ errno["server"] = "none" BY <1>3, <2>1
    <3>2. Codes' = Codes \/ Codes' = Codes \cup {Expiry} BY <1>1, <2>1, CodesAfter
    <3> QED BY <2>1, <3>1, <3>2
  <2> QED BY <2>1, <2>2 DEF ServerErrs, Reason
<1>11. CASE ClosesExpired
  <2>1. /\ pc["server"] = "expired" /\ pc'["server"] = "off" /\ errno'["server"] = "IESELECT" /\ Codes' = Codes
    BY <1>4, <1>11, ServerClosesExpired
  <2>2. Codes \subseteq {Expiry} BY <2>1 DEF ServerErrs, Reason
  <2> QED BY <2>1, <2>2 DEF ServerErrs, Reason
<1>12. CASE CleansUp
  <2>1. /\ pc["server"] = "failed" /\ pc'["server"] = "drain" /\ ClientRests
        /\ \/ errno["server"] = "none" /\ errno'["server"] = "none" /\ sent'["server"] = sent["server"]
           \/ /\ errno["server"] \in Errors /\ errno'["server"] = errno["server"]
              /\ sent'["server"] = sent["server"] \o Error(errno["server"])
           \/ /\ errno["server"] \in Errors /\ errno'["server"] = "IESENDMESSAGE"
              /\ sent'["server"] = sent["server"]
    BY <1>12, ServerCleansUp
  <2>2. Codes \subseteq {errno["server"]} /\ errno["server"] \notin Unsaid BY <1>1, <2>1 DEF ServerErrs, Reason
  <2>3. CASE errno["server"] = "none" /\ errno'["server"] = "none" /\ sent'["server"] = sent["server"]
    <3>1. Codes' \subseteq {"none"} /\ Over' BY <1>4, <2>1, <2>2, <2>3 DEF ServerErrs, ClientRests, Over
    <3> QED BY <2>1, <2>3, <3>1 DEF ServerErrs, Reason
  <2>4. CASE /\ errno["server"] \in Errors /\ errno'["server"] = errno["server"]
             /\ sent'["server"] = sent["server"] \o Error(errno["server"])
    <3>1. Codes' = Codes \cup {errno["server"]} BY <2>4, CodesAfter
    <3>2. Codes' \subseteq {errno'["server"]} BY <2>2, <2>4, <3>1
    <3> QED BY <1>1, <2>1, <2>2, <2>4, <3>2 DEF ServerErrs, Reason
  <2>5. CASE /\ errno["server"] \in Errors /\ errno'["server"] = "IESENDMESSAGE"
             /\ sent'["server"] = sent["server"]
    <3>1. \E e \in Errors : Codes' \subseteq {e} BY <1>4, <2>2, <2>5
    <3> QED BY <1>1, <2>1, <2>5, <3>1 DEF ServerErrs
  <2> QED BY <2>1, <2>3, <2>4, <2>5
<1>13. CASE Finishes
  <2>1. /\ pc["server"] = "handle" /\ state["server"] = "IPERF_DONE" /\ pc'["server"] = "failed"
        /\ errno'["server"] = "none" /\ ClientRests /\ Codes' = {}
    BY <1>3, <1>4, <1>13, ServerFinishes
  <2>2. Over' BY <2>1 DEF ServerErrs, ClientRests, Over
  <2> QED BY <1>1, <2>1, <2>2 DEF ServerErrs, Reason
<1>14. CASE ReadsState("server")
  <2>1. /\ pc["server"] = "select" /\ ClientRests /\ sent'["server"] = sent["server"] /\ shut' = shut
        /\ \/ /\ pc'["server"] = "handle" /\ errno'["server"] = errno["server"]
              /\ state'["server"] = "IPERF_DONE" => Over
           \/ GivesWay
    BY <1>14, ServerHears
  <2>2. CASE /\ pc'["server"] = "handle" /\ errno'["server"] = errno["server"]
             /\ state'["server"] = "IPERF_DONE" => Over
    <3>1. Codes' = {} /\ errno'["server"] = "none" /\ "server" \notin shut' BY <1>2, <1>3, <1>4, <2>1, <2>2
    <3> QED BY <2>1, <2>2, <3>1 DEF ServerErrs, Reason, ClientRests, Over
  <2> QED BY <1>8, <2>1, <2>2
<1>15. CASE SyncClose("server")
  <2>1. /\ pc["server"] = "drain" /\ pc' \in {pc, [pc EXCEPT !["server"] = "off"]} /\ errno' = errno /\ sent' = sent
    BY <1>15 DEF SyncClose, Drains, Closes, ClosesSocket, Goes
  <2>2. pc'["client"] = pc["client"] /\ pc'["server"] \in {"drain", "off"} BY <1>1, <2>1, SidesAre DEF ControlTypes
  <2>3. Codes' = Codes BY <1>4, <2>1
  <2> QED BY <2>1, <2>2, <2>3 DEF ServerErrs, Reason, Over
<1> HIDE DEF Spoken
<1> QED BY <1>5, <1>6, <1>7, <1>8, <1>9, <1>10, <1>11, <1>12, <1>13, <1>14, <1>15, Outcomes
-----------------------------------------------------------------------------
(* Resets and reads that end early.                                        *)

LEMMA CanSpeak ==
  ASSUME Conversation, Unreset, pc["server"] \notin {"drain", "off"}
  PROVE  CanWrite("server") /\ "client" \notin closed /\ "server" \notin shut /\ "server" \notin closed /\ reset = {}
<1>1. "server" \notin shut /\ "server" \notin closed BY SidesAre DEF Conversation, Quiet, QuietAt
<1> QED BY <1>1 DEF Unreset, CanWrite, Cut

\* What a step of side s does to the channel, other than reading and closing.
Does(s) ==
  /\ pc[s] \notin {"drain", "off"}
  /\ UNCHANGED reset \/ \E names, bytes : Writes(s, names, bytes)
  /\ (pc[s] \notin Reading /\ UNCHANGED ended) \/ ended' = [ended EXCEPT ![s] = "no"]
  /\ shut' \in {shut, shut \cup {s}} /\ closed' = closed /\ late' = late

\* What holds without a reset.
Ends == reset = {} => \A r \in Sides : EndsAt(r)

LEMMA DoesInTime ==
  ASSUME Conversation, Unreset, Ends, NEW s \in Sides, Does(s), Cut => Cut'
  PROVE  Unreset' /\ Ends'
<1>1. ChannelTypes /\ Quiet /\ Sides = {"client", "server"} /\ Peer(s) \in Sides /\ Peer(s) # s
      /\ Peer("client") = "server"
  BY SidesAre DEF Conversation
<1>2. s \notin shut /\ s \notin closed BY <1>1 DEF Does, Quiet, QuietAt
<1>3. reset \subseteq reset' /\ (reset' = reset \/ (s = "client" /\ "server" \in closed /\ reset' = reset \cup {s}))
  <2>1. CASE UNCHANGED reset BY <2>1
  <2>2. ASSUME NEW names, NEW bytes, Writes(s, names, bytes) PROVE <1>3!2 /\ reset \subseteq reset'
    <3>1. CASE s = "server"
      <4>1. "client" \notin closed BY <3>1, CanSpeak DEF Does
      <4> QED BY <2>2, <3>1, <4>1, SidesAre DEF Writes
    <3>2. CASE s = "client" BY <1>1, <2>2, <3>2 DEF Writes
    <3> QED BY <1>1, <3>1, <3>2
  <2> QED BY <2>1, <2>2 DEF Does
<1>4. Unreset'
  <2>1. reset' \subseteq {"client"} /\ (reset' # {} => Cut')
    <3>1. CASE reset' = reset BY <3>1 DEF Unreset
    <3>2. CASE s = "client" /\ "server" \in closed /\ reset' = reset \cup {s}
      <4>1. Cut BY <1>2, <3>2 DEF Unreset
      <4> QED BY <3>2, <4>1 DEF Unreset
    <3> QED BY <1>3, <3>1, <3>2
  <2>2. closed' = closed /\ shut \subseteq shut' BY DEF Does
  <2> QED BY <2>1, <2>2 DEF Unreset
<1>5. ASSUME reset' = {} PROVE \A r \in Sides : EndsAt(r)'
  <2>1. \A r \in Sides : EndsAt(r) BY <1>3, <1>5 DEF Ends
  <2>2. ended'[s] = "no"
    <3>1. CASE pc[s] \notin Reading /\ UNCHANGED ended BY <1>1, <3>1 DEF Quiet, QuietAt
    <3>2. CASE ended' = [ended EXCEPT ![s] = "no"] BY <1>1, <3>2 DEF ChannelTypes
    <3> QED BY <3>1, <3>2 DEF Does
  <2>3. ended'[Peer(s)] = "no"
    <3>1. ended[Peer(s)] = "no" BY <1>1, <1>2, <2>1, SidesAre DEF EndsAt, AtEnd
    <3> QED BY <1>1, <3>1 DEF Does, ChannelTypes
  <2>4. \A r \in Sides : r = s \/ r = Peer(s) BY SidesAre
  <2> QED BY <2>2, <2>3, <2>4 DEF EndsAt
<1> QED BY <1>4, <1>5 DEF Ends

LEMMA ClientDoes ==
  ASSUME Conversation,
         \/ Connects \/ SendsParameters \/ CreatesStreams \/ GoesOn \/ EndsTest \/ SendsResults
         \/ ReadsServerResults \/ ShowsResults \/ ReadsServerError \/ ReadsCode \/ ReadsErrno \/ ClientEnds
         \/ SelectFails
  PROVE  Does("client")
<1> USE DEF Does, Reading, readVars, ReadIsOver
<1>1. CASE Connects BY <1>1, SidesAre DEF Connects
<1>2. CASE SendsParameters BY <1>2 DEF SendsParameters, Says, Handles, unread
<1>3. CASE CreatesStreams BY <1>3 DEF CreatesStreams, Handles, channelVars
<1>4. CASE GoesOn BY <1>4 DEF GoesOn, Handles, channelVars
<1>5. CASE EndsTest BY <1>5 DEF EndsTest, Says, unread
<1>6. CASE SendsResults BY <1>6 DEF SendsResults, Says, Handles, unread
<1>7. CASE ReadsServerResults BY <1>7 DEF ReadsServerResults
<1>8. CASE ShowsResults BY <1>8 DEF ShowsResults, Handles, channelVars
<1>9. CASE ReadsServerError BY <1>9 DEF ReadsServerError, Handles, channelVars
<1>10. CASE ReadsCode BY <1>10 DEF ReadsCode
<1>11. CASE ReadsErrno BY <1>11 DEF ReadsErrno
<1>12. CASE ClientEnds BY <1>12 DEF ClientEnds, Shuts
<1>13. CASE SelectFails BY <1>13 DEF SelectFails, channelVars
<1> QED BY <1>1, <1>2, <1>3, <1>4, <1>5, <1>6, <1>7, <1>8, <1>9, <1>10, <1>11, <1>12, <1>13

LEMMA ServerDoes ==
  ASSUME Conversation,
         \/ ReadsCookie \/ ReadsParameters \/ StartsTest \/ RefusesRate \/ Expires \/ AsksForResults
         \/ ReadsClientResults \/ Finishes \/ CleansUp \/ ServerSelectFails
  PROVE  Does("server")
<1> USE DEF Does, Reading, readVars, ReadIsOver
<1>1. CASE ReadsCookie BY <1>1 DEF ReadsCookie, Says
<1>2. CASE ReadsParameters BY <1>2 DEF ReadsParameters, Says
<1>3. CASE StartsTest BY <1>3 DEF StartsTest, Says, SaysAndFails, EndsUntold, Shuts
<1>4. CASE RefusesRate BY <1>4 DEF RefusesRate, Reports
<1>5. CASE Expires BY <1>5 DEF Expires, Reports
<1>6. CASE AsksForResults BY <1>6 DEF AsksForResults, Says, Handles, unread
<1>7. CASE ReadsClientResults BY <1>7 DEF ReadsClientResults, Says
<1>8. CASE Finishes BY <1>8 DEF Finishes, Handles, channelVars
<1>9. CASE CleansUp BY <1>9 DEF CleansUp, Shuts
<1>10. CASE ServerSelectFails BY <1>10 DEF ServerSelectFails, EndsUntold, Shuts
<1> QED BY <1>1, <1>2, <1>3, <1>4, <1>5, <1>6, <1>7, <1>8, <1>9, <1>10

LEMMA SideDoes ==
  ASSUME Conversation, NEW s \in Sides,
         Prepares(s) \/ TakesOption(s) \/ EndsParsing(s) \/ ReadsState(s) \/ GivesUp(s)
  PROVE  Does(s)
<1> USE DEF Does, Reading, readVars, SetsUp, channelVars
<1>1. CASE Prepares(s) BY <1>1 DEF Prepares
<1>2. CASE TakesOption(s) BY <1>2 DEF TakesOption
<1>3. CASE EndsParsing(s) BY <1>3 DEF EndsParsing
<1>4. CASE ReadsState(s) BY <1>4 DEF ReadsState
<1>5. CASE GivesUp(s) BY <1>5 DEF GivesUp
<1> QED BY <1>1, <1>2, <1>3, <1>4, <1>5

LEMMA NreadInTime ==
  ASSUME Conversation, Unreset, Ends, NEW s \in Sides, Nread(s), UNCHANGED pc, ~late', Cut => Cut'
  PROVE  Unreset' /\ Ends'
<1>1. ChannelTypes /\ Peer(s) \in Sides /\ Peer(s) # s BY SidesAre DEF Conversation
<1>2. UNCHANGED <<shut, closed, reset>> /\ ended[s] = "no" /\ Len(got[s]) < Wanted(s)
  BY DEF Nread, Receives, ReturnsEarly
<1>3. Unreset' BY <1>2 DEF Unreset
<1> SUFFICES ASSUME reset' = {} PROVE \A r \in Sides : EndsAt(r)' BY <1>3 DEF Ends
<1>4. reset = {} /\ \A r \in Sides : EndsAt(r) BY <1>2 DEF Ends
<1>5. \A r \in Sides : Wanted(r)' = Wanted(r) BY DEF Wanted
<1>6. /\ wire'[Peer(s)] = wire[Peer(s)] /\ got'[Peer(s)] = got[Peer(s)] /\ ended'[Peer(s)] = ended[Peer(s)]
  BY <1>1 DEF Nread, Receives, ReturnsEarly, ChannelTypes
<1>7. EndsAt(Peer(s))' BY <1>1, <1>2, <1>4, <1>5, <1>6 DEF EndsAt, AtEnd
<1>8. EndsAt(s)'
  <2>1. CASE Receives(s, Wanted(s)) BY <1>2, <2>1 DEF Receives, EndsAt
  <2>2. CASE ReturnsEarly(s, Wanted(s))
    <3>1. UNCHANGED <<wire, got>> BY <2>2 DEF ReturnsEarly
    <3>2. ended'[s] = "short" /\ AtEnd(s) BY <1>1, <1>4, <2>2 DEF ReturnsEarly, ChannelTypes
    <3> QED BY <3>1, <3>2, <1>2, <1>5 DEF EndsAt, AtEnd
  <2> QED BY <2>1, <2>2 DEF Nread
<1> QED BY <1>7, <1>8, SidesAre

LEMMA SyncCloseInTime ==
  ASSUME Conversation, Unreset, Ends, NEW s \in Sides, SyncClose(s), ~late', Cut => Cut'
  PROVE  Unreset' /\ Ends'
<1>1. ChannelTypes /\ ControlTypes /\ Quiet /\ Peer(s) \in Sides /\ Peer(s) # s /\ s \in {"client", "server"}
  BY SidesAre DEF Conversation
<1>2. /\ pc[s] = "drain" /\ UNCHANGED <<got, ended>> /\ wire' = [wire EXCEPT ![s] = <<>>]
      /\ shut' \in {shut, shut \cup {s}} /\ closed' \in {closed, closed \cup {s}}
      /\ UNCHANGED pc \/ Goes(s, "off")
  BY DEF SyncClose, Drains, Closes, ClosesSocket, readVars
<1>3. (Drains(s) /\ UNCHANGED <<closed, shut, reset>>) \/ (Closes(s) /\ UNCHANGED reset)
  BY DEF SyncClose, Drains, Closes, ClosesSocket, Drained
<1>4. Unreset'
  <2>1. CASE Drains(s) /\ UNCHANGED <<closed, shut, reset>> BY <2>1 DEF Unreset
  <2>2. CASE Closes(s) /\ UNCHANGED reset
    <3>1. wire[s] = <<>> /\ (Peer(s) \in shut \/ s \in reset) BY <2>2 DEF Closes, Drained, AtEnd
    <3>2. s \in reset => s = "client" /\ "server" \in shut BY DEF Unreset, Cut
    <3>3. Peer(s) \in shut BY <3>1, <3>2, SidesAre
    <3>4. shut \subseteq shut' /\ closed' = closed \cup {s} BY <1>2, <2>2 DEF Closes, ClosesSocket
    <3> QED BY <1>1, <2>2, <3>3, <3>4, SidesAre DEF Unreset
  <2> QED BY <1>3, <2>1, <2>2
<1> SUFFICES ASSUME reset' = {} PROVE \A r \in Sides : EndsAt(r)' BY <1>4 DEF Ends
<1>5. \A r \in Sides : EndsAt(r) BY <1>3 DEF Ends
<1>6. pc'[Peer(s)] = pc[Peer(s)] /\ wire'[Peer(s)] = wire[Peer(s)]
  BY <1>1, <1>2 DEF Goes, ControlTypes, ChannelTypes
<1>7. Wanted(Peer(s))' = Wanted(Peer(s)) BY <1>6 DEF Wanted
<1>8. ended'[s] = "no" BY <1>1, <1>2 DEF Quiet, QuietAt, Reading
<1>9. EndsAt(Peer(s))' BY <1>1, <1>2, <1>5, <1>6, <1>7 DEF EndsAt, AtEnd
<1>10. EndsAt(s)' BY <1>8 DEF EndsAt
<1> QED BY <1>9, <1>10, SidesAre

\* A server that closes the connection of an expired test.
LEMMA ClosesExpiredInTime ==
  ASSUME Conversation, Unreset, Ends, ClosesExpired
  PROVE  Unreset' /\ Ends'
<1>1. ChannelTypes /\ Quiet /\ "server" \in Sides /\ "client" \in Sides /\ Peer("server") = "client"
      /\ Peer("client") = "server"
  BY SidesAre DEF Conversation
<1>2. Cut' BY ServerClosesExpired DEF Cut
<1>3. /\ pc["server"] = "expired" /\ closed' = closed \cup {"server"} /\ shut' = shut \cup {"server"}
      /\ reset' \subseteq reset \cup {"client"} /\ ended' = ended
  BY <1>1 DEF ClosesExpired, ClosesSocket
<1>4. Unreset' BY <1>2, <1>3 DEF Unreset
<1>5. "server" \notin shut BY <1>1, <1>3 DEF Quiet, QuietAt
<1>6. ended["server"] = "no" BY <1>1, <1>3 DEF Quiet, QuietAt, Reading
<1>7. reset = {} BY <1>3, CanSpeak
<1>8. ended["client"] = "no" BY <1>1, <1>5, <1>7 DEF Ends, EndsAt, AtEnd
<1> QED BY <1>3, <1>4, <1>6, <1>8, SidesAre DEF Ends, EndsAt

LEMMA ResetsInTime ==
  ASSUME Conversation, InTime, [Next]_vars, ~late'
  PROVE  ~late /\ Unreset' /\ Ends' /\ reset \subseteq reset'
<1>1. "client" \in Sides /\ "server" \in Sides BY SidesAre
<1>2. \/ \E s \in Sides : Does(s)
      \/ \E s \in Sides : Nread(s) /\ UNCHANGED pc
      \/ \E s \in Sides : SyncClose(s)
      \/ ClosesExpired \/ UNCHANGED vars
  <2>1. ASSUME NEW s \in Sides, SideStep(s)
        PROVE  Does(s) \/ (Nread(s) /\ UNCHANGED pc) \/ SyncClose(s)
    BY <2>1, SideDoes DEF SideStep
  <2>2. CASE ClientStep BY <1>1, <2>1, <2>2, ClientDoes DEF ClientStep
  <2>3. CASE ServerStep BY <1>1, <2>1, <2>3, ServerDoes DEF ServerStep
  <2>4. ~Breaks BY DEF Breaks
  <2>5. CASE Mishap BY <1>1, <2>4, <2>5, ServerDoes, ClientDoes DEF Mishap
  <2> QED BY <2>2, <2>3, <2>5 DEF Next
<1>3. late => late'
  <2>1. ASSUME NEW s \in Sides, Nread(s), late PROVE late' BY <2>1 DEF Nread, Receives, ReturnsEarly
  <2>2. ASSUME NEW s \in Sides, SyncClose(s), late PROVE late'
    BY <2>2 DEF SyncClose, Drains, Closes, readVars
  <2>3. ASSUME ClosesExpired, late PROVE late' BY <2>3 DEF ClosesExpired
  <2> QED BY <1>2, <2>1, <2>2, <2>3 DEF Does, vars, channelVars
<1>4. ~late /\ Unreset /\ Ends BY <1>3 DEF InTime, Ends
<1>5. Cut => Cut' BY CutStays
<1>6. CASE UNCHANGED vars
  BY <1>4, <1>6 DEF vars, channelVars, Unreset, Ends, EndsAt, AtEnd, Wanted, Cut
<1>7. reset \subseteq reset'
  <2>1. ASSUME NEW s \in Sides, Does(s) PROVE reset \subseteq reset' BY <2>1 DEF Does, Writes
  <2>2. ASSUME NEW s \in Sides, Nread(s) PROVE reset \subseteq reset' BY <2>2 DEF Nread, Receives, ReturnsEarly
  <2>3. ASSUME NEW s \in Sides, SyncClose(s) PROVE reset \subseteq reset'
    BY <2>3 DEF SyncClose, Drains, Closes, ClosesSocket
  <2>4. ASSUME ClosesExpired PROVE reset \subseteq reset' BY <2>4 DEF ClosesExpired, ClosesSocket
  <2> QED BY <1>2, <2>1, <2>2, <2>3, <2>4 DEF vars, channelVars
<1> QED BY <1>2, <1>4, <1>5, <1>6, <1>7, DoesInTime, NreadInTime, SyncCloseInTime, ClosesExpiredInTime
-----------------------------------------------------------------------------
(* A side is told why, in time.                                            *)

\* The next message comes whole, and nothing comes after the last one.
LEMMA Comes ==
  ASSUME Conversation, NEW s \in Sides, pc[s] \in Listening,
         NEW q, q = sent[Peer(s)], NEW h, h = Len(heard[s])
  PROVE  /\ q \in Seq(Messages) /\ h \in 0..Len(q) /\ Len(got[s]) \in Nat /\ Len(wire[s]) \in Nat
         /\ h < Len(q) => /\ Size(q[h + 1]) <= Len(got[s]) + Len(wire[s])
                          /\ Len(got[s]) = Size(q[h + 1]) => got[s] = Code(q[h + 1])
         /\ h = Len(q) => got[s] = <<>> /\ wire[s] = <<>>
<1> DEFINE g == got[s]  w == wire[s]  b == g \o w
<1>1. /\ g \in Seq(Byte) /\ w \in Seq(Byte) /\ q \in Seq(Messages) /\ h \in 0..Len(q)
      /\ Coded(b, Rest(q, h)) /\ Len(q) \in Nat
  BY SidesAre DEF Conversation, ChannelTypes, Prefix, Streams, Stream
<1> HIDE DEF g, w
<1>2. /\ b \in Seq(Byte) /\ Len(b) = Len(g) + Len(w) /\ Len(w) \in Nat /\ Len(g) \in Nat
      /\ \A i \in 1..Len(g) + Len(w) : b[i] = IF i <= Len(g) THEN g[i] ELSE w[i - Len(g)]
  BY <1>1, ConcatProperties
<1> HIDE DEF b
<1>3. ASSUME h < Len(q)
      PROVE  Size(q[h + 1]) <= Len(g) + Len(w) /\ (Len(g) = Size(q[h + 1]) => g = Code(q[h + 1]))
  <2> DEFINE m == q[h + 1]  r == Rest(q, h)
  <2>1. h \in 0..Len(q) - 1 /\ h + 1 \in 1..Len(q) BY <1>1, <1>3
  <2>2. m \in Messages BY <1>1, <2>1
  <2>3. r \in Seq(Messages) /\ r # <<>> /\ r[1] = m BY <1>1, <2>1, RestTail
  <2> HIDE DEF m, r
  <2>4. Size(m) <= Len(b) /\ \A k \in 1..Size(m) : b[k] = ByteOf(m, k)
    BY <1>1, <1>2, <2>3, CodedHead DEF r
  <2>5. ASSUME Len(g) = Size(m) PROVE g = Code(m)
    <3>1. Code(m) \in Seq(Byte) /\ Len(Code(m)) = Size(m) /\ \A k \in 1..Size(m) : Code(m)[k] = ByteOf(m, k)
      BY <2>2, CodeIsBytes
    <3>2. \A k \in 1..Len(g) : k \in 1..Len(g) + Len(w) /\ k <= Len(g) BY <1>2
    <3>3. \A k \in 1..Len(g) : g[k] = Code(m)[k] BY <1>2, <2>4, <2>5, <3>1, <3>2
    <3> QED BY <1>1, <2>5, <3>1, <3>3, SeqEqual
  <2> QED BY <1>2, <2>4, <2>5 DEF m
<1>4. ASSUME h = Len(q) PROVE g = <<>> /\ w = <<>>
  <2>1. Rest(q, h) = <<>> BY <1>1, <1>4, SubSeqEmpty DEF Rest
  <2>2. <<>> \in Seq(Messages) OBVIOUS
  <2>3. b = <<>> BY <1>1, <1>2, <2>1, <2>2, CodedEmpty
  <2>4. Len(b) = 0 BY <2>3
  <2>5. Len(g) = 0 /\ Len(w) = 0 BY <1>2, <2>4
  <2> QED BY <1>1, <2>5, EmptySeq
<1> QED BY <1>1, <1>2, <1>3, <1>4 DEF g, w

\* Who has written his error has nothing to add.
LEMMA ErrorEnds ==
  ASSUME Conversation, NEW e \in Errors, sent'["server"] = sent["server"] \o Error(e)
  PROVE  HasSaidWhy'
<1> DEFINE d == Error(e)  q == sent["server"]
<1>1. q \in Seq(Messages) BY SidesAre DEF Conversation, ChannelTypes
<1>2. d \in Seq(Messages) /\ Len(d) = 3 /\ d[3] = "errno" BY SpokenAre
<1> HIDE DEF d
<1>3. /\ Len(q \o d) = Len(q) + Len(d) /\ Len(q) \in Nat
      /\ \A i \in 1..Len(d) : (q \o d)[Len(q) + i] = d[i]
  BY <1>1, <1>2, Joins
<1>4. 3 \in 1..Len(d) BY <1>2
<1>5. Len(q \o d) = Len(q) + 3 /\ (q \o d)[Len(q) + 3] = "errno" BY <1>2, <1>3, <1>4
<1>6. Len(q) + 3 > 0 BY <1>3
<1> QED BY <1>5, <1>6 DEF HasSaidWhy, d

LEMMA SaysWhyStep ==
  ASSUME Conversation, ServerErrs, Unreset, SaysWhy, [Next]_vars
  PROVE  SaysWhy'
<1>1. /\ ControlTypes /\ Quiet /\ "server" \in Sides /\ "client" \in Sides /\ "none" \notin Errors
      /\ Codes \subseteq Errors /\ Expiry \in Errors
  BY SidesAre, CodesAfter DEF Conversation, Errors, Expiry
<1>2. pc["server"] \notin {"drain", "off"} => "server" \notin shut BY <1>1 DEF Quiet, QuietAt
<1>3. sent'["server"] = sent["server"] => (HasSaidWhy' <=> HasSaidWhy) /\ Codes' = Codes
  BY CodesAfter DEF HasSaidWhy
<1>4. CASE ServerRests BY <1>3, <1>4 DEF ServerRests, SaysWhy, Untold
<1>5. ASSUME pc["server"] \notin {"drain", "off"}, pc'["server"] \notin {"drain", "expired"},
             "server" \in shut' <=> "server" \in shut
      PROVE  SaysWhy'
  BY <1>2, <1>5 DEF SaysWhy
<1>6. CASE Stays BY <1>5, <1>6 DEF Stays, Unconnected
<1>7. CASE \E names \in Spoken : Utters(names)
  <2> HIDE DEF Spoken
  <2> QED BY <1>5, <1>7 DEF Utters, Talking
<1>8. CASE GivesWay BY <1>5, <1>8 DEF GivesWay, Talking
<1>9. CASE Leaves
  <2>1. Codes = {} BY <1>1, <1>9 DEF Leaves, ServerErrs, Reason
  <2>2. Untold' /\ pc'["server"] = "drain" BY <1>3, <1>9, <2>1 DEF Leaves, Untold
  <2> QED BY <2>2 DEF SaysWhy
<1>10. CASE Expires
  <2>1. /\ pc["server"] = "select" /\ pc'["server"] = "expired" /\ errno' = errno
        /\ CanWrite("server") => sent'["server"] = sent["server"] \o Error(Expiry)
    BY <1>10, ServerExpires
  <2>2. CanWrite("server") BY <2>1, CanSpeak
  <2>3. HasSaidWhy' BY <1>1, <2>1, <2>2, ErrorEnds
  <2> QED BY <2>3 DEF SaysWhy
<1>11. CASE ClosesExpired
  <2>1. HasSaidWhy' BY <1>3, <1>11, ServerClosesExpired DEF SaysWhy
  <2>2. pc'["server"] = "off" BY <1>11, ServerClosesExpired
  <2> QED BY <2>1, <2>2 DEF SaysWhy
<1>12. CASE CleansUp
  <2>1. /\ pc["server"] = "failed" /\ pc'["server"] = "drain"
        /\ \/ errno'["server"] = "none" \/ ~CanWrite("server")
           \/ errno["server"] \in Errors /\ sent'["server"] = sent["server"] \o Error(errno["server"])
    BY <1>12, ServerCleansUp
  <2>2. CanWrite("server") BY <2>1, CanSpeak
  <2>3. errno'["server"] = "none" \/ HasSaidWhy' BY <2>1, <2>2, ErrorEnds
  <2> QED BY <2>1, <2>3 DEF SaysWhy
<1>13. CASE Finishes
  <2>1. pc["server"] = "handle" /\ pc'["server"] = "failed" /\ shut' = shut BY <1>13, ServerFinishes
  <2> QED BY <1>5, <2>1
<1>14. CASE ReadsState("server")
  <2>1. pc["server"] = "select" /\ shut' = shut /\ pc'["server"] \notin {"drain", "expired"}
    BY <1>14, ServerHears DEF GivesWay
  <2> QED BY <1>5, <2>1
<1>15. CASE SyncClose("server")
  <2>1. /\ pc["server"] = "drain" /\ pc' \in {pc, [pc EXCEPT !["server"] = "off"]} /\ errno' = errno /\ sent' = sent
    BY <1>15 DEF SyncClose, Drains, Closes, ClosesSocket, Goes
  <2>2. pc'["server"] \in {"drain", "off"} BY <1>1, <2>1 DEF ControlTypes
  <2> QED BY <1>3, <2>1, <2>2 DEF SaysWhy, Untold
<1> HIDE DEF Spoken
<1> QED BY <1>4, <1>6, <1>7, <1>8, <1>9, <1>10, <1>11, <1>12, <1>13, <1>14, <1>15, Outcomes

\* A server that waits for results gets them, as long as the client is there.
LEMMA ResultsCome ==
  ASSUME Conversation, Unreset, EndsAt("server"), ReadsClientResults, pc'["server"] = "failed"
  PROVE  Over
<1> DEFINE s == "server"  q == sent["client"]  h == Len(heard["server"])  n == Len(Results("client"))
<1>1. /\ ChannelTypes /\ ControlTypes /\ Quiet /\ ClientSays /\ s \in Sides /\ "client" \in Sides
      /\ Peer(s) = "client"
  BY SidesAre DEF Conversation
<1>2. pc[s] = "results" /\ (ended[s] # "no" \/ Len(got[s]) = n) BY DEF ReadsClientResults, Returned
<1>3. CanWrite(s) BY <1>1, <1>2, CanSpeak
<1>4. ~Whole(s, Results("client"))
  <2>1. pc' = [pc EXCEPT ![s] = "failed"] \/ ~Whole(s, Results("client")) \/ pc' = [pc EXCEPT ![s] = "select"]
    BY <1>3 DEF ReadsClientResults, Says, Goes
  <2>2. Whole(s, Results("client")) => pc' = [pc EXCEPT ![s] = "select"]
    BY <1>3 DEF ReadsClientResults, Says, Goes
  <2>3. pc' = [pc EXCEPT ![s] = "select"] => pc'[s] = "select" BY <1>1 DEF ControlTypes
  <2> QED BY <2>2, <2>3
<1>5. CASE ended[s] # "no"
  <2>1. "client" \in shut BY <1>1, <1>5 DEF EndsAt, AtEnd
  <2> QED BY <1>1, <2>1 DEF Quiet, QuietAt, Over
<1>6. CASE ended[s] = "no"
  <2>1. Len(got[s]) = n /\ got[s] # Results("client") BY <1>2, <1>4, <1>6 DEF Whole
  <2>2. h = 3 BY <1>2 DEF Conversation, ServerPlace, ServerAt
  <2>3. /\ q \in Seq(Messages) /\ h \in 0..Len(q)
        /\ h < Len(q) => (Len(got[s]) = Size(q[h + 1]) => got[s] = Code(q[h + 1]))
        /\ h = Len(q) => got[s] = <<>>
    BY <1>1, <1>2, Comes DEF Listening
  <2>4. n = LengthSize + BodySize /\ n > 0 /\ Results("client") = Code("clientResults")
        /\ Size("clientResults") = n
    <3>1. "clientResults" \notin States /\ "clientResults" \in Jsons BY LengthsAre, MessageKinds
    <3> QED BY <3>1, LengthsAre DEF Size
  <2> HIDE DEF n
  <2>5. h < Len(q)
    <3>1. h # Len(q)
      <4>1. SUFFICES ASSUME h = Len(q) PROVE FALSE OBVIOUS
      <4>2. got[s] = <<>> BY <2>3, <4>1
      <4>3. Len(got[s]) = 0 BY <4>2
      <4> QED BY <2>1, <2>4, <4>3
    <3>2. Len(q) \in Nat BY <2>3
    <3> HIDE DEF q, h
    <3> QED BY <2>3, <3>1, <3>2
  <2>6. q[4] # "clientResults"
    <3>1. q[h + 1] = q[4] BY <2>2
    <3> QED BY <2>1, <2>3, <2>4, <2>5, <3>1
  <2>7. 4 \in 1..Len(q) BY <2>2, <2>3, <2>5
  <2>8. ~HasAsked(4)
    <3>1. ClientScript[4] = "clientResults" BY DEF ClientScript
    <3> QED BY <2>6, <3>1 DEF HasAsked, Follows
  <2> QED BY <1>1, <2>7, <2>8 DEF ClientSays, Over
<1> QED BY <1>5, <1>6

\* What the server has said, after it has said more.
LEMMA SaidAfter ==
  ASSUME Conversation, NEW names \in Seq(Messages), sent'["server"] = sent["server"] \o names
  PROVE  /\ \A n \in 1..7 : HasSaid(n) => HasSaid(n)'
         /\ \A n \in 1..7 : HasSaid(n)' => \/ HasSaid(n)
                                           \/ \E i \in 1..Len(names) : /\ names[i] = ServerScript[n]
                                                                       /\ n = Len(sent["server"]) + i
         /\ \A n \in 1..7 : Len(sent["server"]) = n - 1 /\ Len(names) > 0 /\ names[1] = ServerScript[n] => HasSaid(n)'
<1> DEFINE q == sent["server"]  r == sent'["server"]
<1>1. q \in Seq(Messages) /\ Len(ServerScript) = 7 BY SidesAre, ScriptsAre DEF Conversation, ChannelTypes
<1> HIDE DEF q, r
<1>2. /\ Len(r) = Len(q) + Len(names) /\ Len(q) \in Nat /\ Len(names) \in Nat
      /\ \A i \in 1..Len(q) : r[i] = q[i]
      /\ \A i \in 1..Len(names) : r[Len(q) + i] = names[i]
  BY <1>1, Joins DEF q, r
<1>3. ASSUME NEW n \in 1..7
      PROVE  /\ HasSaid(n) <=> n <= Len(q) /\ q[n] = ServerScript[n]
             /\ HasSaid(n)' <=> n <= Len(r) /\ r[n] = ServerScript[n]
  BY <1>1 DEF HasSaid, Follows, q, r
<1>4. ASSUME NEW n \in 1..7, HasSaid(n) PROVE HasSaid(n)'
  <2>1. n \in 1..Len(q) /\ n <= Len(r) BY <1>2, <1>3, <1>4
  <2> QED BY <1>2, <1>3, <1>4, <2>1
<1>5. ASSUME NEW n \in 1..7, HasSaid(n)', ~HasSaid(n)
      PROVE  \E i \in 1..Len(names) : names[i] = ServerScript[n] /\ n = Len(q) + i
  <2>1. n <= Len(r) /\ r[n] = ServerScript[n] BY <1>3, <1>5
  <2>2. n > Len(q)
    <3>1. n <= Len(q) => n \in 1..Len(q) BY <1>2
    <3>2. n <= Len(q) => r[n] = q[n] BY <1>2, <3>1
    <3>3. ~(n <= Len(q)) BY <1>3, <1>5, <2>1, <3>2
    <3> QED BY <1>2, <3>3
  <2> DEFINE i == n - Len(q)
  <2>3. i \in 1..Len(names) /\ n = Len(q) + i BY <1>2, <2>1, <2>2
  <2>4. r[Len(q) + i] = names[i] BY <1>2, <2>3
  <2> HIDE DEF i
  <2>5. names[i] = ServerScript[n] BY <2>1, <2>3, <2>4
  <2> QED BY <2>3, <2>5
<1>6. ASSUME NEW n \in 1..7, Len(q) = n - 1, Len(names) > 0, names[1] = ServerScript[n] PROVE HasSaid(n)'
  <2>1. 1 \in 1..Len(names) /\ Len(q) + 1 = n /\ n <= Len(r) BY <1>2, <1>6
  <2>2. r[Len(q) + 1] = names[1] BY <1>2, <2>1
  <2> QED BY <1>3, <1>6, <2>1, <2>2
<1> QED BY <1>4, <1>5, <1>6 DEF q

LEMMA SpokenInOrder ==
  ASSUME NEW names \in Spoken, NEW i \in 1..Len(names), names[i] = "EXCHANGE_RESULTS"
  PROVE  names[1] = "EXCHANGE_RESULTS"
<1>1. ASSUME NEW m PROVE \A k \in 1..Len(<<m>>) : <<m>>[k] = <<m>>[1]
  <2>1. \A k \in 1..Len(<<m>>) : k = 1 OBVIOUS
  <2> QED BY <2>1
<1>2. ASSUME NEW m, NEW n PROVE \A k \in 1..Len(<<m, n>>) : <<m, n>>[k] \in {m, n}
  <2>1. \A k \in 1..Len(<<m, n>>) : k = 1 \/ k = 2 OBVIOUS
  <2>2. <<m, n>>[1] = m /\ <<m, n>>[2] = n OBVIOUS
  <2> QED BY <2>1, <2>2
<1>3. CASE names \in {<<"PARAM_EXCHANGE">>, <<"CREATE_STREAMS">>, <<"TEST_START">>, <<"EXCHANGE_RESULTS">>}
  BY <1>1, <1>3
<1>4. CASE names = <<"TEST_START", "TEST_RUNNING">>
  <2>1. names[i] \in {"TEST_START", "TEST_RUNNING"} BY <1>2, <1>4
  <2> QED BY <2>1
<1>5. CASE names = <<"serverResults", "DISPLAY_RESULTS">>
  <2>1. names[i] \in {"serverResults", "DISPLAY_RESULTS"} BY <1>2, <1>5
  <2> QED BY <2>1
<1> QED BY <1>3, <1>4, <1>5 DEF Spoken

\* A client that waits for results is not left without them.
LEMMA SaysResultsStep ==
  ASSUME Conversation, ServerErrs, Unreset, reset = {}, EndsAt("server"), SaysResults, [Next]_vars
  PROVE  SaysResults'
<1>1. /\ ControlTypes /\ Quiet /\ "server" \in Sides /\ "client" \in Sides /\ ServerPlace
      /\ sent["server"] \in Seq(Messages) /\ Len(sent["server"]) \in Nat
  BY SidesAre DEF Conversation, ChannelTypes
<1>2. Over => Over' BY OverStays
<1>3. ASSUME sent'["server"] = sent["server"] PROVE \A n \in 1..7 : HasSaid(n)' <=> HasSaid(n)
  BY <1>3 DEF HasSaid, Follows
<1>4. ASSUME sent'["server"] = sent["server"], pc["server"] # "results" \/ Over PROVE SaysResults'
  BY <1>2, <1>3, <1>4 DEF SaysResults
<1>5. CASE ServerRests BY <1>2, <1>3, <1>5 DEF ServerRests, SaysResults
<1>6. CASE Stays BY <1>4, <1>6 DEF Stays, Unconnected
<1>7. CASE \E names \in Spoken : Utters(names)
  <2>1. PICK names \in Spoken : Utters(names) BY <1>7
  <2> HIDE DEF Spoken
  <2>2. names \in Seq(Messages) /\ Len(names) > 0 /\ sent'["server"] = sent["server"] \o names
    BY <2>1, SpokenAre DEF Utters
  <2>3. CASE HasSaid(5)
    <3>1. CASE HasSaid(6) BY <2>2, <3>1, SaidAfter DEF SaysResults
    <3>2. CASE Over BY <1>2, <3>2 DEF SaysResults
    <3>3. CASE pc["server"] = "results"
      <4>1. names[1] = "serverResults" BY <2>1, <3>3 DEF Utters
      <4>2. Len(sent["server"]) = 6 - 1 BY <1>1, <3>3 DEF ServerPlace, ServerAt
      <4>3. ServerScript[6] = "serverResults" BY DEF ServerScript
      <4>4. HasSaid(6)' BY <2>2, <4>1, <4>2, <4>3, SaidAfter
      <4> QED BY <4>4 DEF SaysResults
    <3> QED BY <2>3, <3>1, <3>2, <3>3 DEF SaysResults
  <2>4. CASE HasSaid(5)' /\ ~HasSaid(5)
    <3>1. \E i \in 1..Len(names) : names[i] = ServerScript[5] BY <2>2, <2>4, SaidAfter
    <3>2. ServerScript[5] = "EXCHANGE_RESULTS" BY DEF ServerScript
    <3>3. names[1] = "EXCHANGE_RESULTS" BY <3>1, <3>2, SpokenInOrder
    <3> QED BY <2>1, <3>3 DEF Utters, SaysResults
  <2>5. CASE ~HasSaid(5)' BY <2>5 DEF SaysResults
  <2> QED BY <2>3, <2>4, <2>5
<1>8. ASSUME pc["server"] # "results" \/ Over, NEW names \in Seq(Messages), sent'["server"] = sent["server"] \o names,
             \A i \in 1..Len(names) : names[i] # ServerScript[5]
      PROVE  SaysResults'
  <2>1. 5 \in 1..7 /\ 6 \in 1..7 OBVIOUS
  <2>2. HasSaid(5)' => HasSaid(5) \/ \E i \in 1..Len(names) : names[i] = ServerScript[5] BY <1>8, <2>1, SaidAfter
  <2>3. HasSaid(6) => HasSaid(6)' BY <1>8, <2>1, SaidAfter
  <2> QED BY <1>2, <1>8, <2>2, <2>3 DEF SaysResults
<1>9. ASSUME pc["server"] # "results" \/ Over, NEW e \in Errors, sent'["server"] = sent["server"] \o Error(e)
      PROVE  SaysResults'
  <2>1. /\ Error(e) \in Seq(Messages) /\ Len(Error(e)) = 3
        /\ Error(e)[1] = "SERVER_ERROR" /\ Error(e)[2] = e /\ Error(e)[3] = "errno"
    BY SpokenAre
  <2>2. \A i \in 1..3 : i = 1 \/ i = 2 \/ i = 3 OBVIOUS
  <2>3. \A i \in 1..Len(Error(e)) : Error(e)[i] \in Errors \cup {"SERVER_ERROR", "errno"} BY <2>1, <2>2
  <2>4. ServerScript[5] \notin Errors \cup {"SERVER_ERROR", "errno"} BY ScriptsAre
  <2> QED BY <1>8, <1>9, <2>1, <2>3, <2>4
<1>10. ASSUME GivesWay PROVE SaysResults'
  <2>1. pc["server"] # "results" \/ Over BY <1>10, ResultsCome DEF GivesWay
  <2>2. ASSUME NEW names \in Starts, sent'["server"] = sent["server"] \o names PROVE SaysResults'
    <3>1. names \in Spoken BY DEF Starts, Spoken
    <3>2. names \in Seq(Messages) BY <3>1, SpokenAre
    <3>3. names[1] # "EXCHANGE_RESULTS" BY DEF Starts
    <3>4. ServerScript[5] = "EXCHANGE_RESULTS" BY DEF ServerScript
    <3>5. \A i \in 1..Len(names) : names[i] # ServerScript[5] BY <3>1, <3>3, <3>4, SpokenInOrder
    <3> QED BY <1>8, <2>1, <2>2, <3>2, <3>5
  <2> HIDE DEF Starts
  <2> QED BY <1>4, <1>9, <1>10, <2>1, <2>2 DEF GivesWay
<1>11. CASE CleansUp BY <1>4, <1>9, <1>11, ServerCleansUp
<1>12. CASE Finishes BY <1>4, <1>12, ServerFinishes
<1>13. CASE ReadsState("server") BY <1>4, <1>10, <1>13, ServerHears
<1>14. CASE SyncClose("server")
  <2>1. pc["server"] = "drain" /\ sent' = sent BY <1>14 DEF SyncClose, Drains, Closes, ClosesSocket
  <2> QED BY <1>4, <2>1
<1>15. CASE Leaves BY <1>4, <1>15 DEF Leaves
<1>16. CASE Expires
  <2>1. Expiry \in Errors BY DEF Expiry, Errors
  <2>2. pc["server"] # "results" BY <1>16, ServerExpires
  <2> QED BY <1>4, <1>9, <1>16, <2>1, <2>2, ServerExpires
<1>17. CASE ClosesExpired BY <1>4, <1>17, ServerClosesExpired
<1> HIDE DEF Spoken
<1> QED BY <1>5, <1>6, <1>7, <1>10, <1>11, <1>12, <1>13, <1>14, <1>15, <1>16, <1>17, Outcomes

\* A client that waits for results gets them.
LEMMA ServerResultsCome ==
  ASSUME Conversation, EndsAt("client"), SaysResults, ReadsServerResults
  PROVE  Whole("client", Results("server"))
<1> DEFINE s == "client"  q == sent["server"]  h == Len(heard["client"])  n == Len(Results("server"))
<1>1. /\ ChannelTypes /\ Quiet /\ s \in Sides /\ "server" \in Sides /\ Peer(s) = "server"
  BY SidesAre DEF Conversation
<1>2. pc[s] = "results" /\ (ended[s] # "no" \/ Len(got[s]) = n) /\ ~Over BY DEF ReadsServerResults, Returned, Over
<1>3. h = 5 /\ HasSaid(5) BY <1>2 DEF Conversation, ClientPlace, ClientAt
<1>4. /\ q \in Seq(Messages) /\ Len(got[s]) \in Nat /\ Len(wire[s]) \in Nat
      /\ h < Len(q) => /\ Size(q[h + 1]) <= Len(got[s]) + Len(wire[s])
                       /\ Len(got[s]) = Size(q[h + 1]) => got[s] = Code(q[h + 1])
      /\ h = Len(q) => got[s] = <<>> /\ wire[s] = <<>>
  BY <1>1, <1>2, Comes DEF Listening
<1>5. /\ n = LengthSize + BodySize /\ n \in Nat /\ n > 0 /\ Results("server") = Code("serverResults")
      /\ Size("serverResults") = n
  <2>1. "serverResults" \notin States /\ "serverResults" \in Jsons BY LengthsAre, MessageKinds
  <2> QED BY <2>1, LengthsAre DEF Size
<1>6. ended[s] # "no" => wire[s] = <<>> /\ Len(wire[s]) = 0 /\ Len(got[s]) < n /\ "server" \in shut
  <2>1. Wanted(s) = n BY <1>1, <1>2 DEF Wanted
  <2> QED BY <1>1, <2>1 DEF EndsAt, AtEnd
<1> HIDE DEF n
<1>7. CASE HasSaid(6)
  <2>1. 6 <= Len(q) /\ q[6] = "serverResults" BY <1>7 DEF HasSaid, Follows, ServerScript
  <2>2. h + 1 = 6 /\ h < Len(q) /\ Len(q) \in Nat BY <1>3, <1>4, <2>1
  <2>3. q[h + 1] = "serverResults" BY <2>1, <2>2
  <2> HIDE DEF q, h
  <2>4. /\ n <= Len(got[s]) + Len(wire[s])
        /\ Len(got[s]) = n => got[s] = Results("server")
    BY <1>4, <1>5, <2>2, <2>3
  <2>5. ended[s] = "no"
    <3>1. Len(got[s]) \in Nat /\ Len(wire[s]) \in Nat /\ n \in Nat BY <1>4, <1>5
    <3>2. n <= Len(got[s]) + Len(wire[s]) BY <2>4
    <3> DEFINE a == Len(got[s])  b == Len(wire[s])
    <3>3. ended[s] # "no" => b = 0 /\ a < n BY <1>6
    <3>4. a \in Nat /\ b \in Nat /\ n \in Nat /\ n <= a + b BY <3>1, <3>2
    <3> HIDE DEF a, b
    <3>5. b = 0 /\ a < n => FALSE BY <3>4
    <3> QED BY <3>3, <3>5
  <2> QED BY <1>2, <2>4, <2>5 DEF Whole
<1>8. CASE ~HasSaid(6)
  <2>1. pc["server"] = "results" BY <1>2, <1>3, <1>8 DEF SaysResults
  <2>2. Len(q) = 5 BY <2>1 DEF Conversation, ServerPlace, ServerAt
  <2>3. got[s] = <<>> BY <1>3, <1>4, <2>2
  <2>4. Len(got[s]) = 0 BY <2>3
  <2>5. "server" \notin shut BY <1>1, <2>1 DEF Quiet, QuietAt
  <2> QED BY <1>2, <1>5, <1>6, <2>4, <2>5
<1> QED BY <1>7, <1>8

\* The code that a client reads is one the server has reported.
LEMMA CodeComes ==
  ASSUME Conversation, EndsAt("client"), ReadsCode
  PROVE  told' \in Codes /\ errno' = errno
<1> DEFINE s == "client"  q == sent["server"]  h == Len(heard["client"])
<1>1. s \in Sides /\ Peer(s) = "server" BY SidesAre
<1>2. pc[s] = "code" /\ (ended[s] # "no" \/ Len(got[s]) = IntSize) BY DEF ReadsCode, Returned
<1>3. /\ h < Len(q) /\ q[h + 1] \in Errors
      /\ Len(got[s]) = IntSize => got[s][1][1] = q[h + 1]
  BY <1>2, CodeFollows
<1>4. /\ q \in Seq(Messages) /\ h \in 0..Len(q) /\ Len(got[s]) \in Nat /\ Len(wire[s]) \in Nat
      /\ h < Len(q) => Size(q[h + 1]) <= Len(got[s]) + Len(wire[s])
  BY <1>1, <1>2, Comes DEF Listening
<1>5. q[h + 1] \in Codes
  <2>1. h + 1 \in 1..Len(q) BY <1>3, <1>4
  <2> QED BY <1>3, <2>1 DEF Codes
<1>6. Size(q[h + 1]) = IntSize BY <1>3, MessageKinds DEF Size
<1>7. ended[s] = "no"
  <2>1. ended[s] # "no" => Len(wire[s]) = 0 /\ Len(got[s]) < IntSize BY <1>1, <1>2 DEF EndsAt, AtEnd, Wanted
  <2>2. IntSize \in Nat /\ Len(got[s]) \in Nat /\ Len(wire[s]) \in Nat BY <1>4, LengthsAre
  <2>3. IntSize <= Len(got[s]) + Len(wire[s]) BY <1>3, <1>4, <1>6
  <2> DEFINE a == Len(got[s])  b == Len(wire[s])
  <2>4. (ended[s] # "no" => b = 0 /\ a < IntSize) /\ a \in Nat /\ b \in Nat /\ IntSize <= a + b BY <2>1, <2>2, <2>3
  <2> HIDE DEF a, b
  <2>5. b = 0 /\ a < IntSize => FALSE BY <2>2, <2>4
  <2> QED BY <2>4, <2>5
<1>8. told' = got[s][1][1] /\ errno' = errno BY <1>7 DEF ReadsCode
<1> QED BY <1>2, <1>3, <1>5, <1>7, <1>8

\* A client that waits for a state does not find the connection closed, unless the server has
\* gone without a word.
LEMMA StateComes ==
  ASSUME Conversation, ServerErrs, reset = {}, SaysWhy, ReadsState("client"), ~Untold
  PROVE  GetsState("client")
<1> DEFINE s == "client"  q == sent["server"]  h == Len(heard["client"])
<1>1. ChannelTypes /\ Quiet /\ ClientPlace /\ s \in Sides /\ Peer(s) = "server" BY SidesAre DEF Conversation
<1>2. pc[s] = "select" /\ ~Over BY DEF ReadsState, Over
<1> SUFFICES ASSUME ~GetsState(s) PROVE FALSE OBVIOUS
<1>3. AtEnd(s) /\ wire[s] = <<>> /\ "server" \in shut
  <2>1. GetsNone(s) BY <1>1, GetsIt
  <2> QED BY <1>1, <2>1 DEF GetsNone, AtEnd
<1>4. errno["server"] # "none" BY <1>2, <1>3 DEF ServerErrs
<1>5. Len(q) > 0 /\ q[Len(q)] = "errno" BY <1>3, <1>4 DEF SaysWhy, HasSaidWhy
<1>6. h = Len(q)
  <2>1. /\ q \in Seq(Messages) /\ h \in 0..Len(q)
        /\ h < Len(q) => Size(q[h + 1]) <= Len(got[s]) + Len(wire[s])
    BY <1>1, <1>2, Comes DEF Listening
  <2>2. got[s] = <<>> BY <1>1, <1>2, NothingRead DEF Reading
  <2>3. Len(got[s]) = 0 /\ Len(wire[s]) = 0 BY <1>3, <2>2
  <2>4. Size(q[h + 1]) \in Nat \ {0} BY SizePositive
  <2>5. Len(q) \in Nat BY <2>1
  <2> HIDE DEF q, h
  <2> QED BY <2>1, <2>3, <2>4, <2>5
<1>7. HasSaid(h)
  <2>1. h > 0 BY <1>5, <1>6
  <2> QED BY <1>1, <1>2, <2>1 DEF ClientPlace, ClientAt
<1>8. h \in 1..7 /\ q[h] = ServerScript[h]
  <2>1. h <= 7 /\ q[h] = ServerScript[h] BY <1>7, ScriptsAre DEF HasSaid, Follows
  <2>2. h \in Nat /\ h > 0 BY <1>1, <1>5, <1>6 DEF ChannelTypes
  <2> HIDE DEF h
  <2> QED BY <2>1, <2>2
<1>9. ServerScript[h] # "errno" BY <1>8, ScriptsAre
<1> QED BY <1>5, <1>6, <1>8, <1>9

\* What the server has reported, it has reported.
LEMMA CodesStay ==
  ASSUME Conversation, [Next]_vars
  PROVE  Codes \subseteq Codes' /\ (Untold => Untold')
<1>1. /\ sent'["server"] = sent["server"] => Codes' = Codes
      /\ \A names \in Spoken : sent'["server"] = sent["server"] \o names => Codes' = Codes
      /\ \A e \in Errors : sent'["server"] = sent["server"] \o Error(e) => Codes' = Codes \cup {e}
  BY CodesAfter
<1>2. ControlTypes /\ "server" \in Sides /\ "client" \in Sides BY SidesAre DEF Conversation
<1>3. Starts \subseteq Spoken BY DEF Starts, Spoken
<1> HIDE DEF Spoken, Starts
<1>4. CASE ServerRests BY <1>1, <1>4 DEF ServerRests, Untold
<1>5. ASSUME pc["server"] \notin {"drain", "off"}, Codes \subseteq Codes' PROVE Codes \subseteq Codes' /\ (Untold => Untold')
  BY <1>5 DEF Untold
<1>6. CASE Stays BY <1>1, <1>5, <1>6 DEF Stays, Unconnected
<1>7. CASE \E names \in Spoken : Utters(names) BY <1>1, <1>5, <1>7 DEF Utters, Talking
<1>8. ASSUME GivesWay PROVE Codes \subseteq Codes' /\ (Untold => Untold')
  BY <1>1, <1>3, <1>5, <1>8 DEF GivesWay, Talking
<1>9. CASE Leaves BY <1>1, <1>5, <1>9 DEF Leaves
<1>10. CASE Expires
  <2>1. Expiry \in Errors BY DEF Expiry, Errors
  <2> QED BY <1>1, <1>5, <1>10, <2>1, ServerExpires
<1>11. CASE ClosesExpired BY <1>1, <1>5, <1>11, ServerClosesExpired
<1>12. CASE CleansUp
  <2>1. Codes \subseteq Codes' BY <1>1, <1>12, ServerCleansUp
  <2> QED BY <1>5, <1>12, <2>1, ServerCleansUp
<1>13. CASE Finishes BY <1>1, <1>5, <1>13, ServerFinishes
<1>14. CASE ReadsState("server") BY <1>1, <1>5, <1>8, <1>14, ServerHears
<1>15. CASE SyncClose("server")
  <2>1. /\ pc["server"] = "drain" /\ pc' \in {pc, [pc EXCEPT !["server"] = "off"]} /\ errno' = errno /\ sent' = sent
    BY <1>15 DEF SyncClose, Drains, Closes, ClosesSocket, Goes
  <2>2. pc'["server"] \in {"drain", "off"} BY <1>2, <2>1 DEF ControlTypes
  <2> QED BY <1>1, <2>1, <2>2 DEF Untold
<1> QED BY <1>4, <1>6, <1>7, <1>8, <1>9, <1>10, <1>11, <1>12, <1>13, <1>14, <1>15, Outcomes

LEMMA IsToldStep ==
  ASSUME Conversation, ServerErrs, reset = {}, EndsAt("client"), SaysWhy, SaysResults, IsTold, [Next]_vars
  PROVE  IsTold' \/ late'
<1>1. ControlTypes /\ "server" \in Sides /\ "client" \in Sides /\ "client" # "server"
  BY SidesAre DEF Conversation
<1>2. Codes \subseteq Codes' /\ (Untold => Untold') BY CodesStay
<1>3. ASSUME pc'["client"] = "errno" => pc["client"] = "errno", told' = told, errno'["client"] = errno["client"]
      PROVE  IsTold'
  BY <1>2, <1>3 DEF IsTold
<1>4. CASE ServerStep \/ ServerSelectFails \/ RefusesRate
  <2>1. CASE ClientRests BY <1>3, <2>1 DEF ClientRests
  <2>2. CASE ReadsCookie \/ ReadsParameters \/ StartsTest \/ AsksForResults \/ ReadsClientResults
               \/ GivesUp("server") \/ RefusesRate \/ ServerSelectFails
    <3>1. (\E names \in Spoken : Utters(names)) => ClientRests
      <4> HIDE DEF Spoken
      <4> QED BY DEF Utters
    <3> HIDE DEF Spoken
    <3> QED BY <2>1, <2>2, <3>1, ServerUtters DEF GivesWay, Leaves
  <2>3. CASE Finishes BY <2>1, <2>3, ServerFinishes
  <2>4. CASE CleansUp BY <2>1, <2>4, ServerCleansUp
  <2>5. CASE ReadsState("server") BY <2>1, <2>5, ServerHears
  <2>6. CASE Expires BY <2>1, <2>6, ServerExpires
  <2>7. CASE ClosesExpired BY <2>1, <2>7, ServerClosesExpired
  <2>8. CASE Prepares("server") \/ TakesOption("server") \/ EndsParsing("server") \/ SyncClose("server")
    <3>1. /\ errno' = errno /\ told' = told
          /\ pc' = pc \/ \E to \in {"ready", "off"} : pc' = [pc EXCEPT !["server"] = to]
      BY <2>8 DEF Prepares, TakesOption, EndsParsing, SyncClose, Goes
    <3>2. pc'["client"] = pc["client"] BY <1>1, <3>1 DEF ControlTypes
    <3> QED BY <1>3, <3>1, <3>2
  <2>9. CASE UNCHANGED <<lineVars, test, pc, state, streams, errno, told>> BY <1>3, <2>9
  <2> QED BY <1>4, <2>2, <2>3, <2>4, <2>5, <2>6, <2>7, <2>8, <2>9 DEF ServerStep, SideStep
<1>5. ASSUME errno' = errno, told' = told, pc' = pc \/ \E to \in ClientPCs \ {"errno"} : Goes("client", to)
      PROVE  IsTold'
  <2>1. pc'["client"] = "errno" => pc["client"] = "errno" BY <1>1, <1>5 DEF Goes, ControlTypes
  <2> QED BY <1>3, <1>5, <2>1
<1>6. ASSUME NEW e, Fails("client", e), e \in OwnFailures \cup Codes \/ Untold PROVE IsTold'
  <2>1. pc'["client"] = "failed" /\ errno'["client"] = e BY <1>1, <1>6 DEF Fails, Goes, ControlTypes
  <2> QED BY <1>2, <1>6, <2>1 DEF IsTold
<1>7. ASSUME NEW names, NEW bytes, NEW to \in ClientPCs \ {"errno"}, NEW st, Says("client", names, bytes, to, st),
             UNCHANGED told
      PROVE  IsTold'
  <2>1. CanWrite("client") BY DEF CanWrite
  <2> QED BY <1>5, <1>7, <2>1 DEF Says
<1>8. CASE ClientStep \/ SelectFails
  <2> USE DEF ClientPCs
  <2>1. CASE SendsParameters BY <1>7, <2>1 DEF SendsParameters, unread
  <2>2. CASE EndsTest BY <1>7, <2>2 DEF EndsTest, unread
  <2>3. CASE SendsResults BY <1>7, <2>3 DEF SendsResults, unread
  <2>4. CASE CreatesStreams
    <3>1. CASE UNCHANGED errno /\ Goes("client", "select") BY <1>5, <2>4, <3>1 DEF CreatesStreams
    <3>2. CASE Fails("client", "IESTREAMCONNECT") BY <1>6, <3>2 DEF OwnFailures
    <3> QED BY <2>4, <3>1, <3>2 DEF CreatesStreams
  <2>5. CASE GoesOn
    <3>1. CASE UNCHANGED errno /\ Goes("client", "select") BY <1>5, <2>5, <3>1 DEF GoesOn
    <3>2. CASE \E e \in OwnFailures : Fails("client", e) BY <1>6, <3>2
    <3> QED BY <2>5, <3>1, <3>2 DEF GoesOn, OwnFailures
  <2>6. CASE ShowsResults BY <1>5, <2>6 DEF ShowsResults, AfterDisplay
  <2>7. CASE ReadsServerError
    <3>1. Goes("client", "code") /\ errno' = errno /\ told' = told BY <2>7 DEF ReadsServerError
    <3> QED BY <1>5, <3>1
  <2>8. CASE ClientEnds
    <3>1. CanWrite("client") BY DEF CanWrite
    <3>2. Goes("client", "drain") /\ errno' = errno /\ told' = told BY <2>8, <3>1 DEF ClientEnds
    <3> QED BY <1>5, <3>2
  <2>9. CASE Connects
    <3>1. pc'["client"] = "select" /\ errno' = errno /\ told' = told BY <2>9 DEF Connects
    <3> QED BY <1>3, <3>1
  <2>10. CASE ReadsServerResults
    <3>1. Goes("client", "select") /\ errno' = errno /\ told' = told
      BY <2>10, ServerResultsCome DEF ReadsServerResults
    <3> QED BY <1>5, <3>1
  <2>11. CASE ReadsCode
    <3>1. told' \in Codes /\ errno' = errno BY <2>11, CodeComes
    <3> QED BY <1>2, <3>1 DEF IsTold
  <2>12. CASE ReadsErrno
    <3>1. pc["client"] = "errno" /\ Fails("client", told) BY <1>1, <2>12 DEF ReadsErrno, EndsAt
    <3> QED BY <1>6, <3>1 DEF IsTold
  <2>13. CASE ReadsState("client")
    <3>1. CASE GetsState("client")
      <4>1. Goes("client", "handle") /\ errno' = errno /\ told' = told BY <2>13, <3>1 DEF ReadsState, GetsState
      <4> QED BY <1>5, <4>1
    <3>2. CASE GetsNone("client") /\ Untold
      <4>1. \E e : Fails("client", e) BY <3>2 DEF GetsNone
      <4> QED BY <1>6, <3>2, <4>1
    <3> QED BY <1>1, <2>13, <3>1, <3>2, StateComes, GetsIt
  <2>14. CASE Prepares("client") BY <1>5, <2>14 DEF Prepares
  <2>15. CASE TakesOption("client") BY <1>5, <2>15 DEF TakesOption
  <2>16. CASE EndsParsing("client") BY <1>5, <2>16 DEF EndsParsing
  <2>17. CASE SyncClose("client") BY <1>5, <2>17 DEF SyncClose
  <2>18. CASE UNCHANGED <<lineVars, test, pc, state, streams, errno, told>> BY <1>5, <2>18
  <2>19. CASE GivesUp("client") BY <1>6, <2>19 DEF GivesUp, OwnFailures
  <2>20. CASE SelectFails BY <1>6, <2>20 DEF SelectFails, OwnFailures
  <2> QED BY <1>8, <2>1, <2>2, <2>3, <2>4, <2>5, <2>6, <2>7, <2>8, <2>9, <2>10, <2>11, <2>12, <2>13, <2>14,
        <2>15, <2>16, <2>17, <2>18, <2>19, <2>20 DEF ClientStep, SideStep
<1>9. CASE Breaks BY <1>9 DEF Breaks
<1>10. CASE UNCHANGED vars BY <1>5, <1>10 DEF vars
<1> QED BY <1>4, <1>8, <1>9, <1>10 DEF Next, Mishap

LEMMA RefusalsStep ==
  ASSUME Refusals, [Next]_vars
  PROVE  Refusals'
<1>1. Conversation /\ ServerErrs /\ InTime BY DEF Refusals
<1>2. Conversation' /\ ServerErrs' BY <1>1, StepConversation, ServerErrsStep
<1>3. ASSUME ~late'
      PROVE  Unreset' /\ (reset' = {} => (\A s \in Sides : EndsAt(s))' /\ SaysWhy' /\ SaysResults' /\ IsTold')
  <2>1. ~late /\ Unreset' /\ Ends' /\ reset \subseteq reset' BY <1>1, <1>3, ResetsInTime
  <2>2. Unreset BY <1>1, <2>1 DEF InTime
  <2>3. ASSUME reset' = {}
        PROVE  (\A s \in Sides : EndsAt(s))' /\ SaysWhy' /\ SaysResults' /\ IsTold'
    <3>1. reset = {} BY <2>1, <2>3
    <3>2. EndsAt("client") /\ EndsAt("server") /\ SaysWhy /\ SaysResults /\ IsTold
      BY <1>1, <2>1, <3>1, SidesAre DEF InTime
    <3>3. (\A s \in Sides : EndsAt(s))' BY <2>1, <2>3 DEF Ends
    <3> QED BY <1>1, <1>3, <2>2, <3>1, <3>2, <3>3, SaysWhyStep, SaysResultsStep, IsToldStep
  <2> QED BY <2>1, <2>3
<1>4. InTime' BY <1>3 DEF InTime
<1> QED BY <1>2, <1>4 DEF Refusals

LEMMA InitRefusals == ASSUME Init PROVE Refusals
<1>1. Conversation BY InitConversation
<1>2. /\ sent["server"] = <<>> /\ errno = [s \in Sides |-> "none"] /\ pc = [s \in Sides |-> "options"]
      /\ shut = {} /\ closed = {} /\ reset = {} /\ ended = [s \in Sides |-> "no"]
      /\ "server" \in Sides /\ "client" \in Sides
  BY SidesAre DEF Init, ChannelInit
<1>3. Len(sent["server"]) = 0 /\ 1..Len(sent["server"]) = {}
  <2>1. Len(<<>>) = 0 /\ 1..0 = {} OBVIOUS
  <2> QED BY <1>2, <2>1
<1>4. errno["server"] = "none" /\ errno["client"] = "none" /\ pc["server"] = "options" /\ pc["client"] = "options"
  BY <1>2
<1>5. Codes = {} BY <1>3 DEF Codes
<1>6. ServerErrs BY <1>2, <1>4, <1>5 DEF ServerErrs
<1>7. Unreset /\ \A s \in Sides : EndsAt(s) BY <1>2 DEF Unreset, EndsAt
<1>8. ~HasSaid(5) BY <1>3 DEF HasSaid, Follows
<1> QED BY <1>1, <1>2, <1>4, <1>6, <1>7, <1>8 DEF Refusals, InTime, SaysWhy, SaysResults, IsTold

\* A SERVER_ERROR is followed by its code.
LEMMA ReportedAre == ASSUME Conversation PROVE Reported \subseteq Codes
<1> DEFINE q == sent["server"]
<1>1. q \in Seq(Messages) /\ Len(q) \in Nat /\ WellSaid(q) BY SidesAre DEF Conversation, ChannelTypes, ServerSays
<1>2. ASSUME NEW k \in 1..Len(q) - 1, q[k] = "SERVER_ERROR" PROVE q[k + 1] \in Codes
  <2>1. k \in 1..Len(q) /\ k + 1 \in 1..Len(q) BY <1>1
  <2>2. InPlace(q, k) BY <1>1, <2>1 DEF WellSaid
  <2>3. "SERVER_ERROR" \notin Errors /\ "SERVER_ERROR" # "errno" BY DEF Errors
  <2>4. ~Follows(ServerScript, q, k)
    <3>1. k <= 7 => k \in 1..7 BY <2>1
    <3>2. k \in 1..7 => ServerScript[k] # "SERVER_ERROR" BY ScriptsAre
    <3> QED BY <1>2, <3>1, <3>2, ScriptsAre DEF Follows
  <2>5. q[k + 1] \in Errors BY <1>2, <2>2, <2>3, <2>4 DEF InPlace
  <2> QED BY <2>1, <2>5 DEF Codes
<1> QED BY <1>2 DEF Reported

\* As long as no read runs out of time and the path holds: the server reports at most one error,
\* its own or that the test has expired; it has written it before it shuts the connection, unless
\* i_errno is set only behind cleanup_server; only the close in server_timer_proc may reset its
\* client; the results a client waits for come; and without a reset a client fails with nothing
\* but the server's code, an error of its own, or because its server has gone untold.
THEOREM RefusalsHold == Spec => []Refusals
<1>1. Init => Refusals BY InitRefusals
<1>2. Refusals /\ [Next]_vars => Refusals' BY RefusalsStep
<1> QED BY <1>1, <1>2, PTL DEF Spec

\* A client whose server reports an error fails with that code (RefusalIsTold), whatever the
\* setups and the sizes of the messages, unless a message comes too late, the path breaks or the
\* client has failed by itself; of an expired test it may get a reset instead.
THEOREM RefusalsAreTold == Spec => []RefusalIsTold
<1>1. ASSUME Refusals PROVE RefusalIsTold
  <2> SUFFICES ASSUME pc = [s \in Sides |-> "off"], ~late, errno["client"] \notin OwnFailures \cup {"none"},
                      NEW code \in Reported
               PROVE  errno["client"] = code \/ (code = Expiry /\ "client" \in reset)
    BY DEF RefusalIsTold, Expiry
  <2>1. code \in Codes BY <1>1, ReportedAre DEF Refusals
  <2>2. Unreset BY <1>1 DEF Refusals, InTime
  <2>3. CASE reset = {}
    <3>1. errno["client"] \in Codes BY <1>1, <2>1, <2>3 DEF Refusals, InTime, IsTold, Untold
    <3> QED BY <1>1, <2>1, <3>1 DEF Refusals, ServerErrs
  <2>4. CASE reset # {}
    <3>1. "client" \in reset /\ errno["server"] = "IESELECT" BY <2>2, <2>4 DEF Unreset, Cut
    <3>2. Codes \subseteq {Expiry} BY <1>1, <3>1 DEF Refusals, ServerErrs, Reason
    <3> QED BY <2>1, <3>1, <3>2
  <2> QED BY <2>3, <2>4
<1> QED BY <1>1, RefusalsHold, PTL
-----------------------------------------------------------------------------
(* The same test on both sides.                                            *)

\* The side a command line says it is, it is or will be.
Sided(s) ==
  \/ test[s].role = s
  \/ \E o \in left[s] : o.opt \in DOMAIN Roles /\ Roles[o.opt] = s

SetAt(s) ==
  /\ left[s] \subseteq line[s].options
  /\ Typed(test[s])
  /\ pc[s] = "options" /\ test[s].ok =>
       Parsing(test[s], line[s].options) /\ (~line[s].app => Sided(s))

ClientSet == ClientReady(test["client"], line["client"].options)

\* What the two agree on.
OneTest ==
  LET c == test["client"]
      t == test["server"]
  IN /\ Ended(t, line["client"].options)
     /\ \A f \in Common : c[f] = t[f]
     /\ c.protocol = "udp" => c.gso = t.gso /\ c.gsoSize = t.gsoSize
     /\ <<c.mode, t.mode>> \in {<<"sender", "receiver">>, <<"receiver", "sender">>, <<"both", "both">>}
     /\ t.maxDuration # 0 => t.duration # 0 /\ t.duration + t.omit <= t.maxDuration
     /\ t.limit # 0 => \A total \in 0..SizeValues - 1 :
          total = t.rate * t.streams * (IF t.bidirectional THEN 2 ELSE 1) => total <= t.limit

Setting ==
  /\ line \in Setups /\ DOMAIN left = Sides /\ DOMAIN test = Sides
  /\ \A s \in Sides : SetAt(s)
  /\ pc["client"] = "ready" => ClientSet
  /\ pc["server"] \in {"ready", "cookie", "params"} => ServerReady(test["server"])
  /\ Len(sent["client"]) > 0 => ClientSet /\ test["client"].blksize # 0
  /\ HasSaid(2) => OneTest
  /\ Running => HasSaid(2)
-----------------------------------------------------------------------------
LEMMA LinesAre ==
  ASSUME NEW l \in Setups, NEW s \in Sides
  PROVE  /\ l[s].streams \in Int /\ l[s].app \in BOOLEAN
         /\ \A o \in l[s].options : AnOption(o)
         /\ ~l[s].app => \E o \in l[s].options : o.opt \in DOMAIN Roles /\ Roles[o.opt] = s
BY SetupsAssumption DEF AnOption

LEMMA InitSetting == ASSUME Init PROVE Setting
<1>1. Conversation BY InitConversation
<1>2. /\ line \in Setups /\ left = [s \in Sides |-> line[s].options] /\ test = [s \in Sides |-> Defaults]
      /\ pc = [s \in Sides |-> "options"] /\ state = [s \in Sides |-> "none"]
      /\ sent = [s \in Sides |-> <<>>]
  BY DEF Init, ChannelInit
<1>3. ASSUME NEW s \in Sides PROVE SetAt(s)
  <2>1. left[s] = line[s].options /\ test[s] = Defaults BY <1>2
  <2>2. Parsing(test[s], line[s].options) BY <2>1, DefaultsReady
  <2>3. Typed(test[s]) BY <2>2 DEF Parsing
  <2>4. ~line[s].app => Sided(s) BY <1>2, <2>1, LinesAre DEF Sided
  <2> QED BY <2>1, <2>2, <2>3, <2>4 DEF SetAt
<1>4. /\ pc["client"] = "options" /\ pc["server"] = "options" /\ Len(sent["client"]) = 0 /\ Len(sent["server"]) = 0
      /\ state["client"] = "none"
  BY <1>2, SidesAre
<1>5. ~HasSaid(2) BY <1>4 DEF HasSaid, Follows
<1>6. ~Running BY <1>4 DEF Running
<1> QED BY <1>2, <1>3, <1>4, <1>5, <1>6 DEF Setting

\* A step that leaves the tests alone.
Untouched ==
  /\ UNCHANGED <<line, left, test>>
  /\ \A s \in Sides : (pc'[s] = "options" <=> pc[s] = "options") /\ (pc'[s] = "ready" => pc[s] = "ready")
  /\ pc'["server"] \in {"ready", "cookie", "params"} => pc["server"] \in {"ready", "cookie", "params"}
  /\ Len(sent'["client"]) > 0 => Len(sent["client"]) > 0
  /\ HasSaid(2)' <=> HasSaid(2)
  /\ Running' => Running \/ HasSaid(2)

LEMMA UntouchedKeeps == ASSUME Setting, Untouched PROVE Setting'
<1>1. UNCHANGED <<line, left, test>> BY DEF Untouched
<1>2. ASSUME NEW s \in Sides PROVE SetAt(s)'
  <2>1. Sided(s)' <=> Sided(s) BY <1>1 DEF Sided
  <2> QED BY <1>1, <2>1 DEF Setting, SetAt, Untouched
<1>3. (ClientSet' <=> ClientSet) /\ (OneTest' <=> OneTest) BY <1>1 DEF ClientSet, OneTest
<1> QED BY <1>1, <1>2, <1>3, SidesAre DEF Setting, Untouched

LEMMA SaidSame ==
  ASSUME Conversation,
         \/ sent'["server"] = sent["server"]
         \/ \E e \in Errors : sent'["server"] = sent["server"] \o Error(e)
  PROVE  HasSaid(2)' <=> HasSaid(2)
<1>1. CASE sent'["server"] = sent["server"] BY <1>1 DEF HasSaid
<1>2. ASSUME NEW e \in Errors, sent'["server"] = sent["server"] \o Error(e) PROVE HasSaid(2)' <=> HasSaid(2)
  <2> DEFINE q == sent["server"]
  <2>1. q \in Seq(Messages) /\ WellSaid(q) BY SidesAre DEF Conversation, ChannelTypes, ServerSays
  <2>2. 2 \in 1..7 OBVIOUS
  <2>3. Follows(ServerScript, q \o Error(e), 2) => Follows(ServerScript, q, 2)
    <3> HIDE DEF q
    <3> QED BY <2>1, <2>2, WellSaidError
  <2>4. Error(e) \in Seq(Messages) BY SpokenAre
  <2>5. HasSaid(2) => HasSaid(2)' BY <1>2, <2>2, <2>4, SaidAfter
  <2> QED BY <1>2, <2>3, <2>5 DEF HasSaid
<1> QED BY <1>1, <1>2

LEMMA SaidTwo ==
  ASSUME Conversation
  PROVE  /\ HasSaid(3) \/ HasSaid(4) \/ HasSaid(5) \/ HasSaid(7) => HasSaid(2)
         /\ pc["server"] \in {"select", "results"} => HasSaid(2)
         /\ pc["server"] = "handle" /\ state["server"] = "TEST_END" => HasSaid(2)
<1>1. \A h \in {3, 4, 5, 7} : h \in 1..7 /\ 2 \in 1..h OBVIOUS
<1>2. \A h \in {3, 4, 5, 7} : HasSaid(h) => HasSaid(2) BY <1>1, SaidBefore
<1>3. \A st, n, h : ServerAt(st, n, h) /\ n > 0 => HasSaid(n) BY DEF ServerAt
<1>4. 2 > 0 /\ 4 > 0 /\ 5 > 0 /\ 7 > 0 OBVIOUS
<1>5. pc["server"] \in {"select", "results"} => HasSaid(2) BY <1>2, <1>3, <1>4 DEF Conversation, ServerPlace
<1>6. pc["server"] = "handle" /\ state["server"] = "TEST_END" => HasSaid(2)
  BY <1>2, <1>3, <1>4 DEF Conversation, ServerPlace
<1> QED BY <1>2, <1>5, <1>6

LEMMA ClientLeavesTests ==
  ASSUME Conversation,
         \/ SendsParameters \/ CreatesStreams \/ GoesOn \/ EndsTest \/ SendsResults
         \/ ReadsServerResults \/ ShowsResults \/ ReadsServerError \/ ReadsCode \/ ReadsErrno \/ ClientEnds
         \/ SelectFails \/ GivesUp("client") \/ ReadsState("client")
  PROVE  Untouched
<1>1. ServerRests BY ServerRestsAfter DEF SideStep
<1>2. ControlTypes /\ Sides = {"client", "server"} /\ "client" \in Sides BY SidesAre DEF Conversation
<1>3. /\ pc["client"] \notin Unconnected \cup {"drain", "off"} /\ pc'["client"] \notin Unconnected
      /\ UNCHANGED <<line, left, test>>
      /\ Running' => Running \/ ReadsState("client")
  <2> USE <1>2 DEF Goes, Fails, Enters, Says, Handles, unread, lineVars, ControlTypes, Unconnected, Running
  <2>1. CASE SendsParameters BY <2>1 DEF SendsParameters
  <2>2. CASE CreatesStreams BY <2>2 DEF CreatesStreams
  <2>3. CASE GoesOn BY <2>3 DEF GoesOn
  <2>4. CASE EndsTest BY <2>4 DEF EndsTest
  <2>5. CASE SendsResults BY <2>5 DEF SendsResults
  <2>6. CASE ReadsServerResults BY <2>6 DEF ReadsServerResults
  <2>7. CASE ShowsResults BY <2>7 DEF ShowsResults, AfterDisplay
  <2>8. CASE ReadsServerError BY <2>8 DEF ReadsServerError
  <2>9. CASE ReadsCode BY <2>9 DEF ReadsCode
  <2>10. CASE ReadsErrno BY <2>10 DEF ReadsErrno
  <2>11. CASE ClientEnds BY <2>11 DEF ClientEnds
  <2>12. CASE ReadsState("client") BY <2>12 DEF ReadsState
  <2>13. CASE SelectFails BY <2>13 DEF SelectFails
  <2>14. CASE GivesUp("client") BY <2>14 DEF GivesUp
  <2> QED BY <2>1, <2>2, <2>3, <2>4, <2>5, <2>6, <2>7, <2>8, <2>9, <2>10, <2>11, <2>12, <2>13, <2>14
<1>4. HasSaid(2)' <=> HasSaid(2) BY <1>1, SaidSame DEF ServerRests
<1>5. Len(sent["client"]) > 0
  <2>1. Len(sent["client"]) \in 1..4 BY <1>3 DEF Conversation, ClientPlace
  <2>2. \A n \in 1..4 : n > 0 OBVIOUS
  <2> QED BY <2>1, <2>2
<1>6. ASSUME ReadsState("client"), Running' PROVE Running \/ HasSaid(2)
  <2>1. Conversation' BY <1>6, ClientReadsState
  <2>2. CASE pc'["client"] = "handle"
    <3>1. \/ ClientAt("CREATE_STREAMS", 2, 2)' \/ ClientAt("TEST_START", 2, 3)' \/ ClientAt("TEST_RUNNING", 2, 4)'
      BY <1>6, <2>1, <2>2 DEF Conversation, ClientPlace, ClientAt, ToldError, Running
    <3>2. HasSaid(2)' \/ HasSaid(3)' \/ HasSaid(4)' BY <3>1 DEF ClientAt
    <3>3. \A n : HasSaid(n)' <=> HasSaid(n) BY <1>6 DEF ReadsState, HasSaid
    <3> QED BY <3>2, <3>3, SaidTwo
  <2>3. CASE pc'["client"] # "handle"
    <3>1. state' = state BY <1>2, <1>6, <2>3 DEF ReadsState, Goes, Enters, ControlTypes
    <3> QED BY <1>6, <3>1 DEF Running
  <2> QED BY <2>2, <2>3
<1> QED BY <1>1, <1>2, <1>3, <1>4, <1>5, <1>6 DEF Untouched, ServerRests, Unconnected

LEMMA ServerLeavesTests ==
  ASSUME Conversation, Conversation',
         \/ ReadsCookie \/ StartsTest \/ GivesUp("server") \/ ServerSelectFails \/ RefusesRate \/ Expires
         \/ ClosesExpired \/ AsksForResults \/ ReadsClientResults \/ Finishes \/ CleansUp \/ ReadsState("server")
  PROVE  Untouched
<1>1. ControlTypes /\ ChannelTypes /\ Sides = {"client", "server"} /\ "server" \in Sides /\ "client" \in Sides
  BY SidesAre DEF Conversation
<1>2. /\ pc["server"] \notin Unconnected /\ pc'["server"] \notin Unconnected \cup {"cookie"}
      /\ UNCHANGED <<line, left, test>> /\ state'["client"] = state["client"]
      /\ pc'["server"] = "params" => pc["server"] = "cookie"
  <2> USE <1>1 DEF Goes, Fails, Enters, Says, SaysAndFails, Reports, EndsUntold, Handles, unread, lineVars,
                   ControlTypes, Unconnected
  <2>1. CASE ReadsCookie BY <2>1 DEF ReadsCookie
  <2>2. CASE StartsTest BY <2>2 DEF StartsTest
  <2>3. CASE GivesUp("server") BY <2>3 DEF GivesUp
  <2>4. CASE RefusesRate BY <2>4 DEF RefusesRate
  <2>5. CASE AsksForResults BY <2>5 DEF AsksForResults
  <2>6. CASE ReadsClientResults BY <2>6 DEF ReadsClientResults
  <2>7. CASE Finishes BY <2>7 DEF Finishes
  <2>8. CASE CleansUp BY <2>8 DEF CleansUp
  <2>9. CASE ReadsState("server") BY <2>9 DEF ReadsState
  <2>10. CASE ServerSelectFails BY <2>10 DEF ServerSelectFails
  <2>11. CASE Expires BY <2>11 DEF Expires
  <2>12. CASE ClosesExpired BY <2>12 DEF ClosesExpired
  <2> QED BY <2>1, <2>2, <2>3, <2>4, <2>5, <2>6, <2>7, <2>8, <2>9, <2>10, <2>11, <2>12
<1>3. ASSUME NEW names \in Spoken, sent'["server"] = sent["server"] \o names, HasSaid(2)
      PROVE  HasSaid(2)' <=> HasSaid(2)
  BY <1>3, SpokenAre, SaidAfter
<1>4. \A names \in Starts : names \in Spoken BY DEF Starts, Spoken
<1>5. ClientRests /\ (HasSaid(2)' <=> HasSaid(2))
  <2>1. CASE \/ ReadsCookie \/ StartsTest \/ AsksForResults \/ ReadsClientResults \/ GivesUp("server") \/ RefusesRate
             \/ ServerSelectFails
    <3>1. (\E names \in Spoken : Utters(names)) \/ GivesWay \/ Leaves BY <2>1, ServerUtters
    <3>2. CASE GivesWay
      <4>1. CASE ReadsCookie
        <5>1. sent' = sent BY <1>1, <3>2, <4>1 DEF ReadsCookie, GivesWay, Says, Goes, Fails, ControlTypes
        <5> QED BY <3>2, <5>1, SaidSame DEF GivesWay
      <4>2. CASE ~ReadsCookie
        <5>1. HasSaid(2)
          BY <2>1, <4>2, SaidTwo DEF StartsTest, AsksForResults, ReadsClientResults, GivesUp, RefusesRate, Reports,
                                     ServerSelectFails, Handles
        <5>2. ClientRests /\ errno'["server"] \in Errors BY <3>2 DEF GivesWay
        <5>3. CASE sent'["server"] \in {sent["server"], sent["server"] \o Error(errno'["server"])}
          BY <5>2, <5>3, SaidSame
        <5>4. ASSUME NEW names \in Starts, sent'["server"] = sent["server"] \o names PROVE HasSaid(2)' <=> HasSaid(2)
          BY <1>3, <1>4, <5>1, <5>4
        <5> QED BY <3>2, <5>2, <5>3, <5>4 DEF GivesWay
      <4> QED BY <4>1, <4>2
    <3>3. ASSUME NEW names \in Spoken, Utters(names) PROVE ClientRests /\ (HasSaid(2)' <=> HasSaid(2))
      <4>1. CASE ReadsCookie
        <5>1. pc["server"] = "cookie" /\ pc'["server"] = "params"
          BY <1>1, <3>3, <4>1 DEF ReadsCookie, Utters, Says, Goes, Fails, ControlTypes
        <5>2. Len(sent["server"]) = 0 /\ Len(sent'["server"]) = 1 BY <5>1 DEF Conversation, ServerPlace, ServerAt
        <5>3. ~HasSaid(2) /\ ~HasSaid(2)' BY <5>2 DEF HasSaid, Follows
        <5> QED BY <3>3, <5>3 DEF Utters
      <4>2. CASE ~ReadsCookie
        <5>1. HasSaid(2)
          BY <2>1, <4>2, SaidTwo DEF StartsTest, AsksForResults, ReadsClientResults, GivesUp, RefusesRate, Reports,
                                     ServerSelectFails, Handles
        <5> QED BY <1>3, <3>3, <5>1 DEF Utters
      <4> QED BY <4>1, <4>2
    <3>4. CASE Leaves BY <3>4, SaidSame DEF Leaves
    <3> QED BY <3>1, <3>2, <3>3, <3>4
  <2>2. CASE Finishes BY <2>2, ServerFinishes, SaidSame
  <2>3. CASE CleansUp BY <2>3, ServerCleansUp, SaidSame
  <2>4. CASE ReadsState("server") BY <2>4, ServerHears, SaidSame DEF GivesWay
  <2>5. CASE Expires
    <3>1. Expiry \in Errors BY DEF Expiry, Errors
    <3> QED BY <2>5, <3>1, ServerExpires, SaidSame
  <2>6. CASE ClosesExpired BY <2>6, ServerClosesExpired, SaidSame
  <2> QED BY <2>1, <2>2, <2>3, <2>4, <2>5, <2>6
<1> QED BY <1>1, <1>2, <1>5 DEF Untouched, ClientRests, Running, Unconnected

LEMMA ChannelLeavesTests ==
  ASSUME Conversation,
         \/ \E s \in Sides : SyncClose(s)
         \/ \E s \in Sides : Nread(s) /\ UNCHANGED <<lineVars, test, pc, state, streams, errno, told>>
         \/ Breaks \/ UNCHANGED vars
  PROVE  Untouched
<1>1. /\ UNCHANGED <<line, left, test, state, sent>>
      /\ pc' = pc \/ \E s \in Sides : pc[s] = "drain" /\ pc' = [pc EXCEPT ![s] = "off"]
  <2>1. CASE \E s \in Sides : SyncClose(s) BY <2>1 DEF SyncClose, Drains, Closes, ClosesSocket, Goes, lineVars, readVars
  <2>2. CASE \E s \in Sides : Nread(s) /\ UNCHANGED <<lineVars, test, pc, state, streams, errno, told>>
    BY <2>2 DEF Nread, Receives, ReturnsEarly, lineVars
  <2>3. CASE Breaks BY <2>3 DEF Breaks, lineVars
  <2>4. CASE UNCHANGED vars BY <2>4 DEF vars, channelVars
  <2> QED BY <2>1, <2>2, <2>3, <2>4
<1>2. DOMAIN pc = Sides /\ "client" \in Sides /\ "server" \in Sides BY SidesAre DEF Conversation, ControlTypes
<1>3. \A s \in Sides : pc'[s] = pc[s] \/ (pc[s] = "drain" /\ pc'[s] = "off") BY <1>1, <1>2
<1>4. HasSaid(2)' <=> HasSaid(2) BY <1>1, SaidSame
<1> QED BY <1>1, <1>2, <1>3, <1>4 DEF Untouched, Running

-----------------------------------------------------------------------------
(* The setup.                                                              *)

\* A step of one side's setup: what it must show of the side's test.
LEMMA SetupLeaves ==
  ASSUME Conversation, Setting, NEW s \in Sides, SetsUp(s), NEW t,
         test' = [test EXCEPT ![s] = t], UNCHANGED <<line, state, channelVars>>,
         left'[Peer(s)] = left[Peer(s)], DOMAIN left' = Sides,
         pc' = pc \/ \E to \in {"ready", "off"} : pc' = [pc EXCEPT ![s] = to],
         SetAt(s)',
         pc'[s] = "ready" => IF s = "client" THEN ClientReady(t, line[s].options) ELSE ServerReady(t)
  PROVE  Setting'
<1>1. /\ ControlTypes /\ ChannelTypes /\ Sides = {"client", "server"} /\ Peer(s) \in Sides /\ Peer(s) # s
      /\ DOMAIN pc = Sides
  BY SidesAre DEF Conversation, ControlTypes
<1>2. pc[s] = "options" /\ (s = "client" => pc["server"] # "options") BY DEF SetsUp
<1>3. DOMAIN test = Sides /\ test'[s] = t /\ test'[Peer(s)] = test[Peer(s)] /\ DOMAIN test' = Sides
  BY <1>1 DEF Setting
<1>4. pc'[s] \in {"options", "ready", "off"} /\ pc'[Peer(s)] = pc[Peer(s)] BY <1>1, <1>2
<1>5. sent' = sent /\ state' = state BY DEF channelVars
<1>6. Len(sent["server"]) = 0
  <2>1. CASE s = "server" BY <1>2, <2>1 DEF Conversation, ServerPlace, ServerAt
  <2>2. CASE s = "client"
    <3>1. sent["server"] = <<>> BY <1>1, <1>2, <2>2 DEF Conversation, Fresh, Unconnected
    <3> QED BY <3>1
  <2> QED BY <1>1, <2>1, <2>2
<1>7. ~HasSaid(2) /\ ~HasSaid(2)' BY <1>5, <1>6 DEF HasSaid, Follows
<1>8. ~Running' BY <1>5, <1>7 DEF Setting, Running
<1>9. SetAt(Peer(s))'
  <2>1. Sided(Peer(s))' <=> Sided(Peer(s)) BY <1>3 DEF Sided
  <2> QED BY <1>1, <1>3, <1>4, <2>1 DEF Setting, SetAt
<1>10. \A x \in Sides : SetAt(x)'
  <2>1. Sides = {s, Peer(s)} BY <1>1
  <2> QED BY <1>9, <2>1
<1>11. CASE s = "client"
  <2>1. Peer(s) = "server" BY <1>1, <1>11
  <2>2. Len(sent'["client"]) = 0
    <3>1. sent["client"] = <<>> BY <1>1, <1>2, <1>11 DEF Conversation, Fresh, Unconnected
    <3> QED BY <1>5, <3>1
  <2>3. ~(Len(sent'["client"]) > 0) BY <2>2
  <2>4. pc'["client"] = "ready" => ClientSet' BY <1>3, <1>11 DEF ClientSet
  <2>5. pc'["server"] \in {"ready", "cookie", "params"} => ServerReady(test'["server"])
    BY <1>3, <1>4, <2>1 DEF Setting
  <2> QED BY <1>3, <1>7, <1>8, <1>10, <2>3, <2>4, <2>5 DEF Setting
<1>12. CASE s = "server"
  <2>1. Peer(s) = "client" BY <1>1, <1>12
  <2>2. ClientSet' <=> ClientSet BY <1>3, <2>1 DEF ClientSet
  <2>3. pc'["client"] = "ready" => ClientSet' BY <1>4, <2>1, <2>2 DEF Setting
  <2>4. Len(sent'["client"]) > 0 => ClientSet' /\ test'["client"].blksize # 0
    BY <1>3, <1>5, <2>1, <2>2 DEF Setting
  <2>5. pc'["server"] \in {"ready", "cookie", "params"} => ServerReady(test'["server"])
    BY <1>3, <1>4, <1>12
  <2> QED BY <1>3, <1>7, <1>8, <1>10, <2>3, <2>4, <2>5 DEF Setting
<1> QED BY <1>1, <1>11, <1>12

LEMMA PreparesSets == ASSUME Conversation, Setting, NEW s \in Sides, Prepares(s) PROVE Setting'
<1> DEFINE n == line[s].streams  t == Prepared(s, n)
<1>1. /\ line \in Setups /\ s \in {"client", "server"} /\ DOMAIN test = Sides /\ DOMAIN left = Sides
      /\ DOMAIN pc = Sides
  BY SidesAre DEF Setting, Conversation, ControlTypes
<1>2. /\ SetsUp(s) /\ line[s].app /\ test' = [test EXCEPT ![s] = t]
      /\ Goes(s, IF test'[s].ok THEN "ready" ELSE "off")
      /\ UNCHANGED <<line, left, state, channelVars>>
  BY DEF Prepares, lineVars
<1>3. n \in Int BY <1>1, LinesAre
<1>4. Typed(t) /\ (t.ok => IF s = "client" THEN ClientReady(t, line[s].options) ELSE ServerReady(t))
  <2> HIDE DEF n
  <2> QED BY <1>1, <1>3, PreparedIs
<1> HIDE DEF t
<1>5. test'[s] = t BY <1>1, <1>2
<1>6. pc' = [pc EXCEPT ![s] = IF t.ok THEN "ready" ELSE "off"] /\ pc'[s] = (IF t.ok THEN "ready" ELSE "off")
  BY <1>1, <1>2, <1>5 DEF Goes
<1>7. SetAt(s)' BY <1>2, <1>4, <1>5, <1>6 DEF SetAt, Setting
<1>8. pc'[s] = "ready" => IF s = "client" THEN ClientReady(t, line[s].options) ELSE ServerReady(t) BY <1>4, <1>6
<1>9. \E to \in {"ready", "off"} : pc' = [pc EXCEPT ![s] = to] BY <1>6
<1> QED BY <1>1, <1>2, <1>7, <1>8, <1>9, SetupLeaves

LEMMA TakesOptionSets == ASSUME Conversation, Setting, NEW s \in Sides, TakesOption(s) PROVE Setting'
<1>1. /\ line \in Setups /\ DOMAIN test = Sides /\ DOMAIN left = Sides /\ SetAt(s)
      /\ Peer(s) \in Sides /\ Peer(s) # s
  BY SidesAre DEF Setting
<1>2. PICK o \in left[s] : /\ left' = [left EXCEPT ![s] = @ \ {o}]
                           /\ test' = [test EXCEPT ![s] = IF @.ok THEN Takes(@, o) ELSE @]
  BY DEF TakesOption
<1>3. SetsUp(s) /\ UNCHANGED <<line, pc, state, channelVars>> BY DEF TakesOption
<1> DEFINE u == test[s]  t == IF u.ok THEN Takes(u, o) ELSE u  options == line[s].options
<1>4. /\ test' = [test EXCEPT ![s] = t] /\ test'[s] = t /\ left'[s] = left[s] \ {o} /\ left'[Peer(s)] = left[Peer(s)]
      /\ DOMAIN left' = Sides
  BY <1>1, <1>2
<1>5. o \in options /\ AnOption(o) BY <1>1, <1>2, LinesAre DEF SetAt
<1>6. pc[s] = "options" BY <1>3 DEF SetsUp
<1>7. Typed(u) /\ (u.ok => Parsing(u, options) /\ (~line[s].app => Sided(s))) BY <1>1, <1>6 DEF SetAt
<1> HIDE DEF u, options
<1>8. Typed(t) /\ (t.ok => Parsing(t, options) /\ (~line[s].app => Sided(s)'))
  <2>1. CASE ~u.ok BY <1>7, <2>1
  <2>2. CASE u.ok
    <3>1. GoesWell(u, o, Takes(u, o), options) /\ (o.opt \in DOMAIN Roles => Takes(u, o) = TakesRole(u, o))
      BY <1>5, <1>7, <2>2, TakesKeeps
    <3>2. t = Takes(u, o) BY <2>2
    <3> HIDE DEF t
    <3>3. CASE t = Refused(u)
      <4>1. Typed(t) /\ t.ok = FALSE BY <1>7, <3>3, RefusedIs
      <4> QED BY <4>1
    <3>4. CASE t # Refused(u)
      <4>1. /\ Parsing(t, options) /\ Typed(t) /\ (o.opt \notin DOMAIN Roles => t.role = u.role)
        BY <3>1, <3>2, <3>4 DEF GoesWell, Parsing
      <4>2. ASSUME ~line[s].app PROVE Sided(s)'
        <5>1. Sided(s) BY <1>7, <2>2, <4>2
        <5>2. s \in {"client", "server"} BY SidesAre
        <5>3. CASE o.opt \in DOMAIN Roles
          <6>1. /\ t.role = Roles[o.opt] /\ u.role \in {"none", Roles[o.opt]}
            BY <1>5, <1>7, <2>2, <3>1, <3>2, <3>4, <5>3, TakesRoleKeeps
          <6>2. CASE Roles[o.opt] = s BY <1>4, <6>1, <6>2 DEF Sided
          <6>3. CASE Roles[o.opt] # s
            <7>1. u.role # s BY <5>2, <6>1, <6>3
            <7>2. PICK p \in left[s] : p.opt \in DOMAIN Roles /\ Roles[p.opt] = s BY <5>1, <7>1 DEF Sided, u
            <7>3. p \in left'[s] BY <1>4, <6>3, <7>2
            <7> QED BY <7>2, <7>3 DEF Sided
          <6> QED BY <6>2, <6>3
        <5>4. CASE o.opt \notin DOMAIN Roles
          <6>1. t.role = u.role BY <4>1, <5>4
          <6>2. CASE u.role = s BY <1>4, <6>1, <6>2 DEF Sided
          <6>3. CASE u.role # s
            <7>1. PICK p \in left[s] : p.opt \in DOMAIN Roles /\ Roles[p.opt] = s BY <5>1, <6>3 DEF Sided, u
            <7>2. p \in left'[s] BY <1>4, <5>4, <7>1
            <7> QED BY <7>1, <7>2 DEF Sided
          <6> QED BY <6>2, <6>3
        <5> QED BY <5>3, <5>4
      <4> QED BY <4>1, <4>2
    <3> QED BY <3>3, <3>4
  <2> QED BY <2>1, <2>2
<1> HIDE DEF t
<1>9. SetAt(s)'
  <2>1. left'[s] \subseteq line'[s].options BY <1>1, <1>3, <1>4 DEF SetAt
  <2>2. line' = line BY <1>3
  <2> QED BY <1>4, <1>8, <2>1, <2>2 DEF SetAt, options
<1>10. pc'[s] # "ready" BY <1>3, <1>6
<1> QED BY <1>3, <1>4, <1>9, <1>10, SetupLeaves

LEMMA EndsParsingSets == ASSUME Conversation, Setting, NEW s \in Sides, EndsParsing(s) PROVE Setting'
<1>1. /\ s \in {"client", "server"} /\ DOMAIN test = Sides /\ DOMAIN left = Sides /\ SetAt(s)
      /\ DOMAIN pc = Sides /\ FileBytes \in Nat
  BY SidesAre, WorldAssumption DEF Setting, Conversation, ControlTypes
<1> DEFINE u == test[s]  t == Checked(u, FileBytes)  options == line[s].options
<1>2. /\ SetsUp(s) /\ ~line[s].app /\ left[s] = {} /\ test' = [test EXCEPT ![s] = t]
      /\ Goes(s, IF test'[s].ok THEN "ready" ELSE "off")
      /\ UNCHANGED <<line, left, state, channelVars>>
  BY DEF EndsParsing, lineVars
<1>3. Typed(u) /\ (u.ok => Parsing(u, options) /\ u.role = s)
  <2>1. pc[s] = "options" BY <1>2 DEF SetsUp
  <2> QED BY <1>1, <1>2, <2>1 DEF SetAt, Sided
<1> HIDE DEF u, options
<1>4. /\ Typed(t)
      /\ t.ok => /\ u.ok /\ t.role = u.role
                 /\ u.role = "client" => ClientReady(t, options)
                 /\ u.role = "server" => ServerReady(t)
  BY <1>1, <1>3, CheckedIs
<1> HIDE DEF t
<1>5. test'[s] = t BY <1>1, <1>2
<1>6. pc' = [pc EXCEPT ![s] = IF t.ok THEN "ready" ELSE "off"] /\ pc'[s] = (IF t.ok THEN "ready" ELSE "off")
  BY <1>1, <1>2, <1>5 DEF Goes
<1>7. SetAt(s)' BY <1>1, <1>2, <1>4, <1>5, <1>6 DEF SetAt
<1>8. pc'[s] = "ready" => IF s = "client" THEN ClientReady(t, line[s].options) ELSE ServerReady(t)
  BY <1>1, <1>3, <1>4, <1>6 DEF options
<1>9. \E to \in {"ready", "off"} : pc' = [pc EXCEPT ![s] = to] BY <1>6
<1> QED BY <1>1, <1>2, <1>7, <1>8, <1>9, SetupLeaves

LEMMA ConnectsSets == ASSUME Conversation, Setting, Connects PROVE Setting'
<1>1. /\ ChannelTypes /\ ControlTypes /\ Fresh /\ Sides = {"client", "server"} /\ "client" \in Sides /\ "server" \in Sides
      /\ "client" # "server" /\ DOMAIN test = Sides /\ DOMAIN left = Sides
  BY SidesAre DEF Conversation, Setting
<1>2. /\ pc["client"] = "ready" /\ pc["server"] = "ready"
      /\ pc' = [client |-> "select", server |-> "cookie"]
      /\ UNCHANGED <<line, left, state>> /\ Writes("client", <<"cookie">>, Integer("cookie"))
  BY <1>1 DEF Connects, lineVars
<1>3. PICK mss \in Mss : test' = [test EXCEPT !["client"] = WithMss(@, mss)] BY DEF Connects
<1> DEFINE u == test["client"]  t == WithMss(u, mss)  options == line["client"].options
<1>4. test'["client"] = t /\ test'["server"] = test["server"] /\ DOMAIN test' = Sides BY <1>1, <1>3
<1>5. ClientReady(u, options) BY <1>2 DEF Setting, ClientSet
<1>6. mss \in Nat BY WorldAssumption
<1> HIDE DEF u, options
<1>7. ClientReady(t, options) /\ t.blksize # 0 BY <1>5, <1>6, MssKeeps
<1> HIDE DEF t
<1>8. ClientSet' /\ test'["client"].blksize # 0 BY <1>2, <1>4, <1>7 DEF ClientSet, options
<1>9. pc'["client"] = "select" /\ pc'["server"] = "cookie" BY <1>2
<1>10. \A s \in Sides : SetAt(s)'
  <2>1. SetAt("client")' BY <1>1, <1>2, <1>4, <1>7, <1>9 DEF SetAt, Setting, ClientReady
  <2>2. SetAt("server")' BY <1>1, <1>2, <1>4, <1>9 DEF SetAt, Setting
  <2> QED BY <1>1, <2>1, <2>2
<1>11. ServerReady(test'["server"]) BY <1>2, <1>4 DEF Setting
<1>12. sent'["server"] = <<>> /\ state["client"] = "none"
  <2>1. sent["server"] = <<>> /\ state["client"] = "none" BY <1>1, <1>2 DEF Fresh, Unconnected
  <2>2. sent'["server"] = sent["server"] BY <1>1, <1>2 DEF Writes, ChannelTypes
  <2> QED BY <2>1, <2>2
<1>13. ~HasSaid(2)'
  <2>1. Len(sent'["server"]) = 0 BY <1>12
  <2> QED BY <2>1 DEF HasSaid, Follows
<1>14. ~Running' BY <1>2, <1>12 DEF Running
<1> QED BY <1>1, <1>2, <1>4, <1>8, <1>9, <1>10, <1>11, <1>13, <1>14 DEF Setting

\* What the server adopts.
LEMMA ReadsParametersSets == ASSUME Conversation, Setting, ReadsParameters PROVE Setting'
<1>1. /\ ChannelTypes /\ ControlTypes /\ Prefix /\ ServerPlace /\ Sides = {"client", "server"} /\ "client" \in Sides
      /\ "server" \in Sides /\ "client" # "server" /\ DOMAIN test = Sides /\ DOMAIN left = Sides
      /\ Peer("server") = "client"
  BY SidesAre DEF Conversation, Setting
<1>2. pc["server"] = "params" /\ UNCHANGED <<line, left>> BY DEF ReadsParameters, lineVars
<1>3. /\ pc'["client"] = pc["client"] /\ state'["client"] = state["client"] /\ sent'["client"] = sent["client"]
      /\ pc'["server"] \in {"select", "failed"}
  BY <1>1, <1>2 DEF ReadsParameters, Says, Fails, Goes, Enters, Writes, ControlTypes, ChannelTypes
<1>4. Len(sent["server"]) = 1 /\ Len(heard["server"]) = 1 BY <1>1, <1>2 DEF ServerPlace, ServerAt
<1>5. ClientSet /\ test["client"].blksize # 0
  <2>1. Len(heard["server"]) <= Len(sent["client"]) /\ Len(sent["client"]) \in Nat BY <1>1 DEF Prefix, ChannelTypes
  <2>2. Len(sent["client"]) > 0 BY <1>4, <2>1
  <2> QED BY <2>2 DEF Setting
<1>6. ~HasSaid(2) /\ ~Running
  <2>1. ~HasSaid(2) BY <1>4 DEF HasSaid, Follows
  <2> QED BY <2>1 DEF Setting
<1>7. ~Running' BY <1>3, <1>6 DEF Running
<1> DEFINE s == test["server"]  c == test["client"]  options == line["client"].options  t == Adopted(s, Parameters(c))
<1>8. ServerReady(s) /\ ClientReady(c, options) /\ Typed(s)
  <2>1. ServerReady(s) /\ ClientReady(c, options) BY <1>2, <1>5 DEF Setting, ClientSet
  <2> QED BY <2>1 DEF ServerReady
<1>9. CASE test' = test /\ (sent'["server"] = sent["server"])
  <2>1. ClientSet' <=> ClientSet BY <1>2, <1>9 DEF ClientSet
  <2>2. ~HasSaid(2)' BY <1>6, <1>9 DEF HasSaid
  <2>3. \A x \in Sides : Sided(x)' <=> Sided(x) BY <1>2, <1>9 DEF Sided
  <2>4. \A x \in Sides : SetAt(x)' BY <1>1, <1>2, <1>3, <1>9, <2>3 DEF Setting, SetAt
  <2>5. pc'["server"] \notin {"ready", "cookie", "params"} BY <1>3
  <2> QED BY <1>1, <1>2, <1>3, <1>5, <1>7, <1>9, <2>1, <2>2, <2>4, <2>5 DEF Setting
<1>10. ASSUME test' = [test EXCEPT !["server"] = t], HasSaid(2)' => Refusal(t) = "none" PROVE Setting'
  <2>1. test'["server"] = t /\ test'["client"] = c /\ DOMAIN test' = Sides BY <1>1, <1>10
  <2>2. /\ Typed(t) /\ Ended(t, options)
        /\ \A f \in Common : c[f] = t[f]
        /\ c.protocol = "udp" => c.gso = t.gso /\ c.gsoSize = t.gsoSize
        /\ <<c.mode, t.mode>> \in {<<"sender", "receiver">>, <<"receiver", "sender">>, <<"both", "both">>}
        /\ Refusal(t) = "none" =>
             /\ t.maxDuration # 0 => t.duration # 0 /\ t.duration + t.omit <= t.maxDuration
             /\ t.limit # 0 => \A total \in 0..SizeValues - 1 :
                  total = t.rate * t.streams * (IF t.bidirectional THEN 2 ELSE 1) => total <= t.limit
    <3> HIDE DEF s, options
    <3>1. c.blksize # 0 BY <1>5
    <3> HIDE DEF c
    <3> QED BY <1>8, <3>1, AdoptedIs
  <2> HIDE DEF t
  <2>3. HasSaid(2)' => OneTest' BY <1>2, <1>10, <2>1, <2>2 DEF OneTest
  <2>4. ClientSet' BY <1>2, <1>5, <2>1 DEF ClientSet
  <2>5. SetAt("server")' BY <1>1, <1>2, <1>3, <2>1, <2>2 DEF Setting, SetAt
  <2>6. SetAt("client")'
    <3>1. Sided("client")' <=> Sided("client") BY <1>2, <2>1 DEF Sided
    <3> QED BY <1>1, <1>2, <1>3, <2>1, <3>1 DEF Setting, SetAt
  <2>7. \A x \in Sides : SetAt(x)' BY <1>1, <2>5, <2>6
  <2>8. pc'["server"] \notin {"ready", "cookie", "params"} BY <1>3
  <2>9. test'["client"].blksize # 0 BY <1>5, <2>1
  <2> QED BY <1>1, <1>2, <1>7, <2>1, <2>3, <2>4, <2>7, <2>8, <2>9 DEF Setting
<1>11. CASE Whole("server", Params)
  <2>1. test' = [test EXCEPT !["server"] = t] BY <1>11 DEF ReadsParameters
  <2>2. CASE Refusal(t) # "none"
    <3>1. sent' = sent BY <1>11, <2>2 DEF ReadsParameters
    <3>2. ~HasSaid(2)' BY <1>6, <3>1 DEF HasSaid
    <3> HIDE DEF t
    <3> QED BY <1>10, <2>1, <3>2
  <2>3. CASE Refusal(t) = "none"
    <3> HIDE DEF t
    <3> QED BY <1>10, <2>1, <2>3
  <2> QED BY <2>2, <2>3
<1>12. CASE ~Whole("server", Params) BY <1>9, <1>12 DEF ReadsParameters
<1> QED BY <1>11, <1>12

LEMMA StepSetting == ASSUME Conversation, Setting, [Next]_vars PROVE Setting'
<1>1. Conversation' BY StepConversation
<1>2. CASE \/ SendsParameters \/ CreatesStreams \/ GoesOn \/ EndsTest \/ SendsResults
           \/ ReadsServerResults \/ ShowsResults \/ ReadsServerError \/ ReadsCode \/ ReadsErrno \/ ClientEnds
           \/ SelectFails \/ GivesUp("client") \/ ReadsState("client")
  BY <1>2, ClientLeavesTests, UntouchedKeeps
<1>3. CASE \/ ReadsCookie \/ StartsTest \/ GivesUp("server") \/ ServerSelectFails \/ RefusesRate \/ Expires
           \/ ClosesExpired \/ AsksForResults \/ ReadsClientResults \/ Finishes \/ CleansUp \/ ReadsState("server")
  BY <1>1, <1>3, ServerLeavesTests, UntouchedKeeps
<1>4. CASE \/ \E s \in Sides : SyncClose(s)
           \/ \E s \in Sides : Nread(s) /\ UNCHANGED <<lineVars, test, pc, state, streams, errno, told>>
           \/ Breaks \/ UNCHANGED vars
  BY <1>4, ChannelLeavesTests, UntouchedKeeps
<1>5. CASE \E s \in Sides : Prepares(s) \/ TakesOption(s) \/ EndsParsing(s)
  BY <1>5, PreparesSets, TakesOptionSets, EndsParsingSets
<1>6. CASE Connects BY <1>6, ConnectsSets
<1>7. CASE ReadsParameters BY <1>7, ReadsParametersSets
<1> QED BY <1>2, <1>3, <1>4, <1>5, <1>6, <1>7, SidesAre DEF Next, ClientStep, ServerStep, SideStep, Mishap

\* What is agreed is the same test, and bounded.
LEMMA SettingMeans == ASSUME Conversation, Setting PROVE SameTest
<1>1. TypeOK
  <2>1. /\ ChannelTypes /\ ControlTypes /\ Quiet BY DEF Conversation
  <2>2. \A s \in Sides : /\ left[s] \subseteq line[s].options /\ Typed(test[s]) BY DEF Setting, SetAt
  <2>3. \A s \in Sides : test[s].ok \in BOOLEAN /\ test[s].streams \in Int /\ test[s].streams <= MaxStreams /\ test[s].omit \in 0..MaxOmit
    BY <2>2 DEF Typed, Toggles
  <2>4. \A s \in Sides : pc[s] \in {"options", "ready", "off", "select", "handle", "cookie", "params", "results",
                     "code", "errno", "ending", "failed", "drain", "expired"}
    BY <2>1 DEF ControlTypes, ClientPCs, ServerPCs
  <2>5. \A s \in Sides : ended[s] \in {"no", "short", "error"} /\ Len(got[s]) <= Wanted(s)
    BY <2>1 DEF ChannelTypes, Quiet, QuietAt
  <2> QED BY <2>1, <2>2, <2>3, <2>4, <2>5 DEF TypeOK, Setting, ChannelTypes, ControlTypes
<1>2. ASSUME Running
      PROVE  /\ \A f \in AgreedBy(test["client"]) : test["client"][f] = test["server"][f]
             /\ <<test["client"].mode, test["server"].mode>>
                  \in {<<"sender", "receiver">>, <<"receiver", "sender">>, <<"both", "both">>}
             /\ IsBounded(test["server"])
  <2> DEFINE c == test["client"]  t == test["server"]  ends == {f \in {"duration", "bytes", "blocks"} : t[f] # 0}
  <2>1. OneTest BY <1>2 DEF Setting
  <2>2. \A f \in AgreedBy(c) : c[f] = t[f]
    <3>1. Agreed \subseteq Common BY DEF Agreed, Common, Always, WhenSet, WhenOn
    <3> QED BY <2>1, <3>1 DEF OneTest, AgreedBy
  <2>3. /\ ~(t.bytes # 0 /\ t.blocks # 0) /\ (t.duration # 0 => t.bytes = 0 /\ t.blocks = 0)
        /\ t.duration = 0 /\ t.bytes = 0 /\ t.blocks = 0 => \E o \in line["client"].options : o.opt = "-t"
        /\ t.maxDuration # 0 => t.duration # 0 /\ t.duration + t.omit <= t.maxDuration
        /\ t.limit # 0 => \A total \in 0..SizeValues - 1 :
             total = t.rate * t.streams * (IF t.bidirectional THEN 2 ELSE 1) => total <= t.limit
    BY <2>1 DEF OneTest, Ended
  <2> HIDE DEF t
  <2>4. ends = {} \/ \E x : ends = {x} BY <2>3
  <2>5. Cardinality(ends) <= 1
    <3>1. CASE ends = {} BY <3>1, FS_EmptySet
    <3>2. ASSUME NEW x, ends = {x} PROVE Cardinality(ends) <= 1
      <4>1. Cardinality({x}) = 1 BY FS_Singleton
      <4> QED BY <3>2, <4>1
    <3> QED BY <2>4, <3>1, <3>2
  <2>6. ends = {} => t.duration = 0 /\ t.bytes = 0 /\ t.blocks = 0 BY <2>3
  <2>7. t.duration # 0 => ends = {"duration"} BY <2>3
  <2>8. IsBounded(t) BY <2>3, <2>5, <2>6, <2>7 DEF IsBounded
  <2> QED BY <2>1, <2>2, <2>8 DEF OneTest, t
<1> QED BY <1>1, <1>2 DEF SameTest

\* Whatever the two command lines or apps ask for: a client that has been told to create its
\* streams and the server that has told it so hold the same test, of one direction, with at
\* most one end, and within the server's limits (iperf_parse_arguments, iperf_connect,
\* send_parameters and get_parameters).
THEOREM BothRunOneTest == Spec => []SameTest
<1>1. Init => Conversation /\ Setting BY InitConversation, InitSetting
<1>2. Conversation /\ Setting /\ [Next]_vars => (Conversation /\ Setting)' BY StepConversation, StepSetting
<1>3. Conversation /\ Setting => SameTest BY SettingMeans
<1> QED BY <1>1, <1>2, <1>3, PTL DEF Spec
-----------------------------------------------------------------------------
(* The order of the options.                                               *)

\* A side's test while its line is read, and after.
OrderedAt(s) ==
  LET one == Checked(Folded(line[s].options), FileBytes)
  IN /\ pc[s] = "options" => IsOf(line[s].options \ left[s], test[s])
     /\ pc[s] # "options" => test[s].ok = one.ok
     /\ pc[s] = "ready" => test[s] = one

Ordered == \A s \in Sides : ~line[s].app /\ OneOfEach(line[s].options) => OrderedAt(s)

\* What is checked behind the loop is alike of tests that are alike.
LEMMA CheckedAlike ==
  ASSUME NEW t, NEW u, Alike(t, u), "ok" \in DOMAIN t, "ok" \in DOMAIN u, t.ok \in BOOLEAN
  PROVE  LET x == Checked(t, FileBytes)
             y == Checked(u, FileBytes)
         IN x.ok = y.ok /\ (x.ok => x = y)
<1>1. CASE t.ok
  <2>1. t = u BY <1>1 DEF Alike
  <2> QED BY <2>1
<1>2. CASE ~t.ok
  <2>1. ~u.ok BY <1>2 DEF Alike
  <2>2. Checked(t, FileBytes) = Refused(t) /\ Checked(u, FileBytes) = Refused(u) BY <1>2, <2>1 DEF Checked
  <2>3. Refused(t).ok = FALSE /\ Refused(u).ok = FALSE BY DEF Refused
  <2> QED BY <2>2, <2>3
<1> QED BY <1>1, <1>2

\* What the parameters do not say is whether the test is a good one.
LEMMA OkStays ==
  ASSUME NEW t, Typed(t)
  PROVE  /\ \A mss : WithMss(t, mss).ok = t.ok
         /\ \A c : Adopted(t, Parameters(c)).ok = t.ok
<1>1. {"ok", "blksize", "gsoSize", "gsoBuffer", "bytes", "blocks", "reverse", "bidirectional", "mode", "role"}
        \subseteq DOMAIN t
  BY DEF Typed, Fields
<1>2. ASSUME NEW mss PROVE WithMss(t, mss).ok = t.ok
  <2>1. \A v : [t EXCEPT !.blksize = v].ok = t.ok /\ DOMAIN [t EXCEPT !.blksize = v] = DOMAIN t OBVIOUS
  <2>2. ASSUME NEW u, DOMAIN u = DOMAIN t PROVE GsoFields(u).ok = u.ok
    BY <1>1, <2>2 DEF GsoFields
  <2> QED BY <2>1, <2>2 DEF WithMss
<1>3. ASSUME NEW c PROVE Adopted(t, Parameters(c)).ok = t.ok
  <2> DEFINE p == Parameters(c)
             zeroed == [t EXCEPT !.bytes = 0, !.blocks = 0]
             stored == [f \in DOMAIN t |-> IF f \in DOMAIN p THEN p[f] ELSE zeroed[f]]
             reversed == IF stored.reverse THEN SetReverse(stored, TRUE) ELSE stored
  <2>1. DOMAIN p = Sent(c) BY DEF Parameters
  <2>2. "ok" \notin Sent(c) BY DEF Sent, Always, WhenUdp, WhenSet, WhenOn
  <2>3. zeroed["ok"] = t.ok BY <1>1
  <2> HIDE DEF p, zeroed
  <2>4. stored.ok = t.ok /\ DOMAIN stored = DOMAIN t BY <1>1, <2>1, <2>2, <2>3
  <2> HIDE DEF stored
  <2>5. reversed.ok = t.ok /\ DOMAIN reversed = DOMAIN t BY <2>4, <1>1 DEF SetReverse
  <2> HIDE DEF reversed
  <2>6. SetBidirectional(reversed).ok = t.ok BY <2>5, <1>1 DEF SetBidirectional
  <2>7. Adopted(t, p) = IF stored.bidirectional THEN SetBidirectional(reversed) ELSE reversed
    BY DEF Adopted, zeroed, stored, reversed
  <2> QED BY <2>5, <2>6, <2>7 DEF p
<1> QED BY <1>2, <1>3

\* Before the first option.
LEMMA InitOrdered == ASSUME Init PROVE Ordered
<1> SUFFICES ASSUME NEW s \in Sides PROVE OrderedAt(s) BY DEF Ordered
<1>1. left[s] = line[s].options /\ test[s] = Defaults /\ pc[s] = "options" BY DEF Init
<1>2. line[s].options \ left[s] = {} BY <1>1
<1> QED BY <1>1, <1>2, DefaultsAreOfNone DEF OrderedAt

\* A side whose test and place stay as they are, or that has left "options" and goes on.
LEMMA StaysOrdered ==
  ASSUME Ordered, NEW s \in Sides, line' = line, left'[s] = left[s],
         pc'[s] = "options" <=> pc[s] = "options",
         pc'[s] = "ready" => pc[s] = "ready",
         IF pc[s] = "options" \/ pc'[s] = "ready" THEN test'[s] = test[s] ELSE test'[s].ok = test[s].ok,
         ~line[s].app, OneOfEach(line[s].options)
  PROVE  OrderedAt(s)'
<1>1. OrderedAt(s) BY DEF Ordered
<1> DEFINE one == Checked(Folded(line[s].options), FileBytes)
<1>2. one' = one OBVIOUS
<1> HIDE DEF one
<1>3. /\ pc[s] = "options" => IsOf(line[s].options \ left[s], test[s])
      /\ pc[s] # "options" => test[s].ok = one.ok
      /\ pc[s] = "ready" => test[s] = one
  BY <1>1 DEF OrderedAt, one
<1>4. test'[s].ok = test[s].ok OBVIOUS
<1>5. pc'[s] = "options" => IsOf(line'[s].options \ left'[s], test'[s]) BY <1>3
<1>6. pc'[s] # "options" => test'[s].ok = one'.ok BY <1>2, <1>3, <1>4
<1>7. pc'[s] = "ready" => test'[s] = one' BY <1>2, <1>3
<1> QED BY <1>5, <1>6, <1>7 DEF OrderedAt, one

\* A step that leaves the tests alone.
LEMMA UntouchedOrdered == ASSUME Ordered, Untouched PROVE Ordered'
<1> SUFFICES ASSUME NEW s \in Sides, ~line'[s].app, OneOfEach(line'[s].options) PROVE OrderedAt(s)' BY DEF Ordered
<1>1. UNCHANGED <<line, left, test>> BY DEF Untouched
<1>2. (pc'[s] = "options" <=> pc[s] = "options") /\ (pc'[s] = "ready" => pc[s] = "ready") BY DEF Untouched
<1> QED BY <1>1, <1>2, StaysOrdered

\* The other side, of one that is set up.
LEMMA PeerOrdered ==
  ASSUME Conversation, Setting, Ordered, NEW s \in Sides, Prepares(s) \/ TakesOption(s) \/ EndsParsing(s),
         NEW x \in Sides, x # s, ~line[x].app, OneOfEach(line[x].options)
  PROVE  OrderedAt(x)'
<1>1. DOMAIN pc = Sides /\ DOMAIN test = Sides /\ DOMAIN left = Sides BY DEF Conversation, ControlTypes, Setting
<1>2. line' = line /\ left'[x] = left[x] /\ test'[x] = test[x] /\ pc'[x] = pc[x]
  <2>1. CASE Prepares(s) BY <1>1, <2>1 DEF Prepares, Goes, lineVars
  <2>2. CASE TakesOption(s) BY <1>1, <2>2 DEF TakesOption
  <2>3. CASE EndsParsing(s) BY <1>1, <2>3 DEF EndsParsing, Goes, lineVars
  <2> QED BY <2>1, <2>2, <2>3
<1> QED BY <1>2, StaysOrdered

\* An option more.
LEMMA TakesOptionOrdered ==
  ASSUME Setting, Ordered, NEW s \in Sides, TakesOption(s), ~line[s].app, OneOfEach(line[s].options)
  PROVE  OrderedAt(s)'
<1>1. DOMAIN test = Sides /\ DOMAIN left = Sides /\ left[s] \subseteq line[s].options BY DEF Setting, SetAt
<1>2. PICK o \in left[s] : /\ left' = [left EXCEPT ![s] = @ \ {o}]
                           /\ test' = [test EXCEPT ![s] = IF @.ok THEN Takes(@, o) ELSE @]
  BY DEF TakesOption
<1>3. pc[s] = "options" /\ line' = line /\ pc' = pc BY DEF TakesOption, SetsUp
<1> DEFINE T == line[s].options \ left[s]  options == line[s].options
<1>4. IsOf(T, test[s]) BY <1>3 DEF Ordered, OrderedAt
<1>5. test'[s] = Step(test[s], o) BY <1>1, <1>2 DEF Step
<1>6. line'[s].options \ left'[s] = T \cup {o} BY <1>1, <1>2, <1>3
<1>7. T \in SUBSET options /\ o \in options /\ o \notin T BY <1>1, <1>2
<1> HIDE DEF T
<1>8. IsOf(T \cup {o}, Step(test[s], o)) BY <1>4, <1>7, StepIsOf
<1> QED BY <1>3, <1>5, <1>6, <1>8 DEF OrderedAt

\* The end of the line.
LEMMA EndsParsingOrdered ==
  ASSUME Conversation, Setting, Ordered, NEW s \in Sides, EndsParsing(s), ~line[s].app, OneOfEach(line[s].options)
  PROVE  OrderedAt(s)'
<1> DEFINE options == line[s].options  u == Folded(options)  t == test[s]
           x == Checked(t, FileBytes)  one == Checked(u, FileBytes)
<1>1. DOMAIN test = Sides /\ DOMAIN pc = Sides /\ line \in Setups BY DEF Conversation, ControlTypes, Setting
<1>2. pc[s] = "options" /\ left[s] = {} /\ line' = line /\ test'[s] = x BY <1>1 DEF EndsParsing, SetsUp, lineVars
<1>3. pc'[s] = IF x.ok THEN "ready" ELSE "off" BY <1>1, <1>2 DEF EndsParsing, Goes
<1>4. IsOf(options, t)
  <2>1. options \ left[s] = options BY <1>2
  <2> QED BY <1>2, <2>1 DEF Ordered, OrderedAt
<1>5. IsFiniteSet(options) BY <1>1, SetupsAssumption
<1>6. IsOf(options, u) BY <1>5, FoldedIsOf
<1> HIDE DEF u, t, options
<1>7. Alike(t, u) BY <1>4, <1>6, OfIsOne
<1>8. "ok" \in DOMAIN t /\ "ok" \in DOMAIN u /\ t.ok \in BOOLEAN BY <1>4, <1>6 DEF IsOf, Fields
<1>9. x.ok = one.ok /\ (x.ok => x = one) BY <1>7, <1>8, CheckedAlike
<1>10. Checked(Folded(line'[s].options), FileBytes) = one BY <1>2 DEF u, options
<1> HIDE DEF x, one
<1>11. pc'[s] # "options" /\ (pc'[s] = "ready" => x.ok) BY <1>3
<1> QED BY <1>2, <1>9, <1>10, <1>11 DEF OrderedAt

\* Every step keeps the order from mattering.
LEMMA StepOrdered == ASSUME Conversation, Setting, Ordered, [Next]_vars PROVE Ordered'
<1>1. Conversation' BY StepConversation
<1>2. CASE \/ SendsParameters \/ CreatesStreams \/ GoesOn \/ EndsTest \/ SendsResults
           \/ ReadsServerResults \/ ShowsResults \/ ReadsServerError \/ ReadsCode \/ ReadsErrno \/ ClientEnds
           \/ SelectFails \/ GivesUp("client") \/ ReadsState("client")
  BY <1>2, ClientLeavesTests, UntouchedOrdered
<1>3. CASE \/ ReadsCookie \/ StartsTest \/ GivesUp("server") \/ ServerSelectFails \/ RefusesRate \/ Expires
           \/ ClosesExpired \/ AsksForResults \/ ReadsClientResults \/ Finishes \/ CleansUp \/ ReadsState("server")
  BY <1>1, <1>3, ServerLeavesTests, UntouchedOrdered
<1>4. CASE \/ \E s \in Sides : SyncClose(s)
           \/ \E s \in Sides : Nread(s) /\ UNCHANGED <<lineVars, test, pc, state, streams, errno, told>>
           \/ Breaks \/ UNCHANGED vars
  BY <1>4, ChannelLeavesTests, UntouchedOrdered
<1>5. ASSUME NEW s \in Sides, Prepares(s) \/ TakesOption(s) \/ EndsParsing(s) PROVE Ordered'
  <2>1. line' = line BY <1>5 DEF Prepares, TakesOption, EndsParsing, lineVars
  <2> SUFFICES ASSUME NEW x \in Sides, ~line[x].app, OneOfEach(line[x].options) PROVE OrderedAt(x)'
    BY <2>1 DEF Ordered
  <2>2. CASE x # s BY <1>5, <2>2, PeerOrdered
  <2>3. CASE x = s
    <3>1. ~Prepares(s) BY <2>3 DEF Prepares
    <3> QED BY <1>5, <2>3, <3>1, TakesOptionOrdered, EndsParsingOrdered
  <2> QED BY <2>2, <2>3
<1>6. CASE Connects \/ ReadsParameters
  <2> SUFFICES ASSUME NEW s \in Sides, ~line'[s].app, OneOfEach(line'[s].options) PROVE OrderedAt(s)' BY DEF Ordered
  <2>1. /\ Sides = {"client", "server"} /\ DOMAIN test = Sides /\ DOMAIN pc = Sides
        /\ Typed(test["client"]) /\ Typed(test["server"])
    BY SidesAre DEF Conversation, ControlTypes, Setting, SetAt
  <2>2. CASE Connects
    <3>1. /\ pc["client"] = "ready" /\ pc["server"] = "ready" /\ pc'["client"] = "select" /\ pc'["server"] = "cookie"
          /\ line' = line /\ left' = left
      BY <2>1, <2>2 DEF Connects, lineVars
    <3>2. PICK mss \in Mss : test' = [test EXCEPT !["client"] = WithMss(@, mss)] BY <2>2 DEF Connects
    <3>3. test'["client"] = WithMss(test["client"], mss) /\ test'["server"] = test["server"] BY <2>1, <3>2
    <3>4. test'["client"].ok = test["client"].ok BY <2>1, <3>3, OkStays
    <3>5. test'[s].ok = test[s].ok BY <2>1, <3>3, <3>4
    <3> QED BY <2>1, <3>1, <3>5, StaysOrdered
  <2>3. CASE ReadsParameters
    <3>1. /\ pc["server"] = "params" /\ pc'["client"] = pc["client"] /\ pc'["server"] \in {"select", "failed"}
          /\ line' = line /\ left' = left
      BY <2>1, <2>3 DEF ReadsParameters, lineVars, Says, Goes, Fails
    <3>2. \/ test' = test
          \/ test' = [test EXCEPT !["server"] = Adopted(test["server"], Parameters(test["client"]))]
      BY <2>3 DEF ReadsParameters
    <3>3. test'["client"] = test["client"] /\ test'["server"].ok = test["server"].ok BY <2>1, <3>2, OkStays
    <3>4. CASE s = "client" BY <3>1, <3>3, <3>4, StaysOrdered
    <3>5. CASE s = "server" BY <3>1, <3>3, <3>5, StaysOrdered
    <3> QED BY <2>1, <3>4, <3>5
  <2> QED BY <1>6, <2>2, <2>3
<1> QED BY <1>2, <1>3, <1>4, <1>5, <1>6, SidesAre DEF Next, ClientStep, ServerStep, SideStep, Mishap

\* What it means behind the loop.
LEMMA OrderedMeans == ASSUME Setting, Ordered PROVE OptionsCommute
<1> SUFFICES ASSUME NEW s \in Sides, pc[s] # "options", ~line[s].app,
                    \A o, p \in line[s].options : o.opt = p.opt => o = p,
                    ~{"-S", "--dscp"} \subseteq {o.opt : o \in line[s].options}
             PROVE  LET one == Checked(Folded(line[s].options), FileBytes)
                    IN test[s].ok = one.ok /\ (pc[s] = "ready" => test[s] = one)
  BY DEF OptionsCommute, Folded
<1>1. line \in Setups BY DEF Setting
<1>2. \A o \in line[s].options : AnOption(o) BY <1>1, LinesAre
<1>3. ASSUME NEW o \in line[s].options, NEW p \in line[s].options, Group(o.opt) = Group(p.opt) PROVE o = p
  <2>1. o.opt = p.opt \/ {o.opt, p.opt} = {"-S", "--dscp"} BY <1>3, GroupIs
  <2> QED BY <2>1
<1>4. OneOfEach(line[s].options) BY <1>2, <1>3 DEF OneOfEach
<1> QED BY <1>4 DEF Ordered, OrderedAt

\* The test a command line asks for is that of its options, in whatever order getopt_long
\* returns them to iperf_parse_arguments, as long as no two set the same field.
THEOREM OrderDoesNotMatter == Spec => []OptionsCommute
<1>1. Init => Conversation /\ Setting /\ Ordered BY InitConversation, InitSetting, InitOrdered
<1>2. Conversation /\ Setting /\ Ordered /\ [Next]_vars => (Conversation /\ Setting /\ Ordered)'
  BY StepConversation, StepSetting, StepOrdered
<1>3. Conversation /\ Setting /\ Ordered => OptionsCommute BY OrderedMeans
<1> QED BY <1>1, <1>2, <1>3, PTL DEF Spec
================================================================================
