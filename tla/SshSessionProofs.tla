-------------------------- MODULE SshSessionProofs --------------------------
(***************************************************************************)
(* What holds of a session channel for every window, packet size and       *)
(* volume of data.                                                         *)
(***************************************************************************)
EXTENDS SshSession, SequenceTheorems, WellFoundedInduction, TLAPS

-----------------------------------------------------------------------------
(* Sums over a queue.  The sum is a recursive function; its existence and  *)
(* what it does at both ends of a sequence follow from the principle of    *)
(* the least number.                                                       *)

LEMMA Least ==
    ASSUME NEW S, S \subseteq Nat, S # {}
    PROVE  \E d \in S : \A e \in S : d <= e
<1>1. PICK d \in S : \A e \in S : <<e, d>> \notin OpToRel(<, Nat)
  BY NatLessThanWellFounded, WFMin
<1>2. ASSUME NEW e \in S PROVE d <= e
  <2>1. <<e, d>> \in Nat \X Nat /\ <<e, d>>[1] = e /\ <<e, d>>[2] = d
    OBVIOUS
  <2>2. ~(e < d)
    BY <1>1, <2>1 DEF OpToRel
  <2> QED
    BY <2>2
<1> QED
  BY <1>2

IsSum(f, q) ==
    f = [i \in 0 .. Len(q) |-> IF i = 0 THEN 0 ELSE f[i - 1] + q[i]]

LEMMA SumExists ==
    ASSUME NEW r \in Seq(Nat)
    PROVE  \E f \in [0 .. Len(r) -> Nat] : IsSum(f, r)
<1> DEFINE Bad == { n \in Nat : \E q \in Seq(Nat) :
                        Len(q) = n /\ ~\E f \in [0 .. Len(q) -> Nat] : IsSum(f, q) }
<1> SUFFICES ASSUME Bad # {} PROVE FALSE
  OBVIOUS
<1>1. PICK n \in Bad : \A m \in Bad : n <= m
  <2>1. Bad \subseteq Nat
    OBVIOUS
  <2> HIDE DEF Bad
  <2> QED
    BY <2>1, Least
<1>2. PICK q \in Seq(Nat) : Len(q) = n /\ ~\E f \in [0 .. Len(q) -> Nat] : IsSum(f, q)
  BY <1>1
<1>3. CASE n = 0
  <2> DEFINE f == [i \in 0 .. 0 |-> 0]
  <2>1. f \in [0 .. Len(q) -> Nat] /\ IsSum(f, q)
    BY <1>2, <1>3 DEF IsSum
  <2> QED
    BY <1>2, <2>1
<1>4. CASE n # 0
  <2> DEFINE p == SubSeq(q, 1, n - 1)
  <2>1. p \in Seq(Nat) /\ Len(p) = n - 1 /\ \A i \in 1 .. n - 1 : p[i] = q[i]
    BY <1>2, <1>4, SubSeqProperties
  <2>2. n - 1 \in Nat /\ n - 1 \notin Bad
    BY <1>1, <1>4
  <2>3. PICK g \in [0 .. n - 1 -> Nat] : IsSum(g, p)
    BY <2>1, <2>2
  <2> DEFINE f == [i \in 0 .. n |-> IF i = n THEN g[n - 1] + q[n] ELSE g[i]]
  <2>4. q[n] \in Nat /\ g[n - 1] \in Nat
    BY <1>2, <1>4
  <2>5. f \in [0 .. Len(q) -> Nat]
    BY <1>2, <2>4, SMTT(30)
  <2>6. \A i \in 0 .. n - 1 : g[i] = IF i = 0 THEN 0 ELSE g[i - 1] + q[i]
    BY <2>1, <2>3 DEF IsSum
  <2>7. \A i \in 0 .. n : f[i] = IF i = 0 THEN 0 ELSE f[i - 1] + q[i]
    BY <1>4, <2>6
  <2>8. IsSum(f, q)
    BY <1>2, <2>7 DEF IsSum
  <2> QED
    BY <1>2, <2>5, <2>8
<1> QED
  BY <1>3, <1>4

LEMMA SumAt ==
    ASSUME NEW q \in Seq(Nat), NEW f, IsSum(f, q)
    PROVE  \A i \in 0 .. Len(q) : f[i] = IF i = 0 THEN 0 ELSE f[i - 1] + q[i]
BY DEF IsSum

Agree(q, r, n) == n <= Len(q) /\ n <= Len(r) /\ \A i \in 1 .. n : q[i] = r[i]

(* The sums of two sequences agree as far as the sequences do.             *)
LEMMA SumUnique ==
    ASSUME NEW q \in Seq(Nat), NEW r \in Seq(Nat), NEW f, NEW g, IsSum(f, q), IsSum(g, r),
           NEW n \in Nat, Agree(q, r, n)
    PROVE  f[n] = g[n]
<1> USE DEF Agree
<1> DEFINE Bad == { i \in 0 .. n : f[i] # g[i] }
<1> SUFFICES ASSUME Bad # {} PROVE FALSE
  OBVIOUS
<1>1. PICK i \in Bad : \A j \in Bad : i <= j
  <2>1. Bad \subseteq Nat
    OBVIOUS
  <2> HIDE DEF Bad
  <2> QED
    BY <2>1, Least
<1>2. i \in 0 .. n /\ f[i] # g[i]
  BY <1>1
<1>3. /\ f[i] = IF i = 0 THEN 0 ELSE f[i - 1] + q[i]
      /\ g[i] = IF i = 0 THEN 0 ELSE g[i - 1] + r[i]
  <2>1. i \in 0 .. Len(q) /\ i \in 0 .. Len(r)
    BY <1>2
  <2> QED
    BY <2>1, SumAt
<1>4. ASSUME i # 0 PROVE f[i - 1] = g[i - 1] /\ q[i] = r[i]
  <2>1. i - 1 \in 0 .. n /\ i - 1 \notin Bad
    BY <1>1, <1>2, <1>4
  <2> QED
    BY <1>2, <1>4, <2>1
<1> QED
  BY <1>2, <1>3, <1>4

LEMMA TotalIs ==
    ASSUME NEW q \in Seq(Nat), NEW f, IsSum(f, q)
    PROVE  Total(q) = f[Len(q)]
<1> DEFINE sum == CHOOSE g : g = [i \in 0 .. Len(q) |-> IF i = 0 THEN 0 ELSE g[i - 1] + q[i]]
<1>1. IsSum(sum, q)
  BY DEF IsSum
<1>2. Total(q) = sum[Len(q)]
  BY DEF Total
<1>3. Agree(q, q, Len(q)) /\ Len(q) \in Nat
  BY DEF Agree
<1> QED
  BY <1>1, <1>2, <1>3, SumUnique

LEMMA TailSum ==
    ASSUME NEW q \in Seq(Nat), NEW r \in Seq(Nat),
           NEW f \in [0 .. Len(q) -> Nat], NEW g \in [0 .. Len(r) -> Nat],
           IsSum(f, q), IsSum(g, r),
           Len(q) = Len(r) + 1, \A i \in 1 .. Len(r) : r[i] = q[i + 1]
    PROVE  g[Len(r)] + q[1] = f[Len(q)]
<1>1. /\ \A i \in 0 .. Len(q) : f[i] = IF i = 0 THEN 0 ELSE f[i - 1] + q[i]
      /\ \A i \in 0 .. Len(r) : g[i] = IF i = 0 THEN 0 ELSE g[i - 1] + r[i]
  BY SumAt
<1>0. /\ Len(q) \in Nat /\ Len(r) \in Nat
      /\ \A i \in 1 .. Len(q) : q[i] \in Nat
      /\ \A i \in 0 .. Len(q) : f[i] \in Nat
      /\ \A i \in 0 .. Len(r) : g[i] \in Nat
  BY LenProperties, ElementOfSeq
<1> SUFFICES ASSUME g[Len(r)] + q[1] # f[Len(q)] PROVE FALSE
  OBVIOUS
<1>2. \E i \in 0 .. Len(r) :
         /\ g[i] + q[1] # f[i + 1]
         /\ \A j \in 0 .. Len(r) : j < i => g[j] + q[1] = f[j + 1]
  <2> DEFINE Bad == { i \in 0 .. Len(r) : g[i] + q[1] # f[i + 1] }
  <2>1. Bad \subseteq Nat /\ Len(r) \in Bad
    OBVIOUS
  <2>2. \E i \in Bad : \A j \in Bad : i <= j
    <3> HIDE DEF Bad
    <3> QED
      BY <2>1, Least
  <2>3. PICK i \in Bad : \A j \in Bad : i <= j
    BY <2>2
  <2>4. i \in 0 .. Len(r) /\ g[i] + q[1] # f[i + 1]
    BY <2>3
  <2>5. ASSUME NEW j \in 0 .. Len(r), j < i PROVE g[j] + q[1] = f[j + 1]
    <3>1. j \notin Bad
      BY <1>0, <2>3, <2>4, <2>5
    <3> QED
      BY <3>1
  <2> QED
    BY <2>4, <2>5
<1>3. PICK i \in 0 .. Len(r) :
         /\ g[i] + q[1] # f[i + 1]
         /\ \A j \in 0 .. Len(r) : j < i => g[j] + q[1] = f[j + 1]
  BY <1>2
<1>4. f[i + 1] = f[i] + q[i + 1] /\ (i = 0 => f[i] = 0)
  <2>1. i + 1 \in 0 .. Len(q) /\ i \in 0 .. Len(q) /\ i + 1 # 0 /\ (i + 1) - 1 = i
    BY <1>0
  <2> QED
    BY <1>1, <2>1
<1>5. q[1] \in Nat /\ q[i + 1] \in Nat /\ f[i] \in Nat
  <2>1. 1 \in 1 .. Len(q) /\ i + 1 \in 1 .. Len(q) /\ i \in 0 .. Len(q)
    BY <1>0
  <2> QED
    BY <1>0, <2>1
<1>6. CASE i = 0
  <2>1. g[i] = 0
    BY <1>1, <1>6
  <2> QED
    BY <1>3, <1>4, <1>5, <1>6, <2>1
<1>7. CASE i # 0
  <2>1. i - 1 \in 0 .. Len(r) /\ i - 1 < i /\ (i - 1) + 1 = i
    BY <1>7
  <2>2. g[i - 1] + q[1] = f[i] /\ g[i - 1] \in Nat
    BY <1>3, <2>1
  <2>3. g[i] = g[i - 1] + q[i + 1]
    BY <1>1, <1>7
  <2> DEFINE a == g[i - 1]
             b == q[1]
             c == q[i + 1]
             u == f[i]
  <2>4. /\ a \in Nat /\ b \in Nat /\ c \in Nat /\ u \in Nat
        /\ a + b = u /\ (a + c) + b # u + c
    BY <1>3, <1>4, <1>5, <2>2, <2>3
  <2> HIDE DEF a, b, c, u
  <2> QED
    BY <2>4
<1> QED
  BY <1>6, <1>7

LEMMA TotalFacts ==
    ASSUME NEW q \in Seq(Nat)
    PROVE  /\ Total(q) \in Nat
           /\ q = <<>> => Total(q) = 0
           /\ \A x \in Nat : Total(Append(q, x)) = Total(q) + x
           /\ q # <<>> => Total(Tail(q)) = Total(q) - Head(q)
<1>1. PICK f \in [0 .. Len(q) -> Nat] : IsSum(f, q)
  BY SumExists
<1>2. Total(q) = f[Len(q)]
  BY <1>1, TotalIs
<1>3. \A i \in 0 .. Len(q) : f[i] = IF i = 0 THEN 0 ELSE f[i - 1] + q[i]
  BY <1>1, SumAt
<1>4. ASSUME NEW x \in Nat PROVE Total(Append(q, x)) = Total(q) + x
  <2> DEFINE r == Append(q, x)
  <2>1. /\ r \in Seq(Nat) /\ Len(r) = Len(q) + 1 /\ r[Len(r)] = x
        /\ \A i \in 1 .. Len(q) : q[i] = r[i]
    OBVIOUS
  <2>2. PICK g \in [0 .. Len(r) -> Nat] : IsSum(g, r)
    BY <2>1, SumExists
  <2>3. Total(r) = g[Len(r)]
    BY <2>1, <2>2, TotalIs
  <2>4. g[Len(q)] = f[Len(q)]
    <3> DEFINE k == Len(q)
    <3>1. k \in Nat /\ Agree(q, r, k)
      BY <2>1 DEF Agree
    <3> HIDE DEF k, r
    <3>2. f[k] = g[k]
      BY <1>1, <2>1, <2>2, <3>1, SumUnique
    <3> QED
      BY <3>2 DEF k
  <2>5. g[Len(r)] = g[Len(q)] + x
    BY <2>1, <2>2, SMTT(30) DEF IsSum
  <2> QED
    BY <1>2, <2>3, <2>4, <2>5
<1>5. ASSUME q # <<>> PROVE Total(Tail(q)) = Total(q) - Head(q)
  <2> DEFINE r == Tail(q)
  <2>1. /\ r \in Seq(Nat) /\ Len(r) = Len(q) - 1 /\ Len(q) \in Nat \ {0} /\ Head(q) = q[1]
        /\ \A i \in 1 .. Len(r) : r[i] = q[i + 1]
    BY <1>5
  <2>2. PICK g \in [0 .. Len(r) -> Nat] : IsSum(g, r)
    BY <2>1, SumExists
  <2>3. Total(r) = g[Len(r)]
    BY <2>1, <2>2, TotalIs
  <2>4. g[Len(r)] + q[1] = f[Len(q)]
    BY <1>1, <2>1, <2>2, TailSum, SMTT(30)
  <2>5. g[Len(r)] \in Nat /\ f[Len(q)] \in Nat /\ q[1] \in Nat
    BY <2>1, <2>2
  <2>6. Total(r) = Total(q) - Head(q)
    <3> HIDE DEF r
    <3> QED
      BY <1>2, <2>1, <2>3, <2>4, <2>5
  <2> QED
    BY <2>6
<1> QED
  BY <1>1, <1>2, <1>3, <1>4, <1>5

-----------------------------------------------------------------------------
Farewells == {"EOF", "STATUS", "SIGNAL", "CLOSE"}
Openings == {"OPEN", "CONFIRM", "EXEC"}

Packets ==
    [type : Farewells \cup {"EXEC"}]
    \cup [type : {"OPEN", "CONFIRM", "ADJUST"}, incr : Nat]
    \cup [type : {"DATA"}, stream : Streams, data : Seq(Nat)]

LEMMA PacketFacts ==
    ASSUME NEW m \in Packets
    PROVE  /\ DataOf(m) \in Nat /\ CreditOf(m) \in Nat
           /\ m.type # "DATA" => DataOf(m) = 0
           /\ m.type = "DATA" => /\ DataOf(m) = Len(m.data) /\ CreditOf(m) = 0
                                 /\ m.data \in Seq(Nat) /\ m.stream \in Streams
           /\ m.type \in {"OPEN", "CONFIRM", "ADJUST"} => CreditOf(m) = m.incr /\ m.incr \in Nat
           /\ m.type \in Farewells \cup {"EXEC"} => CreditOf(m) = 0
BY DEF Packets, Farewells, DataOf, CreditOf

LEMMA QueueFacts ==
    ASSUME NEW q \in Seq(Packets)
    PROVE  /\ DataIn(q) \in Nat /\ CreditIn(q) \in Nat
           /\ q = <<>> => DataIn(q) = 0 /\ CreditIn(q) = 0
           /\ \A m \in Packets : /\ DataIn(Append(q, m)) = DataIn(q) + DataOf(m)
                                 /\ CreditIn(Append(q, m)) = CreditIn(q) + CreditOf(m)
           /\ q # <<>> => /\ DataIn(Tail(q)) = DataIn(q) - DataOf(Head(q))
                          /\ CreditIn(Tail(q)) = CreditIn(q) - CreditOf(Head(q))
<1> DEFINE D(r) == [i \in 1 .. Len(r) |-> DataOf(r[i])]
           C(r) == [i \in 1 .. Len(r) |-> CreditOf(r[i])]
<1>1. ASSUME NEW r \in Seq(Packets)
      PROVE  /\ D(r) \in Seq(Nat) /\ Len(D(r)) = Len(r)
             /\ C(r) \in Seq(Nat) /\ Len(C(r)) = Len(r)
  BY PacketFacts
<1>2. DataIn(q) \in Nat /\ CreditIn(q) \in Nat
  BY <1>1, TotalFacts DEF DataIn, CreditIn
<1>3. q = <<>> => DataIn(q) = 0 /\ CreditIn(q) = 0
  <2>1. q = <<>> => D(q) = <<>> /\ C(q) = <<>>
    OBVIOUS
  <2> QED
    BY <1>1, <2>1, TotalFacts DEF DataIn, CreditIn
<1>4. ASSUME NEW m \in Packets
      PROVE  /\ DataIn(Append(q, m)) = DataIn(q) + DataOf(m)
             /\ CreditIn(Append(q, m)) = CreditIn(q) + CreditOf(m)
  <2>1. D(Append(q, m)) = Append(D(q), DataOf(m)) /\ C(Append(q, m)) = Append(C(q), CreditOf(m))
    BY <1>1, PacketFacts
  <2> QED
    BY <1>1, <2>1, PacketFacts, TotalFacts DEF DataIn, CreditIn
<1>5. ASSUME q # <<>>
      PROVE  /\ DataIn(Tail(q)) = DataIn(q) - DataOf(Head(q))
             /\ CreditIn(Tail(q)) = CreditIn(q) - CreditOf(Head(q))
  <2>1. D(Tail(q)) = Tail(D(q)) /\ C(Tail(q)) = Tail(C(q))
    BY <1>1, <1>5
  <2>2. D(q) # <<>> /\ C(q) # <<>> /\ Head(D(q)) = DataOf(Head(q)) /\ Head(C(q)) = CreditOf(Head(q))
    BY <1>1, <1>5
  <2> QED
    BY <1>1, <2>1, <2>2, TotalFacts DEF DataIn, CreditIn
<1> QED
  BY <1>2, <1>3, <1>4, <1>5

-----------------------------------------------------------------------------
(* The channel of one end.                                                 *)

ChannelType(e) ==
    [ open : BOOLEAN, transwindow : Nat, recvwindow : Int, recvdonelen : Nat,
      sent_eof : BOOLEAN, recv_eof : BOOLEAN, sent_close : BOOLEAN, recv_close : BOOLEAN,
      pid : BOOLEAN, flushing : BOOLEAN, status : BOOLEAN,
      exitsignal : {"none", "named", "nameless"},
      rfd : [ReadStreams(e) -> Fds], wfd : [WriteStreams(e) -> Fds],
      buf : [WriteStreams(e) -> Seq(Nat)], out : Seq(Packets) ]

(* What check_close leaves alone.                                          *)
Kept(c, d) ==
    /\ d.transwindow = c.transwindow /\ d.recvwindow = c.recvwindow
    /\ d.recvdonelen = c.recvdonelen /\ d.buf = c.buf
    /\ d.pid = c.pid /\ d.status = c.status /\ d.exitsignal = c.exitsignal
    /\ d.recv_eof = c.recv_eof /\ d.recv_close = c.recv_close

(* Descriptors are closed, and nothing else happens.                       *)
Shut(e, c, d) ==
    /\ d \in ChannelType(e)
    /\ Kept(c, d)
    /\ \A s \in ReadStreams(e) : d.rfd[s] \in {c.rfd[s], "closed"}
    /\ \A s \in WriteStreams(e) : d.wfd[s] \in {c.wfd[s], "closed"}
    /\ d.out = c.out /\ d.open = c.open
    /\ d.sent_eof = c.sent_eof /\ d.sent_close = c.sent_close

LEMMA StreamFacts ==
    /\ Ends = {"cli", "svr"} /\ Peer("cli") = "svr" /\ Peer("svr") = "cli"
    /\ ReadStreams("cli") = {"in"} /\ WriteStreams("cli") = {"out", "err"}
    /\ ReadStreams("svr") = {"out", "err"} /\ WriteStreams("svr") = {"in"}
    /\ \A e \in Ends : Main(e) \in WriteStreams(e)
BY DEF Ends, Peer, ReadStreams, WriteStreams, Sender, Receiver, Streams, Main

LEMMA ShutFlush ==
    ASSUME NEW e \in Ends, NEW c \in ChannelType(e), NEW u
    PROVE  Shut(e, c, Flush(e, c, u))
BY DEF Flush, Shut, Kept, ChannelType, Fds

LEMMA ShutWrite ==
    ASSUME NEW e \in Ends, NEW c \in ChannelType(e), NEW s \in WriteStreams(e)
    PROVE  Shut(e, c, CloseWrite(e, c, s)) /\ CloseWrite(e, c, s).wfd[s] = "closed"
BY DEF CloseWrite, Shut, Kept, ChannelType, Fds

LEMMA ShutRead ==
    ASSUME NEW e \in Ends, NEW c \in ChannelType(e), NEW s \in ReadStreams(e)
    PROVE  Shut(e, c, CloseRead(e, c, s))
BY DEF CloseRead, Shut, Kept, ChannelType, Fds

LEMMA ShutStdin ==
    ASSUME NEW e \in Ends, NEW c \in ChannelType(e)
    PROVE  Shut(e, c, CloseStdin(e, c))
<1>1. Shut(e, c, c)
  BY DEF Shut, Kept
<1> QED
  BY <1>1, ShutWrite, StreamFacts DEF CloseStdin

-----------------------------------------------------------------------------
(* What end e, with channel c, has sent to a peer that has still to take   *)
(* the packets q from the queue: nothing follows a CLOSE, no data follows  *)
(* an EOF, descriptors are closed before the packet that says so, and the  *)
(* exit status, if there is one, comes before the close.                   *)
Sent(e, c, q, told) ==
    /\ \A i \in 1 .. Len(q) :
         /\ q[i].type = "CLOSE" => i = Len(q) /\ c.sent_close
         /\ q[i].type = "EOF" => /\ c.sent_eof
                                 /\ \A j \in i .. Len(q) : q[j].type # "DATA"
         /\ q[i].type = "DATA" => q[i].stream \in ReadStreams(e)
         /\ q[i].type \in {"STATUS", "SIGNAL"} => e = "svr"
    /\ c.sent_eof => \A s \in ReadStreams(e) : c.rfd[s] = "closed"
    /\ c.sent_close => c.sent_eof /\ \A s \in WriteStreams(e) : c.wfd[s] = "closed"
    /\ e = "svr" /\ c.pid /\ c.exitsignal = "none" /\ c.sent_close =>
          told \/ \E i \in 1 .. Len(q) : q[i].type = "STATUS"

(* One step of the closing of a channel, with at most one packet sent      *)
(* after the packets q.                                                    *)
LEMMA SentShut ==
    ASSUME NEW e \in Ends, NEW c \in ChannelType(e), NEW d, Shut(e, c, d),
           NEW q \in Seq(Packets), NEW told \in BOOLEAN, Sent(e, c, q, told)
    PROVE  Sent(e, d, q, told)
BY DEF Sent, Shut, Kept

LEMMA SentPut ==
    ASSUME NEW e \in Ends, NEW c \in ChannelType(e), NEW q \in Seq(Packets),
           NEW told \in BOOLEAN, Sent(e, c, q, told), ~c.sent_close,
           NEW m \in Packets, m.type \notin {"EOF", "CLOSE"},
           m.type = "DATA" => ~c.sent_eof /\ m.stream \in ReadStreams(e),
           m.type \in {"STATUS", "SIGNAL"} => e = "svr"
    PROVE  Sent(e, c, Append(q, m), told)
<1> DEFINE r == Append(q, m)
<1>1. /\ r \in Seq(Packets) /\ Len(r) = Len(q) + 1 /\ r[Len(r)] = m /\ Len(q) \in Nat
      /\ \A i \in 1 .. Len(q) : r[i] = q[i]
  OBVIOUS
<1> HIDE DEF r
<1> QED
  BY <1>1 DEF Sent

LEMMA SentEof ==
    ASSUME NEW e \in Ends, NEW c \in ChannelType(e), NEW d \in ChannelType(e),
           NEW q \in Seq(Packets), NEW told \in BOOLEAN, Sent(e, c, q, told),
           ~c.sent_close, NothingToSend(c),
           NEW m \in Packets, m.type = "EOF",
           d.sent_eof, d.sent_close = c.sent_close, d.rfd = c.rfd,
           d.exitsignal = c.exitsignal
    PROVE  Sent(e, d, Append(q, m), told)
<1> DEFINE r == Append(q, m)
<1>1. /\ r \in Seq(Packets) /\ Len(r) = Len(q) + 1 /\ r[Len(r)] = m /\ Len(q) \in Nat
      /\ \A i \in 1 .. Len(q) : r[i] = q[i]
  OBVIOUS
<1>2. \A s \in ReadStreams(e) : d.rfd[s] = "closed"
  BY DEF NothingToSend, ChannelType
<1> HIDE DEF r
<1> QED
  BY <1>1, <1>2 DEF Sent

LEMMA SentClose ==
    ASSUME NEW e \in Ends, NEW c \in ChannelType(e), NEW d \in ChannelType(e),
           NEW q \in Seq(Packets), NEW told \in BOOLEAN, Sent(e, c, q, told),
           ~c.sent_close,
           NEW m \in Packets, m.type = "CLOSE",
           d.sent_eof, d.sent_close, d.pid = c.pid, d.exitsignal = c.exitsignal,
           \A s \in ReadStreams(e) : d.rfd[s] = "closed",
           \A s \in WriteStreams(e) : d.wfd[s] = "closed",
           e = "svr" /\ c.pid /\ c.exitsignal = "none" =>
               \E i \in 1 .. Len(q) : q[i].type = "STATUS"
    PROVE  Sent(e, d, Append(q, m), told)
<1> DEFINE r == Append(q, m)
<1>1. /\ r \in Seq(Packets) /\ Len(r) = Len(q) + 1 /\ r[Len(r)] = m /\ Len(q) \in Nat
      /\ \A i \in 1 .. Len(q) : r[i] = q[i]
  OBVIOUS
<1> HIDE DEF r
<1> QED
  BY <1>1 DEF Sent

-----------------------------------------------------------------------------
(* A queue q to which packets of the closing have been added.              *)
Added(q, r) ==
    /\ r \in Seq(Packets) /\ Len(q) <= Len(r)
    /\ DataIn(r) = DataIn(q) /\ CreditIn(r) = CreditIn(q)
    /\ \A i \in 1 .. Len(r) : \/ i <= Len(q) /\ r[i] = q[i]
                              \/ i > Len(q) /\ r[i].type \in Farewells

LEMMA AddedOne ==
    ASSUME NEW q \in Seq(Packets)
    PROVE  /\ Added(q, q)
           /\ \A m \in Packets : m.type \in Farewells => Added(q, Append(q, m))
<1>1. Added(q, q)
  BY DEF Added
<1>2. ASSUME NEW m \in Packets, m.type \in Farewells PROVE Added(q, Append(q, m))
  <2> DEFINE r == Append(q, m)
  <2>1. /\ r \in Seq(Packets) /\ Len(r) = Len(q) + 1 /\ r[Len(r)] = m /\ Len(q) \in Nat
        /\ \A i \in 1 .. Len(q) : r[i] = q[i]
    OBVIOUS
  <2>2. DataOf(m) = 0 /\ CreditOf(m) = 0
    BY <1>2, PacketFacts DEF Farewells
  <2>3. DataIn(r) = DataIn(q) /\ CreditIn(r) = CreditIn(q)
    BY <2>2, QueueFacts
  <2> HIDE DEF r
  <2>4. Added(q, r)
    BY <1>2, <2>1, <2>3 DEF Added
  <2> QED
    BY <2>4 DEF r
<1> QED
  BY <1>1, <1>2

LEMMA AddedMore ==
    ASSUME NEW q \in Seq(Packets), NEW r, NEW t, Added(q, r), Added(r, t)
    PROVE  Added(q, t)
BY DEF Added

(* The steps of check_close: descriptors and directions are only closed.   *)
Closes(e, c, d, n) ==
    /\ d \in ChannelType(e)
    /\ Kept(c, d)
    /\ \A s \in ReadStreams(e) : d.rfd[s] \in {c.rfd[s], "closed"}
    /\ \A s \in WriteStreams(e) : d.wfd[s] \in {c.wfd[s], "closed"}
    /\ c.sent_eof => d.sent_eof
    /\ c.sent_close => d.sent_close
    /\ d.open => c.open
    /\ c.open /\ ~d.open => c.recv_close /\ d.sent_close
    /\ c.sent_close /\ c.sent_eof => d.out = c.out
    /\ Added(n \o c.out, n \o d.out)

(* The channel c, and the queue n to which its packets will be added.      *)
Sound(e, c, n, told) ==
    /\ c \in ChannelType(e)
    /\ n \in Seq(Packets)
    /\ Sent(e, c, n \o c.out, told)

LEMMA ClosesMore ==
    ASSUME NEW e \in Ends, NEW c, NEW d, NEW f, NEW n, NEW told \in BOOLEAN,
           Sound(e, c, n, told), Closes(e, c, d, n), Closes(e, d, f, n)
    PROVE  Closes(e, c, f, n)
<1>1. n \o c.out \in Seq(Packets)
  BY DEF Sound, ChannelType
<1>2. Added(n \o c.out, n \o f.out)
  BY <1>1, AddedMore DEF Closes
<1>3. c \in ChannelType(e) /\ d \in ChannelType(e) /\ f \in ChannelType(e)
  BY DEF Sound, Closes
<1>4. Kept(c, f)
  BY DEF Closes, Kept
<1> QED
  BY <1>2, <1>3, <1>4 DEF Closes, Kept

LEMMA PutFacts ==
    ASSUME NEW e \in Ends, NEW c \in ChannelType(e), NEW n \in Seq(Packets), NEW m \in Packets
    PROVE  /\ Put(c, m) \in ChannelType(e)
           /\ Put(c, m) = [c EXCEPT !.out = Append(c.out, m)]
           /\ n \o Append(c.out, m) = Append(n \o c.out, m)
           /\ n \o c.out \in Seq(Packets)
<1>1. c.out \in Seq(Packets)
  BY DEF ChannelType
<1>2. n \o Append(c.out, m) = Append(n \o c.out, m)
  BY <1>1, AppendProperties, ConcatProperties
<1>3. Append(c.out, m) \in Seq(Packets) /\ n \o c.out \in Seq(Packets)
  BY <1>1
<1> DEFINE o == Append(c.out, m)
<1>4. Put(c, m) = [c EXCEPT !.out = o]
  BY DEF Put
<1> HIDE DEF o
<1>5. ASSUME o \in Seq(Packets) PROVE [c EXCEPT !.out = o] \in ChannelType(e)
  BY <1>5 DEF ChannelType
<1> QED
  BY <1>2, <1>3, <1>4, <1>5 DEF o

LEMMA StageShut ==
    ASSUME NEW e \in Ends, NEW c, NEW d, NEW n, NEW told \in BOOLEAN,
           Sound(e, c, n, told), Shut(e, c, d)
    PROVE  Closes(e, c, d, n) /\ Sound(e, d, n, told)
<1>1. n \o c.out \in Seq(Packets) /\ d.out = c.out
  BY DEF Sound, Shut, ChannelType
<1>2. Added(n \o c.out, n \o d.out)
  BY <1>1, AddedOne
<1>3. Sent(e, d, n \o d.out, told)
  <2> DEFINE q == n \o c.out
  <2>1. c \in ChannelType(e) /\ Sent(e, c, q, told) /\ q \in Seq(Packets) /\ n \o d.out = q
    BY <1>1 DEF Sound
  <2> HIDE DEF q
  <2>2. Sent(e, d, q, told)
    BY <2>1, SentShut
  <2> QED
    BY <2>1, <2>2
<1> QED
  BY <1>2, <1>3 DEF Sound, Shut, Closes

LEMMA StageEof ==
    ASSUME NEW e \in Ends, NEW c, NEW n, NEW told \in BOOLEAN, Sound(e, c, n, told)
    PROVE  Closes(e, c, SendEof(c), n) /\ Sound(e, SendEof(c), n, told)
<1>1. CASE c.sent_eof \/ ~NothingToSend(c)
  <2>1. SendEof(c) = c
    BY <1>1 DEF SendEof
  <2>2. Shut(e, c, c)
    BY DEF Shut, Kept, Sound
  <2> QED
    BY <2>1, <2>2, StageShut
<1>2. CASE ~c.sent_eof /\ NothingToSend(c)
  <2> DEFINE m == [type |-> "EOF"]
             d == send_msg_channel_eof(c)
  <2>1. m \in Packets /\ m.type = "EOF"
    BY DEF Packets, Farewells
  <2>2. SendEof(c) = d
    BY <1>2 DEF SendEof
  <2>a. c \in ChannelType(e) /\ n \in Seq(Packets)
    BY DEF Sound
  <2>b. PICK p \in ChannelType(e) : p = Put(c, m) /\ p = [c EXCEPT !.out = Append(c.out, m)]
    BY <2>1, <2>a, PutFacts
  <2>c. d = [p EXCEPT !.sent_eof = TRUE]
    BY <2>b DEF send_msg_channel_eof
  <2>d. Kept(c, p) /\ p.rfd = c.rfd /\ p.wfd = c.wfd /\ p.open = c.open /\
        p.sent_close = c.sent_close /\ p.out = Append(c.out, m)
    BY <2>a, <2>b DEF ChannelType, Kept
  <2>3. /\ d \in ChannelType(e) /\ Kept(c, d) /\ d.rfd = c.rfd /\ d.wfd = c.wfd
        /\ d.open = c.open /\ d.sent_close = c.sent_close /\ d.sent_eof = TRUE
        /\ d.out = Append(c.out, m)
    <3> HIDE DEF d, m
    <3> QED
      BY <2>c, <2>d DEF ChannelType, Kept
  <2>4. n \o d.out = Append(n \o c.out, m) /\ n \o c.out \in Seq(Packets)
    <3> HIDE DEF d, m
    <3>1. n \o Append(c.out, m) = Append(n \o c.out, m) /\ n \o c.out \in Seq(Packets)
      BY <2>1, <2>a, PutFacts, SMTT(30)
    <3> QED
      BY <2>3, <3>1
  <2>5. ~c.sent_close
    BY <1>2 DEF Sound, Sent
  <2> HIDE DEF m, d
  <2>e. d.pid = c.pid /\ d.exitsignal = c.exitsignal
    BY <2>3 DEF Kept
  <2>6. Sent(e, d, n \o d.out, told)
    BY <1>2, <2>1, <2>3, <2>4, <2>5, <2>e, SentEof DEF Sound
  <2>7. Added(n \o c.out, n \o d.out)
    BY <2>1, <2>4, AddedOne DEF Farewells
  <2> QED
    BY <1>2, <2>2, <2>3, <2>5, <2>6, <2>7 DEF Closes, Sound
<1> QED
  BY <1>1, <1>2 DEF Sound, ChannelType

LEMMA StageClose ==
    ASSUME NEW e \in Ends, NEW c, NEW n, NEW told \in BOOLEAN, Sound(e, c, n, told),
           ~c.sent_close, close_allowed(e, c)
    PROVE  /\ Closes(e, c, send_msg_channel_close(e, c), n)
           /\ Sound(e, send_msg_channel_close(e, c), n, told)
           /\ send_msg_channel_close(e, c).sent_close = TRUE
<1> DEFINE m == [type |-> IF c.exitsignal = "none" THEN "STATUS" ELSE "SIGNAL"]
           l == [type |-> "CLOSE"]
           b == closehandler(e, c)
           p == Put(b, l)
           d == send_msg_channel_close(e, c)
<1>1. /\ m \in Packets /\ l \in Packets /\ m.type \in {"STATUS", "SIGNAL"} /\ l.type = "CLOSE"
      /\ c.exitsignal = "none" => m.type = "STATUS"
  BY DEF Packets, Farewells
<1>2. d = [p EXCEPT !.sent_eof = TRUE, !.sent_close = TRUE,
                    !.rfd = [s \in DOMAIN @ |-> "closed"],
                    !.wfd = [s \in DOMAIN @ |-> "closed"]]
  BY DEF send_msg_channel_close
<1>3. c \in ChannelType(e) /\ n \in Seq(Packets) /\ n \o c.out \in Seq(Packets)
      /\ Sent(e, c, n \o c.out, told)
  BY DEF Sound, ChannelType
<1>4. /\ b \in ChannelType(e) /\ Kept(c, b) /\ b.rfd = c.rfd /\ b.wfd = c.wfd
      /\ b.open = c.open /\ b.sent_close = c.sent_close /\ b.sent_eof = c.sent_eof
      /\ Added(n \o c.out, n \o b.out) /\ n \o b.out \in Seq(Packets)
      /\ Sent(e, b, n \o b.out, told)
      /\ e = "svr" /\ c.pid /\ c.exitsignal = "none" =>
            \E i \in 1 .. Len(n \o b.out) : (n \o b.out)[i].type = "STATUS"
  <2>1. CASE e = "svr" /\ c.status /\ c.exitsignal # "nameless"
    <3>1. b = Put(c, m)
      <4>1. c.exitsignal \in {"none", "named"}
        BY <1>3, <2>1 DEF ChannelType
      <4> QED
        BY <2>1, <4>1 DEF closehandler
    <3> HIDE DEF m, b
    <3>2. /\ b \in ChannelType(e) /\ b = [c EXCEPT !.out = Append(c.out, m)]
      BY <1>1, <1>3, <3>1, PutFacts
    <3>3. /\ Kept(c, b) /\ b.rfd = c.rfd /\ b.wfd = c.wfd
          /\ b.open = c.open /\ b.sent_close = c.sent_close /\ b.sent_eof = c.sent_eof
          /\ b.out = Append(c.out, m)
      BY <1>3, <3>2 DEF ChannelType, Kept
    <3> DEFINE q == n \o c.out
               r == n \o b.out
    <3>4. n \o Append(c.out, m) = Append(n \o c.out, m)
      BY <1>1, <1>3, PutFacts
    <3>5. r = Append(q, m) /\ q \in Seq(Packets) /\ Sent(e, c, q, told)
      BY <1>3, <3>3, <3>4
    <3> HIDE DEF q, r
    <3>6. Added(q, r)
      BY <1>1, <3>5, AddedOne DEF Farewells
    <3>7. Sent(e, c, r, told)
      BY <1>1, <1>3, <2>1, <3>5, SentPut
    <3>8. Sent(e, b, r, told)
      BY <3>3, <3>7 DEF Sent, Kept
    <3>9. /\ r \in Seq(Packets) /\ Len(r) \in 1 .. Len(r)
          /\ c.exitsignal = "none" => r[Len(r)].type = "STATUS"
      BY <1>1, <3>5
    <3> QED
      BY <3>2, <3>3, <3>6, <3>8, <3>9 DEF q, r
  <2>2. CASE ~(e = "svr" /\ c.status /\ c.exitsignal # "nameless")
    <3>1. b = c
      BY <2>2 DEF closehandler
    <3> HIDE DEF b
    <3>2. ~(e = "svr" /\ c.pid /\ c.exitsignal = "none")
      BY <2>2, <1>3, StreamFacts DEF close_allowed
    <3> QED
      BY <1>3, <3>1, <3>2, AddedOne DEF Kept
  <2> QED
    BY <2>1, <2>2
<1> HIDE DEF m, l, b
<1>5. p \in ChannelType(e) /\ p = [b EXCEPT !.out = Append(b.out, l)]
  BY <1>1, <1>3, <1>4, PutFacts
<1>6. n \o Append(b.out, l) = Append(n \o b.out, l)
  <2>1. b \in ChannelType(e) /\ l \in Packets /\ n \in Seq(Packets)
    BY <1>1, <1>3, <1>4
  <2> QED
    BY <2>1, PutFacts
<1>7. /\ Kept(b, p) /\ p.open = b.open /\ p.out = Append(b.out, l)
  BY <1>4, <1>5 DEF ChannelType, Kept
<1> HIDE DEF p, d
<1>8. /\ d \in ChannelType(e) /\ Kept(p, d) /\ d.open = p.open /\ d.out = p.out
      /\ d.sent_eof = TRUE /\ d.sent_close = TRUE
      /\ \A s \in ReadStreams(e) : d.rfd[s] = "closed"
      /\ \A s \in WriteStreams(e) : d.wfd[s] = "closed"
  <2>1. p \in ChannelType(e)
    BY <1>5
  <2> QED
    BY <1>2, <2>1 DEF ChannelType, Kept, Fds
<1>9. /\ Kept(c, d) /\ d.open = c.open /\ d.pid = b.pid /\ c.pid = b.pid
      /\ d.exitsignal = b.exitsignal /\ c.exitsignal = b.exitsignal
  BY <1>4, <1>7, <1>8 DEF Kept
<1> DEFINE q == n \o b.out
           r == n \o d.out
<1>10. r = Append(q, l)
  BY <1>6, <1>7, <1>8
<1>11. q \in Seq(Packets) /\ Added(n \o c.out, q) /\ Sent(e, b, q, told)
       /\ (e = "svr" /\ b.pid /\ b.exitsignal = "none" =>
             \E i \in 1 .. Len(q) : q[i].type = "STATUS")
  BY <1>4, <1>9
<1> HIDE DEF q, r
<1>12. Added(q, r)
  BY <1>1, <1>10, <1>11, AddedOne DEF Farewells
<1>13. Added(n \o c.out, r)
  BY <1>3, <1>11, <1>12, AddedMore
<1>14. Sent(e, d, r, told)
  BY <1>1, <1>4, <1>8, <1>9, <1>10, <1>11, SentClose
<1>15. Closes(e, c, d, n)
  BY <1>8, <1>9, <1>13 DEF Closes, r
<1>16. Sound(e, d, n, told)
  BY <1>3, <1>8, <1>14 DEF Sound, r
<1> QED
  BY <1>8, <1>15, <1>16 DEF d

LEMMA StageRemove ==
    ASSUME NEW e \in Ends, NEW c, NEW n, NEW told \in BOOLEAN, Sound(e, c, n, told),
           c.sent_close, c.recv_close
    PROVE  Closes(e, c, remove_channel(c), n) /\ Sound(e, remove_channel(c), n, told)
<1> DEFINE d == remove_channel(c)
<1>1. c \in ChannelType(e) /\ n \in Seq(Packets) /\ n \o c.out \in Seq(Packets)
      /\ Sent(e, c, n \o c.out, told)
  BY DEF Sound, ChannelType
<1>2. /\ d \in ChannelType(e) /\ Kept(c, d) /\ d.out = c.out /\ d.open = FALSE
      /\ d.sent_eof = c.sent_eof /\ d.sent_close = c.sent_close
      /\ \A s \in ReadStreams(e) : d.rfd[s] = "closed"
      /\ \A s \in WriteStreams(e) : d.wfd[s] = "closed"
  BY <1>1 DEF remove_channel, ChannelType, Kept, Fds
<1> HIDE DEF d
<1>3. Added(n \o c.out, n \o d.out)
  BY <1>1, <1>2, AddedOne
<1>4. Sent(e, d, n \o d.out, told)
  <2> DEFINE q == n \o c.out
  <2>1. n \o d.out = q /\ Sent(e, c, q, told)
    BY <1>1, <1>2
  <2> HIDE DEF q
  <2>2. Sent(e, d, q, told)
    BY <1>2, <2>1 DEF Sent, Kept
  <2> QED
    BY <2>1, <2>2
<1>5. Closes(e, c, d, n)
  BY <1>2, <1>3 DEF Closes
<1>6. Sound(e, d, n, told)
  BY <1>1, <1>2, <1>4 DEF Sound
<1> QED
  BY <1>5, <1>6 DEF d

(* check_close closes descriptors and says so to the peer, in order.       *)
LEMMA CheckClose ==
    ASSUME NEW e \in Ends, NEW c, NEW n, NEW told \in BOOLEAN, Sound(e, c, n, told),
           NEW u, NEW d \in check_close(e, c, u)
    PROVE  Closes(e, c, d, n) /\ Sound(e, d, n, told)
<1> DEFINE f == Flush(e, c, u)
           g == CloseStdin(e, f)
           h == SendEof(g)
<1>1. Closes(e, c, f, n) /\ Sound(e, f, n, told)
  BY ShutFlush, StageShut DEF Sound
<1>2. \/ /\ f.recv_close /\ close_allowed(e, f)
         /\ d = remove_channel(IF f.sent_close THEN f ELSE send_msg_channel_close(e, f))
      \/ d = SendClose(e, h)
  BY DEF check_close
<1>3. CASE /\ f.recv_close /\ close_allowed(e, f)
           /\ d = remove_channel(IF f.sent_close THEN f ELSE send_msg_channel_close(e, f))
  <2> DEFINE k == IF f.sent_close THEN f ELSE send_msg_channel_close(e, f)
  <2> HIDE DEF f
  <2>1. Closes(e, c, k, n) /\ Sound(e, k, n, told) /\ k.sent_close /\ k.recv_close
    <3>1. CASE f.sent_close
      BY <1>1, <1>3, <3>1
    <3>2. CASE ~f.sent_close
      <4>1. /\ Closes(e, f, k, n) /\ Sound(e, k, n, told) /\ k.sent_close
        BY <1>1, <1>3, <3>2, StageClose
      <4> HIDE DEF k
      <4>2. k.recv_close
        BY <1>3, <4>1 DEF Closes, Kept
      <4>3. Closes(e, c, k, n)
        BY <1>1, <4>1, ClosesMore
      <4> QED
        BY <4>1, <4>2, <4>3
    <3> QED
      BY <3>1, <3>2
  <2>2. d = remove_channel(k)
    BY <1>3
  <2> HIDE DEF k
  <2>3. Closes(e, k, d, n) /\ Sound(e, d, n, told)
    BY <2>1, <2>2, StageRemove
  <2> QED
    BY <2>1, <2>3, ClosesMore
<1>4. CASE d = SendClose(e, h)
  <2> HIDE DEF f
  <2>1. Closes(e, f, g, n) /\ Sound(e, g, n, told)
    BY <1>1, ShutStdin, StageShut DEF Sound
  <2> HIDE DEF g
  <2>2. Closes(e, g, h, n) /\ Sound(e, h, n, told)
    BY <2>1, StageEof
  <2> HIDE DEF h
  <2>3. Closes(e, c, g, n)
    BY <1>1, <2>1, ClosesMore
  <2>4. Closes(e, c, h, n)
    BY <2>2, <2>3, ClosesMore
  <2>5. CASE d = h
    BY <2>2, <2>4, <2>5
  <2>6. CASE d = send_msg_channel_close(e, h) /\ ~h.sent_close /\ close_allowed(e, h)
    BY <2>2, <2>4, <2>6, StageClose, ClosesMore
  <2> QED
    BY <1>4, <2>5, <2>6 DEF SendClose
<1> QED
  BY <1>2, <1>3, <1>4

-----------------------------------------------------------------------------
(* The inductive invariant.                                                *)

Types ==
    /\ chan \in [Ends -> UNION { ChannelType(e) : e \in Ends }]
    /\ \A e \in Ends : /\ chan[e] \in ChannelType(e) /\ chan[e].out = <<>>
                       /\ ~chan[e].status => chan[e].exitsignal = "none"
    /\ net \in [Ends -> Seq(Packets)]
    /\ fatal = [e \in Ends |-> "no"]
    /\ pipe \in [Streams -> Seq(Nat)]
    /\ written \in [Streams -> Nat]
    /\ ended \in [Streams -> BOOLEAN]
    /\ reader \in [Streams -> BOOLEAN]
    /\ got \in [Streams -> Seq(Nat)]
    /\ command \in {"none", "failed", "running", "exited"}

(* The opening of the channel: asked for, confirmed, command requested.    *)
Accepted == [Channel("svr") EXCEPT !.open = TRUE, !.transwindow = Window]

Asked ==
    /\ chan["svr"] = Channel("svr") /\ chan["cli"] = Channel("cli")
    /\ net["svr"] = <<[type |-> "OPEN", incr |-> Window]>> /\ net["cli"] = <<>>

Confirmed ==
    /\ chan["svr"] = Accepted /\ chan["cli"] = Channel("cli")
    /\ net["cli"] = <<[type |-> "CONFIRM", incr |-> Window]>> /\ net["svr"] = <<>>

Requested ==
    /\ chan["svr"] = Accepted
    /\ net["cli"] = <<>>
    /\ net["svr"] # <<>> /\ net["svr"][1].type = "EXEC"
    /\ \A i \in 2 .. Len(net["svr"]) : net["svr"][i].type \notin Openings

Started ==
    /\ chan["svr"].pid <=> command # "failed"
    /\ \A e \in Ends : \A i \in 1 .. Len(net[e]) : net[e][i].type \notin Openings

Phase ==
    IF command = "none" THEN Asked \/ Confirmed \/ Requested ELSE Started

(* What end e has been told, and what it can still be told.                *)
Received(e) ==
    /\ chan[e].recv_eof =>
          /\ chan[Peer(e)].sent_eof
          /\ \A i \in 1 .. Len(net[e]) : net[e][i].type # "DATA"
    /\ chan[e].recv_close =>
          chan[e].recv_eof /\ chan[Peer(e)].sent_close /\ net[e] = <<>>

Gone(e) ==
    ~chan[e].open => \/ chan[e].recv_close /\ chan[e].sent_close
                     \/ e = "svr" /\ command = "none" /\ Asked

StatusKnown ==
    chan["cli"].recv_close =>
        chan["cli"].status \/ ~chan["svr"].pid \/ chan["svr"].exitsignal # "none"

Protocol ==
    /\ Phase /\ StatusKnown
    /\ \A e \in Ends : /\ Sent(e, chan[e], net[Peer(e)], chan[Peer(e)].status)
                       /\ Received(e) /\ Gone(e)

(* A step of end e, with channel c and the queue n to its peer: it takes a *)
(* packet of type t, or none, and its channel becomes d.                   *)
Serves(e, c, d, n, t) ==
    /\ d \in ChannelType(e)
    /\ d.pid = c.pid
    /\ c.sent_eof => d.sent_eof
    /\ c.sent_close => d.sent_close
    /\ c.sent_close /\ c.sent_eof => d.out = <<>>
    /\ n \o d.out \in Seq(Packets) /\ Len(n) <= Len(n \o d.out)
    /\ \A i \in 1 .. Len(n \o d.out) :
         \/ i <= Len(n) /\ (n \o d.out)[i] = n[i]
         \/ /\ i > Len(n) /\ (n \o d.out)[i].type \notin Openings
            /\ (n \o d.out)[i].type = "DATA" => ~c.sent_eof
    /\ c.open /\ (~d.open => d.recv_close /\ d.sent_close)
    /\ d.recv_eof = (c.recv_eof \/ t \in {"EOF", "CLOSE"})
    /\ d.recv_close = (c.recv_close \/ t = "CLOSE")
    /\ c.status => d.status
    /\ t = "STATUS" => d.status
    /\ c.exitsignal # "none" => d.exitsignal # "none"
    /\ ~d.status => d.exitsignal = c.exitsignal

LEMMA ServesCloses ==
    ASSUME NEW e \in Ends, NEW c \in ChannelType(e), NEW d, NEW f, NEW n \in Seq(Packets), NEW t,
           Serves(e, c, d, n, t), Closes(e, d, f, n)
    PROVE  Serves(e, c, f, n, t)
<1>1. c.sent_close /\ c.sent_eof => f.out = <<>>
  BY DEF Serves, Closes
<1>2. /\ d \in ChannelType(e) /\ f \in ChannelType(e)
  BY DEF Serves, Closes
<1>3. n \o f.out \in Seq(Packets) /\ Len(n) <= Len(n \o f.out)
  BY DEF Serves, Closes, Added
<1>4. \A i \in 1 .. Len(n \o f.out) :
         \/ i <= Len(n) /\ (n \o f.out)[i] = n[i]
         \/ /\ i > Len(n) /\ (n \o f.out)[i].type \notin Openings
            /\ (n \o f.out)[i].type = "DATA" => ~c.sent_eof
  <2> DEFINE q == n \o d.out
             r == n \o f.out
  <2>1. /\ \A i \in 1 .. Len(q) :
               \/ i <= Len(n) /\ q[i] = n[i]
               \/ /\ i > Len(n) /\ q[i].type \notin Openings
                  /\ q[i].type = "DATA" => ~c.sent_eof
        /\ Len(n) <= Len(q)
        /\ Len(n) \in Nat /\ q \in Seq(Packets)
    BY DEF Serves
  <2>2. Added(q, r)
    BY DEF Closes
  <2> HIDE DEF q, r
  <2>3. \A i \in 1 .. Len(r) :
               \/ i <= Len(n) /\ r[i] = n[i]
               \/ /\ i > Len(n) /\ r[i].type \notin Openings
                  /\ r[i].type = "DATA" => ~c.sent_eof
    <3>1. \A x \in Farewells : x \notin Openings /\ x # "DATA"
      BY DEF Farewells, Openings
    <3> QED
      BY <2>1, <2>2, <3>1, SMTT(30) DEF Added
  <2> QED
    BY <2>3 DEF r
<1> QED
  BY <1>1, <1>2, <1>3, <1>4 DEF Serves, Closes, Kept

Stepped(e, d, t) ==
    /\ chan' = [chan EXCEPT ![e] = [d EXCEPT !.out = <<>>]]
    /\ net' = IF t = "none" THEN [net EXCEPT ![Peer(e)] = @ \o d.out]
              ELSE [net EXCEPT ![e] = Tail(@), ![Peer(e)] = @ \o d.out]
    /\ t # "none" => net[e] # <<>> /\ Head(net[e]).type = t
    /\ command' = command
    /\ command = "none" => Requested /\ e = "cli" /\ t = "none"

(* What a step of end e leaves in both channels and both queues.           *)
LEMMA SteppedFacts ==
    ASSUME Types, NEW e \in Ends, NEW d \in ChannelType(e), NEW t, Stepped(e, d, t)
    PROVE  /\ Peer(e) \in Ends /\ Peer(e) # e /\ Peer(Peer(e)) = e
           /\ chan'[Peer(e)] = chan[Peer(e)]
           /\ chan'[e] = [d EXCEPT !.out = <<>>]
           /\ net'[Peer(e)] = net[Peer(e)] \o d.out
           /\ net'[e] = IF t = "none" THEN net[e] ELSE Tail(net[e])
           /\ \A x \in Ends : x = e \/ x = Peer(e)
BY StreamFacts DEF Types, Stepped

LEMMA OutCleared ==
    ASSUME NEW e \in Ends, NEW d \in ChannelType(e), NEW f, f = [d EXCEPT !.out = <<>>]
    PROVE  /\ f \in ChannelType(e) /\ f.out = <<>>
           /\ Kept(d, f) /\ f.rfd = d.rfd /\ f.wfd = d.wfd
           /\ f.sent_eof = d.sent_eof /\ f.sent_close = d.sent_close /\ f.open = d.open
<1>1. <<>> \in Seq(Packets)
  OBVIOUS
<1> QED
  BY <1>1 DEF ChannelType, Kept

LEMMA SentTail ==
    ASSUME NEW e \in Ends, NEW c \in ChannelType(e), NEW q \in Seq(Packets), q # <<>>,
           NEW told \in BOOLEAN, NEW now \in BOOLEAN, Sent(e, c, q, told),
           told => now, Head(q).type = "STATUS" => now
    PROVE  Sent(e, c, Tail(q), now)
<1> DEFINE r == Tail(q)
<1>1. /\ r \in Seq(Packets) /\ Len(r) = Len(q) - 1 /\ Len(q) \in Nat \ {0} /\ Head(q) = q[1]
      /\ \A i \in 1 .. Len(r) : r[i] = q[i + 1]
  OBVIOUS
<1> HIDE DEF r
<1>2. /\ \A i \in 1 .. Len(q) :
         /\ q[i].type = "CLOSE" => i = Len(q) /\ c.sent_close
         /\ q[i].type = "EOF" => /\ c.sent_eof
                                 /\ \A j \in i .. Len(q) : q[j].type # "DATA"
         /\ q[i].type = "DATA" => q[i].stream \in ReadStreams(e)
         /\ q[i].type \in {"STATUS", "SIGNAL"} => e = "svr"
      /\ e = "svr" /\ c.pid /\ c.exitsignal = "none" /\ c.sent_close =>
          told \/ \E i \in 1 .. Len(q) : q[i].type = "STATUS"
  BY DEF Sent
<1>3. ASSUME NEW i \in 1 .. Len(r)
      PROVE  /\ r[i].type = "CLOSE" => i = Len(r) /\ c.sent_close
             /\ r[i].type = "DATA" => r[i].stream \in ReadStreams(e)
             /\ r[i].type \in {"STATUS", "SIGNAL"} => e = "svr"
             /\ r[i].type = "EOF" => c.sent_eof
  <2>1. i + 1 \in 1 .. Len(q) /\ r[i] = q[i + 1] /\ (i + 1 = Len(q) => i = Len(r))
    BY <1>1
  <2> QED
    BY <1>2, <2>1
<1>4. ASSUME NEW i \in 1 .. Len(r), r[i].type = "EOF", NEW j \in i .. Len(r)
      PROVE  r[j].type # "DATA"
  <2>1. i + 1 \in 1 .. Len(q) /\ j + 1 \in i + 1 .. Len(q) /\ j \in 1 .. Len(r)
    BY <1>1
  <2> QED
    BY <1>1, <1>2, <1>4, <2>1
<1>5. ASSUME e = "svr", c.pid, c.exitsignal = "none", c.sent_close, ~now
      PROVE  \E i \in 1 .. Len(r) : r[i].type = "STATUS"
  <2>1. PICK i \in 1 .. Len(q) : q[i].type = "STATUS"
    BY <1>2, <1>5
  <2>2. i # 1
    BY <1>1, <1>5, <2>1
  <2>3. i - 1 \in 1 .. Len(r) /\ r[i - 1] = q[i]
    BY <1>1, <2>2
  <2> QED
    BY <2>1, <2>3
<1> QED
  BY <1>3, <1>4, <1>5 DEF Sent, r

(* What the packet at the head of a queue says about its sender and about  *)
(* the packets behind it.                                                  *)
LEMMA SentHead ==
    ASSUME NEW e \in Ends, NEW c, NEW q \in Seq(Packets), q # <<>>,
           NEW told \in BOOLEAN, Sent(e, c, q, told)
    PROVE  /\ Head(q).type \in {"EOF", "CLOSE"} =>
                 c.sent_eof /\ \A i \in 1 .. Len(Tail(q)) : Tail(q)[i].type # "DATA"
           /\ Head(q).type = "CLOSE" =>
                 /\ c.sent_eof /\ c.sent_close /\ Tail(q) = <<>>
                 /\ e = "svr" /\ c.pid /\ c.exitsignal = "none" => told
           /\ Head(q).type = "DATA" => Head(q).stream \in ReadStreams(e)
           /\ Head(q).type \in {"STATUS", "SIGNAL"} => e = "svr"
           /\ \A i \in 1 .. Len(Tail(q)) : \E j \in 1 .. Len(q) : Tail(q)[i] = q[j]
<1> DEFINE r == Tail(q)
<1>1. /\ r \in Seq(Packets) /\ Len(r) = Len(q) - 1 /\ Len(q) \in Nat \ {0} /\ Head(q) = q[1]
      /\ \A i \in 1 .. Len(r) : r[i] = q[i + 1] /\ i + 1 \in 1 .. Len(q)
  OBVIOUS
<1> HIDE DEF r
<1>2. 1 \in 1 .. Len(q)
  BY <1>1
<1>3. /\ q[1].type = "CLOSE" => 1 = Len(q) /\ c.sent_close
      /\ q[1].type = "EOF" => c.sent_eof /\ \A j \in 1 .. Len(q) : q[j].type # "DATA"
      /\ q[1].type = "DATA" => q[1].stream \in ReadStreams(e)
      /\ q[1].type \in {"STATUS", "SIGNAL"} => e = "svr"
  BY <1>2 DEF Sent
<1>4. ASSUME q[1].type = "CLOSE"
      PROVE  /\ c.sent_eof /\ c.sent_close /\ r = <<>>
             /\ e = "svr" /\ c.pid /\ c.exitsignal = "none" => told
  <2>1. r = <<>>
    BY <1>1, <1>3, <1>4
  <2>2. \A i \in 1 .. Len(q) : q[i].type # "STATUS"
    <3>1. Len(q) = 1
      BY <1>3, <1>4
    <3>2. \A i \in 1 .. Len(q) : i = 1
      BY <3>1
    <3> QED
      BY <1>4, <3>2
  <2>3. /\ c.sent_close => c.sent_eof
        /\ e = "svr" /\ c.pid /\ c.exitsignal = "none" /\ c.sent_close =>
              told \/ \E i \in 1 .. Len(q) : q[i].type = "STATUS"
    BY DEF Sent
  <2> QED
    BY <1>3, <1>4, <2>1, <2>2, <2>3
<1>5. q[1].type = "CLOSE" => \A i \in 1 .. Len(r) : r[i].type # "DATA"
  BY <1>4
<1> QED
  BY <1>1, <1>3, <1>4, <1>5 DEF r

LEMMA ProtocolStep ==
    ASSUME Types, Protocol, NEW e \in Ends, NEW d, NEW t, Stepped(e, d, t),
           Serves(e, chan[e], d, net[Peer(e)], t),
           Sound(e, d, net[Peer(e)], chan[Peer(e)].status)
    PROVE  Protocol'
<1> DEFINE p == Peer(e)
           c == chan[e]
           b == chan[p]
           n == net[p]
           q == net[e]
           r == n \o d.out
           f == [d EXCEPT !.out = <<>>]
<1>1. /\ p \in Ends /\ p # e /\ Peer(p) = e
      /\ chan'[p] = b /\ chan'[e] = f /\ net'[p] = r
      /\ net'[e] = IF t = "none" THEN q ELSE Tail(q)
      /\ \A x \in Ends : x = e \/ x = p
      /\ d \in ChannelType(e)
  BY SteppedFacts, ZenonT(30) DEF Serves
<1>2. c \in ChannelType(e) /\ b \in ChannelType(p) /\ n \in Seq(Packets) /\ q \in Seq(Packets)
  BY <1>1 DEF Types
<1>3. /\ f \in ChannelType(e) /\ Kept(d, f) /\ f.rfd = d.rfd /\ f.wfd = d.wfd
      /\ f.sent_eof = d.sent_eof /\ f.sent_close = d.sent_close /\ f.open = d.open
  BY <1>1, OutCleared
<1>4. /\ Sent(e, c, n, b.status) /\ Received(e) /\ Gone(e)
      /\ Sent(p, b, q, c.status) /\ Received(p) /\ Gone(p)
  BY <1>1 DEF Protocol
<1>5. Sent(e, d, r, b.status)
  BY DEF Sound
<1>6. t # "none" => q # <<>> /\ Head(q).type = t /\ Head(q) = q[1]
  BY DEF Stepped
<1>s. Serves(e, c, d, n, t)
  OBVIOUS
<1>b. /\ c.status \in BOOLEAN /\ f.status \in BOOLEAN /\ b.status \in BOOLEAN
      /\ f.status = d.status /\ f.recv_eof = d.recv_eof /\ f.recv_close = d.recv_close
      /\ f.pid = d.pid /\ f.exitsignal = d.exitsignal
  BY <1>2, <1>3 DEF ChannelType, Kept
<1> HIDE DEF p, c, b, n, q, r, f
<1>7. Sent(e, f, r, b.status)
  BY <1>3, <1>5, <1>b DEF Sent
<1>8. Sent(p, b, net'[e], f.status)
  <2>1. c.status => f.status
    BY <1>b, <1>s DEF Serves
  <2>2. CASE t = "none"
    <3>1. net'[e] = q
      BY <1>1, <2>2
    <3> QED
      BY <1>4, <2>1, <3>1 DEF Sent
  <2>3. CASE t # "none"
    <3>1. Head(q).type = "STATUS" => f.status
      BY <1>6, <1>b, <1>s, <2>3 DEF Serves
    <3>2. Sent(p, b, Tail(q), f.status)
      BY <1>1, <1>2, <1>4, <1>6, <1>b, <2>1, <2>3, <3>1, SentTail
    <3> QED
      BY <1>1, <2>3, <3>2
  <2> QED
    BY <2>2, <2>3
<1>9. ASSUME t # "none"
      PROVE  /\ t \in {"EOF", "CLOSE"} => b.sent_eof /\ \A i \in 1 .. Len(Tail(q)) : Tail(q)[i].type # "DATA"
             /\ t = "CLOSE" => b.sent_eof /\ b.sent_close /\ Tail(q) = <<>>
             /\ \A i \in 1 .. Len(Tail(q)) : \E j \in 1 .. Len(q) : Tail(q)[i] = q[j]
             /\ ~c.recv_close
  <2>1. ~c.recv_close
    BY <1>4, <1>6, <1>9 DEF Received, c, q
  <2> QED
    BY <1>1, <1>2, <1>4, <1>6, <1>9, <1>b, <2>1, SentHead
<1>10. Received(e)'
  <2>1. /\ f.recv_eof = (c.recv_eof \/ t \in {"EOF", "CLOSE"})
        /\ f.recv_close = (c.recv_close \/ t = "CLOSE")
    BY <1>b, <1>s DEF Serves
  <2>2. /\ c.recv_eof => b.sent_eof /\ \A i \in 1 .. Len(q) : q[i].type # "DATA"
        /\ c.recv_close => c.recv_eof /\ b.sent_close /\ q = <<>>
    BY <1>4 DEF Received, c, b, q, p
  <2>3. /\ f.recv_eof => b.sent_eof /\ \A i \in 1 .. Len(net'[e]) : net'[e][i].type # "DATA"
        /\ f.recv_close => f.recv_eof /\ b.sent_close /\ net'[e] = <<>>
    <3>1. CASE t = "none"
      BY <1>1, <2>1, <2>2, <3>1
    <3>2. CASE t # "none"
      <4>1. f.recv_close => t = "CLOSE" /\ f.recv_eof
        BY <1>9, <2>1, <3>2
      <4>2. c.recv_eof => \A i \in 1 .. Len(Tail(q)) : Tail(q)[i].type # "DATA"
        BY <1>9, <2>2, <3>2
      <4>4. f.recv_eof => b.sent_eof
        BY <1>9, <2>1, <2>2, <3>2
      <4>5. f.recv_eof => \A i \in 1 .. Len(Tail(q)) : Tail(q)[i].type # "DATA"
        BY <1>9, <2>1, <3>2, <4>2
      <4>6. net'[e] = Tail(q)
        BY <1>1, <3>2
      <4> QED
        BY <1>9, <3>2, <4>1, <4>4, <4>5, <4>6
    <3> QED
      BY <3>1, <3>2
  <2>4. chan'[e] = f /\ chan'[Peer(e)] = b
    BY <1>1 DEF p
  <2> QED
    BY <2>3, <2>4 DEF Received
<1>11. Received(p)'
  <2>1. /\ b.recv_eof => c.sent_eof /\ \A i \in 1 .. Len(n) : n[i].type # "DATA"
        /\ b.recv_close => b.recv_eof /\ c.sent_close /\ n = <<>>
    BY <1>1, <1>4 DEF Received, c, b, n
  <2>2. c.sent_close => c.sent_eof
    BY <1>4 DEF Sent
  <2>3. /\ c.sent_eof => f.sent_eof
        /\ c.sent_close => f.sent_close /\ d.out = <<>>
        /\ \A i \in 1 .. Len(r) : \/ i \in 1 .. Len(n) /\ r[i] = n[i]
                                  \/ r[i].type = "DATA" => ~c.sent_eof
    BY <1>2, <1>3, <1>s, <2>2 DEF Serves, r
  <2>4. n = <<>> /\ d.out = <<>> => r = <<>>
    BY DEF r
  <2>5. /\ b.recv_eof => f.sent_eof /\ \A i \in 1 .. Len(r) : r[i].type # "DATA"
        /\ b.recv_close => b.recv_eof /\ f.sent_close /\ r = <<>>
    BY <2>1, <2>3, <2>4
  <2> QED
    BY <1>1, <2>5 DEF Received
<1>12. Gone(e)' /\ Gone(p)'
  <2>1. c.open /\ (~f.open => f.recv_close /\ f.sent_close)
    BY <1>3, <1>b, <1>s DEF Serves
  <2>2. ~b.open => b.recv_close /\ b.sent_close
    <3>1. command = "none" => ~Asked
      BY StreamFacts DEF Stepped, Requested, Asked, Accepted, Channel
    <3> QED
      BY <1>4, <3>1 DEF Gone, b
  <2> QED
    BY <1>1, <2>1, <2>2 DEF Gone
<1>13. StatusKnown'
  <2>1. StatusKnown
    BY DEF Protocol
  <2>2. CASE e = "svr"
    <3>1. p = "cli" /\ chan'["cli"] = b /\ chan["cli"] = b /\ chan'["svr"] = f /\ chan["svr"] = c
      BY <1>1, <2>2, StreamFacts DEF p, b, c
    <3>2. f.pid = c.pid /\ (c.exitsignal # "none" => f.exitsignal # "none")
      BY <1>b, <1>s DEF Serves
    <3> QED
      BY <2>1, <3>1, <3>2 DEF StatusKnown
  <2>3. CASE e = "cli"
    <3>1. p = "svr" /\ chan'["cli"] = f /\ chan["cli"] = c /\ chan'["svr"] = b /\ chan["svr"] = b
      BY <1>1, <2>3, StreamFacts DEF p, b, c
    <3>2. /\ f.recv_close = (c.recv_close \/ t = "CLOSE")
          /\ c.status => f.status
      BY <1>b, <1>s DEF Serves
    <3>3. ASSUME t = "CLOSE" PROVE c.status \/ ~b.pid \/ b.exitsignal # "none"
      <4>1. q # <<>> /\ Head(q).type = "CLOSE"
        BY <1>6, <3>3
      <4> QED
        BY <1>1, <1>2, <1>4, <1>b, <3>1, <4>1, SentHead
    <3> QED
      BY <2>1, <3>1, <3>2, <3>3 DEF StatusKnown
  <2> QED
    BY <2>2, <2>3, StreamFacts
<1>14. Phase'
  <2>1. command' = command /\ (command = "none" => Requested /\ e = "cli" /\ t = "none")
    BY DEF Stepped
  <2>2. /\ r \in Seq(Packets) /\ Len(n) <= Len(r) /\ Len(n) \in Nat
        /\ \A i \in 1 .. Len(r) : \/ i \in 1 .. Len(n) /\ r[i] = n[i]
                                  \/ i > Len(n) /\ r[i].type \notin Openings
    BY <1>2, <1>s DEF Serves, r
  <2>3. CASE command = "none"
    <3>1. /\ b = Accepted /\ q = <<>> /\ n # <<>> /\ n[1].type = "EXEC" /\ p = "svr"
          /\ \A i \in 2 .. Len(n) : n[i].type \notin Openings
      BY <2>1, <2>3, StreamFacts DEF Requested, b, n, p, q
    <3>2. r # <<>> /\ r[1].type = "EXEC"
      BY <1>2, <2>2, <3>1 DEF Openings
    <3>3. \A i \in 2 .. Len(r) : r[i].type \notin Openings
      BY <2>2, <3>1
    <3>4. chan'["svr"] = b /\ net'["cli"] = q /\ net'["svr"] = r
      BY <1>1, <2>1, <2>3, <3>1
    <3>5. Requested'
      BY <3>1, <3>2, <3>3, <3>4 DEF Requested, Accepted, Channel
    <3> QED
      BY <2>1, <2>3, <3>5 DEF Phase
  <2>4. CASE command # "none"
    <3>1. Started
      BY <2>4 DEF Protocol, Phase
    <3>2. /\ \A i \in 1 .. Len(n) : n[i].type \notin Openings
          /\ \A i \in 1 .. Len(q) : q[i].type \notin Openings
      BY <1>1, <3>1 DEF Started, n, q
    <3>3. \A i \in 1 .. Len(r) : r[i].type \notin Openings
      BY <2>2, <3>2
    <3>4. \A i \in 1 .. Len(net'[e]) : net'[e][i].type \notin Openings
      BY <1>1, <1>9, <3>2
    <3>5. chan["svr"].pid = chan'["svr"].pid
      <4>1. f.pid = c.pid
        BY <1>b, <1>s DEF Serves
      <4>2. e = "svr" \/ p = "svr"
        BY <1>1, StreamFacts
      <4> QED
        BY <1>1, <4>1, <4>2 DEF c, b
    <3>6. \A x \in Ends : \A i \in 1 .. Len(net'[x]) : net'[x][i].type \notin Openings
      BY <1>1, <3>3, <3>4
    <3>7. Started'
      BY <2>1, <3>1, <3>5, <3>6 DEF Started
    <3> QED
      BY <2>1, <2>4, <3>7 DEF Phase
  <2> QED
    BY <2>3, <2>4
<1>15. Sent(e, chan[e], net[Peer(e)], chan[Peer(e)].status)'
  BY <1>1, <1>7 DEF p
<1>16. Sent(p, chan[p], net[Peer(p)], chan[Peer(p)].status)'
  BY <1>1, <1>8
<1> QED
  BY <1>1, <1>10, <1>11, <1>12, <1>13, <1>14, <1>15, <1>16 DEF Protocol

-----------------------------------------------------------------------------
(* The windows.                                                            *)

LEMMA Constants ==
    /\ Window \in Nat /\ Window >= 3 /\ MaxPacket \in Nat /\ MaxPacket > 0
    /\ WindowExtend \in Nat /\ WindowExtend > 0 /\ WindowExtend <= Window
<1>1. Window \in Nat /\ Window >= 3 /\ MaxPacket \in Nat /\ MaxPacket > 0
  BY SshSessionAssumption
<1> QED
  BY <1>1 DEF WindowExtend

Sendable(e) == chan[e].transwindow + DataIn(net[Peer(e)]) + CreditIn(net[e])
Backed(c) == c.recvwindow + c.recvdonelen + Buffered(c)

(* Nothing sent to end e has been dropped.                                 *)
Full(e) ==
    \/ \A s \in WriteStreams(e) : chan[e].wfd[s] = "open"
    \/ e = "svr" /\ command = "none" /\ chan[e].open

Balance(e) ==
    /\ Sendable(Peer(e)) <= chan[e].recvwindow
    /\ Backed(chan[e]) <= Window
    /\ chan[e].recvdonelen < WindowExtend
    /\ Full(e) => Sendable(Peer(e)) = chan[e].recvwindow /\ Backed(chan[e]) = Window

Replaced(f, s, x) == [f EXCEPT ![s] = x]

LEMMA BufferedFacts ==
    ASSUME NEW e \in Ends, NEW c \in ChannelType(e)
    PROVE  /\ Buffered(c) \in Nat
           /\ \A s \in WriteStreams(e) : Len(c.buf[s]) \in Nat /\ Len(c.buf[s]) <= Buffered(c)
           /\ \A d \in ChannelType(e) : d.buf = c.buf => Buffered(d) = Buffered(c)
           /\ \A d \in ChannelType(e), s \in WriteStreams(e), x \in Seq(Nat) :
                d.buf = Replaced(c.buf, s, x) =>
                    Buffered(d) = Buffered(c) - Len(c.buf[s]) + Len(x)
<1>1. \A d \in ChannelType(e) :
         /\ d.buf \in [WriteStreams(e) -> Seq(Nat)]
         /\ \A s \in WriteStreams(e) : Len(d.buf[s]) \in Nat
  BY DEF ChannelType
<1>2. CASE e = "cli"
  <2>1. WriteStreams(e) = {"out", "err"}
    BY <1>2, StreamFacts
  <2>2. ASSUME NEW d \in ChannelType(e)
        PROVE  /\ Buffered(d) = Len(d.buf["out"]) + Len(d.buf["err"])
               /\ Len(d.buf["out"]) \in Nat /\ Len(d.buf["err"]) \in Nat
    <3>1. DOMAIN d.buf = {"out", "err"} /\ Len(d.buf["out"]) \in Nat /\ Len(d.buf["err"]) \in Nat
      BY <1>1, <2>1
    <3> QED
      BY <3>1 DEF Buffered
  <2>3. ASSUME NEW d \in ChannelType(e), NEW s \in WriteStreams(e), NEW x \in Seq(Nat),
               d.buf = Replaced(c.buf, s, x)
        PROVE  Buffered(d) = Buffered(c) - Len(c.buf[s]) + Len(x)
    <3>1. \A w \in WriteStreams(e) : d.buf[w] = IF w = s THEN x ELSE c.buf[w]
      BY <1>1, <2>3 DEF Replaced
    <3>a. Len(x) \in Nat
      OBVIOUS
    <3>2. /\ Len(x) \in Nat /\ Len(c.buf["out"]) \in Nat /\ Len(c.buf["err"]) \in Nat
          /\ Buffered(c) = Len(c.buf["out"]) + Len(c.buf["err"])
          /\ Buffered(d) = Len(d.buf["out"]) + Len(d.buf["err"])
      BY <2>2, <3>a, Zenon
    <3>3. CASE s = "out"
      <4>1. d.buf["out"] = x /\ d.buf["err"] = c.buf["err"]
        BY <2>1, <3>1, <3>3
      <4> QED
        BY <3>2, <3>3, <4>1
    <3>4. CASE s = "err"
      <4>1. d.buf["err"] = x /\ d.buf["out"] = c.buf["out"]
        BY <2>1, <3>1, <3>4
      <4> QED
        BY <3>2, <3>4, <4>1
    <3> QED
      BY <2>1, <3>3, <3>4
  <2>4. /\ Buffered(c) \in Nat
        /\ \A s \in WriteStreams(e) : Len(c.buf[s]) \in Nat /\ Len(c.buf[s]) <= Buffered(c)
    <3>1. /\ Len(c.buf["out"]) \in Nat /\ Len(c.buf["err"]) \in Nat
          /\ Buffered(c) = Len(c.buf["out"]) + Len(c.buf["err"])
      BY <2>2, Zenon
    <3> DEFINE x == Len(c.buf["out"])
               y == Len(c.buf["err"])
               z == Buffered(c)
    <3>2. x \in Nat /\ y \in Nat /\ z = x + y
      BY <3>1
    <3> HIDE DEF x, y, z
    <3>3. z \in Nat /\ x <= z /\ y <= z
      BY <3>2
    <3> QED
      BY <2>1, <3>1, <3>3 DEF x, y, z
  <2> QED
    BY <2>2, <2>3, <2>4
<1>3. CASE e = "svr"
  <2>1. WriteStreams(e) = {"in"}
    BY <1>3, StreamFacts
  <2>2. ASSUME NEW d \in ChannelType(e)
        PROVE  Buffered(d) = Len(d.buf["in"]) /\ Len(d.buf["in"]) \in Nat
    <3>1. DOMAIN d.buf = {"in"} /\ Len(d.buf["in"]) \in Nat
      BY <1>1, <2>1
    <3> QED
      BY <3>1 DEF Buffered
  <2>3. ASSUME NEW d \in ChannelType(e), NEW s \in WriteStreams(e), NEW x \in Seq(Nat),
               d.buf = Replaced(c.buf, s, x)
        PROVE  Buffered(d) = Buffered(c) - Len(c.buf[s]) + Len(x)
    <3>1. s = "in" /\ d.buf["in"] = x /\ Len(x) \in Nat
      BY <1>1, <2>1, <2>3 DEF Replaced
    <3> QED
      BY <2>2, <3>1, SMTT(30)
  <2> QED
    BY <2>1, <2>2, <2>3
<1> QED
  BY <1>2, <1>3, StreamFacts

LEMMA BackedType ==
    ASSUME NEW e \in Ends, NEW c \in ChannelType(e)
    PROVE  /\ c.transwindow \in Nat /\ c.recvwindow \in Int /\ c.recvdonelen \in Nat
           /\ Backed(c) \in Int
<1>1. c.transwindow \in Nat /\ c.recvwindow \in Int /\ c.recvdonelen \in Nat
  BY DEF ChannelType
<1> QED
  BY <1>1, BufferedFacts DEF Backed

(* How the step of Serves moves the windows; q becomes r in the queue to   *)
(* the end itself.                                                         *)
Weighs(e, c, d, n, q, r) ==
    /\ d.transwindow + DataIn(n \o d.out) + CreditIn(r) = c.transwindow + DataIn(n) + CreditIn(q)
    /\ c.recvwindow - CreditIn(n) - DataIn(q) <= d.recvwindow - CreditIn(n \o d.out) - DataIn(r)
    /\ Backed(d) <= Backed(c)
    /\ d.recvdonelen < WindowExtend
    /\ (\A s \in WriteStreams(e) : d.wfd[s] = "open") =>
         /\ \A s \in WriteStreams(e) : c.wfd[s] = "open"
         /\ c.recvwindow - CreditIn(n) - DataIn(q) = d.recvwindow - CreditIn(n \o d.out) - DataIn(r)
         /\ Backed(d) = Backed(c)

LEMMA WeighsCloses ==
    ASSUME NEW e \in Ends, NEW c \in ChannelType(e), NEW d \in ChannelType(e), NEW f,
           NEW n \in Seq(Packets), NEW q, NEW r,
           Weighs(e, c, d, n, q, r), Closes(e, d, f, n)
    PROVE  Weighs(e, c, f, n, q, r)
<1>1. f \in ChannelType(e) /\ Kept(d, f)
  BY DEF Closes
<1>2. Buffered(f) = Buffered(d)
  BY <1>1, BufferedFacts DEF Kept
<1>3. Backed(f) = Backed(d) /\ f.transwindow = d.transwindow /\ f.recvwindow = d.recvwindow
      /\ f.recvdonelen = d.recvdonelen
  BY <1>1, <1>2 DEF Backed, Kept
<1>4. DataIn(n \o f.out) = DataIn(n \o d.out) /\ CreditIn(n \o f.out) = CreditIn(n \o d.out)
  BY DEF Closes, Added
<1>5. \A s \in WriteStreams(e) : f.wfd[s] = "open" => d.wfd[s] = "open"
  BY DEF Closes
<1> QED
  BY <1>3, <1>4, <1>5 DEF Weighs

LEMMA BalanceStep ==
    ASSUME Types, NEW e \in Ends, Balance(e), Balance(Peer(e)), NEW d \in ChannelType(e), NEW t,
           Stepped(e, d, t),
           Weighs(e, chan[e], d, net[Peer(e)], net[e], net'[e])
    PROVE  Balance(e)' /\ Balance(Peer(e))'
<1> DEFINE p == Peer(e)
           c == chan[e]
           b == chan[p]
           n == net[p]
           q == net[e]
           m == n \o d.out
           r == net'[e]
           f == [d EXCEPT !.out = <<>>]
<1>1. /\ p \in Ends /\ p # e /\ Peer(p) = e
      /\ chan'[p] = b /\ chan'[e] = f /\ net'[p] = m
      /\ r = IF t = "none" THEN q ELSE Tail(q)
  BY SteppedFacts
<1>2. c \in ChannelType(e) /\ b \in ChannelType(p) /\ n \in Seq(Packets) /\ q \in Seq(Packets)
  BY <1>1 DEF Types
<1>3. m \in Seq(Packets) /\ r \in Seq(Packets)
  <2>1. m \in Seq(Packets)
    BY <1>2 DEF ChannelType
  <2>2. t # "none" => q # <<>> /\ Tail(q) \in Seq(Packets)
    BY <1>2 DEF Stepped
  <2> QED
    BY <1>1, <1>2, <2>1, <2>2
<1>4. /\ f \in ChannelType(e) /\ Kept(d, f) /\ f.wfd = d.wfd
  BY OutCleared
<1>5. Buffered(f) = Buffered(d)
  BY <1>4, BufferedFacts DEF Kept
<1>6. /\ f.transwindow = d.transwindow /\ f.recvwindow = d.recvwindow
      /\ f.recvdonelen = d.recvdonelen /\ Backed(f) = Backed(d)
  BY <1>4, <1>5 DEF Kept, Backed
<1>7. Weighs(e, c, d, n, q, r)
  OBVIOUS
<1>8. /\ b.transwindow + DataIn(q) + CreditIn(n) <= c.recvwindow
      /\ Backed(c) <= Window
      /\ Full(e) => /\ b.transwindow + DataIn(q) + CreditIn(n) = c.recvwindow
                    /\ Backed(c) = Window
  BY <1>1 DEF Balance, Sendable
<1>9. /\ c.transwindow + DataIn(n) + CreditIn(q) <= b.recvwindow
      /\ Backed(b) <= Window /\ b.recvdonelen < WindowExtend
      /\ Full(p) => /\ c.transwindow + DataIn(n) + CreditIn(q) = b.recvwindow
                    /\ Backed(b) = Window
  BY <1>1 DEF Balance, Sendable
<1>10. /\ DataIn(q) \in Nat /\ CreditIn(q) \in Nat /\ DataIn(n) \in Nat /\ CreditIn(n) \in Nat
       /\ DataIn(m) \in Nat /\ CreditIn(m) \in Nat /\ DataIn(r) \in Nat /\ CreditIn(r) \in Nat
  BY <1>2, <1>3, QueueFacts
<1>11. /\ b.transwindow \in Nat /\ c.transwindow \in Nat /\ d.transwindow \in Nat
       /\ c.recvwindow \in Int /\ d.recvwindow \in Int /\ b.recvwindow \in Int
       /\ Backed(c) \in Int /\ Backed(d) \in Int /\ Backed(b) \in Int
  <2>1. ASSUME NEW x \in Ends, NEW g \in ChannelType(x)
        PROVE  g.transwindow \in Nat /\ g.recvwindow \in Int /\ Backed(g) \in Int
    <3>1. g.transwindow \in Nat /\ g.recvwindow \in Int /\ g.recvdonelen \in Nat
      BY DEF ChannelType
    <3> QED
      BY <3>1, BufferedFacts DEF Backed
  <2> QED
    BY <1>1, <1>2, <2>1
<1>12. Full(e)' => Full(e) /\ \A s \in WriteStreams(e) : d.wfd[s] = "open"
  <2>1. ~(e = "svr" /\ command' = "none")
    BY DEF Stepped
  <2>2. Full(e)' => \A s \in WriteStreams(e) : d.wfd[s] = "open"
    BY <1>1, <1>4, <2>1 DEF Full
  <2>3. (\A s \in WriteStreams(e) : d.wfd[s] = "open") => \A s \in WriteStreams(e) : c.wfd[s] = "open"
    BY <1>7 DEF Weighs
  <2> QED
    BY <2>2, <2>3 DEF Full
<1>13. Full(p)' => Full(p)
  BY <1>1 DEF Full, Stepped
<1> HIDE DEF p, c, b, n, q, m, r, f
<1>w. /\ d.transwindow + DataIn(m) + CreditIn(r) = c.transwindow + DataIn(n) + CreditIn(q)
      /\ c.recvwindow - CreditIn(n) - DataIn(q) <= d.recvwindow - CreditIn(m) - DataIn(r)
      /\ Backed(d) <= Backed(c)
      /\ d.recvdonelen < WindowExtend
      /\ (\A s \in WriteStreams(e) : d.wfd[s] = "open") =>
           /\ c.recvwindow - CreditIn(n) - DataIn(q) = d.recvwindow - CreditIn(m) - DataIn(r)
           /\ Backed(d) = Backed(c)
  BY <1>7 DEF Weighs, m
<1>14. /\ b.transwindow + DataIn(r) + CreditIn(m) <= d.recvwindow
       /\ Backed(d) <= Window
       /\ Full(e)' => /\ b.transwindow + DataIn(r) + CreditIn(m) = d.recvwindow
                      /\ Backed(d) = Window
  <2>1. b.transwindow + DataIn(r) + CreditIn(m) <= d.recvwindow
    BY <1>8, <1>10, <1>11, <1>w
  <2>2. Backed(d) <= Window
    BY <1>8, <1>11, <1>w, Constants
  <2>3. ASSUME Full(e)'
        PROVE  b.transwindow + DataIn(r) + CreditIn(m) = d.recvwindow /\ Backed(d) = Window
    <3>1. /\ b.transwindow + DataIn(q) + CreditIn(n) = c.recvwindow /\ Backed(c) = Window
          /\ c.recvwindow - CreditIn(n) - DataIn(q) = d.recvwindow - CreditIn(m) - DataIn(r)
          /\ Backed(d) = Backed(c)
      BY <1>8, <1>12, <1>w, <2>3
    <3> QED
      BY <1>10, <1>11, <3>1
  <2> QED
    BY <2>1, <2>2, <2>3
<1>15. /\ d.transwindow + DataIn(m) + CreditIn(r) <= b.recvwindow
       /\ Full(p)' => d.transwindow + DataIn(m) + CreditIn(r) = b.recvwindow
  BY <1>9, <1>13, <1>w
<1>16. Sendable(p)' = b.transwindow + DataIn(r) + CreditIn(m)
       /\ Sendable(e)' = d.transwindow + DataIn(m) + CreditIn(r)
  BY <1>1, <1>6 DEF Sendable, r, p
<1>17. Balance(e)'
  <2>1. Peer(e) = p /\ chan'[e] = f
    BY <1>1 DEF p
  <2> QED
    BY <1>6, <1>14, <1>16, <1>w, <2>1 DEF Balance
<1>18. Balance(p)'
  BY <1>1, <1>9, <1>13, <1>15, <1>16 DEF Balance
<1> QED
  BY <1>17, <1>18 DEF p

-----------------------------------------------------------------------------
(* The steps of the two ends.                                              *)

SessionInv ==
    /\ Types /\ Protocol
    /\ \A e \in Ends : Balance(e)

(* What a step changes of a channel itself, before check_close.            *)
Turns(e, c, d, t) ==
    /\ c \in ChannelType(e) /\ d \in ChannelType(e)
    /\ d.pid = c.pid /\ c.open /\ d.open
    /\ d.sent_eof = c.sent_eof /\ d.sent_close = c.sent_close
    /\ \A s \in ReadStreams(e) : d.rfd[s] \in {c.rfd[s], "closed"}
    /\ \A s \in WriteStreams(e) : d.wfd[s] \in {c.wfd[s], "closed"}
    /\ d.recv_eof = (c.recv_eof \/ t \in {"EOF", "CLOSE"})
    /\ d.recv_close = (c.recv_close \/ t = "CLOSE")
    /\ c.status => d.status
    /\ t = "STATUS" => d.status
    /\ c.exitsignal # "none" => d.exitsignal # "none"
    /\ ~d.status => d.exitsignal = c.exitsignal

LEMMA Idle ==
    ASSUME SessionInv, NEW e \in Ends
    PROVE  /\ chan[e] \in ChannelType(e) /\ chan[e].out = <<>>
           /\ Peer(e) \in Ends /\ Peer(e) # e /\ Peer(Peer(e)) = e
           /\ net[e] \in Seq(Packets) /\ net[Peer(e)] \in Seq(Packets)
           /\ net[Peer(e)] \o chan[e].out = net[Peer(e)]
           /\ chan[Peer(e)].status \in BOOLEAN
           /\ Sound(e, chan[e], net[Peer(e)], chan[Peer(e)].status)
<1>1. Peer(e) \in Ends /\ Peer(e) # e /\ Peer(Peer(e)) = e
  BY StreamFacts
<1>2. /\ chan[e] \in ChannelType(e) /\ chan[e].out = <<>> /\ chan[Peer(e)] \in ChannelType(Peer(e))
      /\ net[e] \in Seq(Packets) /\ net[Peer(e)] \in Seq(Packets)
  BY <1>1 DEF SessionInv, Types
<1>3. net[Peer(e)] \o chan[e].out = net[Peer(e)]
  BY <1>2
<1>4. Sent(e, chan[e], net[Peer(e)], chan[Peer(e)].status)
  BY DEF SessionInv, Protocol
<1> QED
  BY <1>1, <1>2, <1>3, <1>4 DEF Sound, ChannelType

LEMMA Quiet ==
    ASSUME NEW e \in Ends, NEW c, NEW d, NEW n \in Seq(Packets), NEW t, NEW told \in BOOLEAN,
           Sound(e, c, n, told), c.out = <<>>, Turns(e, c, d, t), d.out = <<>>
    PROVE  Serves(e, c, d, n, t) /\ Sound(e, d, n, told)
<1>1. n \o d.out = n /\ n \o c.out = n /\ Len(n) \in Nat
  OBVIOUS
<1>2. Sent(e, d, n, told)
  <2>1. Sent(e, c, n, told)
    BY <1>1 DEF Sound
  <2> QED
    BY <2>1 DEF Sent, Turns
<1>3. Serves(e, c, d, n, t)
  <2>1. \A i \in 1 .. Len(n) : i <= Len(n)
    BY <1>1
  <2> QED
    BY <1>1, <2>1 DEF Serves, Turns
<1> QED
  BY <1>1, <1>2, <1>3 DEF Sound, Turns

(* The step of Turns, with a packet sent.                                  *)
Posts(e, c, d, n, m, t, told) ==
    /\ e \in Ends /\ n \in Seq(Packets) /\ told \in BOOLEAN
    /\ Sound(e, c, n, told) /\ c.out = <<>> /\ Turns(e, c, d, t) /\ ~c.sent_close
    /\ m \in Packets /\ m.type \in {"DATA", "ADJUST"}
    /\ m.type = "DATA" => ~c.sent_eof /\ m.stream \in ReadStreams(e)
    /\ d.out = Append(c.out, m)

LEMMA Posting ==
    ASSUME NEW e, NEW c, NEW d, NEW n, NEW m, NEW t, NEW told, Posts(e, c, d, n, m, t, told)
    PROVE  /\ Serves(e, c, d, n, t) /\ Sound(e, d, n, told)
           /\ n \o d.out = Append(n, m)
<1> USE DEF Posts
<1>1. n \o c.out = n /\ Len(n) \in Nat
  OBVIOUS
<1> DEFINE r == Append(n, m)
<1>2. n \o d.out = r
  BY <1>1, PutFacts DEF Turns
<1>3. /\ r \in Seq(Packets) /\ Len(r) = Len(n) + 1 /\ r[Len(r)] = m
      /\ \A i \in 1 .. Len(n) : r[i] = n[i]
  OBVIOUS
<1>4. Sent(e, c, r, told)
  <2>1. Sent(e, c, n, told)
    BY <1>1 DEF Sound
  <2> QED
    BY <2>1, SentPut DEF Turns
<1> HIDE DEF r
<1>5. Sent(e, d, r, told)
  BY <1>4 DEF Sent, Turns
<1>6. \A i \in 1 .. Len(r) : \/ i <= Len(n) /\ r[i] = n[i]
                             \/ /\ i > Len(n) /\ r[i].type \notin Openings
                                /\ r[i].type = "DATA" => ~c.sent_eof
  BY <1>1, <1>3 DEF Openings
<1>7. Serves(e, c, d, n, t)
  BY <1>1, <1>2, <1>3, <1>6 DEF Serves, Turns
<1> QED
  BY <1>2, <1>5, <1>7 DEF Sound, Turns, r

(* The steps that end with check_close.                                    *)
LEMMA Checked ==
    ASSUME NEW e \in Ends, NEW c \in ChannelType(e), NEW d, NEW n \in Seq(Packets), NEW t,
           NEW q, NEW r, NEW told \in BOOLEAN, NEW u, NEW f \in check_close(e, d, u),
           Serves(e, c, d, n, t), Sound(e, d, n, told), Weighs(e, c, d, n, q, r)
    PROVE  Serves(e, c, f, n, t) /\ Sound(e, f, n, told) /\ Weighs(e, c, f, n, q, r)
<1>1. Closes(e, d, f, n) /\ Sound(e, f, n, told) /\ d \in ChannelType(e)
  BY CheckClose DEF Serves
<1> QED
  BY <1>1, ServesCloses, WeighsCloses

(* One step of one end.                                                    *)
LEMMA EndStep ==
    ASSUME SessionInv, NEW e \in Ends, NEW d, NEW t, Stepped(e, d, t), fatal' = fatal,
           Serves(e, chan[e], d, net[Peer(e)], t),
           Sound(e, d, net[Peer(e)], chan[Peer(e)].status),
           Weighs(e, chan[e], d, net[Peer(e)], net[e], net'[e]),
           pipe' \in [Streams -> Seq(Nat)], got' \in [Streams -> Seq(Nat)],
           UNCHANGED <<written, ended, reader>>
    PROVE  SessionInv'
<1>1. Types /\ Protocol /\ d \in ChannelType(e)
  BY DEF SessionInv, Serves
<1>2. Protocol'
  BY <1>1, ProtocolStep
<1>3. Balance(e)' /\ Balance(Peer(e))'
  BY <1>1, Idle, BalanceStep DEF SessionInv
<1>4. /\ Peer(e) \in Ends /\ Peer(e) # e
      /\ chan'[Peer(e)] = chan[Peer(e)]
      /\ chan'[e] = [d EXCEPT !.out = <<>>]
      /\ net'[Peer(e)] = net[Peer(e)] \o d.out
      /\ net'[e] = IF t = "none" THEN net[e] ELSE Tail(net[e])
      /\ \A x \in Ends : x = e \/ x = Peer(e)
  BY <1>1, SteppedFacts
<1>5. \A x \in Ends : Balance(x)'
  BY <1>3, <1>4
<1>6. \A x \in Ends : /\ chan'[x] \in ChannelType(x) /\ chan'[x].out = <<>>
                      /\ ~chan'[x].status => chan'[x].exitsignal = "none"
  <2>1. /\ chan'[e] \in ChannelType(e) /\ chan'[e].out = <<>>
        /\ chan'[e].status = d.status /\ chan'[e].exitsignal = d.exitsignal
    BY <1>1, <1>4, OutCleared DEF Kept
  <2>2. /\ chan[Peer(e)] \in ChannelType(Peer(e)) /\ chan[Peer(e)].out = <<>>
        /\ \A x \in Ends : ~chan[x].status => chan[x].exitsignal = "none"
    BY <1>1, <1>4 DEF Types
  <2>3. ~d.status => ~chan[e].status /\ d.exitsignal = chan[e].exitsignal
    BY DEF Serves
  <2>4. ~chan'[e].status => chan'[e].exitsignal = "none"
    BY <2>1, <2>2, <2>3
  <2>5. ~chan'[Peer(e)].status => chan'[Peer(e)].exitsignal = "none"
    BY <1>4, <2>2
  <2> QED
    BY <1>4, <2>1, <2>2, <2>4, <2>5
<1>7. \A x \in Ends : net'[x] \in Seq(Packets)
  <2>1. net'[Peer(e)] \in Seq(Packets)
    BY <1>4 DEF Serves
  <2>2. net[e] \in Seq(Packets) /\ (t # "none" => net[e] # <<>>)
    BY <1>1 DEF Types, Stepped
  <2>3. net'[e] \in Seq(Packets)
    BY <1>4, <2>2
  <2> QED
    BY <1>4, <2>1, <2>3
<1>8. chan' \in [Ends -> UNION { ChannelType(x) : x \in Ends }]
  <2>1. chan' = [x \in Ends |-> chan'[x]]
    BY <1>1 DEF Types, Stepped
  <2> QED
    BY <1>6, <2>1
<1>9. net' \in [Ends -> Seq(Packets)]
  <2>1. net' = [x \in Ends |-> net'[x]]
    BY <1>1 DEF Types, Stepped
  <2> QED
    BY <1>7, <2>1
<1>10. Types'
  BY <1>1, <1>6, <1>8, <1>9 DEF Types, Stepped
<1> QED
  BY <1>2, <1>5, <1>10 DEF SessionInv

-----------------------------------------------------------------------------
(* The packets.                                                            *)

LEMMA Early ==
    ASSUME SessionInv, command = "none"
    PROVE  /\ \A e \in Ends : net[e] # <<>> => Head(net[e]).type \in Openings
           /\ \A s \in ReadStreams("svr") : chan["svr"].rfd[s] # "open"
           /\ \A s \in WriteStreams("svr") : chan["svr"].wfd[s] # "open"
           /\ \/ Requested
              \/ /\ chan["cli"].transwindow = 0
                 /\ \A s \in WriteStreams("cli") : chan["cli"].buf[s] = <<>>
<1>1. Asked \/ Confirmed \/ Requested
  BY DEF SessionInv, Protocol, Phase
<1>2. chan["svr"] = Channel("svr") \/ chan["svr"] = Accepted
  BY <1>1 DEF Asked, Confirmed, Requested
<1>3. /\ \A s \in ReadStreams("svr") : chan["svr"].rfd[s] # "open"
      /\ \A s \in WriteStreams("svr") : chan["svr"].wfd[s] # "open"
  <2> DEFINE c == Channel("svr")
  <2>1. /\ \A s \in ReadStreams("svr") : c.rfd[s] # "open"
        /\ \A s \in WriteStreams("svr") : c.wfd[s] # "open"
    BY DEF Channel
  <2>2. Accepted.rfd = c.rfd /\ Accepted.wfd = c.wfd
    BY DEF Accepted, Channel
  <2> HIDE DEF c
  <2> QED
    BY <1>2, <2>1, <2>2 DEF c
<1>4. \/ Requested
      \/ /\ chan["cli"].transwindow = 0
         /\ \A s \in WriteStreams("cli") : chan["cli"].buf[s] = <<>>
  BY <1>1 DEF Asked, Confirmed, Channel
<1>5. ASSUME NEW e \in Ends, net[e] # <<>> PROVE Head(net[e]).type \in Openings
  <2>1. net[e] \in Seq(Packets)
    BY DEF SessionInv, Types
  <2>2. Head(net[e]) = net[e][1]
    BY <1>5, <2>1
  <2>3. net[e][1].type \in Openings
    BY <1>1, <1>5, StreamFacts DEF Asked, Confirmed, Requested, Openings
  <2> QED
    BY <2>2, <2>3
<1> QED
  BY <1>3, <1>4, <1>5

(* A packet other than OPEN finds the channel there.                       *)
LEMMA Opened ==
    ASSUME SessionInv, NEW e \in Ends, net[e] # <<>>, Head(net[e]).type # "OPEN"
    PROVE  chan[e].open
<1>1. Gone(e) /\ Received(e)
  BY DEF SessionInv, Protocol
<1>2. ~(e = "svr" /\ Asked)
  BY DEF Asked
<1> QED
  BY <1>1, <1>2 DEF Gone, Received

LEMMA Handling ==
    ASSUME SessionInv, NEW e \in Ends, NEW t, t \notin Openings \cup {"none"}, recv_msg(e, t),
           NEW C, Handled(e, C), command' = command
    PROVE  /\ fatal' = fatal /\ chan[e].open
           /\ Head(net[e]) \in Packets /\ Head(net[e]).type = t
           /\ DataIn(net'[e]) = DataIn(net[e]) - DataOf(Head(net[e]))
           /\ CreditIn(net'[e]) = CreditIn(net[e]) - CreditOf(Head(net[e]))
           /\ \E d \in C : Stepped(e, d, t)
<1>1. net[e] \in Seq(Packets) /\ net[e] # <<>> /\ Head(net[e]).type = t
  BY Idle DEF recv_msg, Take
<1>2. Head(net[e]) \in Packets
  BY <1>1
<1>3. chan[e].open
  BY <1>1, Opened DEF Openings
<1>4. Consumed(e, C)
  BY <1>3 DEF Handled
<1>5. PICK d \in C : /\ chan' = [chan EXCEPT ![e] = [d EXCEPT !.out = <<>>]]
                     /\ net' = [net EXCEPT ![e] = Tail(@), ![Peer(e)] = @ \o d.out]
  BY <1>4 DEF Consumed
<1>6. command # "none"
  BY <1>1, Early
<1>7. Stepped(e, d, t)
  BY <1>1, <1>5, <1>6 DEF Stepped
<1>8. net'[e] = Tail(net[e])
  BY <1>5, StreamFacts DEF SessionInv, Types
<1> QED
  BY <1>1, <1>2, <1>3, <1>4, <1>7, <1>8, QueueFacts DEF Consumed

LEMMA DoAdjust ==
    ASSUME SessionInv, NEW e \in Ends, recv_msg_channel_window_adjust(e)
    PROVE  SessionInv'
<1> DEFINE c == chan[e]
           m == Head(net[e])
           d == [c EXCEPT !.transwindow = @ + m.incr]
<1>1. /\ recv_msg(e, "ADJUST") /\ Handled(e, {d}) /\ UNCHANGED env
  BY DEF recv_msg_channel_window_adjust
<1>2. /\ fatal' = fatal /\ c.open /\ m \in Packets /\ m.type = "ADJUST"
      /\ DataIn(net'[e]) = DataIn(net[e]) - DataOf(m)
      /\ CreditIn(net'[e]) = CreditIn(net[e]) - CreditOf(m)
      /\ \E x \in {d} : Stepped(e, x, "ADJUST")
  <2>1. command' = command /\ "ADJUST" \notin Openings \cup {"none"}
    BY <1>1 DEF env, Openings
  <2> HIDE DEF d
  <2> QED
    BY <1>1, <2>1, Handling
<1>3. DataOf(m) = 0 /\ CreditOf(m) = m.incr /\ m.incr \in Nat
  BY <1>2, PacketFacts
<1>4. c \in ChannelType(e) /\ c.out = <<>>
  BY Idle
<1> HIDE DEF c, m
<1>5. Turns(e, c, d, "ADJUST") /\ d.out = <<>>
  <2>1. d \in ChannelType(e)
    <3> DEFINE x == c.transwindow + m.incr
    <3>1. x \in Nat /\ d = [c EXCEPT !.transwindow = x]
      BY <1>3, <1>4, BackedType
    <3> HIDE DEF x, d
    <3> QED
      BY <1>4, <3>1 DEF ChannelType
  <2>2. c.recv_eof \in BOOLEAN /\ c.recv_close \in BOOLEAN /\ d.out = <<>>
    BY <1>4 DEF ChannelType
  <2>3. /\ d.pid = c.pid /\ d.open = c.open /\ d.sent_eof = c.sent_eof
        /\ d.sent_close = c.sent_close /\ d.rfd = c.rfd /\ d.wfd = c.wfd
        /\ d.recv_eof = c.recv_eof /\ d.recv_close = c.recv_close /\ d.status = c.status
        /\ d.exitsignal = c.exitsignal
    BY <1>4 DEF ChannelType
  <2> HIDE DEF d
  <2> QED
    BY <1>2, <1>4, <2>1, <2>2, <2>3 DEF Turns
<1>6. Serves(e, c, d, net[Peer(e)], "ADJUST") /\ Sound(e, d, net[Peer(e)], chan[Peer(e)].status)
  <2> HIDE DEF d
  <2> QED
    BY <1>4, <1>5, Idle, Quiet DEF c
<1>7. Weighs(e, c, d, net[Peer(e)], net[e], net'[e])
  <2>1. /\ d.transwindow = c.transwindow + m.incr /\ d.recvwindow = c.recvwindow
        /\ d.recvdonelen = c.recvdonelen /\ d.wfd = c.wfd /\ d.buf = c.buf /\ d \in ChannelType(e)
    BY <1>4, <1>5 DEF ChannelType, Turns
  <2> HIDE DEF d
  <2>2. Backed(d) = Backed(c)
    BY <1>4, <2>1, BufferedFacts DEF Backed
  <2>3. net[Peer(e)] \o d.out = net[Peer(e)]
    BY <1>5, Idle
  <2>4. c.recvdonelen < WindowExtend
    BY DEF SessionInv, Balance, c
  <2>5. Backed(c) \in Int /\ c.transwindow \in Nat /\ c.recvwindow \in Int
    BY <1>4, BackedType
  <2>6. DataIn(net[e]) \in Nat /\ CreditIn(net[e]) \in Nat /\ DataIn(net[Peer(e)]) \in Nat
        /\ CreditIn(net[Peer(e)]) \in Nat
    BY Idle, QueueFacts
  <2> QED
    BY <1>2, <1>3, <2>1, <2>2, <2>3, <2>4, <2>5, <2>6 DEF Weighs
<1>8. Stepped(e, d, "ADJUST")
  BY <1>2
<1>9. pipe' \in [Streams -> Seq(Nat)] /\ got' \in [Streams -> Seq(Nat)]
      /\ UNCHANGED <<written, ended, reader>>
  BY <1>1 DEF env, SessionInv, Types
<1> HIDE DEF d
<1> QED
  BY <1>2, <1>6, <1>7, <1>8, <1>9, EndStep DEF c

(* Steps that leave the windows alone.                                     *)
LEMMA Still ==
    ASSUME SessionInv, NEW e \in Ends, NEW d, NEW t, NEW r,
           Turns(e, chan[e], d, t), d.out = <<>>,
           d.transwindow = chan[e].transwindow, d.recvwindow = chan[e].recvwindow,
           d.recvdonelen = chan[e].recvdonelen, d.buf = chan[e].buf,
           DataIn(r) = DataIn(net[e]), CreditIn(r) = CreditIn(net[e])
    PROVE  /\ Serves(e, chan[e], d, net[Peer(e)], t)
           /\ Sound(e, d, net[Peer(e)], chan[Peer(e)].status)
           /\ Weighs(e, chan[e], d, net[Peer(e)], net[e], r)
<1> DEFINE c == chan[e]
<1>1. c \in ChannelType(e) /\ d \in ChannelType(e)
  BY DEF Turns
<1>2. Serves(e, c, d, net[Peer(e)], t) /\ Sound(e, d, net[Peer(e)], chan[Peer(e)].status)
  <2> DEFINE n == net[Peer(e)]
             told == chan[Peer(e)].status
  <2>1. n \in Seq(Packets) /\ told \in BOOLEAN /\ Sound(e, c, n, told) /\ c.out = <<>>
    BY Idle
  <2>2. Turns(e, c, d, t) /\ d.out = <<>>
    OBVIOUS
  <2> HIDE DEF c, n, told
  <2> QED
    BY <2>1, <2>2, Quiet DEF n, told
<1>3. Backed(d) = Backed(c)
  BY <1>1, BufferedFacts DEF Backed
<1>4. net[Peer(e)] \o d.out = net[Peer(e)]
  BY Idle
<1>5. c.recvdonelen < WindowExtend
  BY DEF SessionInv, Balance
<1>6. Backed(c) \in Int /\ c.transwindow \in Nat /\ c.recvwindow \in Int
  BY <1>1, BackedType
<1>7. DataIn(net[e]) \in Nat /\ CreditIn(net[e]) \in Nat /\ DataIn(net[Peer(e)]) \in Nat
      /\ CreditIn(net[Peer(e)]) \in Nat
  BY Idle, QueueFacts
<1>8. \A s \in WriteStreams(e) : d.wfd[s] = "open" => c.wfd[s] = "open"
  BY DEF Turns
<1>9. Weighs(e, c, d, net[Peer(e)], net[e], r)
  BY <1>3, <1>4, <1>5, <1>6, <1>7, <1>8 DEF Weighs
<1> QED
  BY <1>2, <1>9

LEMMA DoStatus ==
    ASSUME SessionInv, cli_chansessreq
    PROVE  SessionInv'
<1> DEFINE e == "cli"
           c == chan[e]
<1>0. PICK t \in {"STATUS", "SIGNAL"} :
        /\ recv_msg(e, t) /\ Handled(e, {IF t = "STATUS" THEN [c EXCEPT !.status = TRUE] ELSE c})
        /\ UNCHANGED env
  BY DEF cli_chansessreq
<1> DEFINE d == IF t = "STATUS" THEN [c EXCEPT !.status = TRUE] ELSE c
<1>1. recv_msg(e, t) /\ Handled(e, {d}) /\ UNCHANGED env /\ e \in Ends
  BY <1>0 DEF Ends
<1> HIDE DEF e
<1>2. /\ fatal' = fatal /\ c.open /\ Head(net[e]) \in Packets /\ Head(net[e]).type = t
      /\ DataIn(net'[e]) = DataIn(net[e]) - DataOf(Head(net[e]))
      /\ CreditIn(net'[e]) = CreditIn(net[e]) - CreditOf(Head(net[e]))
      /\ \E x \in {d} : Stepped(e, x, t)
  <2>1. command' = command /\ t \notin Openings \cup {"none"}
    BY <1>1 DEF env, Openings
  <2> HIDE DEF d
  <2> QED
    BY <1>1, <2>1, Handling
<1>3. DataIn(net'[e]) = DataIn(net[e]) /\ CreditIn(net'[e]) = CreditIn(net[e])
  <2>1. DataOf(Head(net[e])) = 0 /\ CreditOf(Head(net[e])) = 0
    BY <1>2, PacketFacts DEF Farewells
  <2>2. DataIn(net[e]) \in Nat /\ CreditIn(net[e]) \in Nat
    BY <1>1, Idle, QueueFacts
  <2> QED
    BY <1>2, <2>1, <2>2
<1>4. c \in ChannelType(e) /\ c.out = <<>>
  BY <1>1, Idle
<1> HIDE DEF c
<1>5. /\ Turns(e, c, d, t) /\ d.out = <<>> /\ d.transwindow = c.transwindow
      /\ d.recvwindow = c.recvwindow /\ d.recvdonelen = c.recvdonelen /\ d.buf = c.buf
  <2>1. d \in ChannelType(e) /\ c.recv_eof \in BOOLEAN /\ c.recv_close \in BOOLEAN
    BY <1>4 DEF ChannelType
  <2>2. /\ d.pid = c.pid /\ d.open = c.open /\ d.sent_eof = c.sent_eof
        /\ d.sent_close = c.sent_close /\ d.rfd = c.rfd /\ d.wfd = c.wfd
        /\ d.recv_eof = c.recv_eof /\ d.recv_close = c.recv_close /\ d.status \in BOOLEAN
        /\ (c.status \/ t = "STATUS" => d.status) /\ d.exitsignal = c.exitsignal
        /\ d.out = <<>> /\ d.transwindow = c.transwindow
        /\ d.recvwindow = c.recvwindow /\ d.recvdonelen = c.recvdonelen /\ d.buf = c.buf
    BY <1>4 DEF ChannelType
  <2> HIDE DEF d
  <2> QED
    BY <1>2, <1>4, <2>1, <2>2 DEF Turns
<1>6. Stepped(e, d, t)
  BY <1>2
<1>7. pipe' \in [Streams -> Seq(Nat)] /\ got' \in [Streams -> Seq(Nat)]
      /\ UNCHANGED <<written, ended, reader>>
  BY <1>1 DEF env, SessionInv, Types
<1> HIDE DEF d
<1>8. /\ Serves(e, c, d, net[Peer(e)], t)
      /\ Sound(e, d, net[Peer(e)], chan[Peer(e)].status)
      /\ Weighs(e, c, d, net[Peer(e)], net[e], net'[e])
  BY <1>1, <1>3, <1>5, Still DEF c
<1> QED
  BY <1>1, <1>2, <1>6, <1>7, <1>8, EndStep DEF c

(* EOF and CLOSE: the flags are set and the channel checked.               *)
LEMMA Closing ==
    ASSUME SessionInv, NEW e \in Ends, NEW t \in {"EOF", "CLOSE"}, NEW d,
           recv_msg(e, t), Handled(e, check_close(e, d, pipe)), UNCHANGED env,
           d = [chan[e] EXCEPT !.recv_eof = TRUE, !.recv_close = @ \/ t = "CLOSE"]
    PROVE  SessionInv'
<1> DEFINE c == chan[e]
<1>2. /\ fatal' = fatal /\ c.open /\ Head(net[e]) \in Packets /\ Head(net[e]).type = t
      /\ DataIn(net'[e]) = DataIn(net[e]) - DataOf(Head(net[e]))
      /\ CreditIn(net'[e]) = CreditIn(net[e]) - CreditOf(Head(net[e]))
      /\ \E x \in check_close(e, d, pipe) : Stepped(e, x, t)
  <2>1. command' = command /\ t \notin Openings \cup {"none"}
    BY DEF env, Openings
  <2> QED
    BY <2>1, Handling
<1>3. DataIn(net'[e]) = DataIn(net[e]) /\ CreditIn(net'[e]) = CreditIn(net[e])
  <2>1. DataOf(Head(net[e])) = 0 /\ CreditOf(Head(net[e])) = 0
    BY <1>2, PacketFacts DEF Farewells
  <2>2. DataIn(net[e]) \in Nat /\ CreditIn(net[e]) \in Nat
    BY Idle, QueueFacts
  <2> QED
    BY <1>2, <2>1, <2>2
<1>4. c \in ChannelType(e) /\ c.out = <<>>
  BY Idle
<1>5. d = [c EXCEPT !.recv_eof = TRUE, !.recv_close = @ \/ t = "CLOSE"]
  OBVIOUS
<1> HIDE DEF c
<1>6. /\ Turns(e, c, d, t) /\ d.out = <<>> /\ d.transwindow = c.transwindow
      /\ d.recvwindow = c.recvwindow /\ d.recvdonelen = c.recvdonelen /\ d.buf = c.buf
  <2>1. d \in ChannelType(e) /\ c.recv_eof \in BOOLEAN /\ c.recv_close \in BOOLEAN
    BY <1>4, <1>5 DEF ChannelType
  <2>2. /\ d.pid = c.pid /\ d.open = c.open /\ d.sent_eof = c.sent_eof
        /\ d.sent_close = c.sent_close /\ d.rfd = c.rfd /\ d.wfd = c.wfd
        /\ d.recv_eof = TRUE /\ d.recv_close = (c.recv_close \/ t = "CLOSE")
        /\ d.status = c.status /\ d.exitsignal = c.exitsignal
        /\ d.out = <<>> /\ d.transwindow = c.transwindow
        /\ d.recvwindow = c.recvwindow /\ d.recvdonelen = c.recvdonelen /\ d.buf = c.buf
    BY <1>4, <1>5 DEF ChannelType
  <2> QED
    BY <1>2, <1>4, <2>1, <2>2 DEF Turns
<1>7. /\ Serves(e, c, d, net[Peer(e)], t)
      /\ Sound(e, d, net[Peer(e)], chan[Peer(e)].status)
      /\ Weighs(e, c, d, net[Peer(e)], net[e], net'[e])
  BY <1>3, <1>6, Still DEF c
<1>8. PICK x \in check_close(e, d, pipe) : Stepped(e, x, t)
  BY <1>2
<1>9. /\ Serves(e, c, x, net[Peer(e)], t)
      /\ Sound(e, x, net[Peer(e)], chan[Peer(e)].status)
      /\ Weighs(e, c, x, net[Peer(e)], net[e], net'[e])
  <2> DEFINE n == net[Peer(e)]
             told == chan[Peer(e)].status
             q == net[e]
             r == net'[e]
  <2>1. n \in Seq(Packets) /\ told \in BOOLEAN
    BY Idle
  <2>2. Serves(e, c, d, n, t) /\ Sound(e, d, n, told) /\ Weighs(e, c, d, n, q, r)
    BY <1>7
  <2> HIDE DEF n, told, q, r
  <2> QED
    BY <1>4, <2>1, <2>2, Checked DEF n, told, q, r
<1>10. pipe' \in [Streams -> Seq(Nat)] /\ got' \in [Streams -> Seq(Nat)]
       /\ UNCHANGED <<written, ended, reader>>
  BY DEF env, SessionInv, Types
<1> QED
  BY <1>2, <1>8, <1>9, <1>10, EndStep DEF c

LEMMA DoClosing ==
    ASSUME SessionInv, NEW e \in Ends, recv_msg_channel_eof(e) \/ recv_msg_channel_close(e)
    PROVE  SessionInv'
<1> DEFINE c == chan[e]
<1>1. c \in ChannelType(e)
  BY Idle
<1>2. CASE recv_msg_channel_eof(e)
  <2> DEFINE d == [c EXCEPT !.recv_eof = TRUE]
  <2>1. recv_msg(e, "EOF") /\ Handled(e, check_close(e, d, pipe)) /\ UNCHANGED env
    BY <1>2 DEF recv_msg_channel_eof
  <2>2. d = [c EXCEPT !.recv_eof = TRUE, !.recv_close = @ \/ "EOF" = "CLOSE"]
    <3> HIDE DEF c
    <3> QED
      BY <1>1 DEF ChannelType
  <2> HIDE DEF d
  <2> QED
    BY <2>1, <2>2, Closing
<1>3. CASE recv_msg_channel_close(e)
  <2> DEFINE d == [c EXCEPT !.recv_eof = TRUE, !.recv_close = TRUE]
  <2>1. recv_msg(e, "CLOSE") /\ Handled(e, check_close(e, d, pipe)) /\ UNCHANGED env
    BY <1>3 DEF recv_msg_channel_close
  <2>2. d = [c EXCEPT !.recv_eof = TRUE, !.recv_close = @ \/ "CLOSE" = "CLOSE"]
    <3> HIDE DEF c
    <3> QED
      BY <1>1 DEF ChannelType
  <2> HIDE DEF d
  <2> QED
    BY <2>1, <2>2, Closing
<1> QED
  BY <1>2, <1>3

-----------------------------------------------------------------------------
(* The descriptors and the signal.                                         *)

LEMMA Committed ==
    ASSUME SessionInv, NEW e \in Ends, NEW d, NEW u, Commit(e, check_close(e, d, u)),
           Serves(e, chan[e], d, net[Peer(e)], "none"),
           Sound(e, d, net[Peer(e)], chan[Peer(e)].status),
           Weighs(e, chan[e], d, net[Peer(e)], net[e], net[e]),
           command' = command, command = "none" => Requested /\ e = "cli",
           pipe' \in [Streams -> Seq(Nat)], got' \in [Streams -> Seq(Nat)],
           UNCHANGED <<written, ended, reader>>
    PROVE  SessionInv'
<1>1. PICK x \in check_close(e, d, u) :
         /\ chan' = [chan EXCEPT ![e] = [x EXCEPT !.out = <<>>]]
         /\ net' = [net EXCEPT ![Peer(e)] = @ \o x.out]
  BY DEF Commit
<1>2. Stepped(e, x, "none")
  BY <1>1 DEF Stepped
<1>3. net'[e] = net[e]
  BY <1>1, StreamFacts DEF SessionInv, Types
<1>4. /\ Serves(e, chan[e], x, net[Peer(e)], "none")
      /\ Sound(e, x, net[Peer(e)], chan[Peer(e)].status)
      /\ Weighs(e, chan[e], x, net[Peer(e)], net[e], net'[e])
  <2> DEFINE c == chan[e]
             n == net[Peer(e)]
             told == chan[Peer(e)].status
             q == net[e]
  <2>1. n \in Seq(Packets) /\ told \in BOOLEAN /\ c \in ChannelType(e)
    BY Idle
  <2>2. Serves(e, c, d, n, "none") /\ Sound(e, d, n, told) /\ Weighs(e, c, d, n, q, q)
    OBVIOUS
  <2> HIDE DEF c, n, told, q
  <2>3. Serves(e, c, x, n, "none") /\ Sound(e, x, n, told) /\ Weighs(e, c, x, n, q, q)
    BY <2>1, <2>2, Checked
  <2> QED
    BY <1>3, <2>3 DEF c, n, told, q
<1> QED
  BY <1>2, <1>4, EndStep DEF Commit

LEMMA TurnsShut ==
    ASSUME NEW e \in Ends, NEW c \in ChannelType(e), c.open, NEW d, Shut(e, c, d)
    PROVE  Turns(e, c, d, "none")
<1>1. c.recv_eof \in BOOLEAN /\ c.recv_close \in BOOLEAN
  BY DEF ChannelType
<1> QED
  BY <1>1 DEF Turns, Shut, Kept

LEMMA DoSignal ==
    ASSUME SessionInv, NEW signal \in ExitSignals, svr_chansess_checksignal(signal)
    PROVE  SessionInv'
<1> DEFINE e == "svr"
           c == chan[e]
           d == [c EXCEPT !.status = TRUE, !.exitsignal = signal]
<1>1. /\ c.open /\ command = "exited" /\ Commit(e, check_close(e, d, pipe)) /\ UNCHANGED env
      /\ e \in Ends
  BY DEF svr_chansess_checksignal, Up, Ends
<1> HIDE DEF e
<1>2. c \in ChannelType(e) /\ c.out = <<>> /\ c.exitsignal = "none"
  <2>1. ~c.status
    BY DEF svr_chansess_checksignal, e
  <2> QED
    BY <1>1, <2>1, Idle DEF SessionInv, Types
<1> HIDE DEF c
<1>3. /\ Turns(e, c, d, "none") /\ d.out = <<>> /\ d.transwindow = c.transwindow
      /\ d.recvwindow = c.recvwindow /\ d.recvdonelen = c.recvdonelen /\ d.buf = c.buf
  <2>1. d \in ChannelType(e) /\ c.recv_eof \in BOOLEAN /\ c.recv_close \in BOOLEAN
    BY <1>2, SshSessionAssumption DEF ChannelType
  <2>2. /\ d.pid = c.pid /\ d.open = c.open /\ d.sent_eof = c.sent_eof
        /\ d.sent_close = c.sent_close /\ d.rfd = c.rfd /\ d.wfd = c.wfd
        /\ d.recv_eof = c.recv_eof /\ d.recv_close = c.recv_close /\ d.status
        /\ d.out = <<>> /\ d.transwindow = c.transwindow
        /\ d.recvwindow = c.recvwindow /\ d.recvdonelen = c.recvdonelen /\ d.buf = c.buf
    BY <1>2 DEF ChannelType
  <2> HIDE DEF d
  <2> QED
    BY <1>1, <1>2, <2>1, <2>2 DEF Turns
<1> HIDE DEF d
<1>4. /\ Serves(e, c, d, net[Peer(e)], "none")
      /\ Sound(e, d, net[Peer(e)], chan[Peer(e)].status)
      /\ Weighs(e, c, d, net[Peer(e)], net[e], net[e])
  BY <1>1, <1>3, Still DEF c
<1>5. pipe' \in [Streams -> Seq(Nat)] /\ got' \in [Streams -> Seq(Nat)]
      /\ UNCHANGED <<written, ended, reader>> /\ command' = command /\ command # "none"
  BY <1>1 DEF env, SessionInv, Types
<1> QED
  BY <1>1, <1>4, <1>5, Committed DEF c

(* Closing a descriptor, in channelio.                                     *)
LEMMA Shutting ==
    ASSUME SessionInv, NEW e \in Ends, NEW d, NEW u, chan[e].open, Shut(e, chan[e], d),
           Commit(e, check_close(e, d, u)),
           command' = command, command = "none" => Requested /\ e = "cli",
           pipe' \in [Streams -> Seq(Nat)], got' = got, UNCHANGED <<written, ended, reader>>
    PROVE  SessionInv'
<1>1. chan[e] \in ChannelType(e) /\ chan[e].out = <<>>
  BY Idle
<1>2. Turns(e, chan[e], d, "none")
  BY <1>1, TurnsShut
<1>3. /\ d.out = <<>> /\ d.transwindow = chan[e].transwindow
      /\ d.recvwindow = chan[e].recvwindow /\ d.recvdonelen = chan[e].recvdonelen
      /\ d.buf = chan[e].buf
  BY <1>1 DEF Shut, Kept
<1>4. /\ Serves(e, chan[e], d, net[Peer(e)], "none")
      /\ Sound(e, d, net[Peer(e)], chan[Peer(e)].status)
      /\ Weighs(e, chan[e], d, net[Peer(e)], net[e], net[e])
  BY <1>2, <1>3, Still
<1>5. got' \in [Streams -> Seq(Nat)]
  BY DEF SessionInv, Types
<1> QED
  BY <1>4, <1>5, Committed

(* A descriptor is served before the command only at the client, which has *)
(* nothing to send and nothing buffered until it has requested the command. *)
LEMMA Served ==
    ASSUME SessionInv, NEW e \in Ends,
           \/ \E s \in ReadStreams(e) : chan[e].rfd[s] = "open" /\ chan[e].transwindow > 0
           \/ \E s \in WriteStreams(e) : chan[e].wfd[s] = "open" /\ chan[e].buf[s] # <<>>
    PROVE  command = "none" => Requested /\ e = "cli"
<1>1. e = "cli" \/ e = "svr"
  BY StreamFacts
<1> QED
  BY <1>1, Early

LEMMA EndOf ==
    ASSUME NEW s \in Streams
    PROVE  /\ Sender(s) \in Ends /\ Receiver(s) \in Ends
           /\ s \in ReadStreams(Sender(s)) /\ s \in WriteStreams(Receiver(s))
BY DEF Sender, Receiver, Peer, Ends, ReadStreams, WriteStreams

LEMMA DoWriteError ==
    ASSUME SessionInv, NEW s \in Streams, WriteError(s)
    PROVE  SessionInv'
<1> DEFINE e == Receiver(s)
           c == chan[e]
           d == CloseWrite(e, c, s)
<1>1. /\ c.open /\ c.wfd[s] = "open" /\ c.buf[s] # <<>>
      /\ Commit(e, check_close(e, d, pipe)) /\ UNCHANGED env
  BY DEF WriteError, Up
<1>2. e \in Ends /\ s \in WriteStreams(e)
  BY EndOf
<1> HIDE DEF e
<1>3. Shut(e, c, d)
  BY <1>2, ShutWrite, Idle
<1> HIDE DEF d
<1>4. command = "none" => Requested /\ e = "cli"
  BY <1>1, <1>2, Served
<1>5. pipe' \in [Streams -> Seq(Nat)] /\ got' = got
      /\ UNCHANGED <<written, ended, reader>> /\ command' = command
  BY <1>1 DEF env, SessionInv, Types
<1> QED
  BY <1>1, <1>2, <1>3, <1>4, <1>5, Shutting

LEMMA MinOfThree ==
    ASSUME NEW x \in Nat, NEW y \in Nat, NEW z \in Nat
    PROVE  /\ Min({x, y, z}) \in {x, y, z}
           /\ Min({x, y, z}) <= x /\ Min({x, y, z}) <= y /\ Min({x, y, z}) <= z
<1>1. \E m \in {x, y, z} : \A k \in {x, y, z} : m <= k
  <2>1. CASE x <= y /\ x <= z
    BY <2>1
  <2>2. CASE y <= x /\ y <= z
    BY <2>2
  <2>3. CASE z <= x /\ z <= y
    BY <2>3
  <2> QED
    BY <2>1, <2>2, <2>3
<1> QED
  BY <1>1 DEF Min

LEMMA Cut ==
    ASSUME NEW q \in Seq(Nat), NEW n \in 0 .. Len(q)
    PROVE  /\ SubSeq(q, 1, n) \in Seq(Nat) /\ Len(SubSeq(q, 1, n)) = n
           /\ SubSeq(q, n + 1, Len(q)) \in Seq(Nat) /\ Len(SubSeq(q, n + 1, Len(q))) = Len(q) - n
<1>1. Len(q) \in Nat /\ \A i \in 1 .. Len(q) : q[i] \in Nat
  OBVIOUS
<1>2. (\A i \in 1 .. n : q[i] \in Nat) /\ (\A i \in n + 1 .. Len(q) : q[i] \in Nat)
  BY <1>1
<1>3. SubSeq(q, 1, n) \in Seq(Nat) /\ Len(SubSeq(q, 1, n)) = IF 1 <= n THEN n - 1 + 1 ELSE 0
  BY <1>1, <1>2, SubSeqProperties
<1>4. /\ SubSeq(q, n + 1, Len(q)) \in Seq(Nat)
      /\ Len(SubSeq(q, n + 1, Len(q))) = IF n + 1 <= Len(q) THEN Len(q) - (n + 1) + 1 ELSE 0
  BY <1>1, <1>2, SubSeqProperties
<1> QED
  BY <1>1, <1>3, <1>4

(* The channel of end e, about to be d, has read k bytes of stream s.      *)
Reads(e, s, k, d) ==
    LET c == chan[e]
    IN  \/ /\ k > 0 /\ d \in ChannelType(e)
           /\ d.pid = c.pid /\ d.sent_close = c.sent_close /\ d.flushing = c.flushing
           /\ d.recv_eof = c.recv_eof /\ d.status = c.status /\ d.exitsignal = c.exitsignal
           /\ d.rfd = c.rfd /\ d.wfd = c.wfd /\ d.buf = c.buf
           /\ d.out = Append(c.out, [type |-> "DATA", stream |-> s, data |-> SubSeq(pipe[s], 1, k)])
        \/ k = 0 /\ d = CloseRead(e, c, s)

LEMMA DoRead ==
    ASSUME SessionInv, NEW s \in Streams, ReadAndSend(s)
    PROVE  LET e == Sender(s)
               k == Chunk(chan[e], s)
               rest == [pipe EXCEPT ![s] = SubSeq(@, k + 1, Len(@))]
           IN  /\ SessionInv'
               /\ k \in 0 .. Len(pipe[s]) /\ (k = 0 => pipe[s] = <<>>)
               /\ \E d : /\ Commit(e, check_close(e, d, rest)) /\ Reads(e, s, k, d)
                         /\ Sound(e, d, net[Peer(e)], chan[Peer(e)].status)
<1> DEFINE e == Sender(s)
           c == chan[e]
           k == Chunk(c, s)
           rest == [pipe EXCEPT ![s] = SubSeq(@, k + 1, Len(@))]
           m == [type |-> "DATA", stream |-> s, data |-> SubSeq(pipe[s], 1, k)]
           d == [Put(c, m) EXCEPT !.transwindow = @ - k]
           n == net[Peer(e)]
           told == chan[Peer(e)].status
<1>1. /\ c.open /\ c.rfd[s] = "open" /\ c.transwindow > 0
      /\ pipe' = rest
      /\ UNCHANGED <<written, ended, reader, got, command>>
      /\ IF c.sent_close THEN Die(e, "assert sent_close")
         ELSE IF k > 0 THEN Commit(e, check_close(e, d, rest))
         ELSE Commit(e, check_close(e, CloseRead(e, c, s), rest))
  BY DEF ReadAndSend, Up
<1>2. e \in Ends /\ s \in ReadStreams(e)
  BY EndOf
<1>3. pipe \in [Streams -> Seq(Nat)] /\ got \in [Streams -> Seq(Nat)]
  BY DEF SessionInv, Types
<1>4. pipe[s] \in Seq(Nat) /\ Len(pipe[s]) \in Nat
  BY <1>3
<1>5. k \in 0 .. Len(pipe[s]) /\ k <= c.transwindow /\ (k = 0 => pipe[s] = <<>>)
  <2>1. c.transwindow \in Nat /\ MaxPacket \in Nat /\ MaxPacket > 0
    BY <1>2, Idle, BackedType, Constants, SshSessionAssumption
  <2> DEFINE x == c.transwindow
             y == Len(pipe[s])
  <2>2. x \in Nat /\ y \in Nat /\ k = Min({x, MaxPacket, y}) /\ x > 0
    BY <1>1, <1>4, <2>1 DEF Chunk
  <2> HIDE DEF x, y, k
  <2>3. k \in {x, MaxPacket, y} /\ k <= x /\ k <= y
    BY <2>1, <2>2, MinOfThree
  <2>4. k \in 0 .. y /\ k <= x /\ (k = 0 => y = 0)
    BY <2>1, <2>2, <2>3
  <2>5. y = 0 => pipe[s] = <<>>
    BY <1>4 DEF y
  <2> QED
    BY <2>4, <2>5 DEF x, y
<1> HIDE DEF k
<1>6. rest \in [Streams -> Seq(Nat)]
  BY <1>3, <1>4, <1>5, Cut
<1>7. m \in Packets /\ m.type = "DATA" /\ DataOf(m) = k /\ CreditOf(m) = 0 /\ m.stream = s
  <2>1. m \in Packets /\ m.type = "DATA" /\ m.stream = s
    BY <1>4, <1>5, Cut DEF Packets
  <2> QED
    BY <2>1, <1>4, <1>5, Cut, PacketFacts
<1>8. c \in ChannelType(e) /\ c.out = <<>> /\ n \in Seq(Packets) /\ told \in BOOLEAN
      /\ Sound(e, c, n, told) /\ n \o c.out = n
  BY <1>2, Idle
<1>9. ~c.sent_eof /\ ~c.sent_close
  BY <1>1, <1>2, <1>8 DEF Sound, Sent
<1>10. command = "none" => Requested /\ e = "cli"
  BY <1>1, <1>2, Served
<1> HIDE DEF e, rest, m
<1>11. CASE k > 0
  <2>1. Commit(e, check_close(e, d, rest))
    BY <1>1, <1>9, <1>11
  <2> HIDE DEF c
  <2>2. /\ d \in ChannelType(e) /\ d.transwindow = c.transwindow - k
        /\ d.out = Append(c.out, m)
        /\ d.pid = c.pid /\ d.open = c.open /\ d.sent_eof = c.sent_eof
        /\ d.sent_close = c.sent_close /\ d.rfd = c.rfd /\ d.wfd = c.wfd
        /\ d.recv_eof = c.recv_eof /\ d.recv_close = c.recv_close /\ d.status = c.status
        /\ d.exitsignal = c.exitsignal
        /\ d.recvwindow = c.recvwindow /\ d.recvdonelen = c.recvdonelen /\ d.buf = c.buf
        /\ d.flushing = c.flushing
    <3> DEFINE f == Put(c, m)
    <3>1. f \in ChannelType(e) /\ f = [c EXCEPT !.out = Append(c.out, m)]
      BY <1>2, <1>7, <1>8, PutFacts
    <3>2. c.transwindow - k \in Nat
      BY <1>2, <1>4, <1>5, <1>8, BackedType
    <3> DEFINE x == c.transwindow - k
               o == Append(c.out, m)
    <3> HIDE DEF o
    <3>3. f.out = o /\ f.transwindow = c.transwindow
        /\ f.pid = c.pid /\ f.open = c.open /\ f.sent_eof = c.sent_eof
        /\ f.sent_close = c.sent_close /\ f.rfd = c.rfd /\ f.wfd = c.wfd
        /\ f.recv_eof = c.recv_eof /\ f.recv_close = c.recv_close /\ f.status = c.status
        /\ f.exitsignal = c.exitsignal
        /\ f.recvwindow = c.recvwindow /\ f.recvdonelen = c.recvdonelen /\ f.buf = c.buf
        /\ f.flushing = c.flushing
      <4> HIDE DEF f
      <4> QED
        BY <1>8, <3>1 DEF ChannelType, o
    <3>4. d = [f EXCEPT !.transwindow = x]
      <4>1. d = [f EXCEPT !.transwindow = @ - k]
        OBVIOUS
      <4> HIDE DEF d, f
      <4> QED
        BY <4>1, <3>1, <3>3 DEF ChannelType
    <3> HIDE DEF f, d, x
    <3>5. d \in ChannelType(e)
      BY <3>1, <3>2, <3>4 DEF ChannelType, x
    <3>6. d.out = o /\ d.transwindow = x
        /\ d.pid = c.pid /\ d.open = c.open /\ d.sent_eof = c.sent_eof
        /\ d.sent_close = c.sent_close /\ d.rfd = c.rfd /\ d.wfd = c.wfd
        /\ d.recv_eof = c.recv_eof /\ d.recv_close = c.recv_close /\ d.status = c.status
        /\ d.exitsignal = c.exitsignal
        /\ d.recvwindow = c.recvwindow /\ d.recvdonelen = c.recvdonelen /\ d.buf = c.buf
        /\ d.flushing = c.flushing
      BY <3>1, <3>3, <3>4 DEF ChannelType
    <3> QED
      BY <3>5, <3>6 DEF o, x
  <2> HIDE DEF d
  <2>3. Turns(e, c, d, "none")
    <3>1. c.recv_eof \in BOOLEAN /\ c.recv_close \in BOOLEAN
      BY <1>8 DEF ChannelType
    <3> QED
      BY <1>1, <1>8, <2>2, <3>1 DEF Turns, c
  <2>4. Serves(e, c, d, n, "none") /\ Sound(e, d, n, told) /\ n \o d.out = Append(n, m)
    <3> HIDE DEF n, told
    <3>1. /\ m \in Packets /\ m.type \in {"DATA", "ADJUST"}
          /\ m.type = "DATA" => ~c.sent_eof /\ m.stream \in ReadStreams(e)
          /\ d.out = Append(c.out, m)
      BY <1>2, <1>7, <1>9, <2>2 DEF c
    <3>2. /\ n \in Seq(Packets) /\ told \in BOOLEAN /\ Sound(e, c, n, told) /\ c.out = <<>>
          /\ Turns(e, c, d, "none") /\ ~c.sent_close
      BY <1>8, <1>9, <2>3 DEF c
    <3>3. Posts(e, c, d, n, m, "none", told)
      BY <1>2, <3>1, <3>2 DEF Posts
    <3> QED
      BY <3>3, Posting
  <2>5. Weighs(e, c, d, n, net[e], net[e])
    <3>1. DataIn(n \o d.out) = DataIn(n) + k /\ CreditIn(n \o d.out) = CreditIn(n)
          /\ DataIn(n) \in Nat /\ CreditIn(n) \in Nat
      BY <1>7, <1>8, <2>4, QueueFacts
    <3>2. DataIn(net[e]) \in Nat /\ CreditIn(net[e]) \in Nat
      BY <1>2, Idle, QueueFacts
    <3>3. Backed(d) = Backed(c)
      BY <1>2, <1>8, <2>2, BufferedFacts DEF Backed
    <3>4. Backed(c) \in Int /\ c.transwindow \in Nat /\ c.recvwindow \in Int
      BY <1>2, <1>8, BackedType
    <3>5. c.recvdonelen < WindowExtend
      BY <1>2 DEF SessionInv, Balance, c
    <3> HIDE DEF n
    <3> QED
      BY <1>4, <1>5, <2>2, <3>1, <3>2, <3>3, <3>4, <3>5, SMTT(30) DEF Weighs
  <2>6. SessionInv'
    BY <1>1, <1>2, <1>3, <1>6, <1>10, <2>1, <2>4, <2>5, Committed DEF c
  <2>7. Reads(e, s, k, d)
    BY <1>11, <2>2 DEF Reads, c, m
  <2>8. \E y : /\ Commit(e, check_close(e, y, rest)) /\ Reads(e, s, k, y) /\ Sound(e, y, n, told)
    BY <2>1, <2>4, <2>7
  <2> QED
    BY <1>5, <2>6, <2>8 DEF e, k, rest, c
<1>12. CASE ~(k > 0)
  <2> DEFINE f == CloseRead(e, c, s)
  <2>1. Commit(e, check_close(e, f, rest)) /\ Shut(e, c, f)
    BY <1>1, <1>2, <1>8, <1>9, <1>12, ShutRead
  <2>2. Reads(e, s, k, f)
    <3>1. k = 0
      BY <1>4, <1>5, <1>12
    <3> QED
      BY <3>1 DEF Reads
  <2> HIDE DEF f
  <2>3. SessionInv'
    BY <1>1, <1>2, <1>3, <1>6, <1>10, <2>1, Shutting
  <2>4. Sound(e, f, n, told)
    BY <1>2, <1>8, <2>1, StageShut
  <2>5. \E y : /\ Commit(e, check_close(e, y, rest)) /\ Reads(e, s, k, y) /\ Sound(e, y, n, told)
    BY <2>1, <2>2, <2>4
  <2> QED
    BY <1>5, <2>3, <2>5 DEF e, k, rest, c
<1> QED
  BY <1>11, <1>12

-----------------------------------------------------------------------------
(* The window.                                                             *)

(* d is b after ExtendWindow has counted k bytes.                          *)
Extended(e, b, d, k) ==
    /\ d \in ChannelType(e)
    /\ d.transwindow = b.transwindow /\ d.buf = b.buf /\ d.pid = b.pid /\ d.status = b.status
    /\ d.exitsignal = b.exitsignal
    /\ d.recv_eof = b.recv_eof /\ d.recv_close = b.recv_close
    /\ d.rfd = b.rfd /\ d.wfd = b.wfd /\ d.open = b.open
    /\ d.sent_eof = b.sent_eof /\ d.sent_close = b.sent_close /\ d.flushing = b.flushing
    /\ d.recvdonelen < WindowExtend
    /\ d.recvwindow + d.recvdonelen = b.recvwindow + b.recvdonelen + k
    /\ \/ d.out = b.out /\ d.recvwindow = b.recvwindow
       \/ \E m \in Packets : /\ m.type = "ADJUST" /\ d.out = Append(b.out, m)
                             /\ d.recvwindow = b.recvwindow + m.incr

LEMMA ExtendFacts ==
    ASSUME NEW e \in Ends, NEW b \in ChannelType(e), NEW k \in Nat
    PROVE  Extended(e, b, ExtendWindow(b, k), k)
<1> DEFINE done == b.recvdonelen + k
           m == [type |-> "ADJUST", incr |-> done]
           d == ExtendWindow(b, k)
<1>1. /\ done \in Nat /\ b.recvwindow \in Int /\ b.recvdonelen \in Nat
      /\ WindowExtend \in Nat /\ WindowExtend > 0
  BY BackedType, Constants
<1>2. d = IF done >= WindowExtend
          THEN [Put(b, m) EXCEPT !.recvwindow = @ + done, !.recvdonelen = 0]
          ELSE [b EXCEPT !.recvdonelen = done]
  BY DEF ExtendWindow
<1>3. done = b.recvdonelen + k
  OBVIOUS
<1> HIDE DEF done, d
<1>4. m \in Packets /\ m.type = "ADJUST" /\ m.incr = done
  BY <1>1 DEF Packets
<1>5. CASE done >= WindowExtend
  <2> DEFINE f == Put(b, m)
             o == Append(b.out, m)
             x == b.recvwindow + done
  <2>1. f \in ChannelType(e) /\ f = [b EXCEPT !.out = o]
    <3> HIDE DEF m
    <3>1. <<>> \in Seq(Packets)
      OBVIOUS
    <3> QED
      BY <1>4, <3>1, PutFacts
  <2>2. d = [f EXCEPT !.recvwindow = @ + done, !.recvdonelen = 0]
    BY <1>2, <1>5
  <2> HIDE DEF f, o, m
  <2>3. /\ f.out = o /\ f.transwindow = b.transwindow /\ f.recvwindow = b.recvwindow
        /\ f.buf = b.buf /\ f.pid = b.pid /\ f.status = b.status /\ f.exitsignal = b.exitsignal
        /\ f.recv_eof = b.recv_eof /\ f.recv_close = b.recv_close
        /\ f.rfd = b.rfd /\ f.wfd = b.wfd /\ f.open = b.open
        /\ f.sent_eof = b.sent_eof /\ f.sent_close = b.sent_close /\ f.flushing = b.flushing
    BY <2>1 DEF ChannelType
  <2>4. d = [f EXCEPT !.recvwindow = x, !.recvdonelen = 0] /\ x \in Int /\ 0 \in Nat
    BY <1>1, <2>1, <2>2, <2>3 DEF ChannelType
  <2>5. x = b.recvwindow + done
    OBVIOUS
  <2> HIDE DEF x
  <2>6. d \in ChannelType(e)
    BY <2>1, <2>4 DEF ChannelType
  <2>7. /\ d.out = o /\ d.transwindow = f.transwindow /\ d.recvwindow = x /\ d.recvdonelen = 0
        /\ d.buf = f.buf /\ d.pid = f.pid /\ d.status = f.status /\ d.exitsignal = f.exitsignal
        /\ d.recv_eof = f.recv_eof /\ d.recv_close = f.recv_close
        /\ d.rfd = f.rfd /\ d.wfd = f.wfd /\ d.open = f.open
        /\ d.sent_eof = f.sent_eof /\ d.sent_close = f.sent_close /\ d.flushing = f.flushing
    BY <2>1, <2>3, <2>4 DEF ChannelType
  <2>8. d.recvdonelen < WindowExtend
        /\ d.recvwindow + d.recvdonelen = b.recvwindow + b.recvdonelen + k
    BY <1>1, <1>3, <2>5, <2>7
  <2>9. d.out = Append(b.out, m) /\ d.recvwindow = b.recvwindow + m.incr
    BY <1>4, <2>5, <2>7 DEF o
  <2> QED
    BY <1>4, <2>3, <2>6, <2>7, <2>8, <2>9 DEF Extended, d
<1>6. CASE ~(done >= WindowExtend)
  <2>1. d = [b EXCEPT !.recvdonelen = done]
    BY <1>2, <1>6
  <2>2. d \in ChannelType(e)
    BY <1>1, <2>1 DEF ChannelType
  <2>3. /\ d.out = b.out /\ d.transwindow = b.transwindow /\ d.recvwindow = b.recvwindow
        /\ d.recvdonelen = done
        /\ d.buf = b.buf /\ d.pid = b.pid /\ d.status = b.status /\ d.exitsignal = b.exitsignal
        /\ d.recv_eof = b.recv_eof /\ d.recv_close = b.recv_close
        /\ d.rfd = b.rfd /\ d.wfd = b.wfd /\ d.open = b.open
        /\ d.sent_eof = b.sent_eof /\ d.sent_close = b.sent_close /\ d.flushing = b.flushing
    BY <2>1 DEF ChannelType
  <2>4. d.recvdonelen < WindowExtend
        /\ d.recvwindow + d.recvdonelen = b.recvwindow + b.recvdonelen + k
    BY <1>1, <1>3, <1>6, <2>3
  <2> QED
    BY <2>2, <2>3, <2>4 DEF Extended, d
<1> QED
  BY <1>5, <1>6

(* The step of an end that takes len bytes of data, and may grant others.  *)
Grants(e, c, d, t, len) ==
    /\ Turns(e, c, d, t) /\ ~c.sent_close
    /\ d.transwindow = c.transwindow
    /\ \/ d.out = <<>> /\ d.recvwindow = c.recvwindow - len
       \/ \E m \in Packets : /\ m.type = "ADJUST" /\ d.out = Append(<<>>, m)
                             /\ d.recvwindow = c.recvwindow - len + m.incr
    /\ Backed(d) = Backed(c) /\ d.recvdonelen < WindowExtend

LEMMA Granting ==
    ASSUME SessionInv, NEW e \in Ends, NEW d, NEW t, NEW len \in Nat, NEW r,
           Grants(e, chan[e], d, t, len),
           DataIn(r) = DataIn(net[e]) - len, CreditIn(r) = CreditIn(net[e])
    PROVE  /\ Serves(e, chan[e], d, net[Peer(e)], t)
           /\ Sound(e, d, net[Peer(e)], chan[Peer(e)].status)
           /\ Weighs(e, chan[e], d, net[Peer(e)], net[e], r)
<1> DEFINE c == chan[e]
           n == net[Peer(e)]
           told == chan[Peer(e)].status
           q == net[e]
<1>1. /\ c \in ChannelType(e) /\ c.out = <<>> /\ n \in Seq(Packets) /\ told \in BOOLEAN
      /\ Sound(e, c, n, told) /\ n \o c.out = n
  BY Idle
<1>2. /\ Turns(e, c, d, t) /\ ~c.sent_close /\ d.transwindow = c.transwindow
      /\ Backed(d) = Backed(c) /\ d.recvdonelen < WindowExtend
      /\ DataIn(r) = DataIn(q) - len /\ CreditIn(r) = CreditIn(q)
  BY DEF Grants
<1>3. /\ DataIn(q) \in Nat /\ CreditIn(q) \in Nat /\ DataIn(n) \in Nat /\ CreditIn(n) \in Nat
  BY Idle, QueueFacts
<1>4. Backed(c) \in Int /\ c.transwindow \in Nat /\ c.recvwindow \in Int
  BY <1>1, BackedType
<1>5. \A s \in WriteStreams(e) : d.wfd[s] = "open" => c.wfd[s] = "open"
  BY <1>2 DEF Turns
<1>6. CASE d.out = <<>> /\ d.recvwindow = c.recvwindow - len
  <2>1. n \o d.out = n
    BY <1>1, <1>6
  <2> HIDE DEF c, n, told, q
  <2>2. Serves(e, c, d, n, t) /\ Sound(e, d, n, told)
    BY <1>1, <1>2, <1>6, Quiet
  <2>3. Weighs(e, c, d, n, q, r)
    BY <1>2, <1>3, <1>4, <1>5, <1>6, <2>1 DEF Weighs
  <2> QED
    BY <2>2, <2>3 DEF c, n, told, q
<1>7. CASE \E m \in Packets : /\ m.type = "ADJUST" /\ d.out = Append(<<>>, m)
                              /\ d.recvwindow = c.recvwindow - len + m.incr
  <2>1. PICK m \in Packets : /\ m.type = "ADJUST" /\ d.out = Append(<<>>, m)
                             /\ d.recvwindow = c.recvwindow - len + m.incr
    BY <1>7
  <2>2. DataOf(m) = 0 /\ CreditOf(m) = m.incr /\ m.incr \in Nat
    BY <2>1, PacketFacts
  <2>3. d.out = Append(c.out, m)
    BY <1>1, <2>1
  <2> HIDE DEF c, n, told, q
  <2>4. Posts(e, c, d, n, m, t, told)
    BY <1>1, <1>2, <2>1, <2>3 DEF Posts
  <2>5. Serves(e, c, d, n, t) /\ Sound(e, d, n, told) /\ n \o d.out = Append(n, m)
    BY <2>4, Posting
  <2>6. DataIn(n \o d.out) = DataIn(n) /\ CreditIn(n \o d.out) = CreditIn(n) + m.incr
    BY <1>1, <1>3, <2>2, <2>5, QueueFacts
  <2>7. Weighs(e, c, d, n, q, r)
    BY <1>2, <1>3, <1>4, <1>5, <2>1, <2>2, <2>6 DEF Weighs
  <2> QED
    BY <2>5, <2>7 DEF c, n, told, q
<1> QED
  BY <1>6, <1>7 DEF Grants

LEMMA Fits ==
    ASSUME NEW e \in Ends, NEW d \in ChannelType(e), Backed(d) <= Window
    PROVE  WindowFits(d)
<1>1. /\ d.recvwindow \in Int /\ d.recvdonelen \in Nat /\ Window \in Nat /\ Buffered(d) \in Nat
      /\ \A s \in WriteStreams(e) : Len(d.buf[s]) \in Nat /\ Len(d.buf[s]) <= Buffered(d)
  BY BackedType, BufferedFacts, Constants
<1>2. d.recvwindow + d.recvdonelen + Buffered(d) <= Window
  BY DEF Backed
<1>3. DOMAIN d.buf = WriteStreams(e)
  BY DEF ChannelType
<1>4. d.recvwindow <= Window
  BY <1>1, <1>2
<1>5. ASSUME NEW s \in WriteStreams(e) PROVE d.recvwindow <= Window - Len(d.buf[s])
  <2> DEFINE x == Len(d.buf[s])
  <2>1. x \in Nat /\ x <= Buffered(d)
    BY <1>1
  <2> HIDE DEF x
  <2>2. d.recvwindow <= Window - x
    BY <1>1, <1>2, <2>1
  <2> QED
    BY <2>2 DEF x
<1> QED
  BY <1>3, <1>4, <1>5 DEF WindowFits

(* Fields that a change of the buffer or of the window leaves alone.       *)
Alike(c, d) ==
    /\ d.transwindow = c.transwindow /\ d.pid = c.pid /\ d.status = c.status
    /\ d.exitsignal = c.exitsignal
    /\ d.recv_eof = c.recv_eof /\ d.recv_close = c.recv_close
    /\ d.rfd = c.rfd /\ d.wfd = c.wfd /\ d.open = c.open
    /\ d.sent_eof = c.sent_eof /\ d.sent_close = c.sent_close /\ d.flushing = c.flushing

LEMMA TurnsAlike ==
    ASSUME NEW e \in Ends, NEW c \in ChannelType(e), c.open, NEW d \in ChannelType(e),
           Alike(c, d), NEW t, t \notin {"EOF", "CLOSE", "STATUS"}
    PROVE  Turns(e, c, d, t)
<1>1. c.recv_eof \in BOOLEAN /\ c.recv_close \in BOOLEAN
  BY DEF ChannelType
<1> QED
  BY <1>1 DEF Turns, Alike

SetBuffer(c, s, x) == [c EXCEPT !.buf[s] = x]

(* In channel d of end e, other than in c, the bytes x wait for stream s.  *)
Buffers(e, c, d, s, x) ==
    /\ Alike(c, d) /\ d.buf[s] = x
    /\ \A w \in WriteStreams(e) \ {s} : d.buf[w] = c.buf[w]

LEMMA BufferSet ==
    ASSUME NEW e \in Ends, NEW c \in ChannelType(e), NEW s \in WriteStreams(e), NEW x \in Seq(Nat),
           NEW b, b = SetBuffer(c, s, x)
    PROVE  /\ b \in ChannelType(e) /\ Alike(c, b) /\ b.out = c.out
           /\ b.recvwindow = c.recvwindow /\ b.recvdonelen = c.recvdonelen
           /\ b.buf[s] = x /\ Buffers(e, c, b, s, x)
           /\ Buffered(b) = Buffered(c) - Len(c.buf[s]) + Len(x)
<1> DEFINE y == Replaced(c.buf, s, x)
<1>1. /\ y \in [WriteStreams(e) -> Seq(Nat)] /\ b = [c EXCEPT !.buf = y] /\ y[s] = x
      /\ \A w \in WriteStreams(e) \ {s} : y[w] = c.buf[w]
  BY DEF ChannelType, SetBuffer, Replaced
<1> HIDE DEF y
<1>2. b \in ChannelType(e)
  BY <1>1 DEF ChannelType
<1>3. /\ Alike(c, b) /\ b.out = c.out /\ b.buf = y
      /\ b.recvwindow = c.recvwindow /\ b.recvdonelen = c.recvdonelen
  BY <1>1 DEF ChannelType, Alike
<1>4. b.buf = Replaced(c.buf, s, x)
  BY <1>3 DEF y
<1>5. Buffered(b) = Buffered(c) - Len(c.buf[s]) + Len(x)
  BY <1>2, <1>4, BufferedFacts
<1>6. b.buf[s] = x /\ Buffers(e, c, b, s, x)
  BY <1>1, <1>3 DEF Buffers
<1> QED
  BY <1>2, <1>3, <1>5, <1>6

(* The channel of end e, about to be d, has taken len bytes of data and    *)
(* keeps the bytes x of stream s for later.                                *)
Passes(e, d, s, x, t, len) ==
    /\ Sound(e, d, net[Peer(e)], chan[Peer(e)].status)
    /\ Grants(e, chan[e], d, t, len) /\ Buffers(e, chan[e], d, s, x)

LEMMA DoWrite ==
    ASSUME SessionInv, NEW s \in Streams, NEW k, WriteBuffered(s, k)
    PROVE  LET e == Receiver(s)
               q == chan[e].buf[s]
           IN  /\ SessionInv'
               /\ \E d : /\ Commit(e, check_close(e, d, pipe))
                         /\ Passes(e, d, s, SubSeq(q, k + 1, Len(q)), "none", 0)
<1> DEFINE e == Receiver(s)
           c == chan[e]
           x == SubSeq(c.buf[s], k + 1, Len(c.buf[s]))
           b == [c EXCEPT !.buf[s] = SubSeq(@, k + 1, Len(@))]
           d == ExtendWindow(b, k)
<1>0. c.open /\ c.wfd[s] = "open" /\ k \in 1 .. Len(c.buf[s])
  BY DEF WriteBuffered, Up
<1>a. got' = [got EXCEPT ![s] = @ \o SubSeq(c.buf[s], 1, k)]
  BY DEF WriteBuffered
<1>1. /\ IF WindowFits(d) THEN Commit(e, check_close(e, d, pipe)) ELSE Die(e, "assert window")
      /\ UNCHANGED <<pipe, written, ended, reader, command>>
  BY DEF WriteBuffered
<1>2. e \in Ends /\ s \in WriteStreams(e)
  BY EndOf
<1>3. /\ c \in ChannelType(e) /\ c.out = <<>> /\ c.buf \in [WriteStreams(e) -> Seq(Nat)]
      /\ Sent(e, c, net[Peer(e)], chan[Peer(e)].status)
  <2>1. c \in ChannelType(e) /\ c.out = <<>>
    BY <1>2, Idle
  <2> QED
    BY <1>2, <2>1 DEF ChannelType, SessionInv, Protocol
<1>4. c.buf[s] \in Seq(Nat) /\ Len(c.buf[s]) \in Nat
  BY <1>2, <1>3
<1>5. k \in 0 .. Len(c.buf[s]) /\ k \in Nat
  BY <1>0, <1>4
<1>6. x \in Seq(Nat) /\ Len(x) = Len(c.buf[s]) - k /\ SubSeq(c.buf[s], 1, k) \in Seq(Nat)
  BY <1>4, <1>5, Cut
<1>7. ~c.sent_close
  BY <1>0, <1>2, <1>3 DEF Sent
<1>8. command = "none" => Requested /\ e = "cli"
  <2>1. c.buf[s] # <<>>
    BY <1>0, <1>4
  <2> QED
    BY <1>0, <1>2, <2>1, Served
<1>9. pipe' \in [Streams -> Seq(Nat)] /\ got' \in [Streams -> Seq(Nat)]
  <2>1. pipe' = pipe /\ pipe \in [Streams -> Seq(Nat)] /\ got \in [Streams -> Seq(Nat)]
    BY <1>1 DEF SessionInv, Types
  <2>2. got[s] \o SubSeq(c.buf[s], 1, k) \in Seq(Nat)
    BY <1>6, <2>1
  <2> QED
    BY <1>a, <2>1, <2>2
<1>10. Backed(c) <= Window
  BY <1>2 DEF SessionInv, Balance
<1> HIDE DEF e, c, x
<1>11. b = SetBuffer(c, s, x)
  BY DEF x, SetBuffer
<1> HIDE DEF b
<1>12. /\ b \in ChannelType(e) /\ Alike(c, b) /\ b.out = c.out /\ Buffers(e, c, b, s, x)
       /\ b.recvwindow = c.recvwindow /\ b.recvdonelen = c.recvdonelen
       /\ Buffered(b) = Buffered(c) - Len(c.buf[s]) + Len(x)
  <2>1. x \in Seq(Nat) /\ c \in ChannelType(e)
    BY <1>3, <1>6, Zenon
  <2> QED
    BY <1>2, <1>11, <2>1, BufferSet
<1>13. Extended(e, b, d, k)
  BY <1>2, <1>5, <1>12, ExtendFacts
<1> HIDE DEF d
<1>14. d \in ChannelType(e) /\ Alike(c, d) /\ d.recvdonelen < WindowExtend /\ d.buf = b.buf
  BY <1>12, <1>13 DEF Extended, Alike
<1>15. Backed(d) = Backed(c)
  <2>1. Buffered(d) = Buffered(b) /\ Buffered(c) \in Nat
    BY <1>2, <1>3, <1>12, <1>14, BufferedFacts
  <2>2. d.recvwindow + d.recvdonelen = c.recvwindow + c.recvdonelen + k
    BY <1>12, <1>13 DEF Extended
  <2>3. /\ c.recvwindow \in Int /\ c.recvdonelen \in Nat /\ d.recvwindow \in Int
        /\ d.recvdonelen \in Nat
    BY <1>2, <1>3, <1>14, BackedType
  <2>4. Buffered(d) = Buffered(c) - k
    BY <1>4, <1>5, <1>6, <1>12, <2>1
  <2> QED
    BY <1>5, <2>1, <2>2, <2>3, <2>4 DEF Backed
<1>16. WindowFits(d)
  BY <1>2, <1>10, <1>14, <1>15, Fits
<1>17. Turns(e, c, d, "none")
  BY <1>0, <1>2, <1>3, <1>14, TurnsAlike DEF c
<1>18. Grants(e, c, d, "none", 0)
  <2>1. d.transwindow = c.transwindow
    BY <1>14 DEF Alike
  <2>2. \/ d.out = <<>> /\ d.recvwindow = c.recvwindow
        \/ \E m \in Packets : /\ m.type = "ADJUST" /\ d.out = Append(<<>>, m)
                              /\ d.recvwindow = c.recvwindow + m.incr
    BY <1>3, <1>12, <1>13 DEF Extended
  <2>3. c.recvwindow - 0 = c.recvwindow
    BY <1>2, <1>3, BackedType
  <2> QED
    BY <1>7, <1>14, <1>15, <1>17, <2>1, <2>2, <2>3 DEF Grants
<1>19. /\ Serves(e, c, d, net[Peer(e)], "none")
       /\ Sound(e, d, net[Peer(e)], chan[Peer(e)].status)
       /\ Weighs(e, c, d, net[Peer(e)], net[e], net[e])
  <2>1. DataIn(net[e]) = DataIn(net[e]) - 0
    <3>1. DataIn(net[e]) \in Nat
      BY <1>2, Idle, QueueFacts
    <3> QED
      BY <3>1
  <2> QED
    BY <1>2, <1>18, <2>1, Granting DEF c
<1>20. SessionInv'
  BY <1>1, <1>2, <1>8, <1>9, <1>16, <1>19, Committed DEF c
<1>21. Commit(e, check_close(e, d, pipe))
  BY <1>1, <1>16
<1>22. Buffers(e, c, d, s, x)
  BY <1>12, <1>14 DEF Buffers
<1>23. Passes(e, d, s, x, "none", 0)
  BY <1>18, <1>19, <1>22 DEF Passes, c
<1> QED
  BY <1>20, <1>21, <1>23 DEF e, c, x

-----------------------------------------------------------------------------
(* Data.                                                                   *)

(* No packet of data is refused: it comes before the EOF, for a stream     *)
(* that the end writes, within its window and with room in the buffer.     *)
LEMMA DataHead ==
    ASSUME SessionInv, NEW e \in Ends, recv_msg(e, "DATA")
    PROVE  LET c == chan[e]
               m == Head(net[e])
           IN  /\ c.open /\ ~c.recv_eof /\ m \in Packets
               /\ m.stream \in WriteStreams(e) /\ m.data \in Seq(Nat) /\ DataOf(m) = Len(m.data)
               /\ CreditOf(m) = 0
               /\ Len(m.data) <= c.recvwindow
               /\ Len(m.data) <= Window - Len(c.buf[m.stream])
<1> DEFINE c == chan[e]
           q == net[e]
           m == Head(q)
           p == Peer(e)
<1>1. q \in Seq(Packets) /\ q # <<>> /\ m.type = "DATA" /\ c \in ChannelType(e)
  BY Idle DEF recv_msg, Take
<1>2. m \in Packets /\ m = q[1] /\ Len(q) \in Nat /\ Len(q) >= 1
  BY <1>1
<1>3. c.open
  BY <1>1, Opened
<1>4. ~c.recv_eof
  BY <1>1, <1>2 DEF SessionInv, Protocol, Received
<1>5. m.stream \in WriteStreams(e)
  <2>1. p \in Ends /\ Peer(p) = e /\ ReadStreams(p) = WriteStreams(e)
    BY StreamFacts
  <2>2. Sent(p, chan[p], q, chan[e].status)
    BY <2>1 DEF SessionInv, Protocol
  <2> QED
    BY <1>1, <1>2, <2>1, <2>2 DEF Sent
<1>6. m.data \in Seq(Nat) /\ DataOf(m) = Len(m.data) /\ CreditOf(m) = 0 /\ DataOf(m) \in Nat
  BY <1>1, <1>2, PacketFacts
<1>7. DataOf(m) <= c.recvwindow /\ c.recvwindow + c.recvdonelen + Buffered(c) <= Window
  <2>1. Tail(q) \in Seq(Packets) /\ DataIn(Tail(q)) = DataIn(q) - DataOf(m)
    BY <1>1, QueueFacts
  <2>2. DataIn(Tail(q)) \in Nat /\ DataIn(q) \in Nat
    BY <1>1, <2>1, QueueFacts
  <2>3. p \in Ends /\ Peer(p) = e /\ chan[p].transwindow \in Nat /\ CreditIn(net[p]) \in Nat
    <3>1. p \in Ends /\ Peer(p) = e
      BY StreamFacts
    <3> QED
      BY <3>1, Idle, BackedType, QueueFacts
  <2>4. chan[p].transwindow + DataIn(q) + CreditIn(net[p]) <= c.recvwindow
    BY <2>3 DEF SessionInv, Balance, Sendable
  <2>5. c.recvwindow \in Int
    BY <1>1, BackedType
  <2>6. DataOf(m) <= DataIn(q)
    BY <1>6, <2>1, <2>2
  <2>7. DataIn(q) <= c.recvwindow
    BY <2>2, <2>3, <2>4, <2>5
  <2>8. DataOf(m) <= c.recvwindow
    BY <1>6, <2>2, <2>5, <2>6, <2>7
  <2>9. Backed(c) <= Window
    BY DEF SessionInv, Balance
  <2> QED
    BY <2>8, <2>9 DEF Backed
<1>8. Len(m.data) <= Window - Len(c.buf[m.stream])
  <2> DEFINE x == Len(c.buf[m.stream])
  <2>1. x \in Nat /\ x <= Buffered(c) /\ Buffered(c) \in Nat
    BY <1>1, <1>5, BufferedFacts
  <2>2. c.recvwindow \in Int /\ c.recvdonelen \in Nat /\ Window \in Nat
    BY <1>1, BackedType, Constants
  <2>3. DataOf(m) \in Nat /\ DataOf(m) = Len(m.data)
    BY <1>6
  <2> HIDE DEF x
  <2>4. DataOf(m) <= Window - x
    BY <1>7, <2>1, <2>2, <2>3
  <2> QED
    BY <2>3, <2>4 DEF x
<1> QED
  BY <1>2, <1>3, <1>4, <1>5, <1>6, <1>7, <1>8

LEMMA HandledOne ==
    ASSUME SessionInv, NEW e \in Ends, recv_msg(e, "DATA"), NEW f, Handled(e, {f}),
           Serves(e, chan[e], f, net[Peer(e)], "DATA"),
           Sound(e, f, net[Peer(e)], chan[Peer(e)].status),
           Weighs(e, chan[e], f, net[Peer(e)], net[e], net'[e]),
           UNCHANGED <<pipe, written, ended, reader, command>>,
           got' \in [Streams -> Seq(Nat)]
    PROVE  SessionInv'
<1>1. "DATA" \notin Openings \cup {"none"} /\ command' = command
  BY DEF Openings
<1>2. fatal' = fatal /\ \E d \in {f} : Stepped(e, d, "DATA")
  BY <1>1, Handling
<1>3. pipe' \in [Streams -> Seq(Nat)]
  BY DEF SessionInv, Types
<1> QED
  BY <1>2, <1>3, EndStep

(* The queue after the packet.                                             *)
LEMMA DataTail ==
    ASSUME SessionInv, NEW e \in Ends, recv_msg(e, "DATA"), NEW f, Handled(e, {f}),
           command' = command
    PROVE  /\ Len(Head(net[e]).data) \in Nat
           /\ DataIn(net'[e]) = DataIn(net[e]) - Len(Head(net[e]).data)
           /\ CreditIn(net'[e]) = CreditIn(net[e])
<1>1. "DATA" \notin Openings \cup {"none"}
  BY DEF Openings
<1>2. /\ DataIn(net'[e]) = DataIn(net[e]) - DataOf(Head(net[e]))
      /\ CreditIn(net'[e]) = CreditIn(net[e]) - CreditOf(Head(net[e]))
  BY <1>1, Handling
<1>3. /\ DataOf(Head(net[e])) = Len(Head(net[e]).data) /\ CreditOf(Head(net[e])) = 0
      /\ Head(net[e]) \in Packets
  BY DataHead
<1>4. CreditIn(net[e]) \in Nat /\ DataOf(Head(net[e])) \in Nat
  BY <1>3, Idle, QueueFacts, PacketFacts
<1> QED
  BY <1>2, <1>3, <1>4

(* The data is dropped: its descriptor is closed.                          *)
LEMMA DataDropped ==
    ASSUME SessionInv, NEW e \in Ends, recv_msg(e, "DATA"), Handled(e, {chan[e]}),
           chan[e].wfd[Head(net[e]).stream] # "open",
           UNCHANGED <<pipe, written, ended, reader, got, command>>
    PROVE  SessionInv'
<1> DEFINE c == chan[e]
           n == net[Peer(e)]
           told == chan[Peer(e)].status
           q == net[e]
           r == net'[e]
           len == Len(Head(net[e]).data)
<1>1. /\ len \in Nat /\ DataIn(r) = DataIn(q) - len /\ CreditIn(r) = CreditIn(q)
  BY DataTail
<1>2. c.open /\ Head(q).stream \in WriteStreams(e)
  BY DataHead
<1>3. /\ c \in ChannelType(e) /\ c.out = <<>> /\ n \in Seq(Packets) /\ told \in BOOLEAN
      /\ Sound(e, c, n, told) /\ n \o c.out = n
  BY Idle
<1>4. Turns(e, c, c, "DATA")
  BY <1>2, <1>3, TurnsAlike DEF Alike
<1>5. Serves(e, c, c, n, "DATA") /\ Sound(e, c, n, told)
  <2> HIDE DEF c, n, told
  <2> QED
    BY <1>3, <1>4, Quiet
<1>6. Weighs(e, c, c, n, q, r)
  <2>1. Backed(c) \in Int /\ c.transwindow \in Nat /\ c.recvwindow \in Int
    BY <1>3, BackedType
  <2>2. DataIn(n) \in Nat /\ CreditIn(n) \in Nat /\ DataIn(q) \in Nat /\ CreditIn(q) \in Nat
    BY Idle, QueueFacts
  <2>3. c.recvdonelen < WindowExtend
    BY DEF SessionInv, Balance
  <2>4. ~ \A s \in WriteStreams(e) : c.wfd[s] = "open"
    BY <1>2
  <2> HIDE DEF c, n, q, r, len
  <2> QED
    BY <1>1, <1>3, <2>1, <2>2, <2>3, <2>4 DEF Weighs
<1>7. got' \in [Streams -> Seq(Nat)]
  BY DEF SessionInv, Types
<1> QED
  BY <1>5, <1>6, <1>7, HandledOne

Spent(c, len) == [c EXCEPT !.recvwindow = @ - len]

LEMMA SpentFacts ==
    ASSUME NEW e \in Ends, NEW c \in ChannelType(e), NEW len \in Nat, NEW d, d = Spent(c, len)
    PROVE  /\ d \in ChannelType(e) /\ Alike(c, d) /\ d.out = c.out /\ d.buf = c.buf
           /\ d.recvwindow = c.recvwindow - len /\ d.recvdonelen = c.recvdonelen
           /\ Buffered(d) = Buffered(c)
<1> DEFINE x == c.recvwindow - len
<1>1. x \in Int /\ d = [c EXCEPT !.recvwindow = x]
  BY BackedType DEF Spent
<1>2. x = c.recvwindow - len
  OBVIOUS
<1> HIDE DEF x
<1>3. d \in ChannelType(e)
  BY <1>1 DEF ChannelType
<1>4. /\ Alike(c, d) /\ d.out = c.out /\ d.buf = c.buf /\ d.recvwindow = x
      /\ d.recvdonelen = c.recvdonelen
  BY <1>1 DEF ChannelType, Alike
<1> QED
  BY <1>2, <1>3, <1>4, BufferedFacts

(* The data cannot be written: its reader is gone.                         *)
Refuses(e, s, d) ==
    /\ s = Head(net[e]).stream
    /\ d = Spent(chan[e], Len(Head(net[e]).data))
    /\ Handled(e, {CloseWrite(e, d, s)})

LEMMA DataRefused ==
    ASSUME SessionInv, NEW e \in Ends, recv_msg(e, "DATA"), NEW s, NEW d, Refuses(e, s, d),
           UNCHANGED <<pipe, written, ended, reader, got, command>>
    PROVE  SessionInv'
<1> DEFINE c == chan[e]
           n == net[Peer(e)]
           told == chan[Peer(e)].status
           q == net[e]
           r == net'[e]
           len == Len(Head(net[e]).data)
           f == CloseWrite(e, d, s)
<1>1. Handled(e, {f}) /\ UNCHANGED <<pipe, written, ended, reader, got, command>>
  BY DEF Refuses
<1> HIDE DEF f
<1>2. /\ len \in Nat /\ DataIn(r) = DataIn(q) - len /\ CreditIn(r) = CreditIn(q)
  BY <1>1, DataTail
<1>3. c.open /\ s \in WriteStreams(e)
  BY DataHead DEF Refuses
<1>4. /\ c \in ChannelType(e) /\ c.out = <<>> /\ n \in Seq(Packets) /\ told \in BOOLEAN
      /\ Sound(e, c, n, told) /\ n \o c.out = n
  BY Idle
<1>5. /\ d \in ChannelType(e) /\ Alike(c, d) /\ d.out = c.out
      /\ d.recvwindow = c.recvwindow - len /\ d.recvdonelen = c.recvdonelen
      /\ Buffered(d) = Buffered(c)
  <2>1. d = Spent(c, len)
    BY DEF Refuses
  <2> HIDE DEF c, len
  <2> QED
    BY <1>2, <1>4, <2>1, SpentFacts, SMTT(30)
<1> HIDE DEF len
<1>6. Shut(e, d, f) /\ f.wfd[s] = "closed"
  BY <1>3, <1>5, ShutWrite DEF f
<1>7. f \in ChannelType(e) /\ f.out = <<>> /\ f.buf = d.buf /\ f.transwindow = c.transwindow
      /\ f.recvwindow = c.recvwindow - len /\ f.recvdonelen = c.recvdonelen
  BY <1>4, <1>5, <1>6 DEF Shut, Kept, Alike
<1>8. Turns(e, c, f, "DATA")
  <2>1. c.recv_eof \in BOOLEAN /\ c.recv_close \in BOOLEAN
    BY <1>4 DEF ChannelType
  <2>2. /\ f.pid = c.pid /\ f.open = c.open /\ f.sent_eof = c.sent_eof
        /\ f.sent_close = c.sent_close /\ f.recv_eof = c.recv_eof
        /\ f.recv_close = c.recv_close /\ f.status = c.status /\ f.exitsignal = c.exitsignal
    BY <1>5, <1>6 DEF Shut, Kept, Alike
  <2>3. /\ \A w \in ReadStreams(e) : f.rfd[w] \in {c.rfd[w], "closed"}
        /\ \A w \in WriteStreams(e) : f.wfd[w] \in {c.wfd[w], "closed"}
    BY <1>5, <1>6 DEF Shut, Alike
  <2> HIDE DEF c
  <2>4. c.open
    BY <1>3 DEF c
  <2> QED
    BY <1>4, <1>7, <2>1, <2>2, <2>3, <2>4 DEF Turns
<1>9. Serves(e, c, f, n, "DATA") /\ Sound(e, f, n, told)
  <2> HIDE DEF c, n, told
  <2> QED
    BY <1>4, <1>7, <1>8, Quiet
<1>10. Weighs(e, c, f, n, q, r)
  <2>1. /\ Backed(c) \in Int /\ c.transwindow \in Nat /\ c.recvwindow \in Int
        /\ c.recvdonelen \in Nat /\ Buffered(c) \in Nat
    BY <1>4, BackedType, BufferedFacts
  <2>2. DataIn(n) \in Nat /\ CreditIn(n) \in Nat /\ DataIn(q) \in Nat /\ CreditIn(q) \in Nat
    BY Idle, QueueFacts
  <2>3. c.recvdonelen < WindowExtend
    BY DEF SessionInv, Balance
  <2>4. ~ \A w \in WriteStreams(e) : f.wfd[w] = "open"
    BY <1>3, <1>6
  <2>5. n \o f.out = n
    BY <1>4, <1>7
  <2>6. Buffered(f) = Buffered(c)
    BY <1>5, <1>7, BufferedFacts
  <2>7. Backed(f) <= Backed(c)
    BY <1>2, <1>7, <2>1, <2>6 DEF Backed
  <2> HIDE DEF c, n, q, r
  <2> QED
    BY <1>2, <1>7, <2>1, <2>2, <2>3, <2>4, <2>5, <2>7 DEF Weighs
<1>11. got' \in [Streams -> Seq(Nat)]
  BY DEF SessionInv, Types
<1> QED
  BY <1>1, <1>9, <1>10, <1>11, HandledOne

LEMMA MaxOfTwo ==
    ASSUME NEW x \in Int, NEW y \in Int
    PROVE  Max({x, y}) = IF x >= y THEN x ELSE y
<1>1. \E m \in {x, y} : \A k \in {x, y} : m >= k
  <2>1. CASE x >= y
    BY <2>1
  <2>2. CASE y >= x
    BY <2>2
  <2> QED
    BY <2>1, <2>2
<1>2. /\ Max({x, y}) \in {x, y}
      /\ \A k \in {x, y} : Max({x, y}) >= k
  BY <1>1 DEF Max
<1> QED
  BY <1>2

(* Part of the data is written and the rest is buffered: the channel while *)
(* the packet is processed.                                                *)
Takes(e, s, k, all, d, kept, b, w, f) ==
    /\ s = Head(net[e]).stream /\ chan[e].wfd[s] = "open"
    /\ all = chan[e].buf[s] \o Head(net[e]).data /\ k \in 0 .. Len(all)
    /\ d = Spent(chan[e], Len(Head(net[e]).data))
    /\ kept = Max({0, Len(chan[e].buf[s]) - k})
    /\ b = SetBuffer(d, s, SubSeq(d.buf[s], Len(d.buf[s]) - kept + 1, Len(d.buf[s])))
    /\ w = ExtendWindow(b, k)
    /\ f = SetBuffer(w, s, SubSeq(all, k + 1, Len(all)))
    /\ got' = [got EXCEPT ![s] = @ \o SubSeq(all, 1, k)]
    /\ IF WindowFits(w) THEN Handled(e, {f}) ELSE Die(e, "assert window")

LEMMA DataTaken ==
    ASSUME SessionInv, NEW e \in Ends, recv_msg(e, "DATA"),
           NEW s, NEW k, NEW all, NEW d, NEW kept, NEW b, NEW w, NEW f,
           Takes(e, s, k, all, d, kept, b, w, f),
           UNCHANGED <<pipe, written, ended, reader, command>>
    PROVE  /\ SessionInv' /\ Handled(e, {f})
           /\ Passes(e, f, s, SubSeq(all, k + 1, Len(all)), "DATA", Len(Head(net[e]).data))
<1> DEFINE c == chan[e]
           n == net[Peer(e)]
           told == chan[Peer(e)].status
           q == net[e]
           r == net'[e]
           len == Len(Head(net[e]).data)
           old == Len(c.buf[s])
           y == SubSeq(d.buf[s], Len(d.buf[s]) - kept + 1, Len(d.buf[s]))
           z == SubSeq(all, k + 1, Len(all))
<1>1. /\ c.open /\ s \in WriteStreams(e) /\ Head(q).data \in Seq(Nat) /\ len \in Nat
  <2>1. c.open /\ s \in WriteStreams(e) /\ Head(q).data \in Seq(Nat)
    BY DataHead DEF Takes
  <2> QED
    BY <2>1
<1>2. /\ c \in ChannelType(e) /\ c.out = <<>> /\ Sent(e, c, n, told)
  BY Idle DEF SessionInv, Protocol
<1>3. c.buf[s] \in Seq(Nat) /\ old \in Nat
  BY <1>1, <1>2 DEF ChannelType
<1>4. all \in Seq(Nat) /\ Len(all) = old + len /\ k \in 0 .. Len(all)
  <2>1. all = c.buf[s] \o Head(q).data /\ k \in 0 .. Len(all)
    BY DEF Takes
  <2> DEFINE u == c.buf[s]
             v == Head(q).data
  <2>2. u \in Seq(Nat) /\ v \in Seq(Nat) /\ all = u \o v /\ old = Len(u) /\ len = Len(v)
    BY <1>1, <1>3, <2>1
  <2> HIDE DEF u, v, old, len
  <2>3. all \in Seq(Nat) /\ Len(all) = old + len
    BY <2>2
  <2> QED
    BY <2>1, <2>3
<1>5. k \in Nat /\ k <= old + len
  <2> HIDE DEF old, len
  <2> QED
    BY <1>1, <1>3, <1>4
<1>6. z \in Seq(Nat) /\ Len(z) = old + len - k /\ SubSeq(all, 1, k) \in Seq(Nat)
  <2>0. all \in Seq(Nat) /\ k \in 0 .. Len(all)
    BY <1>4
  <2>1. z \in Seq(Nat) /\ Len(z) = Len(all) - k /\ SubSeq(all, 1, k) \in Seq(Nat)
    BY <2>0, Cut
  <2>2. Len(z) = Len(all) - k /\ Len(all) = old + len /\ old \in Nat /\ len \in Nat /\ k \in Nat
    BY <1>1, <1>3, <1>4, <1>5, <2>1
  <2> HIDE DEF old, len, z
  <2>3. Len(z) = old + len - k
    BY <2>2
  <2> QED
    BY <2>1, <2>3
<1>7. kept = (IF 0 >= old - k THEN 0 ELSE old - k) /\ kept \in 0 .. old
  <2>1. old - k \in Int /\ 0 \in Int /\ kept = Max({0, old - k})
    <3>1. kept = Max({0, old - k})
      BY DEF Takes
    <3> HIDE DEF old
    <3> QED
      BY <1>3, <1>5, <3>1
  <2>2. kept = IF 0 >= old - k THEN 0 ELSE old - k
    <3> HIDE DEF old
    <3> QED
      BY <2>1, MaxOfTwo
  <2> HIDE DEF old
  <2> QED
    BY <1>3, <1>5, <2>2
<1>8. /\ d \in ChannelType(e) /\ Alike(c, d) /\ d.out = c.out /\ d.buf = c.buf
      /\ d.recvwindow = c.recvwindow - len /\ d.recvdonelen = c.recvdonelen
      /\ Buffered(d) = Buffered(c)
  <2>1. d = Spent(c, len)
    BY DEF Takes
  <2> HIDE DEF c, len
  <2> QED
    BY <1>1, <1>2, <2>1, SpentFacts, SMTT(30)
<1>9. y \in Seq(Nat) /\ Len(y) = kept
  <2> DEFINE v == old - kept
  <2>1. v \in 0 .. old /\ old - v = kept
    <3> HIDE DEF old
    <3> QED
      BY <1>3, <1>7
  <2>2. y = SubSeq(c.buf[s], v + 1, Len(c.buf[s])) /\ Len(c.buf[s]) = old
    BY <1>8
  <2>3. v \in 0 .. Len(c.buf[s]) /\ Len(c.buf[s]) - v = kept
    BY <2>1, <2>2
  <2> HIDE DEF v, y
  <2> QED
    BY <1>3, <2>2, <2>3, Cut
<1>10. b = SetBuffer(d, s, y) /\ f = SetBuffer(w, s, z) /\ w = ExtendWindow(b, k)
  BY DEF Takes
<1>11. got' \in [Streams -> Seq(Nat)]
  <2>1. got \in [Streams -> Seq(Nat)] /\ s \in Streams
    BY <1>1 DEF SessionInv, Types, WriteStreams
  <2>2. got[s] \o SubSeq(all, 1, k) \in Seq(Nat)
    BY <1>6, <2>1
  <2>3. got' = [got EXCEPT ![s] = @ \o SubSeq(all, 1, k)]
    BY DEF Takes
  <2> QED
    BY <2>1, <2>2, <2>3
<1>12. ~c.sent_close
  BY <1>1, <1>2 DEF Sent, Takes
<1>a. IF WindowFits(w) THEN Handled(e, {f}) ELSE Die(e, "assert window")
  BY DEF Takes
<1>13. Backed(c) <= Window
  BY DEF SessionInv, Balance
<1> HIDE DEF y, z, c, n, told, q, r, len, old
<1>14. /\ b \in ChannelType(e) /\ Buffers(e, d, b, s, y)
       /\ Alike(d, b) /\ b.out = d.out /\ b.buf[s] = y
       /\ b.recvwindow = d.recvwindow /\ b.recvdonelen = d.recvdonelen
       /\ Buffered(b) = Buffered(d) - Len(d.buf[s]) + Len(y)
  BY <1>1, <1>8, <1>9, <1>10, BufferSet
<1>15. Extended(e, b, w, k)
  BY <1>5, <1>10, <1>14, ExtendFacts
<1>16. w \in ChannelType(e) /\ Alike(b, w) /\ w.buf = b.buf /\ w.recvdonelen < WindowExtend
  BY <1>15 DEF Extended, Alike
<1>17. /\ f \in ChannelType(e) /\ Alike(w, f) /\ f.out = w.out /\ Buffers(e, w, f, s, z)
       /\ f.recvwindow = w.recvwindow /\ f.recvdonelen = w.recvdonelen
       /\ Buffered(f) = Buffered(w) - Len(w.buf[s]) + Len(z)
  BY <1>1, <1>6, <1>10, <1>16, BufferSet
<1>18. /\ Buffered(w) = Buffered(c) - old + kept
       /\ Buffered(f) = Buffered(c) + len - k
       /\ Buffered(c) \in Nat
  <2>1. Buffered(w) = Buffered(b) /\ Buffered(c) \in Nat
    BY <1>2, <1>14, <1>16, BufferedFacts
  <2>2. Len(d.buf[s]) = old
    BY <1>8 DEF old
  <2>3. Len(w.buf[s]) = kept
    BY <1>9, <1>14, <1>16
  <2> QED
    BY <1>1, <1>3, <1>5, <1>6, <1>7, <1>8, <1>9, <1>14, <1>17, <2>1, <2>2, <2>3, SMTT(30)
<1>19. w.recvwindow + w.recvdonelen = c.recvwindow - len + c.recvdonelen + k
  BY <1>8, <1>14, <1>15 DEF Extended
<1>20. /\ c.recvwindow \in Int /\ c.recvdonelen \in Nat /\ w.recvwindow \in Int
       /\ w.recvdonelen \in Nat /\ Window \in Nat
  BY <1>2, <1>16, BackedType, Constants
<1>21. Backed(w) <= Window
  <2>1. Backed(w) = c.recvwindow - len + c.recvdonelen + k + Buffered(c) - old + kept
    BY <1>1, <1>3, <1>5, <1>7, <1>18, <1>19, <1>20, SMTT(30) DEF Backed
  <2>2. k - old + kept <= len
    BY <1>1, <1>3, <1>5, <1>7
  <2>3. c.recvwindow + c.recvdonelen + Buffered(c) <= Window
    BY <1>13 DEF Backed
  <2> DEFINE g == k - old + kept
             a == c.recvwindow + c.recvdonelen + Buffered(c)
  <2>4. g \in Int /\ a \in Int /\ g <= len /\ a <= Window
    BY <1>1, <1>3, <1>5, <1>7, <1>18, <1>20, <2>2, <2>3
  <2>5. Backed(w) = a - len + g
    <3> DEFINE x == Buffered(c)
               rw == c.recvwindow
               rd == c.recvdonelen
    <3>1. /\ x \in Nat /\ rw \in Int /\ rd \in Nat /\ len \in Nat /\ old \in Nat /\ k \in Nat
          /\ kept \in Int /\ Backed(w) = rw - len + rd + k + x - old + kept
      BY <1>1, <1>3, <1>5, <1>7, <1>18, <1>20, <2>1
    <3>2. a = rw + rd + x
      OBVIOUS
    <3> HIDE DEF x, rw, rd, a
    <3> QED
      BY <3>1, <3>2
  <2> HIDE DEF g, a
  <2> QED
    BY <1>1, <1>20, <2>4, <2>5
<1>22. Handled(e, {f})
  BY <1>a, <1>16, <1>21, Fits
<1>23. Backed(f) = Backed(c)
  BY <1>1, <1>5, <1>17, <1>18, <1>19, <1>20, SMTT(30) DEF Backed
<1>24. Alike(c, f)
  BY <1>8, <1>14, <1>16, <1>17 DEF Alike
<1>25. Turns(e, c, f, "DATA")
  BY <1>1, <1>2, <1>17, <1>24, TurnsAlike
<1>26. Grants(e, c, f, "DATA", len)
  <2>1. f.transwindow = c.transwindow
    BY <1>24 DEF Alike
  <2>2. b.out = <<>> /\ b.recvwindow = c.recvwindow - len
    BY <1>2, <1>8, <1>14
  <2>3. \/ f.out = <<>> /\ f.recvwindow = c.recvwindow - len
        \/ \E m \in Packets : /\ m.type = "ADJUST" /\ f.out = Append(<<>>, m)
                              /\ f.recvwindow = c.recvwindow - len + m.incr
    BY <1>15, <1>17, <2>2 DEF Extended
  <2> QED
    BY <1>12, <1>16, <1>17, <1>23, <1>25, <2>1, <2>3 DEF Grants
<1>27. DataIn(r) = DataIn(q) - len /\ CreditIn(r) = CreditIn(q)
  BY <1>22, DataTail DEF q, r, len
<1>28. Serves(e, c, f, n, "DATA") /\ Sound(e, f, n, told) /\ Weighs(e, c, f, n, q, r)
  BY <1>1, <1>26, <1>27, Granting DEF c, n, told, q, r
<1>29. SessionInv'
  BY <1>11, <1>22, <1>28, HandledOne DEF c, n, told, q, r
<1>30. Buffers(e, c, f, s, z)
  BY <1>8, <1>14, <1>16, <1>17, <1>24 DEF Buffers
<1>31. Passes(e, f, s, z, "DATA", len)
  BY <1>26, <1>28, <1>30 DEF Passes, c, n, told
<1> QED
  BY <1>22, <1>29, <1>31 DEF z, len

LEMMA DoData ==
    ASSUME SessionInv, NEW e \in Ends, NEW k, recv_msg_channel_data(e, k)
    PROVE  SessionInv'
<1> DEFINE c == chan[e]
           m == Head(net[e])
           s == m.stream
           len == Len(m.data)
           all == c.buf[s] \o m.data
           d == Spent(c, len)
           kept == Max({0, Len(c.buf[s]) - k})
           b == SetBuffer(d, s, SubSeq(d.buf[s], Len(d.buf[s]) - kept + 1, Len(d.buf[s])))
           w == ExtendWindow(b, k)
           f == SetBuffer(w, s, SubSeq(all, k + 1, Len(all)))
<1>1. recv_msg(e, "DATA") /\ UNCHANGED <<pipe, written, ended, reader, command>>
  BY DEF recv_msg_channel_data
<1>2. c.open /\ ~c.recv_eof /\ len <= c.recvwindow /\ len <= Window - Len(c.buf[s])
  BY <1>1, DataHead
<1>3. ~(len > Window - Len(c.buf[s])) /\ ~(len > c.recvwindow)
  <2>1. c.recvwindow \in Int /\ len \in Nat /\ Window \in Nat /\ Len(c.buf[s]) \in Nat
    <3>1. s \in WriteStreams(e) /\ m.data \in Seq(Nat)
      BY <1>1, DataHead
    <3>2. len \in Nat
      BY <3>1
    <3>3. c \in ChannelType(e)
      BY Idle
    <3> QED
      BY <3>1, <3>2, <3>3, BackedType, BufferedFacts, Constants
  <2> DEFINE x == Len(c.buf[s])
  <2> HIDE DEF x, len
  <2> QED
    BY <1>2, <2>1 DEF x
<1>4. \/ c.wfd[s] # "open" /\ Handled(e, {c}) /\ got' = got
      \/ Handled(e, {CloseWrite(e, d, s)}) /\ got' = got
      \/ /\ c.wfd[s] = "open" /\ k \in 0 .. Len(all)
         /\ got' = [got EXCEPT ![s] = @ \o SubSeq(all, 1, k)]
         /\ IF WindowFits(w) THEN Handled(e, {f}) ELSE Die(e, "assert window")
  BY <1>2, <1>3, Zenon DEF recv_msg_channel_data, Spent, SetBuffer
<1>5. CASE c.wfd[s] # "open" /\ Handled(e, {c}) /\ got' = got
  BY <1>1, <1>5, DataDropped
<1>6. CASE Handled(e, {CloseWrite(e, d, s)}) /\ got' = got
  <2>1. Refuses(e, s, d)
    BY <1>6 DEF Refuses
  <2> HIDE DEF s, d
  <2> QED
    BY <1>1, <1>6, <2>1, DataRefused
<1>7. CASE /\ c.wfd[s] = "open" /\ k \in 0 .. Len(all)
           /\ got' = [got EXCEPT ![s] = @ \o SubSeq(all, 1, k)]
           /\ IF WindowFits(w) THEN Handled(e, {f}) ELSE Die(e, "assert window")
  <2>1. Takes(e, s, k, all, d, kept, b, w, f)
    BY <1>7, Zenon DEF Takes
  <2> HIDE DEF s, all, d, kept, b, w, f
  <2> QED
    BY <1>1, <2>1, DataTaken
<1> QED
  BY <1>4, <1>5, <1>6, <1>7

-----------------------------------------------------------------------------
(* The opening of the channel, up to the request for the command.          *)

Fresh(e, c) ==
    /\ c \in ChannelType(e) /\ c.out = <<>>
    /\ c.recvwindow = Window /\ c.recvdonelen = 0
    /\ \A s \in WriteStreams(e) : c.buf[s] = <<>>
    /\ ~c.sent_eof /\ ~c.recv_eof /\ ~c.sent_close /\ ~c.recv_close /\ ~c.pid /\ ~c.status
    /\ c.exitsignal = "none"

FreshState ==
    /\ Types /\ command = "none" /\ (Asked \/ Confirmed \/ Requested)
    /\ chan["cli"].open /\ (chan["svr"].open \/ Asked)
    /\ \A e \in Ends : /\ Fresh(e, chan[e])
                       /\ Sendable(e) = IF e = "cli" /\ Asked THEN 0 ELSE Window
                       /\ \A i \in 1 .. Len(net[e]) : net[e][i].type \in Openings

LEMMA FreshInv == FreshState => SessionInv
<1> SUFFICES ASSUME FreshState PROVE SessionInv
  OBVIOUS
<1>1. Types /\ command = "none" /\ (Asked \/ Confirmed \/ Requested)
  BY DEF FreshState
<1>2. Phase
  BY <1>1 DEF Phase
<1>3. ASSUME NEW e \in Ends
      PROVE  /\ Fresh(e, chan[e])
             /\ Sendable(e) = IF e = "cli" /\ Asked THEN 0 ELSE Window
             /\ \A i \in 1 .. Len(net[e]) : net[e][i].type \in Openings
             /\ Peer(e) \in Ends
  BY StreamFacts DEF FreshState
<1>4. StatusKnown
  BY <1>3, StreamFacts DEF StatusKnown, Fresh
<1>5. ASSUME NEW e \in Ends
      PROVE  /\ Sent(e, chan[e], net[Peer(e)], chan[Peer(e)].status)
             /\ Received(e) /\ Gone(e)
  <2>1. \A i \in 1 .. Len(net[Peer(e)]) : net[Peer(e)][i].type \in Openings
    BY <1>3
  <2>2. ~chan[e].sent_eof /\ ~chan[e].sent_close /\ ~chan[e].recv_eof /\ ~chan[e].recv_close
    BY <1>3 DEF Fresh
  <2>3. Sent(e, chan[e], net[Peer(e)], chan[Peer(e)].status)
    BY <2>1, <2>2 DEF Sent, Openings
  <2>4. Received(e)
    BY <2>2 DEF Received
  <2>5. Gone(e)
    BY <1>1, StreamFacts DEF Gone, FreshState
  <2> QED
    BY <2>3, <2>4, <2>5
<1>6. ASSUME NEW e \in Ends PROVE Balance(e)
  <2>1. /\ Sendable(Peer(e)) <= Window
        /\ Full(e) => Sendable(Peer(e)) = Window
    <3>1. Sendable(Peer(e)) = IF e = "svr" /\ Asked THEN 0 ELSE Window
      BY <1>3, StreamFacts
    <3>2. e = "svr" /\ Asked => ~Full(e)
      <4>1. ASSUME e = "svr", Asked PROVE ~Full(e)
        <5> DEFINE c == Channel("svr")
        <5>1. chan[e] = c /\ ~c.open /\ c.wfd["in"] = "uninit"
          BY <4>1, StreamFacts DEF Asked, Channel
        <5> HIDE DEF c
        <5> QED
          BY <4>1, <5>1, StreamFacts DEF Full
      <4> QED
        BY <4>1
    <3> QED
      BY <3>1, <3>2, Constants
  <2>2. chan[e] \in ChannelType(e) /\ chan[e].recvwindow = Window /\ chan[e].recvdonelen = 0
        /\ \A s \in WriteStreams(e) : Len(chan[e].buf[s]) = 0
    BY <1>3 DEF Fresh
  <2>3. Buffered(chan[e]) = 0
    <3> DEFINE c == chan[e]
    <3>1. DOMAIN c.buf = WriteStreams(e)
      BY <2>2 DEF ChannelType
    <3> DEFINE held(s) == IF s \in DOMAIN c.buf THEN Len(c.buf[s]) ELSE 0
    <3>2. held("in") = 0 /\ held("out") = 0 /\ held("err") = 0
      BY <2>2, <3>1
    <3>3. Buffered(c) = held("in") + held("out") + held("err")
      BY DEF Buffered
    <3> HIDE DEF held
    <3> QED
      BY <3>2, <3>3
  <2>4. Backed(chan[e]) = Window
    BY <2>2, <2>3, Constants DEF Backed
  <2> QED
    BY <2>1, <2>2, <2>4, Constants DEF Balance
<1> QED
  BY <1>1, <1>2, <1>4, <1>5, <1>6 DEF SessionInv, Protocol

LEMMA ChannelFresh ==
    ASSUME NEW e \in Ends, NEW c, c = Channel(e)
    PROVE  Fresh(e, c) /\ c.open = (e = "cli") /\ c.transwindow = 0
<1>1. <<>> \in Seq(Nat) /\ <<>> \in Seq(Packets) /\ Window \in Int
  BY Constants
<1>2. /\ c.rfd \in [ReadStreams(e) -> Fds] /\ c.wfd \in [WriteStreams(e) -> Fds]
      /\ c.buf = [s \in WriteStreams(e) |-> <<>>]
  BY DEF Channel, Fds
<1>3. c.buf \in [WriteStreams(e) -> Seq(Nat)]
  BY <1>1, <1>2
<1>4. c \in ChannelType(e)
  <2> DEFINE x == c.rfd
             y == c.wfd
             z == c.buf
             w == <<>>
  <2>1. c = [ open |-> e = "cli", transwindow |-> 0, recvwindow |-> Window, recvdonelen |-> 0,
              sent_eof |-> FALSE, recv_eof |-> FALSE, sent_close |-> FALSE, recv_close |-> FALSE,
              pid |-> FALSE, flushing |-> FALSE, status |-> FALSE, exitsignal |-> "none",
              rfd |-> x, wfd |-> y, buf |-> z, out |-> w ]
    BY DEF Channel
  <2>2. x \in [ReadStreams(e) -> Fds] /\ y \in [WriteStreams(e) -> Fds]
        /\ z \in [WriteStreams(e) -> Seq(Nat)] /\ w \in Seq(Packets)
    BY <1>1, <1>2, <1>3
  <2> HIDE DEF x, y, z, w
  <2> QED
    BY <1>1, <2>1, <2>2 DEF ChannelType
<1>5. /\ c.out = <<>> /\ c.recvwindow = Window /\ c.recvdonelen = 0
      /\ ~c.sent_eof /\ ~c.recv_eof /\ ~c.sent_close /\ ~c.recv_close /\ ~c.pid /\ ~c.status
      /\ c.exitsignal = "none"
      /\ c.open = (e = "cli") /\ c.transwindow = 0
  BY DEF Channel
<1>6. \A s \in WriteStreams(e) : c.buf[s] = <<>>
  BY <1>2
<1> QED
  BY <1>4, <1>5, <1>6 DEF Fresh

Widen(c, tw) == [c EXCEPT !.open = TRUE, !.transwindow = tw]

LEMMA Widened ==
    ASSUME NEW e \in Ends, NEW c, Fresh(e, c), NEW tw \in Nat, NEW d, d = Widen(c, tw)
    PROVE  Fresh(e, d) /\ d.open /\ d.transwindow = tw
<1>1. c \in ChannelType(e)
  BY DEF Fresh
<1>2. /\ d \in ChannelType(e) /\ d.open /\ d.transwindow = tw /\ d.out = c.out
      /\ d.recvwindow = c.recvwindow /\ d.recvdonelen = c.recvdonelen /\ d.buf = c.buf
      /\ d.sent_eof = c.sent_eof /\ d.recv_eof = c.recv_eof /\ d.sent_close = c.sent_close
      /\ d.recv_close = c.recv_close /\ d.pid = c.pid /\ d.status = c.status
      /\ d.exitsignal = c.exitsignal
  BY <1>1 DEF ChannelType, Widen
<1> QED
  BY <1>2 DEF Fresh

LEMMA Single ==
    ASSUME NEW m \in Packets
    PROVE  /\ <<m>> \in Seq(Packets) /\ Len(<<m>>) = 1 /\ <<m>>[1] = m
           /\ DataIn(<<m>>) = DataOf(m) /\ CreditIn(<<m>>) = CreditOf(m)
           /\ <<>> \in Seq(Packets) /\ DataIn(<<>>) = 0 /\ CreditIn(<<>>) = 0
<1> DEFINE q == <<>>
<1>1. q \in Seq(Packets) /\ q = <<>> /\ Append(q, m) = <<m>>
  OBVIOUS
<1>2. DataOf(m) \in Nat /\ CreditOf(m) \in Nat
  BY PacketFacts
<1> HIDE DEF q
<1>3. DataIn(q) = 0 /\ CreditIn(q) = 0
  BY <1>1, QueueFacts
<1>4. /\ DataIn(Append(q, m)) = DataIn(q) + DataOf(m)
      /\ CreditIn(Append(q, m)) = CreditIn(q) + CreditOf(m)
  BY <1>1, QueueFacts
<1>5. DataIn(<<m>>) = DataOf(m) /\ CreditIn(<<m>>) = CreditOf(m)
  BY <1>1, <1>2, <1>3, <1>4
<1>6. <<m>> \in Seq(Packets) /\ Len(<<m>>) = 1 /\ <<m>>[1] = m
  OBVIOUS
<1> QED
  BY <1>1, <1>3, <1>5, <1>6

LEMMA InitFresh == Init => FreshState
<1> SUFFICES ASSUME Init PROVE FreshState
  OBVIOUS
<1> DEFINE m == [type |-> "OPEN", incr |-> Window]
<1>1. m \in Packets /\ DataOf(m) = 0 /\ CreditOf(m) = Window /\ m.type = "OPEN"
  <2>1. m \in Packets /\ m.type = "OPEN" /\ m.incr = Window
    BY Constants DEF Packets
  <2> QED
    BY <2>1, PacketFacts
<1>2. /\ chan = [e \in Ends |-> Channel(e)]
      /\ net = [e \in Ends |-> IF e = "svr" THEN <<m>> ELSE <<>>]
  BY DEF Init
<1>3. net["svr"] = <<m>> /\ net["cli"] = <<>> /\ \A e \in Ends : chan[e] = Channel(e)
  BY <1>2 DEF Ends
<1>4. Asked
  BY <1>3, StreamFacts DEF Asked
<1> HIDE DEF m
<1>5. /\ <<m>> \in Seq(Packets) /\ Len(<<m>>) = 1 /\ <<m>>[1] = m
      /\ DataIn(<<m>>) = 0 /\ CreditIn(<<m>>) = Window
      /\ <<>> \in Seq(Packets) /\ DataIn(<<>>) = 0 /\ CreditIn(<<>>) = 0
  BY <1>1, Single
<1>6. ASSUME NEW e \in Ends
      PROVE  Fresh(e, chan[e]) /\ chan[e].open = (e = "cli") /\ chan[e].transwindow = 0
  BY <1>3, ChannelFresh
<1>7. \A e \in Ends : /\ chan[e] \in ChannelType(e) /\ chan[e].out = <<>>
                      /\ chan[e].exitsignal = "none"
  BY <1>6 DEF Fresh
<1>8. Types
  <2>1. chan \in [Ends -> UNION { ChannelType(e) : e \in Ends }]
    <3>1. chan = [e \in Ends |-> chan[e]]
      BY <1>2
    <3> QED
      BY <1>7, <3>1
  <2>2. net \in [Ends -> Seq(Packets)]
    BY <1>2, <1>5
  <2>3. /\ fatal = [e \in Ends |-> "no"] /\ command \in {"none", "failed", "running", "exited"}
        /\ written \in [Streams -> Nat] /\ ended \in [Streams -> BOOLEAN]
        /\ reader \in [Streams -> BOOLEAN]
    BY DEF Init
  <2>4. pipe \in [Streams -> Seq(Nat)] /\ got \in [Streams -> Seq(Nat)]
    <3>1. <<>> \in Seq(Nat)
      OBVIOUS
    <3> QED
      BY <3>1 DEF Init
  <2> QED
    BY <1>7, <2>1, <2>2, <2>3, <2>4 DEF Types
<1>9. Sendable("cli") = 0 /\ Sendable("svr") = Window
  <2>1. chan["cli"].transwindow = 0 /\ chan["svr"].transwindow = 0
    BY <1>6, StreamFacts
  <2>2. /\ Sendable("cli") = 0 + DataIn(<<m>>) + CreditIn(<<>>)
        /\ Sendable("svr") = 0 + DataIn(<<>>) + CreditIn(<<m>>)
    BY <1>3, <2>1, StreamFacts DEF Sendable
  <2> QED
    BY <1>5, <2>2, Constants
<1>10. \A e \in Ends : \A i \in 1 .. Len(net[e]) : net[e][i].type \in Openings
  <2>1. \A i \in 1 .. Len(net["svr"]) : net["svr"][i].type \in Openings
    <3>1. \A i \in 1 .. Len(<<m>>) : <<m>>[i] = m
      BY <1>5
    <3>2. "OPEN" \in Openings
      BY DEF Openings
    <3> QED
      BY <1>1, <1>3, <3>1, <3>2
  <2>2. \A i \in 1 .. Len(net["cli"]) : net["cli"][i].type \in Openings
    BY <1>3
  <2> QED
    BY <2>1, <2>2, StreamFacts
<1>11. command = "none"
  BY DEF Init
<1>12. chan["cli"].open
  BY <1>6, StreamFacts
<1> QED
  BY <1>4, <1>6, <1>8, <1>9, <1>10, <1>11, <1>12, StreamFacts DEF FreshState

LEMMA OpeningPhase ==
    ASSUME SessionInv, NEW e \in Ends, NEW t, recv_msg(e, t), t \in Openings
    PROVE  /\ command = "none"
           /\ t = "OPEN" => e = "svr" /\ Asked
           /\ t = "CONFIRM" => e = "cli" /\ Confirmed
           /\ t = "EXEC" => e = "svr" /\ Requested
<1>1. net[e] \in Seq(Packets) /\ net[e] # <<>> /\ Head(net[e]).type = t
  BY Idle DEF recv_msg, Take
<1>2. net[e][1].type = t /\ 1 \in 1 .. Len(net[e])
  BY <1>1
<1>3. Phase
  BY DEF SessionInv, Protocol
<1>4. command = "none"
  BY <1>2, <1>3 DEF Phase, Started
<1>5. Asked \/ Confirmed \/ Requested
  BY <1>3, <1>4 DEF Phase
<1>6. CASE Asked
  BY <1>1, <1>2, <1>4, <1>6, StreamFacts DEF Asked
<1>7. CASE Confirmed
  BY <1>1, <1>2, <1>4, <1>7, StreamFacts DEF Confirmed
<1>8. CASE Requested
  BY <1>1, <1>2, <1>4, <1>8, StreamFacts DEF Requested
<1> QED
  BY <1>5, <1>6, <1>7, <1>8

(* The two ends and the queues after a step of the opening.                *)
LEMMA OpeningTypes ==
    ASSUME Types, UNCHANGED <<fatal, env>>,
           NEW e \in Ends, NEW f \in ChannelType(e), f.out = <<>>, NEW r \in Seq(Packets),
           NEW n \in Seq(Packets), f.exitsignal = "none",
           chan' = [chan EXCEPT ![e] = f], net' = [net EXCEPT ![e] = r, ![Peer(e)] = n]
    PROVE  /\ Types'
           /\ chan'[e] = f /\ chan'[Peer(e)] = chan[Peer(e)] /\ net'[e] = r /\ net'[Peer(e)] = n
<1>1. Peer(e) \in Ends /\ Peer(e) # e /\ \A x \in Ends : x = e \/ x = Peer(e)
  BY StreamFacts
<1>2. chan'[e] = f /\ chan'[Peer(e)] = chan[Peer(e)] /\ net'[e] = r /\ net'[Peer(e)] = n
  BY <1>1 DEF Types
<1>3. \A x \in Ends : /\ chan'[x] \in ChannelType(x) /\ chan'[x].out = <<>>
                      /\ ~chan'[x].status => chan'[x].exitsignal = "none"
  BY <1>1, <1>2 DEF Types
<1>4. chan' \in [Ends -> UNION { ChannelType(x) : x \in Ends }]
  <2>1. chan' = [x \in Ends |-> chan'[x]]
    BY DEF Types
  <2> QED
    BY <1>3, <2>1
<1>5. net' \in [Ends -> Seq(Packets)]
  BY DEF Types
<1>6. Types'
  BY <1>3, <1>4, <1>5 DEF Types, env
<1> QED
  BY <1>2, <1>6

LEMMA DoOpen ==
    ASSUME SessionInv, recv_msg_channel_open
    PROVE  SessionInv'
<1> DEFINE e == "svr"
           m == [type |-> "CONFIRM", incr |-> Window]
           c == Channel(e)
           d == [c EXCEPT !.open = TRUE, !.transwindow = Window]
           f == Put([c EXCEPT !.open = TRUE, !.transwindow = Head(net[e]).incr], m)
<1>1. recv_msg(e, "OPEN") /\ Consumed(e, {f}) /\ UNCHANGED env
  BY DEF recv_msg_channel_open
<1>2. command = "none" /\ Asked
  BY <1>1, OpeningPhase, StreamFacts DEF Openings
<1>3. net[e] = <<[type |-> "OPEN", incr |-> Window]>> /\ net["cli"] = <<>>
      /\ chan["cli"] = Channel("cli")
  BY <1>2 DEF Asked
<1>4. Head(net[e]).incr = Window /\ Tail(net[e]) = <<>>
  BY <1>3
<1>5. m \in Packets /\ m.type = "CONFIRM" /\ DataOf(m) = 0 /\ CreditOf(m) = Window
  <2>1. m \in Packets /\ m.type = "CONFIRM" /\ m.incr = Window
    BY Constants DEF Packets
  <2> QED
    BY <2>1, PacketFacts
<1>6. Fresh(e, d) /\ d.open /\ d.transwindow = Window /\ d = Accepted
  <2>1. Fresh(e, c)
    BY ChannelFresh, StreamFacts
  <2>2. d = Accepted /\ d = Widen(c, Window)
    BY DEF Accepted, Widen
  <2>3. e \in Ends /\ Window \in Nat
    BY StreamFacts, Constants
  <2> HIDE DEF c, d, e
  <2> QED
    BY <2>1, <2>2, <2>3, Widened
<1>7. f = Put(d, m)
  BY <1>4
<1> HIDE DEF d, m
<1>8. [f EXCEPT !.out = <<>>] = d /\ f.out = <<m>>
  <2>1. d \in ChannelType(e) /\ d.out = <<>>
    BY <1>6 DEF Fresh
  <2>2. f = [d EXCEPT !.out = <<m>>]
    BY <1>7, <2>1 DEF Put
  <2> HIDE DEF f
  <2> QED
    BY <2>1, <2>2 DEF ChannelType
<1>9. chan' = [chan EXCEPT ![e] = d] /\ net' = [net EXCEPT ![e] = <<>>, ![Peer(e)] = <<m>>]
      /\ UNCHANGED fatal
  <2>1. \E x \in {f} : /\ chan' = [chan EXCEPT ![e] = [x EXCEPT !.out = <<>>]]
                       /\ net' = [net EXCEPT ![e] = Tail(@), ![Peer(e)] = @ \o x.out]
    BY <1>1 DEF Consumed
  <2>2. /\ chan' = [chan EXCEPT ![e] = [f EXCEPT !.out = <<>>]]
        /\ net' = [net EXCEPT ![e] = Tail(@), ![Peer(e)] = @ \o f.out]
    BY <2>1
  <2>3. net[Peer(e)] \o f.out = <<m>>
    <3>1. net[Peer(e)] = <<>> /\ f.out = <<m>>
      BY <1>3, <1>8, StreamFacts
    <3> HIDE DEF f
    <3> QED
      BY <3>1
  <2>4. Types
    BY DEF SessionInv
  <2> HIDE DEF f
  <2>5. net' = [net EXCEPT ![e] = <<>>, ![Peer(e)] = <<m>>]
    BY <1>4, <2>2, <2>3, <2>4, StreamFacts DEF Types
  <2> QED
    BY <1>1, <1>8, <2>2, <2>5 DEF Consumed
<1>10. /\ <<m>> \in Seq(Packets) /\ Len(<<m>>) = 1 /\ <<m>>[1] = m
       /\ DataIn(<<m>>) = 0 /\ CreditIn(<<m>>) = Window
       /\ <<>> \in Seq(Packets) /\ DataIn(<<>>) = 0 /\ CreditIn(<<>>) = 0
  BY <1>5, Single
<1>11. /\ Types' /\ chan'[e] = d /\ chan'["cli"] = chan["cli"]
       /\ net'[e] = <<>> /\ net'["cli"] = <<m>>
  <2>1. d \in ChannelType(e) /\ d.out = <<>> /\ d.exitsignal = "none" /\ Types
    BY <1>6 DEF Fresh, SessionInv
  <2> DEFINE q == <<>>
             n == <<m>>
  <2>2. q \in Seq(Packets) /\ n \in Seq(Packets)
        /\ net' = [net EXCEPT ![e] = q, ![Peer(e)] = n] /\ e \in Ends /\ Peer(e) = "cli"
    BY <1>9, <1>10, StreamFacts
  <2>a. UNCHANGED <<fatal, env>> /\ chan' = [chan EXCEPT ![e] = d]
    BY <1>1, <1>9
  <2> HIDE DEF q, n, e
  <2>3. /\ Types' /\ chan'[e] = d /\ chan'[Peer(e)] = chan[Peer(e)]
        /\ net'[e] = q /\ net'[Peer(e)] = n
    BY <2>1, <2>2, <2>a, OpeningTypes
  <2> QED
    BY <2>2, <2>3 DEF q, n
<1>12. Fresh("cli", chan["cli"]) /\ chan["cli"].open /\ chan["cli"].transwindow = 0
  BY <1>3, ChannelFresh, StreamFacts
<1>13. Confirmed' /\ ~Asked'
  <2>1. Confirmed'
    BY <1>3, <1>6, <1>11 DEF Confirmed, m, Accepted, Channel
  <2>2. ~Asked'
    BY <1>10, <1>11 DEF Asked
  <2> QED
    BY <2>1, <2>2
<1>14. Sendable("cli")' = Window /\ Sendable("svr")' = Window
  <2>1. /\ Sendable("cli")' = 0 + DataIn(<<>>) + CreditIn(<<m>>)
        /\ Sendable("svr")' = Window + DataIn(<<m>>) + CreditIn(<<>>)
    BY <1>6, <1>11, <1>12, StreamFacts DEF Sendable
  <2> QED
    BY <1>10, <2>1, Constants
<1>15. \A x \in Ends : \A i \in 1 .. Len(net'[x]) : net'[x][i].type \in Openings
  <2>1. \A i \in 1 .. Len(<<m>>) : <<m>>[i] = m
    BY <1>10
  <2>2. "CONFIRM" \in Openings
    BY DEF Openings
  <2>3. \A i \in 1 .. Len(net'["cli"]) : net'["cli"][i].type \in Openings
    BY <1>5, <1>11, <2>1, <2>2
  <2>4. \A i \in 1 .. Len(net'["svr"]) : net'["svr"][i].type \in Openings
    BY <1>11
  <2> QED
    BY <2>3, <2>4, StreamFacts
<1>16. FreshState'
  <2>1. command' = "none"
    BY <1>1, <1>2 DEF env
  <2> QED
    BY <1>6, <1>11, <1>12, <1>13, <1>14, <1>15, <2>1, StreamFacts DEF FreshState
<1> QED
  BY <1>16, FreshInv, PTL

LEMMA DoConfirm ==
    ASSUME SessionInv, recv_msg_channel_open_confirmation
    PROVE  SessionInv'
<1> DEFINE e == "cli"
           m == [type |-> "EXEC"]
           c == chan[e]
           d == Widen(c, Window)
           f == Put([c EXCEPT !.transwindow = Head(net[e]).incr], m)
<1>1. recv_msg(e, "CONFIRM") /\ Handled(e, {f}) /\ UNCHANGED env
  BY DEF recv_msg_channel_open_confirmation
<1>2. command = "none" /\ Confirmed
  BY <1>1, OpeningPhase, StreamFacts DEF Openings
<1>3. net[e] = <<[type |-> "CONFIRM", incr |-> Window]>> /\ net["svr"] = <<>>
      /\ c = Channel(e) /\ chan["svr"] = Accepted
  BY <1>2 DEF Confirmed
<1>4. Head(net[e]).incr = Window /\ Tail(net[e]) = <<>>
  BY <1>3
<1>5. m \in Packets /\ m.type = "EXEC" /\ DataOf(m) = 0 /\ CreditOf(m) = 0
  <2>1. m \in Packets /\ m.type = "EXEC"
    BY DEF Packets
  <2> QED
    BY <2>1, PacketFacts
<1>6. Fresh(e, c) /\ c.open /\ e \in Ends
  BY <1>3, ChannelFresh, StreamFacts
<1>7. Fresh(e, d) /\ d.open /\ d.transwindow = Window
  <2> HIDE DEF c
  <2> QED
    BY <1>6, Widened, Constants
<1>8. [c EXCEPT !.transwindow = Head(net[e]).incr] = d
  <2>1. c \in ChannelType(e) /\ c.open = TRUE
    BY <1>6 DEF Fresh, ChannelType
  <2> HIDE DEF c
  <2> QED
    BY <1>4, <2>1 DEF Widen, ChannelType
<1>9. f = Put(d, m)
  BY <1>8
<1> HIDE DEF d, m
<1>10. [f EXCEPT !.out = <<>>] = d /\ f.out = <<m>>
  <2>1. d \in ChannelType(e) /\ d.out = <<>>
    BY <1>7 DEF Fresh
  <2>2. f = [d EXCEPT !.out = <<m>>]
    BY <1>9, <2>1 DEF Put
  <2> HIDE DEF f
  <2> QED
    BY <2>1, <2>2 DEF ChannelType
<1>11. chan' = [chan EXCEPT ![e] = d] /\ net' = [net EXCEPT ![e] = <<>>, ![Peer(e)] = <<m>>]
       /\ UNCHANGED fatal
  <2>1. Consumed(e, {f})
    BY <1>1, <1>6 DEF Handled
  <2>2. /\ chan' = [chan EXCEPT ![e] = [f EXCEPT !.out = <<>>]]
        /\ net' = [net EXCEPT ![e] = Tail(@), ![Peer(e)] = @ \o f.out]
        /\ UNCHANGED fatal
    BY <2>1 DEF Consumed
  <2>3. net[Peer(e)] \o f.out = <<m>>
    <3>1. net[Peer(e)] = <<>> /\ f.out = <<m>>
      BY <1>3, <1>10, StreamFacts
    <3> HIDE DEF f
    <3> QED
      BY <3>1
  <2>4. Types
    BY DEF SessionInv
  <2> HIDE DEF f
  <2>5. net' = [net EXCEPT ![e] = <<>>, ![Peer(e)] = <<m>>]
    BY <1>4, <2>2, <2>3, <2>4, StreamFacts DEF Types
  <2> QED
    BY <1>10, <2>2, <2>5
<1>12. /\ <<m>> \in Seq(Packets) /\ Len(<<m>>) = 1 /\ <<m>>[1] = m
       /\ DataIn(<<m>>) = 0 /\ CreditIn(<<m>>) = 0
       /\ <<>> \in Seq(Packets) /\ DataIn(<<>>) = 0 /\ CreditIn(<<>>) = 0
  BY <1>5, Single
<1>13. /\ Types' /\ chan'[e] = d /\ chan'["svr"] = chan["svr"]
       /\ net'[e] = <<>> /\ net'["svr"] = <<m>>
  <2>1. d \in ChannelType(e) /\ d.out = <<>> /\ d.exitsignal = "none" /\ Types
    BY <1>7 DEF Fresh, SessionInv
  <2> DEFINE q == <<>>
             n == <<m>>
  <2>2. q \in Seq(Packets) /\ n \in Seq(Packets)
        /\ net' = [net EXCEPT ![e] = q, ![Peer(e)] = n] /\ e \in Ends /\ Peer(e) = "svr"
    BY <1>11, <1>12, StreamFacts
  <2>3. UNCHANGED <<fatal, env>> /\ chan' = [chan EXCEPT ![e] = d]
    BY <1>1, <1>11
  <2> HIDE DEF q, n, e
  <2>4. /\ Types' /\ chan'[e] = d /\ chan'[Peer(e)] = chan[Peer(e)]
        /\ net'[e] = q /\ net'[Peer(e)] = n
    BY <2>1, <2>2, <2>3, OpeningTypes
  <2> QED
    BY <2>2, <2>4 DEF q, n
<1>14. Fresh("svr", chan["svr"]) /\ chan["svr"].open /\ chan["svr"].transwindow = Window
  <2> DEFINE x == Channel("svr")
             s == "svr"
  <2>1. Fresh(s, x) /\ s \in Ends
    BY ChannelFresh, StreamFacts
  <2>2. Accepted = Widen(x, Window)
    BY DEF Accepted, Widen
  <2> HIDE DEF x, s
  <2>3. Fresh(s, Accepted) /\ Accepted.open /\ Accepted.transwindow = Window
    BY <2>1, <2>2, Widened, Constants
  <2> QED
    BY <1>3, <2>3 DEF s
<1>15. Requested' /\ ~Asked'
  <2>1. Accepted' = Accepted
    BY DEF Accepted, Channel
  <2> DEFINE n == <<m>>
  <2>2. n # <<>> /\ n[1].type = "EXEC" /\ Len(n) = 1
    BY <1>5, <1>12
  <2>3. chan'["svr"] = Accepted /\ net'["cli"] = <<>> /\ net'["svr"] = n
    BY <1>3, <1>13
  <2> HIDE DEF n
  <2>4. Requested'
    <3>1. \A i \in 2 .. Len(n) : n[i].type \notin Openings
      BY <2>2
    <3> QED
      BY <2>1, <2>2, <2>3, <3>1 DEF Requested
  <2>5. ~Asked'
    <3> DEFINE o == [type |-> "OPEN", incr |-> Window]
    <3>1. <<o>>[1].type = "OPEN"
      OBVIOUS
    <3>2. n # <<o>>
      BY <2>2, <3>1
    <3> QED
      BY <2>3, <3>2 DEF Asked
  <2> QED
    BY <2>4, <2>5
<1>16. Sendable("cli")' = Window /\ Sendable("svr")' = Window
  <2>1. /\ Sendable("cli")' = Window + DataIn(<<m>>) + CreditIn(<<>>)
        /\ Sendable("svr")' = Window + DataIn(<<>>) + CreditIn(<<m>>)
    BY <1>7, <1>13, <1>14, StreamFacts DEF Sendable
  <2> QED
    BY <1>12, <2>1, Constants
<1>17. \A x \in Ends : \A i \in 1 .. Len(net'[x]) : net'[x][i].type \in Openings
  <2>1. \A i \in 1 .. Len(<<m>>) : <<m>>[i] = m
    BY <1>12
  <2>2. "EXEC" \in Openings
    BY DEF Openings
  <2>3. \A i \in 1 .. Len(net'["svr"]) : net'["svr"][i].type \in Openings
    BY <1>5, <1>13, <2>1, <2>2
  <2>4. \A i \in 1 .. Len(net'["cli"]) : net'["cli"][i].type \in Openings
    BY <1>13
  <2> QED
    BY <2>3, <2>4, StreamFacts
<1>18. FreshState'
  <2>1. command' = "none"
    BY <1>1, <1>2 DEF env
  <2>2. /\ Fresh("cli", chan'["cli"]) /\ chan'["cli"].open
        /\ Fresh("svr", chan'["svr"]) /\ chan'["svr"].open
    BY <1>7, <1>13, <1>14
  <2>3. \A x \in Ends : /\ Fresh(x, chan'[x])
                        /\ Sendable(x)' = Window
                        /\ \A i \in 1 .. Len(net'[x]) : net'[x][i].type \in Openings
    BY <1>16, <1>17, <2>2, StreamFacts
  <2>4. Types'
    BY <1>13
  <2> HIDE DEF f
  <2> QED
    BY <1>15, <2>1, <2>2, <2>3, <2>4 DEF FreshState
<1> QED
  BY <1>18, FreshInv, PTL

(* The channel of the server, before and after the request.                *)
Spawned(c, d, ok) ==
    /\ d \in ChannelType("svr") /\ d.out = <<>>
    /\ d.transwindow = c.transwindow /\ d.recvwindow = c.recvwindow
    /\ d.recvdonelen = c.recvdonelen /\ d.buf = c.buf
    /\ d.open /\ ~d.sent_eof /\ ~d.recv_eof /\ ~d.sent_close /\ ~d.recv_close /\ ~d.status
    /\ d.exitsignal = "none"
    /\ d.pid <=> ok

LEMMA SpawnFacts ==
    ASSUME NEW c, c = Accepted
    PROVE  /\ Spawned(c, c, FALSE)
           /\ Spawned(c, [c EXCEPT !.pid = TRUE, !.wfd["in"] = "open",
                                   !.rfd = [s \in DOMAIN @ |->
                                              IF Pty /\ s = "err" THEN "closed" ELSE "open"]], TRUE)
<1>1. Fresh("svr", c) /\ c.open
  <2> DEFINE x == Channel("svr")
             s == "svr"
  <2>1. Fresh(s, x) /\ s \in Ends
    BY ChannelFresh, StreamFacts
  <2>2. c = Widen(x, Window)
    BY DEF Accepted, Widen
  <2> HIDE DEF x, s
  <2>3. Fresh(s, c) /\ c.open
    BY <2>1, <2>2, Widened, Constants
  <2> QED
    BY <2>3 DEF s
<1>2. c \in ChannelType("svr") /\ c.out = <<>>
      /\ ~c.sent_eof /\ ~c.recv_eof /\ ~c.sent_close /\ ~c.recv_close /\ ~c.pid /\ ~c.status
      /\ c.exitsignal = "none"
  BY <1>1 DEF Fresh
<1>3. Spawned(c, c, FALSE)
  BY <1>1, <1>2 DEF Spawned
<1>4. ASSUME NEW d, d = [c EXCEPT !.pid = TRUE, !.wfd["in"] = "open",
                                  !.rfd = [s \in DOMAIN @ |->
                                             IF Pty /\ s = "err" THEN "closed" ELSE "open"]]
      PROVE  Spawned(c, d, TRUE)
  <2> DEFINE x == [c.wfd EXCEPT !["in"] = "open"]
             y == [s \in DOMAIN c.rfd |-> IF Pty /\ s = "err" THEN "closed" ELSE "open"]
  <2>1. x \in [WriteStreams("svr") -> Fds] /\ y \in [ReadStreams("svr") -> Fds]
    BY <1>2 DEF ChannelType, Fds
  <2>2. d = [c EXCEPT !.pid = TRUE, !.wfd = x, !.rfd = y]
    BY <1>2, <1>4 DEF ChannelType
  <2> HIDE DEF x, y
  <2>3. d \in ChannelType("svr")
    BY <1>2, <2>1, <2>2 DEF ChannelType
  <2>4. /\ d.out = c.out /\ d.transwindow = c.transwindow /\ d.recvwindow = c.recvwindow
        /\ d.recvdonelen = c.recvdonelen /\ d.buf = c.buf /\ d.open = c.open
        /\ d.sent_eof = c.sent_eof /\ d.recv_eof = c.recv_eof /\ d.sent_close = c.sent_close
        /\ d.recv_close = c.recv_close /\ d.status = c.status
        /\ d.exitsignal = c.exitsignal /\ d.pid
    BY <1>2, <2>2 DEF ChannelType
  <2> QED
    BY <1>1, <1>2, <2>3, <2>4 DEF Spawned
<1> QED
  BY <1>3, <1>4

(* The step of the server, whether the command starts or not.              *)
LEMMA Spawning ==
    ASSUME SessionInv, NEW ok \in BOOLEAN, NEW d, recv_msg("svr", "EXEC"),
           Spawned(chan["svr"], d, ok), Handled("svr", {d}),
           command' = IF ok THEN "running" ELSE "failed",
           reader' = [reader EXCEPT !["in"] = ok],
           UNCHANGED <<pipe, written, ended, got>>
    PROVE  SessionInv'
<1> DEFINE e == "svr"
           b == chan["cli"]
           c == chan[e]
           q == net[e]
           r == Tail(q)
<1>1. command = "none" /\ Requested /\ Types /\ e \in Ends /\ "cli" \in Ends
      /\ Peer(e) = "cli" /\ Peer("cli") = e
  BY OpeningPhase, StreamFacts DEF Openings, SessionInv
<1>2. c = Accepted /\ net["cli"] = <<>> /\ q \in Seq(Packets) /\ q # <<>> /\ q[1].type = "EXEC"
      /\ \A i \in 2 .. Len(q) : q[i].type \notin Openings
  BY <1>1 DEF Requested, Types
<1>3. Head(q).type = "EXEC" /\ Head(q) \in Packets
  BY <1>2
<1>4. r \in Seq(Packets) /\ DataIn(r) = DataIn(q) - DataOf(Head(q))
      /\ CreditIn(r) = CreditIn(q) - CreditOf(Head(q))
  BY <1>2, QueueFacts
<1>5. DataIn(r) = DataIn(q) /\ CreditIn(r) = CreditIn(q)
  <2>1. DataOf(Head(q)) = 0 /\ CreditOf(Head(q)) = 0
    BY <1>3, PacketFacts
  <2>2. DataIn(q) \in Nat /\ CreditIn(q) \in Nat
    BY <1>2, QueueFacts
  <2> QED
    BY <1>4, <2>1, <2>2
<1>6. \A i \in 1 .. Len(r) : r[i].type \notin Openings
  <2>1. Len(r) = Len(q) - 1 /\ Len(q) \in Nat /\ \A i \in 1 .. Len(r) : r[i] = q[i + 1]
    BY <1>2
  <2> HIDE DEF r
  <2> QED
    BY <1>2, <2>1
<1>7. /\ d \in ChannelType(e) /\ d.out = <<>> /\ d.transwindow = c.transwindow
      /\ d.recvwindow = c.recvwindow /\ d.recvdonelen = c.recvdonelen /\ d.buf = c.buf
      /\ d.open /\ ~d.sent_eof /\ ~d.recv_eof /\ ~d.sent_close /\ ~d.recv_close /\ ~d.status
      /\ d.exitsignal = "none"
      /\ d.pid <=> ok
  BY DEF Spawned
<1>8. /\ chan' = [chan EXCEPT ![e] = d] /\ UNCHANGED fatal
      /\ net' = [net EXCEPT ![e] = r, ![Peer(e)] = net["cli"]]
  <2>1. c.open
    BY <1>1, <1>2, <1>3, Opened
  <2>2. Consumed(e, {d})
    BY <2>1 DEF Handled
  <2>3. /\ chan' = [chan EXCEPT ![e] = [d EXCEPT !.out = <<>>]]
        /\ net' = [net EXCEPT ![e] = Tail(@), ![Peer(e)] = @ \o d.out] /\ UNCHANGED fatal
    BY <2>2 DEF Consumed
  <2>4. [d EXCEPT !.out = <<>>] = d
    BY <1>7 DEF ChannelType
  <2>5. net["cli"] \o d.out = net["cli"]
    BY <1>2, <1>7
  <2> QED
    BY <1>1, <2>3, <2>4, <2>5 DEF Types
<1> HIDE DEF r
<1>9. /\ chan'[e] = d /\ chan'["cli"] = b /\ net'[e] = r /\ net'["cli"] = <<>>
  BY <1>1, <1>2, <1>8 DEF Types
<1>10. Types'
  <2>1. \A x \in Ends : /\ chan'[x] \in ChannelType(x) /\ chan'[x].out = <<>>
                        /\ ~chan'[x].status => chan'[x].exitsignal = "none"
    BY <1>1, <1>7, <1>9, StreamFacts DEF Types
  <2>2. chan' \in [Ends -> UNION { ChannelType(x) : x \in Ends }]
    <3>1. chan' = [x \in Ends |-> chan'[x]]
      BY <1>1, <1>8 DEF Types
    <3> QED
      BY <2>1, <3>1
  <2>3. net' \in [Ends -> Seq(Packets)]
    BY <1>1, <1>4, <1>8 DEF Types
  <2>4. reader' \in [Streams -> BOOLEAN]
    BY <1>1 DEF Types
  <2>5. command' \in {"none", "failed", "running", "exited"}
    OBVIOUS
  <2> QED
    BY <1>1, <1>8, <2>1, <2>2, <2>3, <2>4, <2>5 DEF Types
<1>11. ~b.recv_eof /\ ~b.recv_close
  <2>1. ~c.sent_eof /\ ~c.sent_close
    BY <1>2 DEF Accepted, Channel
  <2>2. Received("cli")
    BY <1>1 DEF SessionInv, Protocol
  <2> QED
    BY <1>1, <2>1, <2>2 DEF Received
<1>12. Phase'
  <2>1. \A x \in Ends : \A i \in 1 .. Len(net'[x]) : net'[x][i].type \notin Openings
    <3>1. \A i \in 1 .. Len(net'["cli"]) : net'["cli"][i].type \notin Openings
      BY <1>9
    <3> QED
      BY <1>6, <1>9, <3>1, StreamFacts
  <2>2. Started'
    BY <1>7, <1>9, <2>1 DEF Started
  <2> QED
    BY <2>2 DEF Phase
<1>13. StatusKnown'
  BY <1>9, <1>11 DEF StatusKnown
<1>14. Sent(e, chan[e], net[Peer(e)], chan[Peer(e)].status)' /\ Received(e)' /\ Gone(e)'
  <2>1. Sent(e, d, <<>>, b.status)
    BY <1>7 DEF Sent
  <2>2. Sent(e, chan[e], net[Peer(e)], chan[Peer(e)].status)'
    BY <1>1, <1>9, <2>1
  <2> QED
    BY <1>7, <1>9, <2>2 DEF Received, Gone
<1>15. Sent("cli", chan["cli"], net[Peer("cli")], chan[Peer("cli")].status)'
       /\ Received("cli")' /\ Gone("cli")'
  <2>1. Sent("cli", b, q, c.status) /\ Gone("cli")
    BY <1>1 DEF SessionInv, Protocol
  <2>2. b \in ChannelType("cli") /\ c.status \in BOOLEAN /\ d.status \in BOOLEAN
        /\ (c.status => d.status)
    BY <1>1, <1>2, <1>7 DEF Types, Accepted, Channel, ChannelType
  <2>3. Sent("cli", b, r, d.status)
    BY <1>1, <1>2, <1>3, <2>1, <2>2, SentTail DEF r
  <2>4. Sent("cli", chan["cli"], net[Peer("cli")], chan[Peer("cli")].status)'
    BY <1>1, <1>9, <2>3
  <2>5. Received("cli")' /\ Gone("cli")'
    BY <1>9, <1>11, <2>1 DEF Received, Gone
  <2> QED
    BY <2>4, <2>5
<1>16. Balance(e)'
  <2>1. Full(e)
    <3>1. c.open
      BY <1>2 DEF Accepted, Channel
    <3> QED
      BY <1>1, <3>1 DEF Full
  <2>2. Sendable("cli") = c.recvwindow /\ Backed(c) = Window /\ c.recvdonelen < WindowExtend
    BY <1>1, <2>1 DEF SessionInv, Balance
  <2>3. Sendable("cli")' = Sendable("cli")
    BY <1>1, <1>2, <1>5, <1>9 DEF Sendable
  <2>4. Backed(d) = Backed(c)
    <3>1. c \in ChannelType(e)
      BY <1>1 DEF Types
    <3> QED
      BY <1>1, <1>7, <3>1, BufferedFacts DEF Backed
  <2>5. c.recvwindow \in Int /\ Window \in Nat
    BY <1>1, Idle, BackedType, Constants
  <2> QED
    BY <1>1, <1>7, <1>9, <2>2, <2>3, <2>4, <2>5 DEF Balance
<1>17. Balance("cli")'
  <2>1. Balance("cli")
    BY <1>1 DEF SessionInv
  <2>2. Sendable(e)' = Sendable(e)
    BY <1>1, <1>2, <1>5, <1>7, <1>9 DEF Sendable
  <2>3. Full("cli")' => Full("cli")
    BY <1>9 DEF Full
  <2> QED
    BY <1>1, <1>9, <2>1, <2>2, <2>3 DEF Balance
<1> QED
  BY <1>10, <1>12, <1>13, <1>14, <1>15, <1>16, <1>17, StreamFacts DEF SessionInv, Protocol

LEMMA DoCommand ==
    ASSUME SessionInv, NEW ok \in BOOLEAN, sessioncommand(ok)
    PROVE  SessionInv'
<1> DEFINE c == chan["svr"]
           f == [c EXCEPT !.pid = TRUE, !.wfd["in"] = "open",
                          !.rfd = [s \in DOMAIN @ |->
                                     IF Pty /\ s = "err" THEN "closed" ELSE "open"]]
           d == IF ok THEN f ELSE c
<1>1. /\ recv_msg("svr", "EXEC")
      /\ command' = IF ok THEN "running" ELSE "failed"
      /\ reader' = [reader EXCEPT !["in"] = ok]
      /\ UNCHANGED <<pipe, written, ended, got>>
  BY DEF sessioncommand
<1>2. IF ok THEN Handled("svr", {f}) ELSE Handled("svr", {c})
  BY DEF sessioncommand
<1>3. c = Accepted
  BY <1>1, OpeningPhase, StreamFacts DEF Openings, Requested
<1>4. Spawned(c, c, FALSE) /\ Spawned(c, f, TRUE)
  BY <1>3, SpawnFacts
<1> HIDE DEF f
<1>5. Handled("svr", {d}) /\ Spawned(c, d, ok)
  <2>1. CASE ok = TRUE
    BY <1>2, <1>4, <2>1
  <2>2. CASE ok = FALSE
    BY <1>2, <1>4, <2>2
  <2> QED
    BY <2>1, <2>2
<1> HIDE DEF d
<1> QED
  BY <1>1, <1>5, Spawning

-----------------------------------------------------------------------------
(* The programs, and the theorems.                                         *)

LEMMA ProgramStep ==
    ASSUME SessionInv, UNCHANGED <<chan, net, fatal>>,
           pipe' \in [Streams -> Seq(Nat)], written' \in [Streams -> Nat],
           ended' \in [Streams -> BOOLEAN], reader' \in [Streams -> BOOLEAN],
           got' \in [Streams -> Seq(Nat)],
           command' = command \/ (command = "running" /\ command' = "exited")
    PROVE  SessionInv'
<1>1. Types'
  BY DEF SessionInv, Types
<1>2. command' = "none" <=> command = "none"
  OBVIOUS
<1>3. Asked' = Asked /\ Confirmed' = Confirmed /\ Requested' = Requested
  BY DEF Asked, Confirmed, Requested, Accepted, Channel
<1>4. Started => Started'
  BY DEF Started
<1>5. Phase'
  BY <1>2, <1>3, <1>4 DEF SessionInv, Protocol, Phase
<1>6. StatusKnown'
  BY DEF SessionInv, Protocol, StatusKnown
<1>7. ASSUME NEW e \in Ends
      PROVE  (Sent(e, chan[e], net[Peer(e)], chan[Peer(e)].status) /\ Received(e) /\ Gone(e))'
  <2>1. Sent(e, chan[e], net[Peer(e)], chan[Peer(e)].status) /\ Received(e) /\ Gone(e)
    BY DEF SessionInv, Protocol
  <2>2. Gone(e)'
    BY <1>2, <1>3, <2>1 DEF Gone
  <2>3. Received(e)'
    BY <2>1 DEF Received
  <2> QED
    BY <2>1, <2>2, <2>3
<1>8. ASSUME NEW e \in Ends PROVE Balance(e)'
  <2>1. Balance(e)
    BY DEF SessionInv
  <2>2. Full(e)' => Full(e)
    BY <1>2 DEF Full
  <2>3. Sendable(Peer(e))' = Sendable(Peer(e))
    BY DEF Sendable
  <2> QED
    BY <2>1, <2>2, <2>3 DEF Balance
<1> QED
  BY <1>1, <1>5, <1>6, <1>7, <1>8 DEF SessionInv, Protocol

LEMMA DoPrograms ==
    ASSUME SessionInv, Programs \/ UNCHANGED vars
    PROVE  SessionInv'
<1>1. /\ pipe \in [Streams -> Seq(Nat)] /\ written \in [Streams -> Nat]
      /\ ended \in [Streams -> BOOLEAN] /\ reader \in [Streams -> BOOLEAN]
      /\ got \in [Streams -> Seq(Nat)]
  BY DEF SessionInv, Types
<1>2. ASSUME NEW s \in Streams, ProgramWrites(s) PROVE SessionInv'
  <2>1. written[s] + 1 \in Nat
    BY <1>1
  <2>2. written' \in [Streams -> Nat]
    BY <1>1, <1>2, <2>1 DEF ProgramWrites
  <2>3. Append(pipe[s], written[s] + 1) \in Seq(Nat)
    BY <1>1, <2>1
  <2>4. pipe' \in [Streams -> Seq(Nat)]
    BY <1>1, <1>2, <2>3 DEF ProgramWrites
  <2> QED
    BY <1>1, <1>2, <2>2, <2>4, ProgramStep DEF ProgramWrites
<1>3. ASSUME NEW s \in Streams, ProgramEnds(s) PROVE SessionInv'
  <2>1. ended' \in [Streams -> BOOLEAN]
    BY <1>1, <1>3 DEF ProgramEnds
  <2> QED
    BY <1>1, <1>3, <2>1, ProgramStep DEF ProgramEnds
<1>4. ASSUME NEW s \in Streams, ReaderLeaves(s) PROVE SessionInv'
  <2>1. reader' \in [Streams -> BOOLEAN]
    BY <1>1, <1>4 DEF ReaderLeaves
  <2> QED
    BY <1>1, <1>4, <2>1, ProgramStep DEF ReaderLeaves
<1>5. ASSUME NEW held, CommandExits(held) PROVE SessionInv'
  <2>1. reader' \in [Streams -> BOOLEAN] /\ ended' \in [Streams -> BOOLEAN]
    BY <1>1, <1>5 DEF CommandExits
  <2> QED
    BY <1>1, <1>5, <2>1, ProgramStep DEF CommandExits
<1>6. CASE UNCHANGED vars
  BY <1>1, <1>6, ProgramStep DEF vars, env
<1> QED
  BY <1>2, <1>3, <1>4, <1>5, <1>6 DEF Programs

LEMMA SessionStep == SessionInv /\ [Next]_vars => SessionInv'
<1> SUFFICES ASSUME SessionInv, [Next]_vars PROVE SessionInv'
  OBVIOUS
<1>1. ASSUME NEW e \in Ends, Packet(e) PROVE SessionInv'
  BY <1>1, DoData, DoAdjust, DoClosing DEF Packet
<1>2. ASSUME NEW s \in Streams,
             ReadAndSend(s) \/ WriteError(s) \/ \E n \in 1 .. Window : WriteBuffered(s, n)
      PROVE  SessionInv'
  BY <1>2, DoRead, DoWriteError, DoWrite
<1>3. CASE recv_msg_channel_open
  BY <1>3, DoOpen
<1>4. CASE recv_msg_channel_open_confirmation
  BY <1>4, DoConfirm
<1>5. CASE sessioncommand(TRUE) \/ sessioncommand(FALSE)
  BY <1>5, DoCommand
<1>6. CASE cli_chansessreq
  BY <1>6, DoStatus
<1>7. CASE \E signal \in ExitSignals : svr_chansess_checksignal(signal)
  BY <1>7, DoSignal
<1>8. CASE Programs \/ UNCHANGED vars
  BY <1>8, DoPrograms
<1> QED
  BY <1>1, <1>2, <1>3, <1>4, <1>5, <1>6, <1>7, <1>8 DEF Next, Loop

(* The invariant of the session holds from the open packet on: what each   *)
(* end has sent, what it has been told and the sum of the windows agree.   *)
THEOREM SshSessionInvariant == Spec => []SessionInv
<1>1. Init => SessionInv
  BY InitFresh, FreshInv
<1> QED
  BY <1>1, SessionStep, PTL DEF Spec

LEMMA SessionTypes == SessionInv => TypeOK
<1>0. SessionInv => chan["svr"].exitsignal \in {"none", "named", "nameless"}
  BY StreamFacts DEF SessionInv, Types, ChannelType
<1> SUFFICES ASSUME SessionInv, NEW e \in Ends
             PROVE  /\ chan[e].transwindow \in 0 .. Window /\ chan[e].recvwindow \in 0 .. Window
                    /\ chan[e].recvdonelen \in 0 .. WindowExtend - 1
                    /\ chan[e].rfd \in [ReadStreams(e) -> Fds]
                    /\ chan[e].wfd \in [WriteStreams(e) -> Fds]
                    /\ \A s \in WriteStreams(e) : Len(chan[e].buf[s]) <= Window
  BY <1>0 DEF TypeOK, SessionInv, Types
<1> DEFINE c == chan[e]
           p == Peer(e)
           b == chan[p]
<1>1. p \in Ends /\ Peer(p) = e /\ c \in ChannelType(e) /\ b \in ChannelType(p)
  <2>1. p \in Ends /\ Peer(p) = e
    BY StreamFacts
  <2> QED
    BY <2>1, Idle
<1>2. /\ c.transwindow \in Nat /\ c.recvwindow \in Int /\ c.recvdonelen \in Nat
      /\ b.transwindow \in Nat /\ b.recvwindow \in Int /\ b.recvdonelen \in Nat
      /\ Buffered(c) \in Nat /\ Buffered(b) \in Nat
      /\ Window \in Nat /\ WindowExtend \in Nat
  BY <1>1, BackedType, BufferedFacts, Constants
<1>3. /\ DataIn(net[e]) \in Nat /\ CreditIn(net[e]) \in Nat
      /\ DataIn(net[p]) \in Nat /\ CreditIn(net[p]) \in Nat
  BY Idle, QueueFacts
<1>4. /\ b.transwindow + DataIn(net[e]) + CreditIn(net[p]) <= c.recvwindow
      /\ c.transwindow + DataIn(net[p]) + CreditIn(net[e]) <= b.recvwindow
      /\ c.recvwindow + c.recvdonelen + Buffered(c) <= Window
      /\ b.recvwindow + b.recvdonelen + Buffered(b) <= Window
      /\ c.recvdonelen < WindowExtend
  BY <1>1 DEF SessionInv, Balance, Sendable, Backed
<1>5. c.recvwindow \in 0 .. Window /\ c.transwindow \in 0 .. Window
      /\ c.recvdonelen \in 0 .. WindowExtend - 1 /\ Buffered(c) <= Window
  <2> HIDE DEF b, c, p
  <2>1. 0 <= c.recvwindow /\ c.recvwindow <= Window
    BY <1>2, <1>3, <1>4
  <2>2. b.recvwindow <= Window
    BY <1>2, <1>4
  <2>3. c.transwindow <= Window
    BY <1>2, <1>3, <1>4, <2>2
  <2>4. Buffered(c) <= Window
    BY <1>2, <1>4, <2>1
  <2> QED
    BY <1>2, <1>4, <2>1, <2>3, <2>4
<1>6. \A s \in WriteStreams(e) : Len(c.buf[s]) <= Window
  <2>1. ASSUME NEW s \in WriteStreams(e) PROVE Len(c.buf[s]) <= Window
    <3> DEFINE x == Len(c.buf[s])
    <3>1. x \in Nat /\ x <= Buffered(c)
      BY <1>1, BufferedFacts
    <3> HIDE DEF x
    <3>2. x <= Window
      BY <1>2, <1>5, <3>1
    <3> QED
      BY <3>2 DEF x
  <2> QED
    BY <2>1
<1> QED
  BY <1>1, <1>5, <1>6 DEF ChannelType

(* The type invariant: windows, counters and buffers of both ends stay     *)
(* within the window the program was started with.                         *)
THEOREM SshTypeOK == Spec => []TypeOK
BY SshSessionInvariant, SessionTypes, PTL

(* Two ends that run this code never meet a dropbear_exit or an assertion  *)
(* of the channel code, for every window, packet size and volume of data.  *)
THEOREM SshNeverFatal == Spec => []NeverFatal
<1>1. SessionInv => NeverFatal
  BY DEF SessionInv, Types, NeverFatal
<1> QED
  BY <1>1, SshSessionInvariant, PTL

(* Flow control: what one end may send is backed by the window and the     *)
(* buffers of the other, exactly so as long as nothing was dropped.        *)
THEOREM SshWindowConserved == Spec => []WindowConserved
<1>1. SessionInv => WindowConserved
  <2> SUFFICES ASSUME SessionInv, NEW e \in Ends, chan[e].open, chan[Peer(e)].open
               PROVE  LET c == chan[Peer(e)]
                          sendable == chan[e].transwindow + DataIn(net[Peer(e)]) + CreditIn(net[e])
                          backed == c.recvwindow + c.recvdonelen + Buffered(c)
                      IN  /\ sendable <= c.recvwindow /\ backed <= Window
                          /\ (\A s \in DOMAIN c.wfd : c.wfd[s] = "open") =>
                                sendable = c.recvwindow /\ backed = Window
    BY DEF WindowConserved
  <2> DEFINE p == Peer(e)
  <2>1. p \in Ends /\ Peer(p) = e
    BY StreamFacts
  <2>2. /\ Sendable(e) <= chan[p].recvwindow /\ Backed(chan[p]) <= Window
        /\ Full(p) => Sendable(e) = chan[p].recvwindow /\ Backed(chan[p]) = Window
    BY <2>1 DEF SessionInv, Balance
  <2>3. (\A s \in DOMAIN chan[p].wfd : chan[p].wfd[s] = "open") => Full(p)
    <3>1. chan[p] \in ChannelType(p)
      BY <2>1, Idle
    <3>2. DOMAIN chan[p].wfd = WriteStreams(p)
      BY <3>1 DEF ChannelType
    <3> QED
      BY <3>2 DEF Full
  <2> QED
    BY <2>2, <2>3 DEF Sendable, Backed
<1> QED
  BY <1>1, SshSessionInvariant, PTL

(* The exit status reaches the client before its channel is gone, whatever *)
(* order the exit, the end of the output and the close come in, unless a   *)
(* signal has ended the command, of which the client learns nothing.       *)
THEOREM SshStatusReported == Spec => []StatusReported
<1>1. SessionInv => StatusReported
  <2> SUFFICES ASSUME SessionInv, ~chan["cli"].open
               PROVE  \/ chan["cli"].status \/ command = "failed"
                      \/ chan["svr"].exitsignal # "none"
    BY DEF StatusReported
  <2>1. Gone("cli") /\ Received("cli") /\ StatusKnown /\ Phase
    BY StreamFacts DEF SessionInv, Protocol
  <2>2. chan["cli"].recv_close /\ chan["svr"].sent_close
    BY <2>1, StreamFacts DEF Gone, Received
  <2>3. command # "none"
    <3>1. ~Channel("svr").sent_close /\ ~Accepted.sent_close
      BY DEF Accepted, Channel
    <3> QED
      BY <2>1, <2>2, <3>1 DEF Phase, Asked, Confirmed, Requested
  <2> QED
    BY <2>1, <2>2, <2>3 DEF StatusKnown, Phase, Started
<1> QED
  BY <1>1, SshSessionInvariant, PTL

=============================================================================
