------------------------- MODULE SshRefinementProofs -------------------------
(***************************************************************************)
(* The session channel implements RemoteCommand: without a terminal, the   *)
(* programs at its ends are joined by three pipes, for every window,       *)
(* packet size and amount of data.                                         *)
(***************************************************************************)
EXTENDS SshSessionProofs

(* q holds the bytes of a stream that follow the first a.                  *)
Follows(q, a) == \A i \in 1 .. Len(q) : q[i] = a + i

Carries(m, s) == m.type = "DATA" /\ m.stream = s

(* From x to y bytes of stream s have come, with packet m.                 *)
Brings(m, s, x, y) ==
    IF Carries(m, s) THEN Follows(m.data, x) /\ y = x + Len(m.data) ELSE y = x

(* The packets q carry the bytes of stream s after the first a up to the   *)
(* z-th, in order: f[i] bytes have come with the first i packets.          *)
Spans(q, s, a, z) ==
    \E f \in [0 .. Len(q) -> Nat] :
        /\ f[0] = a /\ f[Len(q)] = z
        /\ \A i \in 1 .. Len(q) : Brings(q[i], s, f[i - 1], f[i])

(* A stream whose reader has the bytes g and, while it is live, is to be   *)
(* given the buffered bytes b, those in the packets q and those in the     *)
(* pipe p, of the w bytes written.                                         *)
FlowOf(s, live, g, b, q, p, w) ==
    /\ Follows(g, 0) /\ Len(g) <= w
    /\ Follows(p, w - Len(p)) /\ Len(p) <= w
    /\ live => Follows(b, Len(g)) /\ Spans(q, s, Len(g) + Len(b), w - Len(p))

Live(s) == reader[s] /\ chan[Receiver(s)].wfd[s] # "closed"

Flow(s) == FlowOf(s, Live(s), got[s], chan[Receiver(s)].buf[s], net[Receiver(s)],
                  pipe[s], written[s])

-----------------------------------------------------------------------------
(* Queues of packets.                                                      *)

LEMMA SpansMore ==
    ASSUME NEW q \in Seq(Packets), NEW r \in Seq(Packets), Len(q) <= Len(r), NEW s, NEW a, NEW z,
           \A i \in 1 .. Len(r) : \/ i <= Len(q) /\ r[i] = q[i]
                                  \/ i > Len(q) /\ ~Carries(r[i], s),
           Spans(q, s, a, z)
    PROVE  Spans(r, s, a, z)
<1>1. PICK f \in [0 .. Len(q) -> Nat] : f[0] = a /\ f[Len(q)] = z /\ \A i \in 1 .. Len(q) : Brings(q[i], s, f[i - 1], f[i])
  BY DEF Spans
<1>2. Len(q) \in Nat /\ Len(r) \in Nat
  OBVIOUS
<1> DEFINE g == [i \in 0 .. Len(r) |-> IF i <= Len(q) THEN f[i] ELSE f[Len(q)]]
<1>3. g \in [0 .. Len(r) -> Nat] /\ g[0] = a /\ g[Len(r)] = z
  BY <1>1, <1>2
<1>4. ASSUME NEW i \in 1 .. Len(r)
      PROVE  Brings(r[i], s, g[i - 1], g[i])
  <2>1. CASE i <= Len(q)
    <3>0. i \in 1 .. Len(q) /\ r[i] = q[i]
      BY <1>2, <2>1
    <3>1. r[i] = q[i] /\ i \in 1 .. Len(q) /\ g[i] = f[i] /\ g[i - 1] = f[i - 1]
      BY <1>2, <2>1, <3>0
    <3>2. Brings(q[i], s, f[i - 1], f[i])
      BY <1>1, <3>1
    <3> HIDE DEF g
    <3> QED
      BY <3>1, <3>2
  <2>2. CASE i > Len(q)
    <3>0. ~Carries(r[i], s)
      BY <1>2, <2>2
    <3>a. i \in 0 .. Len(r) /\ i - 1 \in 0 .. Len(r) /\ (i - 1 <= Len(q) => i - 1 = Len(q))
      BY <1>2, <2>2
    <3>1. ~Carries(r[i], s) /\ g[i] = f[Len(q)] /\ g[i - 1] = f[Len(q)]
      BY <1>2, <2>2, <3>0, <3>a
    <3> HIDE DEF g
    <3> QED
      BY <3>1 DEF Brings
  <2> QED
    BY <1>2, <2>1, <2>2
<1> HIDE DEF g
<1>5. \A i \in 1 .. Len(r) : Brings(r[i], s, g[i - 1], g[i])
  BY <1>4
<1> QED
  BY <1>3, <1>5 DEF Spans

LEMMA SpansAppend ==
    ASSUME NEW q \in Seq(Packets), NEW m \in Packets, NEW s, NEW a, NEW z,
           Spans(q, s, a, z), Carries(m, s), Follows(m.data, z)
    PROVE  Spans(Append(q, m), s, a, z + Len(m.data))
<1> DEFINE r == Append(q, m)
<1>1. PICK f \in [0 .. Len(q) -> Nat] : f[0] = a /\ f[Len(q)] = z /\ \A i \in 1 .. Len(q) : Brings(q[i], s, f[i - 1], f[i])
  BY DEF Spans
<1>2. /\ Len(q) \in Nat /\ Len(r) = Len(q) + 1 /\ r[Len(r)] = m
      /\ \A i \in 1 .. Len(q) : r[i] = q[i]
  OBVIOUS
<1>3. Len(m.data) \in Nat
  <2>1. m.data \in Seq(Nat)
    BY PacketFacts DEF Carries
  <2> QED
    BY <2>1
<1> HIDE DEF r
<1> DEFINE g == [i \in 0 .. Len(r) |-> IF i <= Len(q) THEN f[i] ELSE z + Len(m.data)]
<1>4. g \in [0 .. Len(r) -> Nat] /\ g[0] = a /\ g[Len(r)] = z + Len(m.data)
  BY <1>1, <1>2, <1>3
<1>5. ASSUME NEW i \in 1 .. Len(r)
      PROVE  Brings(r[i], s, g[i - 1], g[i])
  <2>1. CASE i <= Len(q)
    <3>0. i \in 1 .. Len(q) /\ r[i] = q[i]
      BY <1>2, <2>1
    <3>1. r[i] = q[i] /\ i \in 1 .. Len(q) /\ g[i] = f[i] /\ g[i - 1] = f[i - 1]
      BY <1>2, <2>1, <3>0
    <3>2. Brings(q[i], s, f[i - 1], f[i])
      BY <1>1, <3>1
    <3> HIDE DEF g
    <3> QED
      BY <3>1, <3>2
  <2>2. CASE i > Len(q)
    <3>1. i = Len(r) /\ r[i] = m /\ g[i] = z + Len(m.data) /\ g[i - 1] = z
      BY <1>1, <1>2, <2>2
    <3> HIDE DEF g
    <3> QED
      BY <3>1 DEF Brings
  <2> QED
    BY <1>2, <2>1, <2>2
<1> HIDE DEF g
<1>6. \A i \in 1 .. Len(r) : Brings(r[i], s, g[i - 1], g[i])
  BY <1>5
<1> QED
  BY <1>4, <1>6 DEF Spans, r

LEMMA SpansTail ==
    ASSUME NEW q \in Seq(Packets), q # <<>>, NEW s, NEW a, NEW z, Spans(q, s, a, z)
    PROVE  /\ Carries(Head(q), s) =>
                  Follows(Head(q).data, a) /\ Spans(Tail(q), s, a + Len(Head(q).data), z)
           /\ ~Carries(Head(q), s) => Spans(Tail(q), s, a, z)
<1> DEFINE r == Tail(q)
<1>1. PICK f \in [0 .. Len(q) -> Nat] : f[0] = a /\ f[Len(q)] = z /\ \A i \in 1 .. Len(q) : Brings(q[i], s, f[i - 1], f[i])
  BY DEF Spans
<1>2. /\ Len(q) \in Nat \ {0} /\ Len(r) = Len(q) - 1 /\ Head(q) = q[1]
      /\ \A i \in 1 .. Len(r) : r[i] = q[i + 1]
  OBVIOUS
<1> HIDE DEF r
<1> DEFINE g == [i \in 0 .. Len(r) |-> f[i + 1]]
<1>3. g \in [0 .. Len(r) -> Nat] /\ g[0] = f[1] /\ g[Len(r)] = z
  BY <1>1, <1>2
<1>4. ASSUME NEW i \in 1 .. Len(r)
      PROVE  Brings(r[i], s, g[i - 1], g[i])
  <2>1. /\ r[i] = q[i + 1] /\ i + 1 \in 1 .. Len(q) /\ g[i] = f[i + 1] /\ g[i - 1] = f[i]
        /\ (i + 1) - 1 = i
    BY <1>2
  <2>2. Brings(q[i + 1], s, f[(i + 1) - 1], f[i + 1])
    BY <1>1, <2>1
  <2> HIDE DEF g
  <2> QED
    BY <2>1, <2>2
<1> HIDE DEF g
<1>5. \A i \in 1 .. Len(r) : Brings(r[i], s, g[i - 1], g[i])
  BY <1>4
<1>6. Spans(r, s, f[1], z)
  BY <1>3, <1>5 DEF Spans
<1>7. Brings(q[1], s, f[0], f[1])
  <2>1. 1 \in 1 .. Len(q) /\ 1 - 1 = 0
    BY <1>2
  <2> QED
    BY <1>1, <2>1
<1> QED
  BY <1>1, <1>2, <1>6, <1>7 DEF Brings, r

(* The bytes under way are counted upwards.                                *)
LEMMA SpansUp ==
    ASSUME NEW q \in Seq(Packets), NEW s, NEW a, NEW z, Spans(q, s, a, z)
    PROVE  /\ a \in Nat /\ z \in Nat /\ a <= z
           /\ (\A i \in 1 .. Len(q) : ~Carries(q[i], s)) => a = z
<1>1. PICK f \in [0 .. Len(q) -> Nat] :
        /\ f[0] = a /\ f[Len(q)] = z
        /\ \A i \in 1 .. Len(q) :
             Brings(q[i], s, f[i - 1], f[i])
  BY DEF Spans
<1>2. Len(q) \in Nat
  OBVIOUS
<1>3. ASSUME NEW i \in 1 .. Len(q)
      PROVE  f[i - 1] <= f[i] /\ (~Carries(q[i], s) => f[i] = f[i - 1])
  <2>1. f[i] \in Nat /\ f[i - 1] \in Nat
    BY <1>2
  <2>2. CASE Carries(q[i], s)
    <3>1. q[i].data \in Seq(Nat)
      BY <2>2, PacketFacts DEF Carries
    <3>2. Len(q[i].data) \in Nat
      BY <3>1
    <3>3. f[i] = f[i - 1] + Len(q[i].data)
      BY <1>1, <2>2 DEF Brings
    <3> QED
      BY <2>1, <2>2, <3>2, <3>3
  <2>3. CASE ~Carries(q[i], s)
    BY <1>1, <2>1, <2>3 DEF Brings
  <2> QED
    BY <2>2, <2>3
<1> DEFINE none == \A i \in 1 .. Len(q) : ~Carries(q[i], s)
           Bad == { i \in 0 .. Len(q) : ~(a <= f[i] /\ (none => f[i] = a)) }
<1>4. a \in Nat /\ z \in Nat /\ 0 \in 0 .. Len(q) /\ Len(q) \in 0 .. Len(q)
  BY <1>1, <1>2
<1>5. Bad = {}
  <2> SUFFICES ASSUME Bad # {} PROVE FALSE
    OBVIOUS
  <2>1. PICK d \in Bad : \A e \in Bad : d <= e
    <3>1. Bad \subseteq Nat
      OBVIOUS
    <3> HIDE DEF Bad
    <3> QED
      BY <3>1, Least
  <2>2. d \in 0 .. Len(q) /\ ~(a <= f[d] /\ (none => f[d] = a))
    BY <2>1
  <2>3. d # 0
    BY <1>1, <1>4, <2>2
  <2>4. d \in 1 .. Len(q) /\ d - 1 \in 0 .. Len(q) /\ d - 1 \notin Bad
    BY <2>1, <2>2, <2>3
  <2>5. a <= f[d - 1] /\ (none => f[d - 1] = a)
    BY <2>4
  <2>6. f[d - 1] <= f[d] /\ (none => f[d] = f[d - 1])
    BY <1>3, <2>4
  <2>7. f[d] \in Nat /\ f[d - 1] \in Nat
    BY <2>4
  <2> HIDE DEF none
  <2> QED
    BY <1>4, <2>2, <2>5, <2>6, <2>7
<1>6. a <= f[Len(q)] /\ (none => f[Len(q)] = a)
  BY <1>4, <1>5
<1> QED
  BY <1>1, <1>4, <1>6

-----------------------------------------------------------------------------
(* What check_close does, and why.                                         *)

(* Only a server that knows the exit of its command reports a status.      *)
Mute(c) == c.status \/ \A i \in 1 .. Len(c.out) : c.out[i].type # "STATUS"

Flushes(e, c) == c.flushing \/ (e = "svr" /\ c.status)

(* Descriptors are closed by check_close when the peer has closed, when    *)
(* nothing more can come for them or, at the server, when its command has  *)
(* exited or was never started.                                            *)
Fades(e, c, x, u) ==
    /\ Mute(c) => Mute(x)
    /\ x.flushing => Flushes(e, c)
    /\ x.sent_close => c.sent_close \/ close_allowed(e, c)
    /\ \A s \in ReadStreams(e) :
         x.rfd[s] = c.rfd[s] \/ Coupled(e, c) \/ c.recv_close \/ (Flushes(e, c) /\ u[s] = <<>>)
    /\ \A s \in WriteStreams(e) :
         \/ x.wfd[s] = c.wfd[s]
         \/ e = "svr" /\ close_allowed(e, c)
         \/ /\ c.wfd[s] = "open" => c.buf[s] = <<>>
            /\ c.recv_eof \/ c.recv_close \/ c.wfd[Main(e)] = "closed"

LEMMA FlushFades ==
    ASSUME NEW e \in Ends, NEW c \in ChannelType(e), NEW u, NEW f, f = Flush(e, c, u)
    PROVE  /\ f.flushing => Flushes(e, c)
           /\ \A s \in ReadStreams(e) :
                f.rfd[s] = c.rfd[s] \/ (Flushes(e, c) /\ u[s] = <<>>)
           /\ Coupled(e, c) \/ f.wfd = c.wfd
BY DEF Flush, Flushes, ChannelType

LEMMA StdinFades ==
    ASSUME NEW e \in Ends, NEW c \in ChannelType(e), NEW g, g = CloseStdin(e, c)
    PROVE  /\ g.flushing = c.flushing
           /\ Coupled(e, c) \/ g.rfd = c.rfd
           /\ \A s \in WriteStreams(e) :
                \/ g.wfd[s] = c.wfd[s]
                \/ e = "svr" /\ close_allowed(e, c)
                \/ c.recv_eof /\ ~write_pending(c)
<1>1. CASE g = c
  BY <1>1
<1>2. CASE /\ g = CloseWrite(e, c, Main(e))
           /\ (c.recv_eof /\ ~write_pending(c)) \/ (e = "svr" /\ close_allowed(e, c))
  <2>1. g.flushing = c.flushing /\ (Coupled(e, c) \/ g.rfd = c.rfd)
    BY <1>2 DEF CloseWrite, ChannelType
  <2> QED
    BY <1>2, <2>1
<1> QED
  BY <1>1, <1>2 DEF CloseStdin

(* Neither EOF nor CLOSE is a status.                                      *)
LEMMA MutePut ==
    ASSUME NEW e \in Ends, NEW c \in ChannelType(e), Mute(c),
           NEW m \in Packets, m.type = "STATUS" => c.status,
           NEW x \in ChannelType(e), x.out = Append(c.out, m), x.status = c.status
    PROVE  Mute(x)
<1>1. c.out \in Seq(Packets)
  BY DEF ChannelType
<1> DEFINE q == c.out
           r == Append(q, m)
<1>2. /\ Len(r) = Len(q) + 1 /\ Len(q) \in Nat /\ r[Len(q) + 1] = m
      /\ \A i \in 1 .. Len(q) : r[i] = q[i]
  BY <1>1
<1>3. (\A i \in 1 .. Len(q) : q[i].type # "STATUS") /\ m.type # "STATUS"
        => \A i \in 1 .. Len(r) : r[i].type # "STATUS"
  <2> HIDE DEF q, r
  <2> QED
    BY <1>2
<1> QED
  BY <1>3 DEF Mute

LEMMA EofFades ==
    ASSUME NEW e \in Ends, NEW c \in ChannelType(e), NEW h, h = SendEof(c)
    PROVE  /\ h \in ChannelType(e) /\ (Mute(c) => Mute(h)) /\ h.flushing = c.flushing
           /\ h.rfd = c.rfd /\ h.wfd = c.wfd /\ h.buf = c.buf /\ h.sent_close = c.sent_close
           /\ h.pid = c.pid /\ h.status = c.status
<1>1. CASE h = c
  BY <1>1
<1>2. CASE h = send_msg_channel_eof(c)
  <2> DEFINE m == [type |-> "EOF"]
             p == Put(c, m)
  <2>1. m \in Packets /\ m.type = "EOF"
    BY DEF Packets, Farewells
  <2>2. p \in ChannelType(e) /\ p = [c EXCEPT !.out = Append(c.out, m)]
    <3>1. <<>> \in Seq(Packets)
      OBVIOUS
    <3> HIDE DEF m
    <3> QED
      BY <2>1, <3>1, PutFacts
  <2>3. h = [p EXCEPT !.sent_eof = TRUE]
    BY <1>2 DEF send_msg_channel_eof
  <2> DEFINE o == Append(c.out, m)
  <2> HIDE DEF p, o, m
  <2>4. h \in ChannelType(e)
    BY <2>2, <2>3 DEF ChannelType
  <2>5. /\ p.out = o /\ p.flushing = c.flushing
        /\ p.rfd = c.rfd /\ p.wfd = c.wfd /\ p.buf = c.buf /\ p.sent_close = c.sent_close
        /\ p.pid = c.pid /\ p.status = c.status
    BY <2>2 DEF ChannelType, o
  <2>6. /\ h.out = o /\ h.flushing = c.flushing
        /\ h.rfd = c.rfd /\ h.wfd = c.wfd /\ h.buf = c.buf /\ h.sent_close = c.sent_close
        /\ h.pid = c.pid /\ h.status = c.status
    BY <2>2, <2>3, <2>5 DEF ChannelType
  <2>7. Mute(c) => Mute(h)
    BY <2>1, <2>4, <2>6, MutePut DEF o
  <2> QED
    BY <2>4, <2>6, <2>7
<1> QED
  BY <1>1, <1>2 DEF SendEof

ShutAll(p) ==
    [p EXCEPT !.sent_eof = TRUE, !.sent_close = TRUE,
              !.rfd = [s \in DOMAIN @ |-> "closed"], !.wfd = [s \in DOMAIN @ |-> "closed"]]

LEMMA AllClosed ==
    ASSUME NEW e \in Ends, NEW p \in ChannelType(e), NEW x, x = ShutAll(p)
    PROVE  /\ x \in ChannelType(e)
           /\ x.out = p.out /\ x.flushing = p.flushing /\ x.status = p.status /\ x.sent_close
           /\ \A s \in ReadStreams(e) : x.rfd[s] = "closed"
           /\ \A s \in WriteStreams(e) : x.wfd[s] = "closed"
BY DEF ChannelType, Fds, ShutAll

LEMMA CloseFades ==
    ASSUME NEW e \in Ends, NEW c \in ChannelType(e), NEW x, x = send_msg_channel_close(e, c)
    PROVE  /\ x \in ChannelType(e) /\ (Mute(c) => Mute(x))
           /\ x.flushing = c.flushing /\ x.sent_close /\ x.status = c.status
           /\ \A s \in ReadStreams(e) : x.rfd[s] = "closed"
           /\ \A s \in WriteStreams(e) : x.wfd[s] = "closed"
<1> DEFINE st == [type |-> IF c.exitsignal = "none" THEN "STATUS" ELSE "SIGNAL"]
           m == [type |-> "CLOSE"]
           d == closehandler(e, c)
           p == Put(d, m)
<1>1. st \in Packets /\ m \in Packets /\ m.type = "CLOSE" /\ <<>> \in Seq(Packets)
  BY DEF Packets, Farewells
<1>2. d \in ChannelType(e) /\ (Mute(c) => Mute(d)) /\ d.flushing = c.flushing /\ d.status = c.status
  <2>1. CASE e = "svr" /\ c.status /\ c.exitsignal # "nameless"
    <3>1. d \in ChannelType(e) /\ d = [c EXCEPT !.out = Append(c.out, st)]
      <4>0. c.exitsignal \in {"none", "named"}
        BY <2>1 DEF ChannelType
      <4>1. d = Put(c, st)
        BY <2>1, <4>0 DEF closehandler
      <4> HIDE DEF st, d
      <4> QED
        BY <1>1, <4>1, PutFacts
    <3> HIDE DEF d, st
    <3>2. d.status = c.status /\ d.flushing = c.flushing
      BY <3>1 DEF ChannelType
    <3> QED
      BY <2>1, <3>1, <3>2 DEF Mute
  <2>2. CASE ~(e = "svr" /\ c.status /\ c.exitsignal # "nameless")
    BY <2>2 DEF closehandler
  <2> QED
    BY <2>1, <2>2
<1>3. x = ShutAll(p)
  BY DEF send_msg_channel_close, ShutAll
<1> HIDE DEF d, m
<1>4. p \in ChannelType(e) /\ p = [d EXCEPT !.out = Append(d.out, m)]
  BY <1>1, <1>2, PutFacts
<1> DEFINE o == Append(d.out, m)
<1> HIDE DEF p, o
<1>5. p.out = o /\ p.flushing = d.flushing /\ p.status = d.status
  BY <1>2, <1>4 DEF ChannelType, o
<1>a. p \in ChannelType(e)
  BY <1>4
<1>b. /\ x \in ChannelType(e)
      /\ x.out = p.out /\ x.flushing = p.flushing /\ x.status = p.status /\ x.sent_close
      /\ \A s \in ReadStreams(e) : x.rfd[s] = "closed"
      /\ \A s \in WriteStreams(e) : x.wfd[s] = "closed"
  BY <1>3, <1>a, AllClosed
<1>7. x.out = o /\ x.flushing = d.flushing /\ x.status = d.status
  BY <1>5, <1>b
<1>8. Mute(d) => Mute(x)
  BY <1>1, <1>2, <1>7, <1>b, MutePut DEF o
<1> QED
  BY <1>2, <1>7, <1>8, <1>b

LEMMA Fading ==
    ASSUME ~Pty, NEW e \in Ends, NEW c \in ChannelType(e), NEW u, NEW x \in check_close(e, c, u)
    PROVE  Fades(e, c, x, u)
<1> DEFINE f == Flush(e, c, u)
           g == CloseStdin(e, f)
           h == SendEof(g)
<1>1. \/ /\ f.recv_close /\ ~write_pending(f) /\ close_allowed(e, f)
         /\ x = remove_channel(IF f.sent_close THEN f ELSE send_msg_channel_close(e, f))
      \/ x = SendClose(e, h)
  BY DEF check_close
<1>2. /\ f \in ChannelType(e) /\ Kept(c, f) /\ f.out = c.out /\ f.sent_close = c.sent_close
      /\ f.flushing => Flushes(e, c)
      /\ \A s \in ReadStreams(e) : f.rfd[s] = c.rfd[s] \/ (Flushes(e, c) /\ u[s] = <<>>)
      /\ Coupled(e, c) \/ f.wfd = c.wfd
  <2>1. Shut(e, c, f)
    BY ShutFlush
  <2> HIDE DEF f
  <2>2. f = Flush(e, c, u)
    BY DEF f
  <2> QED
    BY <2>1, <2>2, FlushFades DEF Shut
<1>3. Coupled(e, f) = Coupled(e, c) /\ close_allowed(e, f) = close_allowed(e, c)
  BY <1>2 DEF Coupled, close_allowed, Kept
<1>0. Mute(c) => Mute(f)
  BY <1>2 DEF Mute, Kept
<1>c. DOMAIN c.wfd = WriteStreams(e) /\ DOMAIN f.wfd = WriteStreams(e)
  BY <1>2 DEF ChannelType
<1> HIDE DEF f
<1>4. CASE /\ f.recv_close /\ ~write_pending(f) /\ close_allowed(e, f)
           /\ x = remove_channel(IF f.sent_close THEN f ELSE send_msg_channel_close(e, f))
  <2> DEFINE k == IF f.sent_close THEN f ELSE send_msg_channel_close(e, f)
  <2>1. k \in ChannelType(e) /\ (Mute(f) => Mute(k)) /\ k.flushing = f.flushing
    BY <1>2, CloseFades
  <2>2. x = remove_channel(k)
    BY <1>4
  <2> HIDE DEF k
  <2>3. x.flushing = k.flushing /\ x.out = k.out /\ x.status = k.status
    BY <2>1, <2>2 DEF remove_channel, ChannelType
  <2>4. Mute(k) => Mute(x)
    BY <2>3 DEF Mute
  <2>5. c.recv_close
    BY <1>2, <1>4 DEF Kept
  <2>6. \A s \in WriteStreams(e) : f.wfd[s] = "open" => f.buf[s] = <<>>
    BY <1>4, <1>c DEF write_pending
  <2>7. ASSUME NEW s \in WriteStreams(e), ~(e = "svr" /\ close_allowed(e, c))
        PROVE  c.wfd[s] = "open" => c.buf[s] = <<>>
    <3>1. ~Coupled(e, c)
      BY <1>3, <1>4, <2>7 DEF Coupled, close_allowed
    <3> QED
      BY <1>2, <2>6, <3>1 DEF Kept
  <2> QED
    BY <1>0, <1>2, <1>3, <1>4, <2>1, <2>3, <2>4, <2>5, <2>7 DEF Fades
<1>5. CASE x = SendClose(e, h)
  <2>1. /\ g \in ChannelType(e) /\ Kept(f, g) /\ g.out = f.out /\ g.sent_close = f.sent_close
        /\ g.flushing = f.flushing /\ (Coupled(e, f) \/ g.rfd = f.rfd)
        /\ \A s \in WriteStreams(e) :
                \/ g.wfd[s] = f.wfd[s]
                \/ e = "svr" /\ close_allowed(e, f)
                \/ f.recv_eof /\ ~write_pending(f)
        /\ \A s \in WriteStreams(e) : g.wfd[s] \in {f.wfd[s], "closed"}
    <3>1. Shut(e, f, g)
      BY <1>2, ShutStdin
    <3>2. g = CloseStdin(e, f)
      OBVIOUS
    <3> HIDE DEF g
    <3> QED
      BY <1>2, <3>1, <3>2, StdinFades DEF Shut
  <2> HIDE DEF g
  <2>2. /\ h \in ChannelType(e) /\ (Mute(g) => Mute(h)) /\ h.flushing = g.flushing
        /\ h.rfd = g.rfd /\ h.wfd = g.wfd /\ h.buf = g.buf /\ h.sent_close = g.sent_close
        /\ h.pid = g.pid /\ h.status = g.status
    <3>1. h = SendEof(g)
      OBVIOUS
    <3> HIDE DEF h
    <3> QED
      BY <2>1, <3>1, EofFades
  <2> HIDE DEF h
  <2>3. /\ Mute(c) => Mute(h)
        /\ h.flushing => Flushes(e, c)
        /\ h.sent_close = c.sent_close /\ h.buf = c.buf
        /\ close_allowed(e, h) = close_allowed(e, c)
    <3>1. Mute(f) => Mute(g)
      BY <2>1 DEF Mute, Kept
    <3> QED
      BY <1>0, <1>2, <2>1, <2>2, <3>1 DEF Kept, close_allowed
  <2>4. \A s \in ReadStreams(e) :
            h.rfd[s] = c.rfd[s] \/ Coupled(e, c) \/ (Flushes(e, c) /\ u[s] = <<>>)
    BY <1>2, <1>3, <2>1, <2>2
  <2>5. ASSUME NEW s \in WriteStreams(e), ~(e = "svr" /\ close_allowed(e, c)), h.wfd[s] # c.wfd[s]
        PROVE  c.recv_eof /\ \A w \in WriteStreams(e) : c.wfd[w] = "open" => c.buf[w] = <<>>
    <3>1. ~Coupled(e, c)
      BY <2>5 DEF Coupled, close_allowed
    <3>2. f.wfd = c.wfd /\ f.buf = c.buf /\ f.recv_eof = c.recv_eof
      BY <1>2, <3>1 DEF Kept
    <3>3. g.wfd[s] # f.wfd[s]
      BY <2>2, <2>5, <3>2
    <3>4. f.recv_eof /\ ~write_pending(f)
      BY <1>3, <2>1, <2>5, <3>3
    <3> QED
      BY <1>c, <3>2, <3>4 DEF write_pending
  <2>6. CASE x = h
    BY <2>3, <2>4, <2>5, <2>6 DEF Fades
  <2>7. CASE /\ NothingToSend(h) /\ h.wfd[Main(e)] = "closed" /\ close_allowed(e, h)
             /\ ~write_pending(h) /\ x = send_msg_channel_close(e, h)
    <3>1. /\ Mute(h) => Mute(x)
          /\ x.flushing = h.flushing
          /\ \A s \in ReadStreams(e) : x.rfd[s] = "closed"
          /\ \A s \in WriteStreams(e) : x.wfd[s] = "closed"
      <4>1. h \in ChannelType(e) /\ x = send_msg_channel_close(e, h)
        BY <2>2, <2>7
      <4> QED
        BY <4>1, CloseFades
    <3>2. \A s \in ReadStreams(e) : x.rfd[s] = h.rfd[s]
      BY <2>2, <2>7, <3>1 DEF NothingToSend, ChannelType
    <3>3. ASSUME NEW s \in WriteStreams(e), ~(e = "svr" /\ close_allowed(e, c))
          PROVE  \/ x.wfd[s] = c.wfd[s]
                 \/ /\ c.wfd[s] = "open" => c.buf[s] = <<>>
                    /\ c.recv_eof \/ c.recv_close \/ c.wfd[Main(e)] = "closed"
      <4>1. Main(e) \in WriteStreams(e) /\ DOMAIN h.wfd = WriteStreams(e)
        BY <2>2, StreamFacts DEF ChannelType
      <4>2. c.recv_eof \/ c.wfd[Main(e)] = "closed"
        BY <2>5, <2>7, <3>3, <4>1
      <4>3. h.wfd[s] = "open" => c.buf[s] = <<>>
        BY <2>3, <2>7, <4>1 DEF write_pending
      <4>4. CASE h.wfd[s] = c.wfd[s]
        BY <4>2, <4>3, <4>4
      <4>5. CASE h.wfd[s] # c.wfd[s]
        BY <2>5, <3>3, <4>5
      <4> QED
        BY <4>4, <4>5
    <3> QED
      BY <2>3, <2>4, <2>7, <3>1, <3>2, <3>3 DEF Fades
  <2> QED
    BY <1>5, <2>6, <2>7 DEF SendClose
<1> QED
  BY <1>1, <1>4, <1>5

-----------------------------------------------------------------------------
(* The invariant of the refinement.                                        *)

(* The user no longer reads one of the two streams of the command.         *)
UserGone == \E s \in {"out", "err"} : ~reader[s]

Over(s) == ended[s] \/ (s # "in" /\ command \in {"failed", "exited"})

(* What has been read from a closed descriptor is all there is, or nobody  *)
(* is left to read it.                                                     *)
Sealed(s) ==
    chan[Sender(s)].rfd[s] = "closed" /\ (s = "in" \/ command # "none") =>
        (pipe[s] = <<>> /\ Over(s)) \/ UserGone \/ (s = "in" /\ ~reader["in"])

UserDone ==
    \A s \in {"out", "err"} : chan["cli"].wfd[s] = "closed" => chan["cli"].recv_eof \/ UserGone

(* The fate of the command, as both ends know it.                          *)
Fate ==
    /\ chan["svr"].status => command = "exited"
    /\ \A i \in 1 .. Len(net["cli"]) : net["cli"][i].type = "STATUS" => command = "exited"
    /\ command \in {"exited", "failed"} => ~reader["in"]
    /\ command = "none" => reader["in"]
    /\ ~chan["cli"].flushing
    /\ chan["svr"].flushing => chan["svr"].status
    /\ chan["svr"].sent_close => command \in {"exited", "failed"}
    /\ command \in {"none", "failed"} => \A s \in {"out", "err"} : pipe[s] = <<>>
    /\ command \in {"running", "exited"} => chan["svr"].wfd["in"] # "uninit"
    /\ \A s \in {"out", "err"} : chan["cli"].wfd[s] # "uninit"

RefInv ==
    /\ \A s \in Streams : Flow(s) /\ Sealed(s)
    /\ UserDone /\ Fate

-----------------------------------------------------------------------------
(* A step of one end.                                                      *)

(* The channel of end e is d before check_close: bytes have moved on, and  *)
(* a descriptor is closed where its program has gone or ended.             *)
Works(e, d) ==
    /\ d \in ChannelType(e)
    /\ d.pid = chan[e].pid /\ d.sent_close = chan[e].sent_close
    /\ d.flushing = chan[e].flushing /\ (chan[e].recv_eof => d.recv_eof)
    /\ Mute(d) /\ (chan[e].status => d.status) /\ (e = "svr" /\ d.status => command = "exited")
    /\ \A s \in ReadStreams(e) :
         /\ d.rfd[s] = chan[e].rfd[s] \/ (pipe'[s] = <<>> /\ Over(s))
         /\ got'[s] = got[s] /\ (pipe[s] = <<>> => pipe'[s] = <<>>)
         /\ FlowOf(s, Live(s), got[s], chan[Peer(e)].buf[s], net[Peer(e)] \o d.out,
                   pipe'[s], written[s])
    /\ \A s \in WriteStreams(e) :
         /\ d.wfd[s] = chan[e].wfd[s] \/ (d.wfd[s] = "closed" /\ ~reader[s])
         /\ pipe'[s] = pipe[s] /\ (got'[s] = got[s] \/ Live(s)) /\ Len(got[s]) <= Len(got'[s])
         /\ FlowOf(s, reader[s] /\ d.wfd[s] # "closed", got'[s], d.buf[s], net'[e],
                   pipe[s], written[s])

Moves(e, d, x, t) ==
    /\ SessionInv /\ SessionInv' /\ RefInv /\ e \in Ends /\ ~Pty
    /\ Works(e, d) /\ Closes(e, d, x, net[Peer(e)]) /\ Fades(e, d, x, pipe')
    /\ Stepped(e, x, t) /\ UNCHANGED <<written, ended, reader>>

LEMMA Moved ==
    ASSUME NEW e, NEW d, NEW x, NEW t, Moves(e, d, x, t)
    PROVE  /\ e \in Ends /\ Peer(e) \in Ends /\ Peer(e) # e /\ Peer(Peer(e)) = e
           /\ \A y \in Ends : y = e \/ y = Peer(e)
           /\ chan'[Peer(e)] = chan[Peer(e)]
           /\ net'[e] = net[e] \/ (net[e] # <<>> /\ net'[e] = Tail(net[e]))
           /\ chan'[e].rfd = x.rfd /\ chan'[e].wfd = x.wfd /\ chan'[e].buf = d.buf
           /\ chan'[e].pid = d.pid /\ chan'[e].status = d.status
           /\ chan'[e].recv_eof = d.recv_eof /\ chan'[e].recv_close = d.recv_close
           /\ chan'[e].sent_close = x.sent_close /\ chan'[e].flushing = x.flushing
           /\ command' = command /\ x.status = d.status
           /\ e = "svr" => command # "none" /\ (~d.pid => command = "failed")
<1>1. Types /\ e \in Ends /\ d \in ChannelType(e) /\ x \in ChannelType(e) /\ Stepped(e, x, t)
  BY DEF Moves, Works, Closes, SessionInv
<1>2. /\ Peer(e) \in Ends /\ Peer(e) # e /\ Peer(Peer(e)) = e
      /\ chan'[Peer(e)] = chan[Peer(e)]
      /\ chan'[e] = [x EXCEPT !.out = <<>>]
      /\ net'[e] = IF t = "none" THEN net[e] ELSE Tail(net[e])
      /\ \A y \in Ends : y = e \/ y = Peer(e)
  BY <1>1, SteppedFacts
<1>3. net'[e] = net[e] \/ (net[e] # <<>> /\ net'[e] = Tail(net[e]))
  BY <1>1, <1>2 DEF Stepped
<1>4. Kept(d, x)
  BY DEF Moves, Closes
<1> DEFINE f == chan'[e]
<1>5. f = [x EXCEPT !.out = <<>>]
  BY <1>2
<1> HIDE DEF f
<1>6. Kept(x, f) /\ f.rfd = x.rfd /\ f.wfd = x.wfd /\ f.sent_close = x.sent_close
  BY <1>1, <1>5, OutCleared
<1>7. f.flushing = x.flushing
  BY <1>1, <1>5 DEF ChannelType
<1>8. command' = command /\ (e = "svr" => command # "none")
  BY <1>1 DEF Stepped
<1>9. e = "svr" /\ ~d.pid => command = "failed"
  <2>1. command # "none" => Started
    BY DEF Moves, SessionInv, Protocol, Phase
  <2>2. d.pid = chan[e].pid
    BY DEF Moves, Works
  <2> QED
    BY <1>8, <2>1, <2>2 DEF Started
<1> QED
  BY <1>1, <1>2, <1>3, <1>4, <1>6, <1>7, <1>8, <1>9 DEF Kept, f

LEMMA MovedNet ==
    ASSUME NEW e, NEW d, NEW x, NEW t, Moves(e, d, x, t)
    PROVE  net'[Peer(e)] = net[Peer(e)] \o x.out
<1>1. Types /\ e \in Ends /\ x \in ChannelType(e) /\ Stepped(e, x, t)
  BY DEF Moves, Closes, SessionInv
<1> QED
  BY <1>1, SteppedFacts

(* The client has closed its output only after the end of it, or after a   *)
(* reader has gone.                                                        *)
LEMMA MovesUserDone ==
    ASSUME NEW e, NEW d, NEW x, NEW t, Moves(e, d, x, t)
    PROVE  UserDone'
<1>1. UserDone /\ UserGone' = UserGone
  BY DEF Moves, RefInv, UserGone
<1>2. CASE e = "svr"
  <2>1. chan'["cli"] = chan["cli"]
    BY <1>2, Moved, StreamFacts
  <2> QED
    BY <1>1, <2>1 DEF UserDone
<1>3. CASE e = "cli"
  <2> SUFFICES ASSUME NEW s \in {"out", "err"}, chan'["cli"].wfd[s] = "closed", ~UserGone
               PROVE  chan'["cli"].recv_eof
    BY <1>1 DEF UserDone
  <2>0. chan'[e].wfd = x.wfd /\ chan'[e].recv_eof = d.recv_eof /\ chan'[e].recv_close = d.recv_close
    BY Moved
  <2>1. /\ x.wfd[s] = "closed" /\ chan'[e].recv_eof = d.recv_eof /\ chan'[e].recv_close = d.recv_close
    BY <1>3, <2>0
  <2>2. WriteStreams(e) = {"out", "err"} /\ Main(e) = "out" /\ s \in WriteStreams(e)
    BY <1>3, StreamFacts DEF Main
  <2>3. \A w \in WriteStreams(e) : d.wfd[w] = chan[e].wfd[w]
    BY <2>2 DEF Moves, Works, UserGone
  <2>4. \A w \in WriteStreams(e) : chan[e].wfd[w] = "closed" => chan[e].recv_eof
    BY <1>1, <1>3, <2>2 DEF UserDone
  <2>5. chan[e].recv_eof => d.recv_eof
    BY DEF Moves, Works
  <2>6. d.recv_close => d.recv_eof
    <3>1. Received(e)'
      BY DEF Moves, SessionInv, Protocol
    <3> QED
      BY <2>1, <3>1 DEF Received
  <2>7. x.wfd[s] = d.wfd[s] \/ d.recv_eof \/ d.recv_close \/ d.wfd["out"] = "closed"
    BY <1>3, <2>2 DEF Moves, Fades
  <2> QED
    BY <1>3, <2>1, <2>2, <2>3, <2>4, <2>5, <2>6, <2>7
<1> QED
  BY <1>2, <1>3, Moved, StreamFacts

LEMMA MovesFate ==
    ASSUME NEW e, NEW d, NEW x, NEW t, Moves(e, d, x, t)
    PROVE  Fate'
<1>0. /\ chan'[Peer(e)] = chan[Peer(e)]
      /\ chan'[e].flushing = x.flushing /\ chan'[e].wfd = x.wfd /\ chan'[e].status = d.status
      /\ chan'[e].sent_close = x.sent_close /\ x.status = d.status
      /\ e = "svr" => command # "none" /\ (~d.pid => command = "failed")
  BY Moved
<1>1. Fate /\ command' = command /\ reader' = reader
  BY Moved DEF Moves, RefInv
<1>2. CASE e = "cli"
  <2>1. chan'["svr"] = chan["svr"] /\ chan'["cli"].flushing = x.flushing /\ chan'["cli"].wfd = x.wfd
    BY <1>0, <1>2, StreamFacts
  <2>2. ~x.flushing
    BY <1>1, <1>2 DEF Moves, Works, Fades, Flushes, Fate
  <2>3. \A s \in {"out", "err"} : pipe'[s] = pipe[s] /\ x.wfd[s] # "uninit"
    <3>1. WriteStreams(e) = {"out", "err"}
      BY <1>2, StreamFacts
    <3> QED
      BY <1>1, <1>2, <3>1 DEF Moves, Works, Closes, Fate
  <2>4. \A i \in 1 .. Len(net'["cli"]) : net'["cli"][i].type = "STATUS" => command = "exited"
    <3> DEFINE q == net["cli"]
               r == net'["cli"]
    <3>1. q \in Seq(Packets) /\ (r = q \/ (q # <<>> /\ r = Tail(q)))
      BY <1>2, Moved, Idle DEF Moves
    <3>2. \A i \in 1 .. Len(q) : q[i].type = "STATUS" => command = "exited"
      BY <1>1 DEF Fate
    <3> HIDE DEF q, r
    <3>3. CASE r = q
      BY <3>2, <3>3 DEF r
    <3>4. CASE q # <<>> /\ r = Tail(q)
      <4>1. Len(r) = Len(q) - 1 /\ Len(q) \in Nat /\ \A i \in 1 .. Len(r) : r[i] = q[i + 1]
        BY <3>1, <3>4
      <4>2. \A i \in 1 .. Len(r) : i + 1 \in 1 .. Len(q)
        BY <4>1
      <4> QED
        BY <3>2, <4>1, <4>2 DEF r
    <3> QED
      BY <3>1, <3>3, <3>4
  <2> QED
    BY <1>1, <2>1, <2>2, <2>3, <2>4 DEF Fate
<1>3. CASE e = "svr"
  <2>1. /\ chan'["cli"] = chan["cli"] /\ chan'["svr"].flushing = x.flushing
        /\ chan'["svr"].wfd = x.wfd /\ chan'["svr"].status = d.status
        /\ chan'["svr"].sent_close = x.sent_close /\ x.status = d.status
        /\ command # "none" /\ (~d.pid => command = "failed")
    BY <1>0, <1>3, StreamFacts
  <2>2. d.status => command = "exited"
    BY <1>3 DEF Moves, Works
  <2>3. x.flushing => d.status
    <3>1. /\ d.flushing = chan["svr"].flushing /\ (chan["svr"].status => d.status)
          /\ x.flushing => d.flushing \/ d.status
      BY <1>3 DEF Moves, Works, Fades, Flushes
    <3> QED
      BY <1>1, <3>1 DEF Fate
  <2>4. x.sent_close => command \in {"exited", "failed"}
    <3>1. d.sent_close = chan["svr"].sent_close /\ (x.sent_close => d.sent_close \/ ~d.pid \/ d.status)
      BY <1>3 DEF Moves, Works, Fades, close_allowed
    <3> QED
      BY <1>1, <2>1, <2>2, <3>1 DEF Fate
  <2>5. /\ \A s \in {"out", "err"} : pipe[s] = <<>> => pipe'[s] = <<>>
        /\ x.wfd["in"] \in {chan["svr"].wfd["in"], "closed"}
    <3>1. ReadStreams(e) = {"out", "err"} /\ WriteStreams(e) = {"in"}
      BY <1>3, StreamFacts
    <3> QED
      BY <1>3, <3>1 DEF Moves, Works, Closes
  <2>6. \A i \in 1 .. Len(net'["cli"]) : net'["cli"][i].type = "STATUS" => command = "exited"
    <3> DEFINE n == net["cli"]
               o == x.out
               r == n \o o
    <3>1. n \in Seq(Packets) /\ o \in Seq(Packets) /\ net'["cli"] = r
      <4>1. n \in Seq(Packets)
        BY Idle, StreamFacts DEF Moves
      <4>2. x \in ChannelType(e)
        BY DEF Moves, Closes
      <4>3. net'["cli"] = r
        <5>1. net'[Peer(e)] = net[Peer(e)] \o x.out
          BY MovedNet
        <5> QED
          BY <1>3, <5>1, StreamFacts
      <4> QED
        BY <4>1, <4>2, <4>3 DEF ChannelType
    <3>2. \A i \in 1 .. Len(n) : n[i].type = "STATUS" => command = "exited"
      BY <1>1 DEF Fate
    <3>3. \A i \in 1 .. Len(o) : o[i].type = "STATUS" => command = "exited"
      <4>1. Mute(x)
        BY DEF Moves, Works, Fades
      <4> QED
        BY <2>1, <2>2, <4>1 DEF Mute
    <3> HIDE DEF n, o
    <3>4. ASSUME NEW i \in 1 .. Len(r), r[i].type = "STATUS" PROVE command = "exited"
      <4>1. Len(n) \in Nat /\ Len(o) \in Nat /\ Len(r) = Len(n) + Len(o)
        BY <3>1
      <4>2. CASE i <= Len(n)
        <5>1. r[i] = n[i] /\ i \in 1 .. Len(n)
          BY <3>1, <4>1, <4>2
        <5> QED
          BY <3>2, <3>4, <5>1
      <4>3. CASE i > Len(n)
        <5>1. r[i] = o[i - Len(n)] /\ i - Len(n) \in 1 .. Len(o)
          BY <3>1, <4>1, <4>3
        <5> QED
          BY <3>3, <3>4, <5>1
      <4> QED
        BY <4>1, <4>2, <4>3
    <3> QED
      BY <3>1, <3>4
  <2> QED
    BY <1>1, <2>1, <2>2, <2>3, <2>4, <2>5, <2>6 DEF Fate
<1> QED
  BY <1>2, <1>3, Moved, StreamFacts

(* A server whose client has closed still reads its command only if the    *)
(* user has gone; a client whose server has closed writes for a command    *)
(* that is over.                                                           *)
LEMMA MovesClosed ==
    ASSUME NEW e, NEW d, NEW x, NEW t, Moves(e, d, x, t), chan'[e].recv_close,
           NEW s \in ReadStreams(e), chan[e].rfd[s] # "closed"
    PROVE  UserGone \/ (s = "in" /\ ~reader["in"])
<1>1. /\ Peer(e) \in Ends /\ Peer(Peer(e)) = e /\ e \in Ends
      /\ chan'[Peer(e)] = chan[Peer(e)]
  BY Moved
<1>2. chan[Peer(e)].sent_close
  <2>1. Received(e)'
    BY <1>1 DEF Moves, SessionInv, Protocol
  <2> QED
    BY <1>1, <2>1 DEF Received
<1>3. CASE e = "cli"
  <2>1. s = "in" /\ Peer(e) = "svr"
    BY <1>3, StreamFacts
  <2> QED
    BY <1>2, <2>1 DEF Moves, RefInv, Fate
<1>4. CASE e = "svr"
  <2>1. Peer(e) = "cli" /\ "out" \in WriteStreams("cli")
    BY <1>4, StreamFacts
  <2>2. Sent("cli", chan["cli"], net["svr"], chan["svr"].status) /\ Received("cli")
        /\ Sent("svr", chan["svr"], net["cli"], chan["cli"].status)
    BY <1>1, <1>4, <2>1, StreamFacts DEF Moves, SessionInv, Protocol
  <2>3. chan["cli"].wfd["out"] = "closed"
    BY <1>2, <2>1, <2>2 DEF Sent
  <2>4. ~chan["cli"].recv_eof
    BY <1>4, <2>2, StreamFacts DEF Received, Sent
  <2> QED
    BY <2>3, <2>4 DEF Moves, RefInv, UserDone
<1> QED
  BY <1>1, <1>3, <1>4, StreamFacts

LEMMA MovesSealed ==
    ASSUME NEW e, NEW d, NEW x, NEW t, Moves(e, d, x, t), NEW s \in Streams
    PROVE  Sealed(s)'
<1>1. /\ Peer(e) \in Ends /\ Peer(Peer(e)) = e /\ e \in Ends
      /\ chan'[Peer(e)] = chan[Peer(e)] /\ chan'[e].rfd = x.rfd
      /\ \A y \in Ends : y = e \/ y = Peer(e)
      /\ command' = command
      /\ e = "svr" => command # "none" /\ (~d.pid => command = "failed")
  BY Moved
<1>2. UserGone' = UserGone /\ Over(s)' = Over(s) /\ reader' = reader
  BY <1>1 DEF Moves, UserGone, Over
<1>3. Sealed(s) /\ Fate
  BY DEF Moves, RefInv
<1>4. CASE Sender(s) = Peer(e)
  <2>1. s \in WriteStreams(e)
    BY <1>1, <1>4 DEF WriteStreams, Receiver
  <2>2. pipe'[s] = pipe[s]
    BY <2>1 DEF Moves, Works
  <2> QED
    BY <1>1, <1>2, <1>3, <1>4, <2>2 DEF Sealed
<1>5. CASE Sender(s) = e
  <2>1. s \in ReadStreams(e)
    BY <1>5 DEF ReadStreams
  <2>2. SUFFICES ASSUME x.rfd[s] = "closed", s = "in" \/ command # "none"
                 PROVE  (pipe'[s] = <<>> /\ Over(s)) \/ UserGone \/ (s = "in" /\ ~reader["in"])
    BY <1>1, <1>2, <1>5 DEF Sealed
  <2>3. pipe[s] = <<>> => pipe'[s] = <<>>
    BY <2>1 DEF Moves, Works
  <2>4. CASE chan[e].rfd[s] = "closed"
    BY <1>3, <1>5, <2>2, <2>3, <2>4 DEF Sealed
  <2>5. CASE chan[e].rfd[s] # "closed"
    <3>1. d.rfd[s] = chan[e].rfd[s] \/ (pipe'[s] = <<>> /\ Over(s))
      BY <2>1 DEF Moves, Works
    <3>2. x.rfd[s] = d.rfd[s] \/ Coupled(e, d) \/ d.recv_close \/ (Flushes(e, d) /\ pipe'[s] = <<>>)
      BY <2>1 DEF Moves, Fades
    <3>3. CASE Coupled(e, d)
      <4>1. e = "svr" /\ command = "failed"
        BY <1>1, <3>3 DEF Coupled, Moves
      <4>2. s \in {"out", "err"}
        BY <2>1, <4>1, StreamFacts
      <4> QED
        BY <1>3, <2>3, <4>1, <4>2 DEF Fate, Over
    <3>4. CASE d.recv_close
      <4>1. chan'[e].recv_close
        <5>1. chan'[e].recv_close = d.recv_close
          BY Moved
        <5> QED
          BY <3>4, <5>1
      <4> QED
        BY <2>1, <2>5, <4>1, MovesClosed
    <3>5. CASE Flushes(e, d) /\ pipe'[s] = <<>>
      <4>1. d.flushing = chan[e].flushing /\ (e = "svr" /\ d.status => command = "exited")
            /\ (chan[e].status => d.status)
        BY DEF Moves, Works
      <4>2. e = "svr" /\ command = "exited"
        BY <1>1, <1>3, <3>5, <4>1, StreamFacts DEF Flushes, Fate
      <4>3. s # "in"
        BY <2>1, <4>2, StreamFacts
      <4> QED
        BY <3>5, <4>2, <4>3 DEF Over
    <3> QED
      BY <2>2, <2>5, <3>1, <3>2, <3>3, <3>4, <3>5
  <2> QED
    BY <2>4, <2>5
<1> QED
  BY <1>1, <1>4, <1>5, EndOf

LEMMA MovesFlow ==
    ASSUME NEW e, NEW d, NEW x, NEW t, Moves(e, d, x, t), NEW s \in Streams
    PROVE  Flow(s)'
<1>1. /\ Peer(e) \in Ends /\ Peer(Peer(e)) = e /\ e \in Ends
      /\ chan'[Peer(e)] = chan[Peer(e)] /\ chan'[e].wfd = x.wfd /\ chan'[e].buf = d.buf
      /\ \A y \in Ends : y = e \/ y = Peer(e)
  BY Moved
<1>2. reader' = reader /\ written' = written
  BY DEF Moves
<1>4. CASE Receiver(s) = Peer(e)
  <2>1. s \in ReadStreams(e)
    <3>1. Sender(s) \in Ends /\ Receiver(s) # Sender(s)
      BY EndOf, StreamFacts DEF Receiver
    <3> QED
      BY <1>1, <1>4, <3>1 DEF ReadStreams
  <2> DEFINE q == net[Peer(e)] \o d.out
             r == net[Peer(e)] \o x.out
             b == chan[Peer(e)].buf[s]
  <2>2. /\ got'[s] = got[s]
        /\ FlowOf(s, Live(s), got[s], b, q, pipe'[s], written[s])
    BY <2>1 DEF Moves, Works
  <2>3. Added(q, r)
    BY DEF Moves, Closes
  <2>4. q \in Seq(Packets)
    <3>1. net[Peer(e)] \in Seq(Packets) /\ d \in ChannelType(e)
      BY <1>1, Idle DEF Moves, Works
    <3> QED
      BY <3>1 DEF ChannelType
  <2>5. net'[Peer(e)] = r
    BY MovedNet
  <2>6. Live(s)' = Live(s)
    BY <1>1, <1>2, <1>4 DEF Live
  <2> HIDE DEF q, r, b
  <2>7. ASSUME NEW a, NEW z, Spans(q, s, a, z) PROVE Spans(r, s, a, z)
    <3>1. /\ r \in Seq(Packets) /\ Len(q) <= Len(r)
          /\ \A i \in 1 .. Len(r) : \/ i <= Len(q) /\ r[i] = q[i]
                                    \/ i > Len(q) /\ ~Carries(r[i], s)
      BY <2>3 DEF Added, Farewells, Carries
    <3> QED
      BY <2>4, <2>7, <3>1, SpansMore
  <2>8. FlowOf(s, Live(s), got[s], b, r, pipe'[s], written[s])
    BY <2>2, <2>7 DEF FlowOf
  <2>9. FlowOf(s, Live(s)', got'[s], chan'[Peer(e)].buf[s], net'[Peer(e)], pipe'[s], written'[s])
    BY <1>1, <1>2, <2>2, <2>5, <2>6, <2>8 DEF b
  <2> QED
    BY <1>4, <2>9 DEF Flow
<1>5. CASE Receiver(s) = e
  <2>1. s \in WriteStreams(e)
    BY <1>5 DEF WriteStreams
  <2>2. /\ pipe'[s] = pipe[s]
        /\ FlowOf(s, reader[s] /\ d.wfd[s] # "closed", got'[s], d.buf[s], net'[e], pipe[s], written[s])
    BY <2>1 DEF Moves, Works
  <2>3. Live(s)' => reader[s] /\ d.wfd[s] # "closed"
    <3>1. x.wfd[s] \in {d.wfd[s], "closed"}
      BY <2>1 DEF Moves, Closes
    <3> QED
      BY <1>1, <1>2, <1>5, <3>1 DEF Live
  <2>4. FlowOf(s, Live(s)', got'[s], d.buf[s], net'[e], pipe[s], written[s])
    BY <2>2, <2>3 DEF FlowOf
  <2>5. FlowOf(s, Live(s)', got'[s], chan'[e].buf[s], net'[e], pipe'[s], written'[s])
    BY <1>1, <1>2, <2>2, <2>4
  <2> QED
    BY <1>5, <2>5 DEF Flow
<1> QED
  BY <1>1, <1>4, <1>5, EndOf

LEMMA MovesRefInv ==
    ASSUME NEW e, NEW d, NEW x, NEW t, Moves(e, d, x, t)
    PROVE  RefInv'
BY MovesUserDone, MovesFate, MovesSealed, MovesFlow DEF RefInv

-----------------------------------------------------------------------------
(* The step of one end, seen by the programs.                              *)

(* A stream that is closed for a reader has come to its end, and the       *)
(* reader has all of it, unless the user has gone.                         *)
LEMMA MovesEof ==
    ASSUME NEW e, NEW d, NEW x, NEW t, Moves(e, d, x, t), NEW s \in WriteStreams(e),
           reader[s], chan[e].wfd[s] # "closed", x.wfd[s] = "closed"
    PROVE  (Over(s) /\ Len(got'[s]) = written[s]) \/ UserGone
<1>1. /\ Peer(e) \in Ends /\ Peer(Peer(e)) = e /\ e \in Ends
      /\ chan'[Peer(e)] = chan[Peer(e)] /\ chan'[e].wfd = x.wfd
      /\ chan'[e].recv_eof = d.recv_eof /\ chan'[e].recv_close = d.recv_close
      /\ e = "svr" => command # "none" /\ (~d.pid => command = "failed")
  BY Moved
<1>2. d.wfd[s] = chan[e].wfd[s] /\ d.wfd[s] # "closed"
  BY DEF Moves, Works
<1>3. Fate /\ SessionInv /\ d.sent_close = chan[e].sent_close /\ (e = "svr" /\ d.status => command = "exited")
  BY DEF Moves, RefInv, Works
<1>4. command \in {"none", "failed", "running", "exited"}
  BY <1>3 DEF SessionInv, Types
<1>5. ~(e = "svr" /\ close_allowed(e, d))
  <2> SUFFICES ASSUME e = "svr", close_allowed(e, d) PROVE FALSE
    OBVIOUS
  <2>1. s = "in"
    BY StreamFacts
  <2>2. d.sent_close \/ ~d.pid \/ d.status
    BY DEF close_allowed
  <2> QED
    BY <1>1, <1>3, <2>1, <2>2 DEF Fate
<1>6. chan[e].wfd[s] = "open"
  <2>1. chan[e].wfd[s] # "uninit"
    <3>1. CASE e = "cli"
      <4>1. s \in {"out", "err"}
        BY <3>1, StreamFacts
      <4> QED
        BY <1>3, <3>1, <4>1 DEF Fate
    <3>2. CASE e = "svr"
      <4>1. s = "in"
        BY <3>2, StreamFacts
      <4> QED
        BY <1>1, <1>3, <1>4, <3>2, <4>1 DEF Fate
    <3> QED
      BY <1>1, <3>1, <3>2, StreamFacts
  <2>2. chan[e] \in ChannelType(e)
    BY <1>1, <1>3, Idle
  <2>3. chan[e].wfd[s] \in Fds
    BY <2>2 DEF ChannelType
  <2> QED
    BY <2>1, <2>3 DEF Fds
<1>7. /\ d.buf[s] = <<>>
      /\ d.recv_eof \/ d.recv_close \/ d.wfd[Main(e)] = "closed"
  BY <1>2, <1>5, <1>6 DEF Moves, Fades
<1> SUFFICES ASSUME ~UserGone PROVE Over(s) /\ Len(got'[s]) = written[s]
  OBVIOUS
<1>8. chan'[e].recv_eof
  <2>1. CASE e = "cli"
    <3>1. UserDone' /\ UserGone' = UserGone
      BY MovesUserDone DEF Moves, UserGone
    <3> QED
      BY <1>1, <2>1, <3>1, StreamFacts DEF UserDone
  <2>2. CASE e = "svr"
    <3>1. Main(e) = s
      BY <2>2, StreamFacts DEF Main
    <3>2. d.recv_close => d.recv_eof
      <4>1. Received(e)'
        BY <1>1 DEF Moves, SessionInv, Protocol
      <4> QED
        BY <1>1, <4>1 DEF Received
    <3> QED
      BY <1>1, <1>2, <1>7, <3>1, <3>2
  <2> QED
    BY <1>1, <2>1, <2>2, StreamFacts
<1>9. /\ \A i \in 1 .. Len(net'[e]) : net'[e][i].type # "DATA"
      /\ chan[Peer(e)].sent_eof
  <2>1. Received(e)'
    BY <1>1 DEF Moves, SessionInv, Protocol
  <2> QED
    BY <1>1, <1>8, <2>1 DEF Received
<1>10. Sender(s) = Peer(e) /\ s \in ReadStreams(Peer(e)) /\ s \in Streams
  <2>1. s \in Streams /\ Receiver(s) = e
    BY DEF WriteStreams
  <2>2. Sender(s) \in Ends /\ Receiver(s) = Peer(Sender(s)) /\ s \in ReadStreams(Sender(s))
    BY <2>1, EndOf DEF Receiver
  <2> QED
    BY <2>1, <2>2, StreamFacts
<1>11. chan[Peer(e)].rfd[s] = "closed"
  <2>1. Sent(Peer(e), chan[Peer(e)], net[e], chan[e].status)
    BY <1>1, <1>3 DEF SessionInv, Protocol
  <2> QED
    BY <1>9, <1>10, <2>1 DEF Sent
<1>12. s = "in" \/ command # "none"
  <2>1. CASE e = "svr"
    BY <2>1, StreamFacts
  <2>2. CASE e = "cli" /\ command = "none"
    <3>1. Requested
      BY <2>2 DEF Moves, Stepped
    <3>2. ~Accepted.sent_eof
      BY DEF Accepted, Channel
    <3> QED
      BY <1>9, <2>2, <3>1, <3>2, StreamFacts DEF Requested
  <2> QED
    BY <1>1, <2>1, <2>2, StreamFacts
<1>13. pipe[s] = <<>> /\ Over(s)
  <2>1. Sealed(s)
    BY <1>10 DEF Moves, RefInv
  <2> QED
    BY <1>10, <1>11, <1>12, <2>1 DEF Sealed
<1>14. Len(got'[s]) = written[s]
  <2> DEFINE q == net'[e]
             g == got'[s]
             w == written[s]
  <2>1. Spans(q, s, Len(g) + Len(d.buf[s]), w - Len(pipe[s]))
    BY <1>2 DEF Moves, Works, FlowOf
  <2>2. q \in Seq(Packets) /\ g \in Seq(Nat) /\ w \in Nat
    BY <1>1, <1>10 DEF Moves, SessionInv, Types
  <2>3. Len(g) + Len(d.buf[s]) = Len(g) /\ w - Len(pipe[s]) = w
    BY <1>7, <1>13, <2>2
  <2>4. \A i \in 1 .. Len(q) : ~Carries(q[i], s)
    BY <1>9 DEF Carries
  <2> HIDE DEF q, g, w
  <2>5. Len(g) = w
    BY <2>1, <2>2, <2>3, <2>4, SpansUp
  <2> QED
    BY <2>5 DEF g, w
<1> QED
  BY <1>13, <1>14

LEMMA MovesReceive ==
    ASSUME NEW e, NEW d, NEW x, NEW t, Moves(e, d, x, t),
           chan'["cli"].status = chan["cli"].status
    PROVE  \E S \in SUBSET Streams : Command!Receive(S)
<1> DEFINE S == { s \in WriteStreams(e) : reader[s] /\ chan[e].wfd[s] # "closed" /\ x.wfd[s] = "closed" }
<1>1. /\ Peer(e) \in Ends /\ Peer(Peer(e)) = e /\ e \in Ends
      /\ chan'[Peer(e)] = chan[Peer(e)] /\ chan'[e].wfd = x.wfd
      /\ \A y \in Ends : y = e \/ y = Peer(e)
      /\ command' = command
  BY Moved
<1>2. /\ written' = written /\ ended' = ended /\ reader' = reader
      /\ got' \in [Streams -> Seq(Nat)] /\ got \in [Streams -> Seq(Nat)]
      /\ written \in [Streams -> Nat]
  BY DEF Moves, SessionInv, Types
<1>3. S \subseteq Streams /\ Command!Streams = Streams
  BY DEF WriteStreams, Command!Streams, Streams
<1>4. ASSUME NEW s \in Streams
      PROVE  /\ \E n \in Len(got[s]) .. written[s] : got'[s] = [i \in 1 .. n |-> i]
             /\ ~Live(s) => got'[s] = got[s]
  <2>1. Flow(s)'
    BY MovesFlow
  <2>2. Follows(got'[s], 0) /\ Len(got'[s]) <= written[s]
    BY <1>2, <2>1 DEF Flow, FlowOf
  <2>3. s \in ReadStreams(e) \/ s \in WriteStreams(e)
    BY <1>1, StreamFacts DEF Streams
  <2>4. (got'[s] = got[s] \/ Live(s)) /\ Len(got[s]) <= Len(got'[s])
    <3>1. Len(got[s]) \in Nat
      BY <1>2
    <3> QED
      BY <2>3, <3>1 DEF Moves, Works
  <2>5. got'[s] = [i \in 1 .. Len(got'[s]) |-> i] /\ Len(got'[s]) \in Len(got[s]) .. written[s]
    <3> DEFINE g == got'[s]
               a == got[s]
               w == written[s]
    <3>1. g \in Seq(Nat) /\ a \in Seq(Nat) /\ w \in Nat
      BY <1>2
    <3>2. Follows(g, 0) /\ Len(g) <= w /\ Len(a) <= Len(g)
      BY <2>2, <2>4
    <3> HIDE DEF g, a, w
    <3>3. \A i \in 1 .. Len(g) : g[i] = i
      BY <3>1, <3>2 DEF Follows
    <3>4. g = [i \in 1 .. Len(g) |-> g[i]]
      BY <3>1
    <3>5. Len(g) \in Len(a) .. w
      BY <3>1, <3>2
    <3> QED
      BY <3>3, <3>4, <3>5 DEF g, a, w
  <2> QED
    BY <2>4, <2>5
<1>5. \A s \in S : (Over(s) /\ Len(got'[s]) = written[s]) \/ UserGone
  BY MovesEof
<1>6. ASSUME NEW s \in Streams
      PROVE  /\ (IF ~reader[s] THEN "gone" ELSE IF chan'[Receiver(s)].wfd[s] = "closed" THEN "eof" ELSE "reading")
                = (IF s \in S THEN "eof" ELSE IF ~reader[s] THEN "gone"
                   ELSE IF chan[Receiver(s)].wfd[s] = "closed" THEN "eof" ELSE "reading")
             /\ s \in S => reader[s] /\ chan[Receiver(s)].wfd[s] # "closed"
  <2>1. CASE Receiver(s) = e
    <3>1. s \in WriteStreams(e)
      BY <2>1 DEF WriteStreams
    <3>2. /\ x.wfd[s] \in {d.wfd[s], "closed"}
          /\ d.wfd[s] = chan[e].wfd[s] \/ d.wfd[s] = "closed"
      BY <3>1 DEF Moves, Closes, Works
    <3> QED
      BY <1>1, <2>1, <3>1, <3>2
  <2>2. CASE Receiver(s) = Peer(e)
    <3>1. s \notin WriteStreams(e)
      BY <1>1, <2>2, StreamFacts DEF WriteStreams
    <3> QED
      BY <1>1, <2>2, <3>1
  <2> QED
    BY <1>1, <2>1, <2>2, EndOf
<1> HIDE DEF S
<1>7. PICK T \in SUBSET Streams : T = S
  BY <1>3
<1> DEFINE E == [s \in Streams |-> ended[s] \/ (s # "in" /\ command \in {"failed", "exited"})]
           R == [s \in Streams |-> IF ~reader[s] THEN "gone"
                                   ELSE IF chan[Receiver(s)].wfd[s] = "closed" THEN "eof"
                                   ELSE "reading"]
<1>8. \A s \in Streams :
         /\ \E n \in Len(got[s]) .. written[s] : got'[s] = [i \in 1 .. n |-> i]
         /\ R[s] # "reading" => got'[s] = got[s]
  BY <1>4 DEF Live
<1>9. ASSUME NEW s \in T
      PROVE  /\ R[s] = "reading"
             /\ (E[s] /\ Len(got'[s]) = written[s]) \/ \E y \in {"out", "err"} : R[y] = "gone"
  <2>1. s \in S /\ s \in Streams
    BY <1>3, <1>7
  <2>2. R[s] = "reading"
    BY <1>6, <2>1
  <2>3. Over(s) => E[s]
    BY <2>1 DEF Over
  <2>4. UserGone => \E y \in {"out", "err"} : R[y] = "gone"
    BY DEF UserGone, Streams
  <2> HIDE DEF R, E
  <2> QED
    BY <1>5, <2>1, <2>2, <2>3, <2>4
<1>10. R' = [s \in Streams |-> IF s \in T THEN "eof" ELSE R[s]]
  BY <1>2, <1>6, <1>7
<1>11. E' = E /\ (command' = "exited") = (command = "exited")
  BY <1>1, <1>2
<1>12. Command!Receive(T)
  BY <1>2, <1>3, <1>8, <1>9, <1>10, <1>11 DEF Command!Receive, Command!Cut
<1> QED
  BY <1>12

(* The step is one of the pipes, and keeps the invariant.                  *)
Advances == RefInv' /\ [Command!Next]_(Command!vars)

LEMMA MovesAdvances ==
    ASSUME NEW e, NEW d, NEW x, NEW t, Moves(e, d, x, t),
           chan'["cli"].status = chan["cli"].status
    PROVE  Advances
<1>1. RefInv'
  BY MovesRefInv
<1>2. \E S \in SUBSET Streams : Command!Receive(S)
  BY MovesReceive
<1>3. Command!Streams = Streams
  BY DEF Command!Streams, Streams
<1>4. Command!Next
  BY <1>2, <1>3 DEF Command!Next
<1> QED
  BY <1>1, <1>4 DEF Advances

LEMMA MovesQuietly ==
    ASSUME NEW e, NEW d, NEW x, NEW t, Moves(e, d, x, t), d.status = chan[e].status
    PROVE  Advances
<1>1. \A y \in Ends : chan'[y].status = chan[y].status
  BY Moved
<1>2. chan'["cli"].status = chan["cli"].status
  BY <1>1 DEF Ends
<1> QED
  BY <1>2, MovesAdvances

(* The step of end e ends with check_close, or as it is.                   *)
LEMMA MovesOn ==
    ASSUME SessionInv, SessionInv', RefInv, ~Pty, NEW e \in Ends, NEW d, NEW x, NEW t,
           Works(e, d), Sound(e, d, net[Peer(e)], chan[Peer(e)].status),
           x = d \/ x \in check_close(e, d, pipe'),
           Stepped(e, x, t), UNCHANGED <<written, ended, reader>>
    PROVE  Moves(e, d, x, t)
<1> DEFINE n == net[Peer(e)]
           told == chan[Peer(e)].status
           u == pipe'
<1>1. told \in BOOLEAN /\ n \in Seq(Packets)
  BY Idle
<1>2. d \in ChannelType(e) /\ Sound(e, d, n, told)
  BY DEF Works
<1>3. Closes(e, d, x, n) /\ Fades(e, d, x, u)
  <2> HIDE DEF n, told, u
  <2>1. CASE x \in check_close(e, d, u)
    BY <1>1, <1>2, <2>1, CheckClose, Fading
  <2>2. CASE x = d
    <3>1. Shut(e, d, d)
      BY <1>2 DEF Shut, Kept
    <3>2. Closes(e, d, d, n)
      BY <1>1, <1>2, <3>1, StageShut
    <3>3. Fades(e, d, d, u)
      BY DEF Fades, Flushes
    <3> QED
      BY <2>2, <3>2, <3>3
  <2> QED
    BY <2>1, <2>2 DEF u
<1> QED
  BY <1>3 DEF Moves

(* Before check_close, only flags and descriptors of channel d of end e    *)
(* have changed: a descriptor is closed when its program has gone.         *)
Calm(e, d, t) ==
    /\ Turns(e, chan[e], d, t) /\ d.out = <<>>
    /\ d.flushing = chan[e].flushing /\ d.buf = chan[e].buf
    /\ e = "svr" /\ d.status => command = "exited"
    /\ \A s \in ReadStreams(e) : d.rfd[s] = chan[e].rfd[s] \/ (pipe[s] = <<>> /\ Over(s))
    /\ \A s \in WriteStreams(e) : d.wfd[s] = chan[e].wfd[s] \/ ~reader[s]
    /\ t = "DATA" => LET s == Head(net[e]).stream IN ~(reader[s] /\ d.wfd[s] # "closed")

LEMMA CalmMoves ==
    ASSUME SessionInv, SessionInv', RefInv, ~Pty, NEW e \in Ends, NEW d, NEW x, NEW t,
           Calm(e, d, t), x = d \/ x \in check_close(e, d, pipe), Stepped(e, x, t),
           UNCHANGED <<pipe, got, written, ended, reader>>
    PROVE  Moves(e, d, x, t)
<1>1. /\ chan[e] \in ChannelType(e) /\ chan[e].out = <<>>
      /\ Peer(e) \in Ends /\ Peer(e) # e /\ Peer(Peer(e)) = e
      /\ net[e] \in Seq(Packets) /\ net[Peer(e)] \in Seq(Packets)
      /\ chan[Peer(e)].status \in BOOLEAN
      /\ Sound(e, chan[e], net[Peer(e)], chan[Peer(e)].status)
  BY Idle
<1>2. Turns(e, chan[e], d, t) /\ d.out = <<>> /\ d \in ChannelType(e)
  BY DEF Calm, Turns
<1>3. Sound(e, d, net[Peer(e)], chan[Peer(e)].status)
  <2> DEFINE c == chan[e]
             n == net[Peer(e)]
             told == chan[Peer(e)].status
  <2>1. n \in Seq(Packets) /\ told \in BOOLEAN /\ Sound(e, c, n, told) /\ c.out = <<>> /\ Turns(e, c, d, t)
    BY <1>1, <1>2
  <2> HIDE DEF c, n, told
  <2>2. Sound(e, d, n, told)
    BY <1>2, <2>1, Quiet
  <2> QED
    BY <2>2 DEF n, told
<1>4. net[Peer(e)] \o d.out = net[Peer(e)]
  BY <1>1, <1>2
<1>5. net'[e] = IF t = "none" THEN net[e] ELSE Tail(net[e])
  BY <1>1 DEF Stepped, SessionInv, Types
<1>6. t # "none" => net[e] # <<>> /\ Head(net[e]).type = t
  BY DEF Stepped
<1>7. ASSUME NEW s \in ReadStreams(e)
      PROVE  FlowOf(s, Live(s), got[s], chan[Peer(e)].buf[s], net[Peer(e)] \o d.out,
                    pipe'[s], written[s])
  <2>1. s \in Streams /\ Receiver(s) = Peer(e) /\ Flow(s)
    BY DEF ReadStreams, Receiver, RefInv
  <2> QED
    BY <1>4, <2>1 DEF Flow
<1>8. ASSUME NEW s \in WriteStreams(e)
      PROVE  FlowOf(s, reader[s] /\ d.wfd[s] # "closed", got'[s], d.buf[s], net'[e],
                    pipe[s], written[s])
  <2>1. s \in Streams /\ Receiver(s) = e /\ Flow(s)
    BY DEF WriteStreams, RefInv
  <2>2. /\ got'[s] = got[s] /\ d.buf[s] = chan[e].buf[s]
        /\ reader[s] /\ d.wfd[s] # "closed" => Live(s)
    BY <2>1 DEF Calm, Live
  <2>3. CASE t = "none"
    BY <1>5, <2>1, <2>2, <2>3 DEF Flow, FlowOf
  <2>4. CASE t # "none" /\ reader[s] /\ d.wfd[s] # "closed"
    <3> DEFINE q == net[e]
               a == Len(got[s]) + Len(chan[e].buf[s])
               z == written[s] - Len(pipe[s])
    <3>1. q \in Seq(Packets) /\ q # <<>> /\ Spans(q, s, a, z)
      BY <1>1, <1>6, <2>1, <2>2, <2>4 DEF Flow, FlowOf
    <3>2. ~Carries(Head(q), s)
      BY <1>6, <2>4 DEF Calm, Carries
    <3> HIDE DEF q, a, z
    <3>3. Spans(Tail(q), s, a, z)
      BY <3>1, <3>2, SpansTail
    <3>4. Spans(net'[e], s, Len(got'[s]) + Len(d.buf[s]), written[s] - Len(pipe[s]))
      BY <1>5, <2>2, <2>4, <3>3 DEF q, a, z
    <3> QED
      BY <2>1, <2>2, <2>4, <3>4 DEF Flow, FlowOf
  <2>5. CASE ~(reader[s] /\ d.wfd[s] # "closed")
    BY <2>1, <2>2, <2>5 DEF Flow, FlowOf
  <2> QED
    BY <2>3, <2>4, <2>5
<1>9. Works(e, d)
  <2>1. /\ d.pid = chan[e].pid /\ d.sent_close = chan[e].sent_close
        /\ d.flushing = chan[e].flushing /\ (chan[e].recv_eof => d.recv_eof)
        /\ (chan[e].status => d.status) /\ (e = "svr" /\ d.status => command = "exited")
    BY DEF Calm, Turns
  <2>2. Mute(d)
    BY <1>2 DEF Mute
  <2>3. /\ \A s \in ReadStreams(e) :
             /\ d.rfd[s] = chan[e].rfd[s] \/ (pipe'[s] = <<>> /\ Over(s))
             /\ got'[s] = got[s] /\ (pipe[s] = <<>> => pipe'[s] = <<>>)
    BY DEF Calm
  <2>4. \A s \in WriteStreams(e) :
             /\ d.wfd[s] = chan[e].wfd[s] \/ (d.wfd[s] = "closed" /\ ~reader[s])
             /\ pipe'[s] = pipe[s] /\ got'[s] = got[s]
    BY DEF Calm, Turns
  <2>5. \A s \in WriteStreams(e) : Len(got[s]) \in Nat
    BY DEF WriteStreams, SessionInv, Types
  <2>6. \A s \in WriteStreams(e) : Len(got[s]) <= Len(got'[s])
    BY <2>4, <2>5
  <2> QED
    BY <1>2, <1>7, <1>8, <2>1, <2>2, <2>3, <2>4, <2>6 DEF Works
<1>10. x = d \/ x \in check_close(e, d, pipe')
  OBVIOUS
<1> QED
  BY <1>3, <1>9, <1>10, MovesOn

LEMMA Commits ==
    ASSUME NEW e, NEW C, Commit(e, C), command' = command, command = "none" => Requested /\ e = "cli"
    PROVE  \E x \in C : Stepped(e, x, "none")
BY DEF Commit, Stepped

(* A flag of the channel, or the window, is set by packet t.               *)
Sets(e, d, t) ==
    /\ d \in ChannelType(e) /\ d.out = <<>>
    /\ d.pid = chan[e].pid /\ d.open = chan[e].open /\ d.sent_eof = chan[e].sent_eof
    /\ d.sent_close = chan[e].sent_close /\ d.rfd = chan[e].rfd /\ d.wfd = chan[e].wfd
    /\ d.flushing = chan[e].flushing /\ d.buf = chan[e].buf
    /\ d.recv_eof = (chan[e].recv_eof \/ t \in {"EOF", "CLOSE"})
    /\ d.recv_close = (chan[e].recv_close \/ t = "CLOSE")
    /\ d.exitsignal = chan[e].exitsignal \/ (chan[e].exitsignal = "none" /\ d.status)

LEMMA SetsCalm ==
    ASSUME SessionInv, RefInv, NEW e \in Ends, NEW d, NEW t, t # "DATA", Sets(e, d, t), chan[e].open,
           \/ d.status = chan[e].status /\ t # "STATUS"
           \/ d.status /\ (e = "svr" => command = "exited")
    PROVE  Calm(e, d, t)
<1>1. chan[e] \in ChannelType(e)
  BY Idle
<1>2. Turns(e, chan[e], d, t)
  BY <1>1 DEF Turns, Sets
<1>3. e = "svr" /\ d.status => command = "exited"
  BY DEF RefInv, Fate
<1> QED
  BY <1>2, <1>3 DEF Calm, Sets

LEMMA PipesAdjust ==
    ASSUME SessionInv, SessionInv', RefInv, ~Pty, NEW e \in Ends, recv_msg_channel_window_adjust(e)
    PROVE  Advances
<1> DEFINE c == chan[e]
           m == Head(net[e])
           d == [c EXCEPT !.transwindow = @ + m.incr]
<1>1. /\ recv_msg(e, "ADJUST") /\ Handled(e, {d}) /\ UNCHANGED env
  BY DEF recv_msg_channel_window_adjust
<1>2. c.open /\ m \in Packets /\ m.type = "ADJUST" /\ \E x \in {d} : Stepped(e, x, "ADJUST")
  <2>1. command' = command /\ "ADJUST" \notin Openings \cup {"none"}
    BY <1>1 DEF env, Openings
  <2> HIDE DEF d
  <2> QED
    BY <1>1, <2>1, Handling
<1>3. m.incr \in Nat
  BY <1>2, PacketFacts
<1>4. c \in ChannelType(e) /\ c.out = <<>>
  BY Idle
<1> HIDE DEF m
<1>5. Sets(e, d, "ADJUST") /\ d.status = c.status
  <2> DEFINE y == c.transwindow + m.incr
  <2>1. y \in Nat /\ d = [c EXCEPT !.transwindow = y]
    BY <1>3, <1>4, BackedType
  <2> HIDE DEF c, d, y
  <2>2. d \in ChannelType(e)
    BY <1>4, <2>1 DEF ChannelType
  <2>3. /\ d.out = <<>> /\ d.pid = c.pid /\ d.open = c.open /\ d.sent_eof = c.sent_eof
        /\ d.sent_close = c.sent_close /\ d.rfd = c.rfd /\ d.wfd = c.wfd
        /\ d.flushing = c.flushing /\ d.buf = c.buf /\ d.status = c.status
        /\ d.exitsignal = c.exitsignal
        /\ d.recv_eof = c.recv_eof /\ d.recv_close = c.recv_close
    BY <1>4, <2>1 DEF ChannelType
  <2>4. c.recv_eof \in BOOLEAN /\ c.recv_close \in BOOLEAN
    BY <1>4 DEF ChannelType
  <2> QED
    BY <2>2, <2>3, <2>4 DEF Sets, c
<1>6. Stepped(e, d, "ADJUST")
  BY <1>2
<1>7. UNCHANGED <<pipe, got, written, ended, reader>>
  BY <1>1 DEF env
<1> HIDE DEF d
<1>8. Calm(e, d, "ADJUST")
  BY <1>2, <1>5, SetsCalm
<1>9. Moves(e, d, d, "ADJUST")
  BY <1>6, <1>7, <1>8, CalmMoves
<1> QED
  BY <1>5, <1>9, MovesQuietly

LEMMA PipesClosing ==
    ASSUME SessionInv, SessionInv', RefInv, ~Pty, NEW e \in Ends, NEW t \in {"EOF", "CLOSE"}, NEW d,
           recv_msg(e, t), Handled(e, check_close(e, d, pipe)), UNCHANGED env,
           d = [chan[e] EXCEPT !.recv_eof = TRUE, !.recv_close = @ \/ t = "CLOSE"]
    PROVE  Advances
<1> DEFINE c == chan[e]
<1>2. c.open /\ \E x \in check_close(e, d, pipe) : Stepped(e, x, t)
  <2>1. command' = command /\ t \notin Openings \cup {"none"}
    BY DEF env, Openings
  <2> QED
    BY <2>1, Handling
<1>4. c \in ChannelType(e) /\ c.out = <<>>
  BY Idle
<1>5. Sets(e, d, t) /\ d.status = c.status
  <2>1. d = [c EXCEPT !.recv_eof = TRUE, !.recv_close = @ \/ t = "CLOSE"]
    OBVIOUS
  <2> HIDE DEF c
  <2>2. d \in ChannelType(e) /\ d.recv_close = (c.recv_close \/ t = "CLOSE")
    BY <1>4, <2>1 DEF ChannelType
  <2>3. /\ d.out = <<>> /\ d.pid = c.pid /\ d.open = c.open /\ d.sent_eof = c.sent_eof
        /\ d.sent_close = c.sent_close /\ d.rfd = c.rfd /\ d.wfd = c.wfd
        /\ d.flushing = c.flushing /\ d.buf = c.buf /\ d.status = c.status
        /\ d.exitsignal = c.exitsignal
        /\ d.recv_eof = TRUE
    BY <1>4, <2>1 DEF ChannelType
  <2>4. c.recv_eof \in BOOLEAN
    BY <1>4 DEF ChannelType
  <2> QED
    BY <2>2, <2>3, <2>4 DEF Sets, c
<1>6. PICK x \in check_close(e, d, pipe) : Stepped(e, x, t)
  BY <1>2
<1>7. UNCHANGED <<pipe, got, written, ended, reader>>
  BY DEF env
<1>8. Calm(e, d, t)
  BY <1>2, <1>5, SetsCalm
<1>9. Moves(e, d, x, t)
  BY <1>6, <1>7, <1>8, CalmMoves
<1> QED
  BY <1>5, <1>9, MovesQuietly

LEMMA PipesEnd ==
    ASSUME SessionInv, SessionInv', RefInv, ~Pty, NEW e \in Ends,
           recv_msg_channel_eof(e) \/ recv_msg_channel_close(e)
    PROVE  Advances
<1> DEFINE c == chan[e]
<1>1. c \in ChannelType(e)
  BY Idle
<1>2. CASE recv_msg_channel_eof(e)
  <2> DEFINE d == [c EXCEPT !.recv_eof = TRUE]
  <2>1. recv_msg(e, "EOF") /\ Handled(e, check_close(e, d, pipe)) /\ UNCHANGED env
    BY <1>2 DEF recv_msg_channel_eof
  <2>2. d = [c EXCEPT !.recv_eof = TRUE, !.recv_close = @ \/ "EOF" = "CLOSE"]
    <3> HIDE DEF c
    <3> QED
      BY <1>1 DEF ChannelType
  <2> HIDE DEF d
  <2> QED
    BY <2>1, <2>2, PipesClosing
<1>3. CASE recv_msg_channel_close(e)
  <2> DEFINE d == [c EXCEPT !.recv_eof = TRUE, !.recv_close = TRUE]
  <2>1. recv_msg(e, "CLOSE") /\ Handled(e, check_close(e, d, pipe)) /\ UNCHANGED env
    BY <1>3 DEF recv_msg_channel_close
  <2>2. d = [c EXCEPT !.recv_eof = TRUE, !.recv_close = @ \/ "CLOSE" = "CLOSE"]
    <3> HIDE DEF c
    <3> QED
      BY <1>1 DEF ChannelType
  <2> HIDE DEF d
  <2> QED
    BY <2>1, <2>2, PipesClosing
<1> QED
  BY <1>2, <1>3

(* The client learns the exit status, which the server sent because the    *)
(* command has exited.                                                     *)
LEMMA PipesStatus ==
    ASSUME SessionInv, SessionInv', RefInv, ~Pty, recv_msg("cli", "STATUS"),
           Handled("cli", {[chan["cli"] EXCEPT !.status = TRUE]}), UNCHANGED env
    PROVE  Advances
<1> DEFINE e == "cli"
           c == chan[e]
           d == [c EXCEPT !.status = TRUE]
<1>1. recv_msg(e, "STATUS") /\ Handled(e, {d}) /\ UNCHANGED env /\ e \in Ends
  BY DEF Ends
<1>2. c.open /\ Head(net[e]).type = "STATUS" /\ \E x \in {d} : Stepped(e, x, "STATUS")
  <2>1. command' = command /\ "STATUS" \notin Openings \cup {"none"}
    BY <1>1 DEF env, Openings
  <2> HIDE DEF d, e
  <2> QED
    BY <1>1, <2>1, Handling
<1>3. command = "exited"
  <2>1. net[e] \in Seq(Packets) /\ net[e] # <<>>
    BY <1>1, Idle DEF recv_msg, Take
  <2>2. 1 \in 1 .. Len(net[e]) /\ net[e][1] = Head(net[e])
    BY <2>1
  <2> QED
    BY <1>2, <2>2 DEF RefInv, Fate
<1>4. c \in ChannelType(e) /\ c.out = <<>>
  BY <1>1, Idle
<1>5. Sets(e, d, "STATUS") /\ d.status = TRUE /\ d.wfd = c.wfd
  <2> HIDE DEF c, e
  <2>2. d \in ChannelType(e)
    BY <1>4 DEF ChannelType
  <2>3. /\ d.out = <<>> /\ d.pid = c.pid /\ d.open = c.open /\ d.sent_eof = c.sent_eof
        /\ d.sent_close = c.sent_close /\ d.rfd = c.rfd /\ d.wfd = c.wfd
        /\ d.flushing = c.flushing /\ d.buf = c.buf /\ d.status = TRUE
        /\ d.exitsignal = c.exitsignal
        /\ d.recv_eof = c.recv_eof /\ d.recv_close = c.recv_close
    BY <1>4 DEF ChannelType
  <2>4. c.recv_eof \in BOOLEAN /\ c.recv_close \in BOOLEAN
    BY <1>4 DEF ChannelType
  <2> HIDE DEF d
  <2> QED
    BY <2>2, <2>3, <2>4 DEF Sets, c
<1>6. Stepped(e, d, "STATUS")
  BY <1>2
<1>7. UNCHANGED <<pipe, got, written, ended, reader, command>>
  BY <1>1 DEF env
<1> HIDE DEF d
<1>8. Calm(e, d, "STATUS")
  BY <1>1, <1>2, <1>5, SetsCalm
<1>9. Moves(e, d, d, "STATUS")
  BY <1>1, <1>6, <1>7, <1>8, CalmMoves
<1>10. RefInv'
  BY <1>9, MovesRefInv
<1>11. /\ chan'[e].status = TRUE /\ chan'[e].wfd = chan[e].wfd
       /\ \A y \in Ends : y # e => chan'[y].wfd = chan[y].wfd
  <2> HIDE DEF e
  <2>1. /\ chan'[e].status = d.status /\ chan'[e].wfd = d.wfd
        /\ \A y \in Ends : y # e => chan'[y].wfd = chan[y].wfd
    BY <1>9, Moved
  <2> QED
    BY <1>5, <2>1 DEF c
<1>12. \A s \in Streams : chan'[Receiver(s)].wfd = chan[Receiver(s)].wfd
  BY <1>11, EndOf
<1>13. Command!Report
  BY <1>3, <1>7, <1>11, <1>12 DEF Command!Report, e
<1> QED
  BY <1>10, <1>13 DEF Advances, Command!Next

(* The client ignores the signal that ended the command.                   *)
LEMMA PipesKilled ==
    ASSUME SessionInv, SessionInv', RefInv, ~Pty, recv_msg("cli", "SIGNAL"),
           Handled("cli", {chan["cli"]}), UNCHANGED env
    PROVE  Advances
<1> DEFINE e == "cli"
           t == "SIGNAL"
           c == chan[e]
<1>1. recv_msg(e, t) /\ Handled(e, {c}) /\ UNCHANGED env /\ e \in Ends
  BY DEF Ends
<1>2. t \notin Openings \cup {"none", "EOF", "CLOSE", "STATUS", "DATA"} /\ command' = command
  BY <1>1 DEF env, Openings
<1> HIDE DEF e, t
<1>3. c.open /\ \E x \in {c} : Stepped(e, x, t)
  BY <1>1, <1>2, Handling
<1>4. c \in ChannelType(e) /\ c.out = <<>> /\ Stepped(e, c, t)
  BY <1>1, <1>3, Idle
<1>5. Sets(e, c, t)
  <2>1. c.recv_eof \in BOOLEAN /\ c.recv_close \in BOOLEAN
    BY <1>4 DEF ChannelType
  <2> QED
    BY <1>2, <1>4, <2>1 DEF Sets
<1>6. UNCHANGED <<pipe, got, written, ended, reader, command>>
  BY <1>1 DEF env
<1>7. Calm(e, c, t)
  BY <1>1, <1>2, <1>3, <1>5, SetsCalm
<1>8. Moves(e, c, c, t)
  BY <1>1, <1>4, <1>6, <1>7, CalmMoves
<1>9. chan'["cli"].status = chan["cli"].status
  BY <1>8, Moved DEF e
<1> QED
  BY <1>8, <1>9, MovesAdvances

LEMMA PipesSignal ==
    ASSUME SessionInv, SessionInv', RefInv, ~Pty, NEW signal \in ExitSignals,
           svr_chansess_checksignal(signal)
    PROVE  Advances
<1> DEFINE e == "svr"
           c == chan[e]
           d == [c EXCEPT !.status = TRUE, !.exitsignal = signal]
<1>1. /\ c.open /\ command = "exited" /\ Commit(e, check_close(e, d, pipe)) /\ UNCHANGED env
      /\ e \in Ends
  BY DEF svr_chansess_checksignal, Up, Ends
<1>2. \E x \in check_close(e, d, pipe) : Stepped(e, x, "none")
  <2>1. command' = command /\ command # "none"
    BY <1>1 DEF env
  <2> HIDE DEF d, e
  <2> QED
    BY <1>1, <2>1, Commits
<1>4. c \in ChannelType(e) /\ c.out = <<>> /\ c.exitsignal = "none"
  <2>1. ~c.status
    BY DEF svr_chansess_checksignal
  <2> QED
    BY <1>1, <2>1, Idle DEF SessionInv, Types
<1>5. Sets(e, d, "none") /\ d.status = TRUE
  <2> HIDE DEF c, e
  <2>2. d \in ChannelType(e)
    BY <1>4, SshSessionAssumption DEF ChannelType
  <2>3. /\ d.out = <<>> /\ d.pid = c.pid /\ d.open = c.open /\ d.sent_eof = c.sent_eof
        /\ d.sent_close = c.sent_close /\ d.rfd = c.rfd /\ d.wfd = c.wfd
        /\ d.flushing = c.flushing /\ d.buf = c.buf /\ d.status = TRUE
        /\ d.recv_eof = c.recv_eof /\ d.recv_close = c.recv_close
    BY <1>4 DEF ChannelType
  <2>4. c.recv_eof \in BOOLEAN /\ c.recv_close \in BOOLEAN
    BY <1>4 DEF ChannelType
  <2> HIDE DEF d
  <2> QED
    BY <1>4, <2>2, <2>3, <2>4 DEF Sets, c
<1> HIDE DEF d
<1>6. PICK x \in check_close(e, d, pipe) : Stepped(e, x, "none")
  BY <1>2
<1>7. UNCHANGED <<pipe, got, written, ended, reader>>
  BY <1>1 DEF env
<1>8. Calm(e, d, "none")
  BY <1>1, <1>5, SetsCalm
<1>9. Moves(e, d, x, "none")
  BY <1>1, <1>6, <1>7, <1>8, CalmMoves
<1>10. chan'["cli"].status = chan["cli"].status
  <2>1. chan'[Peer(e)] = chan[Peer(e)]
    <3> HIDE DEF e
    <3> QED
      BY <1>9, Moved
  <2> QED
    BY <2>1 DEF Peer
<1> QED
  BY <1>9, <1>10, MovesAdvances

(* The descriptor of a reader that has gone is closed.  At a server that   *)
(* has started no command, the others are closed with it.                  *)
LEMMA ClosedCalm ==
    ASSUME SessionInv, RefInv, ~Pty, NEW e \in Ends, NEW t \in {"none", "DATA"}, NEW b, NEW d, NEW s \in WriteStreams(e),
           b \in ChannelType(e), Alike(chan[e], b), b.out = <<>>, b.buf = chan[e].buf,
           d = CloseWrite(e, b, s), chan[e].open, ~reader[s], command = "none" => e = "cli",
           t = "DATA" => s = Head(net[e]).stream
    PROVE  Calm(e, d, t) /\ d.status = chan[e].status
<1> DEFINE c == chan[e]
<1>1. c \in ChannelType(e) /\ c.out = <<>>
  BY Idle
<1>2. Shut(e, b, d)
  BY ShutWrite
<1>3. /\ d.flushing = b.flushing
      /\ \A r \in ReadStreams(e) : d.rfd[r] = b.rfd[r] \/ (Coupled(e, b) /\ r = "out")
      /\ \A w \in WriteStreams(e) : d.wfd[w] = b.wfd[w] \/ w = s
  BY DEF CloseWrite, ChannelType
<1>4. c.recv_eof \in BOOLEAN /\ c.recv_close \in BOOLEAN
  BY <1>1 DEF ChannelType
<1>5. Turns(e, c, d, t)
  <2> HIDE DEF c
  <2>1. c.open /\ Alike(c, b) /\ t \notin {"EOF", "CLOSE", "STATUS"}
    BY DEF c
  <2> QED
    BY <1>1, <1>2, <1>4, <2>1 DEF Turns, Shut, Kept, Alike
<1>6. ASSUME NEW r \in ReadStreams(e)
      PROVE  d.rfd[r] = c.rfd[r] \/ (pipe[r] = <<>> /\ Over(r))
  <2>1. CASE Coupled(e, b) /\ r = "out"
    <3>1. e = "svr" /\ ~c.pid
      BY <2>1 DEF Coupled, Alike
    <3>2. command = "failed"
      BY <3>1 DEF SessionInv, Protocol, Phase, Started
    <3>3. pipe[r] = <<>>
      BY <2>1, <3>2 DEF RefInv, Fate
    <3> QED
      BY <2>1, <3>2, <3>3 DEF Over
  <2> QED
    BY <1>3, <2>1 DEF Alike
<1>7. /\ d.out = <<>> /\ d.buf = c.buf /\ d.flushing = c.flushing /\ d.status = c.status
      /\ \A w \in WriteStreams(e) : d.wfd[w] = c.wfd[w] \/ ~reader[w]
  BY <1>2, <1>3 DEF Shut, Kept, Alike
<1>8. e = "svr" /\ d.status => command = "exited"
  BY <1>7 DEF RefInv, Fate
<1> QED
  BY <1>5, <1>6, <1>7, <1>8 DEF Calm

LEMMA PipesWriteError ==
    ASSUME SessionInv, SessionInv', RefInv, ~Pty, NEW s \in Streams, WriteError(s)
    PROVE  Advances
<1> DEFINE e == Receiver(s)
           c == chan[e]
           d == CloseWrite(e, c, s)
<1>1. /\ c.open /\ c.wfd[s] = "open" /\ c.buf[s] # <<>> /\ ~reader[s]
      /\ Commit(e, check_close(e, d, pipe)) /\ UNCHANGED env
  BY DEF WriteError, Up
<1>2. e \in Ends /\ s \in WriteStreams(e)
  BY EndOf
<1> HIDE DEF e
<1>3. c \in ChannelType(e) /\ c.out = <<>> /\ Alike(c, c)
  BY <1>2, Idle DEF Alike
<1>4. command = "none" => Requested /\ e = "cli"
  BY <1>1, <1>2, Served
<1> HIDE DEF d
<1>5. Calm(e, d, "none") /\ d.status = c.status
  BY <1>1, <1>2, <1>3, <1>4, ClosedCalm DEF d
<1>6. PICK x \in check_close(e, d, pipe) : Stepped(e, x, "none")
  <2>1. command' = command
    BY <1>1 DEF env
  <2> QED
    BY <1>1, <1>4, <2>1, Commits
<1>7. UNCHANGED <<pipe, got, written, ended, reader>>
  BY <1>1 DEF env
<1>8. Moves(e, d, x, "none")
  BY <1>2, <1>5, <1>6, <1>7, CalmMoves
<1> QED
  BY <1>5, <1>8, MovesQuietly

(* x is the first k of the bytes q, and y the others.                      *)
Halves(q, k, x, y) == x = SubSeq(q, 1, k) /\ y = SubSeq(q, k + 1, Len(q))

LEMMA FollowsCut ==
    ASSUME NEW q \in Seq(Nat), NEW a \in Nat, Follows(q, a), NEW k \in 0 .. Len(q),
           NEW x, NEW y, Halves(q, k, x, y)
    PROVE  /\ x \in Seq(Nat) /\ Len(x) = k /\ Follows(x, a)
           /\ y \in Seq(Nat) /\ Len(y) = Len(q) - k /\ Follows(y, a + k)
<1>1. /\ x \in Seq(Nat) /\ Len(x) = k /\ y \in Seq(Nat) /\ Len(y) = Len(q) - k
  BY Cut DEF Halves
<1>2. \A i \in 1 .. k : x[i] = q[i]
  BY DEF Halves
<1>3. \A i \in 1 .. Len(q) - k : y[i] = q[k + i]
  BY DEF Halves
<1>4. \A i \in 1 .. Len(q) : q[i] = a + i
  BY DEF Follows
<1>5. \A i \in 1 .. Len(x) : x[i] = a + i
  BY <1>1, <1>2, <1>4
<1>6. \A i \in 1 .. Len(y) : y[i] = (a + k) + i
  BY <1>1, <1>3, <1>4
<1> QED
  BY <1>1, <1>5, <1>6 DEF Follows

Joined(p, q, x) == x = p \o q

LEMMA FollowsCat ==
    ASSUME NEW p \in Seq(Nat), NEW q \in Seq(Nat), NEW a \in Nat, Follows(p, a), Follows(q, a + Len(p)),
           NEW x, Joined(p, q, x)
    PROVE  x \in Seq(Nat) /\ Len(x) = Len(p) + Len(q) /\ Follows(x, a)
<1>1. x \in Seq(Nat) /\ Len(x) = Len(p) + Len(q) /\ Len(p) \in Nat /\ Len(q) \in Nat
  BY DEF Joined
<1>2. /\ \A i \in 1 .. Len(p) : x[i] = p[i]
      /\ \A i \in Len(p) + 1 .. Len(p) + Len(q) : x[i] = q[i - Len(p)]
  BY DEF Joined
<1>3. ASSUME NEW i \in 1 .. Len(x)
      PROVE  x[i] = a + i
  <2>1. CASE i <= Len(p)
    <3>1. i \in 1 .. Len(p)
      BY <1>1, <2>1
    <3> QED
      BY <1>2, <3>1 DEF Follows
  <2>2. CASE i > Len(p)
    <3> DEFINE j == i - Len(p)
    <3>1. j \in 1 .. Len(q) /\ x[i] = q[j] /\ j = i - Len(p) /\ i \in Int
      BY <1>1, <1>2, <2>2
    <3> HIDE DEF j
    <3>2. q[j] = (a + Len(p)) + j
      BY <3>1 DEF Follows
    <3> DEFINE l == Len(p)
    <3>3. l \in Nat /\ j = i - l /\ x[i] = (a + l) + j /\ i \in Int
      BY <1>1, <3>1, <3>2
    <3> HIDE DEF l
    <3> QED
      BY <3>3
  <2> QED
    BY <1>1, <2>1, <2>2
<1> QED
  BY <1>1, <1>3 DEF Follows

(* The reader takes k of the bytes at hand; the others stay in the buffer. *)
LEMMA FlowPass ==
    ASSUME NEW g \in Seq(Nat), NEW all \in Seq(Nat), NEW k \in 0 .. Len(all), NEW p \in Seq(Nat),
           NEW w \in Nat, NEW r \in Seq(Packets), NEW s, NEW live, NEW h, NEW x, NEW b,
           Follows(g, 0), Follows(all, Len(g)), Spans(r, s, Len(g) + Len(all), w - Len(p)),
           Follows(p, w - Len(p)), Len(p) <= w,
           Joined(g, x, h), Halves(all, k, x, b)
    PROVE  FlowOf(s, live, h, b, r, p, w) /\ Len(g) <= Len(h)
<1>0. Len(g) \in Nat /\ Len(all) \in Nat /\ Len(p) \in Nat /\ k \in Nat /\ k <= Len(all)
  OBVIOUS
<1>1. /\ x \in Seq(Nat) /\ Len(x) = k /\ Follows(x, Len(g))
      /\ b \in Seq(Nat) /\ Len(b) = Len(all) - k /\ Follows(b, Len(g) + k)
  BY <1>0, FollowsCut
<1>2. Follows(x, 0 + Len(g)) /\ 0 \in Nat
  BY <1>0, <1>1
<1>3. h \in Seq(Nat) /\ Len(h) = Len(g) + Len(x) /\ Follows(h, 0)
  BY <1>1, <1>2, FollowsCat
<1>4. Len(h) + Len(b) = Len(g) + Len(all) /\ Len(g) <= Len(h) /\ Len(h) = Len(g) + k
  BY <1>0, <1>1, <1>3
<1>5. Len(g) + Len(all) <= w - Len(p)
  BY SpansUp
<1>6. Len(h) <= w
  BY <1>0, <1>1, <1>3, <1>4, <1>5
<1> QED
  BY <1>1, <1>3, <1>4, <1>6 DEF FlowOf

(* Bytes of stream s reach their reader: y of those at hand, all, while b  *)
(* are kept in channel d.                                                  *)
Reaches(e, s, all, k, y, b, d, t) ==
    /\ s \in WriteStreams(e) /\ reader[s] /\ chan[e].wfd[s] = "open"
    /\ all \in Seq(Nat) /\ k \in 0 .. Len(all) /\ t \in {"none", "DATA"}
    /\ Halves(all, k, y, b) /\ Joined(got[s], y, got'[s])
    /\ \A w \in Streams \ {s} : got'[w] = got[w]
    /\ \/ t = "none" /\ all = chan[e].buf[s]
       \/ /\ t = "DATA" /\ s = Head(net[e]).stream
          /\ Joined(chan[e].buf[s], Head(net[e]).data, all)
    /\ \E len : Passes(e, d, s, b, t, len)

LEMMA ReachFlows ==
    ASSUME SessionInv, RefInv, NEW e \in Ends, NEW s, NEW all, NEW k, NEW y, NEW b, NEW d, NEW x, NEW t,
           Reaches(e, s, all, k, y, b, d, t), Stepped(e, x, t)
    PROVE  /\ FlowOf(s, TRUE, got'[s], b, net'[e], pipe[s], written[s])
           /\ Len(got[s]) <= Len(got'[s])
<1> DEFINE g == got[s]
           h == got'[s]
           c == chan[e].buf[s]
           q == net[e]
           r == net'[e]
           p == pipe[s]
           w == written[s]
           z == w - Len(p)
<1>1. s \in WriteStreams(e) /\ s \in Streams /\ Receiver(s) = e /\ Live(s) /\ Flow(s)
  BY DEF Reaches, WriteStreams, RefInv, Live
<1>2. /\ g \in Seq(Nat) /\ p \in Seq(Nat) /\ w \in Nat
      /\ chan[e] \in ChannelType(e) /\ q \in Seq(Packets) /\ e # Peer(e)
  BY <1>1, Idle DEF SessionInv, Types
<1>3. c \in Seq(Nat)
  BY <1>1, <1>2 DEF ChannelType
<1>4. /\ Follows(g, 0) /\ Follows(p, w - Len(p)) /\ Len(p) <= w /\ Follows(c, Len(g))
      /\ Spans(q, s, Len(g) + Len(c), z)
  BY <1>1 DEF Flow, FlowOf
<1>5. r = (IF t = "none" THEN q ELSE Tail(q)) /\ (t # "none" => q # <<>> /\ Head(q).type = t)
  BY <1>2 DEF Stepped, SessionInv, Types
<1>6. /\ all \in Seq(Nat) /\ k \in 0 .. Len(all)
      /\ Joined(g, y, h) /\ Halves(all, k, y, b)
  BY DEF Reaches
<1>7. \/ t = "none" /\ all = c
      \/ t = "DATA" /\ s = Head(q).stream /\ Joined(c, Head(q).data, all)
  BY DEF Reaches
<1> HIDE DEF g, h, c, q, r, p, w, z
<1>8. r \in Seq(Packets) /\ Follows(all, Len(g)) /\ Spans(r, s, Len(g) + Len(all), z)
  <2>1. CASE t = "none" /\ all = c
    BY <1>2, <1>4, <1>5, <2>1
  <2>2. CASE t = "DATA" /\ s = Head(q).stream /\ Joined(c, Head(q).data, all)
    <3> DEFINE m == Head(q)
    <3>1. q # <<>> /\ m.type = "DATA" /\ m.stream = s /\ Carries(m, s) /\ r = Tail(q)
      BY <1>5, <2>2 DEF Carries
    <3>2. m \in Packets /\ r \in Seq(Packets)
      BY <1>2, <3>1
    <3>3. m.data \in Seq(Nat)
      BY <3>1, <3>2, PacketFacts
    <3>4. Follows(m.data, Len(g) + Len(c)) /\ Spans(r, s, Len(g) + Len(c) + Len(m.data), z)
      BY <1>2, <1>4, <3>1, SpansTail
    <3> DEFINE v == m.data
               a == Len(g)
    <3>0. a \in Nat /\ Follows(c, a) /\ Joined(c, v, all)
      BY <1>2, <1>4, <2>2
    <3>5. v \in Seq(Nat) /\ a \in Nat /\ Follows(c, a) /\ Follows(v, a + Len(c)) /\ Joined(c, v, all)
          /\ Spans(r, s, a + Len(c) + Len(v), z)
      BY <3>0, <3>3, <3>4
    <3> HIDE DEF v, a, m
    <3>6. Len(all) = Len(c) + Len(v) /\ Follows(all, a)
      BY <1>3, <3>5, FollowsCat
    <3>7. a + Len(all) = a + Len(c) + Len(v)
      <4>1. Len(c) \in Nat /\ Len(v) \in Nat
        BY <1>3, <3>5
      <4> QED
        BY <3>5, <3>6, <4>1
    <3> QED
      BY <3>2, <3>5, <3>6, <3>7 DEF a
  <2> QED
    BY <1>7, <2>1, <2>2
<1>9. FlowOf(s, TRUE, h, b, r, p, w) /\ Len(g) <= Len(h)
  BY <1>2, <1>4, <1>6, <1>8, FlowPass DEF z
<1> QED
  BY <1>9 DEF g, h, r, p, w

LEMMA ReachMoves ==
    ASSUME SessionInv, SessionInv', RefInv, ~Pty, NEW e \in Ends, NEW s, NEW all, NEW k, NEW y, NEW b,
           NEW d, NEW x, NEW t,
           Reaches(e, s, all, k, y, b, d, t), x = d \/ x \in check_close(e, d, pipe), Stepped(e, x, t),
           UNCHANGED <<pipe, written, ended, reader>>
    PROVE  Moves(e, d, x, t) /\ d.status = chan[e].status
<1> DEFINE c == chan[e]
           n == net[Peer(e)]
<1>1. PICK len : Passes(e, d, s, b, t, len)
  BY DEF Reaches
<1>2. /\ Sound(e, d, n, chan[Peer(e)].status) /\ d \in ChannelType(e)
      /\ Alike(c, d) /\ d.buf[s] = b /\ \A w \in WriteStreams(e) \ {s} : d.buf[w] = c.buf[w]
      /\ d.out = <<>> \/ \E m \in Packets : m.type = "ADJUST" /\ d.out = Append(<<>>, m)
  BY <1>1 DEF Passes, Grants, Buffers, Turns
<1>3. n \in Seq(Packets) /\ net[e] \in Seq(Packets) /\ Peer(e) # e /\ c \in ChannelType(e)
  BY Idle
<1>4. d.pid = c.pid /\ d.sent_close = c.sent_close /\ d.flushing = c.flushing
      /\ d.recv_eof = c.recv_eof /\ d.status = c.status /\ d.rfd = c.rfd /\ d.wfd = c.wfd
  BY <1>2 DEF Alike
<1>5. Mute(d)
  <2>1. CASE d.out = <<>>
    BY <2>1 DEF Mute
  <2>2. CASE \E m \in Packets : m.type = "ADJUST" /\ d.out = Append(<<>>, m)
    <3>1. PICK m \in Packets : m.type = "ADJUST" /\ d.out = Append(<<>>, m)
      BY <2>2
    <3>2. \A i \in 1 .. Len(d.out) : d.out[i] = m
      BY <3>1
    <3> QED
      BY <3>1, <3>2 DEF Mute
  <2> QED
    BY <1>2, <2>1, <2>2
<1>6. ASSUME NEW w \in ReadStreams(e)
      PROVE  FlowOf(w, Live(w), got[w], chan[Peer(e)].buf[w], n \o d.out, pipe[w], written[w])
  <2>1. w \in Streams /\ Receiver(w) = Peer(e) /\ Flow(w)
    BY DEF ReadStreams, Receiver, RefInv
  <2>2. CASE d.out = <<>>
    <3>1. n \o d.out = n
      BY <1>3, <2>2
    <3> QED
      BY <2>1, <3>1 DEF Flow
  <2>3. CASE \E m \in Packets : m.type = "ADJUST" /\ d.out = Append(<<>>, m)
    <3>1. PICK m \in Packets : m.type = "ADJUST" /\ d.out = Append(<<>>, m)
      BY <2>3
    <3> DEFINE r == n \o d.out
               a == Len(got[w]) + Len(chan[Peer(e)].buf[w])
               z == written[w] - Len(pipe[w])
    <3>2. r = Append(n, m)
      BY <1>3, <3>1
    <3> HIDE DEF r
    <3>3. /\ r \in Seq(Packets) /\ Len(n) <= Len(r)
          /\ \A i \in 1 .. Len(r) : (i <= Len(n) /\ r[i] = n[i]) \/ (i > Len(n) /\ r[i] = m)
      BY <1>3, <3>2
    <3>4. ~Carries(m, w)
      BY <3>1 DEF Carries
    <3>5. \A i \in 1 .. Len(r) : (i <= Len(n) /\ r[i] = n[i]) \/ (i > Len(n) /\ ~Carries(r[i], w))
      BY <3>3, <3>4
    <3>6. ASSUME Live(w) PROVE Spans(r, w, a, z)
      <4>1. Spans(n, w, a, z)
        BY <2>1, <3>6 DEF Flow, FlowOf
      <4> HIDE DEF n, a, z
      <4> QED
        BY <1>3, <3>3, <3>5, <4>1, SpansMore
    <3> QED
      BY <2>1, <3>6 DEF Flow, FlowOf, r
  <2> QED
    BY <1>2, <2>2, <2>3
<1>7. s \in WriteStreams(e) /\ reader[s] /\ c.wfd[s] = "open" /\ t \in {"none", "DATA"}
      /\ (t = "DATA" => s = Head(net[e]).stream) /\ s \in Streams /\ Live(s)
      /\ \A w \in Streams \ {s} : got'[w] = got[w]
  BY DEF Reaches, WriteStreams, Live
<1>8. /\ FlowOf(s, TRUE, got'[s], b, net'[e], pipe[s], written[s])
      /\ Len(got[s]) <= Len(got'[s])
  BY ReachFlows
<1>9. net'[e] = (IF t = "none" THEN net[e] ELSE Tail(net[e])) /\ (t # "none" => net[e] # <<>>)
  BY <1>3 DEF Stepped, SessionInv, Types
<1>10. ASSUME NEW w \in WriteStreams(e)
       PROVE  /\ got'[w] = got[w] \/ Live(w)
              /\ Len(got[w]) <= Len(got'[w])
              /\ FlowOf(w, reader[w] /\ d.wfd[w] # "closed", got'[w], d.buf[w], net'[e], pipe[w], written[w])
  <2>1. CASE w = s
    <3>1. FlowOf(s, TRUE, got'[s], d.buf[s], net'[e], pipe[s], written[s])
      BY <1>2, <1>8
    <3>2. FlowOf(s, reader[s] /\ d.wfd[s] # "closed", got'[s], d.buf[s], net'[e], pipe[s], written[s])
      BY <3>1 DEF FlowOf
    <3> QED
      BY <1>7, <1>8, <2>1, <3>2
  <2>2. CASE w # s
    <3>1. /\ w \in Streams /\ Receiver(w) = e /\ Flow(w) /\ got'[w] = got[w]
          /\ d.buf[w] = c.buf[w] /\ d.wfd[w] = c.wfd[w]
      BY <1>2, <1>4, <1>7, <2>2 DEF WriteStreams, RefInv
    <3>2. Len(got[w]) <= Len(got'[w])
      <4>1. Len(got[w]) \in Nat
        BY <3>1 DEF SessionInv, Types
      <4> QED
        BY <3>1, <4>1
    <3> DEFINE q == net[e]
               a == Len(got[w]) + Len(c.buf[w])
               z == written[w] - Len(pipe[w])
    <3>3. ASSUME Live(w) PROVE Spans(net'[e], w, a, z)
      <4>1. Spans(q, w, a, z)
        BY <3>1, <3>3 DEF Flow, FlowOf
      <4>2. t # "none" => ~Carries(Head(q), w)
        BY <1>7, <2>2 DEF Carries
      <4> HIDE DEF q, a, z
      <4>3. t # "none" => Spans(Tail(q), w, a, z)
        BY <1>3, <1>9, <4>1, <4>2, SpansTail DEF q
      <4> QED
        BY <1>9, <4>1, <4>3 DEF q
    <3>4. Live(w) <=> reader[w] /\ d.wfd[w] # "closed"
      BY <3>1 DEF Live
    <3> QED
      BY <3>1, <3>2, <3>3, <3>4 DEF Flow, FlowOf
  <2> QED
    BY <2>1, <2>2
<1>11. \A w \in ReadStreams(e) : got'[w] = got[w]
  <2>1. s \notin ReadStreams(e)
    BY <1>7, StreamFacts
  <2> QED
    BY <1>7, <2>1 DEF ReadStreams
<1>12. e = "svr" /\ d.status => command = "exited"
  BY <1>4 DEF RefInv, Fate
<1>13. Works(e, d)
  BY <1>2, <1>4, <1>5, <1>6, <1>10, <1>11, <1>12 DEF Works
<1>14. x = d \/ x \in check_close(e, d, pipe')
  OBVIOUS
<1> QED
  BY <1>2, <1>4, <1>13, <1>14, MovesOn

LEMMA PipesWrite ==
    ASSUME SessionInv, SessionInv', RefInv, ~Pty, NEW s \in Streams, NEW k, WriteBuffered(s, k)
    PROVE  Advances
<1> DEFINE e == Receiver(s)
           q == chan[e].buf[s]
           y == SubSeq(q, 1, k)
           b == SubSeq(q, k + 1, Len(q))
<1>1. PICK d : Commit(e, check_close(e, d, pipe)) /\ Passes(e, d, s, b, "none", 0)
  BY DoWrite
<1>2. /\ chan[e].wfd[s] = "open" /\ k \in 1 .. Len(q) /\ reader[s]
      /\ got' = [got EXCEPT ![s] = @ \o y]
      /\ UNCHANGED <<pipe, written, ended, reader, command>>
  BY DEF WriteBuffered
<1>3. e \in Ends /\ s \in WriteStreams(e)
  BY EndOf
<1>4. q \in Seq(Nat)
  <2>1. chan[e] \in ChannelType(e)
    BY <1>3, Idle
  <2> QED
    BY <1>3, <2>1 DEF ChannelType
<1>5. k \in 0 .. Len(q) /\ q # <<>>
  BY <1>2, <1>4
<1>6. command = "none" => Requested /\ e = "cli"
  BY <1>2, <1>3, <1>5, Served
<1>7. Halves(q, k, y, b)
  BY DEF Halves
<1>8. Joined(got[s], y, got'[s]) /\ \A w \in Streams \ {s} : got'[w] = got[w]
  BY <1>2 DEF Joined, SessionInv, Types
<1> HIDE DEF e, q, y, b
<1>9. PICK x \in check_close(e, d, pipe) : Stepped(e, x, "none")
  BY <1>1, <1>2, <1>6, Commits
<1>10. Reaches(e, s, q, k, y, b, d, "none")
  BY <1>1, <1>2, <1>3, <1>4, <1>5, <1>7, <1>8 DEF Reaches, q
<1>11. Moves(e, d, x, "none") /\ d.status = chan[e].status
  BY <1>2, <1>3, <1>9, <1>10, ReachMoves
<1> QED
  BY <1>11, MovesQuietly

(* A packet of data for a descriptor that is not open has no reader.       *)
LEMMA PipesDropped ==
    ASSUME SessionInv, SessionInv', RefInv, ~Pty, NEW e \in Ends, recv_msg(e, "DATA"), Handled(e, {chan[e]}),
           chan[e].wfd[Head(net[e]).stream] # "open",
           UNCHANGED <<pipe, written, ended, reader, got, command>>
    PROVE  Advances
<1> DEFINE c == chan[e]
           s == Head(net[e]).stream
<1>1. c.open /\ s \in WriteStreams(e)
  BY DataHead
<1>2. c \in ChannelType(e) /\ c.out = <<>>
  BY Idle
<1>3. \E x \in {c} : Stepped(e, x, "DATA")
  <2>1. "DATA" \notin Openings \cup {"none"}
    BY DEF Openings
  <2> HIDE DEF c
  <2> QED
    BY <2>1, Handling DEF c
<1>4. command # "none"
  BY <1>3 DEF Stepped
<1>5. ~(reader[s] /\ c.wfd[s] # "closed")
  <2>1. c.wfd[s] \in {"closed", "uninit"}
    BY <1>1, <1>2 DEF ChannelType, Fds
  <2>2. CASE e = "cli"
    <3>1. s \in {"out", "err"}
      BY <1>1, <2>2, StreamFacts
    <3> QED
      BY <2>1, <2>2, <3>1 DEF RefInv, Fate
  <2>3. CASE e = "svr"
    <3>1. s = "in"
      BY <1>1, <2>3, StreamFacts
    <3>2. command \in {"failed", "running", "exited"}
      BY <1>4 DEF SessionInv, Types
    <3> QED
      BY <2>1, <2>3, <3>1, <3>2 DEF RefInv, Fate
  <2> QED
    BY <2>2, <2>3 DEF Ends
<1>6. Turns(e, c, c, "DATA")
  BY <1>1, <1>2, TurnsAlike DEF Alike
<1>7. e = "svr" /\ c.status => command = "exited"
  BY DEF RefInv, Fate
<1>8. Calm(e, c, "DATA")
  BY <1>2, <1>5, <1>6, <1>7 DEF Calm
<1>9. Stepped(e, c, "DATA")
  BY <1>3
<1>10. Moves(e, c, c, "DATA") /\ c.status = chan[e].status
  BY <1>8, <1>9, CalmMoves
<1> HIDE DEF c
<1> QED
  BY <1>10, MovesQuietly

LEMMA PipesRefused ==
    ASSUME SessionInv, SessionInv', RefInv, ~Pty, NEW e \in Ends, recv_msg(e, "DATA"), NEW s, NEW d, Refuses(e, s, d),
           ~reader[s], UNCHANGED <<pipe, written, ended, reader, got, command>>
    PROVE  Advances
<1> DEFINE c == chan[e]
           len == Len(Head(net[e]).data)
           f == CloseWrite(e, d, s)
<1>1. Handled(e, {f})
  BY DEF Refuses
<1>2. c.open /\ s \in WriteStreams(e) /\ Head(net[e]).data \in Seq(Nat) /\ s = Head(net[e]).stream
  BY DataHead DEF Refuses
<1>3. len \in Nat
  BY <1>2
<1>4. c \in ChannelType(e) /\ c.out = <<>>
  BY Idle
<1>5. d \in ChannelType(e) /\ Alike(c, d) /\ d.out = <<>> /\ d.buf = c.buf
  <2>1. d = Spent(c, len)
    BY DEF Refuses
  <2> HIDE DEF c, len
  <2> QED
    BY <1>3, <1>4, <2>1, SpentFacts
<1> HIDE DEF f
<1>6. \E x \in {f} : Stepped(e, x, "DATA")
  <2>1. "DATA" \notin Openings \cup {"none"}
    BY DEF Openings
  <2> QED
    BY <1>1, <2>1, Handling
<1>7. Stepped(e, f, "DATA") /\ command # "none"
  BY <1>6 DEF Stepped
<1>8. Calm(e, f, "DATA") /\ f.status = c.status
  BY <1>2, <1>5, <1>7, ClosedCalm DEF f
<1>9. Moves(e, f, f, "DATA")
  BY <1>7, <1>8, CalmMoves
<1> QED
  BY <1>8, <1>9, MovesQuietly

LEMMA PipesTaken ==
    ASSUME SessionInv, SessionInv', RefInv, ~Pty, NEW e \in Ends, recv_msg(e, "DATA"),
           NEW s, NEW k, NEW all, NEW d, NEW kept, NEW b, NEW w, NEW f,
           Takes(e, s, k, all, d, kept, b, w, f), reader[s],
           UNCHANGED <<pipe, written, ended, reader, command>>
    PROVE  Advances
<1> DEFINE y == SubSeq(all, 1, k)
           z == SubSeq(all, k + 1, Len(all))
<1>1. Handled(e, {f}) /\ Passes(e, f, s, z, "DATA", Len(Head(net[e]).data))
  BY DataTaken
<1>2. /\ s = Head(net[e]).stream /\ chan[e].wfd[s] = "open"
      /\ all = chan[e].buf[s] \o Head(net[e]).data /\ k \in 0 .. Len(all)
      /\ got' = [got EXCEPT ![s] = @ \o y]
  BY DEF Takes
<1>3. s \in WriteStreams(e) /\ Head(net[e]).data \in Seq(Nat) /\ s \in Streams
  BY <1>2, DataHead DEF WriteStreams
<1>4. all \in Seq(Nat) /\ Joined(chan[e].buf[s], Head(net[e]).data, all)
  <2>1. chan[e].buf[s] \in Seq(Nat)
    <3>1. chan[e] \in ChannelType(e)
      BY Idle
    <3> QED
      BY <1>3, <3>1 DEF ChannelType
  <2> DEFINE u == chan[e].buf[s]
             v == Head(net[e]).data
  <2>2. u \in Seq(Nat) /\ v \in Seq(Nat) /\ all = u \o v
    BY <1>2, <1>3, <2>1
  <2> HIDE DEF u, v
  <2>3. all \in Seq(Nat) /\ Joined(u, v, all)
    BY <2>2 DEF Joined
  <2> QED
    BY <2>3 DEF u, v
<1>5. Halves(all, k, y, z)
  BY DEF Halves
<1>6. Joined(got[s], y, got'[s]) /\ \A v \in Streams \ {s} : got'[v] = got[v]
  BY <1>2, <1>3 DEF Joined, SessionInv, Types
<1>7. Stepped(e, f, "DATA")
  <2>1. "DATA" \notin Openings \cup {"none"}
    BY DEF Openings
  <2>2. \E x \in {f} : Stepped(e, x, "DATA")
    BY <1>1, <2>1, Handling
  <2> QED
    BY <2>2
<1> HIDE DEF y, z
<1>8. Reaches(e, s, all, k, y, z, f, "DATA")
  BY <1>1, <1>2, <1>3, <1>4, <1>5, <1>6 DEF Reaches
<1>9. Moves(e, f, f, "DATA") /\ f.status = chan[e].status
  BY <1>7, <1>8, ReachMoves
<1> QED
  BY <1>9, MovesQuietly

LEMMA PipesData ==
    ASSUME SessionInv, SessionInv', RefInv, ~Pty, NEW e \in Ends, NEW k, recv_msg_channel_data(e, k)
    PROVE  Advances
<1> DEFINE c == chan[e]
           m == Head(net[e])
           s == m.stream
           len == Len(m.data)
           all == c.buf[s] \o m.data
           d == Spent(c, len)
           kept == Max({0, Len(c.buf[s]) - k})
           b == SetBuffer(d, s, SubSeq(d.buf[s], Len(d.buf[s]) - kept + 1, Len(d.buf[s])))
           w == ExtendWindow(b, k)
           f == SetBuffer(w, s, SubSeq(all, k + 1, Len(all)))
<1>1. recv_msg(e, "DATA") /\ UNCHANGED <<pipe, written, ended, reader, command>>
  BY DEF recv_msg_channel_data
<1>2. c.open /\ ~c.recv_eof /\ len <= c.recvwindow /\ len <= Window - Len(c.buf[s])
  BY <1>1, DataHead
<1>3. ~(len > Window - Len(c.buf[s])) /\ ~(len > c.recvwindow)
  <2>1. c.recvwindow \in Int /\ len \in Nat /\ Window \in Nat /\ Len(c.buf[s]) \in Nat
    <3>1. s \in WriteStreams(e) /\ m.data \in Seq(Nat)
      BY <1>1, DataHead
    <3>2. len \in Nat
      BY <3>1
    <3>3. c \in ChannelType(e)
      BY Idle
    <3> QED
      BY <3>1, <3>2, <3>3, BackedType, BufferedFacts, Constants
  <2> DEFINE x == Len(c.buf[s])
  <2> HIDE DEF x, len
  <2> QED
    BY <1>2, <2>1 DEF x
<1>4. \/ c.wfd[s] # "open" /\ Handled(e, {c}) /\ got' = got
      \/ Handled(e, {CloseWrite(e, d, s)}) /\ got' = got /\ ~reader[s]
      \/ /\ c.wfd[s] = "open" /\ k \in 0 .. Len(all) /\ reader[s]
         /\ got' = [got EXCEPT ![s] = @ \o SubSeq(all, 1, k)]
         /\ IF WindowFits(w) THEN Handled(e, {f}) ELSE Die(e, "assert window")
  BY <1>2, <1>3, Zenon DEF recv_msg_channel_data, Spent, SetBuffer
<1>5. CASE c.wfd[s] # "open" /\ Handled(e, {c}) /\ got' = got
  BY <1>1, <1>5, PipesDropped
<1>6. CASE Handled(e, {CloseWrite(e, d, s)}) /\ got' = got /\ ~reader[s]
  <2>1. Refuses(e, s, d)
    BY <1>6 DEF Refuses
  <2> HIDE DEF s, d
  <2> QED
    BY <1>1, <1>6, <2>1, PipesRefused
<1>7. CASE /\ c.wfd[s] = "open" /\ k \in 0 .. Len(all) /\ reader[s]
           /\ got' = [got EXCEPT ![s] = @ \o SubSeq(all, 1, k)]
           /\ IF WindowFits(w) THEN Handled(e, {f}) ELSE Die(e, "assert window")
  <2>1. Takes(e, s, k, all, d, kept, b, w, f)
    BY <1>7, Zenon DEF Takes
  <2> HIDE DEF s, all, d, kept, b, w, f
  <2> QED
    BY <1>1, <1>7, <2>1, PipesTaken
<1> QED
  BY <1>4, <1>5, <1>6, <1>7

(* k bytes of the pipe leave with packet m.                                *)
LEMMA FlowSend ==
    ASSUME NEW g, NEW b, NEW n \in Seq(Packets), NEW m \in Packets, NEW s,
           NEW p \in Seq(Nat), NEW k \in 0 .. Len(p), NEW y, NEW w \in Nat, NEW live \in BOOLEAN,
           Carries(m, s), Halves(p, k, m.data, y), FlowOf(s, live, g, b, n, p, w)
    PROVE  FlowOf(s, live, g, b, Append(n, m), y, w)
<1> DEFINE a == w - Len(p)
           v == m.data
<1>0. Len(p) \in Nat /\ k \in Nat /\ k <= Len(p)
  OBVIOUS
<1>1. a \in Nat /\ Follows(p, a) /\ Len(p) <= w /\ Follows(g, 0) /\ Len(g) <= w
  BY <1>0 DEF FlowOf
<1>2. Halves(p, k, v, y) /\ a = w - Len(p)
  OBVIOUS
<1> HIDE DEF a, v
<1>3. /\ v \in Seq(Nat) /\ Len(v) = k /\ Follows(v, a)
      /\ y \in Seq(Nat) /\ Len(y) = Len(p) - k /\ Follows(y, a + k)
  BY <1>1, <1>2, FollowsCut
<1>4. w - Len(y) = a + k /\ Len(y) <= w
  BY <1>0, <1>1, <1>2, <1>3
<1>5. ASSUME live
      PROVE  Follows(b, Len(g)) /\ Spans(Append(n, m), s, Len(g) + Len(b), a + k)
  <2> DEFINE x == Len(g) + Len(b)
  <2>1. Follows(b, Len(g)) /\ Spans(n, s, x, a)
    BY <1>2, <1>5 DEF FlowOf
  <2>2. Follows(m.data, a) /\ Len(m.data) = k
    BY <1>3 DEF v
  <2> HIDE DEF x
  <2>3. Spans(Append(n, m), s, x, a + Len(m.data))
    BY <2>1, <2>2, SpansAppend
  <2> QED
    BY <2>1, <2>2, <2>3 DEF x
<1>6. Follows(y, w - Len(y))
  BY <1>3, <1>4
<1> QED
  BY <1>1, <1>4, <1>5, <1>6 DEF FlowOf

LEMMA FlowOther ==
    ASSUME NEW g, NEW b, NEW n \in Seq(Packets), NEW m \in Packets, NEW s,
           NEW p, NEW w, NEW live, ~Carries(m, s), FlowOf(s, live, g, b, n, p, w)
    PROVE  FlowOf(s, live, g, b, Append(n, m), p, w)
<1> DEFINE r == Append(n, m)
           a == Len(g) + Len(b)
           z == w - Len(p)
<1>1. /\ r \in Seq(Packets) /\ Len(n) <= Len(r)
      /\ \A i \in 1 .. Len(r) : (i <= Len(n) /\ r[i] = n[i]) \/ (i > Len(n) /\ r[i] = m)
  OBVIOUS
<1> HIDE DEF r
<1>2. ASSUME live PROVE Spans(r, s, a, z)
  <2>1. Spans(n, s, a, z)
    BY <1>2 DEF FlowOf
  <2> HIDE DEF a, z
  <2>2. \A i \in 1 .. Len(r) : (i <= Len(n) /\ r[i] = n[i]) \/ (i > Len(n) /\ ~Carries(r[i], s))
    BY <1>1
  <2> QED
    BY <1>1, <2>1, <2>2, SpansMore
<1> QED
  BY <1>2 DEF FlowOf, r

(* Bytes are read from the pipe of stream s and sent.                      *)
LEMMA ReadMoves ==
    ASSUME SessionInv, SessionInv', RefInv, ~Pty, NEW e \in Ends, NEW s \in ReadStreams(e), NEW k, NEW d, NEW x,
           k > 0, k \in 0 .. Len(pipe[s]), Reads(e, s, k, d),
           Sound(e, d, net[Peer(e)], chan[Peer(e)].status),
           pipe' = [pipe EXCEPT ![s] = SubSeq(@, k + 1, Len(@))],
           x \in check_close(e, d, pipe'), Stepped(e, x, "none"),
           UNCHANGED <<written, ended, reader, got>>
    PROVE  Moves(e, d, x, "none") /\ d.status = chan[e].status
<1> DEFINE c == chan[e]
           n == net[Peer(e)]
           m == [type |-> "DATA", stream |-> s, data |-> SubSeq(pipe[s], 1, k)]
<1>1. /\ d \in ChannelType(e)
      /\ d.pid = c.pid /\ d.sent_close = c.sent_close /\ d.flushing = c.flushing
      /\ d.recv_eof = c.recv_eof /\ d.status = c.status
      /\ d.rfd = c.rfd /\ d.wfd = c.wfd /\ d.buf = c.buf
      /\ d.out = Append(c.out, m)
  BY DEF Reads
<1>2. n \in Seq(Packets) /\ c.out = <<>> /\ c \in ChannelType(e) /\ Peer(e) # e /\ net[e] \in Seq(Packets)
  BY Idle
<1>3. s \in Streams /\ pipe \in [Streams -> Seq(Nat)] /\ pipe[s] \in Seq(Nat)
  BY DEF ReadStreams, SessionInv, Types
<1>4. m \in Packets /\ m.type = "DATA" /\ m.stream = s /\ m.data = SubSeq(pipe[s], 1, k)
  BY <1>3, Cut DEF Packets
<1>5. pipe'[s] = SubSeq(pipe[s], k + 1, Len(pipe[s])) /\ \A r \in Streams \ {s} : pipe'[r] = pipe[r]
  BY <1>3
<1>6. Halves(pipe[s], k, m.data, pipe'[s])
  BY <1>4, <1>5 DEF Halves
<1> HIDE DEF m
<1>7. n \o d.out = Append(n, m)
  <2>1. d.out = <<m>>
    BY <1>1, <1>2
  <2> QED
    BY <1>2, <2>1
<1>8. ASSUME NEW r \in ReadStreams(e)
      PROVE  FlowOf(r, Live(r), got[r], chan[Peer(e)].buf[r], n \o d.out, pipe'[r], written[r])
  <2>1. r \in Streams /\ Receiver(r) = Peer(e) /\ Flow(r)
    BY DEF ReadStreams, Receiver, RefInv
  <2> DEFINE g == got[r]
             b == chan[Peer(e)].buf[r]
             p == pipe[r]
             w == written[r]
             live == Live(r)
             y == pipe'[r]
  <2>2. FlowOf(r, live, g, b, n, p, w) /\ live \in BOOLEAN /\ p \in Seq(Nat) /\ w \in Nat
    <3>1. reader[r] \in BOOLEAN
      BY <2>1 DEF SessionInv, Types
    <3> QED
      BY <1>3, <2>1, <3>1 DEF Flow, Live, SessionInv, Types
  <2>3. CASE r = s
    <3>1. Carries(m, r) /\ Halves(p, k, m.data, y) /\ k \in 0 .. Len(p)
      BY <1>4, <1>6, <2>3 DEF Carries
    <3> HIDE DEF g, b, p, w, live, y, n
    <3>2. FlowOf(r, live, g, b, Append(n, m), y, w)
      BY <1>2, <1>4, <2>2, <3>1, FlowSend
    <3> QED
      BY <1>7, <3>2 DEF g, b, p, w, live, y
  <2>4. CASE r # s
    <3>1. ~Carries(m, r) /\ y = p
      BY <1>4, <1>5, <2>1, <2>4 DEF Carries
    <3> HIDE DEF g, b, p, w, live, y, n
    <3>2. FlowOf(r, live, g, b, Append(n, m), p, w)
      BY <1>2, <1>4, <2>2, <3>1, FlowOther
    <3> QED
      BY <1>7, <3>1, <3>2 DEF g, b, p, w, live, y
  <2> QED
    BY <2>3, <2>4
<1>9. ASSUME NEW r \in WriteStreams(e)
      PROVE  /\ pipe'[r] = pipe[r] /\ got'[r] = got[r] /\ Len(got[r]) <= Len(got'[r])
             /\ FlowOf(r, reader[r] /\ d.wfd[r] # "closed", got'[r], d.buf[r], net'[e], pipe[r], written[r])
  <2>1. r \in Streams /\ Receiver(r) = e /\ Flow(r) /\ r # s
    BY StreamFacts DEF WriteStreams, RefInv
  <2>2. net'[e] = net[e]
    BY <1>2 DEF Stepped, SessionInv, Types
  <2>3. Len(got[r]) \in Nat
    BY <2>1 DEF SessionInv, Types
  <2> QED
    BY <1>1, <1>5, <2>1, <2>2, <2>3 DEF Flow, Live
<1>10. Mute(d)
  <2>1. d.out = <<m>>
    BY <1>1, <1>2
  <2>2. \A i \in 1 .. Len(d.out) : d.out[i] = m
    BY <2>1
  <2> QED
    BY <1>4, <2>2 DEF Mute
<1>11. \A r \in ReadStreams(e) : pipe[r] = <<>> => pipe'[r] = <<>>
  <2>1. pipe[s] # <<>>
    BY <1>3
  <2> QED
    BY <1>5, <2>1 DEF ReadStreams
<1>12. e = "svr" /\ d.status => command = "exited"
  BY <1>1 DEF RefInv, Fate
<1>13. Works(e, d)
  BY <1>1, <1>8, <1>9, <1>10, <1>11, <1>12 DEF Works
<1> QED
  BY <1>1, <1>13, MovesOn

LEMMA PipesRead ==
    ASSUME SessionInv, SessionInv', RefInv, ~Pty, NEW s \in Streams, ReadAndSend(s)
    PROVE  Advances
<1> DEFINE e == Sender(s)
           c == chan[e]
           k == Chunk(c, s)
           rest == [pipe EXCEPT ![s] = SubSeq(@, k + 1, Len(@))]
<1>1. /\ c.open /\ c.rfd[s] = "open" /\ c.transwindow > 0 /\ (pipe[s] # <<>> \/ ended[s])
      /\ pipe' = rest
      /\ UNCHANGED <<written, ended, reader, got, command>>
  BY DEF ReadAndSend, Up
<1>2. /\ k \in 0 .. Len(pipe[s]) /\ (k = 0 => pipe[s] = <<>>)
      /\ \E d : /\ Commit(e, check_close(e, d, rest)) /\ Reads(e, s, k, d)
                /\ Sound(e, d, net[Peer(e)], chan[Peer(e)].status)
  BY DoRead
<1>3. e \in Ends /\ s \in ReadStreams(e)
  BY EndOf
<1>4. command = "none" => Requested /\ e = "cli"
  BY <1>1, <1>3, Served
<1>5. PICK d : /\ Commit(e, check_close(e, d, rest)) /\ Reads(e, s, k, d)
               /\ Sound(e, d, net[Peer(e)], chan[Peer(e)].status)
  BY <1>2
<1>6. pipe \in [Streams -> Seq(Nat)]
  BY DEF SessionInv, Types
<1>a. c \in ChannelType(e) /\ c.out = <<>>
  BY <1>3, Idle
<1> HIDE DEF e, k
<1>7. PICK x \in check_close(e, d, rest) : Stepped(e, x, "none")
  <2> HIDE DEF rest
  <2> QED
    BY <1>1, <1>4, <1>5, Commits
<1>8. CASE k > 0
  <2>1. Moves(e, d, x, "none") /\ d.status = chan[e].status
    BY <1>1, <1>2, <1>3, <1>5, <1>7, <1>8, ReadMoves
  <2> QED
    BY <2>1, MovesQuietly
<1>9. CASE ~(k > 0)
  <2>1. k = 0 /\ pipe[s] = <<>> /\ ended[s]
    BY <1>1, <1>2, <1>6, <1>9
  <2>2. pipe' = pipe /\ rest = pipe
    BY <1>1, <1>6, <2>1
  <2>3. d = CloseRead(e, c, s)
    BY <1>5, <2>1 DEF Reads
  <2>4. Shut(e, c, d)
    BY <1>3, <1>a, <2>3, ShutRead
  <2>5. /\ d.flushing = c.flushing
        /\ \A r \in ReadStreams(e) : d.rfd[r] = c.rfd[r] \/ r = s
        /\ \A w \in WriteStreams(e) : d.wfd[w] = c.wfd[w] \/ Coupled(e, c)
    <3> HIDE DEF c
    <3> QED
      BY <1>a, <2>3 DEF CloseRead, ChannelType
  <2>6. Turns(e, c, d, "none")
    BY <1>1, <1>3, <1>a, <2>4, TurnsShut
  <2>7. \A w \in WriteStreams(e) : d.wfd[w] = c.wfd[w] \/ ~reader[w]
    <3>1. ASSUME Coupled(e, c) PROVE e = "svr" /\ command = "failed"
      <4>1. e = "svr" /\ ~c.pid
        BY <3>1 DEF Coupled
      <4>2. command # "none"
        BY <1>4, <4>1
      <4> QED
        BY <4>1, <4>2 DEF SessionInv, Protocol, Phase, Started
    <3>2. ASSUME Coupled(e, c), NEW w \in WriteStreams(e) PROVE ~reader[w]
      <4>1. w = "in"
        BY <3>1, <3>2, StreamFacts
      <4> QED
        BY <3>1, <3>2, <4>1 DEF RefInv, Fate
    <3> QED
      BY <2>5, <3>2
  <2>8. \A r \in ReadStreams(e) : d.rfd[r] = c.rfd[r] \/ (pipe[r] = <<>> /\ Over(r))
    BY <2>1, <2>5 DEF Over
  <2>9. d.out = <<>> /\ d.buf = c.buf /\ d.status = c.status
    BY <1>a, <2>4 DEF Shut, Kept
  <2>10. e = "svr" /\ d.status => command = "exited"
    BY <2>9 DEF RefInv, Fate
  <2>11. Calm(e, d, "none")
    BY <2>5, <2>6, <2>7, <2>8, <2>9, <2>10 DEF Calm
  <2>12. Moves(e, d, x, "none")
    <3>1. x \in check_close(e, d, pipe)
      BY <1>7, <2>2
    <3>2. UNCHANGED <<pipe, got, written, ended, reader>>
      BY <1>1, <2>2
    <3> HIDE DEF rest
    <3> QED
      BY <1>3, <1>7, <2>11, <3>1, <3>2, CalmMoves
  <2> QED
    BY <2>9, <2>12, MovesQuietly
<1> QED
  BY <1>8, <1>9

-----------------------------------------------------------------------------
(* The opening of the channel.                                             *)

LEMMA SpansNone ==
    ASSUME NEW q \in Seq(Packets), NEW r \in Seq(Packets), NEW s, NEW a, NEW z,
           \A i \in 1 .. Len(q) : ~Carries(q[i], s), \A i \in 1 .. Len(r) : ~Carries(r[i], s),
           Spans(q, s, a, z)
    PROVE  Spans(r, s, a, z)
<1>1. a \in Nat /\ z = a /\ Len(r) \in Nat
  BY SpansUp
<1> DEFINE f == [i \in 0 .. Len(r) |-> a]
<1>2. f \in [0 .. Len(r) -> Nat] /\ f[0] = a /\ f[Len(r)] = z
  BY <1>1
<1>3. \A i \in 1 .. Len(r) : f[i] = a /\ f[i - 1] = a
  BY <1>1
<1>4. \A i \in 1 .. Len(r) : Brings(r[i], s, f[i - 1], f[i])
  <2> HIDE DEF f
  <2> QED
    BY <1>3 DEF Brings
<1> HIDE DEF f
<1> QED
  BY <1>2, <1>4 DEF Spans

(* Before the command is asked for, no bytes are on their way.             *)
LEMMA OpeningAdvances ==
    ASSUME SessionInv, SessionInv', RefInv, command = "none", UNCHANGED env,
           \A e \in Ends :
             /\ chan'[e].rfd = chan[e].rfd /\ chan'[e].wfd = chan[e].wfd /\ chan'[e].buf = chan[e].buf
             /\ chan'[e].status = chan[e].status /\ chan'[e].flushing = chan[e].flushing
             /\ chan'[e].sent_close = chan[e].sent_close /\ chan'[e].recv_eof = chan[e].recv_eof
             /\ \A i \in 1 .. Len(net[e]) : net[e][i].type \in Openings
             /\ \A i \in 1 .. Len(net'[e]) : net'[e][i].type \in Openings
    PROVE  Advances
<1>1. "cli" \in Ends /\ "svr" \in Ends
  BY DEF Ends
<1>2. UNCHANGED <<pipe, written, ended, reader, got, command>>
  BY DEF env
<1>3. ASSUME NEW s \in Streams PROVE Flow(s)' /\ Sealed(s)'
  <2> DEFINE e == Receiver(s)
             q == net[e]
             r == net'[e]
             a == Len(got[s]) + Len(chan[e].buf[s])
             z == written[s] - Len(pipe[s])
  <2>1. e \in Ends /\ Sender(s) \in Ends /\ Flow(s) /\ Sealed(s)
    BY <1>3, EndOf DEF RefInv
  <2>2. q \in Seq(Packets) /\ r \in Seq(Packets)
    BY <2>1 DEF SessionInv, Types
  <2>3. /\ \A i \in 1 .. Len(q) : ~Carries(q[i], s)
        /\ \A i \in 1 .. Len(r) : ~Carries(r[i], s)
    BY <2>1 DEF Carries, Openings
  <2>4. Live(s)' = Live(s)
    BY <1>2, <2>1 DEF Live
  <2>5. Live(s) => Spans(q, s, a, z)
    BY <2>1 DEF Flow, FlowOf
  <2>6. Live(s) => Spans(r, s, a, z)
    <3> HIDE DEF q, r, a, z
    <3> QED
      BY <2>2, <2>3, <2>5, SpansNone
  <2>7. FlowOf(s, Live(s), got[s], chan[e].buf[s], r, pipe[s], written[s])
    BY <2>1, <2>6 DEF Flow, FlowOf
  <2>8. Flow(s)'
    BY <1>2, <2>1, <2>4, <2>7 DEF Flow
  <2>9. Sealed(s)'
    BY <1>2, <2>1 DEF Sealed, Over, UserGone
  <2> QED
    BY <2>8, <2>9
<1>4. UserDone' /\ Fate'
  <2>1. \A i \in 1 .. Len(net'["cli"]) : net'["cli"][i].type # "STATUS"
    BY <1>1 DEF Openings
  <2> QED
    BY <1>1, <1>2, <2>1 DEF RefInv, UserDone, UserGone, Fate
<1>5. UNCHANGED Command!vars
  <2>1. \A s \in Streams : chan'[Receiver(s)].wfd = chan[Receiver(s)].wfd
    BY EndOf
  <2> QED
    BY <1>1, <1>2, <2>1 DEF Command!vars
<1>6. RefInv'
  BY <1>3, <1>4 DEF RefInv
<1> QED
  BY <1>5, <1>6 DEF Advances

LEMMA PipesOpen ==
    ASSUME SessionInv, SessionInv', RefInv, recv_msg_channel_open
    PROVE  Advances
<1> DEFINE e == "svr"
<1>1. /\ recv_msg(e, "OPEN") /\ UNCHANGED env /\ e \in Ends
      /\ \E C : Consumed(e, C)
  BY DEF recv_msg_channel_open, Ends
<1>2. command = "none" /\ Asked
  BY <1>1, OpeningPhase DEF Openings
<1>3. net'[e] = <<>>
  <2>1. net[e] = <<[type |-> "OPEN", incr |-> Window]>> /\ net \in [Ends -> Seq(Packets)]
    BY <1>2 DEF Asked, SessionInv, Types
  <2>2. Tail(net[e]) = <<>>
    BY <2>1
  <2>3. net'[e] = Tail(net[e])
    BY <1>1, <2>1, StreamFacts DEF Consumed
  <2> QED
    BY <2>2, <2>3
<1>4. Confirmed'
  <2>1. command' = "none"
    BY <1>1, <1>2 DEF env
  <2>2. Phase'
    BY DEF SessionInv, Protocol
  <2> QED
    BY <1>3, <2>1, <2>2 DEF Phase, Asked, Requested
<1>5. ASSUME NEW y \in Ends
      PROVE  /\ chan'[y].rfd = chan[y].rfd /\ chan'[y].wfd = chan[y].wfd /\ chan'[y].buf = chan[y].buf
             /\ chan'[y].status = chan[y].status /\ chan'[y].flushing = chan[y].flushing
             /\ chan'[y].sent_close = chan[y].sent_close /\ chan'[y].recv_eof = chan[y].recv_eof
  <2>1. CASE y = "cli"
    BY <1>2, <1>4, <2>1 DEF Asked, Confirmed, Channel
  <2>2. CASE y = "svr"
    <3> DEFINE c == Channel("svr")
    <3>1. c \in ChannelType("svr") /\ chan["svr"] = c
      BY <1>2, ChannelFresh, StreamFacts DEF Asked, Fresh
    <3>2. chan'["svr"] = [c EXCEPT !.open = TRUE, !.transwindow = Window]
      BY <1>4 DEF Confirmed, Accepted, Channel
    <3> HIDE DEF c
    <3> QED
      BY <2>2, <3>1, <3>2 DEF ChannelType
  <2> QED
    BY <2>1, <2>2 DEF Ends
<1>6. ASSUME NEW y \in Ends
      PROVE  /\ \A i \in 1 .. Len(net[y]) : net[y][i].type \in Openings
             /\ \A i \in 1 .. Len(net'[y]) : net'[y][i].type \in Openings
  <2>1. CASE y = "cli"
    BY <1>2, <1>4, <2>1 DEF Asked, Confirmed, Openings
  <2>2. CASE y = "svr"
    BY <1>2, <1>4, <2>2 DEF Asked, Confirmed, Openings
  <2> QED
    BY <2>1, <2>2 DEF Ends
<1> QED
  BY <1>1, <1>2, <1>5, <1>6, OpeningAdvances

LEMMA PipesConfirm ==
    ASSUME SessionInv, SessionInv', RefInv, recv_msg_channel_open_confirmation
    PROVE  Advances
<1> DEFINE e == "cli"
           c == chan[e]
           m == [type |-> "EXEC"]
           d == [c EXCEPT !.transwindow = Head(net[e]).incr]
           f == Put(d, m)
<1>1. recv_msg(e, "CONFIRM") /\ Handled(e, {f}) /\ UNCHANGED env /\ e \in Ends
  BY DEF recv_msg_channel_open_confirmation, Ends
<1>2. command = "none" /\ Confirmed
  BY <1>1, OpeningPhase DEF Openings
<1>3. /\ net[e] = <<[type |-> "CONFIRM", incr |-> Window]>> /\ net["svr"] = <<>>
      /\ c = Channel(e)
  BY <1>2 DEF Confirmed
<1>4. c \in ChannelType(e) /\ c.out = <<>> /\ Head(net[e]).incr \in Nat /\ c.open
  <2>1. Head(net[e]).incr = Window /\ Window \in Nat
    BY <1>3, Constants
  <2>2. c \in ChannelType(e) /\ c.out = <<>>
    BY <1>1, Idle
  <2>3. c.open
    <3>1. e = "cli" /\ Channel(e).open = (e = "cli")
      BY <1>1, ChannelFresh
    <3> QED
      BY <1>3, <3>1
  <2> QED
    BY <2>1, <2>2, <2>3
<1>5. /\ chan' = [chan EXCEPT ![e] = [f EXCEPT !.out = <<>>]]
      /\ net' = [net EXCEPT ![e] = Tail(@), ![Peer(e)] = @ \o f.out]
  BY <1>1, <1>4 DEF Handled, Consumed
<1>6. /\ f.out = <<m>> /\ f.rfd = c.rfd /\ f.wfd = c.wfd /\ f.buf = c.buf
      /\ f.status = c.status /\ f.flushing = c.flushing
      /\ f.sent_close = c.sent_close /\ f.recv_eof = c.recv_eof
      /\ f \in ChannelType(e)
  <2> DEFINE tw == Head(net[e]).incr
  <2>1. tw \in Nat /\ d = [c EXCEPT !.transwindow = tw]
    BY <1>4
  <2> HIDE DEF c, d, tw, e, m
  <2>2. /\ d \in ChannelType(e) /\ d.out = <<>> /\ d.rfd = c.rfd /\ d.wfd = c.wfd /\ d.buf = c.buf
        /\ d.status = c.status /\ d.flushing = c.flushing
        /\ d.sent_close = c.sent_close /\ d.recv_eof = c.recv_eof
    BY <1>4, <2>1 DEF ChannelType
  <2>3. m \in Packets
    BY DEF Packets, m
  <2>4. f = [d EXCEPT !.out = <<m>>]
    BY <2>2 DEF Put
  <2>5. <<m>> \in Seq(Packets)
    BY <2>3
  <2> QED
    BY <2>2, <2>4, <2>5 DEF ChannelType
<1> HIDE DEF f
<1>7. ASSUME NEW y \in Ends
      PROVE  /\ chan'[y].rfd = chan[y].rfd /\ chan'[y].wfd = chan[y].wfd /\ chan'[y].buf = chan[y].buf
             /\ chan'[y].status = chan[y].status /\ chan'[y].flushing = chan[y].flushing
             /\ chan'[y].sent_close = chan[y].sent_close /\ chan'[y].recv_eof = chan[y].recv_eof
  <2>1. CASE y = e
    <3>1. chan'[e] = [f EXCEPT !.out = <<>>]
      BY <1>1, <1>5 DEF SessionInv, Types
    <3> HIDE DEF e
    <3> QED
      BY <1>6, <2>1, <3>1 DEF ChannelType
  <2>2. CASE y # e
    BY <1>5, <2>2 DEF SessionInv, Types
  <2> QED
    BY <2>1, <2>2
<1>8. net'[e] = <<>> /\ net'["svr"] = <<m>>
  <2>1. net \in [Ends -> Seq(Packets)]
    BY DEF SessionInv, Types
  <2>2. Tail(net[e]) = <<>> /\ net["svr"] \o f.out = <<m>>
    BY <1>3, <1>6
  <2> QED
    BY <1>5, <2>1, <2>2, StreamFacts
<1>9. ASSUME NEW y \in Ends
      PROVE  /\ \A i \in 1 .. Len(net[y]) : net[y][i].type \in Openings
             /\ \A i \in 1 .. Len(net'[y]) : net'[y][i].type \in Openings
  <2>1. CASE y = "cli"
    BY <1>3, <1>8, <2>1 DEF Openings
  <2>2. CASE y = "svr"
    BY <1>3, <1>8, <2>2 DEF Openings
  <2> QED
    BY <2>1, <2>2 DEF Ends
<1> QED
  BY <1>1, <1>2, <1>7, <1>9, OpeningAdvances

(* The command is started, or not: channel d of the server.                *)
Starts(d, ok) ==
    /\ Spawned(chan["svr"], d, ok) /\ ~d.flushing
    /\ IF ok THEN d.wfd["in"] = "open" /\ \A s \in {"out", "err"} : d.rfd[s] = "open"
       ELSE d.wfd = chan["svr"].wfd

LEMMA StartsSo ==
    ASSUME SessionInv, RefInv, ~Pty, NEW ok \in BOOLEAN, sessioncommand(ok)
    PROVE  \E d : Handled("svr", {d}) /\ Starts(d, ok)
<1> DEFINE c == chan["svr"]
           y == [s \in DOMAIN c.rfd |-> IF Pty /\ s = "err" THEN "closed" ELSE "open"]
           f == [c EXCEPT !.pid = TRUE, !.wfd["in"] = "open",
                          !.rfd = [s \in DOMAIN @ |->
                                     IF Pty /\ s = "err" THEN "closed" ELSE "open"]]
<1>1. /\ recv_msg("svr", "EXEC")
      /\ IF ok THEN Handled("svr", {f}) ELSE Handled("svr", {c})
  BY DEF sessioncommand
<1>2. c = Accepted /\ command = "none"
  BY <1>1, OpeningPhase, StreamFacts DEF Openings, Requested
<1>3. Spawned(c, c, FALSE) /\ Spawned(c, f, TRUE)
  BY <1>2, SpawnFacts
<1>4. ~c.flushing /\ c \in ChannelType("svr")
  BY <1>2, <1>3 DEF RefInv, Fate, Spawned
<1>5. "in" \in WriteStreams("svr") /\ {"out", "err"} \subseteq ReadStreams("svr")
  BY DEF WriteStreams, ReadStreams, Receiver, Sender, Peer, Streams
<1>6. ~f.flushing /\ f.wfd["in"] = "open" /\ \A s \in {"out", "err"} : f.rfd[s] = "open"
  <2> HIDE DEF c
  <2> QED
    BY <1>4, <1>5 DEF ChannelType
<1> HIDE DEF f
<1>7. CASE ok = TRUE
  BY <1>1, <1>3, <1>6, <1>7 DEF Starts
<1>8. CASE ok = FALSE
  BY <1>1, <1>3, <1>4, <1>8 DEF Starts
<1> QED
  BY <1>7, <1>8

LEMMA PipesCommand ==
    ASSUME SessionInv, SessionInv', RefInv, ~Pty, NEW ok \in BOOLEAN, sessioncommand(ok)
    PROVE  Advances
<1> DEFINE e == "svr"
           c == chan[e]
           q == net[e]
           b == chan["cli"]
<1>1. /\ recv_msg(e, "EXEC")
      /\ command' = IF ok THEN "running" ELSE "failed"
      /\ reader' = [reader EXCEPT !["in"] = ok]
      /\ UNCHANGED <<pipe, written, ended, got>>
  BY DEF sessioncommand
<1>2. PICK d : Handled(e, {d}) /\ Starts(d, ok)
  BY StartsSo
<1>3. /\ command = "none" /\ Requested /\ Types /\ e \in Ends /\ "cli" \in Ends
      /\ Peer(e) = "cli" /\ Peer("cli") = e
  BY <1>1, OpeningPhase, StreamFacts DEF Openings, SessionInv
<1>4. /\ d \in ChannelType(e) /\ d.out = <<>> /\ d.buf = c.buf /\ ~d.status /\ ~d.sent_close
      /\ ~d.flushing
      /\ IF ok THEN d.wfd["in"] = "open" /\ \A s \in {"out", "err"} : d.rfd[s] = "open"
         ELSE d.wfd = c.wfd
  BY <1>2 DEF Starts, Spawned
<1>5. /\ c.open /\ c.wfd["in"] = "uninit" /\ q \in Seq(Packets) /\ q # <<>> /\ Head(q).type = "EXEC"
      /\ net["cli"] = <<>>
  <2>1. c = [Channel(e) EXCEPT !.open = TRUE, !.transwindow = Window]
    BY <1>3 DEF Requested, Accepted
  <2>2. Channel(e).wfd["in"] = "uninit"
    BY DEF Channel, WriteStreams, Receiver, Sender, Peer, Streams
  <2>3. Channel(e) \in ChannelType(e)
    BY <1>3, ChannelFresh DEF Fresh
  <2>4. c.open /\ c.wfd = Channel(e).wfd
    <3> DEFINE x == Channel(e)
    <3>1. x \in ChannelType(e) /\ c = [x EXCEPT !.open = TRUE, !.transwindow = Window]
      BY <2>1, <2>3
    <3> HIDE DEF x
    <3>2. c.open /\ c.wfd = x.wfd
      BY <3>1 DEF ChannelType
    <3> QED
      BY <3>2 DEF x
  <2> QED
    BY <1>1, <1>3, <2>2, <2>4 DEF recv_msg, Take, Requested, Types
<1>6. /\ chan'[e] = d /\ chan'["cli"] = b
      /\ net'[e] = Tail(q) /\ net'["cli"] = <<>>
  <2>1. Consumed(e, {d})
    BY <1>2, <1>5 DEF Handled
  <2>2. /\ chan' = [chan EXCEPT ![e] = [d EXCEPT !.out = <<>>]]
        /\ net' = [net EXCEPT ![e] = Tail(@), ![Peer(e)] = @ \o d.out]
    BY <2>1 DEF Consumed
  <2>3. [d EXCEPT !.out = <<>>] = d /\ net[Peer(e)] \o d.out = <<>>
    <3>1. [d EXCEPT !.out = <<>>] = d
      BY <1>4 DEF ChannelType
    <3>2. net[Peer(e)] \o d.out = <<>>
      BY <1>3, <1>4, <1>5
    <3> QED
      BY <3>1, <3>2
  <2> QED
    BY <1>3, <2>2, <2>3 DEF Types
<1>7. /\ reader["in"] = TRUE /\ reader'["in"] = ok
      /\ \A s \in {"out", "err"} : reader'[s] = reader[s] /\ pipe[s] = <<>>
  <2>1. reader["in"] /\ \A s \in {"out", "err"} : pipe[s] = <<>>
    BY <1>3 DEF RefInv, Fate
  <2> QED
    BY <1>1, <1>3, <2>1 DEF Types, Streams
<1>8. Flow("in")'
  <2> DEFINE s == "in"
             a == Len(got[s]) + Len(c.buf[s])
             z == written[s] - Len(pipe[s])
  <2>1. Receiver(s) = e /\ s \in Streams
    BY DEF Receiver, Sender, Peer, Streams
  <2>2. Flow(s) /\ Live(s)
    BY <1>5, <1>7, <2>1 DEF RefInv, Live
  <2>3. /\ Follows(got[s], 0) /\ Len(got[s]) <= written[s]
        /\ Follows(pipe[s], z) /\ Len(pipe[s]) <= written[s]
        /\ Follows(c.buf[s], Len(got[s])) /\ Spans(q, s, a, z)
    BY <2>1, <2>2 DEF Flow, FlowOf
  <2>4. Spans(Tail(q), s, a, z)
    <3>1. ~Carries(Head(q), s)
      BY <1>5 DEF Carries
    <3> HIDE DEF q, a, z, s
    <3> QED
      BY <1>5, <2>3, <3>1, SpansTail
  <2>5. \A live : FlowOf(s, live, got[s], c.buf[s], Tail(q), pipe[s], written[s])
    BY <2>3, <2>4 DEF FlowOf
  <2> QED
    BY <1>1, <1>4, <1>6, <2>1, <2>5 DEF Flow
<1>9. ASSUME NEW s \in {"out", "err"} PROVE Flow(s)'
  <2>1. Receiver(s) = "cli" /\ s \in Streams /\ Flow(s)
    BY DEF Receiver, Sender, Peer, Streams, RefInv
  <2> QED
    BY <1>1, <1>5, <1>6, <1>7, <2>1 DEF Flow, Live
<1>10. UserGone' <=> UserGone
  BY <1>7 DEF UserGone
<1>11. Sealed("in")'
  <2>1. Sealed("in") /\ Sender("in") = "cli"
    BY DEF RefInv, Streams, Sender
  <2> QED
    BY <1>1, <1>6, <1>7, <1>10, <2>1 DEF Sealed, Over
<1>12. ASSUME NEW s \in {"out", "err"} PROVE Sealed(s)'
  <2>1. Sender(s) = e
    BY DEF Sender
  <2>2. CASE ok = TRUE
    BY <1>4, <1>6, <2>1, <2>2 DEF Sealed
  <2>3. CASE ok = FALSE
    BY <1>1, <1>7, <2>3 DEF Sealed, Over
  <2> QED
    BY <2>2, <2>3
<1>13. UserDone'
  BY <1>6, <1>10 DEF RefInv, UserDone
<1>14. Fate'
  <2>1. \A i \in 1 .. Len(net'["cli"]) : FALSE
    BY <1>6
  <2> QED
    BY <1>1, <1>4, <1>6, <1>7, <2>1 DEF RefInv, Fate
<1>15. RefInv'
  BY <1>8, <1>9, <1>11, <1>12, <1>13, <1>14 DEF RefInv, Streams
<1>16. /\ Receiver("in") = e /\ Receiver("out") = "cli" /\ Receiver("err") = "cli"
       /\ Streams = {"in", "out", "err"}
  BY DEF Receiver, Sender, Peer, Streams
<1>17. CASE ok = TRUE
  <2>1. UNCHANGED Command!vars
    BY <1>1, <1>3, <1>4, <1>5, <1>6, <1>7, <1>16, <1>17 DEF Command!vars
  <2> QED
    BY <1>15, <2>1 DEF Advances
<1>18. CASE ok = FALSE
  <2> DEFINE ends == [s \in Streams |-> ended[s] \/ (s # "in" /\ command \in {"failed", "exited"})]
             reads == [s \in Streams |-> IF ~reader[s] THEN "gone"
                                         ELSE IF chan[Receiver(s)].wfd[s] = "closed" THEN "eof"
                                         ELSE "reading"]
  <2>1. ends' = [ends EXCEPT !["out"] = TRUE, !["err"] = TRUE]
    BY <1>1, <1>3, <1>16, <1>18
  <2>2. reads' = [reads EXCEPT !["in"] = "gone"]
    <3>1. \A s \in {"out", "err"} : chan'[Receiver(s)].wfd[s] = chan[Receiver(s)].wfd[s]
      BY <1>6, <1>16
    <3>2. ASSUME NEW s \in Streams
          PROVE  reads'[s] = IF s = "in" THEN "gone" ELSE reads[s]
      BY <1>7, <1>16, <1>18, <3>1
    <3> QED
      BY <1>16, <3>2
  <2>3. Command!Exit
    BY <1>1, <1>3, <1>6, <1>18, <2>1, <2>2 DEF Command!Exit
  <2> QED
    BY <1>15, <2>3 DEF Advances, Command!Next
<1> QED
  BY <1>17, <1>18

-----------------------------------------------------------------------------
(* The programs.                                                           *)

LEMMA FlowWrite ==
    ASSUME NEW s, NEW live, NEW g, NEW b, NEW q, NEW p \in Seq(Nat), NEW w \in Nat,
           Len(g) \in Nat, FlowOf(s, live, g, b, q, p, w)
    PROVE  FlowOf(s, live, g, b, q, Append(p, w + 1), w + 1)
<1> DEFINE r == Append(p, w + 1)
<1>1. /\ Len(p) \in Nat /\ Len(r) = Len(p) + 1 /\ r[Len(p) + 1] = w + 1
      /\ \A i \in 1 .. Len(p) : r[i] = p[i]
  OBVIOUS
<1> HIDE DEF r
<1>2. Follows(p, w - Len(p)) /\ Len(p) <= w /\ Len(g) <= w
  BY DEF FlowOf
<1>3. (w + 1) - Len(r) = w - Len(p) /\ Len(r) <= w + 1 /\ Len(g) <= w + 1
  BY <1>1, <1>2
<1>4. Follows(r, w - Len(p))
  BY <1>1, <1>2 DEF Follows
<1> QED
  BY <1>3, <1>4 DEF FlowOf, r

(* A program writes a byte, ends or goes away.                             *)
LEMMA ProgramKeeps ==
    ASSUME SessionInv, RefInv, UNCHANGED <<chan, net, got>>,
           command' = command \/ (command = "running" /\ command' = "exited" /\ ~reader'["in"]),
           command = "none" => reader'["in"] = reader["in"],
           \A s \in Streams :
             /\ reader'[s] => reader[s]
             /\ \/ pipe'[s] = pipe[s] /\ written'[s] = written[s] /\ (Over(s) => Over(s)')
                \/ /\ Writes(s) /\ Connected(s)
                   /\ written'[s] = written[s] + 1 /\ pipe'[s] = Append(pipe[s], written[s] + 1)
    PROVE  RefInv'
<1>1. command' = "none" <=> command = "none"
  OBVIOUS
<1>2. UserGone => UserGone'
  BY DEF UserGone, Streams
<1>3. ASSUME NEW s \in Streams PROVE Flow(s)'
  <2> DEFINE g == got[s]
             b == chan[Receiver(s)].buf[s]
             q == net[Receiver(s)]
             p == pipe[s]
             w == written[s]
             live == Live(s)
  <2>1. p \in Seq(Nat) /\ w \in Nat /\ Len(g) \in Nat /\ FlowOf(s, live, g, b, q, p, w)
    BY DEF RefInv, Flow, SessionInv, Types
  <2>2. Live(s)' => Live(s)
    BY DEF Live
  <2>3. FlowOf(s, live, g, b, q, pipe'[s], written'[s])
    <3>1. FlowOf(s, live, g, b, q, Append(p, w + 1), w + 1)
      <4> HIDE DEF g, b, q, p, w, live
      <4> QED
        BY <2>1, FlowWrite
    <3> QED
      BY <2>1, <3>1
  <2>4. FlowOf(s, Live(s)', g, b, q, pipe'[s], written'[s])
    BY <2>2, <2>3 DEF FlowOf
  <2> QED
    BY <2>4 DEF Flow
<1>4. ASSUME NEW s \in Streams PROVE Sealed(s)'
  <2>1. Sealed(s) /\ chan'[Sender(s)].rfd[s] = chan[Sender(s)].rfd[s]
    BY DEF RefInv
  <2>2. ~reader["in"] => ~reader'["in"]
    BY DEF Streams
  <2> QED
    BY <1>1, <1>2, <2>1, <2>2 DEF Sealed, Connected
<1>5. UserDone'
  BY <1>2 DEF RefInv, UserDone
<1>6. command' \in {"none", "failed"} => \A s \in {"out", "err"} : pipe'[s] = <<>>
  <2>1. ASSUME command' \in {"none", "failed"}, NEW s \in {"out", "err"}
        PROVE  pipe'[s] = <<>>
    <3>1. command = command' /\ ~Writes(s) /\ pipe[s] = <<>> /\ s \in Streams
      BY <2>1 DEF RefInv, Fate, Writes, Streams
    <3> QED
      BY <3>1
  <2> QED
    BY <2>1
<1>7. Fate'
  <2>1. Fate /\ (reader'["in"] => reader["in"])
    BY DEF RefInv, Streams
  <2> QED
    BY <1>6, <2>1 DEF Fate
<1> QED
  BY <1>3, <1>4, <1>5, <1>7 DEF RefInv

LEMMA PipesPrograms ==
    ASSUME SessionInv, RefInv, Programs
    PROVE  Advances
<1>1. /\ pipe \in [Streams -> Seq(Nat)] /\ written \in [Streams -> Nat]
      /\ ended \in [Streams -> BOOLEAN] /\ reader \in [Streams -> BOOLEAN]
      /\ Streams = {"in", "out", "err"} /\ Command!Streams = Streams
  BY DEF SessionInv, Types, Streams, Command!Streams
<1>2. ASSUME NEW s \in Streams, ProgramWrites(s) PROVE Advances
  <2>1. /\ Writes(s) /\ Connected(s) /\ ~ended[s]
        /\ written' = [written EXCEPT ![s] = @ + 1]
        /\ pipe' = [pipe EXCEPT ![s] = Append(@, written[s] + 1)]
        /\ UNCHANGED <<chan, net, ended, reader, got, command>>
    BY <1>2 DEF ProgramWrites
  <2>2. \A r \in Streams : Over(r)' = Over(r)
    BY <2>1 DEF Over
  <2>3. RefInv'
    BY <1>1, <2>1, <2>2, ProgramKeeps
  <2>4. Command!Write(s)
    BY <1>1, <2>1 DEF Command!Write, Writes
  <2> QED
    BY <1>1, <2>3, <2>4 DEF Advances, Command!Next
<1>3. ASSUME NEW s \in Streams, ProgramEnds(s) PROVE Advances
  <2>1. /\ ended' = [ended EXCEPT ![s] = TRUE]
        /\ UNCHANGED <<chan, net, pipe, written, reader, got, command>>
    BY <1>3 DEF ProgramEnds
  <2>2. \A r \in Streams : Over(r) => Over(r)'
    BY <1>1, <2>1 DEF Over
  <2>3. RefInv'
    BY <1>1, <2>1, <2>2, ProgramKeeps
  <2>4. Command!End(s)
    BY <1>1, <2>1 DEF Command!End
  <2> QED
    BY <1>1, <2>3, <2>4 DEF Advances, Command!Next
<1>4. ASSUME NEW s \in Streams, ReaderLeaves(s) PROVE Advances
  <2>1. /\ reader' = [reader EXCEPT ![s] = FALSE] /\ (s = "in" => command = "running")
        /\ UNCHANGED <<chan, net, pipe, written, ended, got, command>>
    BY <1>4 DEF ReaderLeaves
  <2>2. \A r \in Streams : Over(r)' = Over(r)
    BY <2>1 DEF Over
  <2>3. RefInv'
    BY <1>1, <2>1, <2>2, ProgramKeeps
  <2>4. Command!Leave(s)
    BY <1>1, <2>1 DEF Command!Leave
  <2> QED
    BY <1>1, <2>3, <2>4 DEF Advances, Command!Next
<1>5. ASSUME NEW held, CommandExits(held) PROVE Advances
  <2>1. /\ command = "running" /\ command' = "exited"
        /\ ended' = [s \in Streams |-> ended[s] \/ s \in {"out", "err"} \ held]
        /\ reader' = [reader EXCEPT !["in"] = FALSE]
        /\ UNCHANGED <<chan, net, pipe, written, got>>
    BY <1>5 DEF CommandExits
  <2>2. \A r \in Streams : Over(r) => Over(r)'
    BY <1>1, <2>1 DEF Over
  <2>3. RefInv'
    BY <1>1, <2>1, <2>2, ProgramKeeps
  <2>4. Command!Exit
    BY <1>1, <2>1 DEF Command!Exit
  <2> QED
    BY <2>3, <2>4 DEF Advances, Command!Next
<1> QED
  BY <1>2, <1>3, <1>4, <1>5 DEF Programs

-----------------------------------------------------------------------------
LEMMA PipesStep ==
    ASSUME SessionInv, RefInv, ~Pty, [Next]_vars
    PROVE  Advances
<1>0. SessionInv'
  BY SessionStep
<1>1. ASSUME NEW e \in Ends, Packet(e) PROVE Advances
  BY <1>0, <1>1, PipesData, PipesAdjust, PipesEnd DEF Packet
<1>2. ASSUME NEW s \in Streams,
             ReadAndSend(s) \/ WriteError(s) \/ \E n \in 1 .. Window : WriteBuffered(s, n)
      PROVE  Advances
  BY <1>0, <1>2, PipesRead, PipesWriteError, PipesWrite
<1>3. CASE recv_msg_channel_open
  BY <1>0, <1>3, PipesOpen
<1>4. CASE recv_msg_channel_open_confirmation
  BY <1>0, <1>4, PipesConfirm
<1>5. CASE sessioncommand(TRUE) \/ sessioncommand(FALSE)
  BY <1>0, <1>5, PipesCommand
<1>6. CASE cli_chansessreq
  BY <1>0, <1>6, PipesStatus, PipesKilled DEF cli_chansessreq
<1>7. CASE \E signal \in ExitSignals : svr_chansess_checksignal(signal)
  BY <1>0, <1>7, PipesSignal
<1>8. CASE Programs
  BY <1>8, PipesPrograms
<1>9. CASE UNCHANGED vars
  <2>1. UNCHANGED <<chan, net, pipe, written, ended, reader, got, command>>
    BY <1>9 DEF vars, env
  <2>2. UNCHANGED Command!vars
    BY <2>1 DEF Command!vars
  <2>3. \A s \in Streams : Over(s)' = Over(s)
    BY <2>1 DEF Over
  <2>4. RefInv'
    BY <2>1, <2>3, ProgramKeeps
  <2> QED
    BY <2>2, <2>4 DEF Advances
<1> QED
  BY <1>1, <1>2, <1>3, <1>4, <1>5, <1>6, <1>7, <1>8, <1>9 DEF Next, Loop

LEMMA PipesInit == Init => RefInv /\ Command!Init
<1> SUFFICES ASSUME Init PROVE RefInv /\ Command!Init
  OBVIOUS
<1>1. /\ pipe = [s \in Streams |-> <<>>] /\ written = [s \in Streams |-> 0]
      /\ ended = [s \in Streams |-> FALSE] /\ reader = [s \in Streams |-> TRUE]
      /\ got = [s \in Streams |-> <<>>] /\ command = "none"
      /\ chan["cli"] = Channel("cli") /\ chan["svr"] = Channel("svr")
      /\ net["cli"] = <<>> /\ net["svr"] = <<[type |-> "OPEN", incr |-> Window]>>
  BY DEF Init, Ends
<1>2. /\ Receiver("in") = "svr" /\ Receiver("out") = "cli" /\ Receiver("err") = "cli"
      /\ Sender("in") = "cli" /\ Streams = {"in", "out", "err"}
      /\ WriteStreams("cli") = {"out", "err"} /\ WriteStreams("svr") = {"in"}
      /\ ReadStreams("cli") = {"in"}
  BY DEF Receiver, Sender, Peer, Streams, WriteStreams, ReadStreams
<1>3. /\ \A s \in {"out", "err"} : Channel("cli").wfd[s] = "open" /\ Channel("cli").buf[s] = <<>>
      /\ Channel("svr").wfd["in"] = "uninit" /\ Channel("svr").buf["in"] = <<>>
      /\ Channel("cli").rfd["in"] = "open"
      /\ Channel("cli").status = FALSE /\ ~Channel("svr").status
      /\ ~Channel("cli").flushing /\ ~Channel("svr").flushing /\ ~Channel("svr").sent_close
  BY <1>2 DEF Channel
<1>4. ASSUME NEW s \in Streams PROVE Flow(s)
  <2> DEFINE q == net[Receiver(s)]
  <2>1. got[s] = <<>> /\ pipe[s] = <<>> /\ written[s] = 0 /\ chan[Receiver(s)].buf[s] = <<>>
    BY <1>1, <1>2, <1>3
  <2>2. Spans(q, s, 0, 0)
    <3>1. Len(q) \in Nat /\ \A i \in 1 .. Len(q) : ~Carries(q[i], s)
      BY <1>1, <1>2 DEF Carries
    <3> HIDE DEF q
    <3> DEFINE f == [i \in 0 .. Len(q) |-> 0]
    <3>2. f \in [0 .. Len(q) -> Nat] /\ f[0] = 0 /\ f[Len(q)] = 0
          /\ \A i \in 1 .. Len(q) : f[i] = 0 /\ f[i - 1] = 0
      BY <3>1
    <3> HIDE DEF f
    <3> QED
      BY <3>1, <3>2 DEF Spans, Brings
  <2>3. Follows(<<>>, 0) /\ Len(<<>>) = 0 /\ 0 - 0 = 0 /\ 0 + 0 = 0
    BY DEF Follows
  <2> HIDE DEF q
  <2> QED
    BY <2>1, <2>2, <2>3 DEF Flow, FlowOf, q
<1>5. \A s \in Streams : Sealed(s)
  BY <1>1, <1>2, <1>3 DEF Sealed
<1>6. UserDone /\ Fate
  BY <1>1, <1>2, <1>3 DEF UserDone, Fate
<1>7. Command!Init
  <2>1. \A s \in Streams : ~ended[s] /\ reader[s] /\ chan[Receiver(s)].wfd[s] # "closed"
    BY <1>1, <1>2, <1>3
  <2> QED
    BY <1>1, <1>2, <1>3, <2>1 DEF Command!Init, Command!Streams
<1> QED
  BY <1>4, <1>5, <1>6, <1>7 DEF RefInv

(* Without a terminal, the session channel joins the programs by three     *)
(* pipes: whatever the window, the packet size and the order in which the  *)
(* two ends, the network and the programs take their steps, each step of   *)
(* common-channel.c, svr-chansession.c and cli-chansession.c is a step of  *)
(* RemoteCommand or changes nothing that the programs see.  Bytes arrive   *)
(* complete and in order, a program sees the end of its stream only after  *)
(* all of it, unless the user has gone, and the user learns an exit status *)
(* only of a command that has exited.                                      *)
THEOREM SshThreePipes ==
    ASSUME ~Pty
    PROVE  Spec => ThreePipes
<1>1. SessionInv /\ RefInv /\ [Next]_vars => RefInv' /\ [Command!Next]_(Command!vars)
  BY PipesStep DEF Advances
<1> QED
  BY <1>1, PipesInit, SshSessionInvariant, PTL DEF Spec, ThreePipes, Command!Spec
==============================================================================
