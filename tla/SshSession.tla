----------------------------- MODULE SshSession -----------------------------
(***************************************************************************)
(* One session channel of Dropbear (packages/dropbear-2026.91/source/src): *)
(* common-channel.c at both ends, svr-chansession.c at the server and      *)
(* cli-chansession.c at the client, for one command from the channel open  *)
(* to the removal of the channel.                                          *)
(*                                                                         *)
(* Each end runs session_loop: one packet is processed, or one descriptor  *)
(* that select() reports is served, in a step.  The transport under the    *)
(* channel is reliable and ordered.  A descriptor belongs to a stream; the *)
(* sending end reads it (rfd), the receiving end writes it (wfd).          *)
(***************************************************************************)
EXTENDS Integers, SequencesExt

CONSTANTS
    Window,      \* opts.recv_window, at both ends
    MaxPacket,   \* transmaxpacket
    Bytes,       \* Bytes[s]: bound on the bytes programs write to stream s
    CanLeave,    \* streams whose reader may go away while the session runs
    Lingers,     \* streams that processes the command leaves behind may hold
    ExitSignals, \* exit.exitsignal: -1 ("none"), in signames or not ("nameless")
    SpawnFails,  \* the server may be unable to start the command
    Pty          \* the command runs on a pseudo-terminal

Streams == {"in", "out", "err"}
Ends == {"cli", "svr"}

ASSUME SshSessionAssumption ==
    /\ Window \in Nat /\ Window >= 3 /\ MaxPacket \in Nat \ {0}
    /\ Bytes \in [Streams -> Nat]
    /\ CanLeave \subseteq Streams /\ Lingers \subseteq {"out", "err"}
    /\ ExitSignals \subseteq {"none", "named", "nameless"}
    /\ SpawnFails \in BOOLEAN /\ Pty \in BOOLEAN

Peer(e) == IF e = "cli" THEN "svr" ELSE "cli"
Sender(s) == IF s = "in" THEN "cli" ELSE "svr"
Receiver(s) == Peer(Sender(s))

ReadStreams(e) == { s \in Streams : Sender(s) = e }
WriteStreams(e) == { s \in Streams : Receiver(s) = e }

(* The stream of writefd; the client writes a second one through errfd.    *)
Main(e) == IF e = "cli" THEN "out" ELSE "in"

(* RECV_WINDOWEXTEND                                                       *)
WindowExtend == Window \div 3

VARIABLES
    chan,      \* chan[e]: struct Channel at end e
    net,       \* net[e]: the packets on their way to e
    fatal,     \* fatal[e]: the dropbear_exit or assertion that ended e
    pipe,      \* pipe[s]: bytes the program has written and rfd has to read
    written,   \* written[s]: how many bytes have been written to it
    ended,     \* ended[s]: reading the empty pipe gives end of file
    reader,    \* reader[s]: the program behind wfd still reads
    got,       \* got[s]: the bytes it has received
    command    \* "none", "failed" (to start), "running", "exited"

env == <<pipe, written, ended, reader, got, command>>
vars == <<chan, net, fatal, env>>

(* newchannel, filled in by cli_init_stdpipe_sess at the client.  At the   *)
(* server errfd is closed and the others uninitialised until the command   *)
(* starts.                                                                 *)
Channel(e) ==
    [ open |-> e = "cli", transwindow |-> 0, recvwindow |-> Window, recvdonelen |-> 0,
      sent_eof |-> FALSE, recv_eof |-> FALSE, sent_close |-> FALSE, recv_close |-> FALSE,
      pid |-> FALSE, flushing |-> FALSE, status |-> FALSE, exitsignal |-> "none",
      rfd |-> [s \in ReadStreams(e) |->
                 IF e = "cli" THEN "open" ELSE IF s = "err" THEN "closed" ELSE "uninit"],
      wfd |-> [s \in WriteStreams(e) |-> IF e = "cli" THEN "open" ELSE "uninit"],
      buf |-> [s \in WriteStreams(e) |-> <<>>],
      out |-> <<>> ]

Init ==
    /\ chan = [e \in Ends |-> Channel(e)]
    /\ net = [e \in Ends |-> IF e = "svr" THEN <<[type |-> "OPEN", incr |-> Window]>> ELSE <<>>]
    /\ fatal = [e \in Ends |-> "no"]
    /\ pipe = [s \in Streams |-> <<>>]
    /\ written = [s \in Streams |-> 0]
    /\ ended = [s \in Streams |-> FALSE]
    /\ reader = [s \in Streams |-> TRUE]
    /\ got = [s \in Streams |-> <<>>]
    /\ command = "none"

-----------------------------------------------------------------------------
(* The helpers of common-channel.c, as functions of the channel c of end e. *)
(* Packets that they send are appended to c.out.                           *)

Put(c, m) == [c EXCEPT !.out = Append(@, m)]

(* write_pending                                                           *)
write_pending(c) == \E s \in DOMAIN c.wfd : c.wfd[s] = "open" /\ c.buf[s] # <<>>

(* close_chan_fd: readfd and writefd are one descriptor on a terminal, and *)
(* equal (FD_UNINIT) when no command was started.                          *)
Coupled(e, c) == e = "svr" /\ (Pty \/ ~c.pid)

CloseRead(e, c, s) ==
    [c EXCEPT !.rfd[s] = "closed",
              !.wfd = [w \in DOMAIN @ |-> IF Coupled(e, c) /\ s = "out" THEN "closed" ELSE @[w]]]

CloseWrite(e, c, s) ==
    [c EXCEPT !.wfd[s] = "closed",
              !.rfd = [r \in DOMAIN @ |-> IF Coupled(e, c) /\ r = "out" THEN "closed" ELSE @[r]]]

(* send_msg_channel_eof                                                    *)
send_msg_channel_eof(c) == [Put(c, [type |-> "EOF"]) EXCEPT !.sent_eof = TRUE]

(* The server's closehandler, send_exitsignalstatus: the exit status, or   *)
(* the signal that killed the command; of a signal without a name nothing  *)
(* is said.                                                                *)
closehandler(e, c) ==
    IF e = "svr" /\ c.status
      THEN CASE c.exitsignal = "none"  -> Put(c, [type |-> "STATUS"])
             [] c.exitsignal = "named" -> Put(c, [type |-> "SIGNAL"])
             [] OTHER                  -> c
      ELSE c

(* Fault: the exit status follows the close.                               *)
CloseThenStatus(e, c) ==
    LET d == [Put(c, [type |-> "CLOSE"]) EXCEPT
                 !.sent_eof = TRUE, !.sent_close = TRUE,
                 !.rfd = [s \in DOMAIN @ |-> "closed"],
                 !.wfd = [s \in DOMAIN @ |-> "closed"]]
    IN  closehandler(e, d)

(* send_msg_channel_close: after the closehandler; all descriptors are     *)
(* closed.                                                                 *)
send_msg_channel_close(e, c) ==
    [Put(closehandler(e, c), [type |-> "CLOSE"]) EXCEPT
        !.sent_eof = TRUE, !.sent_close = TRUE,
        !.rfd = [s \in DOMAIN @ |-> "closed"],
        !.wfd = [s \in DOMAIN @ |-> "closed"]]

remove_channel(c) == [c EXCEPT !.open = FALSE,
                               !.rfd = [s \in DOMAIN @ |-> "closed"],
                               !.wfd = [s \in DOMAIN @ |-> "closed"]]

(* sesscheckclose, for server sessions: the command has never started or   *)
(* its exit is known (c.status).                                           *)
close_allowed(e, c) == e = "cli" \/ c.sent_close \/ ~c.pid \/ c.status

(* Fault: descriptors are left to end by themselves.                       *)
NoFlush(e, c, unread) == c

(* In flushing mode a descriptor with nothing to read is closed; unread is *)
(* what select() finds in the pipes.                                       *)
Flush(e, c, unread) ==
    LET flushing == c.flushing \/ (e = "svr" /\ ~c.sent_close /\ c.status)
        idle == { s \in DOMAIN c.rfd : c.rfd[s] = "open" /\ unread[s] = <<>> /\ ~ended[s] }
        d == [c EXCEPT !.flushing = flushing]
    IN  IF ~flushing \/ idle = {} THEN d
        ELSE [d EXCEPT !.rfd = [s \in DOMAIN @ |-> IF s \in idle THEN "closed" ELSE @[s]],
                       !.wfd = [w \in DOMAIN @ |->
                                   IF Coupled(e, c) /\ "out" \in idle THEN "closed" ELSE @[w]]]

NothingToSend(c) == \A s \in DOMAIN c.rfd : c.rfd[s] = "closed"

(* Fault: the end of the input overtakes the data buffered for it.         *)
CloseStdinAtOnce(e, c) == IF c.recv_eof THEN CloseWrite(e, c, Main(e)) ELSE c

(* The three steps at the end of check_close.                              *)
CloseStdin(e, c) ==
    IF \/ c.recv_eof /\ ~write_pending(c)
       \/ e = "svr" /\ c.wfd["in"] # "uninit" /\ close_allowed(e, c)
      THEN CloseWrite(e, c, Main(e)) ELSE c

(* Fault: the end of one stream is taken for the end of both.              *)
EofTooEarly(c) ==
    IF ~c.sent_eof /\ \E s \in DOMAIN c.rfd : c.rfd[s] = "closed"
      THEN send_msg_channel_eof(c) ELSE c

SendEof(c) == IF ~c.sent_eof /\ NothingToSend(c) THEN send_msg_channel_eof(c) ELSE c

SendClose(e, c) ==
    IF /\ NothingToSend(c) /\ c.wfd[Main(e)] = "closed"
       /\ ~c.sent_close /\ close_allowed(e, c) /\ ~write_pending(c)
      THEN send_msg_channel_close(e, c) ELSE c

(* check_close: the set of the one channel it leaves.                      *)
check_close(e, chan0, unread) ==
    LET Closed(c) == IF c.sent_close THEN c ELSE send_msg_channel_close(e, c)
        Ended(c) == { SendEof(d) : d \in {CloseStdin(e, c)} }
    IN  UNION { IF c.recv_close /\ ~write_pending(c) /\ close_allowed(e, c)
                  THEN { remove_channel(Closed(c)) }
                  ELSE { SendClose(e, d) : d \in Ended(c) } : c \in {Flush(e, chan0, unread)} }

(* Fault: the bytes counted are granted again and again.                   *)
ExtendKeepsCount(chan0, n) ==
    LET done == chan0.recvdonelen + n
    IN  IF done >= WindowExtend
          THEN [Put(chan0, [type |-> "ADJUST", incr |-> done]) EXCEPT
                   !.recvwindow = @ + done, !.recvdonelen = done]
          ELSE [chan0 EXCEPT !.recvdonelen = done]

(* Fault: the window is granted to the other side but not kept.            *)
GrantOnly(chan0, n) ==
    LET done == chan0.recvdonelen + n
    IN  IF done >= WindowExtend
          THEN [Put(chan0, [type |-> "ADJUST", incr |-> done]) EXCEPT !.recvdonelen = 0]
          ELSE [chan0 EXCEPT !.recvdonelen = done]

(* writechannel, after n bytes went out: the window is extended when a     *)
(* third of it has been consumed.                                          *)
ExtendWindow(chan0, n) ==
    LET done == chan0.recvdonelen + n
    IN  IF done >= WindowExtend
          THEN [Put(chan0, [type |-> "ADJUST", incr |-> done]) EXCEPT
                   !.recvwindow = @ + done, !.recvdonelen = 0]
          ELSE [chan0 EXCEPT !.recvdonelen = done]

(* The assertions of writechannel.                                         *)
WindowFits(c) ==
    /\ c.recvwindow <= Window
    /\ \A s \in DOMAIN c.buf : c.recvwindow <= Window - Len(c.buf[s])

-----------------------------------------------------------------------------
(* The step of end e leaves its channel as the one in C and sends what its *)
(* out holds.                                                              *)
Commit(e, C) ==
    /\ \E c \in C : /\ chan' = [chan EXCEPT ![e] = [c EXCEPT !.out = <<>>]]
                   /\ net' = [net EXCEPT ![Peer(e)] = @ \o c.out]
    /\ UNCHANGED fatal

(* dropbear_exit, or a dropbear_assert that does not hold.                 *)
Die(e, why) ==
    /\ fatal' = [fatal EXCEPT ![e] = why]
    /\ UNCHANGED <<chan, net>>

Up(e) == fatal[e] = "no" /\ chan[e].open

(* channelio, readfd or errfd readable: send_msg_channel_data, check_close. *)
Chunk(c, s) == Min({c.transwindow, MaxPacket, Len(pipe[s])})

ReadAndSend(s) ==
    LET e == Sender(s)
        c == chan[e]
        n == Chunk(c, s)
        rest == [pipe EXCEPT ![s] = SubSeq(@, n + 1, Len(@))]
        data == [type |-> "DATA", stream |-> s, data |-> SubSeq(pipe[s], 1, n)]
    IN  /\ Up(e)
        /\ c.rfd[s] = "open" /\ c.transwindow > 0
        /\ pipe[s] # <<>> \/ ended[s]
        /\ IF c.sent_close THEN Die(e, "assert sent_close")
           ELSE IF n > 0
             THEN Commit(e, check_close(e, [Put(c, data) EXCEPT !.transwindow = @ - n], rest))
             ELSE Commit(e, check_close(e, CloseRead(e, c, s), rest))
        /\ pipe' = rest
        /\ UNCHANGED <<written, ended, reader, got, command>>

(* channelio, writefd or errfd writable: n of the buffered bytes go out.   *)
WriteBuffered(s, n) ==
    LET e == Receiver(s)
        c == chan[e]
        d == ExtendWindow([c EXCEPT !.buf[s] = SubSeq(@, n + 1, Len(@))], n)
    IN  /\ Up(e)
        /\ c.wfd[s] = "open" /\ n \in 1 .. Len(c.buf[s])
        /\ reader[s]
        /\ got' = [got EXCEPT ![s] = @ \o SubSeq(c.buf[s], 1, n)]
        /\ IF WindowFits(d) THEN Commit(e, check_close(e, d, pipe)) ELSE Die(e, "assert window")
        /\ UNCHANGED <<pipe, written, ended, reader, command>>

(* The same when the reader has gone: the descriptor is closed.            *)
WriteError(s) ==
    LET e == Receiver(s)
        c == chan[e]
    IN  /\ Up(e)
        /\ c.wfd[s] = "open" /\ c.buf[s] # <<>>
        /\ ~reader[s]
        /\ Commit(e, check_close(e, CloseWrite(e, c, s), pipe))
        /\ UNCHANGED env

-----------------------------------------------------------------------------
(* process_packet, for the packet m that end e reads next.                 *)
Take(e) == /\ fatal[e] = "no"
           /\ net[e] # <<>>

recv_msg(e, t) == Take(e) /\ Head(net[e]).type = t

(* As Commit, for a handler, which has consumed the packet.                *)
Consumed(e, C) ==
    /\ \E c \in C : /\ chan' = [chan EXCEPT ![e] = [c EXCEPT !.out = <<>>]]
                   /\ net' = [net EXCEPT ![e] = Tail(@), ![Peer(e)] = @ \o c.out]
    /\ UNCHANGED fatal

(* getchannel: a packet for a channel that is not there is fatal.          *)
Handled(e, C) ==
    IF chan[e].open THEN Consumed(e, C) ELSE Die(e, "unknown channel")

(* The server: newchannel and the confirmation.                            *)
recv_msg_channel_open ==
    /\ recv_msg("svr", "OPEN")
    /\ Consumed("svr", {Put([Channel("svr") EXCEPT !.open = TRUE,
                                                  !.transwindow = Head(net["svr"]).incr],
                           [type |-> "CONFIRM", incr |-> Window])})
    /\ UNCHANGED env

(* The client: the inithandler requests the command.                       *)
recv_msg_channel_open_confirmation ==
    /\ recv_msg("cli", "CONFIRM")
    /\ Handled("cli", {Put([chan["cli"] EXCEPT !.transwindow = Head(net["cli"]).incr],
                           [type |-> "EXEC"])})
    /\ UNCHANGED env

(* chansessionrequest, sessioncommand: the command starts, or not; the     *)
(* client wanted no reply.                                                 *)
sessioncommand(ok) ==
    LET c == chan["svr"]
    IN  /\ recv_msg("svr", "EXEC")
        /\ ok \/ SpawnFails
        /\ IF ok
             THEN Handled("svr", {[c EXCEPT !.pid = TRUE, !.wfd["in"] = "open",
                                            !.rfd = [s \in DOMAIN @ |->
                                                       IF Pty /\ s = "err" THEN "closed" ELSE "open"]]})
             ELSE Handled("svr", {c})
        /\ command' = IF ok THEN "running" ELSE "failed"
        /\ reader' = [reader EXCEPT !["in"] = ok]
        /\ UNCHANGED <<pipe, written, ended, got>>

(* common_recv_msg_channel_data: data for a closed descriptor is dropped;  *)
(* what the descriptor does not take now (n bytes) is buffered.            *)
recv_msg_channel_data(e, n) ==
    LET c == chan[e]
        m == Head(net[e])
        s == m.stream
        len == Len(m.data)
        all == c.buf[s] \o m.data
        d == [c EXCEPT !.recvwindow = @ - len]
        kept == Max({0, Len(c.buf[s]) - n})
        w == ExtendWindow([d EXCEPT !.buf[s] = SubSeq(@, Len(@) - kept + 1, Len(@))], n)
    IN  /\ recv_msg(e, "DATA")
        /\ IF ~c.open THEN n = 0 /\ Die(e, "unknown channel") /\ UNCHANGED got
           ELSE IF c.recv_eof THEN n = 0 /\ Die(e, "data after eof") /\ UNCHANGED got
           ELSE IF c.wfd[s] # "open" THEN n = 0 /\ Handled(e, {c}) /\ UNCHANGED got
           ELSE IF len > Window - Len(c.buf[s]) THEN n = 0 /\ Die(e, "oversized") /\ UNCHANGED got
           ELSE IF len > c.recvwindow THEN n = 0 /\ Die(e, "assert recvwindow") /\ UNCHANGED got
           ELSE IF ~reader[s]
             THEN n = 0 /\ Handled(e, {CloseWrite(e, d, s)}) /\ UNCHANGED got
           ELSE /\ n \in 0 .. Len(all)
                /\ got' = [got EXCEPT ![s] = @ \o SubSeq(all, 1, n)]
                /\ IF WindowFits(w)
                     THEN Handled(e, {[w EXCEPT !.buf[s] = SubSeq(all, n + 1, Len(all))]})
                     ELSE Die(e, "assert window")
        /\ UNCHANGED <<pipe, written, ended, reader, command>>

recv_msg_channel_window_adjust(e) ==
    /\ recv_msg(e, "ADJUST")
    /\ Handled(e, {[chan[e] EXCEPT !.transwindow = @ + Head(net[e]).incr]})
    /\ UNCHANGED env

recv_msg_channel_eof(e) ==
    /\ recv_msg(e, "EOF")
    /\ Handled(e, check_close(e, [chan[e] EXCEPT !.recv_eof = TRUE], pipe))
    /\ UNCHANGED env

recv_msg_channel_close(e) ==
    /\ recv_msg(e, "CLOSE")
    /\ Handled(e, check_close(e, [chan[e] EXCEPT !.recv_eof = TRUE, !.recv_close = TRUE], pipe))
    /\ UNCHANGED env

(* cli_chansessreq: the exit status becomes the client's own, the signal   *)
(* is ignored.                                                             *)
cli_chansessreq ==
    /\ \/ recv_msg("cli", "STATUS") /\ Handled("cli", {[chan["cli"] EXCEPT !.status = TRUE]})
       \/ recv_msg("cli", "SIGNAL") /\ Handled("cli", {chan["cli"]})
    /\ UNCHANGED env

(* SIGCHLD woke select(): svr_chansess_checksignal records the exit and    *)
(* the signal that waitpid() tells of, then channelio checks every channel. *)
svr_chansess_checksignal(signal) ==
    /\ Up("svr")
    /\ command = "exited" /\ ~chan["svr"].status
    /\ Commit("svr", check_close("svr", [chan["svr"] EXCEPT !.status = TRUE,
                                                           !.exitsignal = signal], pipe))
    /\ UNCHANGED env

-----------------------------------------------------------------------------
(* The programs.                                                           *)

(* The user, the command or, when it has exited, a process it left behind. *)
Writes(s) == s = "in" \/ command \in {"running", "exited"}

(* The other end of the pipe is open: without it nothing can be written.   *)
Connected(s) == chan[Sender(s)].rfd[s] # "closed"

ProgramWrites(s) ==
    /\ Writes(s) /\ Connected(s) /\ ~ended[s] /\ written[s] < Bytes[s]
    /\ written' = [written EXCEPT ![s] = @ + 1]
    /\ pipe' = [pipe EXCEPT ![s] = Append(@, written[s] + 1)]
    /\ UNCHANGED <<chan, net, fatal, ended, reader, got, command>>

ProgramEnds(s) ==
    /\ Writes(s) /\ Connected(s) /\ ~ended[s]
    /\ ended' = [ended EXCEPT ![s] = TRUE]
    /\ UNCHANGED <<chan, net, fatal, pipe, written, reader, got, command>>

(* The reader goes away before it has seen the end of the stream.          *)
ReaderLeaves(s) ==
    /\ s \in CanLeave /\ reader[s]
    /\ chan[Receiver(s)].wfd[s] # "closed"
    /\ s = "in" => command = "running"
    /\ reader' = [reader EXCEPT ![s] = FALSE]
    /\ UNCHANGED <<chan, net, fatal, pipe, written, ended, got, command>>

(* The command exits; processes it left behind keep the streams in held    *)
(* open and may go on writing to them.                                     *)
CommandExits(held) ==
    /\ command = "running"
    /\ command' = "exited"
    /\ ended' = [s \in Streams |-> ended[s] \/ s \in {"out", "err"} \ held]
    /\ reader' = [reader EXCEPT !["in"] = FALSE]
    /\ UNCHANGED <<chan, net, fatal, pipe, written, got>>

-----------------------------------------------------------------------------
Packet(e) ==
    \/ \E n \in 0 .. Window : recv_msg_channel_data(e, n)
    \/ recv_msg_channel_window_adjust(e)
    \/ recv_msg_channel_eof(e) \/ recv_msg_channel_close(e)

(* Steps of the two processes.                                             *)
Loop ==
    \/ recv_msg_channel_open \/ recv_msg_channel_open_confirmation \/ sessioncommand(TRUE)
    \/ cli_chansessreq \/ \E signal \in ExitSignals : svr_chansess_checksignal(signal)
    \/ \E e \in Ends : Packet(e)
    \/ \E s \in Streams : \/ ReadAndSend(s) \/ WriteError(s)
                          \/ \E n \in 1 .. Window : WriteBuffered(s, n)

Programs ==
    \/ \E s \in Streams : ProgramWrites(s) \/ ProgramEnds(s) \/ ReaderLeaves(s)
    \/ \E held \in SUBSET Lingers : CommandExits(held)

Next == Loop \/ sessioncommand(FALSE) \/ Programs

(* Both processes and the network go on as long as they have something to  *)
(* do, and programs that read take what they are offered.  Nothing obliges *)
(* a program to write, to end or to exit.                                  *)
Spec == Init /\ [][Next]_vars /\ WF_vars(Loop)

-----------------------------------------------------------------------------
Fds == {"open", "closed", "uninit"}

TypeOK ==
    /\ \A e \in Ends :
         /\ chan[e].transwindow \in 0 .. Window /\ chan[e].recvwindow \in 0 .. Window
         /\ chan[e].recvdonelen \in 0 .. WindowExtend - 1
         /\ chan[e].rfd \in [ReadStreams(e) -> Fds] /\ chan[e].wfd \in [WriteStreams(e) -> Fds]
         /\ \A s \in WriteStreams(e) : Len(chan[e].buf[s]) <= Window
    /\ chan["svr"].exitsignal \in {"none", "named", "nameless"}
    /\ command \in {"none", "failed", "running", "exited"}

(* No dropbear_exit and no assertion of the channel code is reached by two *)
(* ends that run this code, whatever order closing, failing writes and     *)
(* data in flight come in: "Received data after eof", "Oversized packet",  *)
(* "Unknown channel", the window assertions of writechannel.               *)
NeverFatal == \A e \in Ends : fatal[e] = "no"

Total(q) ==
    LET sum[i \in 0 .. Len(q)] == IF i = 0 THEN 0 ELSE sum[i - 1] + q[i] IN sum[Len(q)]

DataOf(m) == IF m.type = "DATA" THEN Len(m.data) ELSE 0
CreditOf(m) == IF m.type \in {"OPEN", "CONFIRM", "ADJUST"} THEN m.incr ELSE 0

(* The bytes of data, and the window credit, in a queue of packets.        *)
DataIn(q) == Total([i \in 1 .. Len(q) |-> DataOf(q[i])])
CreditIn(q) == Total([i \in 1 .. Len(q) |-> CreditOf(q[i])])
Buffered(c) ==
    LET held(s) == IF s \in DOMAIN c.buf THEN Len(c.buf[s]) ELSE 0
    IN  held("in") + held("out") + held("err")

(* Flow control: what one end may still send, what is under way to the     *)
(* other and what is being granted add up to the window the other keeps,   *)
(* which is always backed by free space in its buffers; only data dropped  *)
(* behind a closed descriptor is missing from both sums.                   *)
WindowConserved ==
    \A e \in Ends :
        LET c == chan[Peer(e)]
            sendable == chan[e].transwindow + DataIn(net[Peer(e)]) + CreditIn(net[e])
            backed == c.recvwindow + c.recvdonelen + Buffered(c)
        IN  chan[e].open /\ c.open =>
              /\ sendable <= c.recvwindow /\ backed <= Window
              /\ (\A s \in DOMAIN c.wfd : c.wfd[s] = "open") =>
                    sendable = c.recvwindow /\ backed = Window

(* A client whose channel is gone has the exit status of its command,      *)
(* unless there is none, for a signal killed it or it never started: the   *)
(* server closes only when the command has exited, and sends the status    *)
(* before the close.                                                       *)
StatusReported ==
    ~chan["cli"].open =>
        chan["cli"].status \/ command = "failed" \/ chan["svr"].exitsignal # "none"

(* The channel joins the programs by three pipes: bytes arrive complete    *)
(* and in order, and a program sees the end of a stream only when it has   *)
(* all of it, also what processes left behind could still write after the  *)
(* command exited, unless a program of the user has gone.                  *)
Command == INSTANCE RemoteCommand WITH
    ended <- [s \in Streams |-> ended[s] \/ (s # "in" /\ command \in {"failed", "exited"})],
    reader <- [s \in Streams |-> IF ~reader[s] THEN "gone"
                                 ELSE IF chan[Receiver(s)].wfd[s] = "closed" THEN "eof"
                                 ELSE "reading"],
    exited <- command = "exited",
    status <- chan["cli"].status

ThreePipes == Command!Spec

(* The session of a command that has exited ends: both sides have closed   *)
(* and the client is through, while the user reads both streams; its input *)
(* may stay open and idle, and processes left behind may hold the streams  *)
(* and write some more, though not for ever.                               *)
SessionEnds ==
    command = "exited" ~> \/ ~chan["cli"].open /\ chan["svr"].sent_close
                          \/ ~reader["out"] \/ ~reader["err"]

(* "Handle channel closure(), respond in kind and close the channels": a   *)
(* channel that both sides have closed is removed.                         *)
ClosedIsRemoved ==
    \A e \in Ends : chan[e].sent_close /\ chan[e].recv_close ~> ~chan[e].open

(* "If we have encountered failed write, the far side might still be       *)
(* sending data without having yet received our close notification": a     *)
(* session whose output cannot be written is closed.                       *)
FailedWriteCloses ==
    chan["cli"].wfd["out"] = "closed" ~> chan["cli"].sent_close

(* "The channel isn't closed yet, it is left until the incoming (from the  *)
(* program etc) FD is also EOF": the end of the input does not cut the     *)
(* output of a command that runs.                                          *)
EofKeepsOutput ==
    chan["svr"].rfd["out"] = "closed" => ended["out"] \/ command # "running"
=============================================================================
