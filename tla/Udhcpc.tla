------------------------------- MODULE Udhcpc -------------------------------
(***************************************************************************)
(* packages/busybox/source/networking/udhcp/dhcpc.c: the DHCP client that  *)
(* rpi_rootfs/etc/init.d/startup.sh starts as "udhcpc -i eth0 -n -t 5".    *)
(* The script goes on when the client has a lease and forks into the       *)
(* background, and assigns a fixed address when the client fails.          *)
(*                                                                         *)
(* The DHCP servers and the network are the environment: a reply may be    *)
(* lost, delayed, reordered or delivered twice, and operators send SIGUSR1 *)
(* (renew), SIGUSR2 (release) and SIGTERM.  Time passes in ticks, only     *)
(* while the client is in poll() or sleeps; an elapsed timeout is served   *)
(* before time goes on.                                                    *)
(***************************************************************************)
EXTENDS Integers, FiniteSets

CONSTANTS
    Servers,          \* DHCP servers; each offers an address of its own
    Leases,           \* lease times servers put into an ACK
    DiscoverTimeout,  \* discover_timeout, in ticks
    TryAgain,         \* tryagain_timeout, in ticks
    DiscoverRetries,  \* the -t option
    LeaseFloor,       \* the 30 seconds below which a lease never goes
    IntMax,           \* the largest lease_remaining
    MaxAge,           \* how long a reply can be under way, in ticks
    MaxNaks,          \* bound on the NAKs servers send
    MaxSignals,       \* bound on the signals operators send
    MaxReadErrors     \* bound on the read errors of the socket

ASSUME UdhcpcAssumption ==
    /\ Leases \subseteq Nat
    /\ {DiscoverTimeout, TryAgain, DiscoverRetries} \subseteq Nat \ {0}
    /\ LeaseFloor \in Nat \ {0} /\ IntMax \in Nat /\ LeaseFloor <= IntMax
    /\ {MaxAge, MaxNaks, MaxSignals, MaxReadErrors} \subseteq Nat

(* The half of a lease that is left at the first renewal outlasts a renewal *)
(* cut short by SIGUSR1, a second one and three rebinding packets: 3 and   *)
(* 30 seconds in the code.                                                 *)
ASSUME TimeoutAssumption == 5 * DiscoverTimeout - 1 <= LeaseFloor - LeaseFloor \div 2

None == "none"
Static == "static"            \* 192.168.1.200
ASSUME ServersAssumption ==
    /\ IsFiniteSet(Servers)
    /\ None \notin Servers /\ Static \notin Servers

SelectTries == 3              \* the literal 3 of REQUESTING and REBINDING
Forever == -1                 \* timeout = INT_MAX in state RELEASED

HoldingStates == {"BOUND", "RENEWING", "RENEW_REQUESTED", "REBINDING"}
States == {"INIT_SELECTING", "REQUESTING", "RELEASED"} \cup HoldingStates

(* A reply: lease is the time granted by an ACK, age how long it has been  *)
(* under way.                                                              *)
Replies == [type : {"OFFER", "ACK", "NAK"}, from : Servers, ip : Servers,
            lease : Leases \cup {0}, age : 0..MaxAge]

VARIABLES
    state, listen,            \* client_data.state and listen_mode
    server_id, requested_ip,
    packet_num, timeout, lease_remaining,
    opt_n,                    \* the -n option is still in force
    ip,                       \* the address the script gave to the interface
    alive,                    \* "running", "failed" (no lease), "died" or "quit"
    boot,                     \* startup.sh: "waiting", "leased", "static", "bare"
    net,                      \* the replies under way
    lessor, grant,            \* who granted the address, for how much longer
    naks, signals, readErrors

client == <<state, listen, server_id, requested_ip, packet_num, timeout, lease_remaining>>
process == <<opt_n, alive, boot>>
bounds == <<naks, signals, readErrors>>
vars == <<client, process, ip, net, lessor, grant, bounds>>

Init ==
    /\ state = "INIT_SELECTING" /\ listen = "NONE"
    /\ server_id = None /\ requested_ip = None
    /\ packet_num = 0 /\ timeout = 0 /\ lease_remaining = 0
    /\ opt_n = TRUE /\ ip = None /\ alive = "running" /\ boot = "waiting"
    /\ net = {} /\ lessor = None /\ grant = 0
    /\ naks = 0 /\ signals = 0 /\ readErrors = 0

-----------------------------------------------------------------------------
(* What the servers may answer to a packet.                                *)

Reply(t, s, a, l) == [type |-> t, from |-> s, ip |-> a, lease |-> l, age |-> 0]
Offers == { Reply("OFFER", s, s, 0) : s \in Servers }
Verdicts(asked) ==
    { Reply("ACK", s, requested_ip, l) : s \in asked, l \in Leases }
        \cup { Reply("NAK", s, requested_ip, 0) : s \in asked }

(* Each server adds one of the possible replies to the old ones, or none:  *)
(* the packet or the reply is lost.                                        *)
Answer(possible, old) ==
    \E new \in SUBSET possible :
        /\ \A m, n \in new : m.from = n.from => m = n
        /\ net' = old \cup new
        /\ naks' = naks + Cardinality({ m \in new : m.type = "NAK" })
        /\ naks' <= MaxNaks

(* client_data.xid = random_xid(): no reply under way matches any more, the *)
(* client ignores them all.                                                *)
WithNewXid == {}

Min2(a, b) == IF a < b THEN a ELSE b
Max2(a, b) == IF a < b THEN b ELSE a

-----------------------------------------------------------------------------
(* poll() timed out.                                                       *)

Running == alive = "running"
Elapsed(s) == Running /\ timeout = 0 /\ state = s

(* INIT_SELECTING: a new xid with the first packet, a broadcast with each. *)
Discover ==
    /\ Elapsed("INIT_SELECTING")
    /\ packet_num < DiscoverRetries
    /\ listen' = IF packet_num = 0 THEN "RAW" ELSE listen
    /\ Answer(Offers, IF packet_num = 0 THEN WithNewXid ELSE net)
    /\ timeout' = DiscoverTimeout
    /\ packet_num' = packet_num + 1
    /\ UNCHANGED <<state, server_id, requested_ip, lease_remaining, process, ip, lessor,
                   grant, signals, readErrors>>

(* REQUESTING: the request is broadcast, only the selected server answers. *)
Select ==
    /\ Elapsed("REQUESTING")
    /\ packet_num < SelectTries
    /\ Answer(Verdicts({server_id}), net)
    /\ timeout' = DiscoverTimeout
    /\ packet_num' = packet_num + 1
    /\ UNCHANGED <<state, listen, server_id, requested_ip, lease_remaining, process, ip,
                   lessor, grant, signals, readErrors>>

(* Fault: -n is ignored, the client tries for ever.                        *)
TryForever == UNCHANGED <<alive, boot, ip>>

(* With -n the client fails, and startup.sh assigns the fixed address.     *)
FailWithN ==
    IF opt_n THEN alive' = "failed" /\ boot' = "static" /\ ip' = Static
             ELSE UNCHANGED <<alive, boot, ip>>

(* leasefail: a client in the background tries again later.                *)
LeaseFail ==
    /\ \/ Elapsed("INIT_SELECTING") /\ packet_num >= DiscoverRetries
       \/ Elapsed("REQUESTING") /\ packet_num >= SelectTries
    /\ state' = "INIT_SELECTING"
    /\ listen' = "NONE"
    /\ timeout' = TryAgain
    /\ packet_num' = 0
    /\ FailWithN
    /\ UNCHANGED <<server_id, requested_ip, lease_remaining, opt_n, net, lessor, grant, bounds>>

BOUND_for_half_lease(lease) ==
    /\ state' = "BOUND"
    /\ timeout' = lease \div 2
    /\ packet_num' = 0

(* REBINDING with packet_num packets sent: one more broadcast.             *)
RebindSend(tries) ==
    /\ state' = "REBINDING"
    /\ listen' = "RAW"
    /\ Answer(Verdicts(Servers), net)
    /\ timeout' = DiscoverTimeout
    /\ packet_num' = tries + 1
    /\ UNCHANGED <<ip, lessor, grant>>

(* Fault: the lease is lost but the interface keeps the address.           *)
LoseLeaseSilently ==
    /\ state' = "INIT_SELECTING"
    /\ listen' = "NONE"
    /\ timeout' = 0
    /\ packet_num' = 0
    /\ UNCHANGED <<ip, lessor, grant, net, naks>>

(* "lease lost, entering init state": the script deconfigures.             *)
LoseLease ==
    /\ state' = "INIT_SELECTING"
    /\ listen' = "NONE"
    /\ timeout' = 0
    /\ packet_num' = 0
    /\ ip' = None /\ lessor' = None /\ grant' = 0
    /\ UNCHANGED <<net, naks>>

Rebind ==
    /\ Elapsed("REBINDING")
    /\ IF lease_remaining > 0 /\ packet_num < SelectTries
         THEN RebindSend(packet_num) ELSE LoseLease
    /\ UNCHANGED <<server_id, requested_ip, lease_remaining, process, signals, readErrors>>

(* "no response to renew": later again, or rebinding at once.              *)
NoResponse(lease) ==
    IF lease > LeaseFloor
      THEN /\ listen' = "NONE"
           /\ BOUND_for_half_lease(lease)
           /\ UNCHANGED <<ip, lessor, grant, net, naks>>
      ELSE IF lease > 0 THEN RebindSend(0) ELSE LoseLease

(* BOUND, or SIGUSR1: the unicast renew request goes out, or send_renew    *)
(* fails.                                                                  *)
Renew(into, lease) ==
    /\ lease_remaining' = lease
    /\ \/ /\ state' = into
          /\ listen' = "KERNEL"
          /\ Answer(Verdicts({server_id}), net)
          /\ timeout' = DiscoverTimeout
          /\ packet_num' = 1
          /\ UNCHANGED <<ip, lessor, grant>>
       \/ NoResponse(lease)
    /\ UNCHANGED <<server_id, requested_ip, process, readErrors>>

HalfLease ==
    /\ Elapsed("BOUND")
    /\ Renew("RENEWING", lease_remaining)
    /\ UNCHANGED signals

RenewUnanswered ==
    /\ Elapsed("RENEWING") \/ Elapsed("RENEW_REQUESTED")
    /\ NoResponse(lease_remaining)
    /\ UNCHANGED <<server_id, requested_ip, lease_remaining, process, signals, readErrors>>

(* The interface is gone when a timeout is served, or SIGTERM: the client  *)
(* ends with status 0 and leaves the address alone; a startup.sh that      *)
(* still waits goes on without any address.                                *)
Quit ==
    /\ Running
    /\ timeout = 0 \/ boot # "waiting"
    /\ alive' = "quit"
    /\ boot' = IF boot = "waiting" THEN "bare" ELSE boot
    /\ UNCHANGED <<client, opt_n, ip, net, lessor, grant, bounds>>

-----------------------------------------------------------------------------
(* Signals and packets, read while poll() waits.                           *)

Polling == Running /\ timeout # 0

(* A timeout is served whose change_listen_mode opens a socket: for the    *)
(* first packet of a search, a renewal or a rebinding.                     *)
Opens ==
    \/ Elapsed("INIT_SELECTING") /\ packet_num = 0
    \/ Elapsed("BOUND")
    \/ Elapsed("RENEWING") /\ lease_remaining <= LeaseFloor
    \/ Elapsed("RENEW_REQUESTED") /\ lease_remaining <= LeaseFloor

(* A socket cannot be opened (xsocket, bindtodevice, xbind), also on       *)
(* SIGUSR1 and after a read error, poll() fails, or the fork into the      *)
(* background does: the process dies with status 1 on the spot, without a  *)
(* deconfig.  A startup.sh that still waits assigns the fixed address.     *)
Die ==
    /\ Opens \/ Polling
    /\ alive' = "died"
    /\ boot' = IF boot = "waiting" THEN "static" ELSE boot
    /\ ip' = IF boot = "waiting" THEN Static ELSE ip
    /\ UNCHANGED <<client, opt_n, net, lessor, grant, bounds>>

(* Nobody is logged in before startup.sh has ended.                        *)
Signal ==
    /\ Polling
    /\ boot # "waiting"
    /\ signals < MaxSignals
    /\ signals' = signals + 1

(* SIGUSR1 renews; a second one, or one in state RELEASED, starts over.    *)
RenewSignal ==
    /\ Signal
    /\ state \in {"BOUND", "RENEWING"}
    /\ Renew("RENEW_REQUESTED", Min2(lease_remaining, LeaseFloor))

StartOver ==
    /\ Signal
    /\ state \in {"RENEW_REQUESTED", "RELEASED"}
    /\ lease_remaining' = Min2(lease_remaining, LeaseFloor)
    /\ LoseLease
    /\ UNCHANGED <<server_id, requested_ip, process, readErrors>>

(* SIGUSR2, perform_release: the packet to the server gets an xid of its   *)
(* own; the script deconfigures in every state.                            *)
perform_release ==
    /\ Signal
    /\ net' = IF state \in HoldingStates THEN WithNewXid ELSE net
    /\ state' = "RELEASED"
    /\ listen' = "NONE"
    /\ timeout' = Forever
    /\ ip' = None /\ lessor' = None /\ grant' = 0
    /\ UNCHANGED <<server_id, requested_ip, packet_num, lease_remaining, process, naks, readErrors>>

(* The reply m is read; a copy of it may still be under way.               *)
Receive(m) ==
    /\ Polling
    /\ listen # "NONE"
    /\ m \in net
    /\ net' \in {net, net \ {m}}
    /\ UNCHANGED bounds

ReceiveOffer(m) ==
    /\ Receive(m)
    /\ state = "INIT_SELECTING"
    /\ m.type = "OFFER"
    /\ server_id' = m.from
    /\ requested_ip' = m.ip
    /\ state' = "REQUESTING"
    /\ timeout' = 0
    /\ packet_num' = 0
    /\ UNCHANGED <<listen, lease_remaining, process, ip, lessor, grant>>

Awaiting == {"REQUESTING", "RENEWING", "RENEW_REQUESTED", "REBINDING"}

(* Fault: the lease time is taken as it comes.                             *)
LeaseAsSent(lease) == lease

(* lease_remaining after ntohl: a negative value is the maximum, and it is *)
(* never below 30 seconds.                                                 *)
Sanitized(lease) == Max2(Min2(lease, IntMax), LeaseFloor)

(* Fault: the client in the background is still to exit without a lease.   *)
BackgroundWithN ==
    /\ UNCHANGED opt_n
    /\ boot' = "leased"

(* The first lease: -n is cleared, the client forks into the background    *)
(* and startup.sh goes on.                                                 *)
client_background ==
    /\ opt_n' = FALSE
    /\ boot' = "leased"

(* An ACK: the script configures the address.  server_id stays as it is.   *)
ReceiveAck(m) ==
    /\ Receive(m)
    /\ state \in Awaiting
    /\ m.type = "ACK"
    /\ listen' = "NONE"
    /\ requested_ip' = m.ip
    /\ lease_remaining' = Sanitized(m.lease)
    /\ BOUND_for_half_lease(Sanitized(m.lease))
    /\ ip' = m.ip
    /\ lessor' = m.from
    /\ grant' = Max2(m.lease, LeaseFloor) - m.age
    /\ client_background
    /\ UNCHANGED <<server_id, alive>>

(* A NAK of the server the client thinks it has the lease from.            *)
ReceiveNak(m) ==
    /\ Receive(m)
    /\ state \in Awaiting
    /\ m.type = "NAK"
    /\ m.from = server_id
    /\ state' = "INIT_SELECTING"
    /\ listen' = "NONE"
    /\ requested_ip' = None
    /\ timeout' = 0
    /\ packet_num' = 0
    /\ ip' = None /\ lessor' = None /\ grant' = 0
    /\ UNCHANGED <<server_id, lease_remaining, process>>

Aged(d) == { [m EXCEPT !.age = @ + d] : m \in { n \in net : n.age + d <= MaxAge } }
Later(d) == IF lessor = None THEN 0 ELSE Max2(grant - d, -(MaxAge + (MaxReadErrors + 1) * DiscoverTimeout))

(* A read error: the client sleeps and reopens the socket; the pause is    *)
(* not taken off lease_remaining.                                          *)
ReadError ==
    /\ Polling
    /\ listen # "NONE"
    /\ readErrors < MaxReadErrors
    /\ readErrors' = readErrors + 1
    /\ net' = Aged(DiscoverTimeout)
    /\ grant' = Later(DiscoverTimeout)
    /\ UNCHANGED <<client, process, ip, lessor, naks, signals>>

(* Fault: the time spent in poll() is not taken off the lease.             *)
TickKeepsLease ==
    /\ Polling
    /\ timeout' = IF timeout = Forever THEN Forever ELSE timeout - 1
    /\ UNCHANGED lease_remaining
    /\ net' = Aged(1)
    /\ grant' = Later(1)
    /\ UNCHANGED <<state, listen, server_id, requested_ip, packet_num, process, ip, lessor, bounds>>

Tick ==
    /\ Polling
    /\ timeout' = IF timeout = Forever THEN Forever ELSE timeout - 1
    /\ lease_remaining' = Max2(lease_remaining - 1, 0)
    /\ net' = Aged(1)
    /\ grant' = Later(1)
    /\ UNCHANGED <<state, listen, server_id, requested_ip, packet_num, process, ip, lessor, bounds>>

-----------------------------------------------------------------------------
Serve == Discover \/ Select \/ LeaseFail \/ HalfLease \/ RenewUnanswered \/ Rebind

Environment == Quit \/ Die \/ RenewSignal \/ StartOver \/ perform_release \/ ReadError

Next ==
    \/ Serve
    \/ \E m \in net : ReceiveOffer(m) \/ ReceiveAck(m) \/ ReceiveNak(m)
    \/ Tick
    \/ Environment

(* The client is scheduled and the clock goes on.                          *)
Spec == Init /\ [][Next]_vars /\ WF_vars(Serve) /\ WF_vars(Tick)

-----------------------------------------------------------------------------
TypeOK ==
    /\ state \in States /\ listen \in {"NONE", "RAW", "KERNEL"}
    /\ server_id \in Servers \cup {None} /\ requested_ip \in Servers \cup {None}
    /\ packet_num \in 0..Max2(DiscoverRetries, SelectTries)
    /\ timeout \in Nat \cup {Forever} /\ lease_remaining \in 0..IntMax
    /\ opt_n \in BOOLEAN /\ ip \in Servers \cup {None, Static}
    /\ alive \in {"running", "failed", "died", "quit"}
    /\ boot \in {"waiting", "leased", "static", "bare"}
    /\ net \in SUBSET Replies
    /\ lessor \in Servers \cup {None} /\ grant \in Int
    /\ naks \in 0..MaxNaks /\ signals \in 0..MaxSignals /\ readErrors \in 0..MaxReadErrors

(* While the client runs, the interface has an address exactly while it    *)
(* holds a lease: every way out of the holding states runs the script's    *)
(* deconfig, every way in runs bound or renew with the acknowledged        *)
(* address.                                                                *)
AddressMatchesState ==
    Running => IF state \in HoldingStates THEN ip = requested_ip /\ ip # None ELSE ip = None

(* The client never uses an address longer than it was granted, counted    *)
(* from when the server sent the ACK, but for the time that ACK was under  *)
(* way and the pauses after read errors; leases below 30 seconds count as  *)
(* 30 seconds.  Repeated renewals, lost and late answers, duplicated ACKs  *)
(* of earlier exchanges and SIGUSR1 do not stretch it.                     *)
LeaseHonoured ==
    Running /\ ip # None => grant >= -(MaxAge + readErrors * DiscoverTimeout)

(* Only the first attempt may give up for want of a lease ("future renew   *)
(* failures should not exit"): once startup.sh has gone on, no unanswered  *)
(* search, renewal or rebinding, NAK, expired lease or signal brings       *)
(* udhcpc's "no lease, failing".  What still ends it with status 1 is a    *)
(* socket it cannot open or a failing poll().                              *)
FailsOnlyAtBoot == [][boot # "waiting" => alive' # "failed"]_vars

(* startup.sh gets past udhcpc, with a lease, with the fixed address, or   *)
(* with none when the interface is gone, as long as the servers do not     *)
(* refuse what they offered again and again.                               *)
BootContinues == <>(boot # "waiting")

(* server_id, to which renewals and releases go and whose NAKs count, is   *)
(* the server that granted the address ("Do not interpret it as a NAK from *)
(* our server", "lease of %s obtained from %s").                           *)
LessorKnown == Running /\ lessor # None => server_id = lessor
=============================================================================
