---------------------------- MODULE UdhcpcProofs ----------------------------
(***************************************************************************)
(* What holds of the DHCP client for any servers, leases, timeouts and     *)
(* retries, and however many signals, NAKs and read errors there are.      *)
(***************************************************************************)
EXTENDS Udhcpc, FiniteSetTheorems, TLAPS

(* Whom a client that waits or holds a lease asks, and for what.           *)
Asking == state \in Awaiting \cup {"BOUND"} => server_id \in Servers /\ requested_ip \in Servers

(* -n is in force until startup.sh has gone on.                            *)
OptionInForce == Running => (opt_n <=> boot = "waiting")

(* What is left of a lease when half of it has gone, at least.             *)
HalfFloor == LeaseFloor - LeaseFloor \div 2

(* How much of the lease is sure to be left in each of the holding states  *)
(* when poll() times out, after n packets of a rebinding.                  *)
Left(n) ==
    [ BOUND |-> HalfFloor,
      RENEWING |-> HalfFloor - DiscoverTimeout,
      RENEW_REQUESTED |-> HalfFloor - 2 * DiscoverTimeout + 1,
      REBINDING |-> HalfFloor - (n + 2) * DiscoverTimeout + 1 ]

(* The lease outlasts the timeout, and the grant the lease.                *)
Pauses == readErrors * DiscoverTimeout

LeaseInv ==
    Running /\ state \in HoldingStates =>
        /\ lessor \in Servers
        /\ timeout \in Nat /\ lease_remaining >= timeout + Left(packet_num)[state]
        /\ state = "REBINDING" => packet_num \in 1..SelectTries
        /\ grant >= lease_remaining - (MaxAge + Pauses)

ClientInv == TypeOK /\ Asking /\ AddressMatchesState /\ OptionInForce /\ LeaseInv

-----------------------------------------------------------------------------
(* The constants, one by one.                                              *)
LEMMA Constants ==
    /\ Leases \subseteq Nat
    /\ DiscoverTimeout \in Nat /\ DiscoverTimeout > 0
    /\ TryAgain \in Nat /\ TryAgain > 0
    /\ LeaseFloor \in Nat /\ LeaseFloor > 0 /\ IntMax \in Nat /\ LeaseFloor <= IntMax
    /\ MaxAge \in Nat /\ MaxNaks \in Nat /\ MaxSignals \in Nat /\ MaxReadErrors \in Nat
BY UdhcpcAssumption

LEMMA PacketBound ==
    /\ DiscoverRetries \in Nat
    /\ Max2(DiscoverRetries, SelectTries) \in Nat
    /\ DiscoverRetries <= Max2(DiscoverRetries, SelectTries)
    /\ SelectTries <= Max2(DiscoverRetries, SelectTries)
    /\ SelectTries = 3
BY UdhcpcAssumption DEF Max2, SelectTries

LEMMA ReplyType ==
    ASSUME NEW m \in Replies
    PROVE  m.lease \in Nat /\ m.age \in 0..MaxAge /\ m.from \in Servers /\ m.ip \in Servers
<1>1. m.lease \in Leases \cup {0} /\ m.age \in 0..MaxAge /\ m.from \in Servers /\ m.ip \in Servers
  BY DEF Replies
<1>2. Leases \cup {0} \subseteq Nat
  BY Constants
<1> QED
  BY <1>1, <1>2

(* What the servers add is made of replies, and their NAKs are counted.    *)
LEMMA AnswerType ==
    ASSUME TypeOK, NEW possible \in SUBSET Replies, NEW old \in SUBSET Replies,
           Answer(possible, old)
    PROVE  net' \in SUBSET Replies /\ naks' \in 0..MaxNaks
<1>1. PICK new \in SUBSET possible :
          /\ \A m, n \in new : m.from = n.from => m = n
          /\ net' = old \cup new
          /\ naks' = naks + Cardinality({ m \in new : m.type = "NAK" })
          /\ naks' <= MaxNaks
  BY DEF Answer
<1> DEFINE from == [m \in new |-> m.from]
<1>2. from \in Injection(new, Servers)
  BY <1>1 DEF Injection, IsInjective, Replies
<1>3. IsFiniteSet(new)
  BY <1>2, FS_Injection, ServersAssumption
<1>4. Cardinality({ m \in new : m.type = "NAK" }) \in Nat
  BY <1>3, FS_Subset, FS_CardinalityType
<1> QED
  BY <1>1, <1>4, UdhcpcAssumption DEF TypeOK

LEMMA OffersType == Offers \in SUBSET Replies
BY UdhcpcAssumption DEF Offers, Reply, Replies

LEMMA VerdictsType ==
    ASSUME requested_ip \in Servers, NEW asked \in SUBSET Servers
    PROVE  Verdicts(asked) \in SUBSET Replies
BY UdhcpcAssumption DEF Verdicts, Reply, Replies

LEMMA AgedType ==
    ASSUME TypeOK, NEW d \in Nat
    PROVE  Aged(d) \in SUBSET Replies
BY UdhcpcAssumption DEF Aged, TypeOK, Replies

LEMMA LaterType ==
    ASSUME TypeOK, NEW d \in Nat
    PROVE  /\ Later(d) \in Int
           /\ lessor # None => Later(d) >= grant - d
BY UdhcpcAssumption DEF Later, TypeOK, Max2

LEMMA ClientInit == Init => ClientInv
BY UdhcpcAssumption, ServersAssumption
   DEF Init, ClientInv, TypeOK, Asking, AddressMatchesState, OptionInForce, LeaseInv, Running,
       States, HoldingStates, Awaiting, Replies, Max2, SelectTries

-----------------------------------------------------------------------------
(* A request is answered by replies for an address the client asks for.    *)
LEMMA RequestAnswered ==
    ASSUME TypeOK, Asking, state \in Awaiting \cup {"BOUND"},
           NEW asked \in {{server_id}, Servers}, Answer(Verdicts(asked), net)
    PROVE  net' \in SUBSET Replies /\ naks' \in 0..MaxNaks
<1>1. requested_ip \in Servers /\ asked \in SUBSET Servers
  BY DEF Asking
<1>2. Verdicts(asked) \in SUBSET Replies
  BY <1>1, VerdictsType
<1> QED
  BY <1>2, AnswerType DEF TypeOK

(* What NoResponse leaves, given what is left of the lease.                *)
LEMMA NoResponseType ==
    ASSUME TypeOK, Asking, state \in HoldingStates, NEW lease \in 0..IntMax, NoResponse(lease)
    PROVE  /\ state' \in States /\ listen' \in {"NONE", "RAW", "KERNEL"}
           /\ packet_num' \in 0..Max2(DiscoverRetries, SelectTries)
           /\ timeout' \in Nat
           /\ ip' \in {ip, None} /\ lessor' \in {lessor, None} /\ grant' \in Int
           /\ net' \in SUBSET Replies /\ naks' \in 0..MaxNaks
<1>1. CASE lease > LeaseFloor
  BY <1>1, UdhcpcAssumption DEF NoResponse, BOUND_for_half_lease, TypeOK, States, HoldingStates, Max2, SelectTries
<1>2. CASE ~(lease > LeaseFloor) /\ lease > 0
  BY <1>2, RequestAnswered, UdhcpcAssumption
     DEF NoResponse, RebindSend, TypeOK, States, HoldingStates, Max2, SelectTries, Awaiting
<1>3. CASE ~(lease > LeaseFloor) /\ ~(lease > 0)
  BY <1>3, UdhcpcAssumption
     DEF NoResponse, LoseLease, TypeOK, States, HoldingStates, Max2, SelectTries
<1> QED
  BY <1>1, <1>2, <1>3

LEMMA RenewType ==
    ASSUME TypeOK, Asking, state \in HoldingStates, NEW lease \in 0..IntMax,
           NEW into \in HoldingStates, Renew(into, lease), signals' \in 0..MaxSignals
    PROVE  TypeOK'
<1>1. CASE NoResponse(lease)
  BY <1>1, NoResponseType DEF Renew, TypeOK, process
<1>2. CASE ~NoResponse(lease)
  BY <1>2, RequestAnswered, UdhcpcAssumption
     DEF Renew, TypeOK, process, States, HoldingStates, Max2, SelectTries, Awaiting
<1> QED
  BY <1>1, <1>2

LEMMA TypeStep ==
    ASSUME TypeOK, Asking, [Next]_vars
    PROVE  TypeOK'
<1> USE Constants, PacketBound DEF States, HoldingStates, Awaiting
<1>1. CASE Discover
  <2>1. (IF packet_num = 0 THEN WithNewXid ELSE net) \in SUBSET Replies
    BY DEF TypeOK, WithNewXid
  <2>2. net' \in SUBSET Replies /\ naks' \in 0..MaxNaks
    BY <1>1, <2>1, OffersType, AnswerType DEF Discover
  <2>3. packet_num' \in 0..Max2(DiscoverRetries, SelectTries) /\ timeout' \in Nat
    BY <1>1 DEF Discover, TypeOK
  <2> QED
    BY <1>1, <2>2, <2>3 DEF Discover, Elapsed, TypeOK, process
<1>2. CASE Select
  <2>1. net' \in SUBSET Replies /\ naks' \in 0..MaxNaks
    BY <1>2, RequestAnswered DEF Select, Elapsed
  <2>2. packet_num' \in 0..Max2(DiscoverRetries, SelectTries) /\ timeout' \in Nat
    BY <1>2 DEF Select, TypeOK
  <2> QED
    BY <1>2, <2>1, <2>2 DEF Select, Elapsed, TypeOK, process
<1>3. CASE LeaseFail
  BY <1>3 DEF LeaseFail, Elapsed, FailWithN, TypeOK, bounds
<1>4. CASE HalfLease
  BY <1>4, RenewType DEF HalfLease, Elapsed, TypeOK
<1>5. CASE RenewUnanswered
  BY <1>5, NoResponseType DEF RenewUnanswered, Elapsed, TypeOK, process
<1>6. CASE Rebind
  <2>1. CASE RebindSend(packet_num) /\ packet_num < SelectTries
    <3>1. net' \in SUBSET Replies /\ naks' \in 0..MaxNaks
      BY <1>6, <2>1, RequestAnswered DEF Rebind, RebindSend, Elapsed
    <3>2. packet_num' \in 0..Max2(DiscoverRetries, SelectTries) /\ timeout' \in Nat
      BY <2>1 DEF RebindSend, TypeOK
    <3> QED
      BY <1>6, <2>1, <3>1, <3>2 DEF Rebind, RebindSend, Elapsed, TypeOK, process
  <2>2. CASE LoseLease
    BY <1>6, <2>2 DEF Rebind, LoseLease, Elapsed, TypeOK, process
  <2> QED
    BY <1>6, <2>1, <2>2 DEF Rebind
<1>7. ASSUME NEW m \in net, ReceiveOffer(m)
      PROVE  TypeOK'
  BY <1>7 DEF ReceiveOffer, Receive, TypeOK, process, bounds, Replies
<1>8. ASSUME NEW m \in net, ReceiveAck(m)
      PROVE  TypeOK'
  <2>1. m \in Replies
    BY <1>8 DEF TypeOK
  <2>2. m.lease \in Nat /\ m.age \in Nat /\ m.from \in Servers /\ m.ip \in Servers
    BY <2>1, ReplyType
  <2>3. Sanitized(m.lease) \in 0..IntMax /\ Sanitized(m.lease) \div 2 \in Nat
    BY <2>2 DEF Sanitized, Min2, Max2
  <2>4. grant' \in Int
    BY <1>8, <2>2 DEF ReceiveAck, Max2
  <2>5. net' \in SUBSET Replies /\ timeout' \in Nat /\ packet_num' = 0 /\ state' = "BOUND"
    BY <1>8, <2>3 DEF ReceiveAck, Receive, TypeOK, BOUND_for_half_lease
  <2>6. /\ lease_remaining' \in 0..IntMax /\ listen' = "NONE" /\ boot' = "leased" /\ opt_n' \in BOOLEAN
        /\ ip' \in Servers /\ requested_ip' \in Servers /\ lessor' \in Servers
        /\ UNCHANGED <<server_id, alive, naks, signals, readErrors>>
    BY <1>8, <2>2, <2>3 DEF ReceiveAck, Receive, bounds, client_background
  <2> QED
    BY <2>4, <2>5, <2>6 DEF TypeOK
<1>9. ASSUME NEW m \in net, ReceiveNak(m)
      PROVE  TypeOK'
  BY <1>9 DEF ReceiveNak, Receive, TypeOK, process, bounds
<1>10. CASE Tick
  <2>1. timeout' \in Nat \cup {Forever} /\ lease_remaining' \in 0..IntMax
    BY <1>10 DEF Tick, Polling, TypeOK, Forever, Max2
  <2>2. net' \in SUBSET Replies /\ grant' \in Int
    BY <1>10, AgedType, LaterType DEF Tick
  <2> QED
    BY <1>10, <2>1, <2>2 DEF Tick, TypeOK, process, bounds
<1>11. CASE Quit
  BY <1>11 DEF Quit, TypeOK, client, bounds
<1>12. CASE RenewSignal
  BY <1>12, RenewType DEF RenewSignal, Signal, TypeOK, Min2
<1>13. CASE StartOver
  BY <1>13 DEF StartOver, Signal, LoseLease, TypeOK, process, Min2
<1>14. CASE perform_release
  BY <1>14 DEF perform_release, Signal, TypeOK, process, WithNewXid
<1>15. CASE ReadError
  BY <1>15, AgedType, LaterType DEF ReadError, TypeOK, client, process
<1>16. CASE UNCHANGED vars
  BY <1>16 DEF vars, client, process, bounds, TypeOK
<1>17. CASE Die
  BY <1>17 DEF Die, TypeOK, client, bounds
<1> QED
  BY <1>1, <1>2, <1>3, <1>4, <1>5, <1>6, <1>7, <1>8, <1>9, <1>10, <1>11, <1>12, <1>13, <1>14,
     <1>15, <1>16, <1>17 DEF Next, Serve, Environment

-----------------------------------------------------------------------------
(* A reply that is read carries a server and an address.                   *)
LEMMA ReadReply ==
    ASSUME TypeOK, NEW m \in net
    PROVE  m.from \in Servers /\ m.ip \in Servers
BY ReplyType DEF TypeOK

LEMMA AskingStep ==
    ASSUME TypeOK, Asking, [Next]_vars
    PROVE  Asking'
<1> USE ReadReply DEF Asking, HoldingStates, Awaiting
<1>1. CASE Discover
  BY <1>1 DEF Discover, Elapsed, process
<1>2. CASE Select
  BY <1>2 DEF Select, Elapsed, process
<1>3. CASE LeaseFail
  BY <1>3 DEF LeaseFail, Elapsed, FailWithN
<1>4. CASE HalfLease
  BY <1>4 DEF HalfLease, Elapsed, Renew, NoResponse, RebindSend, LoseLease, BOUND_for_half_lease, process
<1>5. CASE RenewUnanswered
  BY <1>5 DEF RenewUnanswered, Elapsed, NoResponse, RebindSend, LoseLease, BOUND_for_half_lease, process
<1>6. CASE Rebind
  BY <1>6 DEF Rebind, Elapsed, RebindSend, LoseLease, process
<1>7. ASSUME NEW m \in net, ReceiveOffer(m)
      PROVE  Asking'
  BY <1>7 DEF ReceiveOffer, Receive, Polling, process
<1>8. ASSUME NEW m \in net, ReceiveAck(m)
      PROVE  Asking'
  BY <1>8 DEF ReceiveAck, Receive, Polling, BOUND_for_half_lease, client_background
<1>9. ASSUME NEW m \in net, ReceiveNak(m)
      PROVE  Asking'
  BY <1>9 DEF ReceiveNak, Receive, Polling, process
<1>10. CASE Tick
  BY <1>10 DEF Tick, Polling, process
<1>11. CASE Quit
  BY <1>11 DEF Quit, client
<1>12. CASE RenewSignal
  BY <1>12 DEF RenewSignal, Signal, Polling, Renew, NoResponse, RebindSend, LoseLease, BOUND_for_half_lease, process
<1>13. CASE StartOver
  BY <1>13 DEF StartOver, Signal, Polling, LoseLease, process
<1>14. CASE perform_release
  BY <1>14 DEF perform_release, Signal, Polling, process
<1>15. CASE ReadError
  BY <1>15 DEF ReadError, Polling, client, process
<1>16. CASE UNCHANGED vars
  BY <1>16 DEF vars, client, process, bounds
<1>17. CASE Die
  BY <1>17 DEF Die, client
<1> QED
  BY <1>1, <1>2, <1>3, <1>4, <1>5, <1>6, <1>7, <1>8, <1>9, <1>10, <1>11, <1>12, <1>13, <1>14,
     <1>15, <1>16, <1>17 DEF Next, Serve, Environment

LEMMA AddressStep ==
    ASSUME TypeOK, Asking, AddressMatchesState, [Next]_vars
    PROVE  AddressMatchesState'
<1> USE ReadReply, ServersAssumption DEF Asking, AddressMatchesState, Running, HoldingStates, Awaiting
<1>1. CASE Discover
  BY <1>1 DEF Discover, Elapsed, process
<1>2. CASE Select
  BY <1>2 DEF Select, Elapsed, process
<1>3. CASE LeaseFail
  BY <1>3 DEF LeaseFail, Elapsed, FailWithN
<1>4. CASE HalfLease
  BY <1>4 DEF HalfLease, Elapsed, Renew, NoResponse, RebindSend, LoseLease, BOUND_for_half_lease, process
<1>5. CASE RenewUnanswered
  BY <1>5 DEF RenewUnanswered, Elapsed, NoResponse, RebindSend, LoseLease, BOUND_for_half_lease, process
<1>6. CASE Rebind
  BY <1>6 DEF Rebind, Elapsed, RebindSend, LoseLease, process
<1>7. ASSUME NEW m \in net, ReceiveOffer(m)
      PROVE  AddressMatchesState'
  BY <1>7 DEF ReceiveOffer, Receive, Polling, process
<1>8. ASSUME NEW m \in net, ReceiveAck(m)
      PROVE  AddressMatchesState'
  BY <1>8 DEF ReceiveAck, Receive, Polling, BOUND_for_half_lease, client_background
<1>9. ASSUME NEW m \in net, ReceiveNak(m)
      PROVE  AddressMatchesState'
  BY <1>9 DEF ReceiveNak, Receive, Polling, process
<1>10. CASE Tick
  BY <1>10 DEF Tick, Polling, process
<1>11. CASE Quit
  BY <1>11 DEF Quit, client
<1>12. CASE RenewSignal
  BY <1>12 DEF RenewSignal, Signal, Polling, Renew, NoResponse, RebindSend, LoseLease, BOUND_for_half_lease, process
<1>13. CASE StartOver
  BY <1>13 DEF StartOver, Signal, Polling, LoseLease, process
<1>14. CASE perform_release
  BY <1>14 DEF perform_release, Signal, Polling, process
<1>15. CASE ReadError
  BY <1>15 DEF ReadError, Polling, client, process
<1>16. CASE UNCHANGED vars
  BY <1>16 DEF vars, client, process, bounds
<1>17. CASE Die
  BY <1>17 DEF Die, client
<1> QED
  BY <1>1, <1>2, <1>3, <1>4, <1>5, <1>6, <1>7, <1>8, <1>9, <1>10, <1>11, <1>12, <1>13, <1>14,
     <1>15, <1>16, <1>17 DEF Next, Serve, Environment

LEMMA OptionStep ==
    ASSUME TypeOK, OptionInForce, [Next]_vars
    PROVE  OptionInForce'
<1> USE DEF OptionInForce, Running
<1>1. CASE Discover
  BY <1>1 DEF Discover, Elapsed, process
<1>2. CASE Select
  BY <1>2 DEF Select, Elapsed, process
<1>3. CASE LeaseFail
  BY <1>3 DEF LeaseFail, Elapsed, FailWithN
<1>4. CASE HalfLease
  BY <1>4 DEF HalfLease, Elapsed, Renew, NoResponse, RebindSend, LoseLease, BOUND_for_half_lease, process
<1>5. CASE RenewUnanswered
  BY <1>5 DEF RenewUnanswered, Elapsed, NoResponse, RebindSend, LoseLease, BOUND_for_half_lease, process
<1>6. CASE Rebind
  BY <1>6 DEF Rebind, Elapsed, RebindSend, LoseLease, process
<1>7. ASSUME NEW m \in net, ReceiveOffer(m)
      PROVE  OptionInForce'
  BY <1>7 DEF ReceiveOffer, Receive, Polling, process
<1>8. ASSUME NEW m \in net, ReceiveAck(m)
      PROVE  OptionInForce'
  BY <1>8 DEF ReceiveAck, Receive, Polling, BOUND_for_half_lease, client_background
<1>9. ASSUME NEW m \in net, ReceiveNak(m)
      PROVE  OptionInForce'
  BY <1>9 DEF ReceiveNak, Receive, Polling, process
<1>10. CASE Tick
  BY <1>10 DEF Tick, Polling, process
<1>11. CASE Quit
  BY <1>11 DEF Quit, client
<1>12. CASE RenewSignal
  BY <1>12 DEF RenewSignal, Signal, Polling, Renew, NoResponse, RebindSend, LoseLease, BOUND_for_half_lease, process
<1>13. CASE StartOver
  BY <1>13 DEF StartOver, Signal, Polling, LoseLease, process
<1>14. CASE perform_release
  BY <1>14 DEF perform_release, Signal, Polling, process
<1>15. CASE ReadError
  BY <1>15 DEF ReadError, Polling, client, process
<1>16. CASE UNCHANGED vars
  BY <1>16 DEF vars, client, process, bounds
<1>17. CASE Die
  BY <1>17 DEF Die, client
<1> QED
  BY <1>1, <1>2, <1>3, <1>4, <1>5, <1>6, <1>7, <1>8, <1>9, <1>10, <1>11, <1>12, <1>13, <1>14,
     <1>15, <1>16, <1>17 DEF Next, Serve, Environment

-----------------------------------------------------------------------------
(* What is left of a lease after half of it, and after the timeouts that   *)
(* may follow.                                                             *)
LEMMA Halves ==
    /\ HalfFloor \in Nat
    /\ LeaseFloor >= HalfFloor
    /\ HalfFloor >= 5 * DiscoverTimeout - 1
    /\ \A lease \in Nat : lease >= LeaseFloor =>
          lease \div 2 \in Nat /\ lease - lease \div 2 >= HalfFloor
BY Constants, TimeoutAssumption DEF HalfFloor

LEMMA Product ==
    ASSUME NEW a \in Nat, NEW b \in Nat
    PROVE  a * b \in Nat /\ (a + 1) * b = a * b + b
OBVIOUS

(* The pauses after read errors are time the client does not count.        *)
LEMMA PausesStep ==
    ASSUME TypeOK
    PROVE  /\ Pauses \in Nat
           /\ readErrors' = readErrors => Pauses' = Pauses
           /\ readErrors' = readErrors + 1 => Pauses' = Pauses + DiscoverTimeout
BY Constants, Product DEF TypeOK, Pauses

LEMMA LeftIn ==
    /\ \A n \in Nat : /\ Left(n)["BOUND"] = HalfFloor
                      /\ Left(n)["RENEWING"] = HalfFloor - DiscoverTimeout
                      /\ Left(n)["RENEW_REQUESTED"] = HalfFloor - 2 * DiscoverTimeout + 1
    /\ Left(1)["REBINDING"] = HalfFloor - 3 * DiscoverTimeout + 1
    /\ Left(2)["REBINDING"] = HalfFloor - 4 * DiscoverTimeout + 1
    /\ Left(3)["REBINDING"] = HalfFloor - 5 * DiscoverTimeout + 1
BY Constants, Halves DEF Left

(* The lease outlasts the timeout by what is left in its state.            *)
LEMMA NoResponseLease ==
    ASSUME TypeOK, lessor \in Servers, NEW lease \in 0..IntMax,
           lease >= HalfFloor - 2 * DiscoverTimeout + 1,
           grant >= lease - (MaxAge + Pauses),
           NoResponse(lease), lease_remaining' = lease, readErrors' = readErrors
    PROVE  LeaseInv'
<1> USE Constants, Halves, LeftIn, PausesStep DEF HoldingStates, SelectTries
<1>1. CASE lease > LeaseFloor
  BY <1>1 DEF NoResponse, BOUND_for_half_lease, LeaseInv, TypeOK
<1>2. CASE ~(lease > LeaseFloor) /\ lease > 0
  BY <1>2 DEF NoResponse, RebindSend, LeaseInv, TypeOK
<1>3. CASE ~(lease > LeaseFloor) /\ ~(lease > 0)
  BY <1>3 DEF NoResponse, LoseLease, LeaseInv
<1> QED
  BY <1>1, <1>2, <1>3

LEMMA RenewLease ==
    ASSUME TypeOK, lessor \in Servers, NEW lease \in 0..IntMax,
           NEW into \in {"RENEWING", "RENEW_REQUESTED"},
           lease >= IF into = "RENEWING" THEN HalfFloor ELSE HalfFloor - DiscoverTimeout + 1,
           grant >= lease - (MaxAge + Pauses),
           Renew(into, lease)
    PROVE  LeaseInv'
<1> USE Constants, Halves, LeftIn, PausesStep DEF HoldingStates, SelectTries
<1>1. CASE NoResponse(lease)
  BY <1>1, NoResponseLease DEF Renew
<1>2. CASE ~NoResponse(lease)
  BY <1>2 DEF Renew, LeaseInv, TypeOK
<1> QED
  BY <1>1, <1>2

LEMMA LeaseStep ==
    ASSUME TypeOK, TypeOK', AddressMatchesState, LeaseInv, [Next]_vars
    PROVE  LeaseInv'
<1> USE Constants, Halves, PausesStep DEF HoldingStates
<1>1. CASE Discover \/ Select \/ LeaseFail
  BY <1>1 DEF Discover, Select, LeaseFail, Elapsed, LeaseInv
<1>2. CASE HalfLease
  BY <1>2, LeftIn, RenewLease DEF HalfLease, Elapsed, LeaseInv, TypeOK
<1>3. CASE RenewUnanswered
  BY <1>3, LeftIn, NoResponseLease DEF RenewUnanswered, Elapsed, LeaseInv, TypeOK
<1>4. CASE Rebind
  <2>1. CASE RebindSend(packet_num) /\ packet_num < SelectTries
    BY <1>4, <2>1, LeftIn DEF Rebind, RebindSend, Elapsed, LeaseInv, TypeOK, SelectTries, process
  <2>2. CASE LoseLease
    BY <2>2 DEF LoseLease, LeaseInv
  <2> QED
    BY <1>4, <2>1, <2>2 DEF Rebind
<1>5. ASSUME NEW m \in net, ReceiveOffer(m) \/ ReceiveNak(m)
      PROVE  LeaseInv'
  BY <1>5 DEF ReceiveOffer, ReceiveNak, LeaseInv
<1>6. ASSUME NEW m \in net, ReceiveAck(m)
      PROVE  LeaseInv'
  <2>1. m.lease \in Nat /\ m.age \in 0..MaxAge /\ m.from \in Servers
    BY ReplyType DEF TypeOK
  <2>2. /\ Sanitized(m.lease) \in Nat /\ Sanitized(m.lease) >= LeaseFloor
        /\ Sanitized(m.lease) <= Max2(m.lease, LeaseFloor) /\ Max2(m.lease, LeaseFloor) \in Nat
    BY <2>1 DEF Sanitized, Max2, Min2
  <2>3. /\ state' = "BOUND" /\ packet_num' = 0 /\ timeout' = Sanitized(m.lease) \div 2
        /\ lease_remaining' = Sanitized(m.lease) /\ lessor' = m.from
        /\ grant' = Max2(m.lease, LeaseFloor) - m.age /\ readErrors' = readErrors
    BY <1>6 DEF ReceiveAck, Receive, BOUND_for_half_lease, bounds
  <2>4. timeout' \in Nat /\ lease_remaining' >= timeout' + HalfFloor
    BY <2>2, <2>3
  <2>5. grant' >= lease_remaining' - (MaxAge + Pauses')
    BY <2>1, <2>2, <2>3
  <2> QED
    BY <2>1, <2>3, <2>4, <2>5, LeftIn DEF LeaseInv
<1>7. CASE Tick
  <2> SUFFICES ASSUME Running, state \in HoldingStates
               PROVE  LeaseInv'
    BY <1>7 DEF Tick, LeaseInv, Running, process
  <2>1. timeout \in Nat /\ timeout > 0 /\ timeout' = timeout - 1
    BY <1>7 DEF Tick, Polling, LeaseInv, Forever
  <2>2. lease_remaining' = lease_remaining - 1
    BY <1>7, <2>1, LeftIn DEF Tick, LeaseInv, TypeOK, Max2, SelectTries
  <2>3. grant' >= grant - 1 /\ grant' \in Int
    BY <1>7, LaterType, ServersAssumption DEF Tick, LeaseInv
  <2>4. Left(packet_num)[state] \in Int
    BY LeftIn DEF LeaseInv, TypeOK, SelectTries
  <2>5. UNCHANGED <<state, packet_num, lessor, readErrors>>
    BY <1>7 DEF Tick, bounds
  <2>6. lease_remaining' >= timeout' + Left(packet_num')[state']
    BY <2>1, <2>2, <2>4, <2>5 DEF LeaseInv, TypeOK
  <2> QED
    BY <2>1, <2>2, <2>3, <2>5, <2>6 DEF LeaseInv, TypeOK
<1>8. CASE Quit \/ Die
  BY <1>8 DEF Quit, Die, LeaseInv, Running
<1>9. CASE RenewSignal
  BY <1>9, LeftIn, RenewLease DEF RenewSignal, Signal, Polling, LeaseInv, TypeOK, Min2
<1>10. CASE StartOver \/ perform_release
  BY <1>10 DEF StartOver, LoseLease, perform_release, LeaseInv
<1>11. CASE ReadError
  BY <1>11, LaterType, ServersAssumption DEF ReadError, LeaseInv, TypeOK, client, process, Running
<1>12. CASE UNCHANGED vars
  BY <1>12 DEF vars, client, process, bounds, LeaseInv, Running
<1> QED
  BY <1>1, <1>2, <1>3, <1>4, <1>5, <1>6, <1>7, <1>8, <1>9, <1>10, <1>11, <1>12
     DEF Next, Serve, Environment

-----------------------------------------------------------------------------
LEMMA ClientStep == ClientInv /\ [Next]_vars => ClientInv'
BY TypeStep, AskingStep, AddressStep, OptionStep, LeaseStep DEF ClientInv

(* Every variable of the client, the network and startup.sh keeps its type.*)
THEOREM UdhcpcTypeOK == Spec => []TypeOK
<1>1. ClientInv => TypeOK
  BY DEF ClientInv
<1> QED
  BY ClientInit, ClientStep, <1>1, PTL DEF Spec

(* The interface has an address exactly while the client holds a lease,    *)
(* and it is the acknowledged one, whatever replies are lost, late or      *)
(* duplicated and whatever signals interrupt a renewal.                    *)
THEOREM UdhcpcAddressMatchesState == Spec => []AddressMatchesState
<1>1. ClientInv => AddressMatchesState
  BY DEF ClientInv
<1> QED
  BY ClientInit, ClientStep, <1>1, PTL DEF Spec

(* No lease is used longer than it was granted, but for the way of its ACK *)
(* and the pauses after read errors: the half of the lease that is left at *)
(* the first renewal outlasts all the timeouts that can follow without a   *)
(* new lease, with -T 3 and leases of 30 seconds or more.                  *)
THEOREM UdhcpcLeaseHonoured == Spec => []LeaseHonoured
<1>1. ASSUME ClientInv
      PROVE  LeaseHonoured
  <2> USE <1>1 DEF ClientInv
  <2> SUFFICES ASSUME Running, ip # None
               PROVE  grant >= -(MaxAge + Pauses)
    BY DEF LeaseHonoured, Pauses
  <2>1. state \in HoldingStates
    BY DEF AddressMatchesState
  <2>2. grant >= lease_remaining - (MaxAge + Pauses) /\ lease_remaining \in Nat /\ grant \in Int
    BY <2>1, Constants DEF LeaseInv, TypeOK
  <2> QED
    BY <2>2, PausesStep, Constants
<1> QED
  BY ClientInit, ClientStep, <1>1, PTL DEF Spec

(* A client in the background never gives up for want of a lease, whatever *)
(* answers it lacks: opt_n is in force exactly while startup.sh still      *)
(* waits, and leasefail ends the client under -n only.  A socket that      *)
(* cannot be opened and a failing poll() are steps of their own, Die.      *)
THEOREM UdhcpcFailsOnlyAtBoot == Spec => FailsOnlyAtBoot
<1>1. ASSUME ClientInv, [Next]_vars
      PROVE  [boot # "waiting" => alive' # "failed"]_vars
  <2> SUFFICES ASSUME Next, boot # "waiting", alive' = "failed"
               PROVE  FALSE
    BY <1>1
  <2>1. Running
    BY DEF Next, Serve, Environment, Discover, Select, LeaseFail, HalfLease, RenewUnanswered,
           Rebind, Elapsed, ReceiveOffer, ReceiveAck, ReceiveNak, Receive, Tick, Quit, Die, Opens,
           RenewSignal, StartOver, perform_release, Signal, ReadError, Polling
  <2>2. ~opt_n
    BY <1>1, <2>1 DEF ClientInv, OptionInForce
  <2> QED
    BY <2>1, <2>2
       DEF Next, Serve, Environment, Discover, Select, LeaseFail, FailWithN, HalfLease, Renew,
           RenewUnanswered, Rebind, ReceiveOffer, ReceiveAck, ReceiveNak, Tick, Quit, Die,
           RenewSignal, StartOver, perform_release, ReadError, process, Running
<1> QED
  BY ClientInit, ClientStep, <1>1, PTL DEF Spec, FailsOnlyAtBoot
=============================================================================
