------------------------------ MODULE Network ------------------------------
(***************************************************************************)
(* Stations that run the network stack (network.c, arp.c) on a network     *)
(* that loses, repeats and reorders frames.  Each call of the stack is one *)
(* step and hands at most one frame to enc_send.  The application on top   *)
(* of the stack, which is not in the repository, is modelled by what the   *)
(* stack leaves to it: to answer the ARP questions it receives, to enter   *)
(* the answers into the table, and to send its data again as long as       *)
(* network_send_data_packet returns 0.                                     *)
(*                                                                         *)
(* A Bug... operator is a mistake the definition after it could hold.      *)
(***************************************************************************)
EXTENDS IpHeader, FiniteSets

CONSTANTS
  Stations,   \* the stations; one stands for its IP address too
  IpWords,    \* the two words of each station's IP address
  NoIp,       \* 0.0.0.0, which unused entries of the table hold
  MacsOf,     \* the hardware addresses each station may have
  NoMac, Broadcast,
  TableSize,  \* ARP_TABLE_SIZE
  Messages,   \* [port, length] of a packet of data
  Wishes,     \* who may want to send what to whom
  MaxNet      \* bound: frames on the network; one more pushes another out

Macs == UNION {MacsOf[s] : s \in Stations}
FrameBytes == 1518

ASSUME StationAssumption ==
  /\ IpWords \in [Stations -> Word \X Word]
  /\ NoIp \notin Stations
  /\ \A s \in Stations : MacsOf[s] # {}
  /\ NoMac \notin Macs /\ Broadcast \notin Macs

ASSUME MessageAssumption ==
  /\ TableSize \in Nat \ {0}
  /\ \A m \in Messages :
       m.port \in Word /\ m.length \in 0 .. FrameBytes - EthernetHeaderSize
                                            - IpHeaderSize - UdpHeaderSize
  /\ Wishes \subseteq {w \in Stations \X Stations \X Messages : w[1] # w[2]}
  /\ MaxNet \in Nat \ {0}

VARIABLES
  table, ptr_entry,  \* arp_table and ptr_entry of each station
  this_mac,          \* its hardware address
  overrun,           \* it has written past arp_table: what follows is undefined
  repeated,          \* it was given an entry for an address already in the table
  want,              \* what its application wants to send
  out,               \* what network_send_data_packet last sent to, and where
  net,               \* the frames on the network
  owned              \* the hardware addresses each station has had

stack == <<table, ptr_entry, overrun, repeated>>
vars == <<stack, this_mac, want, out, net, owned>>

-----------------------------------------------------------------------------
\* The ARP table.

Slots == 1 .. TableSize
ArpEntry == [mac : Macs \cup {NoMac}, ip : Stations \cup {NoIp}]
NoEntry == [mac |-> NoMac, ip |-> NoIp]
EmptyTable == [i \in Slots |-> NoEntry]

\* arp_table_get_mac: the first entry for the address; NoMac is the null pointer.
arp_table_get_mac(t, d) ==
  LET found == {i \in Slots : t[i].ip = d}
  IN  IF found = {} THEN NoMac
      ELSE t[CHOOSE i \in found : \A j \in found : i <= j].mac

BugNewestFirst(s, m, d) ==
  /\ IF ptr_entry[s] < TableSize
     THEN /\ table' = [table EXCEPT ![s] = [i \in Slots |->
                         IF i = 1 THEN [mac |-> m, ip |-> d] ELSE @[i - 1]]]
          /\ UNCHANGED overrun
     ELSE overrun' = [overrun EXCEPT ![s] = TRUE] /\ UNCHANGED table
  /\ ptr_entry' = [ptr_entry EXCEPT ![s] = @ + 1]

BugPreIncrement(s, m, d) ==
  /\ IF ptr_entry[s] + 1 < TableSize
     THEN /\ table' = [table EXCEPT ![s] =
                         [@ EXCEPT ![ptr_entry[s] + 2] = [mac |-> m, ip |-> d]]]
          /\ UNCHANGED overrun
     ELSE overrun' = [overrun EXCEPT ![s] = TRUE] /\ UNCHANGED table
  /\ ptr_entry' = [ptr_entry EXCEPT ![s] = @ + 1]

\* arp_table_set_entry: behind the last one; nothing checks that there is room.
arp_table_set_entry(s, m, d) ==
  /\ IF ptr_entry[s] < TableSize
     THEN /\ table' = [table EXCEPT ![s] =
                         [@ EXCEPT ![ptr_entry[s] + 1] = [mac |-> m, ip |-> d]]]
          /\ UNCHANGED overrun
     ELSE overrun' = [overrun EXCEPT ![s] = TRUE] /\ UNCHANGED table
  /\ ptr_entry' = [ptr_entry EXCEPT ![s] = @ + 1]

-----------------------------------------------------------------------------
\* Frames.

BugAskSelf(sha, spa, tpa) ==
  [kind |-> "ask", to |-> Broadcast, from |-> sha, sha |-> sha, spa |-> spa, tpa |-> spa]

arp_create_ask(sha, spa, tpa) ==
  [kind |-> "ask", to |-> Broadcast, from |-> sha, sha |-> sha, spa |-> spa, tpa |-> tpa]

BugAskersMac(sha, spa, tha, tpa) ==
  [kind |-> "answer", to |-> tha, from |-> sha, sha |-> tha, spa |-> spa, tpa |-> tpa]

arp_create_answer(sha, spa, tha, tpa) ==
  [kind |-> "answer", to |-> tha, from |-> sha, sha |-> sha, spa |-> spa, tpa |-> tpa]

BugUdpLength(s, d, m) ==
  LET length == m.length + UdpHeaderSize
  IN  [ip |-> ip_set_data_length(ip_init_header(IpWords[s], IpWords[d]), length + IpHeaderSize),
       udp |-> udp_create_header(m.port, 20014, length),
       length |-> length + IpHeaderSize + EthernetHeaderSize]

\* The headers network_send_data_packet builds, and the length it gives enc_send.
Headers(s, d, m) ==
  LET length == m.length + UdpHeaderSize + IpHeaderSize
  IN  [ip |-> ip_set_data_length(ip_init_header(IpWords[s], IpWords[d]), length),
       udp |-> udp_create_header(m.port, 20014, m.length),
       length |-> length + EthernetHeaderSize]

Packet == [s \in Stations |-> [d \in Stations |-> [m \in Messages |-> Headers(s, d, m)]]]

DataFrame(s, d, to, m) ==
  [kind |-> "data", to |-> to, from |-> this_mac[s], dest |-> d, packet |-> Packet[s][d][m]]

-----------------------------------------------------------------------------
\* The calls of the stack.

\* enc_send puts a frame on the network N, which may lose another by it.
Sent(N, f) ==
  {N2 \cup {f} : N2 \in {N3 \in {N} \cup {N \ {g} : g \in N} : Cardinality(N3 \ {f}) < MaxNet}}

\* network_send_data_packet returns 1: the data goes to the address found.
SendData(s, d, m) ==
  LET mac == arp_table_get_mac(table[s], d)
  IN  /\ mac # NoMac
      /\ net' \in Sent(net, DataFrame(s, d, mac, m))
      /\ want' = [want EXCEPT ![s] = @ \ {<<d, m>>}]
      /\ out' = [out EXCEPT ![s] = <<d, mac>>]

\* It returns 0: an ARP question goes out in place of the data.
SendAsk(s, d) ==
  /\ arp_table_get_mac(table[s], d) = NoMac
  /\ net' \in Sent(net, arp_create_ask(this_mac[s], s, d))
  /\ out' = [out EXCEPT ![s] = <<d, Broadcast>>]
  /\ UNCHANGED want

Send(s, d, m) ==
  /\ ~overrun[s] /\ <<d, m>> \in want[s]
  /\ SendData(s, d, m) \/ SendAsk(s, d)
  /\ UNCHANGED <<stack, this_mac, owned>>

\* The network delivers a frame, and may deliver it again.
Receive(s, f) ==
  /\ ~overrun[s]
  /\ f \in net /\ f.to \in {this_mac[s], Broadcast} /\ f.from # this_mac[s]
  /\ UNCHANGED <<this_mac, want, out, owned>>

\* The application answers a question about its own address
\* (network_send_arp_answer).
ReceiveAsk(s, f) ==
  /\ Receive(s, f) /\ f.kind = "ask" /\ f.tpa = s
  /\ \E N \in {net, net \ {f}} :
       net' \in Sent(N, arp_create_answer(this_mac[s], s, f.sha, f.spa))
  /\ UNCHANGED stack

\* It enters an answer into the table, always or only if the address is new.
ReceiveAnswer(s, f) ==
  /\ Receive(s, f) /\ f.kind = "answer" /\ f.tpa = s
  /\ net' \in {net, net \ {f}}
  /\ \/ /\ arp_table_set_entry(s, f.sha, f.spa)
        /\ repeated' = [repeated EXCEPT ![s] = @ \/ \E i \in Slots : table[s][i].ip = f.spa]
     \/ /\ arp_table_get_mac(table[s], f.spa) # NoMac
        /\ UNCHANGED stack

ReceiveData(s, f) ==
  /\ Receive(s, f) /\ f.kind = "data"
  /\ net' = net \ {f}
  /\ UNCHANGED stack

-----------------------------------------------------------------------------

Lose(f) ==
  /\ net' = net \ {f}
  /\ UNCHANGED <<stack, this_mac, want, out, owned>>

\* The application wants something sent.
Request(s, d, m) ==
  /\ <<s, d, m>> \in Wishes
  /\ want' = [want EXCEPT ![s] = @ \cup {<<d, m>>}]
  /\ UNCHANGED <<stack, this_mac, out, net, owned>>

\* A station restarts, possibly with another network adapter.
Restart(s, m) ==
  /\ table' = [table EXCEPT ![s] = EmptyTable]
  /\ ptr_entry' = [ptr_entry EXCEPT ![s] = 0]
  /\ overrun' = [overrun EXCEPT ![s] = FALSE]
  /\ repeated' = [repeated EXCEPT ![s] = FALSE]
  /\ this_mac' = [this_mac EXCEPT ![s] = m]
  /\ owned' = [owned EXCEPT ![s] = @ \cup {m}]
  /\ want' = [want EXCEPT ![s] = {}]
  /\ out' = [out EXCEPT ![s] = <<>>]
  /\ UNCHANGED net

Init ==
  /\ table = [s \in Stations |-> EmptyTable] /\ ptr_entry = [s \in Stations |-> 0]
  /\ overrun = [s \in Stations |-> FALSE] /\ repeated = [s \in Stations |-> FALSE]
  /\ this_mac \in {f \in [Stations -> Macs] : \A s \in Stations : f[s] \in MacsOf[s]}
  /\ owned = [s \in Stations |-> {this_mac[s]}]
  /\ want = [s \in Stations |-> {}] /\ out = [s \in Stations |-> <<>>]
  /\ net = {}

SendTo(s, d) == \E m \in Messages : Send(s, d, m)
AskFrom(s, d) == \E f \in net : f.kind = "ask" /\ f.spa = d /\ ReceiveAsk(s, f)
AnswerFrom(s, d) == \E f \in net : f.kind = "answer" /\ f.spa = d /\ ReceiveAnswer(s, f)

Next ==
  \/ \E s, d \in Stations : SendTo(s, d) \/ AskFrom(s, d) \/ AnswerFrom(s, d)
  \/ \E s \in Stations : \E f \in net : ReceiveData(s, f)
  \/ \E f \in net : Lose(f)
  \/ \E s, d \in Stations, m \in Messages : Request(s, d, m)
  \/ \E s \in Stations : \E m \in MacsOf[s] : Restart(s, m)

Spec == Init /\ [][Next]_vars

\* The application sends again until it succeeds; a frame sent again and again
\* is delivered in the end.
Fairness ==
  \A w \in Wishes : /\ WF_vars(Send(w[1], w[2], w[3]))
                    /\ SF_vars(AskFrom(w[2], w[1])) /\ SF_vars(AnswerFrom(w[1], w[2]))

FairSpec == Spec /\ Fairness

-----------------------------------------------------------------------------
\* Properties.

TypeOK ==
  /\ table \in [Stations -> [Slots -> ArpEntry]]
  /\ ptr_entry \in [Stations -> Nat]
  /\ overrun \in [Stations -> BOOLEAN] /\ repeated \in [Stations -> BOOLEAN]
  /\ this_mac \in [Stations -> Macs]
  /\ want \in [Stations -> SUBSET (Stations \X Messages)]
  /\ out \in [Stations -> {<<>>} \cup Stations \X (Macs \cup {Broadcast})]
  /\ owned \in [Stations -> SUBSET Macs]

DataFrames == {f \in net : f.kind = "data"}

\* The IP header of every packet verifies at the receiver, which adds its words
\* in the other byte order: length and checksum are set in the right order and
\* every carry is taken in.
HeadersVerify == \A f \in DataFrames : Verifies(f.packet.ip)

\* The three lengths of a packet agree: UDP's, IP's and the one enc_send gets.
LengthsAgree ==
  \A f \in DataFrames :
    LET p == f.packet
    IN  /\ Swap(p.ip[2]) + EthernetHeaderSize = p.length
        /\ Swap(p.udp.length) + IpHeaderSize + EthernetHeaderSize = p.length

\* Data is sent only to hardware addresses the station it is meant for has had:
\* an unused entry of the table, a question of somebody else or a frame that
\* comes late is never taken for a binding.
DataToOwner == \A f \in DataFrames : f.to \in owned[f.dest]

\* As long as the application enters an address once, the table is large enough
\* for a network with no more other stations than entries.
TableSuffices == \A s \in Stations : overrun[s] => repeated[s]

\* The ARP table is a book in which the first address learned for a station
\* stands until the restart, however often and with whatever it is entered again.
Book == [s \in Stations |->
           [d \in Stations |-> IF overrun[s] THEN NoMac ELSE arp_table_get_mac(table[s], d)]]
Out == [s \in Stations |-> IF overrun[s] THEN <<>> ELSE out[s]]
Addresses == INSTANCE AddressBook WITH book <- Book, out <- Out
ImplementsBook == Addresses!Spec

\* Data is sent in the end although every packet may be lost on the way and the
\* first call sends none of it: the ARP question, asked again, is answered.
DataSent ==
  \A w \in Wishes :
    <<w[2], w[3]>> \in want[w[1]] ~> (<<w[2], w[3]>> \notin want[w[1]] \/ overrun[w[1]])
=============================================================================
