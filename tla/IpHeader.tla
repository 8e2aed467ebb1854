------------------------------ MODULE IpHeader ------------------------------
(***************************************************************************)
(* The headers of a UDP packet (ip.c, udp.c, ethernet_change_endianess)    *)
(* and the IP header's checksum.  A header is the sequence of its 16-bit   *)
(* words as the little-endian processor reads them.                        *)
(*                                                                         *)
(* A Bug... operator is a mistake the definition after it could hold.      *)
(***************************************************************************)
EXTENDS Integers

W16 == 65536
Word == 0 .. W16 - 1

\* ethernet_change_endianess.
Swap(w) == ((w * 256) % W16) + (w \div 256)

IP_PROTOCOL_UDP == 17
UdpHeaderSize == 8
IpHeaderSize == 20
EthernetHeaderSize == 14

-----------------------------------------------------------------------------
\* ip_checksum.

\* One turn of its loop.
AddWord(acc, w) == IF acc + w >= W16 THEN acc + w - (W16 - 1) ELSE acc + w

\* The loop over the ten words of a header, and the complement.
Sum5(acc, h, i) ==
  AddWord(AddWord(AddWord(AddWord(AddWord(acc, h[i]), h[i+1]), h[i+2]), h[i+3]), h[i+4])
Sum10(h) == Sum5(Sum5(W16 - 1, h, 1), h, 6)
ip_checksum(h) == W16 - 1 - Sum10(h)

-----------------------------------------------------------------------------
\* The IP header.  An address is a pair of words.

\* ip_init_header: everything but length and checksum, which stay 0.
ip_init_header(source_ip, dest_ip) ==
  <<4 * 16 + 5, 0, 0, Swap(2 * 8192), 64 + 256 * IP_PROTOCOL_UDP, 0,
    source_ip[1], source_ip[2], dest_ip[1], dest_ip[2]>>

BugChecksumFirst(header, length) ==
  [header EXCEPT ![6] = ip_checksum(header), ![2] = Swap(length)]

\* The checksum is taken of the header with its length and a checksum of 0.
ip_set_data_length(header, length) ==
  LET h == [header EXCEPT ![2] = Swap(length)]
  IN  [h EXCEPT ![6] = ip_checksum(h)]

\* udp_create_header.
udp_create_header(source_port, dest_port, length) ==
  [source_port |-> Swap(source_port), dest_port |-> Swap(dest_port),
   length |-> Swap((length + UdpHeaderSize) % W16)]

-----------------------------------------------------------------------------
\* What a receiver checks (RFC 791, 1071): the words in network byte order,
\* summed with end-around carry, give all ones.

NetworkOrder(h) ==
  Swap(h[1]) + Swap(h[2]) + Swap(h[3]) + Swap(h[4]) + Swap(h[5])
  + Swap(h[6]) + Swap(h[7]) + Swap(h[8]) + Swap(h[9]) + Swap(h[10])
EndAround(n) == (n % W16) + (n \div W16)
Verifies(h) == EndAround(EndAround(NetworkOrder(h))) = W16 - 1
=============================================================================
