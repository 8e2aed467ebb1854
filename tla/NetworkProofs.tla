--------------------------- MODULE NetworkProofs ---------------------------
(***************************************************************************)
(* Proofs about Network for any number of stations, entries of the table   *)
(* and messages, and about the checksum for every header.                  *)
(***************************************************************************)
EXTENDS Network, FiniteSetTheorems, TLAPS

-----------------------------------------------------------------------------
\* The checksum.  A sum that began with all ones stays in 1 .. 65535.

Sum == 1 .. W16 - 1

LEMMA Width == W16 \in Nat /\ W16 > 1
BY DEF W16

LEMMA AddWordType ==
  ASSUME NEW acc \in Sum, NEW w \in Word
  PROVE  AddWord(acc, w) \in Sum
BY Width DEF Sum, Word, AddWord

LEMMA AddWordCommutes ==
  ASSUME NEW acc \in Sum, NEW v \in Word, NEW w \in Word
  PROVE  AddWord(AddWord(acc, v), w) = AddWord(AddWord(acc, w), v)
BY Width DEF Sum, Word, AddWord

\* What is added to a sum to give all ones.
LEMMA AddComplement ==
  ASSUME NEW acc \in Sum
  PROVE  W16 - 1 - acc \in Word /\ AddWord(acc, W16 - 1 - acc) = W16 - 1
BY Width DEF Sum, Word, AddWord

\* A word of 0 changes no sum.
LEMMA AddZero ==
  ASSUME NEW acc \in Sum
  PROVE  AddWord(acc, 0) = acc
BY Width DEF Sum, AddWord

\* Whatever a header holds, with its checksum set over a checksum field of 0 it
\* sums to all ones as the processor reads it: ip_checksum of the finished header
\* is 0.
LEMMA ChecksumIsZero ==
  ASSUME NEW h \in [1 .. 10 -> Word], h[6] = 0
  PROVE  ip_checksum([h EXCEPT ![6] = ip_checksum(h)]) = 0
<1> DEFINE c == ip_checksum(h)
           g == [h EXCEPT ![6] = c]
<1>0. /\ h[1] \in Word /\ h[2] \in Word /\ h[3] \in Word /\ h[4] \in Word /\ h[5] \in Word
      /\ h[7] \in Word /\ h[8] \in Word /\ h[9] \in Word /\ h[10] \in Word
      /\ 0 \in Word /\ W16 - 1 \in Sum
  BY Width DEF Word, Sum
<1> DEFINE s1 == AddWord(W16 - 1, h[1])
           s2 == AddWord(s1, h[2])
           s3 == AddWord(s2, h[3])
           s4 == AddWord(s3, h[4])
           s5 == AddWord(s4, h[5])
           s7 == AddWord(s5, h[7])
           s8 == AddWord(s7, h[8])
           s9 == AddWord(s8, h[9])
           s10 == AddWord(s9, h[10])
<1>1. s1 \in Sum /\ s2 \in Sum /\ s3 \in Sum /\ s4 \in Sum /\ s5 \in Sum
  <2>1. s1 \in Sum
    BY <1>0, AddWordType
  <2> HIDE DEF s1
  <2>2. s2 \in Sum
    BY <1>0, <2>1, AddWordType
  <2> HIDE DEF s2
  <2>3. s3 \in Sum
    BY <1>0, <2>2, AddWordType
  <2> HIDE DEF s3
  <2>4. s4 \in Sum
    BY <1>0, <2>3, AddWordType
  <2> HIDE DEF s4
  <2>5. s5 \in Sum
    BY <1>0, <2>4, AddWordType
  <2>6. QED
    BY <2>1, <2>2, <2>3, <2>4, <2>5
<1>2. Sum5(W16 - 1, h, 1) = s5
  BY DEF Sum5
<1>3. Sum5(W16 - 1, g, 1) = s5
  <2>1. g[1] = h[1] /\ g[2] = h[2] /\ g[3] = h[3] /\ g[4] = h[4] /\ g[5] = h[5]
    OBVIOUS
  <2>2. QED
    BY <2>1 DEF Sum5
<1> HIDE DEF s5
<1>4. s7 \in Sum /\ s8 \in Sum /\ s9 \in Sum /\ s10 \in Sum
  <2>1. s7 \in Sum
    BY <1>0, <1>1, AddWordType
  <2> HIDE DEF s7
  <2>2. s8 \in Sum
    BY <1>0, <2>1, AddWordType
  <2> HIDE DEF s8
  <2>3. s9 \in Sum
    BY <1>0, <2>2, AddWordType
  <2> HIDE DEF s9
  <2>4. s10 \in Sum
    BY <1>0, <2>3, AddWordType
  <2>5. QED
    BY <2>1, <2>2, <2>3, <2>4
<1>5. Sum10(h) = s10
  <2>1. Sum5(s5, h, 6) = AddWord(AddWord(AddWord(AddWord(AddWord(s5, h[6]), h[7]), h[8]), h[9]), h[10])
    BY DEF Sum5
  <2>2. AddWord(s5, h[6]) = s5
    BY <1>1, AddZero
  <2>3. QED
    BY <1>2, <2>1, <2>2 DEF Sum10
<1>6. c = W16 - 1 - s10 /\ c \in Word /\ AddWord(s10, c) = W16 - 1
  <2> HIDE DEF s10
  <2>1. c = W16 - 1 - s10
    BY <1>5 DEF ip_checksum
  <2>2. QED
    BY <1>4, <2>1, AddComplement
<1> HIDE DEF c
<1>7. AddWord(AddWord(AddWord(AddWord(AddWord(s5, c), h[7]), h[8]), h[9]), h[10])
        = AddWord(s10, c)
  <2>0. \A acc \in Sum, w \in Word : AddWord(AddWord(acc, c), w) = AddWord(AddWord(acc, w), c)
    BY <1>6, AddWordCommutes
  <2>1. AddWord(AddWord(s5, c), h[7]) = AddWord(s7, c)
    BY <1>0, <1>1, <2>0
  <2> HIDE DEF s7
  <2>2. AddWord(AddWord(s7, c), h[8]) = AddWord(AddWord(s7, h[8]), c)
    BY <1>0, <1>4, <2>0
  <2> HIDE DEF s8
  <2>3. AddWord(AddWord(s8, c), h[9]) = AddWord(AddWord(s8, h[9]), c)
    BY <1>0, <1>4, <2>0
  <2> HIDE DEF s9
  <2>4. AddWord(AddWord(s9, c), h[10]) = AddWord(AddWord(s9, h[10]), c)
    BY <1>0, <1>4, <2>0
  <2>5. QED
    BY <2>1, <2>2, <2>3, <2>4 DEF s8, s9
<1>8. Sum10(g) = W16 - 1
  <2>1. g[6] = c /\ g[7] = h[7] /\ g[8] = h[8] /\ g[9] = h[9] /\ g[10] = h[10]
    OBVIOUS
  <2> HIDE DEF g, s7, s8, s9, s10
  <2>2. Sum5(s5, g, 6) = AddWord(AddWord(AddWord(AddWord(AddWord(s5, c), h[7]), h[8]), h[9]), h[10])
    BY <2>1 DEF Sum5
  <2>3. QED
    BY <1>3, <1>6, <1>7, <2>2 DEF Sum10
<1>9. ip_checksum(g) = 0
  <2> HIDE DEF g
  <2>1. QED
    BY <1>8, Width DEF ip_checksum
<1>10. QED
  BY <1>9 DEF c

-----------------------------------------------------------------------------
\* The receiver adds the words in the other byte order.

LEMMA WordIs ==
  ASSUME NEW n
  PROVE  n \in Word <=> n \in Int /\ 0 <= n /\ n < 65536
<1>1. n \in Word <=> n \in Int /\ 0 <= n /\ n < W16
  BY Width DEF Word
<1>2. W16 = 65536
  BY DEF W16
<1>3. QED
  BY <1>1, <1>2

\* Swapping the bytes multiplies by 256, modulo 65535.
LEMMA SwapIs ==
  ASSUME NEW w \in Word
  PROVE  \E q \in Nat : Swap(w) = 256 * w - 65535 * q
<1>1. w \in Int /\ 0 <= w /\ w < 65536
  BY WordIs
<1>2. Swap(w) = 256 * w - 65535 * (w \div 256) /\ w \div 256 \in Nat
  BY <1>1 DEF Swap, W16
<1>3. QED
  BY <1>2

LEMMA SwapType ==
  ASSUME NEW w \in Word
  PROVE  Swap(w) \in Word
<1>1. w \in Int /\ 0 <= w /\ w < 65536
  BY WordIs
<1>2. Swap(w) \in Int /\ 0 <= Swap(w) /\ Swap(w) < 65536
  BY <1>1 DEF Swap, W16
<1>3. QED
  BY <1>2, WordIs

LEMMA SwapTwice ==
  ASSUME NEW w \in Word
  PROVE  Swap(Swap(w)) = w
<1>1. w \in Int /\ 0 <= w /\ w < 65536
  BY WordIs
<1>2. QED
  BY <1>1 DEF Swap, W16

\* One turn of the checksum's loop adds modulo 65535.
LEMMA AddWordIs ==
  ASSUME NEW acc \in Sum, NEW w \in Word
  PROVE  \E c \in Nat : AddWord(acc, w) = acc + w - 65535 * c
<1>1. acc \in Int /\ w \in Int
  BY Width DEF Sum, Word
<1>2. AddWord(acc, w) = acc + w - 65535 * 0 \/ AddWord(acc, w) = acc + w - 65535 * 1
  BY <1>1 DEF AddWord, W16
<1>3. QED
  BY <1>2

LEMMA EndAroundIs ==
  ASSUME NEW n \in 1 .. 10
  PROVE  EndAround(EndAround(65535 * n)) = 65535
<1>1. EndAround(65535 * n) = 65535
  BY DEF EndAround, W16
<1>2. EndAround(65535) = 65535
  BY DEF EndAround, W16
<1>3. QED
  BY <1>1, <1>2

\* Five words that are added change the sum by their total, modulo 65535.
LEMMA Sum5Is ==
  ASSUME NEW acc \in Sum, NEW v, NEW i \in 1 .. 6,
         v[i] \in Word, v[i+1] \in Word, v[i+2] \in Word, v[i+3] \in Word, v[i+4] \in Word
  PROVE  /\ Sum5(acc, v, i) \in Sum
         /\ \E c \in Nat : Sum5(acc, v, i) =
              acc + v[i] + v[i+1] + v[i+2] + v[i+3] + v[i+4] - 65535 * c
<1> DEFINE a1 == AddWord(acc, v[i])
           a2 == AddWord(a1, v[i+1])
           a3 == AddWord(a2, v[i+2])
           a4 == AddWord(a3, v[i+3])
           a5 == AddWord(a4, v[i+4])
<1>1. Sum5(acc, v, i) = a5
  BY DEF Sum5
<1>2. a1 \in Sum /\ \E c \in Nat : a1 = acc + v[i] - 65535 * c
  BY AddWordType, AddWordIs
<1> HIDE DEF a1
<1>3. a2 \in Sum /\ \E c \in Nat : a2 = a1 + v[i+1] - 65535 * c
  BY <1>2, AddWordType, AddWordIs
<1> HIDE DEF a2
<1>4. a3 \in Sum /\ \E c \in Nat : a3 = a2 + v[i+2] - 65535 * c
  BY <1>3, AddWordType, AddWordIs
<1> HIDE DEF a3
<1>5. a4 \in Sum /\ \E c \in Nat : a4 = a3 + v[i+3] - 65535 * c
  BY <1>4, AddWordType, AddWordIs
<1> HIDE DEF a4
<1>6. a5 \in Sum /\ \E c \in Nat : a5 = a4 + v[i+4] - 65535 * c
  BY <1>5, AddWordType, AddWordIs
<1> HIDE DEF a5
<1>7. PICK c1 \in Nat : a1 = acc + v[i] - 65535 * c1
  BY <1>2
<1>8. PICK c2 \in Nat : a2 = a1 + v[i+1] - 65535 * c2
  BY <1>3
<1>9. PICK c3 \in Nat : a3 = a2 + v[i+2] - 65535 * c3
  BY <1>4
<1>10. PICK c4 \in Nat : a4 = a3 + v[i+3] - 65535 * c4
  BY <1>5
<1>11. PICK c5 \in Nat : a5 = a4 + v[i+4] - 65535 * c5
  BY <1>6
<1> DEFINE c == c1 + c2 + c3 + c4 + c5
<1>12. /\ acc \in Int /\ v[i] \in Int /\ v[i+1] \in Int /\ v[i+2] \in Int /\ v[i+3] \in Int
      /\ v[i+4] \in Int
  BY Width DEF Sum, Word
<1>13. a5 = acc + v[i] + v[i+1] + v[i+2] + v[i+3] + v[i+4] - 65535 * c /\ c \in Nat
  BY <1>7, <1>8, <1>9, <1>10, <1>11, <1>12
<1> HIDE DEF c
<1>14. QED
  BY <1>1, <1>6, <1>13

\* A header whose ip_checksum is 0, and that is not all zeros, verifies at the
\* receiver.
LEMMA ChecksumIsReceivers ==
  ASSUME NEW g \in [1 .. 10 -> Word], ip_checksum(g) = 0, Swap(g[1]) > 0
  PROVE  Verifies(g)
<1> DEFINE total == g[1]+g[2]+g[3]+g[4]+g[5]+g[6]+g[7]+g[8]+g[9]+g[10]
           A == Sum5(W16 - 1, g, 1)
<1>1. /\ g[1] \in Word /\ g[2] \in Word /\ g[3] \in Word /\ g[4] \in Word /\ g[5] \in Word
      /\ g[6] \in Word /\ g[7] \in Word /\ g[8] \in Word /\ g[9] \in Word /\ g[10] \in Word
      /\ W16 - 1 \in Sum
  BY Width DEF Sum
<1>2. \A n \in Word : n \in Int /\ 0 <= n /\ n < 65536
  BY WordIs
<1>3. PICK k \in Int : total = 65535 * k
  <2>1. PICK c \in Nat : A = W16 - 1 + g[1] + g[2] + g[3] + g[4] + g[5] - 65535 * c /\ A \in Sum
    BY <1>1, Sum5Is
  <2> HIDE DEF A
  <2>2. PICK e \in Nat : Sum5(A, g, 6) = A + g[6] + g[7] + g[8] + g[9] + g[10] - 65535 * e
    BY <1>1, <2>1, Sum5Is
  <2>3. Sum5(A, g, 6) \in Sum
    BY <1>1, <2>1, Sum5Is
  <2>4. Sum5(A, g, 6) = W16 - 1
    BY <2>3, Width DEF ip_checksum, Sum10, A, Sum
  <2>5. total = 65535 * (c + e)
    BY <1>1, <1>2, <2>1, <2>2, <2>4, Width DEF Sum
  <2>6. QED
    BY <2>5
<1>4. PICK q \in Int : NetworkOrder(g) = 256 * total - 65535 * q
  <2>1. PICK q1 \in Nat : Swap(g[1]) = 256 * g[1] - 65535 * q1
    BY <1>1, SwapIs
  <2>2. PICK q2 \in Nat : Swap(g[2]) = 256 * g[2] - 65535 * q2
    BY <1>1, SwapIs
  <2>3. PICK q3 \in Nat : Swap(g[3]) = 256 * g[3] - 65535 * q3
    BY <1>1, SwapIs
  <2>4. PICK q4 \in Nat : Swap(g[4]) = 256 * g[4] - 65535 * q4
    BY <1>1, SwapIs
  <2>5. PICK q5 \in Nat : Swap(g[5]) = 256 * g[5] - 65535 * q5
    BY <1>1, SwapIs
  <2>6. PICK q6 \in Nat : Swap(g[6]) = 256 * g[6] - 65535 * q6
    BY <1>1, SwapIs
  <2>7. PICK q7 \in Nat : Swap(g[7]) = 256 * g[7] - 65535 * q7
    BY <1>1, SwapIs
  <2>8. PICK q8 \in Nat : Swap(g[8]) = 256 * g[8] - 65535 * q8
    BY <1>1, SwapIs
  <2>9. PICK q9 \in Nat : Swap(g[9]) = 256 * g[9] - 65535 * q9
    BY <1>1, SwapIs
  <2>10. PICK q10 \in Nat : Swap(g[10]) = 256 * g[10] - 65535 * q10
    BY <1>1, SwapIs
  <2> DEFINE q == q1 + q2 + q3 + q4 + q5 + q6 + q7 + q8 + q9 + q10
  <2>11. NetworkOrder(g) = 256 * total - 65535 * q /\ q \in Int
    BY <1>1, <1>2, <2>1, <2>2, <2>3, <2>4, <2>5, <2>6, <2>7, <2>8, <2>9, <2>10 DEF NetworkOrder
  <2> HIDE DEF q
  <2>12. QED
    BY <2>11
<1>5. NetworkOrder(g) \in Int /\ 0 < NetworkOrder(g) /\ NetworkOrder(g) <= 655350
  <2>1. \A n \in Word : Swap(n) \in Int /\ 0 <= Swap(n) /\ Swap(n) <= 65535
    BY <1>2, SwapType
  <2>2. QED
    BY <1>1, <2>1 DEF NetworkOrder
<1> DEFINE n == 256 * k - q
<1>6. NetworkOrder(g) = 65535 * n
  BY <1>3, <1>4
<1>7. n \in Int
  OBVIOUS
<1> HIDE DEF n
<1>8. n \in 1 .. 10
  BY <1>5, <1>6, <1>7
<1>9. EndAround(EndAround(NetworkOrder(g))) = 65535
  BY <1>6, <1>8, EndAroundIs
<1>10. QED
  BY <1>9 DEF Verifies, W16

LEMMA ChecksumType ==
  ASSUME NEW h \in [1 .. 10 -> Word]
  PROVE  ip_checksum(h) \in Word
<1>1. Sum5(W16 - 1, h, 1) \in Sum
  BY Sum5Is, Width DEF Sum
<1>2. Sum10(h) \in Sum
  BY <1>1, Sum5Is DEF Sum10
<1>3. QED
  BY <1>2, Width DEF ip_checksum, Sum, Word

\* What ip_checksum computes in the processor's byte order is what a receiver
\* verifies in network byte order: ten words whose checksum field was 0, with the
\* checksum put in, verify, whatever else they hold.  (The first word of a header
\* is not 0; ten words of 0 would sum to 0, not to all ones.)
THEOREM ChecksumVerifies ==
  ASSUME NEW h \in [1 .. 10 -> Word], h[1] # 0, h[6] = 0
  PROVE  Verifies([h EXCEPT ![6] = ip_checksum(h)])
<1> DEFINE g == [h EXCEPT ![6] = ip_checksum(h)]
<1>1. ip_checksum(g) = 0
  BY ChecksumIsZero
<1>2. g \in [1 .. 10 -> Word] /\ g[1] = h[1]
  BY ChecksumType
<1>3. Swap(h[1]) > 0
  <2>1. h[1] \in Int /\ 0 < h[1] /\ h[1] < 65536
    BY WordIs
  <2>2. QED
    BY <2>1 DEF Swap, W16
<1> HIDE DEF g
<1>4. Verifies(g)
  BY <1>1, <1>2, <1>3, ChecksumIsReceivers
<1>5. QED
  BY <1>4 DEF g

\* Whatever addresses and length it is given, the header that ip_init_header and
\* ip_set_data_length make verifies.
THEOREM HeaderVerifies ==
  ASSUME NEW source \in Word \X Word, NEW dest \in Word \X Word, NEW length \in Word
  PROVE  Verifies(ip_set_data_length(ip_init_header(source, dest), length))
<1> DEFINE h0 == ip_init_header(source, dest)
           h == [h0 EXCEPT ![2] = Swap(length)]
           g == [h EXCEPT ![6] = ip_checksum(h)]
<1>1. Swap(length) \in Word
  BY SwapType
<1>2. Swap(2 * 8192) = 64
  BY DEF Swap, W16
<1>3. /\ 69 \in Word /\ 0 \in Word /\ 64 \in Word /\ 64 + 256 * 17 \in Word
  BY WordIs
<1>4. h0 = <<69, 0, 0, 64, 64 + 256 * 17, 0, source[1], source[2], dest[1], dest[2]>>
  BY <1>2 DEF ip_init_header, IP_PROTOCOL_UDP
<1>5. h0 \in [1 .. 10 -> Word] /\ h0[1] = 69 /\ h0[6] = 0
  BY <1>3, <1>4
<1> HIDE DEF h0
<1>6. h \in [1 .. 10 -> Word] /\ h[1] = 69 /\ h[6] = 0
  BY <1>1, <1>5
<1> HIDE DEF h
<1>7. h[1] # 0
  BY <1>6
<1>8. Verifies(g)
  BY <1>6, <1>7, ChecksumVerifies, Zenon
<1> HIDE DEF g
<1>9. ip_set_data_length(h0, length) = g
  BY DEF ip_set_data_length, g, h
<1>10. QED
  BY <1>8, <1>9 DEF h0

-----------------------------------------------------------------------------
\* The table.

\* A network that takes a frame holds no other new one.
LEMMA SentSubset ==
  ASSUME NEW N, NEW f, NEW N2 \in Sent(N, f)
  PROVE  N2 \subseteq N \cup {f}
BY DEF Sent

\* arp_table_get_mac returns an entry for the address that no other one precedes.
LEMMA LookupFirst ==
  ASSUME NEW t, NEW d, NEW i0 \in Slots, t[i0].ip = d
  PROVE  \E i \in Slots : /\ t[i].ip = d /\ arp_table_get_mac(t, d) = t[i].mac
                          /\ \A j \in Slots : t[j].ip = d => i <= j
<1> DEFINE found == {j \in Slots : t[j].ip = d}
           k == CHOOSE k \in found : \A j \in found : k <= j
<1>1. i0 \in found /\ found \in SUBSET Nat
  BY DEF Slots
<1>2. \E m \in found : \A j \in found : m <= j
  <2> HIDE DEF found
  <2>1. PICK m \in found : \A j \in found : <<j, m>> \notin OpToRel(<, Nat)
    BY <1>1, NatLessThanWellFounded, WFMin
  <2>2. \A j \in found : ~(j < m)
    BY <1>1, <2>1 DEF OpToRel
  <2>3. QED
    BY <1>1, <2>2
<1>3. k \in found /\ \A j \in found : k <= j
  BY <1>2
<1>4. arp_table_get_mac(t, d) = t[k].mac
  BY <1>1 DEF arp_table_get_mac
<1>5. QED
  BY <1>3, <1>4

LEMMA LookupNone ==
  ASSUME NEW t, NEW d, \A i \in Slots : t[i].ip # d
  PROVE  arp_table_get_mac(t, d) = NoMac
BY DEF arp_table_get_mac

\* What it returns is in the table.
LEMMA LookupFound ==
  ASSUME NEW t, NEW d, arp_table_get_mac(t, d) # NoMac
  PROVE  \E i \in Slots : t[i].ip = d /\ arp_table_get_mac(t, d) = t[i].mac
BY LookupFirst, LookupNone

-----------------------------------------------------------------------------
\* What the stations know of each other.

\* Whoever is named as the sender of a question or an answer has had the address
\* beside its name; data is on its way to its owner.
GoodFrame(f) ==
  \/ f.kind \in {"ask", "answer"} /\ f.spa \in Stations /\ f.sha \in owned[f.spa]
  \/ f.kind = "data" /\ f.dest \in Stations /\ f.to \in owned[f.dest]

GoodEntry(e) == e.ip \in Stations => e.mac \in owned[e.ip]

NetworkInv ==
  /\ TypeOK
  /\ \A s \in Stations : this_mac[s] \in owned[s]
  /\ \A s \in Stations, i \in Slots : GoodEntry(table[s][i])
  /\ \A s \in Stations, i \in Slots : i > ptr_entry[s] => table[s][i] = NoEntry
  /\ \A f \in net : GoodFrame(f)

LEMMA InitInv == Init => NetworkInv
<1> SUFFICES ASSUME Init PROVE NetworkInv
  OBVIOUS
<1>1. NoEntry \in ArpEntry /\ NoEntry.ip \notin Stations
  BY StationAssumption DEF NoEntry, ArpEntry
<1>2. this_mac \in [Stations -> Macs]
  BY DEF Init, Macs
<1>3. \A s \in Stations, i \in Slots : table[s][i] = NoEntry
  BY DEF Init, EmptyTable
<1>4. TypeOK
  BY <1>1, <1>2 DEF Init, TypeOK, EmptyTable
<1>5. QED
  BY <1>1, <1>3, <1>4 DEF Init, NetworkInv, GoodEntry

\* A frame taken by the network is the only new one.
LEMMA SendGood ==
  ASSUME NetworkInv, NEW N \in SUBSET net, NEW f, net' \in Sent(N, f),
         UNCHANGED owned, GoodFrame(f)
  PROVE  \A g \in net' : GoodFrame(g)'
<1>1. \A g \in net' : g \in net \/ g = f
  BY SentSubset
<1>2. QED
  BY <1>1 DEF NetworkInv, GoodFrame

\* An entry set for an address its owner has had keeps the table in order.
LEMMA SetEntryGood ==
  ASSUME NetworkInv, NEW s \in Stations, NEW d \in Stations, NEW m \in owned[d],
         arp_table_set_entry(s, m, d), UNCHANGED <<this_mac, owned>>
  PROVE  /\ table' \in [Stations -> [Slots -> ArpEntry]] /\ ptr_entry' \in [Stations -> Nat]
         /\ overrun' \in [Stations -> BOOLEAN]
         /\ \A r \in Stations, i \in Slots : GoodEntry(table[r][i])'
         /\ \A r \in Stations, i \in Slots : i > ptr_entry'[r] => table'[r][i] = NoEntry
<1> DEFINE e == [mac |-> m, ip |-> d]
<1>0. /\ table \in [Stations -> [Slots -> ArpEntry]] /\ ptr_entry \in [Stations -> Nat]
      /\ overrun \in [Stations -> BOOLEAN] /\ m \in Macs /\ e \in ArpEntry /\ TableSize \in Nat
  BY MessageAssumption DEF NetworkInv, TypeOK, ArpEntry
<1>1. /\ ptr_entry' = [ptr_entry EXCEPT ![s] = @ + 1]
      /\ ptr_entry' \in [Stations -> Nat]
  BY <1>0 DEF arp_table_set_entry
<1>2. \A r \in Stations : ptr_entry'[r] >= ptr_entry[r]
  BY <1>0, <1>1
<1>3. CASE ptr_entry[s] < TableSize
  <2> DEFINE k == ptr_entry[s] + 1
  <2>1. /\ table' = [table EXCEPT ![s] = [@ EXCEPT ![k] = e]] /\ k \in Slots /\ UNCHANGED overrun
    BY <1>0, <1>3 DEF arp_table_set_entry, Slots
  <2>2. table' \in [Stations -> [Slots -> ArpEntry]]
    BY <1>0, <2>1
  <2>3. \A r \in Stations, i \in Slots : table'[r][i] = IF r = s /\ i = k THEN e ELSE table[r][i]
    BY <1>0, <2>1
  <2>4. \A r \in Stations, i \in Slots : GoodEntry(table[r][i])'
    BY <2>3 DEF GoodEntry, NetworkInv
  <2>5. \A r \in Stations, i \in Slots : i > ptr_entry'[r] => table'[r][i] = NoEntry
    <3> SUFFICES ASSUME NEW r \in Stations, NEW i \in Slots, i > ptr_entry'[r]
                 PROVE  table'[r][i] = NoEntry
      OBVIOUS
    <3>1. ~(r = s /\ i = k) /\ i > ptr_entry[r]
      BY <1>0, <1>1 DEF Slots
    <3>2. QED
      BY <2>3, <3>1 DEF NetworkInv
  <2>6. QED
    BY <1>0, <1>1, <2>1, <2>2, <2>4, <2>5
<1>4. CASE ~(ptr_entry[s] < TableSize)
  <2>1. UNCHANGED table /\ overrun' \in [Stations -> BOOLEAN]
    BY <1>0, <1>4 DEF arp_table_set_entry
  <2>2. \A r \in Stations, i \in Slots : i > ptr_entry'[r] => i > ptr_entry[r]
    BY <1>0, <1>1 DEF Slots
  <2>3. QED
    BY <1>0, <1>1, <2>1, <2>2 DEF NetworkInv, GoodEntry
<1>5. QED
  BY <1>3, <1>4

LEMMA StepInv == NetworkInv /\ [Next]_vars => NetworkInv'
<1> SUFFICES ASSUME NetworkInv, [Next]_vars PROVE NetworkInv'
  OBVIOUS
<1> USE DEF stack
<1>0. /\ table \in [Stations -> [Slots -> ArpEntry]] /\ ptr_entry \in [Stations -> Nat]
      /\ overrun \in [Stations -> BOOLEAN] /\ repeated \in [Stations -> BOOLEAN]
      /\ this_mac \in [Stations -> Macs] /\ owned \in [Stations -> SUBSET Macs]
      /\ want \in [Stations -> SUBSET (Stations \X Messages)]
      /\ out \in [Stations -> {<<>>} \cup Stations \X (Macs \cup {Broadcast})]
      /\ \A s \in Stations : this_mac[s] \in owned[s]
      /\ \A f \in net : GoodFrame(f)
  BY DEF NetworkInv, TypeOK
<1>1. ASSUME NEW s \in Stations, NEW d \in Stations, NEW m \in Messages, Send(s, d, m)
      PROVE  NetworkInv'
  <2>1. UNCHANGED <<table, ptr_entry, overrun, repeated, this_mac, owned>>
    BY <1>1 DEF Send
  <2>2. /\ \A f \in net' : GoodFrame(f)'
        /\ want' \in [Stations -> SUBSET (Stations \X Messages)]
        /\ out' \in [Stations -> {<<>>} \cup Stations \X (Macs \cup {Broadcast})]
    <3>1. CASE SendData(s, d, m)
      <4> DEFINE mac == arp_table_get_mac(table[s], d)
                 f == DataFrame(s, d, mac, m)
      <4>1. /\ mac # NoMac /\ net' \in Sent(net, f) /\ want' = [want EXCEPT ![s] = @ \ {<<d, m>>}]
            /\ out' = [out EXCEPT ![s] = <<d, mac>>]
        BY <3>1 DEF SendData
      <4>2. PICK i \in Slots : table[s][i].ip = d /\ mac = table[s][i].mac
        BY <4>1, LookupFound
      <4>3. mac \in owned[d] /\ mac \in Macs
        BY <1>0, <4>2 DEF NetworkInv, GoodEntry
      <4> HIDE DEF mac
      <4>4. f.kind = "data" /\ f.dest = d /\ f.to = mac
        BY DEF DataFrame
      <4>5. GoodFrame(f)
        BY <4>3, <4>4 DEF GoodFrame
      <4> HIDE DEF f
      <4>6. \A g \in net' : GoodFrame(g)'
        BY <2>1, <4>1, <4>5, SendGood
      <4>7. want' \in [Stations -> SUBSET (Stations \X Messages)]
        BY <1>0, <4>1
      <4>8. out' \in [Stations -> {<<>>} \cup Stations \X (Macs \cup {Broadcast})]
        BY <1>0, <4>1, <4>3
      <4>9. QED
        BY <4>6, <4>7, <4>8
    <3>2. CASE SendAsk(s, d)
      <4> DEFINE f == arp_create_ask(this_mac[s], s, d)
      <4>1. /\ net' \in Sent(net, f) /\ out' = [out EXCEPT ![s] = <<d, Broadcast>>] /\ want' = want
        BY <3>2 DEF SendAsk
      <4>2. GoodFrame(f)
        BY <1>0 DEF GoodFrame, arp_create_ask
      <4> HIDE DEF f
      <4>3. \A g \in net' : GoodFrame(g)'
        BY <2>1, <4>1, <4>2, SendGood
      <4>4. out' \in [Stations -> {<<>>} \cup Stations \X (Macs \cup {Broadcast})]
        BY <1>0, <4>1
      <4>5. QED
        BY <1>0, <4>1, <4>3, <4>4
    <3>3. QED
      BY <1>1, <3>1, <3>2 DEF Send
  <2>3. QED
    BY <1>0, <2>1, <2>2 DEF NetworkInv, TypeOK, GoodEntry
<1>2. ASSUME NEW s \in Stations, NEW f \in net, ReceiveAsk(s, f)
      PROVE  NetworkInv'
  <2> DEFINE g == arp_create_answer(this_mac[s], s, f.sha, f.spa)
  <2>1. UNCHANGED <<table, ptr_entry, overrun, repeated, this_mac, owned, want, out>>
    BY <1>2 DEF ReceiveAsk, Receive
  <2>2. PICK N \in SUBSET net : net' \in Sent(N, g)
    <3>1. \E N \in {net, net \ {f}} : net' \in Sent(N, g)
      BY <1>2 DEF ReceiveAsk
    <3>2. \A N \in {net, net \ {f}} : N \in SUBSET net
      OBVIOUS
    <3>3. QED
      BY <3>1, <3>2
  <2>3. GoodFrame(g)
    BY <1>0 DEF GoodFrame, arp_create_answer
  <2> HIDE DEF g
  <2>4. \A h \in net' : GoodFrame(h)'
    BY <2>1, <2>2, <2>3, SendGood
  <2>5. QED
    BY <1>0, <2>1, <2>4 DEF NetworkInv, TypeOK, GoodEntry
<1>3. ASSUME NEW s \in Stations, NEW f \in net, ReceiveAnswer(s, f)
      PROVE  NetworkInv'
  <2>1. UNCHANGED <<this_mac, owned, want, out>> /\ net' \subseteq net
    BY <1>3 DEF ReceiveAnswer, Receive
  <2>2. \A g \in net' : GoodFrame(g)'
    BY <1>0, <2>1 DEF GoodFrame
  <2>3. f.spa \in Stations /\ f.sha \in owned[f.spa]
    BY <1>0, <1>3 DEF GoodFrame, ReceiveAnswer
  <2>4. CASE UNCHANGED stack
    BY <1>0, <2>1, <2>2, <2>4 DEF NetworkInv, TypeOK, GoodEntry
  <2>5. CASE /\ arp_table_set_entry(s, f.sha, f.spa)
             /\ repeated' = [repeated EXCEPT ![s] = @ \/ \E i \in Slots : table[s][i].ip = f.spa]
    <3>1. /\ table' \in [Stations -> [Slots -> ArpEntry]] /\ ptr_entry' \in [Stations -> Nat]
          /\ overrun' \in [Stations -> BOOLEAN]
          /\ \A r \in Stations, i \in Slots : GoodEntry(table[r][i])'
          /\ \A r \in Stations, i \in Slots : i > ptr_entry'[r] => table'[r][i] = NoEntry
      BY <2>1, <2>3, <2>5, SetEntryGood
    <3>2. repeated' \in [Stations -> BOOLEAN]
      BY <1>0, <2>5
    <3>3. QED
      BY <1>0, <2>1, <2>2, <3>1, <3>2 DEF NetworkInv, TypeOK
  <2>6. QED
    BY <1>3, <2>4, <2>5 DEF ReceiveAnswer
<1>4. ASSUME NEW s \in Stations, NEW f \in net, ReceiveData(s, f)
      PROVE  NetworkInv'
  <2>1. UNCHANGED <<table, ptr_entry, overrun, repeated, this_mac, owned, want, out>> /\ net' \subseteq net
    BY <1>4 DEF ReceiveData, Receive
  <2>2. \A g \in net' : GoodFrame(g)'
    BY <1>0, <2>1 DEF GoodFrame
  <2>3. QED
    BY <1>0, <2>1, <2>2 DEF NetworkInv, TypeOK, GoodEntry
<1>5. ASSUME NEW f \in net, Lose(f)
      PROVE  NetworkInv'
  <2>1. UNCHANGED <<table, ptr_entry, overrun, repeated, this_mac, owned, want, out>> /\ net' \subseteq net
    BY <1>5 DEF Lose
  <2>2. \A g \in net' : GoodFrame(g)'
    BY <1>0, <2>1 DEF GoodFrame
  <2>3. QED
    BY <1>0, <2>1, <2>2 DEF NetworkInv, TypeOK, GoodEntry
<1>6. ASSUME NEW s \in Stations, NEW d \in Stations, NEW m \in Messages, Request(s, d, m)
      PROVE  NetworkInv'
  <2>1. /\ UNCHANGED <<table, ptr_entry, overrun, repeated, this_mac, owned, out, net>>
        /\ want' \in [Stations -> SUBSET (Stations \X Messages)]
    BY <1>0, <1>6 DEF Request
  <2>2. \A g \in net' : GoodFrame(g)'
    BY <1>0, <2>1 DEF GoodFrame
  <2>3. QED
    BY <1>0, <2>1, <2>2 DEF NetworkInv, TypeOK, GoodEntry
<1>7. ASSUME NEW s \in Stations, NEW m \in MacsOf[s], Restart(s, m)
      PROVE  NetworkInv'
  <2>1. m \in Macs
    BY DEF Macs
  <2>2. /\ table' = [table EXCEPT ![s] = EmptyTable]
        /\ ptr_entry' = [ptr_entry EXCEPT ![s] = 0]
        /\ owned' = [owned EXCEPT ![s] = @ \cup {m}]
        /\ this_mac' = [this_mac EXCEPT ![s] = m] /\ net' = net
    BY <1>7 DEF Restart
  <2>3. NoEntry \in ArpEntry /\ NoEntry.ip \notin Stations
    BY StationAssumption DEF NoEntry, ArpEntry
  <2>4. EmptyTable \in [Slots -> ArpEntry] /\ \A i \in Slots : EmptyTable[i] = NoEntry
    BY <2>3 DEF EmptyTable
  <2>5. TypeOK'
    <3>1. /\ table' \in [Stations -> [Slots -> ArpEntry]] /\ ptr_entry' \in [Stations -> Nat]
          /\ this_mac' \in [Stations -> Macs] /\ owned' \in [Stations -> SUBSET Macs]
      BY <1>0, <2>1, <2>2, <2>4
    <3>2. /\ overrun' \in [Stations -> BOOLEAN] /\ repeated' \in [Stations -> BOOLEAN]
          /\ want' \in [Stations -> SUBSET (Stations \X Messages)]
          /\ out' \in [Stations -> {<<>>} \cup Stations \X (Macs \cup {Broadcast})]
      BY <1>0, <1>7 DEF Restart
    <3>3. QED
      BY <3>1, <3>2 DEF TypeOK
  <2>6. \A r \in Stations : owned[r] \subseteq owned'[r] /\ this_mac'[r] \in owned'[r]
    BY <1>0, <2>1, <2>2
  <2>7. \A g \in net' : GoodFrame(g)'
    BY <1>0, <2>2, <2>6 DEF GoodFrame
  <2>8. \A r \in Stations, i \in Slots :
           table'[r][i] = (IF r = s THEN NoEntry ELSE table[r][i])
    BY <1>0, <2>2, <2>4
  <2>9. \A r \in Stations, i \in Slots : GoodEntry(table[r][i])'
    BY <2>3, <2>6, <2>8 DEF GoodEntry, NetworkInv
  <2>10. \A r \in Stations, i \in Slots : i > ptr_entry'[r] => table'[r][i] = NoEntry
    <3>1. \A r \in Stations : ptr_entry'[r] = IF r = s THEN 0 ELSE ptr_entry[r]
      BY <1>0, <2>2
    <3>2. QED
      BY <2>8, <3>1 DEF NetworkInv
  <2>11. QED
    BY <2>5, <2>6, <2>7, <2>9, <2>10 DEF NetworkInv
<1>8. CASE UNCHANGED vars
  <2>1. \A g \in net' : GoodFrame(g)'
    BY <1>0, <1>8 DEF GoodFrame, vars
  <2>2. QED
    BY <1>0, <1>8, <2>1 DEF NetworkInv, TypeOK, GoodEntry, vars
<1>9. QED
  BY <1>1, <1>2, <1>3, <1>4, <1>5, <1>6, <1>7, <1>8 DEF Next, SendTo, AskFrom, AnswerFrom

\* Every variable keeps its type, for any number of frames on the network.
THEOREM TypeCorrect == Spec => []TypeOK
<1>1. NetworkInv => TypeOK
  BY DEF NetworkInv
<1>2. QED
  BY <1>1, InitInv, StepInv, PTL DEF Spec

\* Data is sent only to hardware addresses of the station it is meant for,
\* whatever the network loses, repeats or delays and whoever restarts.
THEOREM OwnersOnly == Spec => []DataToOwner
<1>1. NetworkInv => DataToOwner
  BY DEF NetworkInv, GoodFrame, DataToOwner, DataFrames
<1>2. QED
  BY <1>1, InitInv, StepInv, PTL DEF Spec

-----------------------------------------------------------------------------
\* The packets.

PacketsInv ==
  \A f \in DataFrames : \E s, d \in Stations, m \in Messages : f.packet = Packet[s][d][m]

LEMMA StepPackets == PacketsInv /\ [Next]_vars => PacketsInv'
<1> SUFFICES ASSUME PacketsInv, [Next]_vars, NEW f \in net', f.kind = "data"
             PROVE  f \in net \/ \E s, d \in Stations, m \in Messages : f.packet = Packet[s][d][m]
  BY DEF PacketsInv, DataFrames
<1>1. ASSUME NEW s \in Stations, NEW d \in Stations, NEW m \in Messages, Send(s, d, m)
      PROVE  f \in net \/ f.packet = Packet[s][d][m]
  <2>1. CASE SendData(s, d, m)
    <3> DEFINE g == DataFrame(s, d, arp_table_get_mac(table[s], d), m)
    <3>1. net' \in Sent(net, g)
      BY <2>1 DEF SendData
    <3>2. f \in net \/ f = g
      <4> HIDE DEF g
      <4>1. QED
        BY <3>1, SentSubset
    <3>3. QED
      BY <3>2 DEF DataFrame
  <2>2. CASE SendAsk(s, d)
    <3> DEFINE g == arp_create_ask(this_mac[s], s, d)
    <3>1. net' \in Sent(net, g) /\ g.kind = "ask"
      BY <2>2 DEF SendAsk, arp_create_ask
    <3> HIDE DEF g
    <3>2. QED
      BY <3>1, SentSubset
  <2>3. QED
    BY <1>1, <2>1, <2>2 DEF Send
<1>2. ASSUME NEW s \in Stations, NEW a \in net, ReceiveAsk(s, a)
      PROVE  f \in net
  <2> DEFINE g == arp_create_answer(this_mac[s], s, a.sha, a.spa)
  <2>1. \E N \in {net, net \ {a}} : net' \in Sent(N, g)
    BY <1>2 DEF ReceiveAsk
  <2>2. g.kind = "answer"
    BY DEF arp_create_answer
  <2> HIDE DEF g
  <2>3. QED
    BY <2>1, <2>2, SentSubset
<1>3. ASSUME NEW s \in Stations, NEW a \in net, ReceiveAnswer(s, a)
      PROVE  f \in net
  BY <1>3 DEF ReceiveAnswer
<1>4. ASSUME NEW s \in Stations, NEW a \in net, ReceiveData(s, a)
      PROVE  f \in net
  BY <1>4 DEF ReceiveData
<1>5. ASSUME NEW a \in net, Lose(a)
      PROVE  f \in net
  BY <1>5 DEF Lose
<1>6. ASSUME NEW s \in Stations, NEW d \in Stations, NEW m \in Messages, Request(s, d, m)
      PROVE  f \in net
  BY <1>6 DEF Request
<1>7. ASSUME NEW s \in Stations, NEW m \in MacsOf[s], Restart(s, m)
      PROVE  f \in net
  BY <1>7 DEF Restart
<1>8. CASE UNCHANGED vars
  BY <1>8 DEF vars
<1>9. QED
  BY <1>1, <1>2, <1>3, <1>4, <1>5, <1>6, <1>7, <1>8 DEF Next, SendTo, AskFrom, AnswerFrom

LEMMA PacketsHold == Spec => []PacketsInv
<1>1. Init => PacketsInv
  BY DEF Init, PacketsInv, DataFrames
<1>2. QED
  BY <1>1, StepPackets, PTL DEF Spec

\* The lengths of a message and of what is put before it fit into 16 bits.
LEMMA LengthsFit ==
  ASSUME NEW m \in Messages
  PROVE  /\ m.length \in Nat /\ m.length + 8 < 65536
         /\ m.length + UdpHeaderSize \in Word
         /\ m.length + UdpHeaderSize + IpHeaderSize \in Word
<1> DEFINE Lengths == 0 .. 1476
           Fitting(n) == /\ n \in Nat /\ n + 8 < 65536
                         /\ n + UdpHeaderSize \in Word
                         /\ n + UdpHeaderSize + IpHeaderSize \in Word
<1>1. m.length \in Lengths
  BY MessageAssumption DEF FrameBytes, EthernetHeaderSize, IpHeaderSize, UdpHeaderSize
<1>2. ASSUME NEW n \in Lengths
      PROVE  Fitting(n)
  <2>1. n \in Nat /\ n <= 1476
    OBVIOUS
  <2>2. n + 8 \in Int /\ 0 <= n + 8 /\ n + 8 < 65536
    BY <2>1
  <2>3. n + 8 + 20 \in Int /\ 0 <= n + 8 + 20 /\ n + 8 + 20 < 65536
    BY <2>1
  <2>4. UdpHeaderSize = 8 /\ IpHeaderSize = 20
    BY DEF IpHeaderSize, UdpHeaderSize
  <2>5. QED
    BY <2>1, <2>2, <2>3, <2>4, WordIs
<1> HIDE DEF Lengths, Fitting
<1>3. Fitting(m.length)
  BY <1>1, <1>2
<1>4. QED
  BY <1>3 DEF Fitting

\* Every packet's IP header verifies at the receiver, whatever the addresses.
THEOREM HeadersAlwaysVerify == Spec => []HeadersVerify
<1>1. ASSUME NEW s \in Stations, NEW d \in Stations, NEW m \in Messages
      PROVE  Verifies(Packet[s][d][m].ip)
  <2>1. IpWords[s] \in Word \X Word /\ IpWords[d] \in Word \X Word
    BY StationAssumption
  <2>2. QED
    BY <2>1, HeaderVerifies, LengthsFit DEF Packet, Headers
<1>2. PacketsInv => HeadersVerify
  BY <1>1 DEF PacketsInv, HeadersVerify
<1>3. QED
  BY <1>2, PacketsHold, PTL

\* The lengths in a packet's headers agree with the length given to enc_send.
THEOREM LengthsAlwaysAgree == Spec => []LengthsAgree
<1>1. ASSUME NEW s \in Stations, NEW d \in Stations, NEW m \in Messages
      PROVE  /\ Packet[s][d][m].length = m.length + UdpHeaderSize + IpHeaderSize + EthernetHeaderSize
             /\ Swap(Packet[s][d][m].ip[2]) = m.length + UdpHeaderSize + IpHeaderSize
             /\ Swap(Packet[s][d][m].udp.length) = m.length + UdpHeaderSize
  <2> DEFINE length == m.length + UdpHeaderSize + IpHeaderSize
             h == ip_init_header(IpWords[s], IpWords[d])
  <2>1. Packet[s][d][m].length = length + EthernetHeaderSize
    BY DEF Packet, Headers
  <2>2. Packet[s][d][m].ip = ip_set_data_length(h, length)
    BY DEF Packet, Headers
  <2>3. Packet[s][d][m].udp.length = Swap((m.length + UdpHeaderSize) % W16)
    BY DEF Packet, Headers, udp_create_header
  <2>4. (m.length + UdpHeaderSize) % W16 = m.length + UdpHeaderSize
    BY LengthsFit DEF UdpHeaderSize, W16
  <2>5. ip_set_data_length(h, length)[2] = Swap(length)
    BY DEF ip_set_data_length, ip_init_header
  <2> HIDE DEF length, h
  <2>6. Swap(Swap(length)) = length
    BY SwapTwice, LengthsFit DEF length
  <2>7. QED
    BY <2>1, <2>2, <2>3, <2>4, <2>5, <2>6, SwapTwice, LengthsFit DEF length
<1>2. PacketsInv => LengthsAgree
  <2> SUFFICES ASSUME PacketsInv, NEW f \in DataFrames
               PROVE  /\ Swap(f.packet.ip[2]) + EthernetHeaderSize = f.packet.length
                      /\ Swap(f.packet.udp.length) + IpHeaderSize + EthernetHeaderSize
                           = f.packet.length
    BY DEF LengthsAgree
  <2>1. PICK s \in Stations, d \in Stations, m \in Messages : f.packet = Packet[s][d][m]
    BY DEF PacketsInv
  <2>2. m.length \in Nat
    BY LengthsFit
  <2>3. QED
    BY <1>1, <2>1, <2>2 DEF EthernetHeaderSize, IpHeaderSize, UdpHeaderSize
<1>3. QED
  BY <1>2, PacketsHold, PTL

-----------------------------------------------------------------------------
\* The table implements the address book.

\* A station with an entry in the table is found.
LEMMA FoundIsMac ==
  ASSUME NetworkInv, NEW s \in Stations, NEW d \in Stations
  PROVE  arp_table_get_mac(table[s], d) = NoMac <=> \A i \in Slots : table[s][i].ip # d
<1>1. ASSUME NEW i0 \in Slots, table[s][i0].ip = d
      PROVE  arp_table_get_mac(table[s], d) # NoMac
  <2>1. PICK i \in Slots : table[s][i].ip = d /\ arp_table_get_mac(table[s], d) = table[s][i].mac
    BY <1>1, LookupFirst
  <2>2. table[s][i].mac \in Macs
    BY <2>1 DEF NetworkInv, GoodEntry, TypeOK
  <2>3. QED
    BY <2>1, <2>2, StationAssumption
<1>2. QED
  BY <1>1, LookupNone

\* An entry set behind the others is found exactly if there was none before it.
LEMMA LookupAfterSet ==
  ASSUME NetworkInv, NEW s \in Stations, NEW d \in Stations, NEW m \in owned[d],
         ptr_entry[s] < TableSize, NEW t,
         \A i \in Slots : t[i] = IF i = ptr_entry[s] + 1 THEN [mac |-> m, ip |-> d] ELSE table[s][i],
         NEW e \in Stations
  PROVE  arp_table_get_mac(t, e) = IF e = d /\ arp_table_get_mac(table[s], d) = NoMac
                                   THEN m ELSE arp_table_get_mac(table[s], e)
<1> DEFINE k == ptr_entry[s] + 1
           T == table[s]
<1>1. /\ k \in Slots /\ table[s] \in [Slots -> ArpEntry] /\ ptr_entry[s] \in Nat
  BY MessageAssumption DEF NetworkInv, TypeOK, Slots
<1>2. \A i \in Slots : t[i] = IF i = k THEN [mac |-> m, ip |-> d] ELSE T[i]
  OBVIOUS
<1>3. \A i \in Slots : i > ptr_entry[s] => T[i].ip \notin Stations
  BY StationAssumption DEF NetworkInv, NoEntry
<1>4. k > ptr_entry[s] /\ T[k].ip \notin Stations
  BY <1>1, <1>3
<1>5. CASE \A i \in Slots : T[i].ip # e
  <2>1. arp_table_get_mac(T, e) = NoMac
    BY <1>5, LookupNone
  <2>2. CASE e = d
    <3>1. t[k].ip = d /\ t[k].mac = m
      BY <1>1, <1>2
    <3>2. \A i \in Slots : t[i].ip = d => i = k
      BY <1>2, <1>5, <2>2
    <3>3. arp_table_get_mac(t, d) = m
      BY <1>1, <3>1, <3>2, LookupFirst
    <3>4. QED
      BY <2>1, <2>2, <3>3
  <2>3. CASE e # d
    <3>1. \A i \in Slots : t[i].ip # e
      BY <1>2, <1>5, <2>3
    <3>2. QED
      BY <2>1, <2>3, <3>1, LookupNone
  <2>4. QED
    BY <2>2, <2>3
<1>6. CASE \E i \in Slots : T[i].ip = e
  <2>1. PICK i \in Slots : /\ T[i].ip = e /\ arp_table_get_mac(T, e) = T[i].mac
                           /\ \A j \in Slots : T[j].ip = e => i <= j
    BY <1>6, LookupFirst
  <2>2. i # k /\ i <= ptr_entry[s] /\ i < k
    BY <1>1, <1>3, <2>1 DEF Slots
  <2>3. t[i] = T[i] /\ t[i].ip = e
    BY <1>2, <2>1, <2>2
  <2>4. PICK j \in Slots : /\ t[j].ip = e /\ arp_table_get_mac(t, e) = t[j].mac
                           /\ \A l \in Slots : t[l].ip = e => j <= l
    BY <2>3, LookupFirst
  <2>5. j <= i
    BY <2>1, <2>3, <2>4
  <2>6. j # k
    BY <2>2, <2>5 DEF Slots
  <2>7. i <= j
    BY <1>2, <2>1, <2>4, <2>6
  <2>8. i = j
    BY <2>5, <2>7 DEF Slots
  <2>9. arp_table_get_mac(t, e) = arp_table_get_mac(T, e)
    BY <2>1, <2>3, <2>4, <2>8
  <2>10. arp_table_get_mac(T, e) # NoMac
    BY <1>6, FoundIsMac
  <2>11. QED
    BY <2>9, <2>10
<1>7. QED
  BY <1>5, <1>6

LEMMA InitBook == Init => Addresses!Init
<1> SUFFICES ASSUME Init PROVE Addresses!Init
  OBVIOUS
<1>1. \A s, d \in Stations : arp_table_get_mac(table[s], d) = NoMac
  <2>1. \A s, d \in Stations : \A i \in Slots : table[s][i].ip # d
    BY StationAssumption DEF Init, EmptyTable, NoEntry
  <2>2. QED
    BY <2>1, LookupNone
<1>2. Book = [s \in Stations |-> [d \in Stations |-> NoMac]] /\ Out = [s \in Stations |-> <<>>]
  BY <1>1 DEF Book, Out, Init
<1>3. QED
  BY <1>2 DEF Addresses!Init, Addresses!Blank

\* A station that starts afresh, or writes past its table, has an empty book.
LEMMA ForgetStep ==
  ASSUME NEW s \in Stations, Book' = [Book EXCEPT ![s] = [d \in Stations |-> NoMac]],
         Out' = [Out EXCEPT ![s] = <<>>]
  PROVE  Addresses!Next
<1>1. Addresses!Forget(s)
  BY DEF Addresses!Forget, Addresses!Blank
<1>2. QED
  BY <1>1 DEF Addresses!Next

LEMMA StepBook == NetworkInv /\ [Next]_vars => [Addresses!Next]_Addresses!vars
<1> SUFFICES ASSUME NetworkInv, [Next]_vars PROVE [Addresses!Next]_Addresses!vars
  OBVIOUS
<1> USE DEF stack
<1>0. /\ table \in [Stations -> [Slots -> ArpEntry]] /\ overrun \in [Stations -> BOOLEAN]
      /\ out \in [Stations -> {<<>>} \cup Stations \X (Macs \cup {Broadcast})]
      /\ \A f \in net : GoodFrame(f)
  BY DEF NetworkInv, TypeOK
<1>1. ASSUME UNCHANGED <<table, overrun, out>>
      PROVE  [Addresses!Next]_Addresses!vars
  BY <1>1 DEF Addresses!vars, Book, Out
<1>2. ASSUME NEW s \in Stations, NEW d \in Stations, NEW m \in Messages, Send(s, d, m)
      PROVE  [Addresses!Next]_Addresses!vars
  <2> DEFINE mac == arp_table_get_mac(table[s], d)
             to == IF mac = NoMac THEN Broadcast ELSE mac
  <2>1. UNCHANGED <<table, overrun>> /\ ~overrun[s]
    BY <1>2 DEF Send
  <2>2. out' = [out EXCEPT ![s] = <<d, to>>]
    BY <1>2 DEF Send, SendData, SendAsk
  <2>3. Book' = Book /\ Book[s][d] = mac
    BY <2>1 DEF Book
  <2> HIDE DEF mac
  <2>4. Out' = [Out EXCEPT ![s] = <<d, to>>]
    BY <1>0, <2>1, <2>2 DEF Out
  <2>5. Addresses!Send(s, d)
    BY <2>3, <2>4 DEF Addresses!Send
  <2>6. QED
    BY <2>5 DEF Addresses!Next
<1>3. ASSUME NEW s \in Stations, NEW f \in net, ReceiveAnswer(s, f)
      PROVE  [Addresses!Next]_Addresses!vars
  <2>1. out' = out /\ ~overrun[s] /\ f.spa \in Stations /\ f.sha \in owned[f.spa] /\ f.sha \in Macs
    BY <1>0, <1>3 DEF ReceiveAnswer, Receive, GoodFrame, NetworkInv, TypeOK
  <2>2. CASE UNCHANGED stack
    BY <1>1, <2>1, <2>2
  <2>3. CASE arp_table_set_entry(s, f.sha, f.spa)
    <3> DEFINE d == f.spa
               m == f.sha
               t == [table[s] EXCEPT ![ptr_entry[s] + 1] = [mac |-> m, ip |-> d]]
    <3>1. CASE ptr_entry[s] < TableSize
      <4>1. table' = [table EXCEPT ![s] = t] /\ UNCHANGED overrun
        BY <2>3, <3>1 DEF arp_table_set_entry
      <4>2. \A i \in Slots : t[i] = IF i = ptr_entry[s] + 1 THEN [mac |-> m, ip |-> d]
                                                             ELSE table[s][i]
        BY <1>0, <2>1
      <4> HIDE DEF t
      <4>3. \A e \in Stations : arp_table_get_mac(t, e) =
               IF e = d /\ arp_table_get_mac(table[s], d) = NoMac
               THEN m ELSE arp_table_get_mac(table[s], e)
        BY <2>1, <3>1, <4>2, LookupAfterSet
      <4>4. Out' = Out
        BY <2>1, <4>1 DEF Out
      <4>5. Book' = [Book EXCEPT ![s] = [e \in Stations |-> arp_table_get_mac(t, e)]]
        BY <1>0, <2>1, <4>1 DEF Book
      <4>6. /\ Book[s] = [e \in Stations |-> arp_table_get_mac(table[s], e)]
            /\ Book \in [Stations -> [Stations -> {Book[r][e] : r, e \in Stations}]]
        BY <2>1 DEF Book
      <4>7. Addresses!Learn(s, d, m)
        <5> HIDE DEF d, m
        <5>1. CASE Book[s][d] = NoMac
          <6>1. d \in Stations /\ arp_table_get_mac(table[s], d) = NoMac
            BY <2>1, <4>6, <5>1 DEF d
          <6>2. [e \in Stations |-> arp_table_get_mac(t, e)] = [Book[s] EXCEPT ![d] = m]
            BY <4>3, <4>6, <6>1 DEF m, d
          <6>3. QED
            BY <4>4, <4>5, <5>1, <6>2 DEF Addresses!Learn
        <5>2. CASE Book[s][d] # NoMac
          <6>1. [e \in Stations |-> arp_table_get_mac(t, e)] = Book[s]
            BY <2>1, <4>3, <4>6, <5>2 DEF d
          <6>2. Book' = Book
            BY <4>5, <4>6, <6>1
          <6>3. QED
            BY <4>4, <5>2, <6>2 DEF Addresses!Learn
        <5>3. QED
          BY <5>1, <5>2
      <4>8. QED
        BY <2>1, <4>7 DEF Addresses!Next
    <3>2. CASE ~(ptr_entry[s] < TableSize)
      <4>1. table' = table /\ overrun' = [overrun EXCEPT ![s] = TRUE]
        BY <2>3, <3>2 DEF arp_table_set_entry
      <4>2. Book' = [Book EXCEPT ![s] = [e \in Stations |-> NoMac]]
        BY <1>0, <4>1 DEF Book
      <4>3. Out' = [Out EXCEPT ![s] = <<>>]
        BY <1>0, <2>1, <4>1 DEF Out
      <4>4. QED
        BY <4>2, <4>3, ForgetStep
    <3>3. QED
      BY <3>1, <3>2
  <2>4. QED
    BY <1>3, <2>2, <2>3 DEF ReceiveAnswer
<1>4. ASSUME NEW s \in Stations, NEW m \in MacsOf[s], Restart(s, m)
      PROVE  [Addresses!Next]_Addresses!vars
  <2>1. /\ table' = [table EXCEPT ![s] = EmptyTable] /\ overrun' = [overrun EXCEPT ![s] = FALSE]
        /\ out' = [out EXCEPT ![s] = <<>>]
    BY <1>4 DEF Restart
  <2>2. \A e \in Stations : arp_table_get_mac(EmptyTable, e) = NoMac
    <3>1. \A e \in Stations, i \in Slots : EmptyTable[i].ip # e
      BY StationAssumption DEF EmptyTable, NoEntry
    <3>2. QED
      BY <3>1, LookupNone
  <2>3. Book' = [Book EXCEPT ![s] = [e \in Stations |-> NoMac]]
    BY <1>0, <2>1, <2>2 DEF Book
  <2>4. Out' = [Out EXCEPT ![s] = <<>>]
    BY <1>0, <2>1 DEF Out
  <2>5. QED
    BY <2>3, <2>4, ForgetStep
<1>5. QED
  <2>1. ASSUME NEW s \in Stations, NEW f \in net, ReceiveAsk(s, f)
        PROVE  UNCHANGED <<table, overrun, out>>
    BY <2>1 DEF ReceiveAsk, Receive
  <2>2. ASSUME NEW s \in Stations, NEW f \in net, ReceiveData(s, f)
        PROVE  UNCHANGED <<table, overrun, out>>
    BY <2>2 DEF ReceiveData, Receive
  <2>3. ASSUME NEW f \in net, Lose(f)
        PROVE  UNCHANGED <<table, overrun, out>>
    BY <2>3 DEF Lose
  <2>4. ASSUME NEW s \in Stations, NEW d \in Stations, NEW m \in Messages, Request(s, d, m)
        PROVE  UNCHANGED <<table, overrun, out>>
    BY <2>4 DEF Request
  <2>5. CASE UNCHANGED vars
    BY <1>1, <2>5 DEF vars
  <2>6. QED
    BY <1>1, <1>2, <1>3, <1>4, <2>1, <2>2, <2>3, <2>4, <2>5 DEF Next, SendTo, AskFrom, AnswerFrom

\* The ARP table is an address book in which the first address learned stands
\* until the restart, for every size of the table and any number of entries set.
THEOREM BookRefinement == Spec => ImplementsBook
BY InitInv, StepInv, InitBook, StepBook, PTL DEF Spec, ImplementsBook, Addresses!Spec
-----------------------------------------------------------------------------
\* The table and the stations there are.

\* Whatever a station asks is about another, so every answer is; while no address
\* is entered twice the entries name different stations, none the station itself.
TablesInv ==
  /\ \A s \in Stations : \A w \in want[s] : w[1] # s
  /\ \A f \in net : f.kind \in {"ask", "answer"} => f.spa # f.tpa
  /\ \A s \in Stations : ~repeated[s] =>
       /\ ~overrun[s] /\ ptr_entry[s] <= TableSize
       /\ \A i \in 1 .. ptr_entry[s] : table[s][i].ip \in Stations \ {s}
       /\ \A i, j \in 1 .. ptr_entry[s] : i # j => table[s][i].ip # table[s][j].ip

\* A full table of different stations leaves none that is not in it.
LEMMA RoomForAnother ==
  ASSUME IsFiniteSet(Stations), Cardinality(Stations) <= TableSize + 1,
         NEW s \in Stations, NEW d \in Stations \ {s},
         NEW t, \A i \in Slots : t[i].ip \in Stations \ {s} /\ t[i].ip # d
  PROVE  \E i, j \in Slots : i # j /\ t[i].ip = t[j].ip
<1> DEFINE Others == Stations \ {s}
           Places == 1 .. TableSize + 1
           g == [i \in Places |-> IF i \in Slots THEN t[i].ip ELSE d]
<1>1. TableSize \in Nat \ {0}
  BY MessageAssumption
<1>2. IsFiniteSet(Others) /\ Cardinality(Others) = Cardinality(Stations) - 1
  BY FS_RemoveElement
<1>3. IsFiniteSet(Places) /\ Cardinality(Places) = TableSize + 1
  <2>1. 1 \in Int /\ TableSize + 1 \in Int /\ ~(1 > TableSize + 1)
    BY <1>1
  <2>2. QED
    BY <1>1, <2>1, FS_Interval
<1>4. Cardinality(Others) < Cardinality(Places)
  <2>1. Cardinality(Stations) \in Nat
    BY FS_CardinalityType
  <2>2. QED
    BY <1>1, <1>2, <1>3, <2>1
<1>5. g \in [Places -> Others]
  OBVIOUS
<1>6. \A p \in Places : g[p] = IF p \in Slots THEN t[p].ip ELSE d
  OBVIOUS
<1>7. \A p \in Places : p \notin Slots => p = TableSize + 1
  BY <1>1 DEF Slots
<1> HIDE DEF Others, Places, g
<1>8. PICK i, j \in Places : i # j /\ g[i] = g[j]
  BY <1>2, <1>3, <1>4, <1>5, FS_PigeonHole
<1>9. i \in Slots /\ j \in Slots
  BY <1>6, <1>7, <1>8
<1>10. QED
  BY <1>6, <1>8, <1>9

\* An address that is not in the table yet finds room in it.
LEMMA EntryRoom ==
  ASSUME IsFiniteSet(Stations), Cardinality(Stations) <= TableSize + 1,
         NetworkInv, TablesInv, NEW s \in Stations, ~repeated[s],
         NEW d \in Stations \ {s}, \A i \in Slots : table[s][i].ip # d
  PROVE  ptr_entry[s] < TableSize
<1>1. ptr_entry[s] \in Nat /\ TableSize \in Nat /\ ptr_entry[s] <= TableSize
  BY MessageAssumption DEF NetworkInv, TypeOK, TablesInv
<1>2. SUFFICES ASSUME ptr_entry[s] = TableSize PROVE FALSE
  BY <1>1
<1>3. \A i \in Slots : table[s][i].ip \in Stations \ {s}
  BY <1>2 DEF TablesInv, Slots
<1>4. \A i, j \in Slots : i # j => table[s][i].ip # table[s][j].ip
  BY <1>2 DEF TablesInv, Slots
<1>5. QED
  BY <1>3, <1>4, RoomForAnother

LEMMA StepTables ==
  ASSUME IsFiniteSet(Stations), Cardinality(Stations) <= TableSize + 1,
         NetworkInv, TablesInv, [Next]_vars
  PROVE  TablesInv'
<1> USE DEF stack
<1>0. /\ table \in [Stations -> [Slots -> ArpEntry]] /\ ptr_entry \in [Stations -> Nat]
      /\ overrun \in [Stations -> BOOLEAN] /\ repeated \in [Stations -> BOOLEAN]
      /\ want \in [Stations -> SUBSET (Stations \X Messages)]
      /\ \A f \in net : GoodFrame(f)
  BY DEF NetworkInv, TypeOK
<1>1. ASSUME NEW s \in Stations, NEW d \in Stations, NEW m \in Messages, Send(s, d, m)
      PROVE  TablesInv'
  <2>1. UNCHANGED stack /\ <<d, m>> \in want[s] /\ s # d
    BY <1>1 DEF Send, TablesInv
  <2>2. \A r \in Stations : want'[r] \subseteq want[r]
    BY <1>0, <1>1 DEF Send, SendData, SendAsk
  <2>3. \A f \in net' : f.kind \in {"ask", "answer"} => f.spa # f.tpa
    <3>1. CASE SendData(s, d, m)
      <4> DEFINE f == DataFrame(s, d, arp_table_get_mac(table[s], d), m)
      <4>1. net' \in Sent(net, f) /\ f.kind = "data"
        BY <3>1 DEF SendData, DataFrame
      <4> HIDE DEF f
      <4>2. QED
        BY <4>1, SentSubset DEF TablesInv
    <3>2. CASE SendAsk(s, d)
      <4> DEFINE f == arp_create_ask(this_mac[s], s, d)
      <4>1. net' \in Sent(net, f) /\ f.spa = s /\ f.tpa = d
        BY <3>2 DEF SendAsk, arp_create_ask
      <4> HIDE DEF f
      <4>2. QED
        BY <2>1, <4>1, SentSubset DEF TablesInv
    <3>3. QED
      BY <1>1, <3>1, <3>2 DEF Send
  <2>4. QED
    BY <2>1, <2>2, <2>3 DEF TablesInv
<1>2. ASSUME NEW s \in Stations, NEW f \in net, ReceiveAsk(s, f)
      PROVE  TablesInv'
  <2> DEFINE g == arp_create_answer(this_mac[s], s, f.sha, f.spa)
  <2>1. UNCHANGED <<stack, want>> /\ f.kind = "ask" /\ f.tpa = s
    BY <1>2 DEF ReceiveAsk, Receive
  <2>2. PICK N \in {net, net \ {f}} : net' \in Sent(N, g)
    BY <1>2 DEF ReceiveAsk
  <2>3. g.spa = s /\ g.tpa = f.spa /\ f.spa # s
    BY <2>1 DEF TablesInv, arp_create_answer
  <2> HIDE DEF g
  <2>4. \A h \in net' : h \in net \/ h = g
    BY <2>2, SentSubset
  <2>5. QED
    BY <2>1, <2>3, <2>4 DEF TablesInv
<1>3. ASSUME NEW s \in Stations, NEW f \in net, ReceiveAnswer(s, f)
      PROVE  TablesInv'
  <2>1. UNCHANGED want /\ net' \subseteq net
    BY <1>3 DEF ReceiveAnswer, Receive
  <2>2. f.spa \in Stations \ {s}
    BY <1>0, <1>3 DEF GoodFrame, ReceiveAnswer, TablesInv
  <2>3. CASE UNCHANGED stack
    BY <2>1, <2>3 DEF TablesInv
  <2>4. CASE /\ arp_table_set_entry(s, f.sha, f.spa)
             /\ repeated' = [repeated EXCEPT ![s] = @ \/ \E i \in Slots : table[s][i].ip = f.spa]
    <3> DEFINE k == ptr_entry[s] + 1
               e == [mac |-> f.sha, ip |-> f.spa]
    <3>1. ptr_entry' = [ptr_entry EXCEPT ![s] = @ + 1]
      BY <2>4 DEF arp_table_set_entry
    <3>2. \A r \in Stations : r # s => /\ table'[r] = table[r] /\ ptr_entry'[r] = ptr_entry[r]
                                       /\ overrun'[r] = overrun[r] /\ repeated'[r] = repeated[r]
      BY <1>0, <2>4 DEF arp_table_set_entry
    <3>3. CASE repeated'[s]
      BY <2>1, <3>2, <3>3 DEF TablesInv
    <3>4. CASE ~repeated'[s]
      <4>1. ~repeated[s] /\ \A i \in Slots : table[s][i].ip # f.spa
        BY <1>0, <2>4, <3>4
      <4>2. ptr_entry[s] \in Nat /\ ptr_entry[s] < TableSize
        BY <1>0, <2>2, <4>1, EntryRoom
      <4>3. TableSize \in Nat /\ k \in Slots /\ 1 .. ptr_entry[s] \subseteq Slots
        BY <4>2, MessageAssumption DEF Slots
      <4>4. /\ table' = [table EXCEPT ![s] = [@ EXCEPT ![k] = e]]
            /\ overrun' = overrun
        BY <2>4, <4>2 DEF arp_table_set_entry
      <4>5. \A i \in Slots : table'[s][i] = IF i = k THEN e ELSE table[s][i]
        BY <1>0, <4>4
      <4>6. ptr_entry'[s] = k /\ k <= TableSize /\ ~overrun'[s]
        BY <1>0, <3>1, <4>1, <4>2, <4>3, <4>4 DEF TablesInv
      <4>7. \A i \in 1 .. k : i = k \/ i \in 1 .. ptr_entry[s]
        BY <4>2
      <4> HIDE DEF k
      <4>8. \A i \in 1 .. k : table'[s][i].ip \in Stations \ {s}
        BY <2>2, <4>1, <4>3, <4>5, <4>7 DEF TablesInv
      <4>9. \A i, j \in 1 .. k : i # j => table'[s][i].ip # table'[s][j].ip
        BY <4>1, <4>3, <4>5, <4>7 DEF TablesInv
      <4>10. QED
        BY <2>1, <3>2, <4>6, <4>8, <4>9 DEF TablesInv
    <3>5. QED
      BY <3>3, <3>4
  <2>5. QED
    BY <1>3, <2>3, <2>4 DEF ReceiveAnswer
<1>4. ASSUME NEW s \in Stations, NEW f \in net, ReceiveData(s, f)
      PROVE  TablesInv'
  BY <1>4 DEF ReceiveData, Receive, TablesInv
<1>5. ASSUME NEW f \in net, Lose(f)
      PROVE  TablesInv'
  BY <1>5 DEF Lose, TablesInv
<1>6. ASSUME NEW s \in Stations, NEW d \in Stations, NEW m \in Messages, Request(s, d, m)
      PROVE  TablesInv'
  <2>1. UNCHANGED <<stack, net>> /\ want' = [want EXCEPT ![s] = @ \cup {<<d, m>>}] /\ s # d
    BY <1>6, MessageAssumption DEF Request
  <2>2. \A r \in Stations : \A w \in want'[r] : w \in want[r] \/ (r = s /\ w = <<d, m>>)
    BY <1>0, <2>1
  <2>3. QED
    BY <2>1, <2>2 DEF TablesInv
<1>7. ASSUME NEW s \in Stations, NEW m \in MacsOf[s], Restart(s, m)
      PROVE  TablesInv'
  <2>1. /\ net' = net /\ ptr_entry'[s] = 0 /\ ~overrun'[s] /\ want'[s] = {}
        /\ \A r \in Stations : r # s => /\ table'[r] = table[r] /\ ptr_entry'[r] = ptr_entry[r]
                                        /\ overrun'[r] = overrun[r] /\ want'[r] = want[r]
                                        /\ repeated'[r] = repeated[r]
    BY <1>0, <1>7 DEF Restart
  <2>2. TableSize \in Nat /\ 1 .. 0 = {}
    BY MessageAssumption
  <2>3. QED
    BY <2>1, <2>2 DEF TablesInv
<1>8. CASE UNCHANGED vars
  BY <1>8 DEF TablesInv, vars
<1>9. QED
  BY <1>1, <1>2, <1>3, <1>4, <1>5, <1>6, <1>7, <1>8 DEF Next, SendTo, AskFrom, AnswerFrom

\* On a network with no more other stations than the table has entries nothing is
\* ever written past arp_table, in any order of questions, answers and restarts, as
\* long as the application enters no address again that is in the table.
THEOREM TableAlwaysSuffices ==
  ASSUME IsFiniteSet(Stations), Cardinality(Stations) <= TableSize + 1
  PROVE  Spec => []TableSuffices
<1>1. Init => TablesInv
  <2>1. TableSize \in Nat /\ 1 .. 0 = {}
    BY MessageAssumption
  <2>2. QED
    BY <2>1 DEF Init, TablesInv
<1>2. NetworkInv /\ TablesInv /\ [Next]_vars => TablesInv'
  BY StepTables
<1>3. TablesInv => TableSuffices
  BY DEF TablesInv, TableSuffices
<1>4. QED
  BY <1>1, <1>2, <1>3, InitInv, StepInv, PTL DEF Spec
=============================================================================
