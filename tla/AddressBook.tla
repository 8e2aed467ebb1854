---------------------------- MODULE AddressBook ----------------------------
(***************************************************************************)
(* What the ARP table gives the stations that use it: a book of addresses. *)
(* A station that has learned the hardware address of another sends its    *)
(* packets there, and one that has not asks everybody instead.  What is    *)
(* learned first is kept until the processor restarts.                     *)
(***************************************************************************)
CONSTANTS Stations, Macs, NoMac, Broadcast

VARIABLES
  book,  \* for each station, the address it has for each other one
  out    \* the last thing it sent: to which station, at which address

vars == <<book, out>>

Blank == [d \in Stations |-> NoMac]

Init == book = [s \in Stations |-> Blank] /\ out = [s \in Stations |-> <<>>]

Learn(s, d, m) ==
  /\ book' = IF book[s][d] = NoMac THEN [book EXCEPT ![s] = [@ EXCEPT ![d] = m]] ELSE book
  /\ UNCHANGED out

Send(s, d) ==
  /\ out' = [out EXCEPT ![s] = <<d, IF book[s][d] = NoMac THEN Broadcast ELSE book[s][d]>>]
  /\ UNCHANGED book

Forget(s) ==
  /\ book' = [book EXCEPT ![s] = Blank]
  /\ out' = [out EXCEPT ![s] = <<>>]

Next == \E s \in Stations :
  \/ Forget(s)
  \/ \E d \in Stations : Send(s, d) \/ \E m \in Macs : Learn(s, d, m)

Spec == Init /\ [][Next]_vars
=============================================================================
