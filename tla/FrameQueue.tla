----------------------------- MODULE FrameQueue -----------------------------
(***************************************************************************)
(* What the receiving half of the Ethernet driver promises its caller: a   *)
(* queue of the frames that arrived.  Each call of enc_recv that finds one *)
(* takes the oldest; if it was received without error the caller gets its  *)
(* data, without header and CRC, cut off at the size of his buffer.        *)
(*                                                                         *)
(* The promise holds from the end of enc_init until the processor restarts *)
(* or until the receive ring is given a bound outside itself, which the    *)
(* code does in one case ("broken"; see UnreadNeverOverwritten).           *)
(***************************************************************************)
EXTENDS Naturals, Sequences

CONSTANTS
  FrameSizes,  \* bytes a frame takes in the ring, header and CRC included
  Overhead,    \* bytes of header and CRC
  BufLens      \* sizes of a caller's buffer

VARIABLES
  mode,     \* "down" before enc_init has returned, "up", or "broken"
  arrived,  \* frames that have arrived since then
  queue,    \* those not taken yet
  got       \* what the callers got

vars == <<mode, arrived, queue, got>>

Delivery(f, n) ==
  [id |-> f.id, buf |-> n,
   len |-> IF f.size - Overhead > n THEN n ELSE f.size - Overhead]

Init == mode = "down" /\ arrived = 0 /\ queue = <<>> /\ got = <<>>

Boot == mode = "down" /\ mode' = "up" /\ UNCHANGED <<arrived, queue, got>>

Arrive(size, ok) ==
  /\ mode = "up"
  /\ arrived' = arrived + 1
  /\ queue' = Append(queue, [id |-> arrived + 1, size |-> size, ok |-> ok])
  /\ UNCHANGED <<mode, got>>

Take(n) ==
  /\ mode = "up" /\ queue # <<>>
  /\ queue' = Tail(queue)
  /\ got' = IF Head(queue).ok THEN Append(got, Delivery(Head(queue), n)) ELSE got
  /\ UNCHANGED <<mode, arrived>>

Stop(m) ==
  /\ mode # "down" /\ mode' = m
  /\ arrived' = 0 /\ queue' = <<>> /\ got' = <<>>

Next ==
  \/ Boot
  \/ \E size \in FrameSizes, ok \in BOOLEAN : Arrive(size, ok)
  \/ \E n \in BufLens : Take(n)
  \/ \E m \in {"down", "broken"} : Stop(m)

Spec == Init /\ [][Next]_vars
=============================================================================
