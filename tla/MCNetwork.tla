----------------------------- MODULE MCNetwork -----------------------------
(***************************************************************************)
(* Three stations, of which one sends to the two others; one of those may  *)
(* return with another network adapter.  The table has two entries.        *)
(***************************************************************************)
EXTENDS Network, TLC
CONSTANTS a, b, c, ma, mb, mb2, mc
MCStations == {a, b, c}
MCIpWords == (a :> <<43200, 257>>) @@ (b :> <<65535, 65535>>) @@ (c :> <<10, 512>>)
MCMacsOf == (a :> {ma}) @@ (b :> {mb, mb2}) @@ (c :> {mc})
MCEmpty == [port |-> 7, length |-> 0]
MCLong == [port |-> 513, length |-> 1475]
MCMessages == {MCEmpty, MCLong}
MCWishes == {<<a, b, MCEmpty>>, <<a, c, MCLong>>}
=============================================================================
