------------------------------ MODULE MCProcess ------------------------------
(***************************************************************************)
(* A small instance of Process for TLC.                                    *)
(***************************************************************************)
EXTENDS Process, TLC

CONSTANTS host, comms, block, proxy, p1, p2, first, second

AllControllers == {host, comms, block, proxy}
InitialControllers == {host, comms}
Proxies == {proxy}
OnePart == {p1}
OneInOrder == <<p1>>
TwoParts == {p1, p2}
TwoAdders == {first, second}

\* One request adds a block, the other a proxy.
AddsOne == (first :> {block}) @@ (second :> {proxy})

================================================================================
