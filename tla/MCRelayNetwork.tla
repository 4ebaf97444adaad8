---------------------------- MODULE MCRelayNetwork ----------------------------
EXTENDS RelayNetwork

CONSTANTS a, b, c

\* Three devices in a loop: the smallest network in which a packet comes back.
Loop == {{a, b}, {b, c}, {a, c}}

\* Three devices in a row: the smallest network in which a device must relay.
Line == {{a, b}, {b, c}}

Send(src, dst, mid, relay) == [src |-> src, dst |-> dst, mid |-> mid, relay |-> relay]

\* In the loop: a reliable multicast, a unicast, and a discovery on one interface.
LoopTraffic == {<<Send(a, Mcast, "reliable", TRUE), NoIf>>,
                <<Send(c, a, "plain", FALSE), NoIf>>,
                <<Send(b, Mcast, "plain", FALSE), {a, b}>>}

\* In the loop: two relayed multicasts of one device.
TwiceTraffic == {<<Send(a, Mcast, "plain", TRUE), NoIf>>, <<Send(a, Mcast, "reliable", TRUE), NoIf>>}

\* On the line: relayed multicasts of both kinds from its ends, and a unicast.
LineTraffic == {<<Send(a, Mcast, "reliable", TRUE), NoIf>>,
                <<Send(a, Mcast, "plain", TRUE), NoIf>>,
                <<Send(c, Mcast, "plain", TRUE), NoIf>>,
                <<Send(b, a, "plain", FALSE), NoIf>>}

=============================================================================
