---------------------------- MODULE MCBusDaemon -----------------------------
(* BusDaemon with a few clients, one topic, and descriptors numbered as the *)
(* process numbers them (0-2 standard, 3 listener, 4 epoll, 5 and up        *)
(* connections).                                                            *)
EXTENDS BusDaemon, TLC

CONSTANTS p1, p2, p3, p4, led

OnePattern == {<<led, led>>}
PubSub == {Ping, Sub(led), Unsub(led), Pub(led)}
PingOnly == {Ping}
ChatOrLong == {Sub(led), Pub(led), Long}
Symm == Permutations(Leavers) \cup Permutations(Peers \ Leavers)
=============================================================================
