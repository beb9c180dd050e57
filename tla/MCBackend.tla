----------------------------- MODULE MCBackend -----------------------------
(* Instance of Backend for TLC: two real interfaces that differ in what the  *)
(* score looks at, behind a loopback and a container's interface.            *)
EXTENDS Backend, TLC

CONSTANTS c1, c2

Iface(name, up, mac, ipv4, ipv6) ==
    [name |-> name, up |-> up, mac |-> mac, ipv4 |-> ipv4, ipv6 |-> ipv6]

Lo == Iface("lo", TRUE, FALSE, {"loopback"}, {"loopback"})
Docker == {Iface("docker0", TRUE, FALSE, {"lan"}, v6) : v6 \in {{}, {"routable"}}}

\* Down; IPv4 only; link-local IPv6 with neither MAC nor IPv4 (a tunnel), with
\* a MAC and IPv4, and with a MAC and several IPv6 addresses.
Real(name) == {
    Iface(name, FALSE, TRUE, {"lan"}, {"linklocal", "routable"}),
    Iface(name, TRUE, TRUE, {"lan", "linklocal"}, {}),
    Iface(name, TRUE, FALSE, {}, {"linklocal"}),
    Iface(name, TRUE, TRUE, {"lan"}, {"linklocal"}),
    Iface(name, TRUE, TRUE, {}, {"linklocal", "routable"})}

MCInventories ==
    {<<Lo, d, e, w>> : d \in Docker, e \in Real("eth0"), w \in Real("wlan0")}
    \cup {<<Lo, d>> : d \in Docker}

MCForeign == {[passcode |-> 2, discriminator |-> 0], [passcode |-> 1, discriminator |-> 2]}
=============================================================================
