------------------------------ MODULE LanNetif ------------------------------
(***************************************************************************)
(* The choice of the one interface of the host that the Matter stack gets   *)
(* to see (bridge/src/matter/lan_netif.rs).  An interface has a name, by    *)
(* which it is loopback, virtual or a real one, and addresses of the kinds  *)
(* below.  Matter needs IPv6, of which a link-local address is enough.      *)
(*                                                                          *)
(* The list is read anew for every choice and may have changed in between.  *)
(***************************************************************************)
EXTENDS Integers, Sequences, FiniteSets

CONSTANTS
    Loopbacks, \* is_loopback_name: lo, lo0, lo1, ...
    Virtuals,  \* is_virtual_name of the others: docker0, hassio, veth1, wg0, ...
    NoPin      \* no interface, and no pin

IPv4Kinds == {"unspecified", "loopback", "linklocal", "multicast", "broadcast", "lan"}
IPv6Kinds == {"unspecified", "loopback", "linklocal", "multicast", "routable"}

-----------------------------------------------------------------------------
UsableIPv4(a) == a = "lan"
UsableIPv6(a) == a \notin {"unspecified", "loopback", "multicast", "linklocal"}
MatterIPv6(a) == a \notin {"unspecified", "loopback", "multicast"}

HasMatterIPv6(iface) == \E a \in iface.ipv6 : MatterIPv6(a)
HasIPv4(iface) == \E a \in iface.ipv4 : UsableIPv4(a)
HasRoutableIPv6(iface) == \E a \in iface.ipv6 : UsableIPv6(a)

IsVirtual(iface) == iface.name \in Virtuals \cup Loopbacks

Points(condition, n) == IF condition THEN n ELSE 0

\* Mutant of Score: every address counts.
ScorePerAddress(iface) ==
    Points(iface.up, 1000) + Points(iface.mac, 100)
    + 50 * Cardinality({a \in iface.ipv4 : UsableIPv4(a)})
    + 200 * Cardinality({a \in iface.ipv6 : MatterIPv6(a)})
    + Points(HasRoutableIPv6(iface), 20)

\* score_iface.
Score(iface) ==
    Points(iface.up, 1000) + Points(iface.mac, 100) + Points(HasIPv4(iface), 50)
    + Points(HasMatterIPv6(iface), 200) + Points(HasRoutableIPv6(iface), 20)

\* The interfaces that compete in the second round, and in the first.
Possible(ifaces) ==
    {i \in DOMAIN ifaces : /\ ifaces[i].name \notin Loopbacks
                           /\ ifaces[i].up
                           /\ HasMatterIPv6(ifaces[i])}
Preferred(ifaces) == {i \in Possible(ifaces) : ~IsVirtual(ifaces[i])}

\* The highest score, and the first in the list of those that have it.
Best(ifaces, among) ==
    CHOOSE i \in among : \A j \in among :
        \/ Score(ifaces[i]) > Score(ifaces[j])
        \/ Score(ifaces[i]) = Score(ifaces[j]) /\ i <= j

First(ifaces, name) ==
    LET named == {i \in DOMAIN ifaces : ifaces[i].name = name}
    IN  IF named = {} THEN 0 ELSE CHOOSE i \in named : \A j \in named : i <= j

\* A pinned interface is taken when it is there with IPv6, be it down or
\* virtual; nothing takes its place.
PickPinned(ifaces, pin) ==
    LET i == First(ifaces, pin)
    IN  IF i # 0 /\ HasMatterIPv6(ifaces[i]) THEN ifaces[i] ELSE NoPin

\* Without a pin the best real interface, and a virtual one if there is none.
PickAuto(ifaces) ==
    IF Preferred(ifaces) # {} THEN ifaces[Best(ifaces, Preferred(ifaces))]
    ELSE IF Possible(ifaces) # {} THEN ifaces[Best(ifaces, Possible(ifaces))]
    ELSE NoPin

\* pick.
Pick(ifaces, pin) == IF pin = NoPin THEN PickAuto(ifaces) ELSE PickPinned(ifaces, pin)

\* validate_for_start.
Validated(ifaces, pin) ==
    IF pin = NoPin THEN Preferred(ifaces) # {}
    ELSE LET i == First(ifaces, pin) IN i # 0 /\ HasMatterIPv6(ifaces[i]) /\ ifaces[i].up

-----------------------------------------------------------------------------
(* What the choice promises, for one list of interfaces and one pin *)

\* Never an interface without IPv6 or loopback, never another than the pinned
\* one, and without a pin none that is down.
SoundPick(ifaces, pin) ==
    LET face == Pick(ifaces, pin)
    IN  face # NoPin =>
            /\ HasMatterIPv6(face)
            /\ pin # NoPin => face.name = pin
            /\ pin = NoPin => face.up /\ face.name \notin Loopbacks

\* What the start checks and what the stack is shown are computed apart and
\* agree: after the check there is an interface to show, and it is up and, if
\* not pinned, a real one.
ValidatedPick(ifaces, pin) ==
    Validated(ifaces, pin) =>
        LET face == Pick(ifaces, pin)
        IN  face # NoPin /\ face.up /\ (pin = NoPin => ~IsVirtual(face))

Rank(iface) ==
    <<~IsVirtual(iface), iface.mac, HasIPv4(iface), HasRoutableIPv6(iface)>>

\* The ranks in their order of importance: at the first where they differ, a
\* has what b lacks.
Outranks(a, b) ==
    \E n \in 1 .. 4 : /\ Rank(a)[n] /\ ~Rank(b)[n]
                      /\ \A m \in 1 .. n - 1 : Rank(a)[m] = Rank(b)[m]

\* The sum of points is an order of importance in disguise: a real interface,
\* then a MAC address, then IPv4, then an IPv6 address that is not link-local.
BestPick(ifaces) ==
    \A i \in Possible(ifaces) : ~Outranks(ifaces[i], Pick(ifaces, NoPin))
=============================================================================
