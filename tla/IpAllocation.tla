---------------------------- MODULE IpAllocation ----------------------------
(***************************************************************************)
(* The address an interface gets from a prefix of the spec: getIPv4Info    *)
(* and getIPv6Info of populate-srl.go and the functions on subnets below   *)
(* them.  An address is a number; widths are constants, so that TLC can go *)
(* through every prefix of a small address family: 32 and 128 bits, bytes  *)
(* of 8 bits and IPv6 ranges of at most 2^16 addresses in the code.        *)
(*                                                                         *)
(* IPv4-mapped IPv6 prefixes are left out; BadPrefixes of DeviceConfig are *)
(* those for which the gateway is an Error here or net.ParseCIDR fails.    *)
(***************************************************************************)
EXTENDS Integers, FiniteSetsExt

CONSTANTS Bits4, Bits6, ByteBits, CapBits

ASSUME WidthAssumption ==
  /\ {Bits4, Bits6, ByteBits, CapBits} \subseteq Nat \ {0}
  /\ Bits4 % ByteBits = 0 /\ Bits6 % ByteBits = 0
  /\ Bits4 < Bits6 /\ CapBits < Bits6 - 1

VARIABLES
  prefix,           \* a prefix that net.ParseCIDR accepts: bits, ip and ones (mask)
  strategy,         \* GetGatewayAllocation: "first" or "last"
  gateway           \* the address configured, Pending before, Error if none

vars == <<prefix, strategy, gateway>>

Error == -1
Pending == -2

Pow2[n \in Nat] == IF n = 0 THEN 1 ELSE 2 * Pow2[n - 1]

Prefixes ==
  UNION {[bits : {b}, ip : 0..(Pow2[b] - 1), ones : 0..b] : b \in {Bits4, Bits6}}

HostBits(p) == p.bits - p.ones
Size(p) == Pow2[HostBits(p)]
Network(p) == p.ip - (p.ip % Size(p))   \* the IP of the subnet of ParseCIDR

-----------------------------------------------------------------------------
\* A number of a byte slice without leading zeros: big.Int.Bytes.
ByteLen(v) == Min({k \in 0..(Bits6 \div ByteBits + 1) : v < Pow2[ByteBits * k]})

\* net.IPNet.Contains: the length must be that of the family.
Contains(p, v) ==
  /\ ByteLen(v) = p.bits \div ByteBits
  /\ Network(p) <= v /\ v < Network(p) + Size(p)

\* Mutant of GetIndexedIP: the result is not checked against the subnet.
GetIndexedIPUnchecked(p, index) == Network(p) + index

GetIndexedIP(p, index) ==
  LET ip == Network(p) + index IN IF Contains(p, ip) THEN ip ELSE Error

\* Mutant of RangeSize: the largest subnets are not refused.
RangeSizeUnbounded(p) ==
  IF p.bits = Bits6 /\ HostBits(p) >= CapBits THEN Pow2[CapBits] ELSE Size(p)

\* Mutant of RangeSize: the cap is not for IPv6 only.
RangeSizeCapped(p) ==
  IF HostBits(p) >= p.bits - 1 THEN 0
  ELSE IF HostBits(p) >= CapBits THEN Pow2[CapBits]
  ELSE Size(p)

\* The size is capped for IPv6 only, and the two largest subnets have none.
RangeSize(p) ==
  IF HostBits(p) >= p.bits - 1 THEN 0
  ELSE IF p.bits = Bits6 /\ HostBits(p) >= CapBits THEN Pow2[CapBits]
  ELSE Size(p)

GetFirstIP(p) == GetIndexedIP(p, 1)
GetLastIP(p) == IF RangeSize(p) <= 0 THEN Error ELSE GetIndexedIP(p, RangeSize(p) - 1)

\* Only the network address of a subnet stands for its gateway; a host address,
\* or an address of a point-to-point link (/31, /127), is taken as it is.
NamesSubnet(p) == p.ip = Network(p) /\ p.ones # p.bits - 1

IPInfo(p, s) ==
  IF ~NamesSubnet(p) THEN p.ip
  ELSE IF s = "last" THEN GetLastIP(p) ELSE GetFirstIP(p)

\* Mutant of AddressInfo: there is no exception for point-to-point links.
AddressInfoAlways(p, s) ==
  IF p.ip # Network(p) THEN p.ip
  ELSE IF s = "last" THEN GetLastIP(p) ELSE GetFirstIP(p)

\* getAdressInfo of pkg/schema, one function for both families: the exception is
\* for masks of 31 bits.
AddressInfo(p, s) ==
  IF p.ip # Network(p) \/ p.ones = Bits4 - 1 THEN p.ip
  ELSE IF s = "last" THEN GetLastIP(p) ELSE GetFirstIP(p)

-----------------------------------------------------------------------------
Init ==
  /\ prefix \in Prefixes
  /\ strategy \in {"first", "last"}
  /\ gateway = Pending

Allocate ==
  /\ gateway = Pending
  /\ gateway' = IPInfo(prefix, strategy)
  /\ UNCHANGED <<prefix, strategy>>

Spec == Init /\ [][Allocate]_vars

-----------------------------------------------------------------------------
(* Properties                                                               *)

Allocated == gateway \notin {Pending, Error}

\* An interface gets an address of the subnet its prefix names, never one of the
\* next subnet, and never the network address unless it was written or the
\* subnet has no other.
GatewayInSubnet ==
  Allocated =>
    /\ gateway \in Network(prefix)..(Network(prefix) + Size(prefix) - 1)
    /\ gateway = Network(prefix) => ~NamesSubnet(prefix) \/ Size(prefix) = 1

\* Which prefixes of a spec cannot be served, and fail every reconcile of the vpc:
\* a host route when gateways come first in their subnet; a half of the address
\* space or all of it when they come last; and a subnet whose gateway has a zero
\* in its first byte, which big.Int.Bytes drops (64:ff9b::/96).
FailsOnlyFor ==
  gateway = Error <=>
    /\ NamesSubnet(prefix) /\ gateway # Pending
    /\ \/ strategy = "first" /\ Size(prefix) = 1
       \/ strategy = "last" /\ HostBits(prefix) >= prefix.bits - 1
       \/ LET offset == IF strategy = "first" THEN 1 ELSE RangeSize(prefix) - 1
          IN  Network(prefix) + offset < Pow2[prefix.bits - ByteBits]

\* "GetLastIP returns subnet's last IP" (populate-srl.go:432).  It does not for an IPv6
\* subnet of more than 2^16 addresses, the usual /64 for one.
LastOfSubnet ==
  Allocated /\ NamesSubnet(prefix) /\ strategy = "last" =>
    gateway = Network(prefix) + Size(prefix) - 1

\* What it returns instead: "For IPv6, the max size will be limited to 65536"
\* (populate-srl.go:452).  The gateway of an IPv4 subnet, or of an IPv6 subnet of up to
\* 2^16 addresses, is its last address, that of a larger one the last of its first 2^16.
LastOfRange ==
  Allocated /\ NamesSubnet(prefix) /\ strategy = "last" =>
    LET range == IF prefix.bits = Bits6 THEN {Size(prefix), Pow2[CapBits]} ELSE {Size(prefix)}
    IN  gateway = Network(prefix) + Min(range) - 1

\* The two copies of the allocation, in the controller and in pkg/schema, give a prefix
\* the same address, or both none, unless it is an IPv6 subnet of 31 or 127 bits, where
\* they always differ: "none /127 interface -> allocate gw IP" (populate-srl.go:403) is
\* true of the first only, and the other has taken over the mask of an IPv4 link.
SchemaAgrees ==
  AddressInfo(prefix, strategy) = IPInfo(prefix, strategy) <=>
    ~ /\ prefix.bits = Bits6 /\ prefix.ip = Network(prefix)
      /\ prefix.ones \in {Bits4 - 1, Bits6 - 1}
=============================================================================
