--------------------------- MODULE ClientAddress ----------------------------
(***************************************************************************)
(* The address a request is counted to (auth.ClientIP, auth.RateLimitKey), *)
(* from the transport peer, the X-Forwarded-For lines and the allowlist    *)
(* config.ParseTrustedProxies makes of KY_TRUSTED_PROXIES; and the ways a  *)
(* request of a client reaches the server, to hold it against.             *)
(*                                                                         *)
(* A block is what one holder has: an IPv4 address, or an IPv6 /64 of      *)
(* several hosts.  An IPv4 address is also written IPv4-mapped, and a      *)
(* forwarded entry may carry a port.                                       *)
(***************************************************************************)
EXTENDS Naturals, Sequences

Ext == INSTANCE SequencesExt

CONSTANTS Clients, Proxies,   \* blocks
          V6,                 \* those that are IPv6
          Garbage             \* an entry that is no address; also an empty one

ASSUME BlockAssumption == Clients \cap Proxies = {} /\ V6 \subseteq Clients \cup Proxies

-----------------------------------------------------------------------------
Spellings(b) == IF b \in V6 THEN [block : {b}, host : {0, 1}, mapped : {FALSE}]
                ELSE [block : {b}, host : {0}, mapped : BOOLEAN]
Address == UNION {Spellings(b) : b \in Clients \cup Proxies}

(* A forwarded entry that parses, with or without a port. *)
Entry == [addr : Address, port : BOOLEAN]

ASSUME GarbageAssumption == Garbage \notin Entry

(* Addr.Unmap *)
Unmap(a) == [a EXCEPT !.mapped = FALSE]

(* An IPv6 address counts as its /64. *)
RateLimitKey(a) == IF a.block \in V6 THEN [a EXCEPT !.host = 0] ELSE a

LimiterKeys == {RateLimitKey(Unmap(a)) : a \in Address}

-----------------------------------------------------------------------------
(***************************************************************************)
(* KY_TRUSTED_PROXIES                                                      *)
(***************************************************************************)

(* What may be listed: an address or its longest prefix, the holder's      *)
(* block, or everything of the family (0.0.0.0/0 and ::ffff:0.0.0.0/96).   *)
Listed(p) == [block : {p}, mapped : IF p \in V6 THEN {FALSE} ELSE BOOLEAN,
              bits : {"address", "block", "all"}]

(* A mapped prefix of fewer than 96 bits stays as it is and matches no     *)
(* unmapped address; none is listed.                                       *)
unmapPrefix(e) == [e EXCEPT !.mapped = FALSE]

(* A prefix that trusts every address is a start-up error, mapped or not. *)
Refused(list) == \E e \in list : unmapPrefix(e).bits = "all"

ParseTrustedProxies(list) == {unmapPrefix(e) : e \in list}

(* Prefix.Contains never matches across families. *)
Contains(p, a) ==
    /\ p.mapped = a.mapped /\ (p.block \in V6 <=> a.block \in V6)
    /\ p.bits = "all" \/ p.block = a.block
    /\ p.bits = "address" => a.host = 0

isTrusted(a, trusted) == \E p \in trusted : Contains(p, a)

-----------------------------------------------------------------------------
(***************************************************************************)
(* ClientIP                                                                *)
(***************************************************************************)

(* parseForwardedEntry drops a port. *)
parseForwardedEntry(e) == Unmap(e.addr)

(* Faulty variant: Header.Get, the first line only. *)
Parts_FirstLine(lines) == IF lines = <<>> THEN <<Garbage>> ELSE Head(lines)

(* All lines, joined and split at commas: no line at all is one empty part. *)
Parts(lines) == IF lines = <<>> THEN <<Garbage>> ELSE Ext!FlattenSeq(lines)

(* The walk from the right ends at an entry that is no address or that is  *)
(* not a trusted proxy's; the peer stands in for the former, and for none. *)
ClientIP(peer, lines, trusted) ==
    LET me == Unmap(peer)
        parts == Parts(lines)
        ends == {i \in 1 .. Len(parts) : \/ parts[i] = Garbage
                                         \/ ~isTrusted(parseForwardedEntry(parts[i]), trusted)}
        last == CHOOSE i \in ends : \A j \in ends : j <= i
    IN  IF \/ ~isTrusted(me, trusted) \/ ends = {} \/ parts[last] = Garbage THEN me
        ELSE parseForwardedEntry(parts[last])

-----------------------------------------------------------------------------
(***************************************************************************)
(* Requests.  External: the client sends any header it likes; each proxy   *)
(* adds the address it was called from, to the last line or as a new one.  *)
(***************************************************************************)

Forged == {<<>>, <<<<Garbage>>>>}
          \cup {<<<<[addr |-> a, port |-> FALSE]>>>> : a \in {Unmap(x) : x \in Address}}

Forward(lines, e, newLine) ==
    IF newLine \/ lines = <<>> THEN Append(lines, <<e>>)
    ELSE [lines EXCEPT ![Len(lines)] = Append(@, e)]

(* A request as a hop or the server receives it, with what a further proxy *)
(* at address a makes of it.                                               *)
Through(r, a) ==
    {[peer |-> a, lines |-> Forward(r.lines, [addr |-> r.peer, port |-> port], newLine)]
        : port \in BOOLEAN, newLine \in BOOLEAN}

ProxyAddress == {a \in UNION {Spellings(p) : p \in Proxies} : a.host = 0}

Direct(c) == [peer : Spellings(c), lines : Forged]
OneHop(c) == UNION {Through(r, a) : r \in Direct(c), a \in ProxyAddress}
TwoHops(c) == UNION {Through(r, a) : r \in OneHop(c), a \in ProxyAddress}

(* Operators list every proxy, one way or another. *)
TrustLists == {list \in SUBSET UNION {Listed(p) : p \in Proxies} :
                 \A p \in Proxies : \E e \in list : list \cap Listed(p) = {e}}

(* The keys under which a server that starts counts a client's requests. *)
KeysFor(c) ==
    {RateLimitKey(ClientIP(r.peer, r.lines, ParseTrustedProxies(list)))
        : r \in Direct(c) \cup OneHop(c) \cup TwoHops(c), list \in {l \in TrustLists : ~Refused(l)}}

(* The key that belongs to the client. *)
OwnKey(c) == RateLimitKey([block |-> c, host |-> 0, mapped |-> FALSE])

=============================================================================
