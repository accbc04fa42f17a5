------------------------------ MODULE HostMap ------------------------------
(***************************************************************************)
(* The synthetic resolver of the proxy: `HostMap`, which gives every name  *)
(* the guest looks up an IP of its own, the DNS handler that feeds it, and *)
(* the address table of the smoltcp interface that makes these IPs answer  *)
(* ARP.  An SSH connection carries no name, so the destination IP is all   *)
(* the proxy has to find the host again: the map must stay invertible for  *)
(* as long as the guest may remember an answer, which is forever.          *)
(*                                                                         *)
(* An IP of the guest's /24 is its last octet.  A name is the string of    *)
(* the query after `trim_end_matches('.')`; its case is kept, so two       *)
(* spellings of one host are two names here, as they are in the code.      *)
(* Packets that do not parse change nothing and are left out.              *)
(***************************************************************************)
EXTENDS Integers, FiniteSets

CONSTANTS
  Names,       \* the names the guest may look up
  LocalNames,  \* those that spell "localhost"
  PoolStart,   \* HOST_POOL_START
  PoolEnd,     \* HOST_POOL_END
  U8,          \* 2^8: `next` is a u8
  Gateway,     \* GATEWAY_IP
  Loopback,    \* LOOPBACK_IP, outside the guest's subnet
  AddrMax,     \* SMOLTCP_IFACE_MAX_ADDR_COUNT
  NoHost       \* None

ASSUME HostMapAssumption ==
  /\ LocalNames \subseteq Names
  /\ NoHost \notin Names
  /\ PoolStart \in Nat /\ PoolEnd \in Nat /\ U8 \in Nat
  /\ Gateway \in Nat
  /\ Gateway < PoolStart
  /\ PoolStart <= PoolEnd
  /\ PoolEnd + 1 < U8
  /\ Loopback \notin 0 .. U8
  /\ AddrMax \in Nat
  /\ PoolEnd - PoolStart + 2 <= AddrMax   \* gateway + pool, .cargo/config.toml

VARIABLES
  forward,   \* HostMap.forward, a partial function from names to IPs
  reverse,   \* HostMap.reverse, a partial function from IPs to names
  next,      \* HostMap.next
  addrs,     \* the interface's address table
  answers    \* history: every <<name, ip>> of an A answer sent to the guest

hostVars == <<forward, reverse, next, addrs, answers>>

Pool == PoolStart .. PoolEnd
IP   == (0 .. U8 - 1) \cup {Loopback}

----------------------------------------------------------------------------
(* HostMap *)

\* HashMap::insert
Insert(f, k, v) == [x \in DOMAIN f \cup {k} |-> IF x = k THEN v ELSE f[x]]

Exhausted == next > PoolEnd

\* Mutant: looks at the pool before it looks at the bindings.
AllocIp_PoolFirst(n) == IF Exhausted THEN Gateway
                        ELSE IF n \in DOMAIN forward THEN forward[n]
                        ELSE next

\* What alloc returns: an existing binding, the gateway when the pool is used
\* up, or the next address of the pool.
AllocIp(n) == IF n \in DOMAIN forward THEN forward[n]
              ELSE IF Exhausted THEN Gateway
              ELSE next

IsNew(n) == n \notin DOMAIN forward /\ ~Exhausted

\* Mutant: `next` is not moved on.
Bind_KeepsNext(n, ip) == /\ forward' = Insert(forward, n, ip)
                         /\ reverse' = Insert(reverse, ip, n)
                         /\ UNCHANGED next

\* Mutant: the pool is a ring whose oldest address is given away again.
Bind_Ring(n, ip) == /\ forward' = Insert(forward, n, ip)
                    /\ reverse' = Insert(reverse, ip, n)
                    /\ next' = IF next = PoolEnd THEN PoolStart ELSE next + 1

\* The address goes to the name inserted last under it, and `next` wraps as a
\* u8 does in a release build.
Bind(n, ip) == /\ forward' = Insert(forward, n, ip)
               /\ reverse' = Insert(reverse, ip, n)
               /\ next' = (next + 1) % U8

HostnameForIp(ip) == IF ip \in DOMAIN reverse THEN reverse[ip] ELSE NoHost

----------------------------------------------------------------------------
(* process_dns *)

\* Mutant: the table has smoltcp's default size, two.
AddAddr_DefaultTable(ip) == addrs' = IF Cardinality(addrs) < 2 THEN addrs \cup {ip} ELSE addrs

\* iface.update_ip_addrs: an address already there is not added twice, and a
\* full table only logs a warning.
AddAddr(ip) == addrs' = IF Cardinality(addrs) < AddrMax THEN addrs \cup {ip} ELSE addrs

\* handle_query answers queries of class IN; an A query gets the address, any
\* other type an empty answer.
Answered(n, inClass, isA, ip) ==
  IF inClass /\ isA
  THEN answers \cup {<<n, IF n \in LocalNames THEN Loopback ELSE ip>>}
  ELSE answers

\* One well-formed query. The address is allocated before the class and the
\* type are looked at, so a query that gets no answer may use one up.
DnsQuery(n, inClass, isA) ==
  /\ IF n \notin LocalNames /\ IsNew(n)
     THEN Bind(n, next) /\ AddAddr(next)
     ELSE UNCHANGED <<forward, reverse, next, addrs>>
  /\ answers' = Answered(n, inClass, isA, AllocIp(n))

----------------------------------------------------------------------------
HostInit ==
  /\ forward = [n \in {} |-> Gateway]
  /\ reverse = [ip \in {} |-> NoHost]
  /\ next = PoolStart
  /\ addrs = {Gateway}
  /\ answers = {}

HostNext == \E n \in Names, inClass, isA \in BOOLEAN : DnsQuery(n, inClass, isA)

HostSpec == HostInit /\ [][HostNext]_hostVars

----------------------------------------------------------------------------
(* Properties *)

\* The shapes of the four structures: `next` stays a u8 that does not wrap past
\* the pool, and the keys allocated so far are exactly the pool below `next`.
HostTypeOK ==
  /\ DOMAIN forward \subseteq Names \ LocalNames
  /\ \A n \in DOMAIN forward : forward[n] \in Pool
  /\ next \in PoolStart .. PoolEnd + 1
  /\ DOMAIN reverse = PoolStart .. next - 1
  /\ \A ip \in DOMAIN reverse : reverse[ip] \in Names
  /\ answers \subseteq Names \X IP

\* forward and reverse are inverse to each other: no IP is given to two names
\* and no lookup by IP ends at another name (HostMap::alloc writes both).
Invertible ==
  /\ \A n \in DOMAIN forward :
        forward[n] \in DOMAIN reverse /\ reverse[forward[n]] = n
  /\ \A ip \in DOMAIN reverse :
        reverse[ip] \in DOMAIN forward /\ forward[reverse[ip]] = ip

\* Whatever address the guest was ever told for a name still leads back to that
\* name and is still on the interface, however many names came later; the
\* gateway is the answer only once the pool is used up (process_dns, alloc).
AnswersRouteBack ==
  \A a \in answers :
    \/ a[1] \in LocalNames /\ a[2] = Loopback
    \/ a[1] \notin LocalNames /\ a[2] = Gateway /\ Exhausted
    \/ a[1] \notin LocalNames /\ a[2] \in addrs /\ HostnameForIp(a[2]) = a[1]

\* The guest never gets two different addresses for one name, although queries
\* that are not answered allocate too and the pool can run out in between.
OneAnswerPerName == \A a, b \in answers : a[1] = b[1] => a[2] = b[2]

\* A binding, once made, is never changed or dropped: HostMap has no removal,
\* and an IP may sit in a guest's resolver cache for the whole session.
BindingsPermanent ==
  [][ \A n \in DOMAIN forward : /\ n \in DOMAIN forward'
                                /\ forward'[n] = forward[n]
                                /\ reverse'[forward[n]] = n ]_hostVars
=============================================================================
