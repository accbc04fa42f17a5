------------------------------- MODULE MCTls --------------------------------
(* Two hosts and a third that is only ever asked for, secrets of two and     *)
(* three symbols that do and do not overlap or are too long, requests that   *)
(* differ from a plain one in one or two ways.                               *)
EXTENDS TlsPipeline

ex  == <<"ex">>
api == <<"api", "ex">>
cdn == <<"cdn">>

Key   == [id |-> 1, real |-> <<1, 2>>, hosts |-> {api}]
Long  == [id |-> 2, real |-> <<3, 3, 2>>, hosts |-> {api}]
Other == [id |-> 2, real |-> <<2, 1, 3>>, hosts |-> {api}]
Huge  == [id |-> 3, real |-> <<1, 1, 1, 1>>, hosts |-> {ex}]

MCPolicies ==
  { [allow |-> {[wild |-> TRUE, name |-> ex]}, secrets |-> <<Key, Long>>],
    [allow |-> {[wild |-> FALSE, name |-> api]}, secrets |-> <<Other, Key, Huge>>],
    [allow |-> NoList, secrets |-> <<>>] }

Plain == [sni |-> api, hosts |-> <<api>>, target |-> NoHost, method |-> "GET", upgrade |-> FALSE, lengths |-> <<1, 1>>,
          chunked |-> FALSE, size |-> 4, line |-> {Ph(Key)}, bodyHolds |-> {Ph(Key)},
          headers |-> {[kind |-> "plain", holds |-> {Ph(Key), Ph(Huge)}],
                       [kind |-> "basic", holds |-> {Ph(Key)}],
                       [kind |-> "encoded", holds |-> {Ph(Long)}],
                       [kind |-> "keepAlive", holds |-> {}],
                       [kind |-> "acceptEncoding", holds |-> {}]}]

MCRequests ==
  { Plain,
    [Plain EXCEPT !.sni = ex, !.hosts = <<ex>>], [Plain EXCEPT !.sni = cdn, !.hosts = <<>>],
    [Plain EXCEPT !.sni = NoSni], [Plain EXCEPT !.sni = BadSni],
    [Plain EXCEPT !.hosts = <<ex>>], [Plain EXCEPT !.hosts = <<api, ex>>],
    [Plain EXCEPT !.target = ex], [Plain EXCEPT !.method = "CONNECT"],
    [Plain EXCEPT !.upgrade = TRUE], [Plain EXCEPT !.chunked = TRUE],
    [Plain EXCEPT !.lengths = <<2, 1>>], [Plain EXCEPT !.lengths = <<-1, 1>>],
    [Plain EXCEPT !.lengths = <<4>>, !.size = 6], [Plain EXCEPT !.lengths = <<5>>, !.size = 6] }

MCAddresses == { <<93, 1, 1>>, <<172, 31, 0>> }
=============================================================================
