------------------------------ MODULE MCConfig ------------------------------
(* Sections that differ from a usual one in at most two keys.                *)
EXTENDS Config

Usual == [name |-> None, address |-> None, peer_ip |-> "203.0.113.10", responder |-> None,
          ports |-> <<1, 2>>, peer_ports |-> None, key |-> "hex", passphrase |-> None,
          obfs |-> None, keepalive |-> None, sip_domain |-> None]

Values ==
  [name |-> {"gut1", "gut2"}, address |-> {5, 10}, peer_ip |-> {None, "dynamic"},
   responder |-> BOOLEAN,
   ports |-> {None, <<0>>, <<3>>, <<2, 3, 2>>, <<11, 12, 13, 14, 15, 16, 17>>},
   peer_ports |-> {<<4>>, <<4, 5>>}, key |-> {None, "short"}, passphrase |-> {"phrase"},
   obfs |-> {"sip", "quic"}, keepalive |-> {0, 150},
   sip_domain |-> {"sip.example.com"}]

MCBlocks ==
  {Usual}
  \cup UNION {{[Usual EXCEPT ![f] = v] : v \in Values[f]} : f \in DOMAIN Values}
  \cup UNION {{[Usual EXCEPT ![f[1]] = v, ![f[2]] = w] : v \in Values[f[1]], w \in Values[f[2]]} :
              f \in {g \in (DOMAIN Values) \X (DOMAIN Values) : g[1] # g[2]}}
=============================================================================
