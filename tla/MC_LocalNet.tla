------------------------------ MODULE MC_LocalNet ------------------------------
(* Scenarios of one to three interfaces and one to three clients. *)
EXTENDS LocalNet

mc_Class == [eth |-> "eth", usb |-> "eth", odu |-> "odu", ap1 |-> "ap", ap2 |-> "ap", sta |-> "sta"]
mc_L2 == [i \in DOMAIN mc_Class |-> IF i \in {"eth", "usb", "odu"} THEN "eth_ii" ELSE "802_3"]

S(on, v4, v6, fams, lim, maxq, kinds) ==
    [ifs |-> DOMAIN on, on |-> on, v4 |-> v4, v6 |-> v6, fams |-> fams, lim |-> lim, maxq |-> maxq,
     kinds |-> kinds, router |-> TRUE, embms |-> TRUE]

\* A LAN client that changes its IPv4 address; one with more IPv6 addresses than fit.
lan4 == S([eth |-> {"a"}], [a |-> {"a1", "a2"}], [a |-> {"a6"}], F, 1, 2, {"down", "wan"})
lan6 == S([eth |-> {"a", "b"}], [a |-> {"a1"}, b |-> {"b1"}], [a |-> {"a6", "a7", "a8", "x6"}, b |-> {}], {"v6"}, 2, 1, {})

\* More clients than the tables have room for.
crowd == S([eth |-> {"a", "b", "c"}], [a |-> {"a1"}, b |-> {"b1"}, c |-> {"c1"}],
           [a |-> {}, b |-> {}, c |-> {}], {}, 2, 1, {})
crowd_ap == S([ap1 |-> {"a", "b"}, ap2 |-> {"c"}], [a |-> {}, b |-> {}, c |-> {"c1"}],
              [a |-> {}, b |-> {}, c |-> {}], {}, 1, 1, {"down"})

\* Stations that sleep.
sleep == S([ap1 |-> {"a", "b"}], [a |-> {"a1"}, b |-> {}], [a |-> {"a6"}, b |-> {}], {"v4"}, 2, 1, {"sleep"})

\* A station that roams, with a cache too small for it and another.
roam == S([ap1 |-> {"a", "b"}, ap2 |-> {"a"}], [a |-> {"a1"}, b |-> {"b1"}], [a |-> {}, b |-> {}],
          {}, 1, 1, {"noaddr"})
reconnect == S([ap1 |-> {"a"}], [a |-> {"a1", "a2"}], [a |-> {"a6"}], {"v4"}, 1, 2, {"bridge", "noaddr", "down"})

\* Switches of the mode, of an access point and of an STA.
mode == S([ap1 |-> {"a"}], [a |-> {"a1"}], [a |-> {"a6"}], {"v4"}, 1, 2, {"mode", "sleep", "wan"})
gateway == S([sta |-> {"g"}], [g |-> {"g1", "g2"}], [g |-> {}], F, 1, 2, {"mode", "down"})
front == S([sta |-> {"g", "h", "i"}], [g |-> {"g1"}, h |-> {}, i |-> {}],
           [g |-> {"g6"}, h |-> {"h6"}, i |-> {"i6"}], {"v6"}, 2, 1, {"mode", "down"})

\* The bridge: interfaces of one header type on either side of a client.
bridge1 == S([eth |-> {"a"}, usb |-> {}, ap1 |-> {}], [a |-> {"a1"}], [a |-> {}], {"v4"}, 1, 1, {"down"})
bridge2 == S([eth |-> {}, ap1 |-> {"c"}, ap2 |-> {}], [c |-> {}], [c |-> {}], {"v4"}, 1, 1,
             {"down", "guest", "mode"})
bridge3 == S([eth |-> {"a"}, ap1 |-> {"c"}], [a |-> {"a1"}, c |-> {}], [a |-> {}, c |-> {}], F, 1, 1,
             {"down"})

bridge4 == S([eth |-> {"a"}, usb |-> {"b"}, ap1 |-> {}], [a |-> {"a1"}, b |-> {"b1"}],
             [a |-> {}, b |-> {}], {"v4"}, 2, 1, {"down"})

odu == S([odu |-> {"a"}], [a |-> {"a1"}], [a |-> {"a6"}], {"v4"}, 1, 1, {"down"})

mc_Scenarios ==
    {lan4, lan6, crowd, crowd_ap, sleep, roam, reconnect, mode, gateway, front, bridge1, bridge2, bridge3, bridge4}
        \cup {[odu EXCEPT !.router = r, !.embms = e] : r, e \in BOOLEAN}
=============================================================================
