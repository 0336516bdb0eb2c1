-------------------------- MODULE MCUdpConnection --------------------------
(* Small instances of UdpConnection: packets of the device, and what a Tcb  *)
(* asks for, at the ends of their ranges.                                  *)
EXTENDS UdpConnection

MCLength == 0 .. 2

Ipv4(options, proto, content) ==
  <<64 + 5 + (Len(options) \div 4), 0, 0, 20 + Len(options) + Len(content), 18, 52, 64, 0, 64, proto, 0, 0>>
    \o <<10, 0, 0, 2>> \o <<255, 254, 253, 252>> \o options \o content

Ipv6(proto, content) ==
  <<96, 0, 0, 0, 0, Len(content), proto, 64>>
    \o <<253, 0, 0, 0, 0, 0, 0, 0, 0, 0, 0, 0, 0, 0, 0, 2>>
    \o <<32, 1, 72, 96, 255, 255, 255, 255, 0, 0, 0, 0, 0, 0, 136, 136>> \o content

Tcp(options) ==
  <<156, 64, 1, 187, 255, 255, 255, 255, 0, 0, 0, 0, 16 * (5 + (Len(options) \div 4)), 2, 255, 255, 0, 0, 0, 0>>
    \o options

Udp(port, data) == <<156, 64, port \div 256, port % 256, 0, 8 + Len(data), 171, 205>> \o data

Echo(data) == <<8, 0, 18, 52, 0, 1, 255, 255>> \o data

MCFirstPacket ==
  {Ipv4(<< >>, 6, Tcp(<<2, 4, 5, 180>>)), Ipv6(6, Tcp(<< >>)),
   Ipv4(<<1, 1, 1, 1>>, 17, Udp(53, <<1, 2>>)), Ipv6(17, Udp(53, <<1>>))}

MCRequest ==
  {Ipv4(<< >>, 1, Echo(<< >>)), Ipv4(<<1, 1, 1, 0>>, 1, Echo(<<1, 255, 7>>)),
   Ipv4(<<1, 1, 1, 0>>, 17, Udp(443, <<9, 9, 9>>))}

Asks(seq, ack, flags, window) == [seq |-> seq, ack |-> ack, flags |-> flags, window |-> window]

MCTcb == {Asks(<<0, 0>>, <<65535, 65535>>, 18, 0), Asks(<<65535, 65535>>, <<0, 1>>, 24, 65535),
          Asks(<<43981, 4660>>, <<65535, 65535>>, 17, 256)}

MCData == {<< >>, <<200>>, <<255, 255, 3>>}
=============================================================================
