----------------------------- MODULE MCTlsTunnel ------------------------------
(* Small requests for TlsTunnel: ten bytes, one or two secrets, every kind of
   prefix and header block. *)
EXTENDS TlsTunnel

Policies == {<<FALSE, "block">>, <<FALSE, "warn">>, <<FALSE, "off">>, <<TRUE, "block">>}
Shapes   == {<<0, 0>>, <<2, 4>>, <<2, 7>>, <<3, 0>>, <<3, 4>>}
Span(f, l) == [first |-> f, last |-> l]

(* Intervals at, across and beyond each of the boundaries; lengths up to
   overlap + 2 (a hex form is twice as long as the value it encodes). *)
Secrets == {{}, {Span(1, 3)}, {Span(2, 5)}, {Span(3, 5)}, {Span(6, 8)},
            {Span(4, 4), Span(9, 9)}, {Span(1, 2), Span(3, 6)}}

MCRequests ==
    {[isAllowed |-> p[1], mode |-> p[2], length |-> 9, method |-> h[1],
      headerEnd |-> h[2], secrets |-> s] : p \in Policies, h \in Shapes, s \in Secrets}

===============================================================================
