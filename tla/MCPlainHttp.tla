------------------------------ MODULE MCPlainHttp ------------------------------
(* Requests of up to three body bytes for PlainHttp, with a secret in any of
   the three parts, within and beyond the clamp, and a port out of range. *)
EXTENDS PlainHttp

Span(f, l) == [first |-> f, last |-> l]
MCExchanges ==
    {[isAllowed |-> a, mode |-> m, length |-> 3, secrets |-> s, leaky |-> p, badPort |-> b] :
        a \in BOOLEAN, b \in BOOLEAN, m \in {"block", "warn", "off"},
        s \in {{}, {Span(1, 2)}, {Span(2, 3)}},
        p \in {{}, {"headers"}, {"url"}, {"headers", "url"}}}
    \cup {[isAllowed |-> FALSE, mode |-> "block", length |-> 0, secrets |-> {}, leaky |-> p,
             badPort |-> FALSE] : p \in {{}, {"url"}}}
===============================================================================
