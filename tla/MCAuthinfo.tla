------------------------------ MODULE MCAuthinfo ------------------------------
(***************************************************************************)
(* Instance of Authinfo for TLC: a domain with one friendly contact, two   *)
(* registrars, two passwords.                                              *)
(***************************************************************************)
EXTENDS Authinfo

CONSTANTS d1, c1, x1, r1, r2, r3, p1, p2

MCObjects == {d1, c1, x1}

(* x1 and r3 do not exist.                                                 *)
MCExisting == {d1, c1, r1, r2}

Stored(o, r, password) ==
    [object |-> o, registrar |-> r, password |-> password, expires |-> 2, canceled |-> FALSE,
     used |-> 0, by |-> None]

(* One password of the domain and another of its contact                   *)
MCRows == <<Stored(d1, r1, p1), Stored(c1, r1, p2)>>

MCSponsor == [o \in MCObjects |-> r1]

Ask(kind, o, password) ==
    [kind |-> kind, object |-> o, registrar |-> r2, password |-> password, ttl |-> 1,
     contacts |-> {}, cancel |-> FALSE]

MCCalls ==
    {[Ask("store", d1, p2) EXCEPT !.registrar = r1],
     [Ask("store", d1, p2) EXCEPT !.ttl = 0], [Ask("store", d1, p2) EXCEPT !.registrar = r3],
     Ask("check", x1, p1), Ask("check", d1, p1), [Ask("check", d1, p1) EXCEPT !.cancel = TRUE],
     Ask("clean", d1, p1), Ask("expire", d1, p1),
     [Ask("transfer", d1, p1) EXCEPT !.contacts = {c1}],
     [Ask("transfer", d1, p2) EXCEPT !.contacts = {c1, x1}],
     [Ask("transfer", d1, p2) EXCEPT !.registrar = r1]}

=============================================================================
