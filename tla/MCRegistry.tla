------------------------------ MODULE MCRegistry ------------------------------
(***************************************************************************)
(* Instances of Registry for TLC: three contacts, one object of each other *)
(* type, two registrars.                                                   *)
(***************************************************************************)
EXTENDS Registry, TLC

CONSTANTS c1, c2, c3, n1, k1, d1, r1, r2

MCContacts == {c1, c2, c3}
MCNssets == {n1}
MCKeysets == {k1}
MCDomains == {d1}
MCRegistrars == {r1, r2}

-----------------------------------------------------------------------------
(* Contents of the register                                                *)

Free ==
    [life |-> "free", sponsor |-> r1, historyid |-> 0, registrant |-> NoObject,
     nsset |-> NoObject, keyset |-> NoObject, contacts |-> {}]

Registered == [Free EXCEPT !.life = "live", !.historyid = 1]

(* c1 is the registrant and administrative contact of d1 and the technical *)
(* contact of its nsset.                                                   *)
LinkedDb ==
    (c1 :> Registered) @@ (c2 :> Registered) @@ (c3 :> Registered)
    @@ (n1 :> [Registered EXCEPT !.contacts = {c1}])
    @@ (k1 :> [Registered EXCEPT !.contacts = {c1, c2}])
    @@ (d1 :> [Registered EXCEPT !.registrant = c1, !.nsset = n1, !.contacts = {c1}])

(* Nothing but contacts and an nsset.                                      *)
BareDb ==
    (c1 :> Registered) @@ (c2 :> Registered) @@ (c3 :> Free)
    @@ (n1 :> [Registered EXCEPT !.contacts = {c2}]) @@ (k1 :> Free) @@ (d1 :> Free)

MCInitialDbs == {LinkedDb, BareDb}

-----------------------------------------------------------------------------
(* Operations                                                              *)

On(kind, o) ==
    [kind |-> kind, obj |-> o, registrar |-> r2, set |-> {}, registrant |-> NoObject,
     nsset |-> NoObject, keyset |-> NoObject, add |-> {}, rem |-> {}, dst |-> NoObject]

CreateDomain  == [On("create", d1) EXCEPT !.registrant = c1, !.nsset = n1, !.keyset = k1,
                                          !.add = {c1, c2}]
SetRegistrant == [On("update", d1) EXCEPT !.set = {"registrant"}, !.registrant = c3]
MergeC1       == [On("merge", c1) EXCEPT !.dst = c2]

MCRequests ==
    {CreateDomain, SetRegistrant, MergeC1,
     [On("create", d1) EXCEPT !.registrant = c2],
     On("create", c3),
     [On("create", k1) EXCEPT !.add = {c1}],
     [On("update", d1) EXCEPT !.set = {"nsset", "keyset"}, !.keyset = k1],
     [On("update", d1) EXCEPT !.set = {"nsset"}, !.nsset = n1, !.add = {c2}, !.rem = {c1}],
     On("update", c1),
     [On("update", n1) EXCEPT !.add = {c2}, !.rem = {c1}],
     [On("update", k1) EXCEPT !.rem = {c2}],
     On("renew", d1),
     On("transfer", c1), On("transfer", d1), On("transfer", n1),
     [On("merge", c2) EXCEPT !.dst = c1]}
    \cup {On("delete", o) : o \in {c1, c2, d1, n1, k1}}

(* A merge against an update of one of the domains it re-links             *)
MergeRequests == {MergeC1, SetRegistrant}

(* Two updates of the same contact                                         *)
ContactRequests == {On("update", c1)}

FewInitialDbs == {LinkedDb}

=============================================================================
