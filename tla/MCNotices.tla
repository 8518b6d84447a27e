------------------------------ MODULE MCNotices ------------------------------
(***************************************************************************)
(* Two contacts, an nsset of one of them and a domain; changes that link   *)
(* them and unlink them, and that erase what has been unlinked.            *)
(***************************************************************************)
EXTENDS Notices, TLC

ShippingTypes == {"SHIPPING"}
Enum == {"enum"}
Nothing == {}
Symmetry == Permutations(Process) \cup Permutations(Worker)

Ask(kind, type, name, registrar) == [UpdateOf(type, name, registrar) EXCEPT !.kind = kind]

Nameserver(ips) == [fqdn |-> "ns", ips |-> ips]

StartCalls ==
    <<[Ask("create", "contact", "alice", "first") EXCEPT !.value = "a1", !.disclose = "none"],
      [Ask("create", "contact", "bob", "first") EXCEPT !.value = "b1", !.disclose = "none"],
      [Ask("create", "nsset", "set", "first") EXCEPT
          !.value = 0, !.put = {Nameserver({"ip1"})}, !.add = {"alice"}],
      [Ask("create", "domain", "dom", "second") EXCEPT
          !.value = 1, !.add = {"alice"}, !.registrant = "bob", !.nsset = "set", !.keyset = None]>>

CallsOfAll ==
    {[Ask("update", "contact", "alice", r) EXCEPT !.value = "a2"] : r \in {"first", "second"}}
    \cup
    {[Ask("update", "contact", "bob", "first") EXCEPT !.value = None],
     [Ask("update", "domain", "dom", "second") EXCEPT !.nsset = "other"],
     [Ask("update", "domain", "dom", "second") EXCEPT !.nsset = None],
     [Ask("update", "domain", "dom", "second") EXCEPT !.registrant = "alice"],
     [Ask("update", "domain", "dom", "second") EXCEPT !.rem = {"alice"}],
     [Ask("update", "nsset", "set", "first") EXCEPT !.add = {"bob"}, !.rem = {"alice"}],
     [Ask("update", "nsset", "set", "first") EXCEPT !.drop = {"ns"}, !.put = {Nameserver({"ip2"})}],
     [Ask("create", "nsset", "other", "first") EXCEPT
          !.value = 0, !.put = {Nameserver({"ip1"})}, !.add = {"bob"}],
     [Ask("create", "keyset", "keys", "first") EXCEPT !.put = {"key"}, !.add = {"bob"}],
     Ask("delete", "nsset", "set", "first"), Ask("delete", "domain", "dom", "second"),
     Ask("delete", "contact", "alice", "first"),
     [Ask("renew", "domain", "dom", "second") EXCEPT !.value = 2],
     Ask("transfer", "contact", "bob", "second"), Ask("transfer", "domain", "dom", "first")}
=============================================================================
