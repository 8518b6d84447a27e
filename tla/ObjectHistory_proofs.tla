-------------------------- MODULE ObjectHistory_proofs --------------------------
(***************************************************************************)
(* The versions of objects are sound in every reachable state: Sound is    *)
(* the inductive invariant.  Every operation writes a version of one       *)
(* object or erases one object, after it has edited rows of that object    *)
(* only; a merge is a sequence of such writings.                           *)
(***************************************************************************)
EXTENDS ObjectHistory, FiniteSetTheorems, NaturalsInduction, TLAPS

-----------------------------------------------------------------------------
(* What is true of the tables between two transactions                     *)

IsList(s) == s \in Seq({s[i] : i \in DOMAIN s})

LinkTables == {"nsset_contact_map", "keyset_contact_map", "domain_contact_map"}

(* The tables, the registry and the versions are what they should be.      *)
Shape(d) ==
    /\ DOMAIN d = {"registry", "history", "states", "merged", "live", "kept"}
    /\ DOMAIN d.live = Tables /\ DOMAIN d.kept = Tables
    /\ IsList(d.registry) /\ IsList(d.history) /\ IsList(d.merged)

EntryFits(d, r) ==
    /\ DOMAIN r = {"type", "name", "crid", "created", "erased", "crhistoryid", "historyid"}
    /\ r.type \in Types /\ r.created \in Nat /\ r.erased \in Nat \cup {None}

VersionFits(d, v) ==
    /\ DOMAIN v = {"from", "to", "next"}
    /\ v.from \in Nat /\ v.to \in Nat \cup {None} /\ v.next \in Nat \cup {None}

Typed(d) ==
    /\ \A i \in DOMAIN d.registry : EntryFits(d, d.registry[i])
    /\ \A h \in DOMAIN d.history : VersionFits(d, d.history[h])
    /\ \A s \in d.states : s.id \in DOMAIN d.registry

IsLive(d, type, id) ==
    id \in DOMAIN d.registry /\ d.registry[id].type = type /\ d.registry[id].erased = None

(* A row is that of an object that is registered and has such rows.        *)
Owned(d, t, r) ==
    /\ "id" \in DOMAIN r
    /\ \E type \in Types : IsLive(d, type, r.id) /\ t \in {"object"} \cup TablesOf(type)

(* A row has its columns, and what it refers to is registered.             *)
Refers(d, t, r) ==
    /\ t = "object" => {"clid", "upid"} \subseteq DOMAIN r
    /\ t = "contact" => "value" \in DOMAIN r
    /\ t \in LinkTables => "contact" \in DOMAIN r /\ IsLive(d, "contact", r.contact)
    /\ t = "domain" =>
          /\ {"registrant", "nsset", "keyset"} \subseteq DOMAIN r
          /\ IsLive(d, "contact", r.registrant)
          /\ r.nsset = None \/ IsLive(d, "nsset", r.nsset)
          /\ r.keyset = None \/ IsLive(d, "keyset", r.keyset)

RowsFit(d) == \A t \in Tables : \A r \in d.live[t] : Owned(d, t, r) /\ Refers(d, t, r)

OneRow(d, t, id) == \E r \in d.live[t] : Rows(d, t, id) = {r}

RowsOfAll(d) ==
    \A type \in Types, id \in DOMAIN d.registry :
        IsLive(d, type, id) => OneRow(d, "object", id) /\ OneRow(d, type, id)

NamesDiffer(d) ==
    \A type \in Types, i, j \in DOMAIN d.registry :
        IsLive(d, type, i) /\ IsLive(d, type, j) /\ d.registry[i].name = d.registry[j].name => i = j

(* What a row of a version refers to was registered once.                  *)
KeptRefers(d, t, r) ==
    /\ t = "object" => r.id \in DOMAIN d.registry
    /\ t \in LinkTables => r.contact \in DOMAIN d.registry
    /\ t = "domain" => /\ r.registrant \in DOMAIN d.registry
                       /\ r.nsset \in DOMAIN d.registry \cup {None}
                       /\ r.keyset \in DOMAIN d.registry \cup {None}

VersionsFit(d) ==
    /\ \A t \in Tables : \A e \in d.kept[t] :
          e = [h |-> e.h, row |-> e.row] /\ e.h \in DOMAIN d.history /\ KeptRefers(d, t, e.row)
    /\ \A t \in {"object"} \cup Types : \A e, f \in d.kept[t] : e.h = f.h => e = f

(* HistoryIsAChain of one object, and where its chain begins and ends      *)
ChainOf(d, id) ==
    LET r == d.registry[id] IN
    /\ r.crhistoryid \in VersionsOf(d, id) /\ r.historyid \in VersionsOf(d, id)
    /\ d.history[r.crhistoryid].from = r.created
    /\ \A h \in VersionsOf(d, id) :
          LET v == d.history[h] IN
          /\ h <= r.historyid
          /\ h = r.historyid => v.next = None /\ v.to = r.erased
          /\ h # r.historyid =>
                /\ v.next \in VersionsOf(d, id) /\ v.next > h /\ v.to = d.history[v.next].from
                /\ \A k \in VersionsOf(d, id) : ~(h < k /\ k < v.next)

Chains(d) == \A id \in DOMAIN d.registry : ChainOf(d, id)

Shows(d, h, t) == {e.row : e \in {k \in d.kept[t] : k.h = h}}

CurrentShown(d) ==
    \A id \in DOMAIN d.registry : d.registry[id].erased = None =>
        \A t \in Tables : Shows(d, d.registry[id].historyid, t) = Rows(d, t, id)

Sound(d) ==
    /\ Shape(d) /\ Typed(d)
    /\ RowsFit(d) /\ RowsOfAll(d) /\ NamesDiffer(d)
    /\ VersionsFit(d) /\ Chains(d) /\ CurrentShown(d)

-----------------------------------------------------------------------------
(* Lists                                                                   *)

(* A list is a function on an interval that begins with 1.                 *)
LEMMA ListFacts ==
    ASSUME NEW s, IsList(s)
    PROVE  Len(s) \in Nat /\ DOMAIN s = 1..Len(s) /\ Len(s) + 1 \notin DOMAIN s
  BY DEF IsList

LEMMA IntervalIsList ==
    ASSUME NEW n \in Nat, NEW s, s = [i \in 1..n |-> s[i]]
    PROVE  IsList(s) /\ Len(s) = n /\ DOMAIN s = 1..n
<1>1. DOMAIN s = 1..n
  OBVIOUS
<1> DEFINE S == {s[i] : i \in DOMAIN s}
<1>2. s \in [1..n -> S]
  BY <1>1
<1>3. s \in Seq(S)
  BY <1>2
<1>4. Len(s) = n
  BY <1>3, <1>1
<1>5. QED
  BY <1>1, <1>3, <1>4 DEF IsList

LEMMA AppendToList ==
    ASSUME NEW s, IsList(s), NEW x
    PROVE  /\ IsList(Append(s, x)) /\ Len(Append(s, x)) = Len(s) + 1
           /\ DOMAIN Append(s, x) = DOMAIN s \cup {Len(s) + 1}
           /\ \A i \in DOMAIN s : Append(s, x)[i] = s[i]
           /\ Append(s, x)[Len(s) + 1] = x
<1> DEFINE S == {s[i] : i \in DOMAIN s} \cup {x}
<1>1. s \in Seq(S) /\ x \in S /\ Len(s) \in Nat /\ DOMAIN s = 1..Len(s)
  BY ListFacts DEF IsList
<1> DEFINE a == Append(s, x)
<1>2. a \in Seq(S) /\ Len(a) = Len(s) + 1 /\ DOMAIN a = 1..(Len(s) + 1)
  BY <1>1
<1>3. (\A i \in 1..Len(s) : a[i] = s[i]) /\ a[Len(s) + 1] = x
  BY <1>1
<1>4. a = [i \in 1..(Len(s) + 1) |-> a[i]]
  <2> HIDE DEF a, S
  <2>1. a \in [1..Len(a) -> S]
    BY <1>2
  <2>2. QED
    BY <2>1, <1>2
<1>5. IsList(a)
  <2> HIDE DEF a
  <2>1. QED
    BY <1>1, <1>4, IntervalIsList
<1>6. QED
  BY <1>1, <1>2, <1>3, <1>5

(* One element of a list is changed.                                       *)
LEMMA ChangeInList ==
    ASSUME NEW s, IsList(s), NEW i \in DOMAIN s, NEW x
    PROVE  /\ IsList([s EXCEPT ![i] = x]) /\ DOMAIN [s EXCEPT ![i] = x] = DOMAIN s
           /\ Len([s EXCEPT ![i] = x]) = Len(s)
<1> DEFINE a == [s EXCEPT ![i] = x]
<1>1. Len(s) \in Nat /\ DOMAIN s = 1..Len(s)
  BY ListFacts
<1>2. a = [j \in 1..Len(s) |-> a[j]]
  BY <1>1
<1>3. QED
  <2> HIDE DEF a
  <2>1. IsList(a) /\ Len(a) = Len(s) /\ DOMAIN a = 1..Len(s)
    BY <1>1, <1>2, IntervalIsList
  <2>2. QED
    BY <2>1, <1>1 DEF a

-----------------------------------------------------------------------------
(* What an operation makes of the tables, seen from its end                *)

(* A version is added to the object id, which leaves the one before.       *)
NewHead(d, e, id, now) ==
    LET h == Len(d.history) + 1 IN
    /\ DOMAIN e.registry = DOMAIN d.registry
    /\ \A i \in DOMAIN d.registry :
          e.registry[i] = IF i = id THEN [d.registry[i] EXCEPT !.historyid = h] ELSE d.registry[i]
    /\ DOMAIN e.history = DOMAIN d.history \cup {h}
    /\ e.history[h] = [from |-> now, to |-> None, next |-> None]
    /\ \A k \in DOMAIN d.history :
          e.history[k] = IF k = d.registry[id].historyid
                         THEN [d.history[k] EXCEPT !.to = now, !.next = h] ELSE d.history[k]

(* An object is registered, with its first version.                        *)
FirstHead(d, e, c, now) ==
    LET h == Len(d.history) + 1
        id == Len(d.registry) + 1
    IN /\ DOMAIN e.registry = DOMAIN d.registry \cup {id}
       /\ e.registry[id] = [type |-> c.type, name |-> c.name, crid |-> c.registrar, created |-> now,
                            erased |-> None, crhistoryid |-> h, historyid |-> h]
       /\ \A i \in DOMAIN d.registry : e.registry[i] = d.registry[i]
       /\ DOMAIN e.history = DOMAIN d.history \cup {h}
       /\ e.history[h] = [from |-> now, to |-> None, next |-> None]
       /\ \A k \in DOMAIN d.history : e.history[k] = d.history[k]

(* An object is erased, and its last version ends.                         *)
LastHead(d, e, id, now) ==
    /\ DOMAIN e.registry = DOMAIN d.registry
    /\ \A i \in DOMAIN d.registry :
          e.registry[i] = IF i = id THEN [d.registry[i] EXCEPT !.erased = now] ELSE d.registry[i]
    /\ DOMAIN e.history = DOMAIN d.history
    /\ \A k \in DOMAIN d.history :
          e.history[k] = IF k = d.registry[id].historyid
                         THEN [d.history[k] EXCEPT !.to = now, !.next = None] ELSE d.history[k]

(* The rows of an object are kept under the version that is new.           *)
KeepsRows(d, e, id) ==
    \A t \in Tables :
        e.kept[t] = d.kept[t] \cup {[h |-> Len(d.history) + 1, row |-> r] : r \in Rows(e, t, id)}

(* The rows of other objects are those of before.                          *)
OthersStay(d, e, id) ==
    \A t \in Tables : \A r \in d.live[t] \cup e.live[t] :
        r.id # id => (r \in d.live[t] <=> r \in e.live[t])

(* The rows that e has of the object fit the registry of d.                *)
FitRows(d, e, id) ==
    \A t \in Tables : \A r \in e.live[t] : r.id = id => Owned(d, t, r) /\ Refers(d, t, r)

Writes(d, e, type, id, now) ==
    /\ Shape(e) /\ NewHead(d, e, id, now) /\ KeepsRows(d, e, id)
    /\ OthersStay(d, e, id) /\ FitRows(e, e, id)
    /\ OneRow(e, "object", id) /\ OneRow(e, type, id)
    /\ e.states \subseteq d.states

Creates(d, e, c, now) ==
    LET id == Len(d.registry) + 1 IN
    /\ Shape(e) /\ FirstHead(d, e, c, now) /\ KeepsRows(d, e, id)
    /\ OthersStay(d, e, id) /\ FitRows(e, e, id)
    /\ OneRow(e, "object", id) /\ OneRow(e, c.type, id)
    /\ e.states = d.states

Erases(d, e, id, now) ==
    /\ Shape(e) /\ LastHead(d, e, id, now) /\ e.kept = d.kept
    /\ \A t \in Tables : e.live[t] = {r \in d.live[t] : r.id # id}
    /\ e.states = d.states

-----------------------------------------------------------------------------
(* A new version leaves the tables sound.                                  *)

(* Nobody comes or goes when a version is written.                         *)
LEMMA SameObjects ==
    ASSUME NEW d, NEW e, NEW id, NEW now, Typed(d), NewHead(d, e, id, now)
    PROVE  /\ \A type, i : IsLive(e, type, i) <=> IsLive(d, type, i)
           /\ \A i \in DOMAIN d.registry :
                 /\ e.registry[i].name = d.registry[i].name
                 /\ e.registry[i].type = d.registry[i].type
                 /\ e.registry[i].erased = d.registry[i].erased
                 /\ e.registry[i].created = d.registry[i].created
                 /\ e.registry[i].crhistoryid = d.registry[i].crhistoryid
                 /\ e.registry[i].crid = d.registry[i].crid
                 /\ e.registry[i].historyid =
                       IF i = id THEN Len(d.history) + 1 ELSE d.registry[i].historyid
<1>1. PICK h : h = Len(d.history) + 1
  OBVIOUS
<1>2. ASSUME NEW i \in DOMAIN d.registry
      PROVE  /\ e.registry[i].name = d.registry[i].name
             /\ e.registry[i].type = d.registry[i].type
             /\ e.registry[i].erased = d.registry[i].erased
             /\ e.registry[i].created = d.registry[i].created
             /\ e.registry[i].crhistoryid = d.registry[i].crhistoryid
             /\ e.registry[i].crid = d.registry[i].crid
             /\ e.registry[i].historyid = IF i = id THEN h ELSE d.registry[i].historyid
  <2>1. PICK r : r = d.registry[i]
    OBVIOUS
  <2>2. EntryFits(d, r)
    BY <2>1 DEF Typed
  <2>3. e.registry[i] = IF i = id THEN [r EXCEPT !.historyid = h] ELSE r
    BY <1>1, <2>1 DEF NewHead
  <2>4. QED
    BY <2>1, <2>2, <2>3 DEF EntryFits
<1>3. \A type, i : IsLive(e, type, i) <=> IsLive(d, type, i)
  BY <1>2 DEF NewHead, IsLive
<1>4. QED
  BY <1>1, <1>2, <1>3

LEMMA SameFits ==
    ASSUME NEW d, NEW e, \A type, i : IsLive(d, type, i) => IsLive(e, type, i)
    PROVE  \A t, r : /\ Owned(d, t, r) => Owned(e, t, r)
                     /\ Refers(d, t, r) => Refers(e, t, r)
  BY DEF Owned, Refers

LEMMA WritesTyped ==
    ASSUME NEW d, NEW e, NEW type, NEW id, NEW now \in Nat, Shape(d), Typed(d),
           Writes(d, e, type, id, now)
    PROVE  Typed(e)
<1> DEFINE h == Len(d.history) + 1
<1>1. h \in Nat /\ NewHead(d, e, id, now) /\ e.states \subseteq d.states
  BY ListFacts DEF Shape, Writes
<1>2. \A i \in DOMAIN e.registry : EntryFits(e, e.registry[i])
  <2> SUFFICES ASSUME NEW i \in DOMAIN e.registry
               PROVE  EntryFits(e, e.registry[i])
    OBVIOUS
  <2>1. PICK r, n : r = d.registry[i] /\ n = h
    OBVIOUS
  <2>2. EntryFits(d, r)
    BY <1>1, <2>1 DEF NewHead, Typed
  <2>3. e.registry[i] = IF i = id THEN [r EXCEPT !.historyid = n] ELSE r
    BY <1>1, <2>1 DEF NewHead
  <2>4. QED
    BY <2>2, <2>3 DEF EntryFits
<1>3. \A k \in DOMAIN e.history : VersionFits(e, e.history[k])
  <2> SUFFICES ASSUME NEW k \in DOMAIN e.history
               PROVE  VersionFits(e, e.history[k])
    OBVIOUS
  <2>1. CASE k = h
    <3>1. e.history[k] = [from |-> now, to |-> None, next |-> None]
      BY <1>1, <2>1 DEF NewHead
    <3>2. QED
      BY <3>1 DEF VersionFits
  <2>2. CASE k \in DOMAIN d.history
    <3>1. VersionFits(d, d.history[k])
      BY <2>2 DEF Typed
    <3>2. e.history[k] = IF k = d.registry[id].historyid
                         THEN [d.history[k] EXCEPT !.to = now, !.next = h] ELSE d.history[k]
      BY <1>1, <2>2 DEF NewHead
    <3>3. QED
      <4> HIDE DEF h
      <4>1. QED
        BY <1>1, <3>1, <3>2 DEF VersionFits
  <2>3. QED
    BY <1>1, <2>1, <2>2 DEF NewHead
<1>4. QED
  BY <1>1, <1>2, <1>3 DEF Typed, NewHead

LEMMA WritesRows ==
    ASSUME NEW d, NEW e, NEW type \in Types, NEW id, NEW now, Shape(d), Typed(d),
           RowsFit(d), RowsOfAll(d), NamesDiffer(d), Writes(d, e, type, id, now),
           IsLive(d, type, id)
    PROVE  RowsFit(e) /\ RowsOfAll(e) /\ NamesDiffer(e)
<1>1. NewHead(d, e, id, now) /\ OthersStay(d, e, id) /\ FitRows(e, e, id)
  BY DEF Writes
<1>2. \A ty, i : IsLive(e, ty, i) <=> IsLive(d, ty, i)
  BY <1>1, SameObjects
<1>3. RowsFit(e)
  <2> SUFFICES ASSUME NEW t \in Tables, NEW r \in e.live[t]
               PROVE  Owned(e, t, r) /\ Refers(e, t, r)
    BY DEF RowsFit
  <2>1. CASE r.id = id
    BY <2>1, <1>1 DEF FitRows
  <2>2. CASE r.id # id
    <3>1. r \in d.live[t]
      BY <2>2, <1>1 DEF OthersStay
    <3>2. Owned(d, t, r) /\ Refers(d, t, r)
      BY <3>1 DEF RowsFit
    <3>3. QED
      BY <3>2, <1>2, SameFits
  <2>3. QED
    BY <2>1, <2>2
<1>4. RowsOfAll(e)
  <2> SUFFICES ASSUME NEW ty \in Types, NEW i \in DOMAIN e.registry, IsLive(e, ty, i)
               PROVE  OneRow(e, "object", i) /\ OneRow(e, ty, i)
    BY DEF RowsOfAll
  <2>1. IsLive(d, ty, i)
    BY <1>2
  <2>2. CASE i = id
    <3>1. ty = type
      BY <2>1, <2>2 DEF IsLive
    <3>2. QED
      BY <3>1, <2>2 DEF Writes
  <2>3. CASE i # id
    <3>1. OneRow(d, "object", i) /\ OneRow(d, ty, i)
      BY <2>1 DEF RowsOfAll, IsLive
    <3>2. "object" \in Tables /\ ty \in Tables
      BY DEF Types, Tables, ContactTables, NssetTables, KeysetTables, DomainTables
    <3>3. \A t \in Tables : Rows(e, t, i) = Rows(d, t, i)
      BY <2>3, <1>1 DEF OthersStay, Rows
    <3>4. \A t \in Tables : OneRow(d, t, i) => OneRow(e, t, i)
      BY <3>3 DEF OneRow, Rows
    <3>5. QED
      BY <3>1, <3>2, <3>4
  <2>4. QED
    BY <2>2, <2>3
<1>5. NamesDiffer(e)
  <2>1. /\ DOMAIN e.registry = DOMAIN d.registry
        /\ \A i \in DOMAIN d.registry : e.registry[i].name = d.registry[i].name
    <3>1. DOMAIN e.registry = DOMAIN d.registry
      BY <1>1 DEF NewHead
    <3>2. QED
      BY <1>1, <3>1, SameObjects
  <2>2. QED
    BY <1>2, <2>1 DEF NamesDiffer
<1>6. QED
  BY <1>3, <1>4, <1>5


(* The versions of an object are those of before and the new one.          *)
LEMMA WritesVersions ==
    ASSUME NEW d, NEW e, NEW id, VersionsFit(d), KeepsRows(d, e, id), OneRow(e, "object", id)
    PROVE  /\ VersionsOf(e, id) = VersionsOf(d, id) \cup {Len(d.history) + 1}
           /\ \A i : i # id => VersionsOf(e, i) = VersionsOf(d, i)
           /\ \A i : VersionsOf(d, i) \subseteq DOMAIN d.history
<1>1. PICK r \in e.live["object"] : Rows(e, "object", id) = {r}
  BY DEF OneRow
<1>2. r.id = id
  BY <1>1 DEF Rows
<1>3. "object" \in Tables
  BY DEF Tables
<1>4. e.kept["object"] = d.kept["object"] \cup {[h |-> Len(d.history) + 1, row |-> r]}
  BY <1>1, <1>3 DEF KeepsRows
<1>5. \A i : VersionsOf(d, i) \subseteq DOMAIN d.history
  BY <1>3 DEF VersionsOf, VersionsFit
<1>6. PICK v : v = [h |-> Len(d.history) + 1, row |-> r]
  OBVIOUS
<1>7. v.h = Len(d.history) + 1 /\ v.row.id = id /\ e.kept["object"] = d.kept["object"] \cup {v}
  BY <1>2, <1>4, <1>6
<1>8. ASSUME NEW i
      PROVE  VersionsOf(e, i) = VersionsOf(d, i) \cup (IF i = id THEN {v.h} ELSE {})
  BY <1>7 DEF VersionsOf
<1>9. QED
  BY <1>5, <1>7, <1>8

(* The version that is new fits the tables as the others do.               *)
LEMMA KeptRowsFit ==
    ASSUME NEW d, NEW e, NEW type \in Types, NEW id, Shape(d), VersionsFit(d),
           KeepsRows(d, e, id), FitRows(e, e, id),
           OneRow(e, "object", id), OneRow(e, type, id), IsLive(e, type, id),
           DOMAIN d.registry \subseteq DOMAIN e.registry,
           DOMAIN e.history = DOMAIN d.history \cup {Len(d.history) + 1}
    PROVE  VersionsFit(e)
<1> DEFINE h == Len(d.history) + 1
<1>1. h \notin DOMAIN d.history
  BY ListFacts DEF Shape
<1>2. h \in DOMAIN e.history /\ DOMAIN d.history \subseteq DOMAIN e.history
  OBVIOUS
<1> HIDE DEF h
<1>3. \A t \in Tables : e.kept[t] = d.kept[t] \cup {[h |-> h, row |-> r] : r \in Rows(e, t, id)}
  BY DEF KeepsRows, h
<1>4. ASSUME NEW t \in Tables, NEW r \in Rows(e, t, id)
      PROVE  KeptRefers(e, t, r)
  <2>1. Owned(e, t, r) /\ Refers(e, t, r)
    BY DEF FitRows, Rows
  <2>2. QED
    BY <2>1 DEF KeptRefers, Owned, Refers, IsLive
<1>5. ASSUME NEW t \in Tables, NEW x \in e.kept[t]
      PROVE  x = [h |-> x.h, row |-> x.row] /\ x.h \in DOMAIN e.history /\ KeptRefers(e, t, x.row)
  <2>1. CASE x \in d.kept[t]
    <3>1. x = [h |-> x.h, row |-> x.row] /\ x.h \in DOMAIN d.history /\ KeptRefers(d, t, x.row)
      BY <2>1 DEF VersionsFit
    <3>2. QED
      BY <3>1, <1>2 DEF KeptRefers
  <2>2. CASE x \in {[h |-> h, row |-> r] : r \in Rows(e, t, id)}
    BY <2>2, <1>2, <1>4
  <2>3. QED
    BY <1>3, <2>1, <2>2
<1>6. ASSUME NEW t \in {"object"} \cup Types, NEW x \in e.kept[t], NEW y \in e.kept[t], x.h = y.h
      PROVE  x = y
  <2>1. t \in Tables
    BY DEF Types, Tables, ContactTables, NssetTables, KeysetTables, DomainTables
  <2>2. \A r, s \in Rows(e, t, id) : r = s
    <3>1. CASE t \in {"object", type}
      BY <3>1 DEF OneRow
    <3>2. CASE t \notin {"object", type}
      <4>1. \A r \in Rows(e, t, id) : Owned(e, t, r) /\ r.id = id
        BY <2>1 DEF FitRows, Rows
      <4>2. \A ty : IsLive(e, ty, id) => ty = type
        BY DEF IsLive
      <4>3. t \notin {"object"} \cup TablesOf(type)
        BY <3>2 DEF Types, TablesOf, ContactTables, NssetTables, KeysetTables, DomainTables
      <4>4. QED
        BY <4>1, <4>2, <4>3 DEF Owned
    <3>3. QED
      BY <3>1, <3>2
  <2>3. \A z \in d.kept[t] : z.h \in DOMAIN d.history
    BY <2>1 DEF VersionsFit
  <2>4. \A z \in e.kept[t] : z \in d.kept[t] \/ z \in {[h |-> h, row |-> r] : r \in Rows(e, t, id)}
    BY <1>3, <2>1
  <2>5. CASE x \in d.kept[t] /\ y \in d.kept[t]
    BY <2>5, <1>6 DEF VersionsFit
  <2>6. CASE x \notin d.kept[t] /\ y \notin d.kept[t]
    BY <2>6, <2>4, <2>2
  <2>7. CASE x \in d.kept[t] /\ y \notin d.kept[t]
    BY <2>7, <2>3, <2>4, <1>6, <1>1 DEF h
  <2>8. CASE x \notin d.kept[t] /\ y \in d.kept[t]
    BY <2>8, <2>3, <2>4, <1>6, <1>1 DEF h
  <2>9. QED
    BY <2>5, <2>6, <2>7, <2>8
<1>7. QED
  BY <1>5, <1>6 DEF VersionsFit

LEMMA WritesChains ==
    ASSUME NEW d, NEW e, NEW type \in Types, NEW id, NEW now \in Nat, Shape(d), Typed(d),
           IsLive(d, type, id), VersionsFit(d), Chains(d), Writes(d, e, type, id, now)
    PROVE  Chains(e)
<1> DEFINE h == Len(d.history) + 1
<1>1. /\ NewHead(d, e, id, now) /\ KeepsRows(d, e, id) /\ OneRow(e, "object", id)
      /\ h \notin DOMAIN d.history /\ DOMAIN d.history = 1..Len(d.history) /\ Len(d.history) \in Nat
  BY ListFacts DEF Shape, Writes
<1>2. id \in DOMAIN d.registry /\ d.registry[id].erased = None
  BY DEF IsLive
<1>3. /\ VersionsOf(e, id) = VersionsOf(d, id) \cup {h}
      /\ \A i : i # id => VersionsOf(e, i) = VersionsOf(d, i)
      /\ \A i : VersionsOf(d, i) \subseteq DOMAIN d.history
  BY <1>1, <1>2, WritesVersions
<1>4. \A i \in DOMAIN d.registry :
          /\ e.registry[i].erased = d.registry[i].erased
          /\ e.registry[i].created = d.registry[i].created
          /\ e.registry[i].crhistoryid = d.registry[i].crhistoryid
          /\ e.registry[i].historyid = IF i = id THEN h ELSE d.registry[i].historyid
  BY <1>1, SameObjects
<1>5. h \in Nat /\ \A k \in DOMAIN d.history : k \in Nat /\ k < h
  BY <1>1
<1>6. e.history[h].from = now /\ e.history[h].to = None /\ e.history[h].next = None
  <2>1. e.history[h] = [from |-> now, to |-> None, next |-> None]
    BY <1>1 DEF NewHead
  <2>2. QED
    BY <2>1
<1>7. \A k \in DOMAIN d.history :
          /\ e.history[k].from = d.history[k].from
          /\ k = d.registry[id].historyid => e.history[k].to = now /\ e.history[k].next = h
          /\ k # d.registry[id].historyid => e.history[k] = d.history[k]
  BY <1>1 DEF NewHead, Typed, VersionFits
<1>8. \A i, j \in DOMAIN d.registry : \A k : k \in VersionsOf(d, i) /\ k \in VersionsOf(d, j) => i = j
  BY DEF VersionsOf, VersionsFit
<1> HIDE DEF h
<1>9. ASSUME NEW i \in DOMAIN d.registry, i # id
      PROVE  ChainOf(e, i)
  <2>1. ChainOf(d, i) /\ ChainOf(d, id)
    BY <1>2 DEF Chains
  <2>2. d.registry[id].historyid \notin VersionsOf(d, i)
    BY <2>1, <1>2, <1>8, <1>9 DEF ChainOf
  <2>3. \A k \in VersionsOf(d, i) : e.history[k] = d.history[k]
    BY <2>2, <1>3, <1>7
  <2>4. VersionsOf(e, i) = VersionsOf(d, i)
    BY <1>3, <1>9
  <2>5. e.registry[i].historyid = d.registry[i].historyid
    BY <1>4, <1>9
  <2>6. QED
    BY <2>1, <2>3, <2>4, <2>5, <1>4 DEF ChainOf
<1>10. ChainOf(e, id)
  <2>1. ChainOf(d, id)
    BY <1>2 DEF Chains
  <2>2. PICK last : last = d.registry[id].historyid
    OBVIOUS
  <2>3. /\ last \in VersionsOf(d, id) /\ last \in DOMAIN d.history
        /\ \A k \in VersionsOf(d, id) : k <= last /\ k \in Nat /\ k < h
    BY <2>1, <2>2, <1>3, <1>5 DEF ChainOf
  <2>4. e.registry[id].historyid = h /\ e.registry[id].erased = None
    BY <1>2, <1>4
  <2>5. e.history[last].to = now /\ e.history[last].next = h
    BY <1>7, <2>2, <2>3
  <2>6. ASSUME NEW k \in VersionsOf(e, id), k # h
        PROVE  /\ e.history[k].next \in VersionsOf(e, id) /\ e.history[k].next > k
               /\ e.history[k].to = e.history[e.history[k].next].from
               /\ \A m \in VersionsOf(e, id) : ~(k < m /\ m < e.history[k].next)
    <3>1. k \in VersionsOf(d, id) /\ k \in DOMAIN d.history /\ k \in Nat
      BY <1>3, <1>5, <2>6
    <3>2. CASE k = last
      BY <3>1, <3>2, <2>3, <2>5, <1>3, <1>5, <1>6
    <3>3. CASE k # last
      <4>1. e.history[k] = d.history[k]
        BY <3>1, <3>3, <2>2, <1>7
      <4>2. PICK next : next = d.history[k].next
        OBVIOUS
      <4>3. /\ next \in VersionsOf(d, id) /\ next > k /\ d.history[k].to = d.history[next].from
            /\ \A m \in VersionsOf(d, id) : ~(k < m /\ m < next)
        BY <2>1, <2>2, <3>1, <3>3, <4>2 DEF ChainOf
      <4>4. e.history[next].from = d.history[next].from /\ next < h /\ next \in Nat
        BY <4>3, <1>3, <1>5, <1>7
      <4>5. \A m \in VersionsOf(e, id) : ~(k < m /\ m < next)
        BY <4>3, <4>4, <1>3, <1>5
      <4>6. QED
        BY <4>1, <4>2, <4>3, <4>4, <4>5, <1>3
    <3>4. QED
      BY <3>2, <3>3
  <2>7. \A k \in VersionsOf(e, id) : k <= h
    BY <2>3, <1>3, <1>5
  <2>8. /\ e.registry[id].crhistoryid \in VersionsOf(e, id)
        /\ e.history[e.registry[id].crhistoryid].from = e.registry[id].created
    BY <2>1, <1>2, <1>3, <1>4, <1>7 DEF ChainOf
  <2>9. QED
    BY <2>4, <2>6, <2>7, <2>8, <1>3, <1>6 DEF ChainOf
<1>11. QED
  BY <1>1, <1>9, <1>10 DEF Chains, NewHead


(* What the versions show: the new one the rows, the others what they did. *)
LEMMA KeepsShown ==
    ASSUME NEW d, NEW e, NEW id, Shape(d), VersionsFit(d), KeepsRows(d, e, id), NEW t \in Tables
    PROVE  /\ Shows(e, Len(d.history) + 1, t) = Rows(e, t, id)
           /\ \A k \in DOMAIN d.history : Shows(e, k, t) = Shows(d, k, t)
<1>1. PICK h : h = Len(d.history) + 1
  OBVIOUS
<1>2. h \notin DOMAIN d.history
  BY <1>1, ListFacts DEF Shape
<1>3. e.kept[t] = d.kept[t] \cup {[h |-> h, row |-> r] : r \in Rows(e, t, id)}
  BY <1>1 DEF KeepsRows
<1>4. \A k \in d.kept[t] : k.h # h
  BY <1>2 DEF VersionsFit
<1>5. Shows(e, h, t) = Rows(e, t, id)
  <2>1. ASSUME NEW x \in Shows(e, h, t) PROVE x \in Rows(e, t, id)
    <3>1. PICK k \in e.kept[t] : k.h = h /\ x = k.row
      BY <2>1 DEF Shows
    <3>2. k \in {[h |-> h, row |-> r] : r \in Rows(e, t, id)}
      BY <3>1, <1>3, <1>4
    <3>3. QED
      BY <3>1, <3>2
  <2>2. ASSUME NEW x \in Rows(e, t, id) PROVE x \in Shows(e, h, t)
    <3>1. PICK k : k = [h |-> h, row |-> x]
      OBVIOUS
    <3>2. k \in e.kept[t] /\ k.h = h /\ k.row = x
      BY <3>1, <1>3
    <3>3. QED
      BY <3>2 DEF Shows
  <2>3. QED
    BY <2>1, <2>2
<1>6. ASSUME NEW k \in DOMAIN d.history
      PROVE  Shows(e, k, t) = Shows(d, k, t)
  <2>1. \A x \in e.kept[t] : x.h = k => x \in d.kept[t]
    BY <1>2, <1>3, <1>6
  <2>2. d.kept[t] \subseteq e.kept[t]
    BY <1>3
  <2>3. QED
    BY <2>1, <2>2 DEF Shows
<1>7. QED
  BY <1>1, <1>5, <1>6

LEMMA WritesCurrent ==
    ASSUME NEW d, NEW e, NEW type \in Types, NEW id, NEW now, Shape(d), Typed(d),
           IsLive(d, type, id), VersionsFit(d), Chains(d), CurrentShown(d),
           Writes(d, e, type, id, now)
    PROVE  CurrentShown(e)
<1> SUFFICES ASSUME NEW i \in DOMAIN e.registry, e.registry[i].erased = None, NEW t \in Tables
             PROVE  Shows(e, e.registry[i].historyid, t) = Rows(e, t, i)
  BY DEF CurrentShown
<1>1. NewHead(d, e, id, now) /\ KeepsRows(d, e, id) /\ OthersStay(d, e, id)
  BY DEF Writes
<1>2. i \in DOMAIN d.registry
  BY <1>1 DEF NewHead
<1>3. /\ e.registry[i].erased = d.registry[i].erased
      /\ e.registry[i].historyid = IF i = id THEN Len(d.history) + 1 ELSE d.registry[i].historyid
  BY <1>1, <1>2, SameObjects
<1>4. CASE i = id
  BY <1>1, <1>3, <1>4, KeepsShown
<1>5. CASE i # id
  <2>1. d.registry[i].historyid \in DOMAIN d.history
    BY <1>2 DEF Chains, ChainOf, VersionsOf, VersionsFit, Tables
  <2>2. Shows(d, d.registry[i].historyid, t) = Rows(d, t, i)
    BY <1>2, <1>3 DEF CurrentShown
  <2>3. Rows(e, t, i) = Rows(d, t, i)
    BY <1>1, <1>5 DEF OthersStay, Rows
  <2>4. QED
    BY <1>1, <1>3, <1>5, <2>1, <2>2, <2>3, KeepsShown
<1>6. QED
  BY <1>4, <1>5

LEMMA WritesSound ==
    ASSUME NEW d, NEW e, NEW type \in Types, NEW id, NEW now \in Nat, Sound(d),
           IsLive(d, type, id), Writes(d, e, type, id, now)
    PROVE  Sound(e)
<1>1. /\ Shape(e) /\ KeepsRows(d, e, id) /\ FitRows(e, e, id) /\ NewHead(d, e, id, now)
      /\ OneRow(e, "object", id) /\ OneRow(e, type, id)
  BY DEF Writes
<1>2. Shape(d) /\ Typed(d) /\ VersionsFit(d)
  BY DEF Sound
<1>3. DOMAIN e.registry = DOMAIN d.registry
      /\ DOMAIN e.history = DOMAIN d.history \cup {Len(d.history) + 1}
  BY <1>1 DEF NewHead
<1>4. IsLive(e, type, id)
  BY <1>1, <1>2, SameObjects
<1>5. VersionsFit(e)
  BY <1>1, <1>2, <1>3, <1>4, KeptRowsFit
<1>6. QED
  BY <1>1, <1>5, WritesTyped, WritesRows, WritesChains, WritesCurrent DEF Sound

-----------------------------------------------------------------------------
(* A new object leaves the tables sound.                                   *)

LEMMA CreatesObjects ==
    ASSUME NEW d, NEW e, NEW c, NEW now, Shape(d), FirstHead(d, e, c, now)
    PROVE  /\ Len(d.registry) + 1 \notin DOMAIN d.registry
           /\ Len(d.registry) + 1 \in DOMAIN e.registry
           /\ Len(d.history) + 1 \notin DOMAIN d.history
           /\ DOMAIN d.registry = 1..Len(d.registry) /\ Len(d.registry) \in Nat
           /\ \A type, i : IsLive(e, type, i) <=>
                 \/ IsLive(d, type, i)
                 \/ i = Len(d.registry) + 1 /\ type = c.type
<1>1. PICK id : id = Len(d.registry) + 1
  OBVIOUS
<1>2. id \notin DOMAIN d.registry /\ DOMAIN e.registry = DOMAIN d.registry \cup {id}
      /\ e.registry[id].type = c.type /\ e.registry[id].erased = None
      /\ \A i \in DOMAIN d.registry : e.registry[i] = d.registry[i]
  BY <1>1, ListFacts DEF Shape, FirstHead
<1>3. \A type, i : IsLive(e, type, i) <=> IsLive(d, type, i) \/ (i = id /\ type = c.type)
  BY <1>2 DEF IsLive
<1>4. QED
  BY <1>1, <1>2, <1>3, ListFacts DEF Shape

LEMMA CreatesTyped ==
    ASSUME NEW d, NEW e, NEW c, NEW now \in Nat, Shape(d), Typed(d), c.type \in Types,
           Creates(d, e, c, now)
    PROVE  Typed(e)
<1>1. FirstHead(d, e, c, now) /\ e.states = d.states
  BY DEF Creates
<1>2. Len(d.history) + 1 \in Nat
  BY ListFacts DEF Shape
<1>3. \A i \in DOMAIN e.registry : EntryFits(e, e.registry[i])
  BY <1>1, <1>2 DEF FirstHead, Typed, EntryFits
<1>4. \A k \in DOMAIN e.history : VersionFits(e, e.history[k])
  BY <1>1, <1>2 DEF FirstHead, Typed, VersionFits
<1>5. QED
  BY <1>1, <1>3, <1>4 DEF Typed, FirstHead

LEMMA CreatesRows ==
    ASSUME NEW d, NEW e, NEW c, NEW now, Shape(d), Typed(d), c.type \in Types,
           RowsFit(d), RowsOfAll(d), NamesDiffer(d), Creates(d, e, c, now),
           ~Exists(d, c.type, c.name)
    PROVE  RowsFit(e) /\ RowsOfAll(e) /\ NamesDiffer(e)
<1>1. PICK id : id = Len(d.registry) + 1
  OBVIOUS
<1>2. /\ FirstHead(d, e, c, now) /\ OthersStay(d, e, id) /\ FitRows(e, e, id)
      /\ OneRow(e, "object", id) /\ OneRow(e, c.type, id)
  BY <1>1 DEF Creates
<1>3. /\ id \notin DOMAIN d.registry
      /\ \A ty, i : IsLive(e, ty, i) <=> IsLive(d, ty, i) \/ (i = id /\ ty = c.type)
  BY <1>1, <1>2, CreatesObjects
<1>4. RowsFit(e)
  <2> SUFFICES ASSUME NEW t \in Tables, NEW r \in e.live[t]
               PROVE  Owned(e, t, r) /\ Refers(e, t, r)
    BY DEF RowsFit
  <2>1. CASE r.id = id
    BY <2>1, <1>2 DEF FitRows
  <2>2. CASE r.id # id
    <3>1. r \in d.live[t]
      BY <2>2, <1>2 DEF OthersStay
    <3>2. Owned(d, t, r) /\ Refers(d, t, r)
      BY <3>1 DEF RowsFit
    <3>3. QED
      BY <3>2, <1>3, SameFits
  <2>3. QED
    BY <2>1, <2>2
<1>5. RowsOfAll(e)
  <2> SUFFICES ASSUME NEW ty \in Types, NEW i \in DOMAIN e.registry, IsLive(e, ty, i)
               PROVE  OneRow(e, "object", i) /\ OneRow(e, ty, i)
    BY DEF RowsOfAll
  <2>1. CASE i = id
    <3>1. ~IsLive(d, ty, id)
      BY <1>3 DEF IsLive
    <3>2. QED
      BY <2>1, <3>1, <1>2, <1>3
  <2>2. CASE i # id
    <3>1. IsLive(d, ty, i)
      BY <2>2, <1>3
    <3>2. OneRow(d, "object", i) /\ OneRow(d, ty, i)
      BY <3>1 DEF RowsOfAll, IsLive
    <3>3. "object" \in Tables /\ ty \in Tables
      BY DEF Types, Tables, ContactTables, NssetTables, KeysetTables, DomainTables
    <3>4. \A t \in Tables : Rows(e, t, i) = Rows(d, t, i)
      BY <2>2, <1>2 DEF OthersStay, Rows
    <3>5. \A t \in Tables : OneRow(d, t, i) => OneRow(e, t, i)
      BY <3>4 DEF OneRow, Rows
    <3>6. QED
      BY <3>2, <3>3, <3>5
  <2>3. QED
    BY <2>1, <2>2
<1>6. NamesDiffer(e)
  <2>1. /\ e.registry[id].name = c.name /\ DOMAIN e.registry = DOMAIN d.registry \cup {id}
        /\ \A i \in DOMAIN d.registry : e.registry[i] = d.registry[i]
    BY <1>1, <1>2 DEF FirstHead
  <2>2. \A i \in DOMAIN d.registry : IsLive(d, c.type, i) => d.registry[i].name # c.name
    BY DEF Exists, Registered, IsLive
  <2> SUFFICES ASSUME NEW ty \in Types, NEW i \in DOMAIN e.registry, NEW j \in DOMAIN e.registry,
                      IsLive(e, ty, i), IsLive(e, ty, j),
                      e.registry[i].name = e.registry[j].name
               PROVE  i = j
    BY DEF NamesDiffer
  <2>3. \A k : IsLive(d, ty, k) => k \in DOMAIN d.registry /\ k # id
    BY <1>3 DEF IsLive
  <2>4. CASE IsLive(d, ty, i) /\ IsLive(d, ty, j)
    BY <2>1, <2>3, <2>4 DEF NamesDiffer
  <2>5. CASE ~IsLive(d, ty, i) /\ ~IsLive(d, ty, j)
    BY <2>5, <1>3
  <2>6. CASE IsLive(d, ty, i) /\ ~IsLive(d, ty, j)
    BY <2>1, <2>2, <2>3, <2>6, <1>3
  <2>7. CASE ~IsLive(d, ty, i) /\ IsLive(d, ty, j)
    BY <2>1, <2>2, <2>3, <2>7, <1>3
  <2>8. QED
    BY <2>4, <2>5, <2>6, <2>7
<1>7. QED
  BY <1>4, <1>5, <1>6


LEMMA CreatesChains ==
    ASSUME NEW d, NEW e, NEW c, NEW now \in Nat, Shape(d), VersionsFit(d), Chains(d),
           Creates(d, e, c, now)
    PROVE  Chains(e)
<1>1. PICK id : id = Len(d.registry) + 1
  OBVIOUS
<1>2. PICK h : h = Len(d.history) + 1
  OBVIOUS
<1>3. /\ FirstHead(d, e, c, now) /\ KeepsRows(d, e, id) /\ OneRow(e, "object", id)
      /\ h \notin DOMAIN d.history /\ id \notin DOMAIN d.registry /\ h \in Nat
  BY <1>1, <1>2, ListFacts DEF Creates, Shape
<1>4. /\ VersionsOf(e, id) = VersionsOf(d, id) \cup {h}
      /\ \A i : i # id => VersionsOf(e, i) = VersionsOf(d, i)
      /\ \A i : VersionsOf(d, i) \subseteq DOMAIN d.history
  BY <1>2, <1>3, WritesVersions
<1>5. VersionsOf(d, id) = {}
  BY <1>3 DEF VersionsOf, VersionsFit, KeptRefers, Tables
<1>6. /\ DOMAIN e.registry = DOMAIN d.registry \cup {id}
      /\ e.registry[id] = [type |-> c.type, name |-> c.name, crid |-> c.registrar, created |-> now,
                           erased |-> None, crhistoryid |-> h, historyid |-> h]
      /\ \A i \in DOMAIN d.registry : e.registry[i] = d.registry[i]
      /\ e.history[h] = [from |-> now, to |-> None, next |-> None]
      /\ \A k \in DOMAIN d.history : e.history[k] = d.history[k]
  BY <1>1, <1>2, <1>3 DEF FirstHead
<1>7. ChainOf(e, id)
  BY <1>3, <1>4, <1>5, <1>6 DEF ChainOf
<1>8. ASSUME NEW i \in DOMAIN d.registry
      PROVE  ChainOf(e, i)
  <2>1. ChainOf(d, i)
    BY DEF Chains
  <2>2. i # id
    BY <1>3
  <2>3. VersionsOf(e, i) = VersionsOf(d, i) /\ e.registry[i] = d.registry[i]
    BY <2>2, <1>4, <1>6
  <2>4. \A k \in VersionsOf(d, i) : e.history[k] = d.history[k]
    BY <1>4, <1>6
  <2>5. QED
    BY <2>1, <2>3, <2>4 DEF ChainOf
<1>9. QED
  BY <1>6, <1>7, <1>8 DEF Chains

LEMMA CreatesCurrent ==
    ASSUME NEW d, NEW e, NEW c, NEW now \in Nat, Shape(d), VersionsFit(d), Chains(d),
           CurrentShown(d), Creates(d, e, c, now)
    PROVE  CurrentShown(e)
<1> SUFFICES ASSUME NEW i \in DOMAIN e.registry, e.registry[i].erased = None, NEW t \in Tables
             PROVE  Shows(e, e.registry[i].historyid, t) = Rows(e, t, i)
  BY DEF CurrentShown
<1>1. PICK id : id = Len(d.registry) + 1
  OBVIOUS
<1>2. FirstHead(d, e, c, now) /\ KeepsRows(d, e, id) /\ OthersStay(d, e, id)
  BY <1>1 DEF Creates
<1>3. /\ DOMAIN e.registry = DOMAIN d.registry \cup {id}
      /\ e.registry[id].historyid = Len(d.history) + 1
      /\ \A k \in DOMAIN d.registry : e.registry[k] = d.registry[k]
  BY <1>1, <1>2 DEF FirstHead
<1>4. CASE i = id
  BY <1>2, <1>3, <1>4, KeepsShown
<1>5. CASE i # id
  <2>1. i \in DOMAIN d.registry /\ e.registry[i] = d.registry[i]
    BY <1>3, <1>5
  <2>2. d.registry[i].historyid \in DOMAIN d.history
    BY <2>1 DEF Chains, ChainOf, VersionsOf, VersionsFit, Tables
  <2>3. Shows(d, d.registry[i].historyid, t) = Rows(d, t, i)
    BY <2>1 DEF CurrentShown
  <2>4. Rows(e, t, i) = Rows(d, t, i)
    BY <1>2, <1>5 DEF OthersStay, Rows
  <2>5. QED
    BY <1>2, <2>1, <2>2, <2>3, <2>4, KeepsShown
<1>6. QED
  BY <1>4, <1>5

LEMMA CreatesSound ==
    ASSUME NEW d, NEW e, NEW c, NEW now \in Nat, Sound(d), c.type \in Types,
           ~Exists(d, c.type, c.name), Creates(d, e, c, now)
    PROVE  Sound(e)
<1>1. PICK id : id = Len(d.registry) + 1
  OBVIOUS
<1>2. /\ Shape(e) /\ KeepsRows(d, e, id) /\ FitRows(e, e, id) /\ FirstHead(d, e, c, now)
      /\ OneRow(e, "object", id) /\ OneRow(e, c.type, id)
  BY <1>1 DEF Creates
<1>3. Shape(d) /\ Typed(d) /\ VersionsFit(d)
  BY DEF Sound
<1>4. DOMAIN e.registry = DOMAIN d.registry \cup {id}
      /\ DOMAIN e.history = DOMAIN d.history \cup {Len(d.history) + 1}
  BY <1>1, <1>2 DEF FirstHead
<1>5. IsLive(e, c.type, id)
  BY <1>1, <1>2, <1>3, CreatesObjects
<1>6. PICK type \in Types : type = c.type
  OBVIOUS
<1>7. VersionsFit(e)
  BY <1>2, <1>3, <1>4, <1>5, <1>6, KeptRowsFit
<1>8. QED
  BY <1>2, <1>7, CreatesTyped, CreatesRows, CreatesChains, CreatesCurrent DEF Sound

-----------------------------------------------------------------------------
(* An object to which no row refers can be erased.                         *)

Unreferred(d, id) ==
    /\ \A t \in LinkTables : \A r \in d.live[t] : r.contact # id
    /\ \A r \in d.live["domain"] : id \notin {r.registrant, r.nsset, r.keyset}

LEMMA ErasesObjects ==
    ASSUME NEW d, NEW e, NEW id, NEW now \in Nat, Typed(d), LastHead(d, e, id, now)
    PROVE  /\ \A type, i : IsLive(e, type, i) <=> IsLive(d, type, i) /\ i # id
           /\ \A i \in DOMAIN d.registry :
                 /\ e.registry[i].name = d.registry[i].name
                 /\ e.registry[i].type = d.registry[i].type
                 /\ e.registry[i].created = d.registry[i].created
                 /\ e.registry[i].crid = d.registry[i].crid
                 /\ e.registry[i].crhistoryid = d.registry[i].crhistoryid
                 /\ e.registry[i].historyid = d.registry[i].historyid
                 /\ e.registry[i].erased = IF i = id THEN now ELSE d.registry[i].erased
<1>1. now # None
  BY NullIsNoTime
<1>2. DOMAIN e.registry = DOMAIN d.registry
  BY DEF LastHead
<1>3. ASSUME NEW i \in DOMAIN d.registry
      PROVE  /\ e.registry[i].name = d.registry[i].name
             /\ e.registry[i].type = d.registry[i].type
             /\ e.registry[i].created = d.registry[i].created
             /\ e.registry[i].crid = d.registry[i].crid
             /\ e.registry[i].crhistoryid = d.registry[i].crhistoryid
             /\ e.registry[i].historyid = d.registry[i].historyid
             /\ e.registry[i].erased = IF i = id THEN now ELSE d.registry[i].erased
  BY DEF Typed, EntryFits, LastHead
<1>4. \A ty, i : IsLive(e, ty, i) <=> IsLive(d, ty, i) /\ i # id
  BY <1>1, <1>2, <1>3 DEF IsLive
<1>5. QED
  BY <1>3, <1>4

LEMMA ErasesSound ==
    ASSUME NEW d, NEW e, NEW type, NEW id, NEW now \in Nat, Sound(d), IsLive(d, type, id),
           type # "domain" => Unreferred(d, id), Erases(d, e, id, now)
    PROVE  Sound(e)
<1>1. /\ Shape(e) /\ LastHead(d, e, id, now) /\ e.kept = d.kept /\ e.states = d.states
      /\ \A t \in Tables : e.live[t] = {r \in d.live[t] : r.id # id}
  BY DEF Erases
<1>2. /\ Shape(d) /\ Typed(d) /\ RowsFit(d) /\ RowsOfAll(d) /\ NamesDiffer(d)
      /\ VersionsFit(d) /\ Chains(d) /\ CurrentShown(d)
  BY DEF Sound
<1>3. \A ty, i : IsLive(e, ty, i) <=> IsLive(d, ty, i) /\ i # id
  BY <1>1, <1>2, ErasesObjects
<1>4. \A i \in DOMAIN d.registry :
         /\ e.registry[i].name = d.registry[i].name
         /\ e.registry[i].type = d.registry[i].type
         /\ e.registry[i].created = d.registry[i].created
         /\ e.registry[i].crhistoryid = d.registry[i].crhistoryid
         /\ e.registry[i].historyid = d.registry[i].historyid
         /\ e.registry[i].erased = IF i = id THEN now ELSE d.registry[i].erased
  BY <1>1, <1>2, ErasesObjects
<1>5. DOMAIN e.registry = DOMAIN d.registry /\ DOMAIN e.history = DOMAIN d.history
      /\ id \in DOMAIN d.registry /\ d.registry[id].erased = None
  BY <1>1 DEF LastHead, IsLive
<1>6. Typed(e)
  <2>1. ASSUME NEW i \in DOMAIN e.registry
        PROVE  EntryFits(e, e.registry[i])
    <3>1. PICK r : r = d.registry[i]
      OBVIOUS
    <3>2. EntryFits(d, r)
      BY <1>2, <1>5, <2>1, <3>1 DEF Typed
    <3>3. e.registry[i] = IF i = id THEN [r EXCEPT !.erased = now] ELSE r
      BY <1>1, <1>5, <2>1, <3>1 DEF LastHead
    <3>4. QED
      BY <3>2, <3>3 DEF EntryFits
  <2>2. ASSUME NEW k \in DOMAIN e.history
        PROVE  VersionFits(e, e.history[k])
    <3>1. PICK v : v = d.history[k]
      OBVIOUS
    <3>2. VersionFits(d, v)
      BY <1>2, <1>5, <2>2, <3>1 DEF Typed
    <3>3. e.history[k] = v \/ e.history[k] = [v EXCEPT !.to = now, !.next = None]
      BY <1>1, <1>5, <2>2, <3>1 DEF LastHead
    <3>4. QED
      BY <3>2, <3>3 DEF VersionFits
  <2>3. QED
    BY <2>1, <2>2, <1>1, <1>2, <1>5 DEF Typed
<1>7. RowsFit(e)
  <2> SUFFICES ASSUME NEW t \in Tables, NEW r \in e.live[t]
               PROVE  Owned(e, t, r) /\ Refers(e, t, r)
    BY DEF RowsFit
  <2>1. r \in d.live[t] /\ r.id # id
    BY <1>1
  <2>2. Owned(d, t, r) /\ Refers(d, t, r)
    BY <2>1, <1>2 DEF RowsFit
  <2>3. Owned(e, t, r)
    BY <2>1, <2>2, <1>3 DEF Owned
  <2>4. CASE type = "domain"
    <3>1. \A ty, i : ty # "domain" => (IsLive(e, ty, i) <=> IsLive(d, ty, i))
      BY <2>4, <1>3 DEF IsLive
    <3>2. QED
      BY <2>2, <2>3, <3>1 DEF Refers
  <2>5. CASE type # "domain"
    <3>1. /\ t \in LinkTables => r.contact # id
          /\ t = "domain" => r.registrant # id /\ r.nsset # id /\ r.keyset # id
      BY <2>1, <2>5 DEF Unreferred
    <3>2. QED
      BY <2>2, <2>3, <3>1, <1>3 DEF Refers
  <2>6. QED
    BY <2>4, <2>5
<1>8. RowsOfAll(e)
  <2> SUFFICES ASSUME NEW ty \in Types, NEW i \in DOMAIN e.registry, IsLive(e, ty, i)
               PROVE  OneRow(e, "object", i) /\ OneRow(e, ty, i)
    BY DEF RowsOfAll
  <2>1. IsLive(d, ty, i) /\ i # id
    BY <1>3
  <2>2. OneRow(d, "object", i) /\ OneRow(d, ty, i)
    BY <2>1, <1>2, <1>5 DEF RowsOfAll
  <2>3. "object" \in Tables /\ ty \in Tables
    BY DEF Types, Tables, ContactTables, NssetTables, KeysetTables, DomainTables
  <2>4. \A t \in Tables : Rows(e, t, i) = Rows(d, t, i)
    BY <2>1, <1>1 DEF Rows
  <2>5. \A t \in Tables : OneRow(d, t, i) => OneRow(e, t, i)
    BY <2>4 DEF OneRow, Rows
  <2>6. QED
    BY <2>2, <2>3, <2>5
<1>9. NamesDiffer(e)
  BY <1>2, <1>3, <1>4, <1>5 DEF NamesDiffer
<1>10. VersionsFit(e)
  BY <1>1, <1>2, <1>5 DEF VersionsFit, KeptRefers
<1>11. \A i : VersionsOf(e, i) = VersionsOf(d, i) /\ VersionsOf(d, i) \subseteq DOMAIN d.history
  BY <1>1, <1>2 DEF VersionsOf, VersionsFit, Tables
<1>12. \A k \in DOMAIN d.history :
          /\ e.history[k].from = d.history[k].from
          /\ k = d.registry[id].historyid => e.history[k].to = now /\ e.history[k].next = None
          /\ k # d.registry[id].historyid => e.history[k] = d.history[k]
  BY <1>1, <1>2 DEF LastHead, Typed, VersionFits
<1>13. Chains(e)
  <2> SUFFICES ASSUME NEW i \in DOMAIN d.registry PROVE ChainOf(e, i)
    BY <1>5 DEF Chains
  <2>1. ChainOf(d, i) /\ ChainOf(d, id)
    BY <1>2, <1>5 DEF Chains
  <2>2. CASE i = id
    <3>1. \A k \in VersionsOf(d, id) : k # d.registry[id].historyid => e.history[k] = d.history[k]
      BY <1>11, <1>12
    <3>2. \A k \in VersionsOf(d, id) : e.history[k].from = d.history[k].from
      BY <1>11, <1>12
    <3>3. PICK r : r = d.registry[id]
      OBVIOUS
    <3>4. /\ e.registry[id].crhistoryid = r.crhistoryid /\ e.registry[id].historyid = r.historyid
          /\ e.registry[id].created = r.created /\ e.registry[id].erased = now
      BY <3>3, <1>4, <1>5
    <3>5. /\ r.crhistoryid \in VersionsOf(d, id) /\ r.historyid \in VersionsOf(d, id)
          /\ d.history[r.crhistoryid].from = r.created
      BY <2>1, <3>3 DEF ChainOf
    <3>6. e.history[r.historyid].next = None /\ e.history[r.historyid].to = now
      BY <3>3, <3>5, <1>11, <1>12
    <3>7. \A k \in VersionsOf(d, id) :
             /\ k <= r.historyid
             /\ k # r.historyid =>
                   /\ d.history[k].next \in VersionsOf(d, id) /\ d.history[k].next > k
                   /\ d.history[k].to = d.history[d.history[k].next].from
                   /\ \A j \in VersionsOf(d, id) : ~(k < j /\ j < d.history[k].next)
      BY <2>1, <3>3 DEF ChainOf
    <3>8. ASSUME NEW k \in VersionsOf(e, id)
          PROVE  /\ k <= r.historyid
                 /\ k = r.historyid => e.history[k].next = None /\ e.history[k].to = now
                 /\ k # r.historyid =>
                       /\ e.history[k].next \in VersionsOf(e, id) /\ e.history[k].next > k
                       /\ e.history[k].to = e.history[e.history[k].next].from
                       /\ \A j \in VersionsOf(e, id) : ~(k < j /\ j < e.history[k].next)
      <4>1. k \in VersionsOf(d, id) /\ VersionsOf(e, id) = VersionsOf(d, id)
        BY <1>11
      <4>2. k # r.historyid => e.history[k] = d.history[k]
        BY <3>1, <3>3, <4>1
      <4>3. k # r.historyid => e.history[d.history[k].next].from = d.history[d.history[k].next].from
        BY <3>2, <3>7, <4>1
      <4>4. QED
        BY <3>6, <3>7, <4>1, <4>2, <4>3
    <3>9. r.crhistoryid \in VersionsOf(e, id) /\ r.historyid \in VersionsOf(e, id)
          /\ e.history[r.crhistoryid].from = r.created
      BY <3>2, <3>5, <1>11
    <3>10. QED
      BY <2>2, <3>4, <3>8, <3>9 DEF ChainOf
  <2>3. CASE i # id
    <3>1. \A k : k \in VersionsOf(d, i) /\ k \in VersionsOf(d, id) => i = id
      BY <1>2 DEF VersionsOf, VersionsFit
    <3>2. \A k \in VersionsOf(d, i) : e.history[k] = d.history[k]
      BY <2>1, <2>3, <3>1, <1>11, <1>12 DEF ChainOf
    <3>3. QED
      BY <2>1, <2>3, <3>2, <1>4, <1>11 DEF ChainOf
  <2>4. QED
    BY <2>2, <2>3
<1>14. CurrentShown(e)
  <2> SUFFICES ASSUME NEW i \in DOMAIN d.registry, e.registry[i].erased = None, NEW t \in Tables
               PROVE  Shows(e, e.registry[i].historyid, t) = Rows(e, t, i)
    BY <1>5 DEF CurrentShown
  <2>1. i # id /\ d.registry[i].erased = None
    BY <1>4, NullIsNoTime
  <2>2. Rows(e, t, i) = Rows(d, t, i)
    BY <2>1, <1>1 DEF Rows
  <2>3. \A k : Shows(e, k, t) = Shows(d, k, t)
    BY <1>1 DEF Shows
  <2>4. QED
    BY <2>1, <2>2, <2>3, <1>2, <1>4 DEF CurrentShown
<1>15. QED
  BY <1>1, <1>6, <1>7, <1>8, <1>9, <1>10, <1>13, <1>14 DEF Sound

-----------------------------------------------------------------------------
(* The parts that the operations are made of                               *)

(* One table of the rows is changed.                                       *)
Puts(d, e, t, X) ==
    /\ Shape(e)
    /\ e.registry = d.registry /\ e.history = d.history /\ e.kept = d.kept
    /\ e.states = d.states /\ e.merged = d.merged
    /\ e.live[t] = X /\ \A u \in Tables \ {t} : e.live[u] = d.live[u]

LEMMA PutsTable ==
    ASSUME NEW d, Shape(d), NEW t \in Tables, NEW X
    PROVE  Puts(d, [d EXCEPT !.live[t] = X], t, X)
  BY DEF Shape, Puts

(* A version of the object has been begun: its row of object is kept.      *)
Begun(d, e, id) ==
    LET h == Len(d.history) + 1 IN
    /\ Shape(e) /\ OthersStay(d, e, id) /\ FitRows(e, e, id) /\ OneRow(e, "object", id)
    /\ e.registry[id].historyid = h
    /\ e.kept["object"] = d.kept["object"] \cup {[h |-> h, row |-> r] : r \in Rows(e, "object", id)}
    /\ \A t \in Tables \ {"object"} : e.kept[t] = d.kept[t] /\ e.live[t] = d.live[t]
    /\ e.states = d.states /\ e.merged = d.merged

(* Rows that the object has in some tables have been edited.               *)
Edits(d, e, id, tables) ==
    /\ Shape(e)
    /\ e.registry = d.registry /\ e.history = d.history /\ e.kept = d.kept
    /\ e.states \subseteq d.states /\ e.merged = d.merged
    /\ \A t \in Tables \ tables : e.live[t] = d.live[t]
    /\ OthersStay(d, e, id) /\ FitRows(d, e, id)

LEMMA EditsBegin ==
    ASSUME NEW d, NEW e, NEW id, NEW tables, Begun(d, e, id)
    PROVE  Edits(e, e, id, tables)
  BY DEF Begun, Edits, OthersStay

LEMMA EditsPut ==
    ASSUME NEW d, NEW e, NEW f, NEW id, NEW tables \in SUBSET Tables, Edits(d, e, id, tables),
           NEW t \in tables, NEW X, Puts(e, f, t, X),
           \A r \in X \cup e.live[t] : r.id # id => (r \in X <=> r \in e.live[t]),
           \A r \in X : r.id = id => Owned(d, t, r) /\ Refers(d, t, r)
    PROVE  Edits(d, f, id, tables)
<1>1. Shape(f) /\ f.registry = d.registry /\ f.history = d.history /\ f.kept = d.kept
      /\ f.states \subseteq d.states /\ f.merged = d.merged
  BY DEF Edits, Puts
<1>2. t \in Tables /\ f.live[t] = X /\ \A u \in Tables \ {t} : f.live[u] = e.live[u]
  BY DEF Puts
<1>3. \A u \in Tables \ tables : f.live[u] = d.live[u]
  BY <1>2 DEF Edits
<1>4. OthersStay(d, f, id)
  <2> SUFFICES ASSUME NEW u \in Tables, NEW r \in d.live[u] \cup f.live[u], r.id # id
               PROVE  r \in d.live[u] <=> r \in f.live[u]
    BY DEF OthersStay
  <2>1. r \in d.live[u] \cup e.live[u] => (r \in d.live[u] <=> r \in e.live[u])
    BY DEF Edits, OthersStay
  <2>2. QED
    BY <2>1, <1>2
<1>5. FitRows(d, f, id)
  BY <1>2 DEF Edits, FitRows
<1>6. QED
  BY <1>1, <1>3, <1>4, <1>5 DEF Edits

(* Rows are inserted.                                                      *)
LEMMA EditsWith ==
    ASSUME NEW d, NEW e, NEW id, NEW tables \in SUBSET Tables, Edits(d, e, id, tables),
           NEW t \in tables, NEW rows,
           \A r \in rows : r.id = id /\ Owned(d, t, r) /\ Refers(d, t, r)
    PROVE  /\ Edits(d, With(e, t, rows), id, tables)
           /\ Puts(e, With(e, t, rows), t, e.live[t] \cup rows)
<1>1. Shape(e) /\ t \in Tables
  BY DEF Edits
<1>2. Puts(e, With(e, t, rows), t, e.live[t] \cup rows)
  BY <1>1, PutsTable DEF With
<1>3. \A r \in e.live[t] \cup rows : r.id = id => Owned(d, t, r) /\ Refers(d, t, r)
  BY <1>1 DEF Edits, FitRows
<1>4. QED
  BY <1>2, <1>3, EditsPut

(* Rows of the object are deleted.                                         *)
LEMMA EditsLess ==
    ASSUME NEW d, NEW e, NEW id, NEW tables \in SUBSET Tables, Edits(d, e, id, tables),
           NEW t \in tables, NEW X \in SUBSET e.live[t], \A r \in e.live[t] : r.id # id => r \in X
    PROVE  /\ Edits(d, [e EXCEPT !.live[t] = X], id, tables)
           /\ Puts(e, [e EXCEPT !.live[t] = X], t, X)
<1>1. Shape(e) /\ t \in Tables
  BY DEF Edits
<1>2. PICK f : f = [e EXCEPT !.live[t] = X]
  OBVIOUS
<1>3. Puts(e, f, t, X)
  BY <1>1, <1>2, PutsTable
<1>4. \A r \in X : r.id = id => Owned(d, t, r) /\ Refers(d, t, r)
  BY <1>1 DEF Edits, FitRows
<1>5. QED
  BY <1>2, <1>3, <1>4, EditsPut

(* What is copied to the tables of versions at the end                     *)
Ends(d, e, f, id) ==
    /\ Shape(f) /\ KeepsRows(d, f, id) /\ OthersStay(d, f, id) /\ FitRows(f, f, id)
    /\ f.registry = e.registry /\ f.history = e.history /\ f.live = e.live
    /\ f.states = e.states /\ f.merged = e.merged

LEMMA CopiedEnds ==
    ASSUME NEW d, NEW b, NEW e, NEW type \in Types, NEW id,
           Begun(d, b, id), IsLive(b, type, id), Edits(b, e, id, TablesOf(type))
    PROVE  Ends(d, e, Copied(e, id, TablesOf(type)), id)
<1> DEFINE tables == TablesOf(type)
<1>1. PICK h : h = Len(d.history) + 1
  OBVIOUS
<1>2. PICK f : f = Copied(e, id, tables)
  OBVIOUS
<1>3. tables \subseteq Tables /\ "object" \notin tables /\ "object" \in Tables
  BY DEF Types, TablesOf, Tables, ContactTables, NssetTables, KeysetTables, DomainTables
<1>4. Shape(e) /\ e.registry[id].historyid = h /\ e.registry = b.registry /\ e.kept = b.kept
  BY <1>1 DEF Edits, Begun
<1> HIDE DEF tables
<1>5. /\ Shape(f) /\ f.registry = e.registry /\ f.history = e.history /\ f.live = e.live
      /\ f.states = e.states /\ f.merged = e.merged
      /\ \A t \in Tables : f.kept[t] = IF t \in tables
            THEN e.kept[t] \cup {[h |-> h, row |-> r] : r \in Rows(e, t, id)} ELSE e.kept[t]
  BY <1>2, <1>4 DEF Copied, Shape
<1>6. \A ty, i : IsLive(f, ty, i) <=> IsLive(b, ty, i)
  BY <1>4, <1>5 DEF IsLive
<1>7. FitRows(f, f, id)
  <2> SUFFICES ASSUME NEW t \in Tables, NEW r \in f.live[t], r.id = id
               PROVE  Owned(f, t, r) /\ Refers(f, t, r)
    BY DEF FitRows
  <2>1. Owned(b, t, r) /\ Refers(b, t, r)
    BY <1>5 DEF Edits, FitRows
  <2>2. QED
    BY <2>1, <1>6, SameFits
<1>8. OthersStay(d, f, id)
  BY <1>5 DEF Edits, Begun, OthersStay
<1>9. KeepsRows(d, f, id)
  <2> SUFFICES ASSUME NEW t \in Tables
               PROVE  f.kept[t] = d.kept[t] \cup {[h |-> h, row |-> r] : r \in Rows(f, t, id)}
    BY <1>1 DEF KeepsRows
  <2>1. Rows(f, t, id) = Rows(e, t, id)
    BY <1>5 DEF Rows
  <2>2. CASE t \in tables
    <3>1. b.kept[t] = d.kept[t]
      BY <2>2, <1>3 DEF Begun
    <3>2. QED
      BY <2>1, <2>2, <3>1, <1>4, <1>5
  <2>3. CASE t = "object"
    <3>1. b.kept[t] = d.kept[t] \cup {[h |-> h, row |-> r] : r \in Rows(b, t, id)}
      BY <2>3, <1>1 DEF Begun
    <3>2. Rows(e, t, id) = Rows(b, t, id)
      BY <2>3, <1>3 DEF Edits, Rows, tables
    <3>3. QED
      BY <2>1, <2>3, <3>1, <3>2, <1>3, <1>4, <1>5
  <2>4. CASE t \notin tables \cup {"object"}
    <3>1. b.kept[t] = d.kept[t]
      BY <2>4 DEF Begun
    <3>2. \A r \in Rows(f, t, id) : Owned(f, t, r) /\ r.id = id
      BY <1>7 DEF FitRows, Rows
    <3>3. \A ty : IsLive(f, ty, id) => ty = type
      BY <1>6 DEF IsLive
    <3>4. Rows(f, t, id) = {}
      BY <2>4, <3>2, <3>3 DEF Owned, tables
    <3>5. QED
      BY <2>4, <3>1, <3>4, <1>4, <1>5
  <2>5. QED
    BY <2>2, <2>3, <2>4
<1>10. QED
  BY <1>2, <1>5, <1>7, <1>8, <1>9 DEF Ends, tables


(* The rows of the object in the tables but that of object fit still.      *)
LEMMA NewVersionBegins ==
    ASSUME NEW d, NEW b, NEW type \in Types, NEW id, NEW now \in Nat, Sound(d),
           IsLive(d, type, id), NEW X, Puts(d, b, "object", X),
           \A r \in X \cup d.live["object"] : r.id # id => (r \in X <=> r \in d.live["object"]),
           NEW o \in X, {r \in X : r.id = id} = {o}, {"id", "clid", "upid"} \subseteq DOMAIN o
    PROVE  /\ Begun(d, NewVersion(b, id, now), id) /\ NewHead(d, NewVersion(b, id, now), id, now)
           /\ IsLive(NewVersion(b, id, now), type, id)
           /\ NewVersion(b, id, now).live = b.live
<1>1. PICK h : h = Len(d.history) + 1
  OBVIOUS
<1>2. /\ Shape(d) /\ Shape(b) /\ Typed(d) /\ RowsFit(d) /\ Chains(d) /\ VersionsFit(d)
      /\ b.registry = d.registry /\ b.history = d.history /\ b.kept = d.kept
      /\ b.states = d.states /\ b.merged = d.merged
      /\ b.live["object"] = X /\ \A u \in Tables \ {"object"} : b.live[u] = d.live[u]
  BY DEF Sound, Puts
<1>3. id \in DOMAIN d.registry /\ "object" \in Tables /\ h \notin DOMAIN d.history
      /\ d.registry[id].historyid \in DOMAIN d.history
  <2>1. id \in DOMAIN d.registry /\ "object" \in Tables
    BY DEF IsLive, Tables
  <2>2. d.registry[id].historyid \in VersionsOf(d, id)
    BY <2>1, <1>2 DEF Chains, ChainOf
  <2>3. QED
    BY <2>1, <2>2, <1>1, <1>2, ListFacts DEF VersionsOf, VersionsFit, Shape
<1>4. PICK v : v = [from |-> now, to |-> None, next |-> None]
  OBVIOUS
<1>5. PICK history : history = Append(d.history, v)
  OBVIOUS
<1>6. /\ IsList(history) /\ DOMAIN history = DOMAIN d.history \cup {h} /\ history[h] = v
      /\ \A k \in DOMAIN d.history : history[k] = d.history[k]
  BY <1>1, <1>2, <1>5, AppendToList DEF Shape
<1>7. PICK i : i = InsertHistory(b, id, now)
  OBVIOUS
<1>8. Rows(b, "object", id) = {o}
  BY <1>2 DEF Rows
<1>9. /\ DOMAIN i = DOMAIN b /\ i.history = history /\ i.registry = d.registry
      /\ i.live = b.live /\ i.states = d.states /\ i.merged = d.merged
      /\ DOMAIN i.kept = Tables /\ i.kept["object"] = d.kept["object"] \cup {[h |-> h, row |-> o]}
      /\ \A t \in Tables \ {"object"} : i.kept[t] = d.kept[t]
  BY <1>1, <1>2, <1>3, <1>4, <1>5, <1>7, <1>8 DEF InsertHistory, Shape
<1>10. PICK hid : hid = d.registry[id].historyid
  OBVIOUS
<1>11. PICK closed : closed = [k \in DOMAIN history |->
          IF k = hid THEN [history[k] EXCEPT !.to = now, !.next = h] ELSE history[k]]
  OBVIOUS
<1>12. PICK x : x = Closed(i, id, now, h)
  OBVIOUS
<1>13. /\ DOMAIN x = DOMAIN b /\ x.history = closed /\ x.registry = d.registry
       /\ x.live = b.live /\ x.states = d.states /\ x.merged = d.merged /\ x.kept = i.kept
  BY <1>2, <1>9, <1>10, <1>11, <1>12 DEF Closed, Shape
<1>14. PICK n : n = NewVersion(b, id, now)
  OBVIOUS
<1>15. n = [x EXCEPT !.registry[id].historyid = h]
  BY <1>1, <1>2, <1>7, <1>12, <1>14 DEF NewVersion
<1>16. /\ DOMAIN n = DOMAIN b /\ n.history = closed
       /\ n.registry = [d.registry EXCEPT ![id] = [d.registry[id] EXCEPT !.historyid = h]]
       /\ n.live = b.live /\ n.states = d.states /\ n.merged = d.merged /\ n.kept = i.kept
  BY <1>2, <1>13, <1>15 DEF Shape
<1>17. IsList(closed)
  <2>1. DOMAIN history = 1..Len(history) /\ Len(history) \in Nat
    BY <1>6, ListFacts
  <2>2. closed = [k \in 1..Len(history) |-> closed[k]]
    BY <2>1, <1>11
  <2>3. QED
    BY <2>1, <2>2, IntervalIsList
<1>18. IsList(n.registry) /\ DOMAIN n.registry = DOMAIN d.registry
  BY <1>2, <1>3, <1>16, ChangeInList DEF Shape
<1>19. Shape(n)
  BY <1>2, <1>9, <1>16, <1>17, <1>18 DEF Shape
<1>20. NewHead(d, n, id, now)
  <2>1. DOMAIN n.history = DOMAIN d.history \cup {h} /\ n.history[h] = v
    <3>1. h \in DOMAIN history /\ h # hid
      BY <1>3, <1>6, <1>10
    <3>2. DOMAIN closed = DOMAIN history /\ closed[h] = history[h]
      BY <3>1, <1>11
    <3>3. QED
      BY <3>2, <1>6, <1>16
  <2>2. \A k \in DOMAIN d.history :
          n.history[k] = IF k = hid THEN [d.history[k] EXCEPT !.to = now, !.next = h]
                         ELSE d.history[k]
    <3> SUFFICES ASSUME NEW k \in DOMAIN d.history
                 PROVE  n.history[k] = IF k = hid THEN [d.history[k] EXCEPT !.to = now, !.next = h]
                                       ELSE d.history[k]
      OBVIOUS
    <3>1. k \in DOMAIN history /\ history[k] = d.history[k]
      BY <1>6
    <3>2. closed[k] = IF k = hid THEN [history[k] EXCEPT !.to = now, !.next = h] ELSE history[k]
      BY <3>1, <1>11
    <3>3. QED
      BY <3>1, <3>2, <1>16
  <2>3. \A k \in DOMAIN d.registry :
          n.registry[k] = IF k = id THEN [d.registry[k] EXCEPT !.historyid = h] ELSE d.registry[k]
    BY <1>16
  <2>4. QED
    BY <2>1, <2>2, <2>3, <1>1, <1>4, <1>10, <1>18 DEF NewHead
<1>21. \A ty, k : IsLive(n, ty, k) <=> IsLive(d, ty, k)
  BY <1>2, <1>20, SameObjects
<1>22. /\ n.registry[id].historyid = h /\ \A t \in Tables \ {"object"} : n.kept[t] = d.kept[t] /\ n.live[t] = d.live[t]
       /\ n.states = d.states /\ n.merged = d.merged /\ n.live["object"] = X
  <2>1. n.registry[id].historyid = h
    BY <1>2, <1>3, <1>20, <1>1, SameObjects
  <2>2. QED
    BY <2>1, <1>2, <1>9, <1>16
<1>23. OthersStay(d, n, id)
  BY <1>2, <1>16 DEF OthersStay
<1>24. Rows(n, "object", id) = {o} /\ o \in n.live["object"]
  BY <1>22 DEF Rows
<1>25. FitRows(n, n, id)
  <2> SUFFICES ASSUME NEW t \in Tables, NEW r \in n.live[t], r.id = id
               PROVE  Owned(n, t, r) /\ Refers(n, t, r)
    BY DEF FitRows
  <2>1. CASE t = "object"
    <3>1. r = o
      BY <2>1, <1>24 DEF Rows
    <3>2. Owned(n, t, r)
      BY <2>1, <3>1, <1>21 DEF Owned
    <3>3. Refers(n, t, r)
      BY <2>1, <3>1 DEF Refers, LinkTables
    <3>4. QED
      BY <3>2, <3>3
  <2>2. CASE t # "object"
    <3>1. r \in d.live[t]
      BY <2>2, <1>22
    <3>2. Owned(d, t, r) /\ Refers(d, t, r)
      BY <3>1, <1>2 DEF RowsFit
    <3>3. QED
      BY <3>2, <1>21, SameFits
  <2>3. QED
    BY <2>1, <2>2
<1>26. n.kept["object"] = d.kept["object"] \cup {[h |-> h, row |-> r] : r \in Rows(n, "object", id)}
  BY <1>9, <1>16, <1>24
<1>27. Begun(d, n, id)
  BY <1>1, <1>19, <1>22, <1>23, <1>24, <1>25, <1>26 DEF Begun, OneRow
<1>28. QED
  BY <1>14, <1>16, <1>20, <1>21, <1>27

(* A row of each object is altered in a way that leaves it its id.         *)
LEMMA AlteredObject ==
    ASSUME NEW d, NEW type \in Types, NEW id, Sound(d), IsLive(d, type, id)
    PROVE  \E o \in d.live["object"] :
              /\ o.id = id /\ {"id", "clid", "upid"} \subseteq DOMAIN o
              /\ Rows(d, "object", id) = {o}
<1>1. OneRow(d, "object", id)
  BY DEF Sound, RowsOfAll, IsLive
<1>2. PICK o \in d.live["object"] : Rows(d, "object", id) = {o}
  BY <1>1 DEF OneRow
<1>3. o.id = id /\ Owned(d, "object", o) /\ Refers(d, "object", o)
  BY <1>2 DEF Rows, Sound, RowsFit, Tables
<1>4. QED
  BY <1>2, <1>3 DEF Owned, Refers

LEMMA UpdateObjectBegins ==
    ASSUME NEW d, NEW type \in Types, NEW id, NEW c, NEW now \in Nat, Sound(d),
           IsLive(d, type, id)
    PROVE  /\ Begun(d, UpdateObject(d, id, c, now), id)
           /\ NewHead(d, UpdateObject(d, id, c, now), id, now)
           /\ IsLive(UpdateObject(d, id, c, now), type, id)
           /\ \A o \in Rows(d, "object", id), q \in Rows(UpdateObject(d, id, c, now), "object", id) :
                 q.clid = o.clid /\ q.upid = c.registrar
<1>1. PICK o \in d.live["object"] :
         o.id = id /\ {"id", "clid", "upid"} \subseteq DOMAIN o /\ Rows(d, "object", id) = {o}
  BY AlteredObject
<1>2. PICK p : p = [o EXCEPT !.upid = c.registrar, !.update = now]
  OBVIOUS
<1>3. PICK X : X = {IF r.id = id THEN [r EXCEPT !.upid = c.registrar, !.update = now] ELSE r :
                    r \in d.live["object"]}
  OBVIOUS
<1>4. p.id = id /\ {"id", "clid", "upid"} \subseteq DOMAIN p
  BY <1>1, <1>2
<1>5. \A r \in d.live["object"] : r.id = id => r = o
  BY <1>1 DEF Rows
<1>6. X = {IF r.id = id THEN p ELSE r : r \in d.live["object"]}
  BY <1>2, <1>3, <1>5
<1>7. p \in X /\ {r \in X : r.id = id} = {p}
  BY <1>1, <1>4, <1>6
<1>8. \A r \in X \cup d.live["object"] : r.id # id => (r \in X <=> r \in d.live["object"])
  BY <1>4, <1>6
<1>9. PICK b : b = [d EXCEPT !.live["object"] = X]
  OBVIOUS
<1>10. Puts(d, b, "object", X)
  BY <1>9, PutsTable DEF Sound, Tables
<1>11. UpdateObject(d, id, c, now) = NewVersion(b, id, now)
  BY <1>3, <1>9 DEF UpdateObject, Alter
<1>12. /\ Begun(d, NewVersion(b, id, now), id) /\ NewHead(d, NewVersion(b, id, now), id, now)
       /\ IsLive(NewVersion(b, id, now), type, id) /\ NewVersion(b, id, now).live = b.live
  BY <1>4, <1>7, <1>8, <1>10, NewVersionBegins, SMTT(60)
<1>13. Rows(UpdateObject(d, id, c, now), "object", id) = {p}
  BY <1>7, <1>10, <1>11, <1>12 DEF Rows, Puts
<1>14. p.clid = o.clid /\ p.upid = c.registrar
  BY <1>1, <1>2
<1>15. QED
  BY <1>1, <1>11, <1>12, <1>13, <1>14

LEMMA TransferredBegins ==
    ASSUME NEW d, NEW c, NEW id, NEW now \in Nat, Sound(d), c.type \in Types,
           id = IdOf(d, c.type, c.name), IsLive(d, c.type, id)
    PROVE  /\ Begun(d, Transferred(d, c, now), id)
           /\ NewHead(d, Transferred(d, c, now), id, now)
           /\ IsLive(Transferred(d, c, now), c.type, id)
<1>0. PICK type \in Types : type = c.type
  OBVIOUS
<1>1. PICK o \in d.live["object"] :
         o.id = id /\ {"id", "clid", "upid"} \subseteq DOMAIN o /\ Rows(d, "object", id) = {o}
  BY <1>0, AlteredObject
<1>2. PICK p : p = [o EXCEPT !.clid = c.registrar, !.trdate = now]
  OBVIOUS
<1>3. PICK X : X = {IF r.id = id THEN [r EXCEPT !.clid = c.registrar, !.trdate = now] ELSE r :
                    r \in d.live["object"]}
  OBVIOUS
<1>4. p.id = id /\ {"id", "clid", "upid"} \subseteq DOMAIN p
  BY <1>1, <1>2
<1>5. \A r \in d.live["object"] : r.id = id => r = o
  BY <1>1 DEF Rows
<1>6. X = {IF r.id = id THEN p ELSE r : r \in d.live["object"]}
  BY <1>2, <1>3, <1>5
<1>7. p \in X /\ {r \in X : r.id = id} = {p}
  BY <1>1, <1>4, <1>6
<1>8. \A r \in X \cup d.live["object"] : r.id # id => (r \in X <=> r \in d.live["object"])
  BY <1>4, <1>6
<1>9. PICK b : b = [d EXCEPT !.live["object"] = X]
  OBVIOUS
<1>10. Puts(d, b, "object", X)
  BY <1>9, PutsTable DEF Sound, Tables
<1>11. Transferred(d, c, now) = NewVersion(b, id, now)
  BY <1>3, <1>9 DEF Transferred, Alter
<1>12. IsLive(d, type, id)
  BY <1>0
<1>13. /\ Begun(d, NewVersion(b, id, now), id) /\ NewHead(d, NewVersion(b, id, now), id, now)
       /\ IsLive(NewVersion(b, id, now), type, id)
  BY <1>4, <1>7, <1>8, <1>10, <1>12, NewVersionBegins
<1>14. QED
  BY <1>0, <1>11, <1>13

(* A renewal begins a version and leaves the row of object as it is.       *)
LEMMA RenewalBegins ==
    ASSUME NEW d, NEW type \in Types, NEW id, NEW now \in Nat, Sound(d), IsLive(d, type, id)
    PROVE  /\ Begun(d, NewVersion(d, id, now), id) /\ NewHead(d, NewVersion(d, id, now), id, now)
           /\ IsLive(NewVersion(d, id, now), type, id)
<1>1. PICK o \in d.live["object"] :
         o.id = id /\ {"id", "clid", "upid"} \subseteq DOMAIN o /\ Rows(d, "object", id) = {o}
  BY AlteredObject
<1>2. PICK X : X = d.live["object"]
  OBVIOUS
<1>3. Puts(d, d, "object", X)
  BY <1>2 DEF Puts, Sound
<1>4. o \in X /\ {r \in X : r.id = id} = {o}
  BY <1>1, <1>2 DEF Rows
<1>5. \A r \in X \cup d.live["object"] : r.id # id => (r \in X <=> r \in d.live["object"])
  BY <1>2
<1>6. QED
  BY <1>1, <1>3, <1>4, <1>5, NewVersionBegins


LEMMA CreateObjectBegins ==
    ASSUME NEW d, NEW c, NEW now \in Nat, Sound(d), c.type \in Types,
           NEW id, id = Len(d.registry) + 1
    PROVE  /\ Begun(d, CreateObject(d, c, now), id) /\ FirstHead(d, CreateObject(d, c, now), c, now)
           /\ IsLive(CreateObject(d, c, now), c.type, id)
<1>1. PICK h : h = Len(d.history) + 1
  OBVIOUS
<1>2. /\ Shape(d) /\ RowsFit(d) /\ VersionsFit(d)
      /\ id \notin DOMAIN d.registry /\ "object" \in Tables
  BY ListFacts DEF Sound, Shape, Tables
<1>3. PICK o : o = [id |-> id, clid |-> c.registrar, upid |-> None, update |-> None, trdate |-> None]
  OBVIOUS
<1>4. PICK a : a = With(d, "object", {o})
  OBVIOUS
<1>5. Puts(d, a, "object", d.live["object"] \cup {o})
  BY <1>2, <1>4, PutsTable DEF With
<1>6. PICK v : v = [type |-> c.type, name |-> c.name, crid |-> c.registrar, created |-> now,
                    erased |-> None, crhistoryid |-> h, historyid |-> h]
  OBVIOUS
<1>7. PICK registry : registry = Append(d.registry, v)
  OBVIOUS
<1>8. /\ IsList(registry) /\ DOMAIN registry = DOMAIN d.registry \cup {id} /\ registry[id] = v
      /\ \A i \in DOMAIN d.registry : registry[i] = d.registry[i]
  BY <1>2, <1>7, AppendToList DEF Shape
<1>9. PICK b : b = [a EXCEPT !.registry = Append(@, v)]
  OBVIOUS
<1>10. /\ Shape(b) /\ b.registry = registry /\ b.history = d.history /\ b.kept = d.kept
       /\ b.states = d.states /\ b.merged = d.merged
       /\ b.live["object"] = d.live["object"] \cup {o}
       /\ \A t \in Tables \ {"object"} : b.live[t] = d.live[t]
  BY <1>5, <1>7, <1>8, <1>9 DEF Puts, Shape
<1>11. PICK w : w = [from |-> now, to |-> None, next |-> None]
  OBVIOUS
<1>12. PICK history : history = Append(d.history, w)
  OBVIOUS
<1>13. /\ IsList(history) /\ DOMAIN history = DOMAIN d.history \cup {h} /\ history[h] = w
       /\ \A k \in DOMAIN d.history : history[k] = d.history[k]
  BY <1>1, <1>2, <1>12, AppendToList DEF Shape
<1>14. \A r \in d.live["object"] : r.id # id
  BY <1>2 DEF RowsFit, Owned, IsLive
<1>15. Rows(b, "object", id) = {o} /\ o.id = id
  BY <1>3, <1>10, <1>14 DEF Rows
<1>16. PICK n : n = InsertHistory(b, id, now)
  OBVIOUS
<1>17. /\ DOMAIN n = DOMAIN b /\ n.history = history /\ n.registry = registry
       /\ n.live = b.live /\ n.states = d.states /\ n.merged = d.merged
       /\ DOMAIN n.kept = Tables /\ n.kept["object"] = d.kept["object"] \cup {[h |-> h, row |-> o]}
       /\ \A t \in Tables \ {"object"} : n.kept[t] = d.kept[t]
  BY <1>1, <1>2, <1>10, <1>11, <1>12, <1>15, <1>16 DEF InsertHistory, Shape
<1>18. n = CreateObject(d, c, now)
  BY <1>1, <1>3, <1>4, <1>6, <1>9, <1>16 DEF CreateObject
<1>19. Shape(n)
  BY <1>8, <1>10, <1>13, <1>17 DEF Shape
<1>20. FirstHead(d, n, c, now)
  BY <1>1, <1>6, <1>8, <1>11, <1>13, <1>17 DEF FirstHead
<1>21. \A ty, i : IsLive(n, ty, i) <=> IsLive(d, ty, i) \/ (i = id /\ ty = c.type)
  BY <1>2, <1>20, CreatesObjects
<1>22. Rows(n, "object", id) = {o} /\ o \in n.live["object"]
  BY <1>10, <1>15, <1>17 DEF Rows
<1>23. OthersStay(d, n, id)
  <2> SUFFICES ASSUME NEW t \in Tables, NEW r \in d.live[t] \cup n.live[t], r.id # id
               PROVE  r \in d.live[t] <=> r \in n.live[t]
    BY DEF OthersStay
  <2>1. CASE t = "object"
    BY <2>1, <1>10, <1>15, <1>17
  <2>2. CASE t # "object"
    BY <2>2, <1>10, <1>17
  <2>3. QED
    BY <2>1, <2>2
<1>24. FitRows(n, n, id)
  <2> SUFFICES ASSUME NEW t \in Tables, NEW r \in n.live[t], r.id = id
               PROVE  Owned(n, t, r) /\ Refers(n, t, r)
    BY DEF FitRows
  <2>1. CASE t = "object"
    <3>1. r = o
      BY <2>1, <1>22 DEF Rows
    <3>2. Owned(n, t, r)
      BY <2>1, <3>1, <1>3, <1>21 DEF Owned
    <3>3. Refers(n, t, r)
      BY <2>1, <3>1, <1>3 DEF Refers, LinkTables
    <3>4. QED
      BY <3>2, <3>3
  <2>2. CASE t # "object"
    <3>1. r \in d.live[t]
      BY <2>2, <1>10, <1>17
    <3>2. id \in DOMAIN d.registry
      BY <3>1, <1>2 DEF RowsFit, Owned, IsLive
    <3>3. QED
      BY <3>2, <1>2
  <2>3. QED
    BY <2>1, <2>2
<1>25. n.registry[id].historyid = h
  BY <1>6, <1>8, <1>17
<1>26. n.kept["object"] = d.kept["object"] \cup {[h |-> h, row |-> r] : r \in Rows(n, "object", id)}
  BY <1>17, <1>22
<1>27. \A t \in Tables \ {"object"} : n.kept[t] = d.kept[t] /\ n.live[t] = d.live[t]
  BY <1>10, <1>17
<1>28. Begun(d, n, id)
  BY <1>1, <1>17, <1>19, <1>22, <1>23, <1>24, <1>25, <1>26, <1>27 DEF Begun, OneRow
<1>29. QED
  BY <1>18, <1>20, <1>21, <1>28

(* The only row of the object in a table is replaced by another.           *)
LEMMA EditsRow ==
    ASSUME NEW d, NEW e, NEW id, NEW tables \in SUBSET Tables, Edits(d, e, id, tables),
           NEW t \in tables, NEW m \in e.live[t], Rows(e, t, id) = {m},
           NEW p, p.id = id, Owned(d, t, p), Refers(d, t, p),
           NEW f, f = [e EXCEPT !.live[t] = {IF r.id = id THEN p ELSE r : r \in e.live[t]}]
    PROVE  /\ Edits(d, f, id, tables) /\ Rows(f, t, id) = {p} /\ OneRow(f, t, id)
           /\ f.states = e.states /\ \A u \in Tables \ {t} : f.live[u] = e.live[u]
<1>1. PICK X : X = {IF r.id = id THEN p ELSE r : r \in e.live[t]}
  OBVIOUS
<1>2. Shape(e) /\ t \in Tables
  BY DEF Edits
<1>3. Puts(e, f, t, X)
  BY <1>1, <1>2, PutsTable
<1>4. m.id = id
  BY DEF Rows
<1>5. p \in X /\ {r \in X : r.id = id} = {p}
  BY <1>1, <1>4
<1>6. \A r \in X \cup e.live[t] : r.id # id => (r \in X <=> r \in e.live[t])
  BY <1>1
<1>7. \A r \in X : r.id = id => Owned(d, t, r) /\ Refers(d, t, r)
  BY <1>5
<1>8. Edits(d, f, id, tables)
  BY <1>3, <1>6, <1>7, EditsPut
<1>9. f.live[t] = X /\ f.states = e.states /\ \A u \in Tables \ {t} : f.live[u] = e.live[u]
  BY <1>3 DEF Puts
<1>10. Rows(f, t, id) = {p} /\ p \in f.live[t]
  BY <1>5, <1>9 DEF Rows
<1>11. QED
  BY <1>8, <1>9, <1>10 DEF OneRow

LEMMA OwnedBy ==
    ASSUME NEW d, NEW type \in Types, NEW id, IsLive(d, type, id), NEW t \in TablesOf(type),
           NEW r, "id" \in DOMAIN r, r.id = id
    PROVE  Owned(d, t, r)
  BY DEF Owned

LEMMA TablesOfTypes ==
    /\ TablesOf("contact") = ContactTables /\ TablesOf("nsset") = NssetTables
    /\ TablesOf("keyset") = KeysetTables /\ TablesOf("domain") = DomainTables
    /\ \A type \in Types : /\ TablesOf(type) \subseteq Tables /\ "object" \notin TablesOf(type)
                           /\ type \in TablesOf(type) /\ type \in Tables
    /\ "object" \in Tables
  BY DEF Types, TablesOf, Tables, ContactTables, NssetTables, KeysetTables, DomainTables

(* Rows are copied at the end of an update ...                             *)
LEMMA UpdateWrites ==
    ASSUME NEW d, NEW b, NEW e, NEW type \in Types, NEW id, NEW now,
           Begun(d, b, id), NewHead(d, b, id, now), IsLive(b, type, id),
           Edits(b, e, id, TablesOf(type)), OneRow(e, type, id)
    PROVE  /\ Writes(d, Copied(e, id, TablesOf(type)), type, id, now)
           /\ Copied(e, id, TablesOf(type)).live = e.live
           /\ Copied(e, id, TablesOf(type)).states = e.states
           /\ Copied(e, id, TablesOf(type)).merged = d.merged
<1>1. PICK f : f = Copied(e, id, TablesOf(type))
  OBVIOUS
<1>2. Ends(d, e, f, id)
  BY <1>1, CopiedEnds
<1>3. e.registry = b.registry /\ e.history = b.history /\ e.live["object"] = b.live["object"]
      /\ e.states \subseteq d.states /\ e.merged = d.merged
  BY TablesOfTypes DEF Edits, Begun
<1>4. f.registry = b.registry /\ f.history = b.history /\ f.live = e.live /\ f.states = e.states
      /\ f.merged = e.merged
  BY <1>2, <1>3 DEF Ends
<1>5. NewHead(d, f, id, now)
  BY <1>4 DEF NewHead
<1>6. OneRow(f, "object", id) /\ OneRow(f, type, id)
  BY <1>3, <1>4 DEF Begun, OneRow, Rows
<1>7. QED
  BY <1>1, <1>2, <1>3, <1>4, <1>5, <1>6 DEF Writes, Ends

(* ... and of a creation.                                                  *)
LEMMA CreateWrites ==
    ASSUME NEW d, NEW b, NEW e, NEW c, NEW type \in Types, NEW id, NEW now,
           type = c.type, id = Len(d.registry) + 1,
           Begun(d, b, id), FirstHead(d, b, c, now), IsLive(b, type, id),
           Edits(b, e, id, TablesOf(type)), OneRow(e, type, id), e.states = b.states
    PROVE  Creates(d, Copied(e, id, TablesOf(type)), c, now)
           /\ Copied(e, id, TablesOf(type)).merged = d.merged
<1>1. PICK f : f = Copied(e, id, TablesOf(type))
  OBVIOUS
<1>2. Ends(d, e, f, id)
  BY <1>1, CopiedEnds
<1>3. e.registry = b.registry /\ e.history = b.history /\ e.live["object"] = b.live["object"]
      /\ e.states = d.states /\ e.merged = d.merged
  BY TablesOfTypes DEF Edits, Begun
<1>4. f.registry = b.registry /\ f.history = b.history /\ f.live = e.live /\ f.states = d.states
      /\ f.merged = d.merged
  BY <1>2, <1>3 DEF Ends
<1>5. FirstHead(d, f, c, now)
  BY <1>4 DEF FirstHead
<1>6. OneRow(f, "object", id) /\ OneRow(f, type, id)
  BY <1>3, <1>4 DEF Begun, OneRow, Rows
<1>7. QED
  BY <1>1, <1>2, <1>4, <1>5, <1>6 DEF Creates, Ends


-----------------------------------------------------------------------------
(* Contacts                                                                *)

LEMMA NoRowsYet ==
    ASSUME NEW d, Sound(d), NEW id, id = Len(d.registry) + 1
    PROVE  \A t \in Tables : Rows(d, t, id) = {}
<1>1. id \notin DOMAIN d.registry
  BY ListFacts DEF Sound, Shape
<1>2. QED
  BY <1>1 DEF Sound, RowsFit, Owned, IsLive, Rows

(* The first row of a new object in a table                                *)
LEMMA FirstRow ==
    ASSUME NEW b, NEW f, NEW id, NEW t, NEW row, Rows(b, t, id) = {}, row.id = id,
           f.live[t] = b.live[t] \cup {row}
    PROVE  OneRow(f, t, id)
<1>1. Rows(f, t, id) = {row} /\ row \in f.live[t]
  BY DEF Rows
<1>2. QED
  BY <1>1 DEF OneRow

LEMMA AddressesFit ==
    ASSUME NEW b, NEW id, NEW c, IsLive(b, "contact", id)
    PROVE  \A r \in Addresses(id, c) :
              r.id = id /\ Owned(b, "contact_address", r) /\ Refers(b, "contact_address", r)
<1>1. "contact" \in Types /\ "contact_address" \in TablesOf("contact")
  BY TablesOfTypes DEF Types, ContactTables
<1>2. \A r \in Addresses(id, c) : r.id = id /\ "id" \in DOMAIN r
  BY DEF Addresses
<1>3. \A r : Refers(b, "contact_address", r)
  BY DEF Refers, LinkTables
<1>4. QED
  BY <1>1, <1>2, <1>3, OwnedBy

LEMMA CreateContactCreates ==
    ASSUME NEW d, NEW c, NEW now \in Nat, Sound(d), c.type = "contact"
    PROVE  Creates(d, CreateContact(d, c, now), c, now) /\ CreateContact(d, c, now).merged = d.merged
<1>1. PICK id : id = Len(d.registry) + 1
  OBVIOUS
<1>2. PICK type \in Types : type = "contact"
  BY DEF Types
<1>3. PICK b : b = CreateObject(d, c, now)
  OBVIOUS
<1>4. Begun(d, b, id) /\ FirstHead(d, b, c, now) /\ IsLive(b, type, id)
  BY <1>1, <1>2, <1>3, CreateObjectBegins
<1>5. PICK tables \in SUBSET Tables : tables = TablesOf(type)
  BY TablesOfTypes
<1>6. "contact" \in tables /\ "contact_address" \in tables /\ type \in tables
  BY <1>2, <1>5, TablesOfTypes DEF ContactTables
<1>7. Edits(b, b, id, tables)
  BY <1>4, EditsBegin
<1>8. PICK row : row = [id |-> id, value |-> c.value, disclose |-> c.disclose]
  OBVIOUS
<1>9. row.id = id /\ Owned(b, "contact", row) /\ Refers(b, "contact", row)
  <2>1. row.id = id /\ "id" \in DOMAIN row /\ "value" \in DOMAIN row
    BY <1>8
  <2>2. Refers(b, "contact", row)
    BY <2>1 DEF Refers, LinkTables
  <2>3. QED
    BY <2>1, <2>2, <1>2, <1>4, <1>5, <1>6, OwnedBy
<1>10. PICK f : f = With(b, "contact", {row})
  OBVIOUS
<1>11. Edits(b, f, id, tables) /\ Puts(b, f, "contact", b.live["contact"] \cup {row})
  BY <1>6, <1>7, <1>9, <1>10, EditsWith
<1>12. OneRow(f, "contact", id)
  <2>1. b.live["contact"] = d.live["contact"]
    BY <1>4, <1>6 DEF Begun
  <2>2. Rows(b, "contact", id) = {}
    BY <2>1, <1>1, <1>6, NoRowsYet DEF Rows
  <2>3. QED
    BY <2>2, <1>9, <1>11, FirstRow DEF Puts
<1>13. PICK g : g = With(f, "contact_address", Addresses(id, c))
  OBVIOUS
<1>14. Edits(b, g, id, tables)
       /\ Puts(f, g, "contact_address", f.live["contact_address"] \cup Addresses(id, c))
  <2>1. \A r \in Addresses(id, c) :
           r.id = id /\ Owned(b, "contact_address", r) /\ Refers(b, "contact_address", r)
    BY <1>2, <1>4, AddressesFit
  <2>2. PICK rows : rows = Addresses(id, c)
    OBVIOUS
  <2>3. PICK t \in tables : t = "contact_address"
    BY <1>6
  <2>4. \A r \in rows : r.id = id /\ Owned(b, t, r) /\ Refers(b, t, r)
    BY <2>1, <2>2, <2>3
  <2>5. Edits(b, With(f, t, rows), id, tables) /\ Puts(f, With(f, t, rows), t, f.live[t] \cup rows)
    BY <2>4, <2>3, <1>11, EditsWith
  <2>6. QED
    BY <2>2, <2>3, <2>5, <1>13
<1>15. OneRow(g, type, id)
  BY <1>2, <1>6, <1>12, <1>14 DEF Puts, OneRow, Rows
<1>16. g.states = b.states
  BY <1>11, <1>14 DEF Puts
<1>17. CreateContact(d, c, now) = Copied(g, id, tables)
  BY <1>1, <1>2, <1>3, <1>5, <1>8, <1>10, <1>13, TablesOfTypes DEF CreateContact, CopyContact
<1>18. QED
  BY <1>1, <1>2, <1>4, <1>5, <1>14, <1>15, <1>16, <1>17, CreateWrites

ValuesOf(d, id) == {r.value : r \in Rows(d, "contact", id)}

LEMMA SetContactEdits ==
    ASSUME NEW b, NEW id, NEW c, NEW tables \in SUBSET Tables, "contact" \in tables,
           IsLive(b, "contact", id), Edits(b, b, id, tables), OneRow(b, "contact", id)
    PROVE  /\ Edits(b, SetContact(b, id, c), id, tables)
           /\ OneRow(SetContact(b, id, c), "contact", id)
           /\ c.value = Keep => /\ ValuesOf(SetContact(b, id, c), id) = ValuesOf(b, id)
                                /\ SetContact(b, id, c).states = b.states
           /\ c.value # Keep => \A s \in SetContact(b, id, c).states :
                                    ~(s.id = id /\ s.state \in FinalStates)
<1>1. PICK m \in b.live["contact"] : Rows(b, "contact", id) = {m}
  BY DEF OneRow
<1>2. m.id = id /\ "id" \in DOMAIN m /\ "value" \in DOMAIN m
  <2>1. m.id = id
    BY <1>1 DEF Rows
  <2>2. Owned(b, "contact", m) /\ Refers(b, "contact", m)
    BY <2>1 DEF Edits, FitRows
  <2>3. QED
    BY <2>1, <2>2 DEF Owned, Refers
<1>3. PICK p : p = [m EXCEPT !.value = IF c.value = Keep THEN @ ELSE c.value,
                             !.disclose = IF c.disclose = Keep THEN @ ELSE c.disclose]
  OBVIOUS
<1>4. /\ p.id = id /\ "id" \in DOMAIN p /\ "value" \in DOMAIN p
      /\ c.value = Keep => p.value = m.value
  BY <1>2, <1>3
<1>5. Owned(b, "contact", p) /\ Refers(b, "contact", p)
  <2>1. "contact" \in Types /\ "contact" \in TablesOf("contact")
    BY TablesOfTypes DEF Types
  <2>2. Refers(b, "contact", p)
    BY <1>4 DEF Refers, LinkTables
  <2>3. QED
    BY <2>1, <2>2, <1>4, OwnedBy
<1>6. PICK f : f = [b EXCEPT !.live["contact"] = {IF r.id = id THEN p ELSE r : r \in b.live["contact"]}]
  OBVIOUS
<1>7. \A r \in b.live["contact"] : r.id = id => r = m
  BY <1>1 DEF Rows
<1>8. {IF r.id = id THEN p ELSE r : r \in b.live["contact"]} =
      {IF r.id = id THEN [r EXCEPT !.value = IF c.value = Keep THEN @ ELSE c.value,
                                   !.disclose = IF c.disclose = Keep THEN @ ELSE c.disclose]
       ELSE r : r \in b.live["contact"]}
  BY <1>3, <1>7
<1>9. f = SetContactRow(b, id, c)
  BY <1>6, <1>8 DEF SetContactRow, Alter
<1>10. /\ Edits(b, f, id, tables) /\ Rows(f, "contact", id) = {p} /\ OneRow(f, "contact", id)
       /\ f.states = b.states
  BY <1>1, <1>4, <1>5, <1>6, EditsRow
<1>11. CASE c.value = Keep
  <2>1. SetContact(b, id, c) = f
    BY <1>9, <1>11 DEF SetContact
  <2>2. ValuesOf(f, id) = ValuesOf(b, id)
    BY <1>1, <1>4, <1>10, <1>11 DEF ValuesOf
  <2>3. QED
    BY <2>1, <2>2, <1>10, <1>11
<1>12. CASE c.value # Keep
  <2>1. PICK g : g = CancelFinalStates(f, id)
    OBVIOUS
  <2>2. Shape(f)
    BY <1>10 DEF Edits
  <2>3. /\ Shape(g) /\ g.registry = f.registry /\ g.history = f.history /\ g.kept = f.kept
        /\ g.live = f.live /\ g.merged = f.merged
        /\ g.states = {s \in f.states : ~(s.id = id /\ s.state \in FinalStates)}
    BY <2>1, <2>2 DEF CancelFinalStates, Shape
  <2>4. Edits(b, g, id, tables)
    BY <2>3, <1>10 DEF Edits, OthersStay, FitRows
  <2>5. OneRow(g, "contact", id)
    BY <2>3, <1>10 DEF OneRow, Rows
  <2>6. SetContact(b, id, c) = g
    BY <2>1, <1>9, <1>12 DEF SetContact
  <2>7. QED
    BY <2>3, <2>4, <2>5, <2>6, <1>12
<1>13. QED
  BY <1>11, <1>12

LEMMA SetAddressesEdits ==
    ASSUME NEW b, NEW e, NEW id, NEW c, NEW tables \in SUBSET Tables, "contact_address" \in tables,
           IsLive(b, "contact", id), Edits(b, e, id, tables)
    PROVE  /\ Edits(b, SetAddresses(e, id, c), id, tables)
           /\ SetAddresses(e, id, c).live["contact"] = e.live["contact"]
           /\ SetAddresses(e, id, c).states = e.states
<1>1. PICK X \in SUBSET e.live["contact_address"] :
         X = {r \in e.live["contact_address"] :
                 ~(r.id = id /\ r.type \in {a.type : a \in c.put} \cup c.drop)}
  OBVIOUS
<1>2. PICK f : f = [e EXCEPT !.live["contact_address"] = X]
  OBVIOUS
<1>3. \A r \in e.live["contact_address"] : r.id # id => r \in X
  BY <1>1
<1>4. Edits(b, f, id, tables) /\ Puts(e, f, "contact_address", X)
  BY <1>2, <1>3, EditsLess
<1>5. PICK g : g = With(f, "contact_address", Addresses(id, c))
  OBVIOUS
<1>6. Edits(b, g, id, tables)
      /\ Puts(f, g, "contact_address", f.live["contact_address"] \cup Addresses(id, c))
  BY <1>4, <1>5, AddressesFit, EditsWith
<1>7. g = SetAddresses(e, id, c)
  BY <1>1, <1>2, <1>5 DEF SetAddresses, Without
<1>8. "contact" \in Tables \ {"contact_address"}
  BY TablesOfTypes DEF Types
<1>9. QED
  BY <1>4, <1>6, <1>7, <1>8 DEF Puts

LEMMA UpdateContactWrites ==
    ASSUME NEW d, NEW c, NEW now \in Nat, Sound(d), NEW id, id = IdOf(d, "contact", c.name),
           IsLive(d, "contact", id)
    PROVE  /\ Writes(d, UpdateContact(d, c, now), "contact", id, now)
           /\ UpdateContact(d, c, now).merged = d.merged
           /\ \A o \in Rows(d, "object", id), q \in Rows(UpdateContact(d, c, now), "object", id) :
                 q.clid = o.clid /\ q.upid = c.registrar
           /\ c.value = Keep => /\ ValuesOf(UpdateContact(d, c, now), id) = ValuesOf(d, id)
                                /\ UpdateContact(d, c, now).states = d.states
           /\ c.value # Keep => \A s \in UpdateContact(d, c, now).states :
                                    ~(s.id = id /\ s.state \in FinalStates)
<1>1. PICK type \in Types : type = "contact"
  BY DEF Types
<1>2. PICK b : b = UpdateObject(d, id, c, now)
  OBVIOUS
<1>3. Begun(d, b, id) /\ NewHead(d, b, id, now) /\ IsLive(b, type, id)
  BY <1>1, <1>2, UpdateObjectBegins
<1>4. PICK tables \in SUBSET Tables : tables = TablesOf(type)
  BY TablesOfTypes
<1>5. "contact" \in tables /\ "contact_address" \in tables /\ "contact" \in Tables \ {"object"}
  BY <1>1, <1>4, TablesOfTypes DEF ContactTables
<1>6. Edits(b, b, id, tables)
  BY <1>3, EditsBegin
<1>7. b.live["contact"] = d.live["contact"] /\ b.states = d.states
  BY <1>3, <1>5 DEF Begun
<1>8. OneRow(b, "contact", id) /\ ValuesOf(b, id) = ValuesOf(d, id)
  <2>1. OneRow(d, "contact", id)
    BY <1>1 DEF Sound, RowsOfAll, IsLive
  <2>2. QED
    BY <2>1, <1>7 DEF OneRow, ValuesOf, Rows
<1>9. PICK e : e = SetContact(b, id, c)
  OBVIOUS
<1>10. /\ Edits(b, e, id, tables) /\ OneRow(e, "contact", id)
       /\ c.value = Keep => ValuesOf(e, id) = ValuesOf(b, id) /\ e.states = b.states
       /\ c.value # Keep => \A s \in e.states : ~(s.id = id /\ s.state \in FinalStates)
  BY <1>1, <1>3, <1>5, <1>6, <1>8, <1>9, SetContactEdits
<1>11. PICK f : f = SetAddresses(e, id, c)
  OBVIOUS
<1>12. Edits(b, f, id, tables) /\ f.live["contact"] = e.live["contact"] /\ f.states = e.states
  BY <1>1, <1>3, <1>5, <1>10, <1>11, SetAddressesEdits
<1>13. OneRow(f, type, id) /\ ValuesOf(f, id) = ValuesOf(e, id)
  BY <1>1, <1>10, <1>12 DEF OneRow, Rows, ValuesOf
<1>14. PICK g : g = Copied(f, id, tables)
  OBVIOUS
<1>15. Writes(d, g, type, id, now) /\ g.live = f.live /\ g.states = f.states /\ g.merged = d.merged
  BY <1>3, <1>4, <1>12, <1>13, <1>14, UpdateWrites
<1>16. g = UpdateContact(d, c, now)
  BY <1>1, <1>2, <1>4, <1>9, <1>11, <1>14, TablesOfTypes DEF UpdateContact, CopyContact
<1>17. ValuesOf(g, id) = ValuesOf(f, id)
  BY <1>15 DEF ValuesOf, Rows
<1>18. \A o \in Rows(d, "object", id), q \in Rows(g, "object", id) :
          q.clid = o.clid /\ q.upid = c.registrar
  <2>1. Rows(g, "object", id) = Rows(b, "object", id)
    BY <1>4, <1>12, <1>15, TablesOfTypes DEF Edits, Rows
  <2>2. QED
    BY <2>1, <1>1, <1>2, UpdateObjectBegins
<1>19. QED
  BY <1>1, <1>7, <1>8, <1>10, <1>12, <1>13, <1>15, <1>16, <1>17, <1>18


-----------------------------------------------------------------------------
(* Names and links                                                         *)

LEMMA NamedIsLive ==
    ASSUME NEW d, NEW type, NEW name, Exists(d, type, name)
    PROVE  /\ IsLive(d, type, IdOf(d, type, name))
           /\ d.registry[IdOf(d, type, name)].name = name
<1>1. IdOf(d, type, name) \in Registered(d, type, name)
  BY DEF IdOf, Exists
<1>2. QED
  BY <1>1 DEF Registered, IsLive

(* The same is registered in two states of the tables.                     *)
SameNamed(d, e) == \A type, name : Registered(e, type, name) = Registered(d, type, name)

LEMMA SameNamedFacts ==
    ASSUME NEW d, NEW e, SameNamed(d, e)
    PROVE  /\ \A type, name : IdOf(e, type, name) = IdOf(d, type, name)
           /\ \A type, name : Exists(e, type, name) <=> Exists(d, type, name)
           /\ \A names : Contacts(e, names) = Contacts(d, names)
           /\ \A id, names : Links(id, e, names) = Links(id, d, names)
<1>1. \A type, name : IdOf(e, type, name) = IdOf(d, type, name)
  BY DEF SameNamed, IdOf
<1>2. \A type, name : Exists(e, type, name) <=> Exists(d, type, name)
  BY DEF SameNamed, Exists
<1>3. \A names : Contacts(e, names) = Contacts(d, names)
  BY <1>1 DEF Contacts
<1>4. \A id, names : Links(id, e, names) = Links(id, d, names)
  BY <1>3 DEF Links
<1>5. QED
  BY <1>1, <1>2, <1>3, <1>4

LEMMA NewHeadSameNamed ==
    ASSUME NEW d, NEW e, NEW id, NEW now, Typed(d), NewHead(d, e, id, now)
    PROVE  SameNamed(d, e)
<1>1. /\ DOMAIN e.registry = DOMAIN d.registry
      /\ \A i \in DOMAIN d.registry :
            /\ e.registry[i].name = d.registry[i].name
            /\ e.registry[i].type = d.registry[i].type
            /\ e.registry[i].erased = d.registry[i].erased
  <2>1. DOMAIN e.registry = DOMAIN d.registry
    BY DEF NewHead
  <2>2. QED
    BY <2>1, SameObjects
<1>2. QED
  BY <1>1 DEF SameNamed, Registered

LEMMA SameRegistrySameNamed ==
    ASSUME NEW d, NEW e, e.registry = d.registry
    PROVE  SameNamed(d, e)
  BY DEF SameNamed, Registered

(* Links to contacts that are registered                                   *)
LEMMA LinksFitTables ==
    ASSUME NEW d, NEW b, NEW type \in Types, NEW id, IsLive(b, type, id),
           NEW t \in LinkTables, t \in TablesOf(type), NEW names, AreContacts(d, names),
           \A i : IsLive(d, "contact", i) => IsLive(b, "contact", i)
    PROVE  \A r \in Links(id, d, names) : r.id = id /\ Owned(b, t, r) /\ Refers(b, t, r)
<1> SUFFICES ASSUME NEW r \in Links(id, d, names)
             PROVE  r.id = id /\ Owned(b, t, r) /\ Refers(b, t, r)
  OBVIOUS
<1>1. PICK n \in names : r = [id |-> id, contact |-> IdOf(d, "contact", n)]
  BY DEF Links, Contacts
<1>2. IsLive(d, "contact", IdOf(d, "contact", n))
  BY NamedIsLive DEF AreContacts
<1>3. r.id = id /\ "id" \in DOMAIN r /\ "contact" \in DOMAIN r /\ IsLive(b, "contact", r.contact)
  BY <1>1, <1>2
<1>4. t # "contact" /\ t # "domain" /\ t # "object"
  BY DEF LinkTables
<1>5. Refers(b, t, r)
  BY <1>3, <1>4 DEF Refers
<1>6. QED
  BY <1>3, <1>5, OwnedBy

(* The links of an object after some were added and others removed         *)
LinksAfter(d, table, id, c) ==
    {r \in d.live[table] \cup Links(id, d, c.add) :
        ~(r.id = id /\ r.contact \in Contacts(d, c.rem))}

(* What SetLinks requires, when it changes e, which was b at first, for an *)
(* update of d                                                             *)
LinksCanBeSet(d, b, e, type, id, c, tables, t) ==
    /\ type \in Types /\ tables \in SUBSET Tables /\ tables = TablesOf(type)
    /\ IsLive(b, type, id) /\ Edits(b, e, id, tables) /\ SameNamed(d, b)
    /\ t \in LinkTables /\ t \in tables /\ AreContacts(d, c.add)
    /\ e.live[t] = d.live[t]

(* What it does                                                            *)
LinksSet(d, b, e, f, id, c, tables, t) ==
    /\ Edits(b, f, id, tables)
    /\ f.live[t] = LinksAfter(d, t, id, c)
    /\ f.states = e.states
    /\ \A u \in Tables \ {t} : f.live[u] = e.live[u]

LEMMA SetLinksEdits ==
    ASSUME NEW d, NEW b, NEW e, NEW type, NEW id, NEW c, NEW tables, NEW t,
           LinksCanBeSet(d, b, e, type, id, c, tables, t)
    PROVE  LinksSet(d, b, e, SetLinks(e, t, id, c), id, c, tables, t)
<1> USE DEF LinksCanBeSet
<1>1. SameNamed(d, e)
  BY DEF Edits, SameNamed, Registered
<1>2. /\ Contacts(e, c.rem) = Contacts(d, c.rem) /\ Links(id, e, c.add) = Links(id, d, c.add)
      /\ Shape(e)
  BY <1>1, SameNamedFacts DEF Edits
<1>3. \A i : IsLive(d, "contact", i) => IsLive(b, "contact", i)
  BY DEF SameNamed, Registered, IsLive
<1>4. \A r \in Links(id, d, c.add) : r.id = id /\ Owned(b, t, r) /\ Refers(b, t, r)
  BY <1>3, LinksFitTables
<1>5. PICK f : f = With(e, t, Links(id, d, c.add))
  OBVIOUS
<1>6. Edits(b, f, id, tables) /\ Puts(e, f, t, e.live[t] \cup Links(id, d, c.add))
  BY <1>4, <1>5, EditsWith
<1>7. f.live[t] = d.live[t] \cup Links(id, d, c.add)
  BY <1>6 DEF Puts
<1>8. PICK X \in SUBSET f.live[t] : X = {r \in f.live[t] : ~(r.id = id /\ r.contact \in Contacts(d, c.rem))}
  OBVIOUS
<1>9. PICK g : g = [f EXCEPT !.live[t] = X]
  OBVIOUS
<1>10. Edits(b, g, id, tables) /\ Puts(f, g, t, X)
  BY <1>6, <1>8, <1>9, EditsLess
<1>11. g = SetLinks(e, t, id, c)
  BY <1>2, <1>5, <1>8, <1>9 DEF SetLinks, Without
<1>12. X = LinksAfter(d, t, id, c)
  BY <1>7, <1>8 DEF LinksAfter
<1>13. QED
  BY <1>6, <1>10, <1>11, <1>12 DEF Puts, LinksSet

(* Rows that refer to nothing fit.                                         *)
LEMMA PlainFits ==
    ASSUME NEW b, NEW type \in Types, NEW id, IsLive(b, type, id), NEW t \in TablesOf(type),
           t \notin LinkTables \cup {"contact", "domain"},
           NEW r, "id" \in DOMAIN r, r.id = id
    PROVE  Owned(b, t, r) /\ Refers(b, t, r)
<1>1. t # "object"
  BY TablesOfTypes
<1>2. Refers(b, t, r)
  <2>1. t \notin LinkTables /\ t # "contact" /\ t # "domain"
    OBVIOUS
  <2>2. QED
    BY <1>1, <2>1, Zenon DEF Refers
<1>3. QED
  BY <1>2, OwnedBy

(* In the tables that an object has no rows in, a version changes nothing. *)
LEMMA WritesElsewhere ==
    ASSUME NEW d, NEW e, NEW type \in Types, NEW id, NEW now, Sound(d), IsLive(d, type, id),
           Writes(d, e, type, id, now), NEW t \in Tables, t \notin {"object"} \cup TablesOf(type)
    PROVE  e.live[t] = d.live[t]
<1>1. Typed(d) /\ RowsFit(d) /\ NewHead(d, e, id, now) /\ OthersStay(d, e, id) /\ FitRows(e, e, id)
  BY DEF Sound, Writes
<1>2. \A ty, i : IsLive(e, ty, i) <=> IsLive(d, ty, i)
  BY <1>1, SameObjects
<1>3. \A r \in d.live[t] : r.id # id
  BY <1>1 DEF RowsFit, Owned, IsLive
<1>4. \A r \in e.live[t] : r.id # id
  BY <1>1, <1>2 DEF FitRows, Owned, IsLive
<1>5. QED
  BY <1>1, <1>3, <1>4 DEF OthersStay

-----------------------------------------------------------------------------
(* Nssets                                                                  *)

LEMMA HostsFit ==
    ASSUME NEW b, NEW id, NEW c, IsLive(b, "nsset", id)
    PROVE  /\ \A r \in Hosts(id, c) : r.id = id /\ Owned(b, "host", r) /\ Refers(b, "host", r)
           /\ \A r \in HostIps(id, c) :
                 r.id = id /\ Owned(b, "host_ipaddr_map", r) /\ Refers(b, "host_ipaddr_map", r)
<1>1. /\ "nsset" \in Types /\ {"host", "host_ipaddr_map"} \subseteq TablesOf("nsset")
      /\ {"host", "host_ipaddr_map"} \cap (LinkTables \cup {"contact", "domain"}) = {}
  BY TablesOfTypes DEF Types, NssetTables, LinkTables
<1>2. \A r \in Hosts(id, c) \cup HostIps(id, c) : r.id = id /\ "id" \in DOMAIN r
  BY DEF Hosts, HostIps
<1>3. QED
  BY <1>1, <1>2, PlainFits

LEMMA CreateNssetCreates ==
    ASSUME NEW d, NEW c, NEW now \in Nat, Sound(d), c.type = "nsset", AreContacts(d, c.add)
    PROVE  Creates(d, CreateNsset(d, c, now), c, now) /\ CreateNsset(d, c, now).merged = d.merged
<1>1. PICK id : id = Len(d.registry) + 1
  OBVIOUS
<1>2. PICK type \in Types : type = "nsset"
  BY DEF Types
<1>3. PICK b : b = CreateObject(d, c, now)
  OBVIOUS
<1>4. Begun(d, b, id) /\ FirstHead(d, b, c, now) /\ IsLive(b, type, id)
  BY <1>1, <1>2, <1>3, CreateObjectBegins
<1>5. PICK tables \in SUBSET Tables : tables = TablesOf(type)
  BY TablesOfTypes
<1>6. /\ {"nsset", "host", "host_ipaddr_map", "nsset_contact_map"} \subseteq tables /\ type \in tables
      /\ "nsset_contact_map" \in LinkTables /\ "nsset" \notin LinkTables \cup {"contact", "domain"}
      /\ "nsset" \in Tables /\ "object" \notin tables
  BY <1>2, <1>5, TablesOfTypes DEF NssetTables, LinkTables
<1>7. Edits(b, b, id, tables)
  BY <1>4, EditsBegin
<1>8. PICK row : row = [id |-> id, level |-> c.value]
  OBVIOUS
<1>9. row.id = id /\ Owned(b, "nsset", row) /\ Refers(b, "nsset", row)
  <2>1. row.id = id /\ "id" \in DOMAIN row
    BY <1>8
  <2>2. QED
    BY <2>1, <1>2, <1>4, <1>5, <1>6, PlainFits
<1>10. PICK f : f = With(b, "nsset", {row})
  OBVIOUS
<1>11. Edits(b, f, id, tables) /\ Puts(b, f, "nsset", b.live["nsset"] \cup {row})
  BY <1>6, <1>7, <1>9, <1>10, EditsWith
<1>12. OneRow(f, "nsset", id)
  <2>1. b.live["nsset"] = d.live["nsset"]
    BY <1>4, <1>6 DEF Begun
  <2>2. Rows(b, "nsset", id) = {}
    BY <2>1, <1>1, <1>6, NoRowsYet DEF Rows
  <2>3. QED
    BY <2>2, <1>9, <1>11, FirstRow DEF Puts
<1>13. PICK g : g = With(f, "host", Hosts(id, c))
  OBVIOUS
<1>14. Edits(b, g, id, tables) /\ Puts(f, g, "host", f.live["host"] \cup Hosts(id, c))
  BY <1>2, <1>4, <1>6, <1>11, <1>13, HostsFit, EditsWith
<1>15. PICK k : k = With(g, "host_ipaddr_map", HostIps(id, c))
  OBVIOUS
<1>16. Edits(b, k, id, tables)
       /\ Puts(g, k, "host_ipaddr_map", g.live["host_ipaddr_map"] \cup HostIps(id, c))
  <2>1. \A r \in HostIps(id, c) :
           r.id = id /\ Owned(b, "host_ipaddr_map", r) /\ Refers(b, "host_ipaddr_map", r)
    BY <1>2, <1>4, HostsFit
  <2>2. QED
    BY <2>1, <1>6, <1>14, <1>15, EditsWith
<1>17. \A r \in Links(id, d, c.add) :
          r.id = id /\ Owned(b, "nsset_contact_map", r) /\ Refers(b, "nsset_contact_map", r)
  <2>1. \A i : IsLive(d, "contact", i) => IsLive(b, "contact", i)
    BY <1>4, CreatesObjects DEF Sound
  <2>2. QED
    BY <2>1, <1>4, <1>5, <1>6, LinksFitTables
<1>18. PICK l : l = With(k, "nsset_contact_map", Links(id, d, c.add))
  OBVIOUS
<1>19. Edits(b, l, id, tables)
       /\ Puts(k, l, "nsset_contact_map", k.live["nsset_contact_map"] \cup Links(id, d, c.add))
  BY <1>6, <1>16, <1>17, <1>18, EditsWith
<1>20. OneRow(l, type, id) /\ l.states = b.states
  BY <1>2, <1>6, <1>11, <1>12, <1>14, <1>16, <1>19 DEF Puts, OneRow, Rows
<1>21. CreateNsset(d, c, now) = Copied(l, id, tables)
  BY <1>1, <1>2, <1>3, <1>5, <1>8, <1>10, <1>13, <1>15, <1>18, TablesOfTypes
     DEF CreateNsset, CopyNsset
<1>22. QED
  BY <1>1, <1>2, <1>4, <1>5, <1>19, <1>20, <1>21, CreateWrites


LEMMA SetHostsEdits ==
    ASSUME NEW b, NEW e, NEW id, NEW c, NEW tables \in SUBSET Tables,
           "host" \in tables, "host_ipaddr_map" \in tables,
           IsLive(b, "nsset", id), Edits(b, e, id, tables)
    PROVE  /\ Edits(b, SetHosts(e, id, c), id, tables)
           /\ SetHosts(e, id, c).states = e.states
           /\ \A u \in Tables \ {"host", "host_ipaddr_map"} :
                 SetHosts(e, id, c).live[u] = e.live[u]
<1>1. PICK X \in SUBSET e.live["host"] :
         X = {r \in e.live["host"] : ~(r.id = id /\ r.fqdn \in c.drop)}
  OBVIOUS
<1>2. PICK f : f = [e EXCEPT !.live["host"] = X]
  OBVIOUS
<1>3. Edits(b, f, id, tables) /\ Puts(e, f, "host", X)
  BY <1>1, <1>2, EditsLess
<1>4. PICK Y \in SUBSET f.live["host_ipaddr_map"] :
         Y = {r \in f.live["host_ipaddr_map"] : ~(r.id = id /\ r.fqdn \in c.drop)}
  OBVIOUS
<1>5. PICK g : g = [f EXCEPT !.live["host_ipaddr_map"] = Y]
  OBVIOUS
<1>6. Edits(b, g, id, tables) /\ Puts(f, g, "host_ipaddr_map", Y)
  BY <1>3, <1>4, <1>5, EditsLess
<1>7. PICK k : k = With(g, "host", Hosts(id, c))
  OBVIOUS
<1>8. Edits(b, k, id, tables) /\ Puts(g, k, "host", g.live["host"] \cup Hosts(id, c))
  <2>1. \A r \in Hosts(id, c) : r.id = id /\ Owned(b, "host", r) /\ Refers(b, "host", r)
    BY HostsFit
  <2>2. QED
    BY <2>1, <1>6, <1>7, EditsWith
<1>9. PICK l : l = With(k, "host_ipaddr_map", HostIps(id, c))
  OBVIOUS
<1>10. Edits(b, l, id, tables)
       /\ Puts(k, l, "host_ipaddr_map", k.live["host_ipaddr_map"] \cup HostIps(id, c))
  <2>1. \A r \in HostIps(id, c) :
           r.id = id /\ Owned(b, "host_ipaddr_map", r) /\ Refers(b, "host_ipaddr_map", r)
    BY HostsFit
  <2>2. QED
    BY <2>1, <1>8, <1>9, EditsWith
<1>11. l = SetHosts(e, id, c)
  BY <1>1, <1>2, <1>4, <1>5, <1>7, <1>9 DEF SetHosts, Without
<1>12. QED
  BY <1>3, <1>6, <1>8, <1>10, <1>11 DEF Puts

LEMMA UpdateNssetWrites ==
    ASSUME NEW d, NEW c, NEW now \in Nat, Sound(d), NEW id, id = IdOf(d, "nsset", c.name),
           IsLive(d, "nsset", id), AreContacts(d, c.add)
    PROVE  /\ Writes(d, UpdateNsset(d, c, now), "nsset", id, now)
           /\ UpdateNsset(d, c, now).merged = d.merged
           /\ UpdateNsset(d, c, now).states = d.states
           /\ UpdateNsset(d, c, now).live["nsset_contact_map"] =
                 LinksAfter(d, "nsset_contact_map", id, c)
<1>1. PICK type \in Types : type = "nsset"
  BY DEF Types
<1>2. PICK b : b = UpdateObject(d, id, c, now)
  OBVIOUS
<1>3. Begun(d, b, id) /\ NewHead(d, b, id, now) /\ IsLive(b, type, id)
  BY <1>1, <1>2, UpdateObjectBegins
<1>4. PICK tables \in SUBSET Tables : tables = TablesOf(type)
  BY TablesOfTypes
<1>5. /\ {"nsset", "host", "host_ipaddr_map", "nsset_contact_map"} \subseteq tables
      /\ "nsset_contact_map" \in LinkTables /\ "nsset" \notin LinkTables \cup {"contact", "domain"}
      /\ "object" \notin tables /\ type \in Tables
  BY <1>1, <1>4, TablesOfTypes DEF NssetTables, LinkTables
<1>6. Edits(b, b, id, tables)
  BY <1>3, EditsBegin
<1>7. /\ b.live["nsset"] = d.live["nsset"] /\ b.states = d.states
      /\ b.live["nsset_contact_map"] = d.live["nsset_contact_map"]
  BY <1>3, <1>5 DEF Begun
<1>8. OneRow(b, "nsset", id)
  <2>1. OneRow(d, "nsset", id)
    BY <1>1 DEF Sound, RowsOfAll, IsLive
  <2>2. QED
    BY <2>1, <1>7 DEF OneRow, Rows
<1>9. PICK e : e = IF c.value = Keep THEN b
                   ELSE Alter(b, "nsset", id, LAMBDA r : [r EXCEPT !.level = c.value])
  OBVIOUS
<1>10. /\ Edits(b, e, id, tables) /\ OneRow(e, "nsset", id) /\ e.states = b.states
       /\ e.live["nsset_contact_map"] = b.live["nsset_contact_map"]
  <2>1. CASE c.value = Keep
    BY <2>1, <1>6, <1>8, <1>9
  <2>2. CASE c.value # Keep
    <3>1. PICK m \in b.live["nsset"] : Rows(b, "nsset", id) = {m}
      BY <1>8 DEF OneRow
    <3>2. m.id = id /\ "id" \in DOMAIN m
      BY <3>1, <1>5, <1>6 DEF Rows, Edits, FitRows, Owned
    <3>3. PICK p : p = [m EXCEPT !.level = c.value]
      OBVIOUS
    <3>4. p.id = id /\ "id" \in DOMAIN p
      BY <3>2, <3>3
    <3>5. Owned(b, "nsset", p) /\ Refers(b, "nsset", p)
      BY <3>4, <1>3, <1>4, <1>5, PlainFits
    <3>6. PICK f : f = [b EXCEPT !.live["nsset"] =
                           {IF r.id = id THEN p ELSE r : r \in b.live["nsset"]}]
      OBVIOUS
    <3>7. \A r \in b.live["nsset"] : r.id = id => r = m
      BY <3>1 DEF Rows
    <3>8. {IF r.id = id THEN p ELSE r : r \in b.live["nsset"]} =
          {IF r.id = id THEN [r EXCEPT !.level = c.value] ELSE r : r \in b.live["nsset"]}
      BY <3>3, <3>7
    <3>9. f = e
      BY <2>2, <3>6, <3>8, <1>9 DEF Alter
    <3>10. /\ Edits(b, f, id, tables) /\ OneRow(f, "nsset", id) /\ f.states = b.states
           /\ \A u \in Tables \ {"nsset"} : f.live[u] = b.live[u]
      BY <3>1, <3>4, <3>5, <3>6, <1>5, <1>6, EditsRow
    <3>11. "nsset_contact_map" \in Tables \ {"nsset"}
      BY <1>5
    <3>12. QED
      BY <3>9, <3>10, <3>11
  <2>3. QED
    BY <2>1, <2>2
<1>11. SameNamed(d, b)
  BY <1>3, NewHeadSameNamed DEF Sound
<1>12. PICK f : f = SetLinks(e, "nsset_contact_map", id, c)
  OBVIOUS
<1>13. /\ Edits(b, f, id, tables)
       /\ f.live["nsset_contact_map"] = LinksAfter(d, "nsset_contact_map", id, c)
       /\ f.states = e.states /\ \A u \in Tables \ {"nsset_contact_map"} : f.live[u] = e.live[u]
  <2>1. PICK t \in LinkTables : t = "nsset_contact_map"
    BY <1>5
  <2>2. LinksCanBeSet(d, b, e, type, id, c, tables, t)
    <3>1. t \in LinkTables /\ t \in tables /\ e.live[t] = d.live[t]
      BY <2>1, <1>5, <1>7, <1>10
    <3>2. /\ tables = TablesOf(type) /\ IsLive(b, type, id) /\ Edits(b, e, id, tables)
          /\ SameNamed(d, b) /\ AreContacts(d, c.add)
      BY <1>1, <1>3, <1>4, <1>10, <1>11
    <3>3. QED
      BY <3>1, <3>2, <1>1, <1>4 DEF LinksCanBeSet
  <2>3. LinksSet(d, b, e, SetLinks(e, t, id, c), id, c, tables, t)
    BY <2>2, SetLinksEdits
  <2>4. QED
    BY <2>1, <2>3, <1>12 DEF LinksSet
<1>14. PICK g : g = SetHosts(f, id, c)
  OBVIOUS
<1>15. /\ Edits(b, g, id, tables) /\ g.states = f.states
       /\ \A u \in Tables \ {"host", "host_ipaddr_map"} : g.live[u] = f.live[u]
  BY <1>1, <1>3, <1>5, <1>13, <1>14, SetHostsEdits
<1>16. g.live["nsset_contact_map"] = f.live["nsset_contact_map"] /\ g.live["nsset"] = e.live["nsset"]
  BY <1>5, <1>13, <1>15
<1>17. OneRow(g, type, id)
  BY <1>1, <1>10, <1>16 DEF OneRow, Rows
<1>18. PICK l : l = Copied(g, id, tables)
  OBVIOUS
<1>19. Writes(d, l, type, id, now) /\ l.live = g.live /\ l.states = g.states /\ l.merged = d.merged
  BY <1>3, <1>4, <1>15, <1>17, <1>18, UpdateWrites
<1>20. l = UpdateNsset(d, c, now)
  BY <1>1, <1>2, <1>4, <1>9, <1>12, <1>14, <1>18, TablesOfTypes DEF UpdateNsset, CopyNsset
<1>21. QED
  BY <1>1, <1>7, <1>10, <1>13, <1>15, <1>16, <1>19, <1>20

-----------------------------------------------------------------------------
(* Keysets                                                                 *)

LEMMA KeysFit ==
    ASSUME NEW b, NEW id, NEW c, IsLive(b, "keyset", id)
    PROVE  \A r \in Keys(id, c) : r.id = id /\ Owned(b, "dnskey", r) /\ Refers(b, "dnskey", r)
<1>1. /\ "keyset" \in Types /\ "dnskey" \in TablesOf("keyset")
      /\ "dnskey" \notin LinkTables \cup {"contact", "domain"}
  BY TablesOfTypes DEF Types, KeysetTables, LinkTables
<1>2. \A r \in Keys(id, c) : r.id = id /\ "id" \in DOMAIN r
  BY DEF Keys
<1>3. QED
  BY <1>1, <1>2, PlainFits

LEMMA CreateKeysetCreates ==
    ASSUME NEW d, NEW c, NEW now \in Nat, Sound(d), c.type = "keyset", AreContacts(d, c.add)
    PROVE  Creates(d, CreateKeyset(d, c, now), c, now) /\ CreateKeyset(d, c, now).merged = d.merged
<1>1. PICK id : id = Len(d.registry) + 1
  OBVIOUS
<1>2. PICK type \in Types : type = "keyset"
  BY DEF Types
<1>3. PICK b : b = CreateObject(d, c, now)
  OBVIOUS
<1>4. Begun(d, b, id) /\ FirstHead(d, b, c, now) /\ IsLive(b, type, id)
  BY <1>1, <1>2, <1>3, CreateObjectBegins
<1>5. PICK tables \in SUBSET Tables : tables = TablesOf(type)
  BY TablesOfTypes
<1>6. /\ {"keyset", "dnskey", "keyset_contact_map"} \subseteq tables /\ type \in tables
      /\ "keyset_contact_map" \in LinkTables /\ "keyset" \notin LinkTables \cup {"contact", "domain"}
      /\ "keyset" \in Tables /\ "object" \notin tables
  BY <1>2, <1>5, TablesOfTypes DEF KeysetTables, LinkTables
<1>7. Edits(b, b, id, tables)
  BY <1>4, EditsBegin
<1>8. PICK row : row = [id |-> id]
  OBVIOUS
<1>9. row.id = id /\ Owned(b, "keyset", row) /\ Refers(b, "keyset", row)
  <2>1. row.id = id /\ "id" \in DOMAIN row
    BY <1>8
  <2>2. QED
    BY <2>1, <1>2, <1>4, <1>5, <1>6, PlainFits
<1>10. PICK f : f = With(b, "keyset", {row})
  OBVIOUS
<1>11. Edits(b, f, id, tables) /\ Puts(b, f, "keyset", b.live["keyset"] \cup {row})
  BY <1>6, <1>7, <1>9, <1>10, EditsWith
<1>12. OneRow(f, "keyset", id)
  <2>1. b.live["keyset"] = d.live["keyset"]
    BY <1>4, <1>6 DEF Begun
  <2>2. Rows(b, "keyset", id) = {}
    BY <2>1, <1>1, <1>6, NoRowsYet DEF Rows
  <2>3. QED
    BY <2>2, <1>9, <1>11, FirstRow DEF Puts
<1>13. PICK g : g = With(f, "dnskey", Keys(id, c))
  OBVIOUS
<1>14. Edits(b, g, id, tables) /\ Puts(f, g, "dnskey", f.live["dnskey"] \cup Keys(id, c))
  <2>1. \A r \in Keys(id, c) : r.id = id /\ Owned(b, "dnskey", r) /\ Refers(b, "dnskey", r)
    BY <1>2, <1>4, KeysFit
  <2>2. QED
    BY <2>1, <1>6, <1>11, <1>13, EditsWith
<1>15. \A r \in Links(id, d, c.add) :
          r.id = id /\ Owned(b, "keyset_contact_map", r) /\ Refers(b, "keyset_contact_map", r)
  <2>1. \A i : IsLive(d, "contact", i) => IsLive(b, "contact", i)
    BY <1>4, CreatesObjects DEF Sound
  <2>2. QED
    BY <2>1, <1>4, <1>5, <1>6, LinksFitTables
<1>16. PICK l : l = With(g, "keyset_contact_map", Links(id, d, c.add))
  OBVIOUS
<1>17. Edits(b, l, id, tables)
       /\ Puts(g, l, "keyset_contact_map", g.live["keyset_contact_map"] \cup Links(id, d, c.add))
  BY <1>6, <1>14, <1>15, <1>16, EditsWith
<1>18. OneRow(l, type, id) /\ l.states = b.states
  BY <1>2, <1>6, <1>11, <1>12, <1>14, <1>17 DEF Puts, OneRow, Rows
<1>19. CreateKeyset(d, c, now) = Copied(l, id, tables)
  BY <1>1, <1>2, <1>3, <1>5, <1>8, <1>10, <1>13, <1>16, TablesOfTypes
     DEF CreateKeyset, CopyKeyset
<1>20. QED
  BY <1>1, <1>2, <1>4, <1>5, <1>17, <1>18, <1>19, CreateWrites

LEMMA UpdateKeysetWrites ==
    ASSUME NEW d, NEW c, NEW now \in Nat, Sound(d), NEW id, id = IdOf(d, "keyset", c.name),
           IsLive(d, "keyset", id), AreContacts(d, c.add)
    PROVE  /\ Writes(d, UpdateKeyset(d, c, now), "keyset", id, now)
           /\ UpdateKeyset(d, c, now).merged = d.merged
           /\ UpdateKeyset(d, c, now).states = d.states
           /\ UpdateKeyset(d, c, now).live["keyset_contact_map"] =
                 LinksAfter(d, "keyset_contact_map", id, c)
<1>1. PICK type \in Types : type = "keyset"
  BY DEF Types
<1>2. PICK b : b = UpdateObject(d, id, c, now)
  OBVIOUS
<1>3. Begun(d, b, id) /\ NewHead(d, b, id, now) /\ IsLive(b, type, id)
  BY <1>1, <1>2, UpdateObjectBegins
<1>4. PICK tables \in SUBSET Tables : tables = TablesOf(type)
  BY TablesOfTypes
<1>5. /\ {"keyset", "dnskey", "keyset_contact_map"} \subseteq tables
      /\ "keyset_contact_map" \in LinkTables /\ "object" \notin tables /\ type \in Tables
  BY <1>1, <1>4, TablesOfTypes DEF KeysetTables, LinkTables
<1>6. Edits(b, b, id, tables)
  BY <1>3, EditsBegin
<1>7. /\ b.live["keyset"] = d.live["keyset"] /\ b.states = d.states
      /\ b.live["keyset_contact_map"] = d.live["keyset_contact_map"]
  BY <1>3, <1>5 DEF Begun
<1>8. OneRow(b, "keyset", id)
  <2>1. OneRow(d, "keyset", id)
    BY <1>1 DEF Sound, RowsOfAll, IsLive
  <2>2. QED
    BY <2>1, <1>7 DEF OneRow, Rows
<1>9. SameNamed(d, b)
  BY <1>3, NewHeadSameNamed DEF Sound
<1>10. PICK f : f = SetLinks(b, "keyset_contact_map", id, c)
  OBVIOUS
<1>11. /\ Edits(b, f, id, tables)
       /\ f.live["keyset_contact_map"] = LinksAfter(d, "keyset_contact_map", id, c)
       /\ f.states = b.states /\ \A u \in Tables \ {"keyset_contact_map"} : f.live[u] = b.live[u]
  <2>1. PICK t \in LinkTables : t = "keyset_contact_map"
    BY <1>5
  <2>2. LinksCanBeSet(d, b, b, type, id, c, tables, t)
    <3>1. t \in LinkTables /\ t \in tables /\ b.live[t] = d.live[t]
      BY <2>1, <1>5, <1>7
    <3>2. /\ tables = TablesOf(type) /\ IsLive(b, type, id) /\ Edits(b, b, id, tables)
          /\ SameNamed(d, b) /\ AreContacts(d, c.add)
      BY <1>1, <1>3, <1>4, <1>6, <1>9
    <3>3. QED
      BY <3>1, <3>2, <1>1, <1>4 DEF LinksCanBeSet
  <2>3. LinksSet(d, b, b, SetLinks(b, t, id, c), id, c, tables, t)
    BY <2>2, SetLinksEdits
  <2>4. QED
    BY <2>1, <2>3, <1>10 DEF LinksSet
<1>12. PICK X \in SUBSET f.live["dnskey"] :
         X = {r \in f.live["dnskey"] : ~(r.id = id /\ r.key \in c.drop)}
  OBVIOUS
<1>13. PICK g : g = [f EXCEPT !.live["dnskey"] = X]
  OBVIOUS
<1>14. Edits(b, g, id, tables) /\ Puts(f, g, "dnskey", X)
  BY <1>5, <1>11, <1>12, <1>13, EditsLess
<1>15. PICK k : k = With(g, "dnskey", Keys(id, c))
  OBVIOUS
<1>16. Edits(b, k, id, tables) /\ Puts(g, k, "dnskey", g.live["dnskey"] \cup Keys(id, c))
  <2>1. \A r \in Keys(id, c) : r.id = id /\ Owned(b, "dnskey", r) /\ Refers(b, "dnskey", r)
    BY <1>1, <1>3, KeysFit
  <2>2. QED
    BY <2>1, <1>5, <1>14, <1>15, EditsWith
<1>17. /\ k.live["keyset_contact_map"] = f.live["keyset_contact_map"]
       /\ k.live["keyset"] = b.live["keyset"] /\ k.states = b.states
  BY <1>5, <1>11, <1>14, <1>16 DEF Puts
<1>18. OneRow(k, type, id)
  BY <1>1, <1>8, <1>17 DEF OneRow, Rows
<1>19. PICK l : l = Copied(k, id, tables)
  OBVIOUS
<1>20. Writes(d, l, type, id, now) /\ l.live = k.live /\ l.states = k.states /\ l.merged = d.merged
  BY <1>3, <1>4, <1>16, <1>18, <1>19, UpdateWrites
<1>21. l = UpdateKeyset(d, c, now)
  BY <1>1, <1>2, <1>4, <1>10, <1>12, <1>13, <1>15, <1>19, TablesOfTypes
     DEF UpdateKeyset, CopyKeyset, Without
<1>22. QED
  BY <1>1, <1>7, <1>11, <1>17, <1>20, <1>21

-----------------------------------------------------------------------------
(* Domains                                                                 *)

LEMMA DomainRowFits ==
    ASSUME NEW b, NEW id, IsLive(b, "domain", id), NEW r, r.id = id,
           {"id", "registrant", "nsset", "keyset"} \subseteq DOMAIN r,
           IsLive(b, "contact", r.registrant), r.nsset = None \/ IsLive(b, "nsset", r.nsset),
           r.keyset = None \/ IsLive(b, "keyset", r.keyset)
    PROVE  Owned(b, "domain", r) /\ Refers(b, "domain", r)
<1>1. "domain" \in Types /\ "domain" \in TablesOf("domain")
  BY TablesOfTypes DEF Types
<1>2. Refers(b, "domain", r)
  BY DEF Refers, LinkTables
<1>3. QED
  BY <1>1, <1>2, OwnedBy

(* What an operation makes a domain refer to is registered.                *)
LEMMA TargetIsLive ==
    ASSUME NEW d, NEW type, NEW name, TargetFits(d, type, name), name # Keep
    PROVE  /\ name = None => Target(d, type, name) = None
           /\ name # None => IsLive(d, type, Target(d, type, name))
  BY NamedIsLive DEF Target, TargetFits

LEMMA EnumvalFits ==
    ASSUME NEW b, NEW id, IsLive(b, "domain", id), NEW r, "id" \in DOMAIN r, r.id = id
    PROVE  Owned(b, "enumval", r) /\ Refers(b, "enumval", r)
<1>1. /\ "domain" \in Types /\ "enumval" \in TablesOf("domain")
      /\ "enumval" \notin LinkTables \cup {"contact", "domain"}
  BY TablesOfTypes DEF Types, DomainTables, LinkTables
<1>2. QED
  BY <1>1, PlainFits

LEMMA CreateDomainCreates ==
    ASSUME NEW d, NEW c, NEW now \in Nat, Sound(d), c.type = "domain", AreContacts(d, c.add),
           TargetsFit(d, c), c.registrant \notin {None, Keep}, Keep \notin {c.nsset, c.keyset}
    PROVE  Creates(d, CreateDomain(d, c, now), c, now) /\ CreateDomain(d, c, now).merged = d.merged
<1>1. PICK id : id = Len(d.registry) + 1
  OBVIOUS
<1>2. PICK type \in Types : type = "domain"
  BY DEF Types
<1>3. PICK b : b = CreateObject(d, c, now)
  OBVIOUS
<1>4. Begun(d, b, id) /\ FirstHead(d, b, c, now) /\ IsLive(b, type, id)
  BY <1>1, <1>2, <1>3, CreateObjectBegins
<1>5. PICK tables \in SUBSET Tables : tables = TablesOf(type)
  BY TablesOfTypes
<1>6. /\ {"domain", "domain_contact_map", "enumval"} \subseteq tables /\ type \in tables
      /\ "domain_contact_map" \in LinkTables /\ "domain" \in Tables /\ "object" \notin tables
  BY <1>2, <1>5, TablesOfTypes DEF DomainTables, LinkTables
<1>7. Edits(b, b, id, tables)
  BY <1>4, EditsBegin
<1>8. PICK row : row = [id |-> id, registrant |-> Target(d, "contact", c.registrant),
                        nsset |-> Target(d, "nsset", c.nsset),
                        keyset |-> Target(d, "keyset", c.keyset), exdate |-> c.value]
  OBVIOUS
<1>9. \A ty, i : IsLive(d, ty, i) => IsLive(b, ty, i)
  BY <1>4, CreatesObjects DEF Sound
<1>10. row.id = id /\ Owned(b, "domain", row) /\ Refers(b, "domain", row)
  <2>1. row.id = id /\ {"id", "registrant", "nsset", "keyset"} \subseteq DOMAIN row
    BY <1>8
  <2>2. /\ TargetFits(d, "contact", c.registrant) /\ TargetFits(d, "nsset", c.nsset)
        /\ TargetFits(d, "keyset", c.keyset)
    BY DEF TargetsFit
  <2>3. IsLive(b, "contact", row.registrant)
    BY <2>2, <1>8, <1>9, TargetIsLive
  <2>4. row.nsset = None \/ IsLive(b, "nsset", row.nsset)
    BY <2>2, <1>8, <1>9, TargetIsLive
  <2>5. row.keyset = None \/ IsLive(b, "keyset", row.keyset)
    BY <2>2, <1>8, <1>9, TargetIsLive
  <2>6. QED
    BY <2>1, <2>3, <2>4, <2>5, <1>2, <1>4, DomainRowFits
<1>11. PICK f : f = With(b, "domain", {row})
  OBVIOUS
<1>12. Edits(b, f, id, tables) /\ Puts(b, f, "domain", b.live["domain"] \cup {row})
  BY <1>6, <1>7, <1>10, <1>11, EditsWith
<1>13. OneRow(f, "domain", id)
  <2>1. b.live["domain"] = d.live["domain"]
    BY <1>4, <1>6 DEF Begun
  <2>2. Rows(b, "domain", id) = {}
    BY <2>1, <1>1, <1>6, NoRowsYet DEF Rows
  <2>3. QED
    BY <2>2, <1>10, <1>12, FirstRow DEF Puts
<1>14. \A r \in Links(id, d, c.add) :
          r.id = id /\ Owned(b, "domain_contact_map", r) /\ Refers(b, "domain_contact_map", r)
  BY <1>4, <1>5, <1>6, <1>9, LinksFitTables
<1>15. PICK g : g = With(f, "domain_contact_map", Links(id, d, c.add))
  OBVIOUS
<1>16. Edits(b, g, id, tables)
       /\ Puts(f, g, "domain_contact_map", f.live["domain_contact_map"] \cup Links(id, d, c.add))
  BY <1>6, <1>12, <1>14, <1>15, EditsWith
<1>17. PICK rows : rows = {[id |-> id, exdate |-> x] : x \in c.put}
  OBVIOUS
<1>18. \A r \in rows : r.id = id /\ Owned(b, "enumval", r) /\ Refers(b, "enumval", r)
  <2>1. \A r \in rows : r.id = id /\ "id" \in DOMAIN r
    BY <1>17
  <2>2. QED
    BY <2>1, <1>2, <1>4, EnumvalFits
<1>19. PICK k : k = With(g, "enumval", rows)
  OBVIOUS
<1>20. Edits(b, k, id, tables) /\ Puts(g, k, "enumval", g.live["enumval"] \cup rows)
  BY <1>6, <1>16, <1>18, <1>19, EditsWith
<1>21. OneRow(k, type, id) /\ k.states = b.states
  BY <1>2, <1>6, <1>12, <1>13, <1>16, <1>20 DEF Puts, OneRow, Rows
<1>22. CreateDomain(d, c, now) = Copied(k, id, tables)
  BY <1>1, <1>2, <1>3, <1>5, <1>8, <1>11, <1>15, <1>17, <1>19, TablesOfTypes
     DEF CreateDomain, CopyDomain
<1>23. QED
  BY <1>1, <1>2, <1>4, <1>5, <1>20, <1>21, <1>22, CreateWrites

(* The end of the validation is altered, if there is one.                  *)
LEMMA SetEnumvalEdits ==
    ASSUME NEW b, NEW e, NEW id, NEW c, NEW tables \in SUBSET Tables, "enumval" \in tables,
           IsLive(b, "domain", id), Edits(b, e, id, tables)
    PROVE  /\ Edits(b, SetEnumval(e, id, c), id, tables)
           /\ SetEnumval(e, id, c).states = e.states
           /\ \A u \in Tables \ {"enumval"} : SetEnumval(e, id, c).live[u] = e.live[u]
<1>1. CASE c.put = {}
  BY <1>1 DEF SetEnumval
<1>2. CASE c.put # {}
  <2>1. PICK X : X = {IF r.id = id THEN [r EXCEPT !.exdate = CHOOSE x \in c.put : TRUE] ELSE r :
                      r \in e.live["enumval"]}
    OBVIOUS
  <2>2. PICK f : f = [e EXCEPT !.live["enumval"] = X]
    OBVIOUS
  <2>3. Puts(e, f, "enumval", X)
    BY <2>2, PutsTable DEF Edits
  <2>4. f = SetEnumval(e, id, c)
    BY <2>1, <2>2, <1>2 DEF SetEnumval, Alter
  <2>5. \A r \in e.live["enumval"] : r.id = id => "id" \in DOMAIN r
    BY DEF Edits, FitRows, Owned
  <2>6. ASSUME NEW r \in e.live["enumval"], r.id = id,
               NEW p, p = [r EXCEPT !.exdate = CHOOSE x \in c.put : TRUE]
        PROVE  p.id = id /\ "id" \in DOMAIN p
    BY <2>5, <2>6
  <2>7. \A r \in X \cup e.live["enumval"] : r.id # id => (r \in X <=> r \in e.live["enumval"])
    BY <2>1, <2>6
  <2>8. \A r \in X : r.id = id => "id" \in DOMAIN r
    BY <2>1, <2>6
  <2>9. \A r \in X : r.id = id => Owned(b, "enumval", r) /\ Refers(b, "enumval", r)
    BY <2>8, EnumvalFits
  <2>10. Edits(b, f, id, tables)
    BY <2>3, <2>7, <2>9, EditsPut
  <2>11. QED
    BY <2>3, <2>4, <2>10 DEF Puts
<1>3. QED
  BY <1>1, <1>2

LEMMA ChangedIsLive ==
    ASSUME NEW d, NEW type, NEW name, NEW old, TargetFits(d, type, name)
    PROVE  /\ old = None \/ IsLive(d, type, old) =>
                 Changed(d, type, name, old) = None \/ IsLive(d, type, Changed(d, type, name, old))
           /\ name # None /\ IsLive(d, type, old) => IsLive(d, type, Changed(d, type, name, old))
<1>1. CASE name = Keep
  BY <1>1 DEF Changed
<1>2. CASE name # Keep
  BY <1>2, TargetIsLive DEF Changed
<1>3. QED
  BY <1>1, <1>2

LEMMA SameNamedTargets ==
    ASSUME NEW d, NEW e, SameNamed(d, e)
    PROVE  /\ \A type, name : TargetFits(d, type, name) => TargetFits(e, type, name)
           /\ \A type, name, old : Changed(e, type, name, old) = Changed(d, type, name, old)
<1>1. /\ \A type, name : IdOf(e, type, name) = IdOf(d, type, name)
      /\ \A type, name : Exists(e, type, name) <=> Exists(d, type, name)
  BY SameNamedFacts
<1>2. QED
  BY <1>1 DEF TargetFits, Changed, Target

LEMMA SetDomainEdits ==
    ASSUME NEW b, NEW id, NEW c, NEW tables \in SUBSET Tables, "domain" \in tables,
           IsLive(b, "domain", id), Edits(b, b, id, tables), TargetsFit(b, c), c.registrant # None,
           NEW m \in b.live["domain"], Rows(b, "domain", id) = {m}
    PROVE  /\ Edits(b, SetDomain(b, id, c), id, tables)
           /\ OneRow(SetDomain(b, id, c), "domain", id)
           /\ SetDomain(b, id, c).states = b.states
           /\ \A u \in Tables \ {"domain"} : SetDomain(b, id, c).live[u] = b.live[u]
           /\ \E p \in SetDomain(b, id, c).live["domain"] :
                 /\ Rows(SetDomain(b, id, c), "domain", id) = {p}
                 /\ p.registrant = Changed(b, "contact", c.registrant, m.registrant)
<1>1. m.id = id /\ Owned(b, "domain", m) /\ Refers(b, "domain", m) /\ "domain" \in Tables
  <2>1. m.id = id
    BY DEF Rows
  <2>2. QED
    BY <2>1 DEF Edits, FitRows
<1>2. /\ {"id", "registrant", "nsset", "keyset"} \subseteq DOMAIN m
      /\ IsLive(b, "contact", m.registrant)
      /\ m.nsset = None \/ IsLive(b, "nsset", m.nsset)
      /\ m.keyset = None \/ IsLive(b, "keyset", m.keyset)
  BY <1>1 DEF Owned, Refers
<1>3. PICK p : p = [m EXCEPT !.nsset = Changed(b, "nsset", c.nsset, m.nsset),
                             !.keyset = Changed(b, "keyset", c.keyset, m.keyset),
                             !.registrant = Changed(b, "contact", c.registrant, m.registrant),
                             !.exdate = IF c.value = Keep THEN m.exdate ELSE c.value]
  OBVIOUS
<1>4. /\ DOMAIN p = DOMAIN m /\ p.id = id
      /\ p.nsset = Changed(b, "nsset", c.nsset, m.nsset)
      /\ p.keyset = Changed(b, "keyset", c.keyset, m.keyset)
      /\ p.registrant = Changed(b, "contact", c.registrant, m.registrant)
  BY <1>1, <1>2, <1>3
<1>5. /\ TargetFits(b, "contact", c.registrant) /\ TargetFits(b, "nsset", c.nsset)
      /\ TargetFits(b, "keyset", c.keyset)
  BY DEF TargetsFit
<1>6. IsLive(b, "contact", p.registrant)
  BY <1>2, <1>4, <1>5, ChangedIsLive
<1>7. p.nsset = None \/ IsLive(b, "nsset", p.nsset)
  BY <1>2, <1>4, <1>5, ChangedIsLive
<1>8. p.keyset = None \/ IsLive(b, "keyset", p.keyset)
  BY <1>2, <1>4, <1>5, ChangedIsLive
<1>9. Owned(b, "domain", p) /\ Refers(b, "domain", p)
  BY <1>2, <1>4, <1>6, <1>7, <1>8, DomainRowFits
<1>10. PICK f : f = [b EXCEPT !.live["domain"] = {IF r.id = id THEN p ELSE r : r \in b.live["domain"]}]
  OBVIOUS
<1>11. \A r \in b.live["domain"] : r.id = id => r = m
  BY DEF Rows
<1>12. {IF r.id = id THEN p ELSE r : r \in b.live["domain"]} =
       {IF r.id = id
        THEN [r EXCEPT !.nsset = Changed(b, "nsset", c.nsset, r.nsset),
                       !.keyset = Changed(b, "keyset", c.keyset, r.keyset),
                       !.registrant = Changed(b, "contact", c.registrant, r.registrant),
                       !.exdate = IF c.value = Keep THEN r.exdate ELSE c.value]
        ELSE r : r \in b.live["domain"]}
  BY <1>3, <1>11
<1>13. f = SetDomain(b, id, c)
  BY <1>10, <1>12 DEF SetDomain, Alter
<1>14. /\ Edits(b, f, id, tables) /\ Rows(f, "domain", id) = {p} /\ OneRow(f, "domain", id)
       /\ f.states = b.states /\ \A u \in Tables \ {"domain"} : f.live[u] = b.live[u]
  BY <1>4, <1>9, <1>10, EditsRow
<1>15. p \in f.live["domain"]
  BY <1>14 DEF Rows
<1>16. QED
  BY <1>4, <1>13, <1>14, <1>15

LEMMA UpdateDomainWrites ==
    ASSUME NEW d, NEW c, NEW now \in Nat, Sound(d), NEW id, id = IdOf(d, "domain", c.name),
           IsLive(d, "domain", id), AreContacts(d, c.add), TargetsFit(d, c), c.registrant # None
    PROVE  /\ Writes(d, UpdateDomain(d, c, now), "domain", id, now)
           /\ UpdateDomain(d, c, now).merged = d.merged
           /\ UpdateDomain(d, c, now).states = d.states
           /\ UpdateDomain(d, c, now).live["domain_contact_map"] =
                 LinksAfter(d, "domain_contact_map", id, c)
           /\ \A m \in Rows(d, "domain", id), p \in Rows(UpdateDomain(d, c, now), "domain", id) :
                 p.registrant = Changed(d, "contact", c.registrant, m.registrant)
<1>1. PICK type \in Types : type = "domain"
  BY DEF Types
<1>2. PICK b : b = UpdateObject(d, id, c, now)
  OBVIOUS
<1>3. Begun(d, b, id) /\ NewHead(d, b, id, now) /\ IsLive(b, type, id)
  BY <1>1, <1>2, UpdateObjectBegins
<1>4. PICK tables \in SUBSET Tables : tables = TablesOf(type)
  BY TablesOfTypes
<1>5. /\ {"domain", "domain_contact_map", "enumval"} \subseteq tables
      /\ "domain_contact_map" \in LinkTables /\ "object" \notin tables /\ type \in Tables
  BY <1>1, <1>4, TablesOfTypes DEF DomainTables, LinkTables
<1>6. Edits(b, b, id, tables)
  BY <1>3, EditsBegin
<1>7. /\ b.live["domain"] = d.live["domain"] /\ b.states = d.states
      /\ b.live["domain_contact_map"] = d.live["domain_contact_map"]
  BY <1>3, <1>5 DEF Begun
<1>8. PICK m \in b.live["domain"] : Rows(b, "domain", id) = {m} /\ Rows(d, "domain", id) = {m}
  <2>1. OneRow(d, "domain", id)
    BY <1>1 DEF Sound, RowsOfAll, IsLive
  <2>2. QED
    BY <2>1, <1>7 DEF OneRow, Rows
<1>9. SameNamed(d, b)
  BY <1>3, NewHeadSameNamed DEF Sound
<1>10. TargetsFit(b, c) /\ \A ty, name, old : Changed(b, ty, name, old) = Changed(d, ty, name, old)
  BY <1>9, SameNamedTargets DEF TargetsFit
<1>11. PICK e : e = SetDomain(b, id, c)
  OBVIOUS
<1>12. /\ Edits(b, e, id, tables) /\ OneRow(e, "domain", id) /\ e.states = b.states
       /\ \A u \in Tables \ {"domain"} : e.live[u] = b.live[u]
       /\ \E p \in e.live["domain"] :
             /\ Rows(e, "domain", id) = {p}
             /\ p.registrant = Changed(b, "contact", c.registrant, m.registrant)
  BY <1>1, <1>3, <1>5, <1>6, <1>8, <1>10, <1>11, SetDomainEdits
<1>13. PICK f : f = SetLinks(e, "domain_contact_map", id, c)
  OBVIOUS
<1>14. /\ Edits(b, f, id, tables)
       /\ f.live["domain_contact_map"] = LinksAfter(d, "domain_contact_map", id, c)
       /\ f.states = e.states /\ \A u \in Tables \ {"domain_contact_map"} : f.live[u] = e.live[u]
  <2>1. PICK t \in LinkTables : t = "domain_contact_map"
    BY <1>5
  <2>2. LinksCanBeSet(d, b, e, type, id, c, tables, t)
    <3>1. t \in LinkTables /\ t \in tables /\ e.live[t] = d.live[t]
      BY <2>1, <1>5, <1>7, <1>12
    <3>2. /\ tables = TablesOf(type) /\ IsLive(b, type, id) /\ Edits(b, e, id, tables)
          /\ SameNamed(d, b) /\ AreContacts(d, c.add)
      BY <1>1, <1>3, <1>4, <1>9, <1>12
    <3>3. QED
      BY <3>1, <3>2, <1>1, <1>4 DEF LinksCanBeSet
  <2>3. LinksSet(d, b, e, SetLinks(e, t, id, c), id, c, tables, t)
    BY <2>2, SetLinksEdits
  <2>4. QED
    BY <2>1, <2>3, <1>13 DEF LinksSet
<1>15. PICK g : g = SetEnumval(f, id, c)
  OBVIOUS
<1>16. /\ Edits(b, g, id, tables) /\ g.states = f.states
       /\ \A u \in Tables \ {"enumval"} : g.live[u] = f.live[u]
  BY <1>1, <1>3, <1>5, <1>14, <1>15, SetEnumvalEdits
<1>17. /\ g.live["domain_contact_map"] = f.live["domain_contact_map"]
       /\ g.live["domain"] = e.live["domain"]
  BY <1>5, <1>14, <1>16
<1>18. OneRow(g, type, id) /\ Rows(g, "domain", id) = Rows(e, "domain", id)
  BY <1>1, <1>12, <1>17 DEF OneRow, Rows
<1>19. PICK l : l = Copied(g, id, tables)
  OBVIOUS
<1>20. Writes(d, l, type, id, now) /\ l.live = g.live /\ l.states = g.states /\ l.merged = d.merged
  BY <1>3, <1>4, <1>16, <1>18, <1>19, UpdateWrites
<1>21. l = UpdateDomain(d, c, now)
  BY <1>1, <1>2, <1>4, <1>11, <1>13, <1>15, <1>19, TablesOfTypes DEF UpdateDomain, CopyDomain
<1>22. \A p \in Rows(l, "domain", id) :
          p.registrant = Changed(d, "contact", c.registrant, m.registrant)
  BY <1>10, <1>12, <1>18, <1>20 DEF Rows
<1>23. QED
  BY <1>1, <1>7, <1>8, <1>12, <1>14, <1>16, <1>17, <1>20, <1>21, <1>22

LEMMA RenewDomainWrites ==
    ASSUME NEW d, NEW c, NEW now \in Nat, Sound(d), NEW id, id = IdOf(d, "domain", c.name),
           IsLive(d, "domain", id)
    PROVE  /\ Writes(d, RenewDomain(d, c, now), "domain", id, now)
           /\ RenewDomain(d, c, now).merged = d.merged
<1>1. PICK type \in Types : type = "domain"
  BY DEF Types
<1>2. PICK b : b = NewVersion(d, id, now)
  OBVIOUS
<1>3. Begun(d, b, id) /\ NewHead(d, b, id, now) /\ IsLive(b, type, id)
  BY <1>1, <1>2, RenewalBegins
<1>4. PICK tables \in SUBSET Tables : tables = TablesOf(type)
  BY TablesOfTypes
<1>5. {"domain", "enumval"} \subseteq tables /\ "object" \notin tables /\ type \in Tables
  BY <1>1, <1>4, TablesOfTypes DEF DomainTables
<1>6. Edits(b, b, id, tables) /\ b.live["domain"] = d.live["domain"]
  BY <1>3, <1>5, EditsBegin DEF Begun
<1>7. PICK m \in b.live["domain"] : Rows(b, "domain", id) = {m}
  <2>1. OneRow(d, "domain", id)
    BY <1>1 DEF Sound, RowsOfAll, IsLive
  <2>2. QED
    BY <2>1, <1>6 DEF OneRow, Rows
<1>8. m.id = id /\ Owned(b, "domain", m) /\ Refers(b, "domain", m)
  <2>1. m.id = id
    BY <1>7 DEF Rows
  <2>2. QED
    BY <2>1, <1>5, <1>6 DEF Edits, FitRows
<1>9. PICK p : p = [m EXCEPT !.exdate = c.value]
  OBVIOUS
<1>10. /\ DOMAIN p = DOMAIN m /\ p.id = id /\ p.registrant = m.registrant
       /\ p.nsset = m.nsset /\ p.keyset = m.keyset
  BY <1>8, <1>9 DEF Refers, Owned
<1>11. Owned(b, "domain", p) /\ Refers(b, "domain", p)
  BY <1>8, <1>10 DEF Owned, Refers, LinkTables
<1>12. PICK e : e = [b EXCEPT !.live["domain"] = {IF r.id = id THEN p ELSE r : r \in b.live["domain"]}]
  OBVIOUS
<1>13. \A r \in b.live["domain"] : r.id = id => r = m
  BY <1>7 DEF Rows
<1>14. {IF r.id = id THEN p ELSE r : r \in b.live["domain"]} =
       {IF r.id = id THEN [r EXCEPT !.exdate = c.value] ELSE r : r \in b.live["domain"]}
  BY <1>9, <1>13
<1>15. e = Alter(b, "domain", id, LAMBDA r : [r EXCEPT !.exdate = c.value])
  BY <1>12, <1>14 DEF Alter
<1>16. Edits(b, e, id, tables) /\ OneRow(e, "domain", id)
  BY <1>5, <1>6, <1>7, <1>10, <1>11, <1>12, EditsRow
<1>17. PICK f : f = SetEnumval(e, id, c)
  OBVIOUS
<1>18. Edits(b, f, id, tables) /\ \A u \in Tables \ {"enumval"} : f.live[u] = e.live[u]
  BY <1>1, <1>3, <1>5, <1>16, <1>17, SetEnumvalEdits
<1>19. OneRow(f, type, id)
  BY <1>1, <1>5, <1>16, <1>18 DEF OneRow, Rows
<1>20. PICK l : l = Copied(f, id, tables)
  OBVIOUS
<1>21. Writes(d, l, type, id, now) /\ l.merged = d.merged
  BY <1>3, <1>4, <1>18, <1>19, <1>20, UpdateWrites
<1>22. l = RenewDomain(d, c, now)
  BY <1>1, <1>2, <1>4, <1>15, <1>17, <1>20, TablesOfTypes DEF RenewDomain, CopyDomain
<1>23. QED
  BY <1>1, <1>21, <1>22

-----------------------------------------------------------------------------
(* Transfers, deletions and requests of states                             *)

LEMMA TransferWrites ==
    ASSUME NEW d, NEW c, NEW now \in Nat, Sound(d), NEW type \in Types, type = c.type,
           NEW id, id = IdOf(d, c.type, c.name), IsLive(d, c.type, id)
    PROVE  /\ Writes(d, Copied(Transferred(d, c, now), id, TablesOf(type)), type, id, now)
           /\ Copied(Transferred(d, c, now), id, TablesOf(type)).merged = d.merged
           /\ \A t \in Tables \ {"object"} :
                 Copied(Transferred(d, c, now), id, TablesOf(type)).live[t] = d.live[t]
<1>1. PICK b : b = Transferred(d, c, now)
  OBVIOUS
<1>2. Begun(d, b, id) /\ NewHead(d, b, id, now) /\ IsLive(b, type, id)
  BY <1>1, TransferredBegins
<1>3. Edits(b, b, id, TablesOf(type))
  BY <1>2, EditsBegin
<1>4. type \in Tables \ {"object"}
  BY TablesOfTypes DEF Types
<1>5. b.live[type] = d.live[type] /\ \A t \in Tables \ {"object"} : b.live[t] = d.live[t]
  BY <1>2, <1>4 DEF Begun
<1>6. OneRow(b, type, id)
  <2>1. OneRow(d, type, id)
    BY DEF Sound, RowsOfAll, IsLive
  <2>2. QED
    BY <2>1, <1>5 DEF OneRow, Rows
<1>7. PICK l : l = Copied(b, id, TablesOf(type))
  OBVIOUS
<1>8. Writes(d, l, type, id, now) /\ l.live = b.live /\ l.merged = d.merged
  BY <1>2, <1>3, <1>6, <1>7, UpdateWrites
<1>9. QED
  BY <1>1, <1>5, <1>7, <1>8

LEMMA ErasedErases ==
    ASSUME NEW d, NEW type \in Types, NEW id, NEW now \in Nat, Sound(d), IsLive(d, type, id)
    PROVE  /\ Erases(d, Erased(d, id, now, TablesOf(type)), id, now)
           /\ Erased(d, id, now, TablesOf(type)).merged = d.merged
<1>1. /\ Shape(d) /\ Typed(d) /\ RowsFit(d) /\ id \in DOMAIN d.registry
      /\ d.registry[id].historyid \in DOMAIN d.history
  <2>1. d.registry[id].historyid \in VersionsOf(d, id) /\ VersionsFit(d)
    BY DEF Sound, Chains, ChainOf, IsLive
  <2>2. QED
    BY <2>1 DEF Sound, IsLive, VersionsOf, VersionsFit, Tables
<1>2. PICK tables \in SUBSET Tables : tables = TablesOf(type) /\ "object" \notin tables
  BY TablesOfTypes
<1>3. PICK f : f = [d EXCEPT !.live = [t \in Tables |-> IF t \in tables THEN @[t] \ Rows(d, t, id)
                                                                       ELSE @[t]]]
  OBVIOUS
<1>4. /\ DOMAIN f = DOMAIN d /\ f.registry = d.registry /\ f.history = d.history
      /\ f.kept = d.kept /\ f.states = d.states /\ f.merged = d.merged
      /\ f.live = [t \in Tables |-> IF t \in tables THEN d.live[t] \ Rows(d, t, id) ELSE d.live[t]]
  BY <1>1, <1>3 DEF Shape
<1>5. PICK hid : hid = d.registry[id].historyid
  OBVIOUS
<1>6. PICK closed : closed = [k \in DOMAIN d.history |->
          IF k = hid THEN [d.history[k] EXCEPT !.to = now, !.next = None] ELSE d.history[k]]
  OBVIOUS
<1>7. PICK x : x = Closed(f, id, now, None)
  OBVIOUS
<1>8. /\ DOMAIN x = DOMAIN d /\ x.history = closed /\ x.registry = d.registry
      /\ x.live = f.live /\ x.states = d.states /\ x.merged = d.merged /\ x.kept = d.kept
  BY <1>1, <1>4, <1>5, <1>6, <1>7 DEF Closed, Shape
<1>9. PICK y : y = [x EXCEPT !.registry[id].erased = now]
  OBVIOUS
<1>10. /\ DOMAIN y = DOMAIN d /\ y.history = closed
       /\ y.registry = [d.registry EXCEPT ![id] = [d.registry[id] EXCEPT !.erased = now]]
       /\ y.live = f.live /\ y.states = d.states /\ y.merged = d.merged /\ y.kept = d.kept
  BY <1>1, <1>8, <1>9 DEF Shape
<1>11. PICK X : X = {r \in f.live["object"] : ~(r.id = id /\ TRUE)}
  OBVIOUS
<1>12. PICK z : z = [y EXCEPT !.live["object"] = X]
  OBVIOUS
<1>13. z = Erased(d, id, now, TablesOf(type))
  BY <1>2, <1>3, <1>7, <1>9, <1>10, <1>11, <1>12 DEF Erased, DeleteObject, Without
<1>14. /\ DOMAIN z = DOMAIN d /\ z.history = closed /\ z.registry = y.registry
       /\ z.states = d.states /\ z.merged = d.merged /\ z.kept = d.kept
       /\ DOMAIN z.live = Tables /\ z.live["object"] = X
       /\ \A t \in Tables \ {"object"} : z.live[t] = f.live[t]
  BY <1>1, <1>4, <1>10, <1>12, TablesOfTypes DEF Shape
<1>15. \A t \in Tables : z.live[t] = {r \in d.live[t] : r.id # id}
  <2> SUFFICES ASSUME NEW t \in Tables
               PROVE  z.live[t] = {r \in d.live[t] : r.id # id}
    OBVIOUS
  <2>1. CASE t = "object"
    BY <2>1, <1>2, <1>4, <1>11, <1>14
  <2>2. CASE t \in tables
    BY <2>2, <1>2, <1>4, <1>14 DEF Rows
  <2>3. CASE t \notin tables \cup {"object"}
    <3>1. z.live[t] = d.live[t]
      BY <2>3, <1>4, <1>14
    <3>2. \A r \in d.live[t] : r.id # id
      BY <2>3, <1>1, <1>2 DEF RowsFit, Owned, IsLive
    <3>3. QED
      BY <3>1, <3>2
  <2>4. QED
    BY <2>1, <2>2, <2>3
<1>16. IsList(closed)
  <2>1. DOMAIN d.history = 1..Len(d.history) /\ Len(d.history) \in Nat
    BY <1>1, ListFacts DEF Shape
  <2>2. closed = [k \in 1..Len(d.history) |-> closed[k]]
    BY <2>1, <1>6
  <2>3. QED
    BY <2>1, <2>2, IntervalIsList
<1>17. IsList(z.registry) /\ DOMAIN z.registry = DOMAIN d.registry
  BY <1>1, <1>10, <1>14, ChangeInList DEF Shape
<1>18. Shape(z)
  BY <1>1, <1>14, <1>16, <1>17 DEF Shape
<1>19. LastHead(d, z, id, now)
  <2>1. DOMAIN z.history = DOMAIN d.history
    BY <1>6, <1>14
  <2>2. \A k \in DOMAIN d.history :
          z.history[k] = IF k = hid THEN [d.history[k] EXCEPT !.to = now, !.next = None]
                         ELSE d.history[k]
    BY <1>6, <1>14
  <2>3. \A i \in DOMAIN d.registry :
          z.registry[i] = IF i = id THEN [d.registry[i] EXCEPT !.erased = now] ELSE d.registry[i]
    BY <1>10, <1>14
  <2>4. QED
    BY <2>1, <2>2, <2>3, <1>5, <1>17 DEF LastHead
<1>20. QED
  BY <1>13, <1>14, <1>15, <1>18, <1>19 DEF Erases

(* What the tables say besides the states of objects is sound without them *)
LEMMA StatesSound ==
    ASSUME NEW d, Sound(d), NEW X, \A s \in X : s.id \in DOMAIN d.registry,
           NEW e, e = [d EXCEPT !.states = X]
    PROVE  /\ Sound(e) /\ e.states = X
           /\ e.registry = d.registry /\ e.history = d.history /\ e.live = d.live
           /\ e.kept = d.kept /\ e.merged = d.merged
<1>1. /\ Shape(e) /\ e.states = X
      /\ e.registry = d.registry /\ e.history = d.history /\ e.live = d.live
      /\ e.kept = d.kept /\ e.merged = d.merged
  BY DEF Sound, Shape
<1>2. Typed(e)
  BY <1>1 DEF Sound, Typed, EntryFits, VersionFits
<1>3. \A type, i : IsLive(e, type, i) <=> IsLive(d, type, i)
  BY <1>1 DEF IsLive
<1>4. RowsFit(e)
  BY <1>1, <1>3, SameFits DEF Sound, RowsFit
<1>5. RowsOfAll(e)
  BY <1>1, <1>3 DEF Sound, RowsOfAll, OneRow, Rows
<1>6. NamesDiffer(e)
  BY <1>1, <1>3 DEF Sound, NamesDiffer
<1>7. VersionsFit(e)
  BY <1>1 DEF Sound, VersionsFit, KeptRefers
<1>8. Chains(e)
  BY <1>1 DEF Sound, Chains, ChainOf, VersionsOf
<1>9. CurrentShown(e)
  BY <1>1 DEF Sound, CurrentShown, Shows, Rows
<1>10. QED
  BY <1>1, <1>2, <1>4, <1>5, <1>6, <1>7, <1>8, <1>9 DEF Sound

-----------------------------------------------------------------------------
(* What no operation changes                                               *)

(* Of an object: what was registered; of a version: its rows               *)
Grows(d, e) ==
    /\ DOMAIN d.registry \subseteq DOMAIN e.registry
    /\ \A i \in DOMAIN d.registry :
          /\ e.registry[i].type = d.registry[i].type /\ e.registry[i].name = d.registry[i].name
          /\ e.registry[i].crid = d.registry[i].crid
          /\ e.registry[i].created = d.registry[i].created
          /\ d.registry[i].erased # None => e.registry[i].erased = d.registry[i].erased
    /\ DOMAIN d.history \subseteq DOMAIN e.history
    /\ \A t \in Tables : \A h \in DOMAIN d.history : Shows(e, h, t) = Shows(d, h, t)

(* Contacts that stay have the same data.                                  *)
SameData(d, e) ==
    \A i \in DOMAIN d.registry : e.registry[i].erased = None => ValuesOf(e, i) = ValuesOf(d, i)

(* They have the same data or leave the final states of a verification.    *)
Steady(d, e) ==
    \A f \in d.states \cap e.states :
        f.state \in FinalStates /\ e.registry[f.id].erased = None =>
            ValuesOf(e, f.id) = ValuesOf(d, f.id)

LEMMA GrowsFurther ==
    ASSUME NEW d, NEW e, NEW f, Grows(d, e), Grows(e, f)
    PROVE  Grows(d, f)
<1>1. DOMAIN d.registry \subseteq DOMAIN f.registry /\ DOMAIN d.history \subseteq DOMAIN f.history
  BY DEF Grows
<1>2. \A t \in Tables : \A h \in DOMAIN d.history : Shows(f, h, t) = Shows(d, h, t)
  BY DEF Grows
<1>3. ASSUME NEW i \in DOMAIN d.registry
      PROVE  /\ f.registry[i].type = d.registry[i].type /\ f.registry[i].name = d.registry[i].name
             /\ f.registry[i].crid = d.registry[i].crid
             /\ f.registry[i].created = d.registry[i].created
             /\ d.registry[i].erased # None => f.registry[i].erased = d.registry[i].erased
  BY DEF Grows
<1>4. QED
  BY <1>1, <1>2, <1>3 DEF Grows

LEMMA SameDataFurther ==
    ASSUME NEW d, NEW e, NEW f, Grows(d, e), Grows(e, f), SameData(d, e), SameData(e, f)
    PROVE  SameData(d, f)
  BY DEF Grows, SameData

LEMMA SameDataSteady ==
    ASSUME NEW d, NEW e, Typed(d), SameData(d, e)
    PROVE  Steady(d, e)
  BY DEF Typed, SameData, Steady

LEMMA SameTablesGrow ==
    ASSUME NEW d, NEW e, e.registry = d.registry, e.history = d.history,
           e.live = d.live, e.kept = d.kept
    PROVE  Grows(d, e) /\ SameData(d, e)
  BY DEF Grows, SameData, Shows, ValuesOf, Rows

LEMMA WritesGrow ==
    ASSUME NEW d, NEW e, NEW type \in Types, NEW id, NEW now, Sound(d), IsLive(d, type, id),
           Writes(d, e, type, id, now)
    PROVE  /\ Grows(d, e) /\ SameNamed(d, e)
           /\ \A i : i # id => ValuesOf(e, i) = ValuesOf(d, i)
           /\ type # "contact" => e.live["contact"] = d.live["contact"] /\ SameData(d, e)
<1>1. /\ Typed(d) /\ Shape(d) /\ VersionsFit(d)
      /\ NewHead(d, e, id, now) /\ KeepsRows(d, e, id) /\ OthersStay(d, e, id)
  BY DEF Sound, Writes
<1>2. /\ DOMAIN e.registry = DOMAIN d.registry /\ DOMAIN d.history \subseteq DOMAIN e.history
  BY <1>1 DEF NewHead
<1>3. \A i \in DOMAIN d.registry :
          /\ e.registry[i].type = d.registry[i].type /\ e.registry[i].name = d.registry[i].name
          /\ e.registry[i].crid = d.registry[i].crid
          /\ e.registry[i].created = d.registry[i].created
          /\ e.registry[i].erased = d.registry[i].erased
  BY <1>1, SameObjects
<1>4. \A t \in Tables : \A h \in DOMAIN d.history : Shows(e, h, t) = Shows(d, h, t)
  BY <1>1, KeepsShown
<1>5. Grows(d, e) /\ SameNamed(d, e)
  BY <1>1, <1>2, <1>3, <1>4, NewHeadSameNamed DEF Grows
<1>6. \A i : i # id => ValuesOf(e, i) = ValuesOf(d, i)
  <2>1. "contact" \in Tables
    BY TablesOfTypes DEF Types
  <2>2. QED
    BY <2>1, <1>1 DEF OthersStay, ValuesOf, Rows
<1>7. ASSUME type # "contact"
      PROVE  e.live["contact"] = d.live["contact"]
  <2>1. "contact" \in Tables /\ "contact" \notin {"object"} \cup TablesOf(type)
    BY <1>7 DEF Types, Tables, TablesOf, ContactTables, NssetTables, KeysetTables, DomainTables
  <2>2. QED
    BY <2>1, WritesElsewhere
<1>8. QED
  BY <1>5, <1>6, <1>7 DEF SameData, ValuesOf, Rows

LEMMA CreatesGrow ==
    ASSUME NEW d, NEW e, NEW c, NEW now, Sound(d), Creates(d, e, c, now)
    PROVE  Grows(d, e) /\ SameData(d, e)
<1>1. PICK id : id = Len(d.registry) + 1
  OBVIOUS
<1>2. /\ Shape(d) /\ VersionsFit(d) /\ id \notin DOMAIN d.registry
      /\ FirstHead(d, e, c, now) /\ KeepsRows(d, e, id) /\ OthersStay(d, e, id)
  BY <1>1, ListFacts DEF Sound, Creates, Shape
<1>3. /\ DOMAIN d.registry \subseteq DOMAIN e.registry /\ DOMAIN d.history \subseteq DOMAIN e.history
      /\ \A i \in DOMAIN d.registry : e.registry[i] = d.registry[i]
  BY <1>2 DEF FirstHead
<1>4. \A t \in Tables : \A h \in DOMAIN d.history : Shows(e, h, t) = Shows(d, h, t)
  BY <1>2, KeepsShown
<1>5. Grows(d, e)
  BY <1>3, <1>4 DEF Grows
<1>6. SameData(d, e)
  <2>1. "contact" \in Tables
    BY TablesOfTypes DEF Types
  <2>2. QED
    BY <2>1, <1>2 DEF SameData, OthersStay, ValuesOf, Rows
<1>7. QED
  BY <1>5, <1>6

LEMMA ErasesGrow ==
    ASSUME NEW d, NEW e, NEW type, NEW id, NEW now \in Nat, Sound(d), IsLive(d, type, id),
           Erases(d, e, id, now)
    PROVE  Grows(d, e) /\ SameData(d, e)
<1>1. /\ Typed(d) /\ LastHead(d, e, id, now) /\ e.kept = d.kept
      /\ \A t \in Tables : e.live[t] = {r \in d.live[t] : r.id # id}
  BY DEF Sound, Erases
<1>2. DOMAIN e.registry = DOMAIN d.registry /\ DOMAIN e.history = DOMAIN d.history
  BY <1>1 DEF LastHead
<1>3. \A i \in DOMAIN d.registry :
         /\ e.registry[i].type = d.registry[i].type /\ e.registry[i].name = d.registry[i].name
         /\ e.registry[i].crid = d.registry[i].crid
         /\ e.registry[i].created = d.registry[i].created
         /\ e.registry[i].erased = IF i = id THEN now ELSE d.registry[i].erased
  BY <1>1, ErasesObjects
<1>4. d.registry[id].erased = None /\ now # None
  BY NullIsNoTime DEF IsLive
<1>5. \A t \in Tables : \A h \in DOMAIN d.history : Shows(e, h, t) = Shows(d, h, t)
  BY <1>1 DEF Shows
<1>6. Grows(d, e)
  BY <1>2, <1>3, <1>4, <1>5 DEF Grows
<1>7. SameData(d, e)
  <2>1. "contact" \in Tables
    BY TablesOfTypes DEF Types
  <2>2. e.live["contact"] = {r \in d.live["contact"] : r.id # id}
    BY <2>1, <1>1
  <2>3. \A i : i # id => ValuesOf(e, i) = ValuesOf(d, i)
    BY <2>2 DEF ValuesOf, Rows
  <2>4. QED
    BY <2>3, <1>3, <1>4 DEF SameData
<1>8. QED
  BY <1>6, <1>7

-----------------------------------------------------------------------------
(* Every operation on one object                                           *)

Follows(d, e) == Sound(e) /\ Grows(d, e) /\ Steady(d, e)

LEMMA WritesFollow ==
    ASSUME NEW d, NEW e, NEW type \in Types, NEW id, NEW now \in Nat, Sound(d),
           IsLive(d, type, id), Writes(d, e, type, id, now), type # "contact" \/ SameData(d, e)
    PROVE  Follows(d, e)
  BY WritesSound, WritesGrow, SameDataSteady DEF Follows, Sound

LEMMA CreatesFollow ==
    ASSUME NEW d, NEW e, NEW c, NEW now \in Nat, Sound(d), c.type \in Types,
           ~Exists(d, c.type, c.name), Creates(d, e, c, now)
    PROVE  Follows(d, e)
  BY CreatesSound, CreatesGrow, SameDataSteady DEF Follows, Sound

LEMMA UpdateContactFollows ==
    ASSUME NEW d, NEW c, NEW now \in Nat, Sound(d), Exists(d, "contact", c.name)
    PROVE  Follows(d, UpdateContact(d, c, now))
<1>1. PICK id : id = IdOf(d, "contact", c.name)
  OBVIOUS
<1>2. PICK type \in Types : type = "contact"
  BY DEF Types
<1>3. IsLive(d, type, id)
  BY <1>1, <1>2, NamedIsLive
<1>4. PICK e : e = UpdateContact(d, c, now)
  OBVIOUS
<1>5. /\ Writes(d, e, type, id, now)
      /\ c.value = Keep => ValuesOf(e, id) = ValuesOf(d, id)
      /\ c.value # Keep => \A s \in e.states : ~(s.id = id /\ s.state \in FinalStates)
  BY <1>1, <1>2, <1>3, <1>4, UpdateContactWrites
<1>6. /\ Sound(e) /\ Grows(d, e) /\ \A i : i # id => ValuesOf(e, i) = ValuesOf(d, i)
  BY <1>3, <1>5, WritesSound, WritesGrow
<1>7. Steady(d, e)
  <2> SUFFICES ASSUME NEW f \in d.states \cap e.states, f.state \in FinalStates
               PROVE  ValuesOf(e, f.id) = ValuesOf(d, f.id)
    BY DEF Steady
  <2>1. CASE f.id = id
    BY <2>1, <1>5
  <2>2. CASE f.id # id
    BY <2>2, <1>6
  <2>3. QED
    BY <2>1, <2>2
<1>8. QED
  BY <1>4, <1>6, <1>7 DEF Follows

LEMMA TransferFollows ==
    ASSUME NEW d, NEW c, NEW now \in Nat, Sound(d), c.type \in Types, Exists(d, c.type, c.name),
           NEW id, id = IdOf(d, c.type, c.name)
    PROVE  Follows(d, Copied(Transferred(d, c, now), id, TablesOf(c.type)))
<1>1. PICK type \in Types : type = c.type
  OBVIOUS
<1>2. IsLive(d, type, id) /\ IsLive(d, c.type, id)
  BY <1>1, NamedIsLive
<1>3. PICK e : e = Copied(Transferred(d, c, now), id, TablesOf(type))
  OBVIOUS
<1>4. Writes(d, e, type, id, now) /\ \A t \in Tables \ {"object"} : e.live[t] = d.live[t]
  BY <1>1, <1>2, <1>3, TransferWrites
<1>5. SameData(d, e)
  <2>1. "contact" \in Tables \ {"object"}
    BY TablesOfTypes DEF Types
  <2>2. QED
    BY <2>1, <1>4 DEF SameData, ValuesOf, Rows
<1>6. QED
  BY <1>1, <1>2, <1>3, <1>4, <1>5, WritesFollow

(* An object that is not linked is referred to by no row.                  *)
LEMMA ErasedFollows ==
    ASSUME NEW d, NEW type \in Types, NEW id, NEW now \in Nat, Sound(d), IsLive(d, type, id),
           type # "domain" => Unreferred(d, id)
    PROVE  Follows(d, Erased(d, id, now, TablesOf(type)))
<1>1. PICK e : e = Erased(d, id, now, TablesOf(type))
  OBVIOUS
<1>2. Erases(d, e, id, now)
  BY <1>1, ErasedErases
<1>3. Sound(e)
  BY <1>2, ErasesSound
<1>4. Grows(d, e) /\ SameData(d, e)
  BY <1>2, ErasesGrow
<1>5. QED
  BY <1>1, <1>3, <1>4, SameDataSteady DEF Follows, Sound

LEMMA DeletedFollows ==
    ASSUME NEW d, NEW c, NEW now \in Nat, Sound(d), c.type \in Types, DeleteFits(d, c)
    PROVE  Follows(d, Deleted(d, c, now))
<1>1. PICK type \in Types : type = c.type
  OBVIOUS
<1>2. PICK id : id = IdOf(d, c.type, c.name)
  OBVIOUS
<1>3. IsLive(d, type, id)
  BY <1>1, <1>2, NamedIsLive DEF DeleteFits
<1>4. type # "domain" => Unreferred(d, id)
  BY <1>1, <1>2 DEF DeleteFits, Linked, Unreferred, LinkTables
<1>5. Follows(d, Erased(d, id, now, TablesOf(type)))
  BY <1>3, <1>4, ErasedFollows
<1>6. Deleted(d, c, now) = Erased(d, id, now, TablesOf(type))
  <2>1. Deleted(d, c, now) = CASE type = "contact" -> DeleteContact(d, id, now)
                               [] type = "nsset" -> DeleteNsset(d, id, now)
                               [] type = "keyset" -> DeleteKeyset(d, id, now)
                               [] type = "domain" -> DeleteDomain(d, id, now)
    BY <1>1, <1>2 DEF Deleted
  <2>2. /\ DeleteContact(d, id, now) = Erased(d, id, now, TablesOf("contact"))
        /\ DeleteNsset(d, id, now) = Erased(d, id, now, TablesOf("nsset"))
        /\ DeleteKeyset(d, id, now) = Erased(d, id, now, TablesOf("keyset"))
        /\ DeleteDomain(d, id, now) = Erased(d, id, now, TablesOf("domain"))
    BY TablesOfTypes DEF DeleteContact, DeleteNsset, DeleteKeyset, DeleteDomain
  <2>3. QED
    BY <2>1, <2>2 DEF Types
<1>7. QED
  BY <1>5, <1>6

(* Only a state of an object is requested or cancelled.                    *)
LEMMA RequestFollows ==
    ASSUME NEW d, NEW c, Sound(d), Exists(d, c.type, c.name)
    PROVE  Follows(d, RequestState(d, c))
<1>1. PICK X : X = d.states \cup {[id |-> IdOf(d, c.type, c.name), state |-> c.value]}
  OBVIOUS
<1>2. IdOf(d, c.type, c.name) \in DOMAIN d.registry
  BY NamedIsLive DEF IsLive
<1>3. \A s \in X : s.id \in DOMAIN d.registry
  BY <1>1, <1>2 DEF Sound, Typed
<1>4. PICK e : e = [d EXCEPT !.states = X]
  OBVIOUS
<1>5. /\ Sound(e) /\ e.registry = d.registry /\ e.history = d.history /\ e.live = d.live
      /\ e.kept = d.kept
  BY <1>3, <1>4, StatesSound, SMTT(60)
<1>6. Follows(d, e)
  BY <1>5, SameTablesGrow, SameDataSteady DEF Follows, Sound
<1>7. e = RequestState(d, c)
  BY <1>1, <1>4 DEF RequestState
<1>8. QED
  BY <1>6, <1>7

LEMMA CancelFollows ==
    ASSUME NEW d, NEW c, Sound(d)
    PROVE  Follows(d, CancelFinalStatesIfChanged(d, c))
<1>1. PICK id : id = IdOf(d, "contact", c.name)
  OBVIOUS
<1>2. PICK X : X = {s \in d.states : ~(s.id = id /\ s.state \in FinalStates)}
  OBVIOUS
<1>3. PICK e : e = [d EXCEPT !.states = X]
  OBVIOUS
<1>4. \A s \in X : s.id \in DOMAIN d.registry
  BY <1>2 DEF Sound, Typed
<1>5. /\ Sound(e) /\ e.registry = d.registry /\ e.history = d.history /\ e.live = d.live
      /\ e.kept = d.kept
  BY <1>3, <1>4, StatesSound
<1>6. Follows(d, e)
  BY <1>5, SameTablesGrow, SameDataSteady DEF Follows, Sound
<1>7. Follows(d, d)
  BY SameTablesGrow, SameDataSteady DEF Follows, Sound
<1>8. CancelFinalStatesIfChanged(d, c) \in {d, e}
  BY <1>1, <1>2, <1>3 DEF CancelFinalStatesIfChanged, CancelFinalStates
<1>9. QED
  BY <1>6, <1>7, <1>8

LEMMA KindsOfCalls ==
    ASSUME NEW c, Call(c)
    PROVE  \/ c.kind = "create" /\ c.type \in {"contact", "nsset", "keyset"}
           \/ /\ c.kind = "create" /\ c.type = "domain" /\ c.registrant \notin {None, Keep}
              /\ Keep \notin {c.nsset, c.keyset}
           \/ c.kind = "update" /\ c.type \in {"contact", "nsset", "keyset"}
           \/ c.kind = "update" /\ c.type = "domain" /\ c.registrant # None
           \/ c.kind = "renew" /\ c.type = "domain"
           \/ c.kind \in {"delete", "transfer"} /\ c.type \in Types
           \/ c.kind = "request"
           \/ c.kind = "cancelVerified" /\ c.type = "contact"
<1>1. CASE CreateContactCall(c)
  BY <1>1 DEF CreateContactCall, Gives
<1>2. CASE UpdateContactCall(c)
  BY <1>2 DEF UpdateContactCall, Gives
<1>3. CASE CreateNssetCall(c)
  BY <1>3 DEF CreateNssetCall, Gives
<1>4. CASE UpdateNssetCall(c)
  BY <1>4 DEF UpdateNssetCall, Gives
<1>5. CASE CreateKeysetCall(c)
  BY <1>5 DEF CreateKeysetCall, Gives
<1>6. CASE UpdateKeysetCall(c)
  BY <1>6 DEF UpdateKeysetCall, Gives
<1>7. CASE CreateDomainCall(c)
  BY <1>7 DEF CreateDomainCall, Gives
<1>8. CASE UpdateDomainCall(c)
  BY <1>8 DEF UpdateDomainCall, Gives
<1>9. CASE RenewDomainCall(c)
  BY <1>9 DEF RenewDomainCall, Gives
<1>10. CASE OtherCall(c)
  BY <1>10 DEF OtherCall, Gives, Types
<1>11. QED
  BY <1>1, <1>2, <1>3, <1>4, <1>5, <1>6, <1>7, <1>8, <1>9, <1>10 DEF Call

(* The operation that a call asks for succeeds on sound tables, and leaves *)
(* them sound.                                                             *)
LEMMA PerformedFollows ==
    ASSUME NEW d, NEW c, NEW now \in Nat, Sound(d), Call(c), Fits(d, c)
    PROVE  Follows(d, Performed(d, c, now))
<1>1. PICK id : id = IdOf(d, c.type, c.name)
  OBVIOUS
<1>2. CASE c.kind = "create" /\ c.type = "contact"
  <2>1. CreateContactFits(d, c)
    BY <1>2 DEF Fits
  <2>2. Creates(d, CreateContact(d, c, now), c, now)
    BY <1>2, CreateContactCreates
  <2>3. ~Exists(d, c.type, c.name) /\ c.type \in Types
    BY <2>1, <1>2 DEF CreateContactFits, Types
  <2>4. Follows(d, CreateContact(d, c, now))
    BY <2>2, <2>3, CreatesFollow
  <2>5. QED
    BY <2>4, <1>2 DEF Performed
<1>3. CASE c.kind = "create" /\ c.type = "nsset"
  <2>1. CreateNssetFits(d, c)
    BY <1>3 DEF Fits
  <2>2. Creates(d, CreateNsset(d, c, now), c, now)
    BY <2>1, <1>3, CreateNssetCreates DEF CreateNssetFits
  <2>3. ~Exists(d, c.type, c.name) /\ c.type \in Types
    BY <2>1, <1>3 DEF CreateNssetFits, Types
  <2>4. Follows(d, CreateNsset(d, c, now))
    BY <2>2, <2>3, CreatesFollow
  <2>5. QED
    BY <2>4, <1>3 DEF Performed
<1>4. CASE c.kind = "create" /\ c.type = "keyset"
  <2>1. CreateKeysetFits(d, c)
    BY <1>4 DEF Fits
  <2>2. Creates(d, CreateKeyset(d, c, now), c, now)
    BY <2>1, <1>4, CreateKeysetCreates DEF CreateKeysetFits
  <2>3. ~Exists(d, c.type, c.name) /\ c.type \in Types
    BY <2>1, <1>4 DEF CreateKeysetFits, Types
  <2>4. Follows(d, CreateKeyset(d, c, now))
    BY <2>2, <2>3, CreatesFollow
  <2>5. QED
    BY <2>4, <1>4 DEF Performed
<1>5. CASE /\ c.kind = "create" /\ c.type = "domain" /\ c.registrant \notin {None, Keep}
           /\ Keep \notin {c.nsset, c.keyset}
  <2>1. CreateDomainFits(d, c)
    BY <1>5 DEF Fits
  <2>2. Creates(d, CreateDomain(d, c, now), c, now)
    BY <2>1, <1>5, CreateDomainCreates DEF CreateDomainFits
  <2>3. ~Exists(d, c.type, c.name) /\ c.type \in Types
    BY <2>1, <1>5 DEF CreateDomainFits, Types
  <2>4. Follows(d, CreateDomain(d, c, now))
    BY <2>2, <2>3, CreatesFollow
  <2>5. QED
    BY <2>4, <1>5 DEF Performed
<1>6. CASE c.kind = "update" /\ c.type = "contact"
  <2>1. UpdateContactFits(d, c)
    BY <1>6 DEF Fits
  <2>2. Follows(d, UpdateContact(d, c, now))
    BY <2>1, UpdateContactFollows DEF UpdateContactFits
  <2>3. QED
    BY <2>2, <1>6 DEF Performed
<1>7. CASE c.kind = "update" /\ c.type = "nsset"
  <2>1. UpdateNssetFits(d, c)
    BY <1>7 DEF Fits
  <2>2. /\ Exists(d, "nsset", c.name) /\ id = IdOf(d, "nsset", c.name)
        /\ AreContacts(d, c.add) /\ IsLive(d, "nsset", id)
    BY <2>1, <1>1, <1>7, NamedIsLive DEF UpdateNssetFits, LinksFit, AreContacts
  <2>3. PICK type \in Types : type = "nsset"
    BY DEF Types
  <2>4. PICK e : e = UpdateNsset(d, c, now)
    OBVIOUS
  <2>5. Writes(d, e, type, id, now)
    BY <2>2, <2>3, <2>4, UpdateNssetWrites
  <2>6. Follows(d, e)
    BY <2>2, <2>3, <2>5, WritesFollow
  <2>7. QED
    BY <2>4, <2>6, <1>7 DEF Performed
<1>8. CASE c.kind = "update" /\ c.type = "keyset"
  <2>1. UpdateKeysetFits(d, c)
    BY <1>8 DEF Fits
  <2>2. /\ Exists(d, "keyset", c.name) /\ id = IdOf(d, "keyset", c.name)
        /\ AreContacts(d, c.add) /\ IsLive(d, "keyset", id)
    BY <2>1, <1>1, <1>8, NamedIsLive DEF UpdateKeysetFits, LinksFit, AreContacts
  <2>3. PICK type \in Types : type = "keyset"
    BY DEF Types
  <2>4. PICK e : e = UpdateKeyset(d, c, now)
    OBVIOUS
  <2>5. Writes(d, e, type, id, now)
    BY <2>2, <2>3, <2>4, UpdateKeysetWrites
  <2>6. Follows(d, e)
    BY <2>2, <2>3, <2>5, WritesFollow
  <2>7. QED
    BY <2>4, <2>6, <1>8 DEF Performed
<1>9. CASE c.kind = "update" /\ c.type = "domain" /\ c.registrant # None
  <2>1. UpdateDomainFits(d, c)
    BY <1>9 DEF Fits
  <2>2. /\ Exists(d, "domain", c.name) /\ id = IdOf(d, "domain", c.name)
        /\ AreContacts(d, c.add) /\ IsLive(d, "domain", id) /\ TargetsFit(d, c)
    BY <2>1, <1>1, <1>9, NamedIsLive DEF UpdateDomainFits, LinksFit, AreContacts
  <2>3. PICK type \in Types : type = "domain"
    BY DEF Types
  <2>4. PICK e : e = UpdateDomain(d, c, now)
    OBVIOUS
  <2>5. Writes(d, e, type, id, now)
    BY <2>2, <2>3, <2>4, <1>9, UpdateDomainWrites
  <2>6. Follows(d, e)
    BY <2>2, <2>3, <2>5, WritesFollow
  <2>7. QED
    BY <2>4, <2>6, <1>9 DEF Performed
<1>10. CASE c.kind = "renew" /\ c.type = "domain"
  <2>1. RenewDomainFits(d, c)
    BY <1>10 DEF Fits
  <2>2. id = IdOf(d, "domain", c.name) /\ IsLive(d, "domain", id)
    BY <2>1, <1>1, <1>10, NamedIsLive DEF RenewDomainFits
  <2>3. PICK type \in Types : type = "domain"
    BY DEF Types
  <2>4. PICK e : e = RenewDomain(d, c, now)
    OBVIOUS
  <2>5. Writes(d, e, type, id, now)
    BY <2>2, <2>3, <2>4, RenewDomainWrites
  <2>6. Follows(d, e)
    BY <2>2, <2>3, <2>5, WritesFollow
  <2>7. QED
    BY <2>4, <2>6, <1>10 DEF Performed
<1>11. CASE c.kind = "delete" /\ c.type \in Types
  <2>1. DeleteFits(d, c)
    BY <1>11 DEF Fits
  <2>2. Follows(d, Deleted(d, c, now))
    BY <2>1, <1>11, DeletedFollows
  <2>3. QED
    BY <2>2, <1>11 DEF Performed
<1>12. CASE c.kind = "transfer" /\ c.type \in Types
  <2>1. TransferFits(d, c)
    BY <1>12 DEF Fits
  <2>2. Follows(d, Copied(Transferred(d, c, now), id, TablesOf(c.type)))
    BY <2>1, <1>1, <1>12, TransferFollows DEF TransferFits
  <2>3. Performed(d, c, now) =
           CASE c.type = "contact" -> TransferContact(d, c, now)
             [] c.type = "nsset" -> TransferNsset(d, c, now)
             [] c.type = "keyset" -> TransferKeyset(d, c, now)
             [] c.type = "domain" -> TransferDomain(d, c, now)
    BY <1>12 DEF Performed, Types
  <2>4. Performed(d, c, now) = Copied(Transferred(d, c, now), id, TablesOf(c.type))
    BY <2>3, <1>1, <1>12, TablesOfTypes
       DEF Types, TransferContact, TransferNsset, TransferKeyset, TransferDomain,
           CopyContact, CopyNsset, CopyKeyset, CopyDomain
  <2>5. QED
    BY <2>2, <2>4
<1>13. CASE c.kind = "request"
  <2>1. Exists(d, c.type, c.name)
    BY <1>13 DEF Fits
  <2>2. Follows(d, RequestState(d, c))
    BY <2>1, RequestFollows
  <2>3. QED
    BY <2>2, <1>13 DEF Performed
<1>14. CASE c.kind = "cancelVerified"
  BY <1>14, CancelFollows DEF Performed
<1>15. QED
  BY <1>2, <1>3, <1>4, <1>5, <1>6, <1>7, <1>8, <1>9, <1>10, <1>11, <1>12, <1>13, <1>14,
     KindsOfCalls

-----------------------------------------------------------------------------
(* The links of a merge are set one by one                                 *)

LEMMA SmallestSet ==
    ASSUME NEW S, IsFiniteSet(S), NEW F, F \subseteq SUBSET S, F # {}
    PROVE  \E T \in F : \A U \in F : U \subseteq T => U = T
<1>1. F \subseteq FiniteSubsetsOf(S)
  BY FS_Subset DEF FiniteSubsetsOf
<1>2. PICK T \in F : \A U \in F : ~(<<U, T>> \in StrictSubsetOrdering(S))
  BY <1>1, FS_StrictSubsetOrderingWellFounded, WFMin
<1>3. \A U \in F : U \subseteq T /\ U # T => <<U, T>> \in StrictSubsetOrdering(S)
  BY DEF StrictSubsetOrdering
<1>4. \A U \in F : U \subseteq T => U = T
  BY <1>2, <1>3, Zenon
<1>5. QED
  BY <1>4, Zenon

OneOf(s) == CHOOSE x \in s : TRUE

(* What FoldSet makes of each set of ids, if g is what it makes of smaller *)
(* sets                                                                    *)
Walk(g, ids, d, role, c, now) ==
    [s \in SUBSET ids |-> IF s = {} THEN d ELSE SetLink(g[s \ {OneOf(s)}], role, OneOf(s), c, now)]

Walks(g, ids, d, role, c, now) == g = Walk(g, ids, d, role, c, now)

LEMMA WalkBegins ==
    ASSUME NEW g, NEW ids, NEW d, NEW role, NEW c, NEW now, Walks(g, ids, d, role, c, now)
    PROVE  g[{}] = d
<1>1. {} \in SUBSET ids
  OBVIOUS
<1>2. QED
  BY <1>1 DEF Walks, Walk

LEMMA WalkGoesOn ==
    ASSUME NEW g, NEW ids, NEW d, NEW role, NEW c, NEW now, Walks(g, ids, d, role, c, now),
           NEW s \in SUBSET ids, s # {}
    PROVE  /\ OneOf(s) \in s
           /\ g[s] = SetLink(g[s \ {OneOf(s)}], role, OneOf(s), c, now)
<1>1. OneOf(s) \in s
  BY DEF OneOf
<1>2. g[s] = SetLink(g[s \ {OneOf(s)}], role, OneOf(s), c, now)
  BY DEF Walks, Walk
<1>3. QED
  BY <1>1, <1>2

LEMMA WalksAgree ==
    ASSUME NEW A, NEW B, IsFiniteSet(A), NEW g, NEW h, NEW d, NEW role, NEW c, NEW now,
           Walks(g, A, d, role, c, now), Walks(h, B, d, role, c, now)
    PROVE  \A s : s \subseteq A /\ s \subseteq B => g[s] = h[s]
<1> DEFINE F == {s \in SUBSET A : s \subseteq B /\ g[s] # h[s]}
<1>1. SUFFICES ASSUME F # {} PROVE FALSE
  OBVIOUS
<1>2. PICK T \in F : \A U \in F : U \subseteq T => U = T
  <2>1. PICK G : G = F
    OBVIOUS
  <2>2. G \subseteq SUBSET A /\ G # {}
    BY <2>1, <1>1
  <2>3. \E T \in G : \A U \in G : U \subseteq T => U = T
    BY <2>2, SmallestSet
  <2>4. QED
    BY <2>1, <2>3, Zenon
<1>3. T # {}
  BY WalkBegins
<1>4. /\ OneOf(T) \in T /\ T \in SUBSET A /\ T \in SUBSET B
  BY <1>3, WalkGoesOn
<1>5. T \ {OneOf(T)} \notin F
  BY <1>2, <1>4
<1>6. g[T \ {OneOf(T)}] = h[T \ {OneOf(T)}]
  BY <1>4, <1>5
<1>7. g[T] = h[T]
  BY <1>3, <1>4, <1>6, WalkGoesOn
<1>8. QED
  BY <1>7

LEMMA WalkExists ==
    ASSUME NEW ids, IsFiniteSet(ids), NEW d, NEW role, NEW c, NEW now
    PROVE  \E g : Walks(g, ids, d, role, c, now)
<1> DEFINE F == {s \in SUBSET ids : ~\E g : Walks(g, s, d, role, c, now)}
<1>1. SUFFICES ASSUME F # {} PROVE FALSE
  OBVIOUS
<1>2. PICK T \in F : \A U \in F : U \subseteq T => U = T
  <2>1. PICK G : G = F
    OBVIOUS
  <2>2. G \subseteq SUBSET ids /\ G # {}
    BY <2>1, <1>1
  <2>3. \E T \in G : \A U \in G : U \subseteq T => U = T
    BY <2>2, SmallestSet
  <2>4. QED
    BY <2>1, <2>3, Zenon
<1> DEFINE H(U) == CHOOSE g : Walks(g, U, d, role, c, now)
<1>3. \A U : U \subseteq T /\ U # T => Walks(H(U), U, d, role, c, now) /\ IsFiniteSet(U)
  <2> SUFFICES ASSUME NEW U, U \subseteq T, U # T
               PROVE  Walks(H(U), U, d, role, c, now) /\ IsFiniteSet(U)
    OBVIOUS
  <2>1. U \in SUBSET ids /\ U \notin F
    BY <1>2
  <2>2. \E g : Walks(g, U, d, role, c, now)
    BY <2>1
  <2>3. QED
    BY <2>1, <2>2, FS_Subset
<1> HIDE DEF H
<1>4. PICK k : k = [s \in SUBSET T |->
          IF s = {} THEN d
          ELSE SetLink(H(s \ {OneOf(s)})[s \ {OneOf(s)}], role, OneOf(s), c, now)]
  OBVIOUS
<1>5. ASSUME NEW U, U \subseteq T, U # T
      PROVE  k[U] = H(U)[U]
  <2>1. CASE U = {}
    <3>1. k[U] = d
      BY <2>1, <1>4
    <3>2. QED
      BY <2>1, <3>1, <1>3, <1>5, WalkBegins
  <2>2. CASE U # {}
    <3>1. PICK V : V = U \ {OneOf(U)}
      OBVIOUS
    <3>2. U \in SUBSET U /\ Walks(H(U), U, d, role, c, now) /\ IsFiniteSet(U)
      BY <1>3, <1>5
    <3>3. OneOf(U) \in U /\ H(U)[U] = SetLink(H(U)[V], role, OneOf(U), c, now)
      BY <2>2, <3>1, <3>2, WalkGoesOn
    <3>4. V \subseteq T /\ V # T /\ V \subseteq U
      BY <3>1, <3>3, <1>5
    <3>5. Walks(H(V), V, d, role, c, now)
      BY <3>4, <1>3
    <3>6. H(U)[V] = H(V)[V]
      BY <3>2, <3>4, <3>5, WalksAgree
    <3>7. k[U] = SetLink(H(V)[V], role, OneOf(U), c, now)
      BY <2>2, <3>1, <1>4, <1>5
    <3>8. QED
      BY <3>3, <3>6, <3>7
  <2>3. QED
    BY <2>1, <2>2
<1>6. \A s \in SUBSET T : s # {} => k[s \ {OneOf(s)}] = H(s \ {OneOf(s)})[s \ {OneOf(s)}]
  <2> SUFFICES ASSUME NEW s \in SUBSET T, s # {}
               PROVE  k[s \ {OneOf(s)}] = H(s \ {OneOf(s)})[s \ {OneOf(s)}]
    OBVIOUS
  <2>1. OneOf(s) \in s
    BY DEF OneOf
  <2>2. s \ {OneOf(s)} \subseteq T /\ s \ {OneOf(s)} # T
    BY <2>1
  <2>3. QED
    BY <2>2, <1>5
<1>7. k = Walk(k, T, d, role, c, now)
  BY <1>4, <1>6 DEF Walk
<1>8. Walks(k, T, d, role, c, now)
  BY <1>7 DEF Walks
<1>9. QED
  BY <1>8

LEMMA SetLinksOfWalks ==
    ASSUME NEW ids, IsFiniteSet(ids), NEW d, NEW role, NEW c, NEW now
    PROVE  \E g : Walks(g, ids, d, role, c, now) /\ SetLinksOf(d, role, ids, c, now) = g[ids]
<1>1. SetLinksOf(d, role, ids, c, now) = (CHOOSE g : g = Walk(g, ids, d, role, c, now))[ids]
  BY DEF SetLinksOf, FoldSet, MapThenFoldSet, Walk, OneOf
<1>2. PICK g : g = (CHOOSE f : Walks(f, ids, d, role, c, now))
  OBVIOUS
<1>3. Walks(g, ids, d, role, c, now)
  BY <1>2, WalkExists
<1>4. SetLinksOf(d, role, ids, c, now) = g[ids]
  BY <1>1, <1>2 DEF Walks
<1>5. QED
  BY <1>3, <1>4

-----------------------------------------------------------------------------
(* A link that a merge sets                                                *)

Roles == {"registrant", "admin", "nsset", "keyset"}
TypeOfRole(role) == IF role \in {"nsset", "keyset"} THEN role ELSE "domain"

(* The objects that name a contact in a role                               *)
Naming(d, role, i) ==
    CASE role = "registrant" -> {r.id : r \in {x \in d.live["domain"] : x.registrant = i}}
      [] role = "admin" -> Linking(d, "domain_contact_map", i)
      [] role = "nsset" -> Linking(d, "nsset_contact_map", i)
      [] role = "keyset" -> Linking(d, "keyset_contact_map", i)

(* The two contacts are there.                                             *)
Mergeable(d, c) ==
    /\ Exists(d, "contact", c.name) /\ Exists(d, "contact", Destination(c))
    /\ c.name # Destination(c) /\ Destination(c) \notin {None, Keep}

(* Links of contacts change, and nothing else that a merge reads.          *)
Relinks(d, e) ==
    /\ Sound(e) /\ Grows(d, e) /\ SameNamed(d, e)
    /\ e.live["contact"] = d.live["contact"] /\ e.states = d.states /\ e.merged = d.merged

(* Some objects do not name the contact any more, and none does anew.      *)
Leave(d, e, role, i, ids) ==
    /\ Naming(e, role, i) \cap ids = {}
    /\ \A r \in Roles : Naming(e, r, i) \subseteq Naming(d, r, i)

LEMMA MergeableIds ==
    ASSUME NEW d, NEW c, Mergeable(d, c)
    PROVE  /\ IsLive(d, "contact", IdOf(d, "contact", c.name))
           /\ IsLive(d, "contact", IdOf(d, "contact", Destination(c)))
           /\ IdOf(d, "contact", c.name) # IdOf(d, "contact", Destination(c))
<1>1. /\ d.registry[IdOf(d, "contact", c.name)].name = c.name
      /\ d.registry[IdOf(d, "contact", Destination(c))].name = Destination(c)
  BY NamedIsLive DEF Mergeable
<1>2. QED
  BY <1>1, NamedIsLive DEF Mergeable

LEMMA NameOfId ==
    ASSUME NEW d, Sound(d), NEW type \in Types, NEW id, IsLive(d, type, id)
    PROVE  Exists(d, type, d.registry[id].name) /\ IdOf(d, type, d.registry[id].name) = id
<1>1. id \in Registered(d, type, d.registry[id].name)
  BY DEF Registered, IsLive
<1>2. \A i \in Registered(d, type, d.registry[id].name) : i = id
  BY DEF Registered, IsLive, Sound, NamesDiffer
<1>3. QED
  BY <1>1, <1>2 DEF Exists, IdOf

LEMMA WritesRelink ==
    ASSUME NEW d, NEW e, NEW type \in Types, NEW id, NEW now \in Nat, Sound(d),
           IsLive(d, type, id), Writes(d, e, type, id, now), type # "contact",
           e.states = d.states, e.merged = d.merged
    PROVE  Relinks(d, e)
  BY WritesSound, WritesGrow DEF Relinks

(* The links of one object are changed: the source leaves.                 *)
MovesLinks(u, c) == u.rem = {c.name} /\ u.add \in {{}, {Destination(c)}}

Unlinked(d, e, t, id, i) ==
    Linking(e, t, i) \subseteq Linking(d, t, i) /\ id \notin Linking(e, t, i)

LEMMA SourceLeaves ==
    ASSUME NEW d, NEW e, NEW t \in LinkTables, NEW id, NEW c, NEW u, NEW src,
           Mergeable(d, c), src = IdOf(d, "contact", c.name), MovesLinks(u, c),
           e.live[t] = LinksAfter(d, t, id, u)
    PROVE  Unlinked(d, e, t, id, src)
<1>1. Contacts(d, u.rem) = {src}
  BY DEF Contacts, MovesLinks
<1>2. src \notin Contacts(d, u.add)
  BY MergeableIds DEF Contacts, MovesLinks
<1>3. \A r \in Links(id, d, u.add) : r.contact # src
  BY <1>2 DEF Links
<1>4. \A r \in e.live[t] : r.contact = src => r \in d.live[t] /\ r.id # id
  BY <1>1, <1>3 DEF LinksAfter
<1>5. QED
  BY <1>4 DEF Linking, Unlinked

LEMMA NoLinksChange ==
    ASSUME NEW d, NEW t, NEW id, NEW u, u.rem = {}, u.add = {}
    PROVE  LinksAfter(d, t, id, u) = d.live[t]
<1>1. Contacts(d, u.rem) = {} /\ Links(id, d, u.add) = {}
  BY DEF Contacts, Links
<1>2. QED
  BY <1>1 DEF LinksAfter

(* Operations on an nsset, keyset or domain leave the links of the others. *)
LEMMA NamingElsewhere ==
    ASSUME NEW d, NEW e, NEW type \in Types, NEW id, NEW now, Sound(d), IsLive(d, type, id),
           Writes(d, e, type, id, now), NEW role \in Roles, TypeOfRole(role) # type, NEW i
    PROVE  Naming(e, role, i) = Naming(d, role, i)
<1> DEFINE Elsewhere(t) == t \in Tables /\ t \notin {"object"} \cup TablesOf(type)
<1>1. \A t : Elsewhere(t) => e.live[t] = d.live[t]
  BY WritesElsewhere
<1>2. CASE role = "registrant"
  <2>1. Elsewhere("domain")
    BY <1>2 DEF TypeOfRole, Types, Tables, TablesOf, ContactTables, NssetTables, KeysetTables, DomainTables
  <2>2. QED
    BY <2>1, <1>1, <1>2 DEF Naming
<1>3. CASE role = "admin"
  <2>1. Elsewhere("domain_contact_map")
    BY <1>3 DEF TypeOfRole, Types, Tables, TablesOf, ContactTables, NssetTables, KeysetTables, DomainTables
  <2>2. QED
    BY <2>1, <1>1, <1>3 DEF Naming, Linking
<1>4. CASE role = "nsset"
  <2>1. Elsewhere("nsset_contact_map")
    BY <1>4 DEF TypeOfRole, Types, Tables, TablesOf, ContactTables, NssetTables, KeysetTables, DomainTables
  <2>2. QED
    BY <2>1, <1>1, <1>4 DEF Naming, Linking
<1>5. CASE role = "keyset"
  <2>1. Elsewhere("keyset_contact_map")
    BY <1>5 DEF TypeOfRole, Types, Tables, TablesOf, ContactTables, NssetTables, KeysetTables, DomainTables
  <2>2. QED
    BY <2>1, <1>1, <1>5 DEF Naming, Linking
<1>6. QED
  BY <1>2, <1>3, <1>4, <1>5 DEF Roles

LEMMA DomainRow ==
    ASSUME NEW d, Sound(d), NEW id, IsLive(d, "domain", id)
    PROVE  \E m \in d.live["domain"] : Rows(d, "domain", id) = {m}
<1>1. OneRow(d, "domain", id)
  BY DEF Sound, RowsOfAll, IsLive, Types
<1>2. QED
  BY <1>1 DEF OneRow

LEMMA SetRegistrantLeaves ==
    ASSUME NEW d, NEW c, NEW now \in Nat, Sound(d), Mergeable(d, c), NEW id,
           IsLive(d, "domain", id), NEW src, src = IdOf(d, "contact", c.name)
    PROVE  /\ Relinks(d, SetRegistrant(d, id, c, now))
           /\ Leave(d, SetRegistrant(d, id, c, now), "registrant", src, {id})
<1>1. PICK u : u = [UpdateOf("domain", d.registry[id].name, c.registrar)
                    EXCEPT !.registrant = Destination(c)]
  OBVIOUS
<1>2. /\ u.name = d.registry[id].name /\ u.registrant = Destination(c)
      /\ u.nsset = Keep /\ u.keyset = Keep /\ u.add = {} /\ u.rem = {}
  BY <1>1 DEF UpdateOf
<1>3. PICK type \in Types : type = "domain"
  BY DEF Types
<1>4. id = IdOf(d, "domain", u.name)
  BY <1>2, <1>3, NameOfId
<1>5. AreContacts(d, u.add) /\ TargetsFit(d, u) /\ u.registrant # None
  BY <1>2 DEF AreContacts, TargetsFit, TargetFits, Mergeable
<1>6. PICK e : e = UpdateDomain(d, u, now)
  OBVIOUS
<1>7. /\ Writes(d, e, type, id, now) /\ e.merged = d.merged /\ e.states = d.states
      /\ e.live["domain_contact_map"] = LinksAfter(d, "domain_contact_map", id, u)
      /\ \A m \in Rows(d, "domain", id), p \in Rows(e, "domain", id) :
            p.registrant = Changed(d, "contact", u.registrant, m.registrant)
  BY <1>3, <1>4, <1>5, <1>6, UpdateDomainWrites
<1>8. Relinks(d, e)
  BY <1>3, <1>7, WritesRelink
<1>9. PICK m \in d.live["domain"] : Rows(d, "domain", id) = {m}
  BY DomainRow
<1>10. \A m2 : Changed(d, "contact", u.registrant, m2) # src
  BY <1>2, MergeableIds DEF Changed, Target, Mergeable
<1>11. \A r \in e.live["domain"] : r.registrant = src => r \in d.live["domain"] /\ r.id # id
  <2> SUFFICES ASSUME NEW r \in e.live["domain"], r.registrant = src
               PROVE  r \in d.live["domain"] /\ r.id # id
    OBVIOUS
  <2>1. r.id # id
    BY <1>7, <1>9, <1>10 DEF Rows
  <2>2. "domain" \in Tables
    BY TablesOfTypes DEF Types
  <2>3. QED
    BY <2>1, <2>2, <1>7 DEF Writes, OthersStay
<1>12. /\ Naming(e, "registrant", src) \subseteq Naming(d, "registrant", src)
       /\ id \notin Naming(e, "registrant", src)
  BY <1>11 DEF Naming
<1>13. Naming(e, "admin", src) = Naming(d, "admin", src)
  BY <1>2, <1>7, NoLinksChange DEF Naming, Linking
<1>14. /\ Naming(e, "nsset", src) = Naming(d, "nsset", src)
       /\ Naming(e, "keyset", src) = Naming(d, "keyset", src)
  BY <1>3, <1>7, NamingElsewhere DEF Roles, TypeOfRole
<1>15. Leave(d, e, "registrant", src, {id})
  BY <1>12, <1>13, <1>14 DEF Leave, Roles
<1>16. e = SetRegistrant(d, id, c, now)
  BY <1>1, <1>6 DEF SetRegistrant
<1>17. QED
  BY <1>8, <1>15, <1>16

LEMMA RelinkingAsks ==
    ASSUME NEW d, NEW table, NEW type, NEW id, NEW c, NEW u, u = Relinking(d, table, type, id, c),
           Mergeable(d, c)
    PROVE  /\ u.name = d.registry[id].name /\ u.value = Keep
           /\ u.registrant = Keep /\ u.nsset = Keep /\ u.keyset = Keep
           /\ MovesLinks(u, c) /\ AreContacts(d, u.add)
<1>1. /\ u.name = d.registry[id].name /\ u.value = Keep
      /\ u.registrant = Keep /\ u.nsset = Keep /\ u.keyset = Keep
      /\ u.rem = {c.name} /\ u.add \in {{}, {Destination(c)}}
  BY DEF Relinking, UpdateOf
<1>2. AreContacts(d, u.add)
  BY <1>1 DEF AreContacts, Mergeable
<1>3. QED
  BY <1>1, <1>2 DEF MovesLinks

LEMMA SetAdminLeaves ==
    ASSUME NEW d, NEW c, NEW now \in Nat, Sound(d), Mergeable(d, c), NEW id,
           IsLive(d, "domain", id), NEW src, src = IdOf(d, "contact", c.name), Keep # None
    PROVE  /\ Relinks(d, SetAdmin(d, id, c, now))
           /\ Leave(d, SetAdmin(d, id, c, now), "admin", src, {id})
<1>1. PICK u : u = Relinking(d, "domain_contact_map", "domain", id, c)
  OBVIOUS
<1>2. /\ u.name = d.registry[id].name /\ u.registrant = Keep /\ u.nsset = Keep /\ u.keyset = Keep
      /\ MovesLinks(u, c) /\ AreContacts(d, u.add)
  BY <1>1, RelinkingAsks
<1>3. PICK type \in Types : type = "domain"
  BY DEF Types
<1>4. id = IdOf(d, "domain", u.name)
  BY <1>2, <1>3, NameOfId
<1>5. TargetsFit(d, u) /\ u.registrant # None
  BY <1>2 DEF TargetsFit, TargetFits
<1>6. PICK e : e = UpdateDomain(d, u, now)
  OBVIOUS
<1>7. /\ Writes(d, e, type, id, now) /\ e.merged = d.merged /\ e.states = d.states
      /\ e.live["domain_contact_map"] = LinksAfter(d, "domain_contact_map", id, u)
      /\ \A m \in Rows(d, "domain", id), p \in Rows(e, "domain", id) :
            p.registrant = Changed(d, "contact", u.registrant, m.registrant)
  BY <1>2, <1>3, <1>4, <1>5, <1>6, UpdateDomainWrites
<1>8. Relinks(d, e)
  BY <1>3, <1>7, WritesRelink
<1>9. PICK m \in d.live["domain"] : Rows(d, "domain", id) = {m}
  BY DomainRow
<1>10. Changed(d, "contact", u.registrant, m.registrant) = m.registrant /\ m.id = id
  BY <1>2, <1>9 DEF Changed, Rows
<1>11. \A r \in e.live["domain"] : r.registrant = src =>
          \E p \in d.live["domain"] : p.registrant = src /\ p.id = r.id
  <2> SUFFICES ASSUME NEW r \in e.live["domain"], r.registrant = src
               PROVE  \E p \in d.live["domain"] : p.registrant = src /\ p.id = r.id
    OBVIOUS
  <2>1. CASE r.id = id
    BY <2>1, <1>7, <1>9, <1>10 DEF Rows
  <2>2. CASE r.id # id
    <3>1. "domain" \in Tables
      BY TablesOfTypes DEF Types
    <3>2. QED
      BY <2>2, <3>1, <1>7 DEF Writes, OthersStay
  <2>3. QED
    BY <2>1, <2>2
<1>12. Naming(e, "registrant", src) \subseteq Naming(d, "registrant", src)
  BY <1>11 DEF Naming
<1>13. Linking(e, "domain_contact_map", src) \subseteq Linking(d, "domain_contact_map", src)
       /\ id \notin Linking(e, "domain_contact_map", src)
  <2>1. PICK t \in LinkTables : t = "domain_contact_map"
    BY DEF LinkTables
  <2>2. e.live[t] = LinksAfter(d, t, id, u)
    BY <1>7, <2>1
  <2>3. Unlinked(d, e, t, id, src)
    BY <1>2, <2>1, <2>2, SourceLeaves
  <2>4. QED
    BY <2>1, <2>3 DEF Unlinked
<1>14. /\ Naming(e, "nsset", src) = Naming(d, "nsset", src)
       /\ Naming(e, "keyset", src) = Naming(d, "keyset", src)
  BY <1>3, <1>7, NamingElsewhere DEF Roles, TypeOfRole
<1>15. Leave(d, e, "admin", src, {id})
  BY <1>12, <1>13, <1>14 DEF Leave, Roles, Naming
<1>16. e = SetAdmin(d, id, c, now)
  BY <1>1, <1>6 DEF SetAdmin
<1>17. QED
  BY <1>8, <1>15, <1>16

LEMMA SetNssetTechLeaves ==
    ASSUME NEW d, NEW c, NEW now \in Nat, Sound(d), Mergeable(d, c), NEW id,
           IsLive(d, "nsset", id), NEW src, src = IdOf(d, "contact", c.name)
    PROVE  /\ Relinks(d, SetNssetTech(d, id, c, now))
           /\ Leave(d, SetNssetTech(d, id, c, now), "nsset", src, {id})
<1>1. PICK u : u = Relinking(d, "nsset_contact_map", "nsset", id, c)
  OBVIOUS
<1>2. /\ u.name = d.registry[id].name
      /\ MovesLinks(u, c) /\ AreContacts(d, u.add)
  BY <1>1, RelinkingAsks
<1>3. PICK type \in Types : type = "nsset"
  BY DEF Types
<1>4. id = IdOf(d, "nsset", u.name)
  BY <1>2, <1>3, NameOfId
<1>5. PICK e : e = UpdateNsset(d, u, now)
  OBVIOUS
<1>6. /\ Writes(d, e, type, id, now) /\ e.merged = d.merged /\ e.states = d.states
      /\ e.live["nsset_contact_map"] = LinksAfter(d, "nsset_contact_map", id, u)
  BY <1>2, <1>3, <1>4, <1>5, UpdateNssetWrites
<1>7. Relinks(d, e)
  BY <1>3, <1>6, WritesRelink
<1>8. PICK t \in LinkTables : t = "nsset_contact_map"
  BY DEF LinkTables
<1>9. Unlinked(d, e, t, id, src)
  <2>1. e.live[t] = LinksAfter(d, t, id, u)
    BY <1>6, <1>8
  <2>2. QED
    BY <1>2, <1>8, <2>1, SourceLeaves
<1>10. \A role \in Roles \ {"nsset"} : Naming(e, role, src) = Naming(d, role, src)
  <2> SUFFICES ASSUME NEW role \in Roles, role # "nsset"
               PROVE  Naming(e, role, src) = Naming(d, role, src)
    OBVIOUS
  <2>1. TypeOfRole(role) # type
    BY <1>3 DEF Roles, TypeOfRole
  <2>2. QED
    BY <1>3, <1>6, <2>1, NamingElsewhere
<1>11. /\ Naming(e, "nsset", src) = Linking(e, t, src)
       /\ Naming(d, "nsset", src) = Linking(d, t, src)
  BY <1>8 DEF Naming
<1>12. Leave(d, e, "nsset", src, {id})
  BY <1>9, <1>10, <1>11 DEF Leave, Unlinked
<1>13. e = SetNssetTech(d, id, c, now)
  BY <1>1, <1>5 DEF SetNssetTech
<1>14. QED
  BY <1>7, <1>12, <1>13

LEMMA SetKeysetTechLeaves ==
    ASSUME NEW d, NEW c, NEW now \in Nat, Sound(d), Mergeable(d, c), NEW id,
           IsLive(d, "keyset", id), NEW src, src = IdOf(d, "contact", c.name)
    PROVE  /\ Relinks(d, SetKeysetTech(d, id, c, now))
           /\ Leave(d, SetKeysetTech(d, id, c, now), "keyset", src, {id})
<1>1. PICK u : u = Relinking(d, "keyset_contact_map", "keyset", id, c)
  OBVIOUS
<1>2. /\ u.name = d.registry[id].name
      /\ MovesLinks(u, c) /\ AreContacts(d, u.add)
  BY <1>1, RelinkingAsks
<1>3. PICK type \in Types : type = "keyset"
  BY DEF Types
<1>4. id = IdOf(d, "keyset", u.name)
  BY <1>2, <1>3, NameOfId
<1>5. PICK e : e = UpdateKeyset(d, u, now)
  OBVIOUS
<1>6. /\ Writes(d, e, type, id, now) /\ e.merged = d.merged /\ e.states = d.states
      /\ e.live["keyset_contact_map"] = LinksAfter(d, "keyset_contact_map", id, u)
  BY <1>2, <1>3, <1>4, <1>5, UpdateKeysetWrites
<1>7. Relinks(d, e)
  BY <1>3, <1>6, WritesRelink
<1>8. PICK t \in LinkTables : t = "keyset_contact_map"
  BY DEF LinkTables
<1>9. Unlinked(d, e, t, id, src)
  <2>1. e.live[t] = LinksAfter(d, t, id, u)
    BY <1>6, <1>8
  <2>2. QED
    BY <1>2, <1>8, <2>1, SourceLeaves
<1>10. \A role \in Roles \ {"keyset"} : Naming(e, role, src) = Naming(d, role, src)
  <2> SUFFICES ASSUME NEW role \in Roles, role # "keyset"
               PROVE  Naming(e, role, src) = Naming(d, role, src)
    OBVIOUS
  <2>1. TypeOfRole(role) # type
    BY <1>3 DEF Roles, TypeOfRole
  <2>2. QED
    BY <1>3, <1>6, <2>1, NamingElsewhere
<1>11. /\ Naming(e, "keyset", src) = Linking(e, t, src)
       /\ Naming(d, "keyset", src) = Linking(d, t, src)
  BY <1>8 DEF Naming
<1>12. Leave(d, e, "keyset", src, {id})
  BY <1>9, <1>10, <1>11 DEF Leave, Unlinked
<1>13. e = SetKeysetTech(d, id, c, now)
  BY <1>1, <1>5 DEF SetKeysetTech
<1>14. QED
  BY <1>7, <1>12, <1>13

LEMMA SetLinkLeaves ==
    ASSUME NEW d, NEW c, NEW now \in Nat, Sound(d), Mergeable(d, c), NEW role \in Roles, NEW id,
           IsLive(d, TypeOfRole(role), id), NEW src, src = IdOf(d, "contact", c.name)
    PROVE  /\ Relinks(d, SetLink(d, role, id, c, now))
           /\ Leave(d, SetLink(d, role, id, c, now), role, src, {id})
<1>1. CASE role = "registrant"
  <2>1. IsLive(d, "domain", id) /\ SetLink(d, role, id, c, now) = SetRegistrant(d, id, c, now)
    BY <1>1 DEF TypeOfRole, SetLink
  <2>2. QED
    BY <1>1, <2>1, SetRegistrantLeaves
<1>2. CASE role = "admin"
  <2>1. IsLive(d, "domain", id) /\ SetLink(d, role, id, c, now) = SetAdmin(d, id, c, now)
    BY <1>2 DEF TypeOfRole, SetLink
  <2>2. QED
    BY <1>2, <2>1, SetAdminLeaves, KeepIsNotNull
<1>3. CASE role = "nsset"
  <2>1. IsLive(d, "nsset", id) /\ SetLink(d, role, id, c, now) = SetNssetTech(d, id, c, now)
    BY <1>3 DEF TypeOfRole, SetLink
  <2>2. QED
    BY <1>3, <2>1, SetNssetTechLeaves
<1>4. CASE role = "keyset"
  <2>1. IsLive(d, "keyset", id) /\ SetLink(d, role, id, c, now) = SetKeysetTech(d, id, c, now)
    BY <1>4 DEF TypeOfRole, SetLink
  <2>2. QED
    BY <1>4, <2>1, SetKeysetTechLeaves
<1>5. QED
  BY <1>1, <1>2, <1>3, <1>4 DEF Roles


-----------------------------------------------------------------------------
(* All links of a merge                                                    *)

LEMMA RelinksNothing ==
    ASSUME NEW d, Sound(d), NEW role \in Roles, NEW i
    PROVE  Relinks(d, d) /\ Leave(d, d, role, i, {})
<1>1. Grows(d, d)
  BY SameTablesGrow
<1>2. QED
  BY <1>1 DEF Relinks, SameNamed, Leave

LEMMA RelinksFurther ==
    ASSUME NEW d, NEW e, NEW f, Relinks(d, e), Relinks(e, f)
    PROVE  Relinks(d, f)
<1>1. Grows(d, f)
  BY GrowsFurther DEF Relinks
<1>2. SameNamed(d, f)
  BY DEF Relinks, SameNamed
<1>3. QED
  BY <1>1, <1>2 DEF Relinks

LEMMA LeaveFurther ==
    ASSUME NEW d, NEW e, NEW f, NEW role \in Roles, NEW i, NEW A, NEW B,
           Leave(d, e, role, i, A), Leave(e, f, role, i, B)
    PROVE  Leave(d, f, role, i, A \cup B)
<1>1. Naming(f, role, i) \cap (A \cup B) = {}
  BY DEF Leave
<1>2. \A r \in Roles : Naming(f, r, i) \subseteq Naming(d, r, i)
  BY DEF Leave
<1>3. QED
  BY <1>1, <1>2 DEF Leave

LEMMA RelinkedFacts ==
    ASSUME NEW d, NEW e, Relinks(d, e)
    PROVE  /\ \A type, i : IsLive(d, type, i) => IsLive(e, type, i)
           /\ \A type, name : IdOf(e, type, name) = IdOf(d, type, name)
           /\ \A c : Mergeable(d, c) => Mergeable(e, c)
<1>1. SameNamed(d, e)
  BY DEF Relinks
<1>2. \A type, i : IsLive(d, type, i) => i \in Registered(e, type, d.registry[i].name)
  BY <1>1 DEF SameNamed, Registered, IsLive
<1>3. \A type, i : IsLive(d, type, i) => IsLive(e, type, i)
  BY <1>2 DEF Registered, IsLive
<1>4. QED
  BY <1>1, <1>3, SameNamedFacts DEF Mergeable

(* The objects that FoldSet has gone through do not name the source.       *)
LEMMA SetLinksLeave ==
    ASSUME NEW d, NEW c, NEW now \in Nat, Sound(d), Mergeable(d, c), NEW role \in Roles, NEW ids,
           \A id \in ids : IsLive(d, TypeOfRole(role), id),
           NEW src, src = IdOf(d, "contact", c.name)
    PROVE  /\ Relinks(d, SetLinksOf(d, role, ids, c, now))
           /\ Leave(d, SetLinksOf(d, role, ids, c, now), role, src, ids)
<1>1. IsFiniteSet(ids)
  <2>1. ids \subseteq 1..Len(d.registry) /\ Len(d.registry) \in Nat
    BY ListFacts DEF Sound, Shape, IsLive
  <2>2. IsFiniteSet(1..Len(d.registry))
    BY <2>1, FS_Interval
  <2>3. QED
    BY <2>1, <2>2, FS_Subset
<1>2. PICK g : /\ Walks(g, ids, d, role, c, now)
               /\ SetLinksOf(d, role, ids, c, now) = g[ids]
  BY <1>1, SetLinksOfWalks
<1> DEFINE Good(s) == Relinks(d, g[s]) /\ Leave(d, g[s], role, src, s)
           F == {s \in SUBSET ids : ~Good(s)}
<1>3. SUFFICES ASSUME F # {} PROVE FALSE
  BY <1>2
<1>4. PICK T \in F : \A U \in F : U \subseteq T => U = T
  <2>1. PICK G : G = F
    OBVIOUS
  <2>2. G \subseteq SUBSET ids /\ G # {}
    BY <2>1, <1>3
  <2>3. \E T \in G : \A U \in G : U \subseteq T => U = T
    BY <2>2, <1>1, SmallestSet
  <2>4. QED
    BY <2>1, <2>3, Zenon
<1>5. T # {}
  <2>1. Good({})
    BY <1>2, WalkBegins, RelinksNothing
  <2>2. QED
    BY <2>1, <1>4
<1>6. PICK id : id = OneOf(T)
  OBVIOUS
<1>7. PICK U : U = T \ {id}
  OBVIOUS
<1>8. id \in T /\ T \in SUBSET ids /\ g[T] = SetLink(g[U], role, id, c, now)
  BY <1>2, <1>4, <1>5, <1>6, <1>7, WalkGoesOn
<1>9. Good(U)
  <2>1. U \subseteq T /\ U # T /\ U \in SUBSET ids
    BY <1>7, <1>8
  <2>2. U \notin F
    BY <2>1, <1>4
  <2>3. QED
    BY <2>1, <2>2
<1>10. PICK e : e = g[U]
  OBVIOUS
<1>11. Relinks(d, e) /\ Leave(d, e, role, src, U)
  BY <1>9, <1>10
<1>12. /\ IsLive(e, TypeOfRole(role), id) /\ Mergeable(e, c) /\ src = IdOf(e, "contact", c.name)
       /\ Sound(e)
  BY <1>8, <1>11, RelinkedFacts DEF Relinks
<1>13. PICK f : f = SetLink(e, role, id, c, now)
  OBVIOUS
<1>14. Relinks(e, f) /\ Leave(e, f, role, src, {id})
  BY <1>12, <1>13, SetLinkLeaves
<1>15. Relinks(d, f) /\ Leave(d, f, role, src, U \cup {id})
  BY <1>11, <1>14, RelinksFurther, LeaveFurther
<1>16. U \cup {id} = T /\ g[T] = f
  BY <1>7, <1>8, <1>10, <1>13
<1>17. Good(T)
  BY <1>15, <1>16
<1>18. QED
  BY <1>4, <1>17

(* What names a contact is registered.                                     *)
LEMMA NamesAreLive ==
    ASSUME NEW d, Sound(d), NEW role \in Roles, NEW i
    PROVE  \A id \in Naming(d, role, i) : IsLive(d, TypeOfRole(role), id)
<1>1. ASSUME NEW t \in Tables, NEW type \in Types, t \in TablesOf(type), t # "object",
             NEW r \in d.live[t]
      PROVE  IsLive(d, type, r.id)
  <2>1. Owned(d, t, r)
    BY <1>1 DEF Sound, RowsFit
  <2>2. PICK ty \in Types : IsLive(d, ty, r.id) /\ t \in {"object"} \cup TablesOf(ty)
    BY <2>1 DEF Owned
  <2>3. ty = type
    BY <1>1, <2>2 DEF Types, TablesOf, ContactTables, NssetTables, KeysetTables, DomainTables
  <2>4. QED
    BY <2>2, <2>3
<1>2. /\ "domain" \in Types /\ "domain" \in Tables /\ "domain" \in TablesOf("domain")
      /\ "domain_contact_map" \in Tables /\ "domain_contact_map" \in TablesOf("domain")
      /\ "nsset" \in Types /\ "nsset_contact_map" \in Tables
      /\ "nsset_contact_map" \in TablesOf("nsset")
      /\ "keyset" \in Types /\ "keyset_contact_map" \in Tables
      /\ "keyset_contact_map" \in TablesOf("keyset")
  BY DEF Types, Tables, TablesOf, ContactTables, NssetTables, KeysetTables, DomainTables
<1>3. CASE role = "registrant"
  <2>1. \A r \in d.live["domain"] : IsLive(d, "domain", r.id)
    BY <1>1, <1>2
  <2>2. QED
    BY <2>1, <1>3 DEF Naming, TypeOfRole
<1>4. CASE role = "admin"
  <2>1. \A r \in d.live["domain_contact_map"] : IsLive(d, "domain", r.id)
    BY <1>1, <1>2
  <2>2. QED
    BY <2>1, <1>4 DEF Naming, Linking, TypeOfRole
<1>5. CASE role = "nsset"
  <2>1. \A r \in d.live["nsset_contact_map"] : IsLive(d, "nsset", r.id)
    BY <1>1, <1>2
  <2>2. QED
    BY <2>1, <1>5 DEF Naming, Linking, TypeOfRole
<1>6. CASE role = "keyset"
  <2>1. \A r \in d.live["keyset_contact_map"] : IsLive(d, "keyset", r.id)
    BY <1>1, <1>2
  <2>2. QED
    BY <2>1, <1>6 DEF Naming, Linking, TypeOfRole
<1>7. QED
  BY <1>3, <1>4, <1>5, <1>6 DEF Roles

(* When all the links that a merge lists are set, nothing names the source. *)
LEMMA NoneNamesSource ==
    ASSUME NEW d, NEW c, NEW now \in Nat, Sound(d), Mergeable(d, c),
           NEW src, src = IdOf(d, "contact", c.name),
           NEW owned, owned = SetLinksOf(d, "registrant", Naming(d, "registrant", src), c, now),
           NEW managed, managed = SetLinksOf(owned, "admin", Naming(d, "admin", src), c, now),
           NEW nssets, nssets = SetLinksOf(managed, "nsset", Naming(d, "nsset", src), c, now),
           NEW keysets, keysets = SetLinksOf(nssets, "keyset", Naming(d, "keyset", src), c, now)
    PROVE  Relinks(d, keysets) /\ \A role \in Roles : Naming(keysets, role, src) = {}
<1> DEFINE Ready(e) == /\ Relinks(d, e) /\ Mergeable(e, c) /\ src = IdOf(e, "contact", c.name)
                       /\ \A role \in Roles : Naming(e, role, src) \subseteq Naming(d, role, src)
<1>1. Ready(d)
  <2>1. PICK role \in Roles : TRUE
    BY DEF Roles
  <2>2. QED
    BY <2>1, RelinksNothing
<1>2. ASSUME NEW e, Ready(e), NEW role \in Roles,
             NEW f, f = SetLinksOf(e, role, Naming(d, role, src), c, now)
      PROVE  /\ Ready(f) /\ Naming(f, role, src) = {}
             /\ \A r \in Roles : Naming(f, r, src) \subseteq Naming(e, r, src)
  <2>1. \A id \in Naming(d, role, src) : IsLive(e, TypeOfRole(role), id)
    BY <1>2, NamesAreLive, RelinkedFacts
  <2>2. Sound(e)
    BY <1>2 DEF Relinks
  <2>3. Relinks(e, f) /\ Leave(e, f, role, src, Naming(d, role, src))
    BY <1>2, <2>1, <2>2, SetLinksLeave
  <2>4. Relinks(d, f)
    BY <1>2, <2>3, RelinksFurther
  <2>5. Mergeable(f, c) /\ src = IdOf(f, "contact", c.name)
    BY <2>4, RelinkedFacts
  <2>6. \A r \in Roles : Naming(f, r, src) \subseteq Naming(e, r, src)
    BY <2>3 DEF Leave
  <2>7. Naming(f, role, src) = {}
    BY <1>2, <2>3, <2>6 DEF Leave
  <2>8. QED
    BY <1>2, <2>4, <2>5, <2>6, <2>7
<1> HIDE DEF Ready
<1>3. Ready(owned) /\ Naming(owned, "registrant", src) = {}
  BY <1>1, <1>2 DEF Roles
<1>4. Ready(managed) /\ Naming(managed, "admin", src) = {}
      /\ \A r \in Roles : Naming(managed, r, src) \subseteq Naming(owned, r, src)
  BY <1>3, <1>2 DEF Roles
<1>5. Ready(nssets) /\ Naming(nssets, "nsset", src) = {}
      /\ \A r \in Roles : Naming(nssets, r, src) \subseteq Naming(managed, r, src)
  BY <1>4, <1>2 DEF Roles
<1>6. Ready(keysets) /\ Naming(keysets, "keyset", src) = {}
      /\ \A r \in Roles : Naming(keysets, r, src) \subseteq Naming(nssets, r, src)
  BY <1>5, <1>2 DEF Roles
<1>7. Relinks(d, keysets)
  BY <1>6 DEF Ready
<1>8. \A role \in Roles : Naming(keysets, role, src) = {}
  BY <1>3, <1>4, <1>5, <1>6 DEF Roles
<1>9. QED
  BY <1>7, <1>8


-----------------------------------------------------------------------------
(* Operations on two contacts                                              *)

(* That a merge is recorded changes nothing else.                          *)
LEMMA MergedSound ==
    ASSUME NEW d, Sound(d), NEW o, NEW list, list = Append(d.merged, o),
           NEW e, e = [d EXCEPT !.merged = list]
    PROVE  /\ Sound(e)
           /\ e.registry = d.registry /\ e.history = d.history /\ e.live = d.live
           /\ e.kept = d.kept /\ e.states = d.states
<1>1. /\ DOMAIN e = DOMAIN d /\ e.merged = Append(d.merged, o) /\ e.states = d.states
      /\ e.registry = d.registry /\ e.history = d.history /\ e.live = d.live /\ e.kept = d.kept
  BY DEF Sound, Shape
<1>2. IsList(e.merged)
  BY <1>1, AppendToList DEF Sound, Shape
<1>3. Shape(e)
  BY <1>1, <1>2 DEF Sound, Shape
<1>4. Typed(e)
  BY <1>1 DEF Sound, Typed, EntryFits, VersionFits
<1>5. \A type, i : IsLive(e, type, i) <=> IsLive(d, type, i)
  BY <1>1 DEF IsLive
<1>6. RowsFit(e)
  BY <1>1, <1>5, SameFits DEF Sound, RowsFit
<1>7. RowsOfAll(e)
  <2>1. \A t, id : OneRow(d, t, id) => OneRow(e, t, id)
    BY <1>1 DEF OneRow, Rows
  <2>2. QED
    BY <2>1, <1>1, <1>5 DEF Sound, RowsOfAll
<1>8. NamesDiffer(e)
  BY <1>1, <1>5 DEF Sound, NamesDiffer
<1>9. VersionsFit(e)
  BY <1>1 DEF Sound, VersionsFit, KeptRefers
<1>10. Chains(e)
  BY <1>1 DEF Sound, Chains, ChainOf, VersionsOf
<1>11. CurrentShown(e)
  BY <1>1 DEF Sound, CurrentShown, Shows, Rows
<1>12. QED
  BY <1>1, <1>3, <1>4, <1>6, <1>7, <1>8, <1>9, <1>10, <1>11 DEF Sound

LEMMA UnnamedIsUnreferred ==
    ASSUME NEW d, Sound(d), NEW id, IsLive(d, "contact", id),
           \A role \in Roles : Naming(d, role, id) = {}
    PROVE  Unreferred(d, id)
<1>1. \A t \in LinkTables : Linking(d, t, id) = {}
  BY DEF Roles, Naming, LinkTables
<1>2. \A t \in LinkTables : \A r \in d.live[t] : r.contact # id
  BY <1>1 DEF Linking
<1>3. \A r \in d.live["domain"] : r.registrant # id
  BY DEF Roles, Naming
<1>4. \A r \in d.live["domain"] : id \notin {r.nsset, r.keyset}
  <2> SUFFICES ASSUME NEW r \in d.live["domain"]
               PROVE  id # r.nsset /\ id # r.keyset
    OBVIOUS
  <2>1. "domain" \in Tables
    BY TablesOfTypes DEF Types
  <2>2. Refers(d, "domain", r)
    BY <2>1 DEF Sound, RowsFit
  <2>3. /\ r.nsset = None \/ IsLive(d, "nsset", r.nsset)
        /\ r.keyset = None \/ IsLive(d, "keyset", r.keyset)
    BY <2>2 DEF Refers
  <2>4. id \in Nat
    BY ListFacts DEF IsLive, Sound, Shape
  <2>5. QED
    BY <2>3, <2>4, NullIsNoTime DEF IsLive
<1>5. QED
  BY <1>2, <1>3, <1>4 DEF Unreferred

LEMMA TransferStatesFollows ==
    ASSUME NEW d, Sound(d), NEW source, NEW destination \in DOMAIN d.registry
    PROVE  LET e == TransferStates(d, source, destination) IN
           /\ Sound(e) /\ Grows(d, e) /\ SameData(d, e)
           /\ e.registry = d.registry /\ e.live = d.live
<1>1. PICK X : X = d.states \cup {[id |-> destination, state |-> "contactPassedManualVerification"]}
  OBVIOUS
<1>2. \A s \in X : s.id \in DOMAIN d.registry
  BY <1>1 DEF Sound, Typed
<1>3. PICK e : e = [d EXCEPT !.states = X]
  OBVIOUS
<1>4. /\ Sound(e) /\ e.registry = d.registry /\ e.history = d.history /\ e.live = d.live
      /\ e.kept = d.kept
  BY <1>2, <1>3, StatesSound, SMTT(60)
<1>5. Grows(d, e) /\ SameData(d, e) /\ Grows(d, d) /\ SameData(d, d)
  BY <1>4, SameTablesGrow
<1>6. TransferStates(d, source, destination) \in {d, e}
  BY <1>1, <1>3 DEF TransferStates
<1>7. QED
  BY <1>4, <1>5, <1>6

LEMMA UpdateOfNothingFollows ==
    ASSUME NEW d, NEW name, NEW registrar, NEW now \in Nat, Sound(d), Exists(d, "contact", name),
           NEW e, e = UpdateContact(d, UpdateOf("contact", name, registrar), now)
    PROVE  Sound(e) /\ Grows(d, e) /\ SameData(d, e)
<1>1. PICK u : u = UpdateOf("contact", name, registrar)
  OBVIOUS
<1>2. u.name = name /\ u.value = Keep
  BY <1>1 DEF UpdateOf
<1>3. PICK id : id = IdOf(d, "contact", name)
  OBVIOUS
<1>4. PICK type \in Types : type = "contact"
  BY DEF Types
<1>5. IsLive(d, type, id)
  BY <1>3, <1>4, NamedIsLive
<1>6. Writes(d, e, type, id, now) /\ ValuesOf(e, id) = ValuesOf(d, id)
  BY <1>1, <1>2, <1>3, <1>4, <1>5, UpdateContactWrites
<1>7. Sound(e) /\ Grows(d, e) /\ \A i : i # id => ValuesOf(e, i) = ValuesOf(d, i)
  BY <1>5, <1>6, WritesSound, WritesGrow
<1>8. SameData(d, e)
  BY <1>6, <1>7 DEF SameData
<1>9. QED
  BY <1>7, <1>8

LEMMA FitIsMergeable ==
    ASSUME NEW d, NEW c, MergeContactFits(d, c), Cardinality(c.add) = 1, c.add \cap {None, Keep} = {}
    PROVE  Mergeable(d, c)
<1>1. c.add # {}
  BY FS_EmptySet
<1>2. Destination(c) \in c.add
  BY <1>1 DEF Destination
<1>3. QED
  BY <1>2 DEF MergeContactFits, Mergeable

LEMMA MergeFollows ==
    ASSUME NEW d, NEW c, NEW now \in Nat, Sound(d), MergeContactFits(d, c),
           Cardinality(c.add) = 1, c.add \cap {None, Keep} = {}
    PROVE  Follows(d, MergeContact(d, c, now))
<1>1. PICK src : src = IdOf(d, "contact", c.name)
  OBVIOUS
<1>2. PICK dst : dst = IdOf(d, "contact", Destination(c))
  OBVIOUS
<1>3. Mergeable(d, c) /\ IsLive(d, "contact", src) /\ IsLive(d, "contact", dst) /\ src # dst
  BY <1>1, <1>2, FitIsMergeable, MergeableIds
<1>4. PICK owned : owned = SetLinksOf(d, "registrant", Naming(d, "registrant", src), c, now)
  OBVIOUS
<1>5. PICK managed : managed = SetLinksOf(owned, "admin", Naming(d, "admin", src), c, now)
  OBVIOUS
<1>6. PICK nssets : nssets = SetLinksOf(managed, "nsset", Naming(d, "nsset", src), c, now)
  OBVIOUS
<1>7. PICK keysets : keysets = SetLinksOf(nssets, "keyset", Naming(d, "keyset", src), c, now)
  OBVIOUS
<1>8. Relinks(d, keysets) /\ \A role \in Roles : Naming(keysets, role, src) = {}
  BY <1>1, <1>3, <1>4, <1>5, <1>6, <1>7, NoneNamesSource
<1>9. /\ Sound(keysets) /\ Grows(d, keysets) /\ SameData(d, keysets)
      /\ IsLive(keysets, "contact", src) /\ IsLive(keysets, "contact", dst)
      /\ IdOf(keysets, "contact", Destination(c)) = dst
      /\ Exists(keysets, "contact", Destination(c))
  <2>1. SameData(d, keysets)
    BY <1>8 DEF Relinks, SameData, ValuesOf, Rows
  <2>2. Mergeable(keysets, c)
    BY <1>3, <1>8, RelinkedFacts
  <2>3. QED
    BY <2>1, <2>2, <1>2, <1>3, <1>8, RelinkedFacts DEF Relinks, Mergeable
<1>10. PICK moved : moved = TransferStates(keysets, src, dst)
  OBVIOUS
<1>11. /\ Sound(moved) /\ Grows(keysets, moved) /\ SameData(keysets, moved)
       /\ moved.registry = keysets.registry /\ moved.live = keysets.live
  <2>1. dst \in DOMAIN keysets.registry
    BY <1>9 DEF IsLive
  <2>2. QED
    BY <2>1, <1>9, <1>10, TransferStatesFollows
<1>12. /\ IsLive(moved, "contact", src) /\ IsLive(moved, "contact", dst)
       /\ moved.registry[dst].name = Destination(c)
  <2>1. keysets.registry[dst].name = Destination(c)
    BY <1>9, NamedIsLive
  <2>2. QED
    BY <2>1, <1>9, <1>11 DEF IsLive
<1>13. Unreferred(moved, src)
  <2>1. Unreferred(keysets, src)
    BY <1>8, <1>9, UnnamedIsUnreferred
  <2>2. QED
    BY <2>1, <1>11 DEF Unreferred
<1>14. PICK erased : erased = DeleteContact(moved, src, now)
  OBVIOUS
<1>15. Erases(moved, erased, src, now)
  <2>1. PICK type \in Types : type = "contact"
    BY DEF Types
  <2>2. erased = Erased(moved, src, now, TablesOf(type))
    BY <2>1, <1>14, TablesOfTypes DEF DeleteContact
  <2>3. QED
    BY <2>1, <2>2, <1>11, <1>12, ErasedErases
<1>16. Sound(erased) /\ Grows(moved, erased) /\ SameData(moved, erased)
  BY <1>11, <1>12, <1>13, <1>15, ErasesSound, ErasesGrow
<1>17. Exists(erased, "contact", Destination(c))
  <2>1. Typed(moved) /\ LastHead(moved, erased, src, now)
    BY <1>11, <1>15 DEF Sound, Erases
  <2>2. IsLive(erased, "contact", dst)
    BY <2>1, <1>3, <1>12, ErasesObjects
  <2>3. erased.registry[dst].name = Destination(c)
    BY <1>12, <1>16 DEF Grows, IsLive
  <2>4. dst \in Registered(erased, "contact", Destination(c))
    BY <2>2, <2>3 DEF Registered, IsLive
  <2>5. QED
    BY <2>4 DEF Exists
<1>18. PICK merged :
          merged = UpdateContact(erased, UpdateOf("contact", Destination(c), c.registrar), now)
  OBVIOUS
<1>19. Sound(merged) /\ Grows(erased, merged) /\ SameData(erased, merged)
  BY <1>16, <1>17, <1>18, UpdateOfNothingFollows
<1>20. PICK o : o = MergeContactOutput(d, c)
  OBVIOUS
<1>21. PICK list, e : list = Append(merged.merged, o) /\ e = [merged EXCEPT !.merged = list]
  OBVIOUS
<1>22. Sound(e) /\ Grows(merged, e) /\ SameData(merged, e)
  <2>1. Sound(merged)
    BY <1>19
  <2>2. /\ Sound(e) /\ e.registry = merged.registry /\ e.history = merged.history
        /\ e.live = merged.live /\ e.kept = merged.kept
    BY <2>1, <1>21, MergedSound, SMTT(60)
  <2>3. QED
    BY <2>2, SameTablesGrow
<1>23. Grows(d, e) /\ SameData(d, e)
  <2>1. Grows(d, moved) /\ SameData(d, moved)
    BY <1>9, <1>11, GrowsFurther, SameDataFurther
  <2>2. Grows(d, erased) /\ SameData(d, erased)
    BY <2>1, <1>16, GrowsFurther, SameDataFurther
  <2>3. Grows(d, merged) /\ SameData(d, merged)
    BY <2>2, <1>19, GrowsFurther, SameDataFurther
  <2>4. QED
    BY <2>3, <1>22, GrowsFurther, SameDataFurther
<1>24. Follows(d, e)
  BY <1>22, <1>23, SameDataSteady DEF Follows, Sound
<1>25. /\ o.source = src /\ o.destination = dst
       /\ o.update_domain_registrant = Naming(d, "registrant", src)
       /\ o.update_domain_admin_contact = Naming(d, "admin", src)
       /\ o.update_nsset_tech_contact = Naming(d, "nsset", src)
       /\ o.update_keyset_tech_contact = Naming(d, "keyset", src)
  BY <1>1, <1>2, <1>20 DEF MergeContactOutput, Naming
<1>26. MergeContact(d, c, now) = e
  BY <1>4, <1>5, <1>6, <1>7, <1>10, <1>14, <1>18, <1>20, <1>21, <1>25 DEF MergeContact
<1>27. QED
  BY <1>24, <1>26

LEMMA CopyFollows ==
    ASSUME NEW d, NEW c, NEW now \in Nat, Sound(d), Gives(c, "copy", "contact", {"add"}),
           CopyFits(d, c)
    PROVE  Follows(d, CopyContactAs(d, c, now))
<1>1. PICK id : id = IdOf(d, "contact", c.name)
  OBVIOUS
<1>2. PICK row : row = (CHOOSE r \in Rows(d, "contact", id) : TRUE)
  OBVIOUS
<1>3. PICK addresses : addresses = {[type |-> a.type, place |-> a.place, company |-> a.company] :
                                      a \in Rows(d, "contact_address", id)}
  OBVIOUS
<1>4. PICK b : b = [c EXCEPT !.name = Destination(c), !.value = row.value,
                             !.disclose = row.disclose, !.put = addresses]
  OBVIOUS
<1>5. b.type = "contact" /\ b.name = Destination(c)
  BY <1>4 DEF Gives, UpdateOf
<1>6. Creates(d, CreateContact(d, b, now), b, now)
  BY <1>5, CreateContactCreates
<1>7. ~Exists(d, b.type, b.name) /\ b.type \in Types
  BY <1>5 DEF CopyFits, Types
<1>8. Follows(d, CreateContact(d, b, now))
  BY <1>6, <1>7, CreatesFollow
<1>9. CopyContactAs(d, c, now) = CreateContact(d, b, now)
  BY <1>1, <1>2, <1>3, <1>4 DEF CopyContactAs
<1>10. QED
  BY <1>8, <1>9

LEMMA UndiscloseFollows ==
    ASSUME NEW d, NEW c, NEW now \in Nat, Sound(d), UndiscloseFits(d, c)
    PROVE  Follows(d, UndiscloseAddress(d, c, now))
<1>1. PICK row : row = (CHOOSE r \in Rows(d, "contact", IdOf(d, "contact", c.name)) : TRUE)
  OBVIOUS
<1>2. PICK u : u = [UpdateOf("contact", c.name, c.registrar)
                    EXCEPT !.disclose = row.disclose \ {"address"}]
  OBVIOUS
<1>3. u.name = c.name
  BY <1>2 DEF UpdateOf
<1>4. Follows(d, UpdateContact(d, u, now))
  BY <1>3, UpdateContactFollows DEF UndiscloseFits
<1>5. UndiscloseAddress(d, c, now) = UpdateContact(d, u, now)
  BY <1>1, <1>2 DEF UndiscloseAddress
<1>6. QED
  BY <1>4, <1>5

(* What a transaction does that succeeds leaves the tables sound.          *)
LEMMA DoneFollows ==
    ASSUME NEW d, NEW c \in Calls, NEW now \in Nat, Sound(d), MayPerform(d, c)
    PROVE  Follows(d, Done(d, c, now))
<1>1. CASE Call(c)
  <2>1. c.kind \notin {"merge", "copy", "undisclose"}
    BY <1>1, KindsOfCalls
  <2>2. Fits(d, c) /\ Done(d, c, now) = Performed(d, c, now)
    BY <2>1 DEF MayPerform, Done
  <2>3. QED
    BY <1>1, <2>2, PerformedFollows
<1>2. CASE /\ Gives(c, "merge", "contact", {"add"})
           /\ Cardinality(c.add) = 1 /\ c.add \cap {None, Keep} = {}
  <2>1. c.kind = "merge"
    BY <1>2 DEF Gives
  <2>2. MergeContactFits(d, c) /\ Done(d, c, now) = MergeContact(d, c, now)
    BY <2>1 DEF MayPerform, Done
  <2>3. QED
    BY <1>2, <2>2, MergeFollows
<1>3. CASE Gives(c, "copy", "contact", {"add"})
  <2>1. c.kind = "copy"
    BY <1>3 DEF Gives
  <2>2. CopyFits(d, c) /\ Done(d, c, now) = CopyContactAs(d, c, now)
    BY <2>1 DEF MayPerform, Done
  <2>3. QED
    BY <1>3, <2>2, CopyFollows
<1>4. CASE Gives(c, "undisclose", "contact", {})
  <2>1. c.kind = "undisclose"
    BY <1>4 DEF Gives
  <2>2. UndiscloseFits(d, c) /\ Done(d, c, now) = UndiscloseAddress(d, c, now)
    BY <2>1 DEF MayPerform, Done
  <2>3. QED
    BY <2>2, UndiscloseFollows
<1>5. QED
  BY <1>1, <1>2, <1>3, <1>4, CallsKnown DEF TwoContactsCall


-----------------------------------------------------------------------------
(* The tables that the system begins with                                  *)

LEMMA SmallestNumber ==
    ASSUME NEW T, T \subseteq Nat, T # {}
    PROVE  \E n \in T : \A m \in T : n <= m
<1>1. \E n \in T : \A m \in T : ~(<<m, n>> \in OpToRel(<, Nat))
  BY NatLessThanWellFounded, WFMin
<1>2. PICK n \in T : \A m \in T : ~(<<m, n>> \in OpToRel(<, Nat))
  BY <1>1
<1>3. \A m \in T : ~(m < n)
  BY <1>2 DEF OpToRel
<1>4. QED
  BY <1>3

StartLength == Len(Start) \in Nat /\ DOMAIN Start = 1..Len(Start)

LEMMA StartIsFinite == StartLength
  BY CallsKnown DEF StartLength

(* The first tables of After, if f is those before                         *)
Begun0(f, m) ==
    [n \in 0..m |-> IF n = 0 THEN EmptyDb ELSE Performed(f[n - 1], Start[n], n - 1)]

LEMMA AfterIs ==
    /\ After[0] = EmptyDb
    /\ \A n \in 1..Len(Start) : After[n] = Performed(After[n - 1], Start[n], n - 1)
<1> DEFINE F == {m \in 0..Len(Start) : ~\E f : f = Begun0(f, m)}
<1>1. Len(Start) \in Nat
  BY StartIsFinite DEF StartLength
<1>2. F = {}
  <2>1. SUFFICES ASSUME F # {} PROVE FALSE
    OBVIOUS
  <2>2. PICK m \in F : \A k \in F : m <= k
    <3>1. F \subseteq Nat
      BY <1>1
    <3>2. QED
      BY <3>1, <2>1, SmallestNumber
  <2>3. CASE m = 0
    <3>1. PICK f : f = [n \in 0..0 |-> EmptyDb]
      OBVIOUS
    <3>2. f = Begun0(f, 0)
      BY <3>1 DEF Begun0
    <3>3. QED
      BY <2>2, <2>3, <3>2
  <2>4. CASE m # 0
    <3>1. m - 1 \in 0..Len(Start) /\ m - 1 \notin F
      BY <2>2, <2>4, <1>1
    <3>2. PICK f : f = Begun0(f, m - 1)
      BY <3>1
    <3>3. PICK g : g = Begun0(f, m)
      OBVIOUS
    <3>4. \A n \in 0..(m - 1) : g[n] = f[n]
      <4> SUFFICES ASSUME NEW n \in 0..(m - 1)
                   PROVE  g[n] = f[n]
        OBVIOUS
      <4>1. n \in 0..m
        BY <2>2, <1>1
      <4>2. g[n] = IF n = 0 THEN EmptyDb ELSE Performed(f[n - 1], Start[n], n - 1)
        BY <3>3, <4>1 DEF Begun0
      <4>3. f[n] = IF n = 0 THEN EmptyDb ELSE Performed(f[n - 1], Start[n], n - 1)
        BY <3>2 DEF Begun0
      <4>4. QED
        BY <4>2, <4>3
    <3>5. \A n \in 0..m : n # 0 => g[n - 1] = f[n - 1]
      BY <3>4, <2>2, <1>1
    <3>6. g = Begun0(g, m)
      BY <3>3, <3>5 DEF Begun0
    <3>7. QED
      BY <2>2, <3>6
  <2>5. QED
    BY <2>3, <2>4
<1>3. PICK f : f = Begun0(f, Len(Start))
  BY <1>1, <1>2
<1>4. After = Begun0(After, Len(Start))
  BY <1>3 DEF After, Begun0
<1>5. After[0] = EmptyDb
  BY <1>1, <1>4 DEF Begun0
<1>6. \A n \in 1..Len(Start) : After[n] = Performed(After[n - 1], Start[n], n - 1)
  BY <1>1, <1>4 DEF Begun0
<1>7. QED
  BY <1>5, <1>6

LEMMA EmptySound == Sound(EmptyDb)
<1>1. PICK d : d = EmptyDb
  OBVIOUS
<1>2. /\ DOMAIN d = {"registry", "history", "states", "merged", "live", "kept"}
      /\ d.registry = <<>> /\ d.history = <<>> /\ d.merged = <<>> /\ d.states = {}
      /\ DOMAIN d.live = Tables /\ DOMAIN d.kept = Tables
      /\ \A t \in Tables : d.live[t] = {} /\ d.kept[t] = {}
  BY <1>1 DEF EmptyDb
<1>3. IsList(<<>>) /\ DOMAIN <<>> = {}
  BY DEF IsList
<1>4. Shape(d)
  BY <1>2, <1>3 DEF Shape
<1>5. DOMAIN d.registry = {} /\ DOMAIN d.history = {}
  BY <1>2, <1>3
<1>6. Typed(d) /\ RowsFit(d) /\ RowsOfAll(d) /\ NamesDiffer(d) /\ Chains(d) /\ CurrentShown(d)
  BY <1>2, <1>5 DEF Typed, RowsFit, RowsOfAll, NamesDiffer, Chains, CurrentShown
<1>7. VersionsFit(d)
  BY <1>2, TablesOfTypes DEF VersionsFit, Types, Tables
<1>8. QED
  BY <1>1, <1>4, <1>6, <1>7 DEF Sound

LEMMA StartSound == Sound(After[Len(Start)])
<1> DEFINE F == {m \in 0..Len(Start) : ~Sound(After[m])}
<1>1. Len(Start) \in Nat /\ DOMAIN Start = 1..Len(Start)
  BY StartIsFinite DEF StartLength
<1>2. SUFFICES ASSUME F # {} PROVE FALSE
  BY <1>1
<1>3. PICK m \in F : \A k \in F : m <= k
  <2>1. F \subseteq Nat
    BY <1>1
  <2>2. QED
    BY <2>1, <1>2, SmallestNumber
<1>4. m # 0
  BY <1>3, AfterIs, EmptySound
<1>5. /\ m \in 1..Len(Start) /\ m - 1 \in 0..Len(Start) /\ m - 1 \in Nat /\ ~(m <= m - 1)
  BY <1>1, <1>3, <1>4
<1>6. Sound(After[m - 1])
  BY <1>3, <1>5
<1>7. Call(Start[m]) /\ Fits(After[m - 1], Start[m])
  BY <1>1, <1>5, CallsKnown, StartSucceeds
<1>8. Follows(After[m - 1], Performed(After[m - 1], Start[m], m - 1))
  BY <1>5, <1>6, <1>7, PerformedFollows
<1>9. Sound(After[m])
  BY <1>5, <1>8, AfterIs DEF Follows
<1>10. QED
  BY <1>3, <1>9

-----------------------------------------------------------------------------
(* The invariant                                                           *)

IInv ==
    /\ Sound(db)
    /\ stamp \in [Process -> Nat \cup {None}] /\ clock \in Nat

LEMMA InitSound == Init => IInv
<1> SUFFICES ASSUME Init PROVE IInv
  OBVIOUS
<1>1. Sound(db)
  BY StartSound DEF Init
<1>2. stamp \in [Process -> Nat \cup {None}] /\ clock \in Nat
  BY StartIsFinite DEF Init, StartLength
<1>3. QED
  BY <1>1, <1>2 DEF IInv

(* A step leaves the tables as they are or is one transaction.             *)
LEMMA NextFollows == IInv /\ [Next]_vars => IInv' /\ (UNCHANGED db \/ Follows(db, db'))
<1> SUFFICES ASSUME IInv, [Next]_vars
             PROVE  IInv' /\ (UNCHANGED db \/ Follows(db, db'))
  OBVIOUS
<1>1. ASSUME NEW p \in Process, Begin(p)
      PROVE  IInv' /\ UNCHANGED db
  BY <1>1 DEF Begin, IInv
<1>2. ASSUME NEW p \in Process, Rollback(p)
      PROVE  IInv' /\ UNCHANGED db
  BY <1>2 DEF Rollback, IInv
<1>3. ASSUME NEW p \in Process, NEW c \in Calls, Perform(p, c)
      PROVE  IInv' /\ Follows(db, db')
  <2>1. stamp[p] \in Nat /\ Sound(db) /\ MayPerform(db, c) /\ db' = Done(db, c, stamp[p])
    BY <1>3 DEF Perform, IInv
  <2>2. Follows(db, db')
    BY <2>1, DoneFollows
  <2>3. stamp' \in [Process -> Nat \cup {None}] /\ clock' \in Nat
    BY <1>3 DEF Perform, IInv
  <2>4. QED
    BY <2>2, <2>3 DEF Follows, IInv
<1>4. CASE UNCHANGED vars
  BY <1>4 DEF vars, IInv
<1>5. QED
  BY <1>1, <1>2, <1>3, <1>4 DEF Next

(* In every reachable state the tables fit each other: each row belongs to *)
(* a registered object of its type and refers to registered objects, each  *)
(* registered object has one row of its own and one of its type, no two    *)
(* have the same name, each version has one row of object, and the current *)
(* version of an object has the rows that the object has.                  *)
THEOREM TablesAreSound == Spec => []Sound(db)
<1>1. IInv => Sound(db)
  BY DEF IInv
<1>2. QED
  BY <1>1, InitSound, NextFollows, PTL DEF Spec

(* The versions of an object lead from one to the next, however operations *)
(* of several callers follow each other.                                   *)
THEOREM HistoryChains == Spec => []HistoryIsAChain
<1>1. IInv => HistoryIsAChain
  BY DEF IInv, Sound, Chains, ChainOf, HistoryIsAChain, Ids
<1>2. QED
  BY <1>1, InitSound, NextFollows, PTL DEF Spec

(* No operation changes the data of a contact and leaves it the state that *)
(* says that its verification passed or failed.                            *)
THEOREM VerifiedDataIsSteady == Spec => VerifiedDataStays
<1> DEFINE Kept ==
        \A f \in {s \in db.states \cap db'.states : s.state \in FinalStates} :
          LET values(d) == {r.value : r \in Rows(d, "contact", f.id)} IN
          Live(f.id) /\ Live(f.id)' => values(db) = values(db')
<1>1. IInv /\ [Next]_vars => [Kept]_vars
  <2> SUFFICES ASSUME IInv, [Next]_vars
               PROVE  [Kept]_vars
    OBVIOUS
  <2>1. UNCHANGED db => Kept
    OBVIOUS
  <2>2. Follows(db, db') => Kept
    BY DEF Follows, Steady, ValuesOf, Live
  <2>3. QED
    BY <2>1, <2>2, NextFollows
<1>2. QED
  BY <1>1, InitSound, NextFollows, PTL DEF Spec, VerifiedDataStays


-----------------------------------------------------------------------------
(* What a version shows                                                    *)

(* The data that a query makes of the rows of an object and of what they   *)
(* refer to                                                                *)
ContactOf(common, rows, r) ==
    [common |-> common, value |-> r.value, disclose |-> r.disclose,
     addresses |-> {[type |-> a.type, place |-> a.place, company |-> a.company] :
                    a \in rows["contact_address"]}]

NssetOf(common, rows, r, names) ==
    [common |-> common, level |-> r.level,
     hosts |-> [f \in {x.fqdn : x \in rows["host"]} |->
                   {m.ip : m \in {x \in rows["host_ipaddr_map"] : x.fqdn = f}}],
     contacts |-> names]

KeysetOf(common, rows, names) ==
    [common |-> common, keys |-> {k.key : k \in rows["dnskey"]}, contacts |-> names]

DomainOf(common, rows, r, registrant, nsset, keyset, names) ==
    [common |-> common, registrant |-> registrant, nsset |-> nsset, keyset |-> keyset,
     exdate |-> r.exdate, enum |-> {e.exdate : e \in rows["enumval"]}, contacts |-> names]

LEMMA ContactForm ==
    ASSUME NEW d, NEW id, NEW rows, NEW x
    PROVE  x \in Contact(d, id, rows) <=>
              \E o \in rows["object"], r \in rows["contact"] :
                  x = ContactOf(Common(d, id, o), rows, r)
<1> DEFINE made(o, r) ==
               ContactOf(Common(d, id, o), rows, r)
<1>1. Contact(d, id, rows) = {made(o, r) : o \in rows["object"], r \in rows["contact"]}
  BY DEF Contact, ContactOf
<1> HIDE DEF made
<1>2. x \in Contact(d, id, rows) <=>
         \E o \in rows["object"], r \in rows["contact"] : x = made(o, r)
  BY <1>1
<1>3. QED
  BY <1>2 DEF made

LEMMA NssetForm ==
    ASSUME NEW d, NEW id, NEW rows, NEW old, NEW x
    PROVE  x \in Nsset(d, id, rows, old) <=>
              \E o \in rows["object"], r \in rows["nsset"] :
                  x = NssetOf(Common(d, id, o), rows, r,
                         ContactNames(d, rows["nsset_contact_map"], old))
<1> DEFINE made(o, r) ==
               NssetOf(Common(d, id, o), rows, r,
                         ContactNames(d, rows["nsset_contact_map"], old))
<1>1. Nsset(d, id, rows, old) = {made(o, r) : o \in rows["object"], r \in rows["nsset"]}
  BY DEF Nsset, NssetOf
<1> HIDE DEF made
<1>2. x \in Nsset(d, id, rows, old) <=>
         \E o \in rows["object"], r \in rows["nsset"] : x = made(o, r)
  BY <1>1
<1>3. QED
  BY <1>2 DEF made

LEMMA KeysetForm ==
    ASSUME NEW d, NEW id, NEW rows, NEW old, NEW x
    PROVE  x \in Keyset(d, id, rows, old) <=>
              \E o \in rows["object"], r \in rows["keyset"] :
                  x = KeysetOf(Common(d, id, o), rows,
                          ContactNames(d, rows["keyset_contact_map"], old))
<1> DEFINE made(o, r) ==
               KeysetOf(Common(d, id, o), rows,
                          ContactNames(d, rows["keyset_contact_map"], old))
<1>1. Keyset(d, id, rows, old) = {made(o, r) : o \in rows["object"], r \in rows["keyset"]}
  BY DEF Keyset, KeysetOf
<1> HIDE DEF made
<1>2. x \in Keyset(d, id, rows, old) <=>
         \E o \in rows["object"], r \in rows["keyset"] : x = made(o, r)
  BY <1>1
<1>3. QED
  BY <1>2 DEF made

LEMMA DomainForm ==
    ASSUME NEW d, NEW id, NEW rows, NEW old, NEW x
    PROVE  x \in Domain(d, id, rows, old) <=>
              \E o \in rows["object"], r \in rows["domain"] :
                  x = DomainOf(Common(d, id, o), rows, r, d.registry[r.registrant].name,
                          NameOrNull(d, r.nsset, "nsset", old),
                          NameOrNull(d, r.keyset, "keyset", old),
                          ContactNames(d, rows["domain_contact_map"], old))
<1> DEFINE made(o, r) ==
               DomainOf(Common(d, id, o), rows, r, d.registry[r.registrant].name,
                          NameOrNull(d, r.nsset, "nsset", old),
                          NameOrNull(d, r.keyset, "keyset", old),
                          ContactNames(d, rows["domain_contact_map"], old))
<1>1. Domain(d, id, rows, old) = {made(o, r) : o \in rows["object"], r \in rows["domain"]}
  BY DEF Domain, DomainOf
<1> HIDE DEF made
<1>2. x \in Domain(d, id, rows, old) <=>
         \E o \in rows["object"], r \in rows["domain"] : x = made(o, r)
  BY <1>1
<1>3. QED
  BY <1>2 DEF made

HasOnly(S, y) == \A x : x \in S <=> x = y

LEMMA OneMember ==
    ASSUME NEW S, NEW y, HasOnly(S, y)
    PROVE  Cardinality(S) = 1
<1>1. S = {y}
  BY DEF HasOnly
<1>2. QED
  BY <1>1, FS_Singleton

SameMembers(S, T) == \A x : x \in S <=> x \in T

LEMMA SameMembersEqual ==
    ASSUME NEW S, NEW T, SameMembers(S, T)
    PROVE  S = T
  BY DEF SameMembers

(* Contacts and other objects that rows refer to have names.               *)
LEMMA LiveNames ==
    ASSUME NEW d, NEW rows, \A r \in rows : IsLive(d, "contact", r.contact), NEW t, NEW f
    PROVE  ContactNames(d, rows, t) = ContactNames(d, rows, f)
<1>1. \A r \in rows : Joined(d, r.contact, "contact", t) = Joined(d, r.contact, "contact", f)
  BY DEF Joined, IsLive
<1>2. QED
  BY <1>1 DEF ContactNames

LEMMA LiveName ==
    ASSUME NEW d, NEW type, NEW i, None \notin DOMAIN d.registry, i = None \/ IsLive(d, type, i),
           NEW t, NEW f
    PROVE  NameOrNull(d, i, type, t) = NameOrNull(d, i, type, f)
<1>1. Joined(d, i, type, t) = Joined(d, i, type, f)
  BY DEF Joined, IsLive
<1>2. QED
  BY <1>1 DEF NameOrNull

LEMMA RegistryNumbers ==
    ASSUME NEW d, Sound(d)
    PROVE  DOMAIN d.registry \subseteq Nat /\ None \notin DOMAIN d.registry
  BY ListFacts, NullIsNoTime DEF Sound, Shape


(* The data of a registered object is one.                                 *)
LEMMA OneInfo ==
    ASSUME NEW d, Sound(d), NEW id \in DOMAIN d.registry, d.registry[id].erased = None
    PROVE  Cardinality(Info(d, id)) = 1
<1>1. PICK type \in Types : type = d.registry[id].type
  BY DEF Sound, Typed, EntryFits
<1>2. OneRow(d, "object", id) /\ OneRow(d, type, id)
  BY <1>1 DEF Sound, RowsOfAll, IsLive
<1>3. PICK rows : rows = Data(d, id)
  OBVIOUS
<1>4. rows["object"] = Rows(d, "object", id) /\ rows[type] = Rows(d, type, id)
  BY <1>3, TablesOfTypes DEF Data, Tables
<1>5. PICK o, r : rows["object"] = {o} /\ rows[type] = {r}
  BY <1>2, <1>4 DEF OneRow
<1>6. PICK f : f = FALSE
  OBVIOUS
<1>7. CASE type = "contact"
  <2>1. PICK y : y = ContactOf(Common(d, id, o), rows, r)
    OBVIOUS
  <2>2. rows["object"] = {o} /\ rows["contact"] = {r}
    BY <1>5, <1>7
  <2>3. ASSUME NEW x PROVE x \in Contact(d, id, rows) <=> x = y
    BY <2>1, <2>2, ContactForm
  <2>4. HasOnly(Contact(d, id, rows), y)
    BY <2>3 DEF HasOnly
  <2>5. Info(d, id) = Contact(d, id, rows)
    BY <1>1, <1>3, <1>7 DEF Info, InfoContact
  <2>6. QED
    BY <2>4, <2>5, OneMember
<1>8. CASE type = "nsset"
  <2>1. PICK y : y = NssetOf(Common(d, id, o), rows, r,
                      ContactNames(d, rows["nsset_contact_map"], f))
    OBVIOUS
  <2>2. rows["object"] = {o} /\ rows["nsset"] = {r}
    BY <1>5, <1>8
  <2>3. ASSUME NEW x PROVE x \in Nsset(d, id, rows, f) <=> x = y
    BY <2>1, <2>2, NssetForm
  <2>4. HasOnly(Nsset(d, id, rows, f), y)
    BY <2>3 DEF HasOnly
  <2>5. Info(d, id) = Nsset(d, id, rows, f)
    <3>1. Info(d, id) = Nsset(d, id, rows, FALSE)
      BY <1>1, <1>3, <1>8 DEF Info, InfoNsset
    <3>2. QED
      BY <3>1, <1>6, Zenon
  <2>6. QED
    BY <2>4, <2>5, OneMember
<1>9. CASE type = "keyset"
  <2>1. PICK y : y = KeysetOf(Common(d, id, o), rows,
                       ContactNames(d, rows["keyset_contact_map"], f))
    OBVIOUS
  <2>2. rows["object"] = {o} /\ rows["keyset"] = {r}
    BY <1>5, <1>9
  <2>3. ASSUME NEW x PROVE x \in Keyset(d, id, rows, f) <=> x = y
    BY <2>1, <2>2, KeysetForm
  <2>4. HasOnly(Keyset(d, id, rows, f), y)
    BY <2>3 DEF HasOnly
  <2>5. Info(d, id) = Keyset(d, id, rows, f)
    <3>1. Info(d, id) = Keyset(d, id, rows, FALSE)
      BY <1>1, <1>3, <1>9 DEF Info, InfoKeyset
    <3>2. QED
      BY <3>1, <1>6, Zenon
  <2>6. QED
    BY <2>4, <2>5, OneMember
<1>10. CASE type = "domain"
  <2>1. PICK y : y = DomainOf(Common(d, id, o), rows, r, d.registry[r.registrant].name,
                       NameOrNull(d, r.nsset, "nsset", f),
                       NameOrNull(d, r.keyset, "keyset", f),
                       ContactNames(d, rows["domain_contact_map"], f))
    OBVIOUS
  <2>2. rows["object"] = {o} /\ rows["domain"] = {r}
    BY <1>5, <1>10
  <2>3. ASSUME NEW x PROVE x \in Domain(d, id, rows, f) <=> x = y
    BY <2>1, <2>2, DomainForm
  <2>4. HasOnly(Domain(d, id, rows, f), y)
    BY <2>3 DEF HasOnly
  <2>5. Info(d, id) = Domain(d, id, rows, f)
    <3>1. Info(d, id) = Domain(d, id, rows, FALSE)
      BY <1>1, <1>3, <1>10 DEF Info, InfoDomain
    <3>2. QED
      BY <3>1, <1>6, Zenon
  <2>6. QED
    BY <2>4, <2>5, OneMember
<1>11. QED
  BY <1>7, <1>8, <1>9, <1>10 DEF Types

(* The current version of an object shows its rows, and is its own.        *)
LEMMA CurrentRows ==
    ASSUME NEW d, Sound(d), NEW id \in DOMAIN d.registry, d.registry[id].erased = None,
           NEW h, h = d.registry[id].historyid
    PROVE  Version(d, h) = Data(d, id) /\ OwnersOf(d, h) = {id}
<1>1. \A t \in Tables : Shows(d, h, t) = Rows(d, t, id)
  BY DEF Sound, CurrentShown
<1>2. Version(d, h) = Data(d, id)
  BY <1>1 DEF Version, Data, Shows
<1>3. PICK type \in Types : IsLive(d, type, id)
  BY DEF Sound, Typed, EntryFits, IsLive
<1>4. PICK o : Rows(d, "object", id) = {o}
  BY <1>3 DEF Sound, RowsOfAll, OneRow, IsLive
<1>5. Shows(d, h, "object") = {o}
  BY <1>1, <1>4 DEF Tables
<1>6. OwnersOf(d, h) = {r.id : r \in Shows(d, h, "object")}
  BY DEF OwnersOf, Shows
<1>7. o.id = id
  BY <1>4 DEF Rows
<1>8. QED
  BY <1>2, <1>5, <1>6, <1>7

(* Whether erased objects are joined does not matter for the rows that an  *)
(* object has now: all that they refer to is registered.                   *)
LEMMA SameJoins ==
    ASSUME NEW d, Sound(d), NEW id, NEW rows, \A t \in Tables : rows[t] \subseteq d.live[t],
           NEW y, NEW f
    PROVE  /\ Nsset(d, id, rows, y) = Nsset(d, id, rows, f)
           /\ Keyset(d, id, rows, y) = Keyset(d, id, rows, f)
           /\ Domain(d, id, rows, y) = Domain(d, id, rows, f)
<1>1. \A t \in LinkTables : ContactNames(d, rows[t], y) = ContactNames(d, rows[t], f)
  <2> SUFFICES ASSUME NEW t \in LinkTables
               PROVE  ContactNames(d, rows[t], y) = ContactNames(d, rows[t], f)
    OBVIOUS
  <2>1. t \in Tables
    BY DEF LinkTables, Tables, NssetTables, KeysetTables, DomainTables
  <2>2. \A r \in rows[t] : IsLive(d, "contact", r.contact)
    BY <2>1 DEF Sound, RowsFit, Refers
  <2>3. QED
    BY <2>2, LiveNames
<1>2. \A r \in rows["domain"] :
         /\ NameOrNull(d, r.nsset, "nsset", y) = NameOrNull(d, r.nsset, "nsset", f)
         /\ NameOrNull(d, r.keyset, "keyset", y) = NameOrNull(d, r.keyset, "keyset", f)
  <2> SUFFICES ASSUME NEW r \in rows["domain"]
               PROVE  /\ NameOrNull(d, r.nsset, "nsset", y) = NameOrNull(d, r.nsset, "nsset", f)
                      /\ NameOrNull(d, r.keyset, "keyset", y)
                            = NameOrNull(d, r.keyset, "keyset", f)
    OBVIOUS
  <2>1. "domain" \in Tables
    BY TablesOfTypes DEF Types
  <2>2. Refers(d, "domain", r)
    BY <2>1 DEF Sound, RowsFit
  <2>3. /\ r.nsset = None \/ IsLive(d, "nsset", r.nsset)
        /\ r.keyset = None \/ IsLive(d, "keyset", r.keyset)
    BY <2>2 DEF Refers
  <2>4. QED
    BY <2>3, LiveName, RegistryNumbers
<1>3. Nsset(d, id, rows, y) = Nsset(d, id, rows, f)
  <2>1. ContactNames(d, rows["nsset_contact_map"], y)
           = ContactNames(d, rows["nsset_contact_map"], f)
    BY <1>1 DEF LinkTables
  <2>2. ASSUME NEW x PROVE x \in Nsset(d, id, rows, y) <=> x \in Nsset(d, id, rows, f)
    BY <2>1, NssetForm
  <2>3. SameMembers(Nsset(d, id, rows, y), Nsset(d, id, rows, f))
    BY <2>2 DEF SameMembers
  <2>4. QED
    BY <2>3, SameMembersEqual
<1>4. Keyset(d, id, rows, y) = Keyset(d, id, rows, f)
  <2>1. ContactNames(d, rows["keyset_contact_map"], y)
           = ContactNames(d, rows["keyset_contact_map"], f)
    BY <1>1 DEF LinkTables
  <2>2. ASSUME NEW x PROVE x \in Keyset(d, id, rows, y) <=> x \in Keyset(d, id, rows, f)
    BY <2>1, KeysetForm
  <2>3. SameMembers(Keyset(d, id, rows, y), Keyset(d, id, rows, f))
    BY <2>2 DEF SameMembers
  <2>4. QED
    BY <2>3, SameMembersEqual
<1>5. Domain(d, id, rows, y) = Domain(d, id, rows, f)
  <2>1. ContactNames(d, rows["domain_contact_map"], y)
           = ContactNames(d, rows["domain_contact_map"], f)
    BY <1>1 DEF LinkTables
  <2>2. ASSUME NEW x PROVE x \in Domain(d, id, rows, y) <=> x \in Domain(d, id, rows, f)
    BY <2>1, <1>2, DomainForm
  <2>3. SameMembers(Domain(d, id, rows, y), Domain(d, id, rows, f))
    BY <2>2 DEF SameMembers
  <2>4. QED
    BY <2>3, SameMembersEqual
<1>6. QED
  BY <1>3, <1>4, <1>5

LEMMA CurrentInfo ==
    ASSUME NEW d, Sound(d), NEW id \in DOMAIN d.registry, d.registry[id].erased = None,
           NEW h, h = d.registry[id].historyid
    PROVE  InfoHistory(d, h) = Info(d, id)
<1>1. PICK type \in Types : type = d.registry[id].type
  BY DEF Sound, Typed, EntryFits
<1>2. PICK rows : rows = Data(d, id)
  OBVIOUS
<1>3. Version(d, h) = rows /\ OwnersOf(d, h) = {id}
  BY <1>2, CurrentRows
<1>4. InfoHistory(d, h) =
         CASE type = "contact" -> Contact(d, id, rows)
           [] type = "nsset" -> Nsset(d, id, rows, TRUE)
           [] type = "keyset" -> Keyset(d, id, rows, TRUE)
           [] type = "domain" -> Domain(d, id, rows, TRUE)
  BY <1>1, <1>3 DEF InfoHistory, InfoContactHistory, InfoNssetHistory, InfoKeysetHistory,
                    InfoDomainHistory
<1>5. Info(d, id) =
         CASE type = "contact" -> Contact(d, id, rows)
           [] type = "nsset" -> Nsset(d, id, rows, FALSE)
           [] type = "keyset" -> Keyset(d, id, rows, FALSE)
           [] type = "domain" -> Domain(d, id, rows, FALSE)
  BY <1>1, <1>2 DEF Info, InfoContact, InfoNsset, InfoKeyset, InfoDomain
<1>6. \A t \in Tables : rows[t] \subseteq d.live[t]
  BY <1>2 DEF Data, Rows
<1>7. /\ Nsset(d, id, rows, TRUE) = Nsset(d, id, rows, FALSE)
      /\ Keyset(d, id, rows, TRUE) = Keyset(d, id, rows, FALSE)
      /\ Domain(d, id, rows, TRUE) = Domain(d, id, rows, FALSE)
  BY <1>6, SameJoins, Zenon
<1>8. QED
  BY <1>4, <1>5, <1>7

(* The version of an object that is current shows the object as it is, by  *)
(* the queries that join it with the objects that it refers to: the query  *)
(* for a version, which joins erased objects too, finds the same.          *)
THEOREM CurrentVersionShowsObject == Spec => []CurrentVersionIsLive
<1>1. IInv => CurrentVersionIsLive
  <2> SUFFICES ASSUME IInv, NEW id \in Ids, Live(id)
               PROVE  /\ Cardinality(Info(db, id)) = 1
                      /\ InfoHistory(db, db.registry[id].historyid) = Info(db, id)
    BY DEF CurrentVersionIsLive
  <2>1. Sound(db) /\ id \in DOMAIN db.registry /\ db.registry[id].erased = None
    BY DEF IInv, Ids, Live
  <2>2. QED
    BY <2>1, OneInfo, CurrentInfo
<1>2. QED
  BY <1>1, InitSound, NextFollows, PTL DEF Spec


-----------------------------------------------------------------------------
(* Versions of before                                                      *)

(* The query for a version joins erased objects too.                       *)
IsYes(y) == y = TRUE

LEMMA KeptJoined ==
    ASSUME NEW d, NEW e, Grows(d, e), NEW i \in DOMAIN d.registry, NEW type, NEW y, IsYes(y)
    PROVE  Joined(e, i, type, y) = Joined(d, i, type, y)
<1>1. i \in DOMAIN e.registry /\ e.registry[i].type = d.registry[i].type
  BY DEF Grows
<1>2. Joined(e, i, type, TRUE) = Joined(d, i, type, TRUE)
  BY <1>1 DEF Joined
<1>3. QED
  BY <1>2, Zenon DEF IsYes

LEMMA KeptNames ==
    ASSUME NEW d, NEW e, Grows(d, e), NEW rows, \A r \in rows : r.contact \in DOMAIN d.registry,
           NEW y, IsYes(y)
    PROVE  ContactNames(e, rows, y) = ContactNames(d, rows, y)
<1>1. \A r \in rows : Joined(e, r.contact, "contact", y) = Joined(d, r.contact, "contact", y)
  BY KeptJoined
<1>2. \A r \in rows : \A i \in Joined(d, r.contact, "contact", y) :
         e.registry[i].name = d.registry[i].name
  BY DEF Joined, Grows
<1>3. QED
  BY <1>1, <1>2 DEF ContactNames

LEMMA KeptName ==
    ASSUME NEW d, NEW e, Sound(d), Sound(e), Grows(d, e), NEW type,
           NEW i \in DOMAIN d.registry \cup {None}, NEW y, IsYes(y)
    PROVE  NameOrNull(e, i, type, y) = NameOrNull(d, i, type, y)
<1>1. CASE i \in DOMAIN d.registry
  <2>1. Joined(e, i, type, y) = Joined(d, i, type, y) /\ e.registry[i].name = d.registry[i].name
    <3>1. Joined(e, i, type, y) = Joined(d, i, type, y)
      BY <1>1, KeptJoined
    <3>2. e.registry[i].name = d.registry[i].name
      BY <1>1 DEF Grows
    <3>3. QED
      BY <3>1, <3>2
  <2>2. QED
    BY <2>1 DEF NameOrNull
<1>2. CASE i = None
  <2>1. None \notin DOMAIN d.registry /\ None \notin DOMAIN e.registry
    BY RegistryNumbers
  <2>2. Joined(e, i, type, y) = {} /\ Joined(d, i, type, y) = {}
    BY <1>2, <2>1 DEF Joined
  <2>3. QED
    BY <2>2 DEF NameOrNull
<1>3. QED
  BY <1>1, <1>2

LEMMA KeptForms ==
    ASSUME NEW d, NEW e, Sound(d), Sound(e), Grows(d, e), NEW id \in DOMAIN d.registry,
           NEW rows, \A t \in Tables : \A r \in rows[t] : KeptRefers(d, t, r), NEW y, IsYes(y)
    PROVE  /\ Contact(e, id, rows) = Contact(d, id, rows)
           /\ Nsset(e, id, rows, y) = Nsset(d, id, rows, y)
           /\ Keyset(e, id, rows, y) = Keyset(d, id, rows, y)
           /\ Domain(e, id, rows, y) = Domain(d, id, rows, y)
<1>1. \A o : Common(e, id, o) = Common(d, id, o)
  BY DEF Common, Grows
<1>2. \A t \in LinkTables : ContactNames(e, rows[t], y) = ContactNames(d, rows[t], y)
  <2> SUFFICES ASSUME NEW t \in LinkTables
               PROVE  ContactNames(e, rows[t], y) = ContactNames(d, rows[t], y)
    OBVIOUS
  <2>1. t \in Tables
    BY DEF LinkTables, Tables, NssetTables, KeysetTables, DomainTables
  <2>2. \A r \in rows[t] : r.contact \in DOMAIN d.registry
    BY <2>1 DEF KeptRefers
  <2>3. QED
    BY <2>2, KeptNames
<1>3. \A r \in rows["domain"] :
         /\ e.registry[r.registrant].name = d.registry[r.registrant].name
         /\ NameOrNull(e, r.nsset, "nsset", y) = NameOrNull(d, r.nsset, "nsset", y)
         /\ NameOrNull(e, r.keyset, "keyset", y) = NameOrNull(d, r.keyset, "keyset", y)
  <2> SUFFICES ASSUME NEW r \in rows["domain"]
               PROVE  /\ e.registry[r.registrant].name = d.registry[r.registrant].name
                      /\ NameOrNull(e, r.nsset, "nsset", y) = NameOrNull(d, r.nsset, "nsset", y)
                      /\ NameOrNull(e, r.keyset, "keyset", y) = NameOrNull(d, r.keyset, "keyset", y)
    OBVIOUS
  <2>1. "domain" \in Tables
    BY TablesOfTypes DEF Types
  <2>2. /\ r.registrant \in DOMAIN d.registry /\ r.nsset \in DOMAIN d.registry \cup {None}
        /\ r.keyset \in DOMAIN d.registry \cup {None}
    BY <2>1 DEF KeptRefers
  <2>3. e.registry[r.registrant].name = d.registry[r.registrant].name
    BY <2>2 DEF Grows
  <2>4. QED
    BY <2>2, <2>3, KeptName
<1>4. Contact(e, id, rows) = Contact(d, id, rows)
  <2>1. ASSUME NEW x PROVE x \in Contact(e, id, rows) <=> x \in Contact(d, id, rows)
    BY <1>1, ContactForm
  <2>2. SameMembers(Contact(e, id, rows), Contact(d, id, rows))
    BY <2>1 DEF SameMembers
  <2>3. QED
    BY <2>2, SameMembersEqual
<1>5. Nsset(e, id, rows, y) = Nsset(d, id, rows, y)
  <2>1. ContactNames(e, rows["nsset_contact_map"], y) = ContactNames(d, rows["nsset_contact_map"], y)
    BY <1>2 DEF LinkTables
  <2>2. ASSUME NEW x PROVE x \in Nsset(e, id, rows, y) <=> x \in Nsset(d, id, rows, y)
    BY <1>1, <2>1, NssetForm
  <2>3. SameMembers(Nsset(e, id, rows, y), Nsset(d, id, rows, y))
    BY <2>2 DEF SameMembers
  <2>4. QED
    BY <2>3, SameMembersEqual
<1>6. Keyset(e, id, rows, y) = Keyset(d, id, rows, y)
  <2>1. ContactNames(e, rows["keyset_contact_map"], y)
           = ContactNames(d, rows["keyset_contact_map"], y)
    BY <1>2 DEF LinkTables
  <2>2. ASSUME NEW x PROVE x \in Keyset(e, id, rows, y) <=> x \in Keyset(d, id, rows, y)
    BY <1>1, <2>1, KeysetForm
  <2>3. SameMembers(Keyset(e, id, rows, y), Keyset(d, id, rows, y))
    BY <2>2 DEF SameMembers
  <2>4. QED
    BY <2>3, SameMembersEqual
<1>7. Domain(e, id, rows, y) = Domain(d, id, rows, y)
  <2>1. ContactNames(e, rows["domain_contact_map"], y)
           = ContactNames(d, rows["domain_contact_map"], y)
    BY <1>2 DEF LinkTables
  <2>2. ASSUME NEW x PROVE x \in Domain(e, id, rows, y) <=> x \in Domain(d, id, rows, y)
    BY <1>1, <1>3, <2>1, DomainForm
  <2>3. SameMembers(Domain(e, id, rows, y), Domain(d, id, rows, y))
    BY <2>2 DEF SameMembers
  <2>4. QED
    BY <2>3, SameMembersEqual
<1>8. QED
  BY <1>4, <1>5, <1>6, <1>7

(* What a version of an object shows                                       *)
ShownOf(d, id, h) ==
    LET type == d.registry[id].type IN
    CASE type = "contact" -> InfoContactHistory(d, id, h)
      [] type = "nsset" -> InfoNssetHistory(d, id, h)
      [] type = "keyset" -> InfoKeysetHistory(d, id, h)
      [] type = "domain" -> InfoDomainHistory(d, id, h)

LEMMA KeptInfo ==
    ASSUME NEW d, NEW e, Sound(d), Sound(e), Grows(d, e), NEW h \in DOMAIN d.history
    PROVE  InfoHistory(e, h) = InfoHistory(d, h)
<1>1. \A t \in Tables : Shows(e, h, t) = Shows(d, h, t)
  BY DEF Grows
<1>2. PICK rows : rows = Version(d, h)
  OBVIOUS
<1>3. Version(e, h) = rows
  BY <1>1, <1>2 DEF Version, Shows
<1>4. OwnersOf(e, h) = OwnersOf(d, h)
  <2>1. "object" \in Tables
    BY DEF Tables
  <2>2. \A x : OwnersOf(x, h) = {r.id : r \in Shows(x, h, "object")}
    BY DEF OwnersOf, Shows
  <2>3. QED
    BY <2>1, <2>2, <1>1
<1>5. \A t \in Tables : \A r \in rows[t] : KeptRefers(d, t, r)
  BY <1>2 DEF Version, Sound, VersionsFit
<1>6. OwnersOf(d, h) \subseteq DOMAIN d.registry
  BY DEF OwnersOf, Sound, VersionsFit, KeptRefers, Tables
<1>7. ASSUME NEW id \in OwnersOf(d, h)
      PROVE  ShownOf(e, id, h) = ShownOf(d, id, h)
  <2>1. id \in DOMAIN d.registry /\ e.registry[id].type = d.registry[id].type
    BY <1>6 DEF Grows
  <2>2. /\ Contact(e, id, rows) = Contact(d, id, rows)
        /\ Nsset(e, id, rows, TRUE) = Nsset(d, id, rows, TRUE)
        /\ Keyset(e, id, rows, TRUE) = Keyset(d, id, rows, TRUE)
        /\ Domain(e, id, rows, TRUE) = Domain(d, id, rows, TRUE)
    <3>1. PICK y : IsYes(y)
      BY Zenon DEF IsYes
    <3>2. /\ Contact(e, id, rows) = Contact(d, id, rows)
          /\ Nsset(e, id, rows, y) = Nsset(d, id, rows, y)
          /\ Keyset(e, id, rows, y) = Keyset(d, id, rows, y)
          /\ Domain(e, id, rows, y) = Domain(d, id, rows, y)
      BY <1>5, <2>1, <3>1, KeptForms
    <3>3. QED
      BY <3>1, <3>2, Zenon DEF IsYes
  <2>3. QED
    BY <1>2, <1>3, <2>1, <2>2
       DEF ShownOf, InfoContactHistory, InfoNssetHistory, InfoKeysetHistory, InfoDomainHistory
<1>8. \A x : InfoHistory(x, h) = UNION {ShownOf(x, id, h) : id \in OwnersOf(x, h)}
  BY DEF InfoHistory, ShownOf
<1>9. QED
  BY <1>4, <1>7, <1>8

(* What a version shows, it shows for ever.                                *)
THEOREM VersionsStay == Spec => VersionsAreKept
<1> DEFINE Kept == \A h \in DOMAIN db.history : InfoHistory(db', h) = InfoHistory(db, h)
<1>1. IInv /\ [Next]_vars => [Kept]_vars
  <2> SUFFICES ASSUME IInv, [Next]_vars
               PROVE  [Kept]_vars
    OBVIOUS
  <2>1. Sound(db)
    BY DEF IInv
  <2>2. UNCHANGED db => Kept
    OBVIOUS
  <2>3. Follows(db, db') => Kept
    BY <2>1, KeptInfo DEF Follows
  <2>4. QED
    BY <2>2, <2>3, NextFollows
<1>2. QED
  BY <1>1, InitSound, NextFollows, PTL DEF Spec, VersionsAreKept


-----------------------------------------------------------------------------
(* Timelines                                                               *)

(* InOrder, of tables that are given                                       *)
Ordered(d, id) ==
    \A h \in VersionsOf(d, id) :
        d.history[h].to # None => d.history[h].from < d.history[h].to

LEMMA VersionNumbers ==
    ASSUME NEW d, Sound(d), NEW id \in DOMAIN d.registry
    PROVE  /\ VersionsOf(d, id) \subseteq Nat
           /\ \A h \in VersionsOf(d, id) : d.history[h].from \in Nat
           /\ d.registry[id].historyid \in VersionsOf(d, id) /\ d.registry[id].created \in Nat
           /\ d.registry[id].erased \in Nat \cup {None}
<1>1. \A h \in VersionsOf(d, id) : h \in DOMAIN d.history
  BY DEF VersionsOf, Sound, VersionsFit, Tables
<1>2. DOMAIN d.history \subseteq Nat
  BY ListFacts DEF Sound, Shape
<1>3. \A h \in VersionsOf(d, id) : d.history[h].from \in Nat
  BY <1>1 DEF Sound, Typed, VersionFits
<1>4. d.registry[id].historyid \in VersionsOf(d, id)
  BY DEF Sound, Chains, ChainOf
<1>5. d.registry[id].created \in Nat /\ d.registry[id].erased \in Nat \cup {None}
  BY DEF Sound, Typed, EntryFits
<1>6. QED
  BY <1>1, <1>2, <1>3, <1>4, <1>5

(* The chain of an object, in which each version ends when the next begins *)
LEMMA ChainFacts ==
    ASSUME NEW d, Sound(d), NEW id \in DOMAIN d.registry, NEW h \in VersionsOf(d, id)
    PROVE  /\ h <= d.registry[id].historyid
           /\ h = d.registry[id].historyid => d.history[h].to = d.registry[id].erased
           /\ h # d.registry[id].historyid =>
                 \E n \in VersionsOf(d, id) :
                    /\ n > h /\ d.history[h].to = d.history[n].from
                    /\ \A k \in VersionsOf(d, id) : ~(h < k /\ k < n)
  BY DEF Sound, Chains, ChainOf

(* A version ends before each later one begins, if they were written in    *)
(* order: the last one for which this is not so leads to one that is later *)
(* and not so either.                                                      *)
LEMMA LaterVersions ==
    ASSUME NEW d, Sound(d), NEW id \in DOMAIN d.registry, Ordered(d, id)
    PROVE  \A h, k \in VersionsOf(d, id) :
               h < k => /\ d.history[h].to \in Nat
                        /\ d.history[h].from < d.history[h].to
                        /\ d.history[h].to <= d.history[k].from
<1> SUFFICES ASSUME NEW k \in VersionsOf(d, id)
             PROVE  \A h \in VersionsOf(d, id) :
                        h < k => /\ d.history[h].to \in Nat
                                 /\ d.history[h].from < d.history[h].to
                                 /\ d.history[h].to <= d.history[k].from
  OBVIOUS
<1> DEFINE Good(h) == /\ d.history[h].to \in Nat
                      /\ d.history[h].from < d.history[h].to
                      /\ d.history[h].to <= d.history[k].from
           Bad == {h \in VersionsOf(d, id) : h < k /\ ~Good(h)}
           Gaps == {k - h : h \in Bad}
<1>1. /\ VersionsOf(d, id) \subseteq Nat /\ \A h \in VersionsOf(d, id) : d.history[h].from \in Nat
      /\ d.registry[id].historyid \in Nat
  BY VersionNumbers
<1>2. SUFFICES ASSUME Bad # {} PROVE FALSE
  OBVIOUS
<1>3. PICK h \in Bad : \A g \in Bad : g <= h
  <2>1. Gaps \subseteq Nat /\ Gaps # {}
    BY <1>1, <1>2
  <2>2. PICK n \in Gaps : \A m \in Gaps : n <= m
    BY <2>1, SmallestNumber
  <2>3. PICK h \in Bad : n = k - h
    BY <2>2
  <2>4. \A g \in Bad : k - h <= k - g
    BY <2>2, <2>3
  <2>5. \A g \in Bad : g <= h
    BY <2>4, <1>1
  <2>6. QED
    BY <2>5
<1>4. h # d.registry[id].historyid
  BY <1>1, <1>3, ChainFacts
<1>5. PICK n \in VersionsOf(d, id) :
         /\ n > h /\ d.history[h].to = d.history[n].from
         /\ \A j \in VersionsOf(d, id) : ~(h < j /\ j < n)
  BY <1>3, <1>4, ChainFacts
<1>6. d.history[h].to \in Nat /\ d.history[h].from < d.history[h].to
  BY <1>1, <1>3, <1>5, NullIsNoTime DEF Ordered
<1>7. n <= k
  BY <1>1, <1>3, <1>5
<1>8. CASE n = k
  BY <1>1, <1>3, <1>5, <1>6, <1>8
<1>9. CASE n < k
  <2>1. Good(n)
    BY <1>1, <1>3, <1>5, <1>9
  <2>2. d.history[h].to <= d.history[k].from
    BY <2>1, <1>1, <1>5
  <2>3. QED
    BY <2>2, <1>3, <1>6
<1>10. QED
  BY <1>1, <1>7, <1>8, <1>9

LEMMA LastIs ==
    ASSUME NEW d, NEW S, NEW h \in S, \A k \in S : d.history[k].from \in Nat,
           \A k \in S : k # h => d.history[k].from < d.history[h].from
    PROVE  LastOf(d, S) = h
<1>1. \A k \in S : d.history[k].from <= d.history[h].from
  OBVIOUS
<1>2. \A j \in S : (\A k \in S : d.history[k].from <= d.history[j].from) => j = h
  OBVIOUS
<1>3. QED
  BY <1>1, <1>2 DEF LastOf

LEMMA HistoryOfType ==
    ASSUME NEW d, Sound(d), NEW id \in DOMAIN d.registry, NEW lower, NEW upper
    PROVE  DataHistory(d, id, lower, upper) = History(d, id, lower, upper)
<1>1. d.registry[id].type \in Types
  BY DEF Sound, Typed, EntryFits
<1>2. QED
  BY <1>1 DEF Types, DataHistory, GetContactDataHistory, GetNssetDataHistory,
              GetKeysetDataHistory, GetDomainDataHistory

(* The record that is last is that of the version that is current.         *)
LEMMA TimelineEnds ==
    ASSUME NEW d, Sound(d), NEW id \in DOMAIN d.registry, Ordered(d, id),
           NEW lower, lower = None \/ lower \in Nat,
           NEW line, line = History(d, id, lower, None), line # {}
    PROVE  EndOfTimeline(d, line) = d.registry[id].erased
<1>1. PICK head : head = d.registry[id].historyid
  OBVIOUS
<1>2. PICK from : from = IF lower = None THEN d.registry[id].created ELSE lower
  OBVIOUS
<1>3. /\ VersionsOf(d, id) \subseteq Nat /\ \A h \in VersionsOf(d, id) : d.history[h].from \in Nat
      /\ head \in VersionsOf(d, id) /\ from \in Nat
      /\ d.history[head].to = d.registry[id].erased /\ d.registry[id].erased \in Nat \cup {None}
  BY <1>1, <1>2, VersionNumbers, ChainFacts
<1>4. line = {h \in VersionsOf(d, id) : d.history[h].to = None \/ from <= d.history[h].to}
  BY <1>2 DEF History
<1>5. \A h \in VersionsOf(d, id) : h # head =>
         /\ d.history[h].to \in Nat /\ d.history[h].from < d.history[h].to
         /\ d.history[h].to <= d.history[head].from
  BY <1>1, <1>3, ChainFacts, LaterVersions
<1>6. head \in line
  <2>1. CASE d.history[head].to = None
    BY <2>1, <1>3, <1>4
  <2>2. CASE d.history[head].to # None
    <3>1. PICK h \in line : TRUE
      OBVIOUS
    <3>2. d.history[head].from < d.history[head].to /\ d.history[head].to \in Nat
      BY <2>2, <1>3 DEF Ordered
    <3>3. h # head => from <= d.history[head].to
      BY <3>1, <3>2, <1>3, <1>4, <1>5, NullIsNoTime
    <3>4. QED
      BY <3>1, <3>2, <3>3, <1>3, <1>4
  <2>3. QED
    BY <2>1, <2>2
<1>7. \A k \in line : d.history[k].from \in Nat
  BY <1>3, <1>4
<1>8. \A k \in line : k # head => d.history[k].from < d.history[head].from
  BY <1>3, <1>4, <1>5
<1>9. LastOf(d, line) = head
  BY <1>6, <1>7, <1>8, LastIs
<1>10. QED
  BY <1>3, <1>9 DEF EndOfTimeline

(* At each instant the record is read of the version that was valid.       *)
LEMMA TimelineReads ==
    ASSUME NEW d, Sound(d), NEW id \in DOMAIN d.registry, Ordered(d, id),
           NEW lower, lower = None \/ lower \in Nat, NEW upper, upper = None \/ upper \in Nat,
           NEW line, line = History(d, id, lower, upper),
           NEW t \in Nat, d.registry[id].created <= t, NEW h \in VersionsOf(d, id),
           lower # None => lower <= t, upper # None => t <= upper,
           d.history[h].from <= t, d.history[h].to # None => t < d.history[h].to
    PROVE  {k \in line : d.history[k].from <= t} # {} /\ ReadAt(d, line, t) = h
<1>1. PICK from : from = IF lower = None THEN d.registry[id].created ELSE lower
  OBVIOUS
<1>2. /\ VersionsOf(d, id) \subseteq Nat /\ \A k \in VersionsOf(d, id) : d.history[k].from \in Nat
      /\ from \in Nat /\ from <= t
  BY <1>1, VersionNumbers
<1>3. line = {k \in VersionsOf(d, id) : /\ d.history[k].to = None \/ from <= d.history[k].to
                                        /\ upper # None => d.history[k].from <= upper}
  BY <1>1 DEF History
<1>4. d.history[h].to \in Nat \cup {None}
  <2>1. h \in DOMAIN d.history
    BY DEF VersionsOf, Sound, VersionsFit, Tables
  <2>2. QED
    BY <2>1 DEF Sound, Typed, VersionFits
<1>5. h \in line
  BY <1>2, <1>3, <1>4
<1>6. PICK S : S = {k \in line : d.history[k].from <= t}
  OBVIOUS
<1>7. h \in S /\ S \subseteq VersionsOf(d, id)
  BY <1>3, <1>5, <1>6
<1>8. \A k \in S : k # h => d.history[k].from < d.history[h].from
  <2> SUFFICES ASSUME NEW k \in S, k # h
               PROVE  d.history[k].from < d.history[h].from
    OBVIOUS
  <2>1. k \in VersionsOf(d, id) /\ d.history[k].from <= t
    BY <1>6, <1>7
  <2>2. ~(h < k)
    <3>1. h < k => /\ d.history[h].to \in Nat /\ d.history[h].to <= d.history[k].from
      BY <2>1, LaterVersions
    <3>2. QED
      BY <2>1, <3>1, <1>2, NullIsNoTime
  <2>3. k < h
    BY <2>1, <2>2, <1>2
  <2>4. /\ d.history[k].to \in Nat /\ d.history[k].from < d.history[k].to
        /\ d.history[k].to <= d.history[h].from
    BY <2>1, <2>3, LaterVersions
  <2>5. QED
    BY <2>1, <2>4, <1>2
<1>9. LastOf(d, S) = h
  BY <1>2, <1>7, <1>8, LastIs
<1>10. QED
  BY <1>6, <1>7, <1>9 DEF ReadAt

(* Read record by record, the history of an object tells at each instant   *)
(* the version that was valid, whatever limits are asked for.              *)
THEOREM TimelineIsRead == Spec => []TimelineTellsVersions
<1>1. IInv => TimelineTellsVersions
  <2> SUFFICES ASSUME IInv, NEW id \in Ids, InOrder(id),
                      NEW lower \in {None} \cup db.registry[id].created..clock,
                      NEW upper \in {None} \cup db.registry[id].created..clock,
                      NEW line, line = DataHistory(db, id, lower, upper)
               PROVE  /\ upper = None /\ line # {} =>
                            EndOfTimeline(db, line) = db.registry[id].erased
                      /\ \A t \in db.registry[id].created..clock : \A h \in VersionsOf(db, id) :
                            /\ lower # None => lower <= t
                            /\ upper # None => t <= upper
                            /\ db.history[h].from <= t
                            /\ db.history[h].to # None => t < db.history[h].to
                            => {k \in line : db.history[k].from <= t} # {} /\ ReadAt(db, line, t) = h
    BY DEF TimelineTellsVersions
  <2>1. Sound(db) /\ clock \in Nat /\ id \in DOMAIN db.registry /\ Ordered(db, id)
    BY DEF IInv, Ids, InOrder, Ordered
  <2>2. db.registry[id].created \in Nat
    BY <2>1, VersionNumbers
  <2>3. line = History(db, id, lower, upper)
    BY <2>1, HistoryOfType
  <2>4. (lower = None \/ lower \in Nat) /\ (upper = None \/ upper \in Nat)
    BY <2>1, <2>2
  <2>5. upper = None /\ line # {} => EndOfTimeline(db, line) = db.registry[id].erased
    BY <2>1, <2>3, <2>4, TimelineEnds
  <2>6. ASSUME NEW t \in db.registry[id].created..clock, NEW h \in VersionsOf(db, id),
               lower # None => lower <= t, upper # None => t <= upper,
               db.history[h].from <= t, db.history[h].to # None => t < db.history[h].to
        PROVE  {k \in line : db.history[k].from <= t} # {} /\ ReadAt(db, line, t) = h
    <3>1. t \in Nat /\ db.registry[id].created <= t
      BY <2>1, <2>2
    <3>2. QED
      BY <2>1, <2>3, <2>4, <2>6, <3>1, TimelineReads
  <2>7. QED
    BY <2>5, <2>6
<1>2. QED
  BY <1>1, InitSound, NextFollows, PTL DEF Spec
=============================================================================
